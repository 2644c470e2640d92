------------------------- MODULE CommandLine_proofs -------------------------
(***************************************************************************)
(* Which command lines are accepted and which are refused, for every       *)
(* command line, every size of the memory and every order of the flags.    *)
(***************************************************************************)
EXTENDS CommandLine, TLAPS

\* A flag among the arguments has a name and a number.
LEMMA FlagTypes ==
    ASSUME NEW arguments \in Seq(Argument), NEW a \in FlagsIn(arguments)
    PROVE  a.flag \in FlagNames /\ a.value \in Int
<1>1. PICK k \in DOMAIN arguments : "flag" \in DOMAIN arguments[k] /\ a = arguments[k]
  BY DEF FlagsIn
<1>2. a \in Argument
  BY <1>1
<1>3. a \notin [option : OptionNames]
  BY <1>1
<1>4. a \notin [malformed : {"text"}]
  BY <1>1
<1>5. a \in [flag : FlagNames, value : Int]
  BY <1>2, <1>3, <1>4 DEF Argument
<1>6. QED
  BY <1>5

-----------------------------------------------------------------------------
(***************************************************************************)
(* The invariant.  The values stored so far are ones the user gave or the  *)
(* defaults; as long as no validator has failed the range is ordered, for  *)
(* each validator that is called checks both of its ends as they are then; *)
(* and when something failed there is a reason.                            *)
(***************************************************************************)
Reason ==
    \/ ~FileGiven
    \/ \E v \in ValuesSeen("imm-values-fmt", 0) : v \notin 0..3
    \/ \E start \in ValuesSeen("dump-start", 0), end \in ValuesSeen("dump-end", MEGABYTE) :
          start >= end

StoredWasSeen ==
    /\ cmdArgs.dumpStart \in ValuesSeen("dump-start", 0)
    /\ cmdArgs.dumpEnd \in ValuesSeen("dump-end", MEGABYTE)
    /\ cmdArgs.immValuesFmt \in ValuesSeen("imm-values-fmt", 0)

Ordered == cmdArgs.dumpStart < cmdArgs.dumpEnd

ArgumentsInv ==
    /\ args \in Seq(Argument)
    /\ CommandLineTypeOK
    /\ parsing = "parse" => given = <<>> /\ cmdArgs = Defaults
    /\ parsing = "matchFlags" => StoredWasSeen
    /\ parsing \in {"parse", "matchFlags", "accepted"} => Ordered
    /\ parsing = "options" /\ argsAreOk => Ordered
    /\ parsing = "options" /\ ~argsAreOk => Reason
    /\ parsing = "refused" => Reason

LEMMA DefaultsType ==
    Defaults \in CommandLineArguments /\ Defaults.dumpStart = 0 /\ Defaults.dumpEnd = MEGABYTE
        /\ Defaults.immValuesFmt = 0 /\ 0 < MEGABYTE
BY CommandLineConstants DEF CommandLineConstants, Defaults, CommandLineArguments

LEMMA NothingGiven == FlagsIn(<<>>) = {}
BY DEF FlagsIn

LEMMA InitInv == CommandLineInit => ArgumentsInv
<1> SUFFICES ASSUME CommandLineInit PROVE ArgumentsInv
  OBVIOUS
<1>1. args \in Seq(Argument)
  BY CommandLineConstants DEF CommandLineInit, CommandLineConstants
<1>2. given = <<>> /\ unmatched = {} /\ argsAreOk = FALSE /\ cmdArgs = Defaults /\ parsing = "parse"
  BY DEF CommandLineInit
<1>3. CommandLineTypeOK
  <2>1. given \in Seq(Argument)
    BY <1>2
  <2>2. unmatched \subseteq {a \in FlagsIn(given) : a.flag \in Registered}
    BY <1>2
  <2>3. argsAreOk \in BOOLEAN
    BY <1>2
  <2>4. cmdArgs \in CommandLineArguments
    BY <1>2, DefaultsType
  <2>5. QED
    BY <1>2, <2>1, <2>2, <2>3, <2>4 DEF CommandLineTypeOK
<1>4. Ordered
  BY <1>2, DefaultsType DEF Ordered
<1>5. QED
  BY <1>1, <1>2, <1>3, <1>4 DEF ArgumentsInv

-----------------------------------------------------------------------------
\* What matchFlags stores is of its type, and is what was given.
LEMMA StoredTypes ==
    ASSUME CommandLineTypeOK, NEW a \in unmatched
    PROVE  /\ Stored(a) \in CommandLineArguments
           /\ a.flag # "dump-start" => Stored(a).dumpStart = cmdArgs.dumpStart
           /\ a.flag = "dump-start" => Stored(a).dumpStart = a.value
           /\ a.flag # "dump-end" => Stored(a).dumpEnd = cmdArgs.dumpEnd
           /\ a.flag = "dump-end" => Stored(a).dumpEnd = a.value
           /\ a.flag # "imm-values-fmt" => Stored(a).immValuesFmt = cmdArgs.immValuesFmt
           /\ a.flag = "imm-values-fmt" => Stored(a).immValuesFmt = a.value
<1>1. a \in FlagsIn(given) /\ a.flag \in Registered
  BY DEF CommandLineTypeOK
<1>2. a.value \in Int
  BY <1>1, FlagTypes DEF CommandLineTypeOK
<1>3. a.flag \in {"f", "dump-start", "dump-end", "imm-values-fmt"}
  BY <1>1 DEF Registered, FlagNames
<1>4. cmdArgs \in CommandLineArguments
  BY DEF CommandLineTypeOK
<1>5. CASE a.flag = "f"
  <2>1. Stored(a) = [cmdArgs EXCEPT !.fileName = "file"]
    BY <1>5 DEF Stored
  <2>2. QED
    BY <1>4, <1>5, <2>1 DEF CommandLineArguments
<1>6. CASE a.flag = "dump-start"
  <2>1. Stored(a) = [cmdArgs EXCEPT !.dumpStart = a.value]
    BY <1>6 DEF Stored
  <2>2. QED
    BY <1>2, <1>4, <1>6, <2>1 DEF CommandLineArguments
<1>7. CASE a.flag = "dump-end"
  <2>1. Stored(a) = [cmdArgs EXCEPT !.dumpEnd = a.value]
    BY <1>7 DEF Stored
  <2>2. QED
    BY <1>2, <1>4, <1>7, <2>1 DEF CommandLineArguments
<1>8. CASE a.flag = "imm-values-fmt"
  <2>1. Stored(a) = [cmdArgs EXCEPT !.immValuesFmt = a.value]
    BY <1>8 DEF Stored
  <2>2. QED
    BY <1>2, <1>4, <1>8, <2>1 DEF CommandLineArguments
<1>9. QED
  BY <1>3, <1>5, <1>6, <1>7, <1>8

LEMMA StoredSeen ==
    ASSUME CommandLineTypeOK, StoredWasSeen, NEW a \in unmatched
    PROVE  /\ Stored(a).dumpStart \in ValuesSeen("dump-start", 0)
           /\ Stored(a).dumpEnd \in ValuesSeen("dump-end", MEGABYTE)
           /\ Stored(a).immValuesFmt \in ValuesSeen("imm-values-fmt", 0)
<1>1. a \in FlagsIn(given)
  BY DEF CommandLineTypeOK
<1>2. \A name, default : a.flag = name => a.value \in ValuesSeen(name, default)
  BY <1>1 DEF ValuesSeen
<1>3. QED
  BY <1>2, StoredTypes DEF StoredWasSeen

\* Which values are seen does not change while flags are matched.
LEMMA SameSeen ==
    ASSUME given' = given
    PROVE  /\ \A name, default : ValuesSeen(name, default)' = ValuesSeen(name, default)
           /\ FileGiven' <=> FileGiven
           /\ Reason => Reason'
<1>1. FlagsIn(given)' = FlagsIn(given)
  BY DEF FlagsIn
<1>2. \A name, default : ValuesSeen(name, default)' = ValuesSeen(name, default)
  BY <1>1 DEF ValuesSeen
<1>3. FileGiven' <=> FileGiven
  BY <1>1 DEF FileGiven
<1>4. Reason => Reason'
  BY <1>2, <1>3 DEF Reason
<1>5. QED
  BY <1>2, <1>3, <1>4

\* The validators, one at a time.
LEMMA Validators ==
    ASSUME NEW a
    PROVE  /\ Validator("dump-start", a) <=> a.dumpStart < a.dumpEnd
           /\ Validator("dump-end", a) <=> a.dumpEnd > a.dumpStart
           /\ Validator("imm-values-fmt", a) <=> a.immValuesFmt \in 0..3
           /\ Validator("f", a)
<1>1. Validator("dump-start", a) <=> a.dumpStart < a.dumpEnd
  BY DEF Validator
<1>2. Validator("dump-end", a) <=> a.dumpEnd > a.dumpStart
  BY DEF Validator
<1>3. Validator("imm-values-fmt", a) <=> a.immValuesFmt \in 0..3
  BY DEF Validator
<1>4. Validator("f", a)
  BY DEF Validator
<1>5. QED
  BY <1>1, <1>2, <1>3, <1>4

-----------------------------------------------------------------------------
(***************************************************************************)
(* The steps.                                                              *)
(***************************************************************************)
LEMMA ParseInv == ArgumentsInv /\ Parse => ArgumentsInv'
<1> SUFFICES ASSUME ArgumentsInv, Parse PROVE ArgumentsInv'
  OBVIOUS
<1>1. args \in Seq(Argument) /\ args' = args
  BY DEF ArgumentsInv, Parse
<1>2. given' \in Seq(Argument)
  <2>1. CASE Malformed = {}
    BY <1>1, <2>1 DEF Parse
  <2>2. CASE Malformed # {}
    <3>1. PICK n \in 0..Len(args) : given' = SubSeq(args, 1, n)
      BY <2>2 DEF Parse
    <3>2. SubSeq(args, 1, n) \in Seq(Argument)
      BY <1>1, <3>1
    <3>3. QED
      BY <3>1, <3>2
  <2>3. QED
    BY <2>1, <2>2
<1>3. cmdArgs' = cmdArgs /\ cmdArgs = Defaults /\ parsing' = "matchFlags" /\ parsing = "parse"
  BY DEF Parse, ArgumentsInv
<1>4. CommandLineTypeOK'
  <2>1. unmatched' \subseteq {a \in FlagsIn(given') : a.flag \in Registered}
    BY DEF Parse
  <2>2. argsAreOk' \in BOOLEAN
    BY DEF Parse
  <2>3. cmdArgs' \in CommandLineArguments
    BY <1>3, DefaultsType
  <2>4. QED
    BY <1>2, <1>3, <2>1, <2>2, <2>3 DEF CommandLineTypeOK
<1>5. StoredWasSeen'
  BY <1>3, DefaultsType DEF StoredWasSeen, ValuesSeen
<1>6. Ordered'
  BY <1>3, DefaultsType DEF Ordered
<1>7. QED
  BY <1>1, <1>3, <1>4, <1>5, <1>6 DEF ArgumentsInv

LEMMA MatchFlagInv ==
    ASSUME ArgumentsInv, NEW a \in unmatched, MatchFlag(a)
    PROVE  ArgumentsInv'
<1>1. /\ parsing = "matchFlags" /\ StoredWasSeen /\ Ordered /\ CommandLineTypeOK
      /\ args \in Seq(Argument)
  BY DEF ArgumentsInv, MatchFlag
<1>2. /\ cmdArgs' = Stored(a) /\ given' = given /\ args' = args
      /\ unmatched' \subseteq unmatched
  BY DEF MatchFlag
<1>3. a.flag \in {"f", "dump-start", "dump-end", "imm-values-fmt"}
  BY <1>1 DEF CommandLineTypeOK, Registered, FlagNames
<1>4. StoredWasSeen'
  BY <1>1, <1>2, StoredSeen, SameSeen DEF StoredWasSeen
<1>5. cmdArgs' \in CommandLineArguments
  BY <1>1, <1>2, StoredTypes
<1>6. cmdArgs'.dumpStart \in Int /\ cmdArgs'.dumpEnd \in Int
  BY <1>5 DEF CommandLineArguments
<1>7. CASE Validator(a.flag, cmdArgs')
  <2>1. argsAreOk' = argsAreOk /\ parsing' = "matchFlags"
    BY <1>1, <1>7 DEF MatchFlag
  <2>2. CommandLineTypeOK'
    BY <1>1, <1>2, <1>5, <2>1 DEF CommandLineTypeOK, FlagsIn
  <2>3. Ordered'
    <3>1. CASE a.flag = "dump-start"
      BY <1>7, <3>1, Validators DEF Ordered
    <3>2. CASE a.flag = "dump-end"
      <4>1. cmdArgs'.dumpEnd > cmdArgs'.dumpStart
        BY <1>7, <3>2, Validators
      <4>2. QED
        BY <1>6, <4>1 DEF Ordered
    <3>3. CASE a.flag \notin {"dump-start", "dump-end"}
      BY <1>1, <1>2, <3>3, StoredTypes DEF Ordered
    <3>4. QED
      BY <3>1, <3>2, <3>3
  <2>4. QED
    BY <1>1, <1>2, <1>4, <2>1, <2>2, <2>3 DEF ArgumentsInv
<1>8. CASE ~Validator(a.flag, cmdArgs')
  <2>1. argsAreOk' = FALSE /\ parsing' = "options"
    BY <1>8 DEF MatchFlag
  <2>2. CommandLineTypeOK'
    BY <1>1, <1>2, <1>5, <2>1 DEF CommandLineTypeOK, FlagsIn
  <2>3. Reason'
    <3>1. CASE a.flag \in {"dump-start", "dump-end"}
      <4>1. ~(cmdArgs'.dumpStart < cmdArgs'.dumpEnd)
        BY <1>6, <1>8, <3>1, Validators
      <4>2. cmdArgs'.dumpStart >= cmdArgs'.dumpEnd
        BY <1>6, <4>1
      <4>3. QED
        BY <1>4, <4>2 DEF Reason, StoredWasSeen
    <3>2. CASE a.flag = "imm-values-fmt"
      <4>1. cmdArgs'.immValuesFmt \notin 0..3
        BY <1>8, <3>2, Validators
      <4>2. QED
        BY <1>4, <4>1 DEF Reason, StoredWasSeen
    <3>3. a.flag # "f"
      BY <1>8, Validators
    <3>4. QED
      BY <1>3, <3>1, <3>2, <3>3
  <2>4. QED
    BY <1>1, <1>2, <2>1, <2>2, <2>3 DEF ArgumentsInv
<1>9. QED
  BY <1>7, <1>8

LEMMA RequiredFlagMissingInv == ArgumentsInv /\ RequiredFlagMissing => ArgumentsInv'
<1> SUFFICES ASSUME ArgumentsInv, RequiredFlagMissing PROVE ArgumentsInv'
  OBVIOUS
<1>1. /\ args \in Seq(Argument) /\ CommandLineTypeOK /\ args' = args /\ given' = given
      /\ argsAreOk' = FALSE /\ parsing' = "options"
  BY DEF ArgumentsInv, RequiredFlagMissing
<1>2. CommandLineTypeOK'
  BY <1>1 DEF CommandLineTypeOK, FlagsIn, RequiredFlagMissing
<1>3. Reason'
  BY <1>1, SameSeen DEF Reason, RequiredFlagMissing
<1>4. QED
  BY <1>1, <1>2, <1>3 DEF ArgumentsInv

LEMMA AllMatchedInv == ArgumentsInv /\ AllMatched => ArgumentsInv'
<1> SUFFICES ASSUME ArgumentsInv, AllMatched PROVE ArgumentsInv'
  OBVIOUS
<1>1. /\ args \in Seq(Argument) /\ CommandLineTypeOK /\ args' = args /\ given' = given
      /\ argsAreOk' = TRUE /\ parsing' = "options" /\ cmdArgs' = cmdArgs /\ Ordered
  BY DEF ArgumentsInv, AllMatched
<1>2. CommandLineTypeOK'
  BY <1>1 DEF CommandLineTypeOK, FlagsIn, AllMatched
<1>3. Ordered'
  BY <1>1 DEF Ordered
<1>4. QED
  BY <1>1, <1>2, <1>3 DEF ArgumentsInv

LEMMA CheckOptionsInv == ArgumentsInv /\ CheckOptions => ArgumentsInv'
<1> SUFFICES ASSUME ArgumentsInv, CheckOptions PROVE ArgumentsInv'
  OBVIOUS
<1>1. /\ args \in Seq(Argument) /\ CommandLineTypeOK /\ parsing = "options"
      /\ args' = args /\ given' = given /\ unmatched' = unmatched /\ argsAreOk' = argsAreOk
      /\ argsAreOk \in BOOLEAN
  BY DEF ArgumentsInv, CheckOptions, CommandLineTypeOK
<1>2. /\ cmdArgs' \in CommandLineArguments
      /\ cmdArgs'.dumpStart = cmdArgs.dumpStart /\ cmdArgs'.dumpEnd = cmdArgs.dumpEnd
  <2>1. cmdArgs \in CommandLineArguments
    BY <1>1 DEF CommandLineTypeOK
  <2>2. \A b1, b2, b3 \in BOOLEAN :
          LET c == [cmdArgs EXCEPT !.execFlag = b1, !.verboseFlag = b2, !.dumpMemory = b3]
          IN  c \in CommandLineArguments /\ c.dumpStart = cmdArgs.dumpStart
                /\ c.dumpEnd = cmdArgs.dumpEnd
    BY <2>1 DEF CommandLineArguments
  <2> DEFINE given1 == "exec" \in OptionsIn(given)
             given2 == "verbose" \in OptionsIn(given)
             given3 == "dump-memory" \in OptionsIn(given)
  <2>3. given1 \in BOOLEAN /\ given2 \in BOOLEAN /\ given3 \in BOOLEAN
    OBVIOUS
  <2>4. cmdArgs' = [cmdArgs EXCEPT !.execFlag = given1, !.verboseFlag = given2,
                                   !.dumpMemory = given3]
    BY DEF CheckOptions
  <2> HIDE DEF given1, given2, given3
  <2>5. QED
    BY <2>2, <2>3, <2>4
<1>3. CASE argsAreOk
  <2>1. parsing' = "accepted" /\ Ordered
    BY <1>1, <1>3 DEF CheckOptions, ArgumentsInv
  <2>2. CommandLineTypeOK'
    BY <1>1, <1>2, <2>1 DEF CommandLineTypeOK, FlagsIn
  <2>3. QED
    BY <1>1, <1>2, <2>1, <2>2 DEF ArgumentsInv, Ordered
<1>4. CASE ~argsAreOk
  <2>1. parsing' = "refused" /\ Reason
    BY <1>1, <1>4 DEF CheckOptions, ArgumentsInv
  <2>2. CommandLineTypeOK'
    BY <1>1, <1>2, <2>1 DEF CommandLineTypeOK, FlagsIn
  <2>3. QED
    BY <1>1, <2>1, <2>2, SameSeen DEF ArgumentsInv
<1>5. QED
  BY <1>3, <1>4

LEMMA NoArgumentsInv == ArgumentsInv /\ NoArguments => ArgumentsInv'
<1> SUFFICES ASSUME ArgumentsInv, NoArguments PROVE ArgumentsInv'
  OBVIOUS
<1>1. /\ args \in Seq(Argument) /\ CommandLineTypeOK /\ given = <<>>
      /\ args' = args /\ given' = given /\ parsing' = "refused"
  BY DEF ArgumentsInv, NoArguments
<1>2. CommandLineTypeOK'
  BY <1>1 DEF CommandLineTypeOK, FlagsIn, NoArguments
<1>3. Reason'
  BY <1>1, NothingGiven DEF Reason, FileGiven
<1>4. QED
  BY <1>1, <1>2, <1>3 DEF ArgumentsInv

LEMMA StutterInv == ArgumentsInv /\ UNCHANGED commandLineVars => ArgumentsInv'
<1> SUFFICES ASSUME ArgumentsInv, UNCHANGED commandLineVars PROVE ArgumentsInv'
  OBVIOUS
<1>1. /\ args' = args /\ given' = given /\ unmatched' = unmatched
      /\ argsAreOk' = argsAreOk /\ cmdArgs' = cmdArgs /\ parsing' = parsing
  BY DEF commandLineVars
<1>2. CommandLineTypeOK => CommandLineTypeOK'
  BY <1>1 DEF CommandLineTypeOK, FlagsIn
<1>3. StoredWasSeen => StoredWasSeen'
  BY <1>1, SameSeen DEF StoredWasSeen
<1>4. Ordered => Ordered'
  BY <1>1 DEF Ordered
<1>5. QED
  BY <1>1, <1>2, <1>3, <1>4, SameSeen DEF ArgumentsInv

LEMMA ArgumentsInvNext == ArgumentsInv /\ [CommandLineNext]_commandLineVars => ArgumentsInv'
<1> SUFFICES ASSUME ArgumentsInv, [CommandLineNext]_commandLineVars PROVE ArgumentsInv'
  OBVIOUS
<1>1. CASE Parse
  BY <1>1, ParseInv
<1>2. CASE \E a \in unmatched : MatchFlag(a)
  BY <1>2, MatchFlagInv
<1>3. CASE RequiredFlagMissing
  BY <1>3, RequiredFlagMissingInv
<1>4. CASE AllMatched
  BY <1>4, AllMatchedInv
<1>5. CASE CheckOptions
  BY <1>5, CheckOptionsInv
<1>6. CASE NoArguments
  BY <1>6, NoArgumentsInv
<1>7. CASE UNCHANGED commandLineVars
  BY <1>7, StutterInv
<1>8. QED
  BY <1>1, <1>2, <1>3, <1>4, <1>5, <1>6, <1>7 DEF CommandLineNext

\* The invariant holds in every reachable state.
LEMMA ArgumentsInvariant == CommandLineSpec => []ArgumentsInv
BY ArgumentsInvNext, InitInv, PTL DEF CommandLineSpec

\* The format of numbers is one of the four, too, as long as nothing failed.
FormatInv ==
    parsing \in {"parse", "matchFlags", "accepted"} \/ (parsing = "options" /\ argsAreOk)
      => cmdArgs.immValuesFmt \in 0..3

LEMMA FormatInvNext ==
    ArgumentsInv /\ FormatInv /\ [CommandLineNext]_commandLineVars => FormatInv'
<1> SUFFICES ASSUME ArgumentsInv, FormatInv, [CommandLineNext]_commandLineVars
             PROVE  FormatInv'
  OBVIOUS
<1>1. CASE \E a \in unmatched : MatchFlag(a)
  <2>1. PICK a \in unmatched : MatchFlag(a)
    BY <1>1
  <2>2. /\ CommandLineTypeOK /\ parsing = "matchFlags" /\ cmdArgs' = Stored(a)
        /\ cmdArgs.immValuesFmt \in 0..3
    BY <2>1 DEF ArgumentsInv, FormatInv, MatchFlag
  <2>3. CASE Validator(a.flag, cmdArgs')
    <3>1. CASE a.flag = "imm-values-fmt"
      <4>1. cmdArgs'.immValuesFmt \in 0..3
        BY <2>3, <3>1, Validators
      <4>2. QED
        BY <4>1 DEF FormatInv
    <3>2. CASE a.flag # "imm-values-fmt"
      <4>1. cmdArgs'.immValuesFmt = cmdArgs.immValuesFmt
        BY <2>2, <3>2, StoredTypes
      <4>2. QED
        BY <2>2, <4>1 DEF FormatInv
    <3>3. QED
      BY <3>1, <3>2
  <2>4. CASE ~Validator(a.flag, cmdArgs')
    <3>1. parsing' = "options" /\ ~argsAreOk'
      BY <2>1, <2>4 DEF MatchFlag
    <3>2. QED
      BY <3>1 DEF FormatInv
  <2>5. QED
    BY <2>3, <2>4
<1>2. CASE CheckOptions
  <2>1. /\ parsing = "options" /\ (parsing' = "accepted" => argsAreOk)
        /\ parsing' \in {"accepted", "refused"}
        /\ cmdArgs' = [cmdArgs EXCEPT !.execFlag = "exec" \in OptionsIn(given),
                                      !.verboseFlag = "verbose" \in OptionsIn(given),
                                      !.dumpMemory = "dump-memory" \in OptionsIn(given)]
    BY <1>2 DEF CheckOptions
  <2>2. cmdArgs \in CommandLineArguments
    BY DEF ArgumentsInv, CommandLineTypeOK
  <2>3. \A b1, b2, b3 : [cmdArgs EXCEPT !.execFlag = b1, !.verboseFlag = b2,
                                        !.dumpMemory = b3].immValuesFmt = cmdArgs.immValuesFmt
    BY <2>2 DEF CommandLineArguments
  <2>4. cmdArgs'.immValuesFmt = cmdArgs.immValuesFmt
    BY <2>1, <2>3
  <2>5. QED
    BY <2>1, <2>4 DEF FormatInv
<1>3. CASE Parse \/ RequiredFlagMissing \/ AllMatched \/ NoArguments \/ UNCHANGED commandLineVars
  BY <1>3 DEF FormatInv, Parse, RequiredFlagMissing, AllMatched, NoArguments, commandLineVars
<1>4. QED
  BY <1>1, <1>2, <1>3 DEF CommandLineNext

-----------------------------------------------------------------------------
\* Whatever the arguments, the order of the flags and the size of the memory, a
\* range that is accepted is not empty (the validators of dump-start and
\* dump-end).
THEOREM AcceptedRangesAreOrdered == CommandLineSpec => []DumpRangeIsOrdered
<1>1. ArgumentsInv => DumpRangeIsOrdered
  BY DEF ArgumentsInv, DumpRangeIsOrdered, Ordered
<1>2. QED
  BY <1>1, ArgumentsInvariant, PTL

\* Whatever the arguments and the order of the flags, a command line is only
\* refused without a file, with a format that does not exist, or with a start
\* not below an end; the error of parse never refuses it (argsAreOk).
THEOREM RefusalsHaveReasons == CommandLineSpec => []RefusedForAReason
<1>1. ArgumentsInv => RefusedForAReason
  BY DEF ArgumentsInv, RefusedForAReason, Reason
<1>2. QED
  BY <1>1, ArgumentsInvariant, PTL
=============================================================================
