---------------------------- MODULE CommandLine -----------------------------
(***************************************************************************)
(* parseCmdArguments of main.cpp.  It registers its flags and their        *)
(* validators with the flag parser of the core library, calls parse,       *)
(* matchFlags and options, and keeps or refuses what they leave.           *)
(*                                                                         *)
(* The library is not part of the repository, and only what the calls      *)
(* rely on is taken from it: parse stops at an argument that is neither a  *)
(* flag with its value nor an option, matchFlags stores each registered    *)
(* flag that was given and then calls its validator.  In which order, the  *)
(* code does not say: it may be any.  A flag is given at most once.        *)
(***************************************************************************)
EXTENDS Integers, Sequences

CONSTANTS
    CommandLines,    \* the arguments the program may be given
    MEGABYTE         \* bytes of emulated memory

\* An argument: a flag with its value, an option, or neither.
FlagNames == {"f", "dump-start", "dump-end", "imm-values-fmt", "unknown"}
OptionNames == {"exec", "verbose", "dump-memory", "unknown"}
Argument == [flag : FlagNames, value : Int] \cup [option : OptionNames] \cup [malformed : {"text"}]

ASSUME CommandLineConstants ==
    /\ CommandLines \subseteq Seq(Argument)
    /\ MEGABYTE \in Nat \ {0}

VARIABLES
    args,            \* argv without the name of the program
    given,           \* the arguments parse understood
    unmatched,       \* the registered flags matchFlags has not come to
    argsAreOk,
    cmdArgs,         \* the global CommandLineArguments
    parsing          \* the next call, or the result

commandLineVars == <<args, given, unmatched, argsAreOk, cmdArgs, parsing>>

\* Mutant: the dump ends one byte after the memory.
DefaultsPastTheMemory ==
    [fileName |-> "", execFlag |-> FALSE, verboseFlag |-> FALSE, dumpMemory |-> FALSE,
     dumpStart |-> 0, dumpEnd |-> MEGABYTE + 1, immValuesFmt |-> 0]

Defaults ==
    [fileName |-> "", execFlag |-> FALSE, verboseFlag |-> FALSE, dumpMemory |-> FALSE,
     dumpStart |-> 0, dumpEnd |-> MEGABYTE, immValuesFmt |-> 0]

CommandLineInit ==
    /\ args \in CommandLines
    /\ given = <<>>
    /\ unmatched = {}
    /\ argsAreOk = FALSE
    /\ cmdArgs = Defaults
    /\ parsing = "parse"

\* Mutant: --dump-memory does not silence --verbose.
IsVerboseAlways(a) == a.verboseFlag

IsVerbose(a) == a.verboseFlag /\ ~a.dumpMemory

FlagsIn(arguments) ==
    {arguments[k] : k \in {n \in DOMAIN arguments : "flag" \in DOMAIN arguments[n]}}
OptionsIn(arguments) ==
    {arguments[k].option : k \in {n \in DOMAIN arguments : "option" \in DOMAIN arguments[n]}}
Malformed == {k \in DOMAIN args : "malformed" \in DOMAIN args[k]}

Registered == FlagNames \ {"unknown"}

\* parse.  It keeps what comes before the argument that it stops at, or less.
Parse ==
    /\ parsing = "parse" /\ args # <<>>
    /\ IF Malformed = {} THEN given' = args
       ELSE \E n \in 0..Len(args) :
              (\A k \in Malformed : n < k) /\ given' = SubSeq(args, 1, n)
    /\ argsAreOk' = (Malformed = {})
    /\ unmatched' = {a \in FlagsIn(given') : a.flag \in Registered}
    /\ parsing' = "matchFlags"
    /\ UNCHANGED <<args, cmdArgs>>

\* Mutant: the range may not be a single byte.
ValidatorWithRoom(name, a) ==
    CASE name = "dump-start"     -> a.dumpStart + 1 < a.dumpEnd
      [] name = "dump-end"       -> a.dumpEnd > a.dumpStart + 1
      [] name = "imm-values-fmt" -> a.immValuesFmt \in 0..3
      [] OTHER                   -> TRUE

\* Mutant: each end is compared with the other's default.
ValidatorOfDefaults(name, a) ==
    CASE name = "dump-start"     -> a.dumpStart < MEGABYTE
      [] name = "dump-end"       -> a.dumpEnd > 0
      [] name = "imm-values-fmt" -> a.immValuesFmt \in 0..3
      [] OTHER                   -> TRUE

\* The validators: they see the flag's value, and of the others what has been
\* stored so far.
Validator(name, a) ==
    CASE name = "dump-start"     -> a.dumpStart < a.dumpEnd
      [] name = "dump-end"       -> a.dumpEnd > a.dumpStart
      [] name = "imm-values-fmt" -> a.immValuesFmt \in 0..3
      [] OTHER                   -> TRUE

Stored(a) ==
    CASE a.flag = "f"              -> [cmdArgs EXCEPT !.fileName = "file"]
      [] a.flag = "dump-start"     -> [cmdArgs EXCEPT !.dumpStart = a.value]
      [] a.flag = "dump-end"       -> [cmdArgs EXCEPT !.dumpEnd = a.value]
      [] a.flag = "imm-values-fmt" -> [cmdArgs EXCEPT !.immValuesFmt = a.value]

\* matchFlags, one flag; at the first error it returns.
MatchFlag(a) ==
    /\ parsing = "matchFlags" /\ a \in unmatched
    /\ cmdArgs' = Stored(a)
    /\ unmatched' = unmatched \ {a}
    /\ IF Validator(a.flag, cmdArgs') THEN UNCHANGED <<argsAreOk, parsing>>
       ELSE argsAreOk' = FALSE /\ parsing' = "options"
    /\ UNCHANGED <<args, given>>

FileGiven == \E a \in FlagsIn(given) : a.flag = "f"

RequiredFlagMissing ==
    /\ parsing = "matchFlags" /\ ~FileGiven
    /\ argsAreOk' = FALSE
    /\ parsing' = "options"
    /\ UNCHANGED <<args, given, unmatched, cmdArgs>>

\* The result of matchFlags replaces that of parse.
AllMatched ==
    /\ parsing = "matchFlags" /\ unmatched = {} /\ FileGiven
    /\ argsAreOk' = TRUE
    /\ parsing' = "options"
    /\ UNCHANGED <<args, given, unmatched, cmdArgs>>

\* parser.options, and the end of parseCmdArguments.
CheckOptions ==
    /\ parsing = "options"
    /\ cmdArgs' = [cmdArgs EXCEPT !.execFlag = "exec" \in OptionsIn(given),
                                  !.verboseFlag = "verbose" \in OptionsIn(given),
                                  !.dumpMemory = "dump-memory" \in OptionsIn(given)]
    /\ parsing' = IF argsAreOk THEN "accepted" ELSE "refused"
    /\ UNCHANGED <<args, given, unmatched, argsAreOk>>

\* argc is 1.
NoArguments ==
    /\ parsing = "parse" /\ args = <<>>
    /\ parsing' = "refused"
    /\ UNCHANGED <<args, given, unmatched, argsAreOk, cmdArgs>>

CommandLineNext ==
    \/ Parse \/ (\E a \in unmatched : MatchFlag(a)) \/ RequiredFlagMissing
    \/ AllMatched \/ CheckOptions \/ NoArguments

CommandLineSpec == CommandLineInit /\ [][CommandLineNext]_commandLineVars
-----------------------------------------------------------------------------
CommandLineArguments ==
    [fileName : {"", "file"}, execFlag : BOOLEAN, verboseFlag : BOOLEAN,
     dumpMemory : BOOLEAN, dumpStart : Int, dumpEnd : Int, immValuesFmt : Int]

CommandLineTypeOK ==
    /\ given \in Seq(Argument)
    /\ unmatched \subseteq {a \in FlagsIn(given) : a.flag \in Registered}
    /\ argsAreOk \in BOOLEAN
    /\ cmdArgs \in CommandLineArguments
    /\ parsing \in {"parse", "matchFlags", "options", "accepted", "refused"}

\* An accepted range is not empty, in whatever order the flags were matched:
\* each of the two validators sees only the other's value of the moment, yet
\* one of them is called after both are stored (the validators of dump-start
\* and dump-end).
DumpRangeIsOrdered ==
    parsing = "accepted" => cmdArgs.dumpStart < cmdArgs.dumpEnd

\* The values a validator may see of a flag: the default, and what was given.
ValuesSeen(name, default) == {default} \cup {a.value : a \in {b \in FlagsIn(given) : b.flag = name}}

\* Arguments are refused for a reason: no file, a format that does not exist, or
\* a start that is not below an end, each of them the given one or the default.
\* A range past the default end may so be refused in one order and accepted in
\* another; an argument that could not be parsed is no reason, as its error is
\* overwritten (argsAreOk in parseCmdArguments).
RefusedForAReason ==
    parsing = "refused" =>
      \/ ~FileGiven
      \/ \E v \in ValuesSeen("imm-values-fmt", 0) : v \notin 0..3
      \/ \E start \in ValuesSeen("dump-start", 0), end \in ValuesSeen("dump-end", MEGABYTE) :
            start >= end
=============================================================================
