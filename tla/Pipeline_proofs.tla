-------------------------- MODULE Pipeline_proofs ---------------------------
(***************************************************************************)
(* What main prints, where it leaves the meaning of C++, how what it lists *)
(* and what it executes agree, and where its trace leads to, for every     *)
(* file, command line, size of the memory and of the logger's buffer.      *)
(***************************************************************************)
EXTENDS Pipeline, CommandLine_proofs, Disassembler_proofs, Trace_proofs, TLAPS

\* A step of main leaves the arguments alone once they are parsed.
LEMMA ArgumentsStay ==
    ASSUME [PipelineNext]_pipelineVars, phase # "arguments"
    PROVE  UNCHANGED commandLineVars
<1>1. CASE UNCHANGED pipelineVars
  BY <1>1 DEF pipelineVars, commandLineVars
<1>2. CASE PipelineNext
  BY <1>2 DEF PipelineNext, ParseArguments, Refuse, DebugPrintCmdArguments, ReadFile,
     DecodeFile, FinishDecoding, EncodeListing, WriteListing, CreateEmulationCtx, Emulate,
     DumpMemory, PrintRegisterState, Undefined, Crash, commandLineVars
<1>3. QED
  BY <1>1, <1>2

LEMMA NothingDebugged == Log("L_DEBUG", "arguments") = <<>>
BY DEF Log, LogLevel, MinimumLogLevel

-----------------------------------------------------------------------------
(***************************************************************************)
(* The dump.  A run that executes and dumps is not verbose: the listing,   *)
(* the trace and the blank line are left out, so that nothing is printed   *)
(* before the dump, and nothing follows it.                                *)
(***************************************************************************)
Dumps == Executed /\ cmdArgs.dumpMemory

PrintedInv ==
    /\ phase = "arguments" => out = <<>>
    /\ phase = "refused" => parsing = "refused"
    /\ Dumps /\ phase \notin {"arguments", "ended"} => out = <<>> /\ phase # "listing"
    /\ Dumps /\ phase = "ended" => out = <<Dump>> /\ status = "stopped"

LEMMA PrintedInvNext == PrintedInv /\ [PipelineNext]_pipelineVars => PrintedInv'
<1> SUFFICES ASSUME PrintedInv, [PipelineNext]_pipelineVars
             PROVE  PrintedInv'
  OBVIOUS
<1>1. CASE phase = "arguments"
  <2>1. out = <<>>
    BY <1>1 DEF PrintedInv
  <2>2. CASE ParseArguments
    BY <1>1, <2>1, <2>2 DEF PrintedInv, ParseArguments
  <2>3. CASE Refuse
    BY <1>1, <2>3 DEF PrintedInv, Refuse, commandLineVars, Dumps, Executed
  <2>4. CASE DebugPrintCmdArguments
    BY <1>1, <2>4, NothingDebugged DEF PrintedInv, DebugPrintCmdArguments
  <2>5. CASE UNCHANGED pipelineVars
    BY <1>1, <2>1, <2>5 DEF PrintedInv, pipelineVars
  <2>6. QED
    BY <1>1, <2>2, <2>3, <2>4, <2>5 DEF PipelineNext, ReadFile, DecodeFile, FinishDecoding,
       EncodeListing, WriteListing, CreateEmulationCtx, Emulate, DumpMemory,
       PrintRegisterState, Undefined, Crash
<1>2. CASE phase # "arguments"
  <2>1. cmdArgs' = cmdArgs /\ parsing' = parsing
    BY <1>2, ArgumentsStay DEF commandLineVars
  <2>2. Dumps' <=> Dumps
    BY <2>1 DEF Dumps, Executed
  <2>3. CASE ~Dumps
    <3>1. phase' # "arguments"
      BY <1>2 DEF PipelineNext, ParseArguments, Refuse, DebugPrintCmdArguments, ReadFile,
         DecodeFile, FinishDecoding, EncodeListing, WriteListing, CreateEmulationCtx, Emulate,
         DumpMemory, PrintRegisterState, Undefined, Crash, AfterListing, pipelineVars
    <3>2. phase' = "refused" => phase = "refused"
      BY <1>2 DEF PipelineNext, ParseArguments, Refuse, DebugPrintCmdArguments, ReadFile,
         DecodeFile, FinishDecoding, EncodeListing, WriteListing, CreateEmulationCtx, Emulate,
         DumpMemory, PrintRegisterState, Undefined, Crash, AfterListing, pipelineVars
    <3>3. QED
      BY <2>1, <2>2, <2>3, <3>1, <3>2 DEF PrintedInv
  <2>4. CASE Dumps
    <3>1. ~IsVerbose(cmdArgs) /\ cmdArgs.execFlag /\ cmdArgs.dumpMemory /\ parsing = "accepted"
      BY <2>4 DEF Dumps, Executed, IsVerbose
    <3>2. ~IsListed /\ AfterListing = "loading" /\ Blank = <<>>
      BY <3>1 DEF IsListed, AfterListing, Blank
    <3>3. phase # "ended" => out = <<>> /\ phase # "listing"
      BY <1>2, <2>4 DEF PrintedInv
    <3>4. CASE ReadFile \/ DecodeFile \/ FinishDecoding \/ CreateEmulationCtx
      <4>1. out' = <<>> /\ phase' \in {"decoding", "loading", "emulating"}
        BY <3>2, <3>3, <3>4 DEF ReadFile, DecodeFile, FinishDecoding, CreateEmulationCtx
      <4>2. QED
        BY <4>1 DEF PrintedInv
    <3>5. CASE Emulate
      <4>1. out' = <<>> /\ phase' = "emulating"
        BY <3>1, <3>3, <3>5 DEF Emulate
      <4>2. QED
        BY <4>1 DEF PrintedInv
    <3>6. CASE DumpMemory
      <4>1. out' = <<>> \o <<>> \o <<Dump>> /\ phase' = "ended" /\ status' = "stopped"
        BY <3>2, <3>3, <3>6 DEF DumpMemory, vars
      <4>2. Dump' = Dump
        BY <2>1, <3>6 DEF DumpMemory, vars, Dump
      <4>3. <<>> \o <<>> \o <<Dump>> = <<Dump>>
        OBVIOUS
      <4>4. QED
        BY <4>1, <4>2, <4>3 DEF PrintedInv
    <3>7. CASE Undefined
      <4>1. out' = <<>> /\ phase' = "undefined"
        BY <3>3, <3>7 DEF Undefined
      <4>2. QED
        BY <4>1 DEF PrintedInv
    <3>8. CASE Crash
      <4>1. out = <<>> /\ phase' = "crashed"
        BY <3>3, <3>8 DEF Crash
      <4>2. PICK n \in 0..Len(out) : out' = SubSeq(out, 1, n)
        BY <3>8 DEF Crash
      <4>3. out' = <<>>
        BY <4>1, <4>2
      <4>4. QED
        BY <4>1, <4>3 DEF PrintedInv
    <3>9. CASE UNCHANGED pipelineVars
      <4>1. /\ phase' = phase /\ out' = out /\ status' = status
            /\ memory' = memory
        BY <3>9 DEF pipelineVars, vars
      <4>2. Dump' = Dump
        BY <2>1, <4>1 DEF Dump
      <4>3. QED
        BY <1>2, <2>1, <2>2, <4>1, <4>2 DEF PrintedInv
    <3>10. QED
      BY <1>2, <3>1, <3>3, <3>4, <3>5, <3>6, <3>7, <3>8, <3>9 DEF PipelineNext, ParseArguments,
         Refuse, DebugPrintCmdArguments, EncodeListing, WriteListing, PrintRegisterState
  <2>5. QED
    BY <2>3, <2>4
<1>3. QED
  BY <1>1, <1>2

\* With --exec and --dump-memory nothing but the dump is ever printed, whatever
\* else is asked for (isVerbose, the order of main's last statements).
THEOREM TheDumpIsAlone == PipelineSpec => []DumpIsAlone
<1>1. PipelineInit => PrintedInv
  BY DEF PipelineInit, PrintedInv
<1>2. PrintedInv => DumpIsAlone
  BY DEF PrintedInv, DumpIsAlone, Over, Dumps
<1>3. QED
  BY <1>1, <1>2, PrintedInvNext, PTL DEF PipelineSpec

-----------------------------------------------------------------------------
(***************************************************************************)
(* The types.  Each part of main keeps its own, and changes only while     *)
(* main is in it: the instructions stay what the decoder left when the     *)
(* emulator runs on them.                                                  *)
(***************************************************************************)
BeforeTheEnd == {"arguments", "reading", "decoding"}

PipelineInv ==
    /\ DecoderInv
    /\ ArgumentsInv
    /\ phase \in Phase
    /\ phase \in BeforeTheEnd => status = "none" /\ encoding = "encoding"
    /\ status # "none" => TypeOK /\ program = instructions

\* What a step of main is to the parts.
LEMMA StepsOfTheParts ==
    ASSUME [PipelineNext]_pipelineVars
    PROVE  /\ [DecoderNext]_decoderVars
           /\ [CommandLineNext]_commandLineVars
           /\ phase # "decoding" => UNCHANGED decoderVars
<1>1. CASE UNCHANGED pipelineVars
  BY <1>1 DEF pipelineVars
<1>2. CASE PipelineNext
  <2>1. CASE ParseArguments
    BY <2>1 DEF ParseArguments
  <2>2. CASE DecodeFile
    BY <2>2 DEF DecodeFile
  <2>3. CASE ~ParseArguments /\ ~DecodeFile
    <3>1. UNCHANGED <<decoderVars, commandLineVars>>
      BY <1>2, <2>3 DEF PipelineNext, Refuse, DebugPrintCmdArguments, ReadFile, FinishDecoding,
         EncodeListing, EncoderNext, WriteListing, CreateEmulationCtx, Emulate, DumpMemory,
         PrintRegisterState, Undefined, Crash
    <3>2. QED
      BY <3>1
  <2>4. QED
    BY <2>1, <2>2, <2>3
<1>3. QED
  BY <1>1, <1>2

LEMMA PipelineInvNext == PipelineInv /\ [PipelineNext]_pipelineVars => PipelineInv'
<1> SUFFICES ASSUME PipelineInv, [PipelineNext]_pipelineVars
             PROVE  PipelineInv'
  OBVIOUS
<1>1. DecoderInv'
  BY StepsOfTheParts, DecoderInvNext DEF PipelineInv
<1>2. ArgumentsInv'
  BY StepsOfTheParts, ArgumentsInvNext DEF PipelineInv
<1>3. phase' \in Phase
  BY DEF PipelineInv, PipelineNext, ParseArguments, Refuse, DebugPrintCmdArguments, ReadFile,
     DecodeFile, FinishDecoding, EncodeListing, WriteListing, CreateEmulationCtx, Emulate,
     DumpMemory, PrintRegisterState, Undefined, Crash, AfterListing, Phase, pipelineVars
<1>4. phase' \in BeforeTheEnd => status' = "none" /\ encoding' = "encoding"
  BY DEF PipelineInv, PipelineNext, ParseArguments, Refuse, DebugPrintCmdArguments, ReadFile,
     DecodeFile, FinishDecoding, EncodeListing, WriteListing, CreateEmulationCtx, Emulate,
     DumpMemory, PrintRegisterState, Undefined, Crash, AfterListing, BeforeTheEnd,
     pipelineVars, encoderVars, vars
<1>5. status' # "none" => TypeOK' /\ program' = instructions'
  <2> SUFFICES ASSUME status' # "none" PROVE TypeOK' /\ program' = instructions'
    OBVIOUS
  <2>1. CASE CreateEmulationCtx
    <3>1. DecoderTypeOK /\ UNCHANGED decoderVars
      BY <2>1 DEF PipelineInv, DecoderInv, CreateEmulationCtx
    <3>2. program' = instructions' /\ instructions' \in Seq(Instruction)
      BY <2>1, <3>1 DEF DecoderTypeOK, decoderVars, CreateEmulationCtx
    <3>3. registers' \in [RegisterType -> Word] /\ memory' \in [Address -> Byte]
      BY <2>1 DEF CreateEmulationCtx, Word, Byte
    <3>4. status' \in Status
      BY <2>1 DEF CreateEmulationCtx, Status
    <3>5. QED
      BY <3>2, <3>3, <3>4 DEF TypeOK
  <2>2. CASE Emulate
    <3>1. status = "running" /\ program' = program /\ instructions' = instructions
      BY <2>2 DEF Emulate, Next, EmulateNext, EmulateMov, EmulateAdd, EmulateSub,
         EmulateFlagJump, EmulateLoop, EmulateUnsupported, PanicOnAddress, UndefinedRegister,
         Stop, decoderVars
    <3>2. TypeOK /\ [Next]_vars
      BY <2>2, <3>1 DEF PipelineInv, Emulate
    <3>3. QED
      BY <3>1, <3>2, TypeNext DEF PipelineInv
  <2>3. CASE ~CreateEmulationCtx /\ ~Emulate
    <3>1. UNCHANGED vars
      BY <2>3 DEF PipelineNext, ParseArguments, Refuse, DebugPrintCmdArguments, ReadFile,
         DecodeFile, FinishDecoding, EncodeListing, WriteListing, DumpMemory,
         PrintRegisterState, Undefined, Crash, pipelineVars
    <3>2. status # "none" /\ phase # "decoding"
      BY <3>1 DEF PipelineInv, BeforeTheEnd, vars
    <3>3. UNCHANGED decoderVars
      BY <3>2, StepsOfTheParts
    <3>4. QED
      BY <3>1, <3>2, <3>3 DEF PipelineInv, TypeOK, decoderVars, vars
  <2>4. QED
    BY <2>1, <2>2, <2>3
<1>6. QED
  BY <1>1, <1>2, <1>3, <1>4, <1>5 DEF PipelineInv

LEMMA PipelineInvariant == PipelineSpec => []PipelineInv
<1>1. PipelineInit => PipelineInv
  BY DecoderInvInit, InitInv DEF PipelineInit, PipelineInv, EncoderInit, Phase
<1>2. QED
  BY <1>1, PipelineInvNext, PTL DEF PipelineSpec

\* Main's state has its types, whatever the file and the arguments; the
\* emulator's registers are words and its memory bytes in it, too.
THEOREM PipelineTypes == PipelineSpec => []PipelineTypeOK
<1>1. PipelineInv => PipelineTypeOK
  BY DEF PipelineInv, PipelineTypeOK, ArgumentsInv, TypeOK
<1>2. QED
  BY <1>1, PipelineInvariant, PTL

\* What is proved of the command line holds in the program: parseCmdArguments is
\* called once, and main leaves the arguments alone after it.
THEOREM ArgumentsInTheProgram == PipelineSpec => [](DumpRangeIsOrdered /\ RefusedForAReason)
<1>1. PipelineInv => DumpRangeIsOrdered /\ RefusedForAReason
  BY DEF PipelineInv, ArgumentsInv, DumpRangeIsOrdered, RefusedForAReason, Ordered, Reason
<1>2. QED
  BY <1>1, PipelineInvariant, PTL

-----------------------------------------------------------------------------
(***************************************************************************)
(* The causes of undefined behaviour.  The end of the dump is the default, *)
(* which lies in the memory, or stands among the arguments; a segment      *)
(* register without a name or a cell is a field of some instruction, and   *)
(* the instructions stay once a listing or an execution has met it.        *)
(***************************************************************************)
HasOddSegment == \E k \in DOMAIN instructions : OddSegment(instructions[k])

DumpEndIsGiven ==
    /\ FlagsIn(given) \subseteq FlagsIn(args)
    /\ \/ cmdArgs.dumpEnd = MEGABYTE
       \/ \E a \in FlagsIn(args) : a.flag = "dump-end" /\ a.value = cmdArgs.dumpEnd

CauseInv ==
    /\ DumpEndIsGiven
    /\ i \in Nat
    /\ encoding = "undefined" => HasOddSegment
    /\ status = "undefined" => HasOddSegment
    /\ phase = "undefined" => cmdArgs.dumpEnd > MEGABYTE \/ HasOddSegment

\* What parse keeps, it was given.
LEMMA KeptWasGiven ==
    ASSUME args \in Seq(Argument), Parse
    PROVE  FlagsIn(given)' \subseteq FlagsIn(args)
<1>1. CASE Malformed = {}
  BY <1>1 DEF Parse, FlagsIn
<1>2. CASE Malformed # {}
  <2>1. PICK n \in 0..Len(args) : given' = SubSeq(args, 1, n)
    BY <1>2 DEF Parse
  <2>2. \A k \in DOMAIN given' : k \in DOMAIN args /\ given'[k] = args[k]
    BY <2>1
  <2>3. QED
    BY <2>2 DEF FlagsIn
<1>3. QED
  BY <1>1, <1>2

LEMMA DumpEndIsGivenNext ==
    ASSUME ArgumentsInv, DumpEndIsGiven, [CommandLineNext]_commandLineVars
    PROVE  DumpEndIsGiven'
<1>1. CASE Parse
  <2>1. FlagsIn(given)' \subseteq FlagsIn(args)
    BY <1>1, KeptWasGiven DEF ArgumentsInv
  <2>2. args' = args /\ cmdArgs' = cmdArgs
    BY <1>1 DEF Parse
  <2>3. FlagsIn(args)' = FlagsIn(args)
    BY <2>2
  <2>4. QED
    BY <2>1, <2>2, <2>3 DEF DumpEndIsGiven
<1>2. CASE \E a \in unmatched : MatchFlag(a)
  <2>1. PICK a \in unmatched : MatchFlag(a)
    BY <1>2
  <2>2. CommandLineTypeOK /\ args' = args /\ given' = given /\ cmdArgs' = Stored(a)
    BY <2>1 DEF ArgumentsInv, MatchFlag
  <2>3. FlagsIn(args)' = FlagsIn(args) /\ FlagsIn(given)' = FlagsIn(given)
    BY <2>2
  <2>4. a \in FlagsIn(args)
    BY <2>2 DEF CommandLineTypeOK, DumpEndIsGiven
  <2>5. cmdArgs'.dumpEnd = cmdArgs.dumpEnd
           \/ (a.flag = "dump-end" /\ cmdArgs'.dumpEnd = a.value)
    BY <2>2, StoredTypes
  <2>6. QED
    BY <2>3, <2>4, <2>5 DEF DumpEndIsGiven
<1>3. CASE CheckOptions
  <2>1. /\ args' = args /\ given' = given
        /\ cmdArgs' = [cmdArgs EXCEPT !.execFlag = "exec" \in OptionsIn(given),
                                      !.verboseFlag = "verbose" \in OptionsIn(given),
                                      !.dumpMemory = "dump-memory" \in OptionsIn(given)]
    BY <1>3 DEF CheckOptions
  <2>2. cmdArgs \in CommandLineArguments
    BY DEF ArgumentsInv, CommandLineTypeOK
  <2>3. \A b1, b2, b3 : [cmdArgs EXCEPT !.execFlag = b1, !.verboseFlag = b2,
                                        !.dumpMemory = b3].dumpEnd = cmdArgs.dumpEnd
    BY <2>2 DEF CommandLineArguments
  <2>4. cmdArgs'.dumpEnd = cmdArgs.dumpEnd
    BY <2>1, <2>3
  <2>5. FlagsIn(args)' = FlagsIn(args) /\ FlagsIn(given)' = FlagsIn(given)
    BY <2>1
  <2>6. QED
    BY <2>4, <2>5 DEF DumpEndIsGiven
<1>4. CASE RequiredFlagMissing \/ AllMatched \/ NoArguments \/ UNCHANGED commandLineVars
  <2>1. args' = args /\ given' = given /\ cmdArgs' = cmdArgs
    BY <1>4 DEF RequiredFlagMissing, AllMatched, NoArguments, commandLineVars
  <2>2. FlagsIn(args)' = FlagsIn(args) /\ FlagsIn(given)' = FlagsIn(given)
    BY <2>1
  <2>3. QED
    BY <2>1, <2>2 DEF DumpEndIsGiven
<1>5. QED
  BY <1>1, <1>2, <1>3, <1>4 DEF CommandLineNext

LEMMA NoNameIsOdd == ASSUME NEW inst, NoSuchName(inst) PROVE OddSegment(inst)
BY DEF NoSuchName, OddSegment

LEMMA NoRegisterIsOdd == ASSUME NEW inst, NoSuchRegister(inst) PROVE OddSegment(inst)
BY DEF NoSuchRegister, OddSegment, SegmentMoves, SegmentOperands, ES, RegisterType

\* The listing and the execution only meet such a segment if there is one.
LEMMA ListingMeetsOddSegments ==
    ASSUME DecoderTypeOK, EncoderNext, i \in Nat, encoding' = "undefined"
    PROVE  HasOddSegment
<1>1. UndefinedName
  BY DEF EncoderNext, EncodeNext, EncodeEnd
<1>2. i + 1 \in DOMAIN instructions /\ NoSuchName(instructions[i + 1])
  BY <1>1 DEF UndefinedName, DecoderTypeOK
<1>3. QED
  BY <1>2, NoNameIsOdd DEF HasOddSegment

LEMMA ExecutionMeetsOddSegments ==
    ASSUME Next, program = instructions, status' = "undefined"
    PROVE  HasOddSegment
<1>1. PICK k \in DOMAIN program : EmulateNext(program[k])
  BY DEF Next, Stop
<1>2. UndefinedRegister(program[k])
  BY <1>1 DEF Next, EmulateNext, EmulateMov, EmulateAdd, EmulateSub, EmulateFlagJump,
     EmulateLoop, EmulateUnsupported, PanicOnAddress
<1>3. QED
  BY <1>2, NoRegisterIsOdd DEF UndefinedRegister, HasOddSegment

LEMMA CauseInvNext == PipelineInv /\ CauseInv /\ [PipelineNext]_pipelineVars => CauseInv'
<1> SUFFICES ASSUME PipelineInv, CauseInv, [PipelineNext]_pipelineVars
             PROVE  CauseInv'
  OBVIOUS
<1>1. DumpEndIsGiven'
  BY StepsOfTheParts, DumpEndIsGivenNext DEF PipelineInv, CauseInv
<1>2. i' \in Nat
  <2>1. CASE EncodeListing
    BY <2>1 DEF CauseInv, EncodeListing, EncoderNext, EncodeNext, UndefinedName, EncodeEnd
  <2>2. CASE ~EncodeListing
    BY <2>2 DEF CauseInv, PipelineNext, ParseArguments, Refuse, DebugPrintCmdArguments,
       ReadFile, DecodeFile, FinishDecoding, WriteListing, CreateEmulationCtx, Emulate,
       DumpMemory, PrintRegisterState, Undefined, Crash, pipelineVars, encoderVars
  <2>3. QED
    BY <2>1, <2>2
<1>3. HasOddSegment => HasOddSegment' \/ phase = "decoding"
  BY StepsOfTheParts DEF HasOddSegment, decoderVars
<1>4. encoding' = "undefined" => HasOddSegment'
  <2> SUFFICES ASSUME encoding' = "undefined" PROVE HasOddSegment'
    OBVIOUS
  <2>1. CASE EncodeListing
    <3>1. HasOddSegment
      BY <2>1, ListingMeetsOddSegments DEF PipelineInv, DecoderInv, CauseInv, EncodeListing
    <3>2. QED
      BY <1>3, <2>1, <3>1 DEF EncodeListing
  <2>2. CASE ~EncodeListing
    <3>1. encoding = "undefined"
      BY <2>2 DEF PipelineNext, ParseArguments, Refuse, DebugPrintCmdArguments, ReadFile,
         DecodeFile, FinishDecoding, WriteListing, CreateEmulationCtx, Emulate, DumpMemory,
         PrintRegisterState, Undefined, Crash, pipelineVars, encoderVars
    <3>2. phase # "decoding"
      BY <3>1 DEF PipelineInv, BeforeTheEnd
    <3>3. QED
      BY <1>3, <3>1, <3>2 DEF CauseInv
  <2>3. QED
    BY <2>1, <2>2
<1>5. status' = "undefined" => HasOddSegment'
  <2> SUFFICES ASSUME status' = "undefined" PROVE HasOddSegment'
    OBVIOUS
  <2>1. CASE Emulate
    <3>1. status # "none"
      BY <2>1 DEF Emulate, Next
    <3>2. HasOddSegment
      BY <2>1, <3>1, ExecutionMeetsOddSegments DEF PipelineInv, Emulate
    <3>3. QED
      BY <1>3, <2>1, <3>2 DEF Emulate
  <2>2. CASE ~Emulate
    <3>1. status = "undefined"
      BY <2>2 DEF PipelineNext, ParseArguments, Refuse, DebugPrintCmdArguments, ReadFile,
         DecodeFile, FinishDecoding, EncodeListing, WriteListing, CreateEmulationCtx,
         DumpMemory, PrintRegisterState, Undefined, Crash, pipelineVars, vars
    <3>2. phase # "decoding"
      BY <3>1 DEF PipelineInv, BeforeTheEnd
    <3>3. QED
      BY <1>3, <3>1, <3>2 DEF CauseInv
  <2>3. QED
    BY <2>1, <2>2
<1>6. phase' = "undefined" => (cmdArgs.dumpEnd > MEGABYTE)' \/ HasOddSegment'
  <2> SUFFICES ASSUME phase' = "undefined"
               PROVE  (cmdArgs.dumpEnd > MEGABYTE)' \/ HasOddSegment'
    OBVIOUS
  <2>1. phase # "decoding" /\ phase # "arguments"
    BY DEF PipelineNext, ParseArguments, Refuse, DebugPrintCmdArguments, DecodeFile,
       FinishDecoding, ReadFile, EncodeListing, WriteListing, CreateEmulationCtx, Emulate,
       DumpMemory, PrintRegisterState, Undefined, Crash, AfterListing, pipelineVars
  <2>2. cmdArgs' = cmdArgs
    BY <2>1, ArgumentsStay DEF commandLineVars
  <2>3. cmdArgs.dumpEnd > MEGABYTE \/ HasOddSegment
    BY <2>1 DEF CauseInv, PipelineNext, ParseArguments, Refuse, DebugPrintCmdArguments,
       DecodeFile, FinishDecoding, ReadFile, EncodeListing, WriteListing, CreateEmulationCtx,
       Emulate, DumpMemory, PrintRegisterState, Undefined, Crash, AfterListing, pipelineVars
  <2>4. QED
    BY <1>3, <2>1, <2>2, <2>3
<1>7. QED
  BY <1>1, <1>2, <1>4, <1>5, <1>6 DEF CauseInv

\* segRegTable, ctx.registers and the dumped memory are read past their end only
\* where the file or the arguments ask for it: a segment field without a
\* register, a dump end past the memory (appendReg, getRegister, dumpMemory).
THEOREM OverrunsHaveACause == PipelineSpec => []TablesAreOverrunForACause
<1>1. PipelineInit => CauseInv
  <2> SUFFICES ASSUME PipelineInit PROVE CauseInv
    OBVIOUS
  <2>1. given = <<>> /\ cmdArgs = Defaults
    BY DEF PipelineInit, CommandLineInit
  <2>2. DumpEndIsGiven
    BY <2>1, NothingGiven, DefaultsType DEF DumpEndIsGiven
  <2>3. QED
    BY <2>2 DEF CauseInv, PipelineInit, EncoderInit
<1>2. CauseInv => TablesAreOverrunForACause
  <2> SUFFICES ASSUME CauseInv, phase = "undefined", cmdArgs.dumpEnd > MEGABYTE
               PROVE  \E a \in FlagsIn(args) : a.flag = "dump-end" /\ a.value > MEGABYTE
    BY DEF CauseInv, TablesAreOverrunForACause, HasOddSegment
  <2>1. cmdArgs.dumpEnd # MEGABYTE
    BY CommandLineConstants DEF CommandLineConstants
  <2>2. QED
    BY <2>1 DEF CauseInv, DumpEndIsGiven
<1>3. QED
  BY <1>1, <1>2, PipelineInvariant, CauseInvNext, PTL DEF PipelineSpec

-----------------------------------------------------------------------------
(***************************************************************************)
(* Reading a line.  The width a reader sees is the instruction's: each     *)
(* line has a register, whose name tells it, or a size keyword.            *)
(***************************************************************************)
Wide(operand) ==
    \/ operand[1] = "segment"
    \/ operand[1] = "register" /\ operand[2] = 1
    \/ operand[1] = "memory" /\ operand[2] = "word"

LEMMA WidthOfPair ==
    ASSUME NEW a, NEW b
    PROVE  WidthRead(<<a, b>>) = IF Wide(a) \/ Wide(b) THEN 1 ELSE 0
<1> DEFINE pair == <<a, b>>
<1>1. (\E n \in DOMAIN pair : Wide(pair[n])) <=> Wide(a) \/ Wide(b)
  <2>1. DOMAIN pair = {1, 2} /\ pair[1] = a /\ pair[2] = b
    OBVIOUS
  <2> HIDE DEF pair
  <2>2. QED
    BY <2>1, Zenon
<1>2. WidthRead(pair) = IF \E n \in DOMAIN pair : Wide(pair[n]) THEN 1 ELSE 0
  BY DEF WidthRead, Wide
<1>3. QED
  BY <1>1, <1>2

LEMMA WidthsOfOperands ==
    /\ \A k, u : Wide(Register(k, u)) <=> u = 1
    /\ \A k : Wide(SegmentRegister(k))
    /\ \A v : ~Wide(Number(v))
    /\ \A size, base, v : Wide(Memory(size, base, v)) <=> size = "word"
BY DEF Wide, Register, SegmentRegister, Number, Memory

\* A place: a cell, and the part of it.
Place(c, word, low) == [cell |-> c, isWord |-> word, isLow |-> low]

LEMMA PlacesRead ==
    ASSUME NEW w
    PROVE  /\ \A k : PlaceRead(SegmentRegister(k), w) = Place(RegisterCell(ES + k), TRUE, TRUE)
           /\ \A k, u : PlaceRead(Register(k, u), w) =
                 Place(RegisterCell(IF w = 1 THEN k ELSE k % 4), w = 1, w = 1 \/ k < 4)
           /\ \A operand : operand[1] = "memory" =>
                 PlaceRead(operand, w) = Place(MemoryCell(AddressRead(operand)), w = 1, TRUE)
<1>1. ASSUME NEW k
      PROVE  PlaceRead(SegmentRegister(k), w) = Place(RegisterCell(ES + k), TRUE, TRUE)
  <2>1. SegmentRegister(k)[1] = "segment" /\ SegmentRegister(k)[2] = k
    BY DEF SegmentRegister
  <2>2. QED
    BY <2>1, Zenon DEF PlaceRead, Place
<1>2. ASSUME NEW k, NEW u
      PROVE  PlaceRead(Register(k, u), w) =
                 Place(RegisterCell(IF w = 1 THEN k ELSE k % 4), w = 1, w = 1 \/ k < 4)
  <2>1. Register(k, u)[1] = "register" /\ Register(k, u)[3] = k /\ "register" # "segment"
    BY DEF Register
  <2>2. QED
    BY <2>1, Zenon DEF PlaceRead, Place
<1>3. ASSUME NEW operand, operand[1] = "memory"
      PROVE  PlaceRead(operand, w) = Place(MemoryCell(AddressRead(operand)), w = 1, TRUE)
  <2> DEFINE kind == operand[1]
  <2>1. PlaceRead(operand, w) =
            CASE kind = "segment" -> Place(RegisterCell(ES + operand[2]), TRUE, TRUE)
              [] kind = "register" -> Place(RegisterCell(IF w = 1 THEN operand[3] ELSE operand[3] % 4),
                                            w = 1, w = 1 \/ operand[3] < 4)
              [] kind = "memory" -> Place(MemoryCell(AddressRead(operand)), w = 1, TRUE)
    BY Zenon DEF PlaceRead, Place
  <2>2. kind = "memory"
    BY <1>3
  <2> HIDE DEF kind
  <2>3. QED
    BY <2>1, <2>2, Zenon
<1>4. QED
  BY <1>1, <1>2, <1>3

LEMMA RegisterPlace ==
    ASSUME NEW k, NEW w
    PROVE  PlaceRead(Register(k, w), w) =
              Place(RegisterCell(IF w = 1 THEN k ELSE k % 4), w = 1, w = 1 \/ k < 4)
<1>1. \A m, u : PlaceRead(Register(m, u), w) =
                 Place(RegisterCell(IF w = 1 THEN m ELSE m % 4), w = 1, w = 1 \/ m < 4)
  BY PlacesRead
<1>2. QED
  BY <1>1, Zenon

LEMMA ValuesRead ==
    ASSUME NEW w
    PROVE  /\ \A v : ValueRead(Number(v), w) = v % (IF w = 1 THEN 65536 ELSE 256)
           /\ \A operand : operand[1] # "number" =>
                 ValueRead(operand, w) = PartOf(PlaceRead(operand, w), Read(PlaceRead(operand, w).cell))
<1>1. \A v : Number(v)[1] = "number" /\ Number(v)[2] = v
  BY DEF Number
<1>2. \A v : ValueRead(Number(v), w) = v % (IF w = 1 THEN 65536 ELSE 256)
  BY <1>1 DEF ValueRead
<1>3. \A operand : operand[1] # "number" =>
        ValueRead(operand, w) = PartOf(PlaceRead(operand, w), Read(PlaceRead(operand, w).cell))
  BY DEF ValueRead
<1>4. QED
  BY <1>2, <1>3

\* What the emulator takes from a cell is what stands in the part it names.
LEMMA ValueTaken ==
    ASSUME TypeOK, NEW c \in Cell, NEW word \in BOOLEAN, NEW low \in BOOLEAN,
           NEW dst, dst.isWord = word
    PROVE  SourceValue(dst, FromCell(c, word, low)) = PartOf(Place(c, word, word \/ low), Read(c))
<1> DEFINE src == FromCell(c, word, low)
           v == Read(c)
<1>1. v \in Word
  <2>1. 0 \in Word
    BY DEF Word
  <2>2. RegistersOK /\ MemoryOK
    BY DEF TypeOK, RegistersOK, MemoryOK
  <2>3. QED
    BY <2>1, <2>2, CellTypes
<1>2. src.low = LowPart(v) /\ src.hi = HighPart(v) /\ src.isWord = word /\ src.isLow = low
  BY DEF FromCell
<1>3. CombineWord(LowPart(v), HighPart(v)) = v
  BY <1>1, PartsRoundTrip
<1> HIDE DEF src, v
<1>4. CASE word = TRUE
  <2>1. SourceValue(dst, src) = v
    BY <1>2, <1>3, <1>4 DEF SourceValue
  <2>2. PartOf(Place(c, word, word \/ low), v) = v
    BY <1>4 DEF PartOf, Place
  <2>3. QED
    BY <2>1, <2>2 DEF src, v
<1>5. CASE word = FALSE
  <2>1. SourceValue(dst, src) = IF low THEN LowPart(v) ELSE HighPart(v)
    BY <1>2, <1>5 DEF SourceValue, SourceByte
  <2>2. PartOf(Place(c, word, word \/ low), v) = IF low THEN LowPart(v) ELSE HighPart(v)
    BY <1>5 DEF PartOf, Place
  <2>3. QED
    BY <2>1, <2>2 DEF src, v
<1>6. QED
  BY <1>4, <1>5

\* The address of a listed memory operand, from its base and its displacement,
\* is the one the emulator calculates.
LEMMA AddressIsRead ==
    ASSUME TypeOK, NEW inst \in Instruction, OneByteNumbers(inst), FieldsAgree(inst), options \in Options,
           inst.operands \in {"Memory_Register", "Register_Memory", "Memory_Immediate"},
           ~ShownWrong(inst.disp, AddressIsByte(inst)), NEW size
    PROVE  AddressRead(AppendMemory(inst, size)) = EffectiveAddress(inst)
<1> DEFINE v == AppendImm(inst.disp[1], inst.disp[2])
           isByte == AddressIsByte(inst)
           op == AppendMemory(inst, size)
           direct == IsDirectAddrMode(inst.mod, inst.rm)
           base == IF direct THEN 0 ELSE BaseAddress(inst.rm)
           delta == AddressDisplacement(inst.mod, inst.rm, inst.disp)
<1>1. /\ inst.disp[1] \in Byte /\ inst.disp[2] \in Byte /\ inst.rm \in 0..7 /\ inst.mod \in 0..2
  BY InstructionTypes, InstructionShape
<1>2. /\ isByte \in BOOLEAN /\ (isByte => inst.disp[2] = 0)
      /\ isByte <=> inst.mod = 1
  BY DEF AddressIsByte, Is8bitDisplacement, MEMORY_8_BIT_DISPLACEMENT, OneByteNumbers
<1>3. ToU16(v) = WordMeant(inst.disp, isByte)
  <2> HIDE DEF isByte
  <2>1. ~ShownWrong(inst.disp, isByte)
    BY DEF isByte
  <2>2. QED
    BY <1>1, <1>2, <2>1, ImmReadsBack
<1>4. EffectiveAddress(inst) = base + delta
  BY DEF EffectiveAddress, CalcMemoryAddress
<1>5. delta = IF inst.mod = 1 THEN ToI8(inst.disp[1])
              ELSE IF inst.mod = 2 \/ direct THEN ToI16(CombineWord(inst.disp[1], inst.disp[2]))
              ELSE 0
  BY DEF AddressDisplacement, Is8bitDisplacement, Is16bitDisplacement, MEMORY_8_BIT_DISPLACEMENT,
         MEMORY_16_BIT_DISPLACEMENT, IsDirectAddrMode, MEMORY_NO_DISPLACEMENT
<1>6. ToI16(ToU16(v)) = IF inst.mod = 1 THEN ToI8(inst.disp[1])
                        ELSE ToI16(CombineWord(inst.disp[1], inst.disp[2]))
  <2>1. \A b \in Byte : ToI16(SignExtend(b)) = ToI8(b)
    BY DEF Byte, ToI16, SignExtend, ToU16, ToI8
  <2>2. QED
    BY <1>1, <1>2, <1>3, <2>1 DEF WordMeant
<1>7. inst.disp = <<0, 0>> => delta = 0 /\ ToI16(ToU16(0)) = 0
  BY <1>5 DEF ToI16, ToU16, ToI8, CombineWord
<1>8. inst.mod = 0 /\ ~direct => inst.disp = <<0, 0>>
  BY DEF FieldsAgree, IsDirectAddrMode, MEMORY_NO_DISPLACEMENT
<1>9. direct => inst.mod = 0
  BY DEF IsDirectAddrMode, MEMORY_NO_DISPLACEMENT
<1>10. /\ direct => op[3] = -1 /\ op[4] = v
       /\ ~direct => op[3] = inst.rm /\ op[4] = IF inst.disp = <<0, 0>> THEN 0 ELSE v
  BY DEF AppendMemory, Memory
<1>11. AddressRead(op) = (IF op[3] = -1 THEN 0 ELSE BaseAddress(op[3])) + ToI16(ToU16(op[4]))
  BY DEF AddressRead
<1>12. inst.rm # -1
  BY <1>1
<1> HIDE DEF v, isByte, op, direct, delta
<1>13. CASE direct
  <2>1. ToI16(ToU16(v)) = delta
    BY <1>5, <1>6, <1>9, <1>13
  <2>2. AddressRead(op) = 0 + ToI16(ToU16(v))
    BY <1>10, <1>11, <1>13
  <2>3. QED
    BY <1>4, <1>13, <2>1, <2>2 DEF op
<1>14. CASE ~direct /\ inst.disp = <<0, 0>>
  <2>1. AddressRead(op) = BaseAddress(inst.rm) + ToI16(ToU16(0))
    BY <1>10, <1>11, <1>12, <1>14
  <2>2. QED
    BY <1>4, <1>7, <1>14, <2>1 DEF op
<1>15. CASE ~direct /\ inst.disp # <<0, 0>>
  <2>1. inst.mod = 1 \/ inst.mod = 2
    BY <1>1, <1>8, <1>15
  <2>2. ToI16(ToU16(v)) = delta
    BY <1>5, <1>6, <1>15, <2>1
  <2>3. AddressRead(op) = BaseAddress(inst.rm) + ToI16(ToU16(v))
    BY <1>10, <1>11, <1>12, <1>15
  <2>4. QED
    BY <1>4, <1>15, <2>2, <2>3 DEF op
<1>16. QED
  BY <1>13, <1>14, <1>15

\* The address of an accumulator move, with nothing in the registers that the
\* emulator adds to it.
LEMMA AccumulatorAddressIsRead ==
    ASSUME TypeOK, NEW inst \in Instruction, options \in Options,
           inst.operands \in {"Memory_Accumulator", "Accumulator_Memory"},
           ~ShownWrong(inst.data, AddressIsByte(inst)), BaseAddress(0) = 0
    PROVE  AddressRead(Memory("", -1, DataNumber(inst))) = EffectiveAddress(inst)
<1> DEFINE v == AppendImm(inst.data[1], inst.data[2])
           isByte == AddressIsByte(inst)
           word == CombineWord(inst.data[1], inst.data[2])
<1>1. inst.data[1] \in Byte /\ inst.data[2] \in Byte /\ inst.mod = 4 /\ inst.rm = 0
  BY InstructionTypes, InstructionShape
<1>2. isByte = FALSE
  BY <1>1 DEF AddressIsByte, Is8bitDisplacement, MEMORY_8_BIT_DISPLACEMENT
<1>3. ToU16(v) = word
  <2> HIDE DEF isByte
  <2>1. ~ShownWrong(inst.data, isByte)
    BY DEF isByte
  <2>2. ToU16(v) = WordMeant(inst.data, isByte)
    BY <1>1, <1>2, <2>1, ImmReadsBack
  <2>3. QED
    BY <1>2, <2>2 DEF WordMeant
<1>4. EffectiveAddress(inst) = BaseAddress(0) + ToI16(word)
  BY <1>1 DEF EffectiveAddress, CalcMemoryAddress, IsDirectAddrMode, AddressDisplacement,
     Is8bitDisplacement, Is16bitDisplacement, MEMORY_8_BIT_DISPLACEMENT,
     MEMORY_16_BIT_DISPLACEMENT, MEMORY_NO_DISPLACEMENT
<1>5. AddressRead(Memory("", -1, DataNumber(inst))) = 0 + ToI16(ToU16(v))
  BY DEF AddressRead, Memory, DataNumber
<1> HIDE DEF v, word
<1>6. QED
  BY <1>3, <1>4, <1>5

\* The value of a listed number, of the width its line shows.
LEMMA NumberIsTaken ==
    ASSUME NEW inst \in Instruction, OneByteNumbers(inst), options \in Options,
           inst.w = 1 => ~ShownWrong(inst.data, ImmediateIsByte(inst)),
           NEW dst, dst.isWord = (inst.w = 1),
           NEW src, src.low = inst.data[1],
           inst.w = 0 => src.isLow \/ src.hi = inst.data[1],
           inst.w = 1 => src.isWord = (inst.s = 0),
           src.isWord => src.hi = inst.data[2]
    PROVE  ValueRead(Number(DataNumber(inst)), inst.w) = SourceValue(dst, src)
<1> DEFINE v == AppendImm(inst.data[1], inst.data[2])
           isByte == ImmediateIsByte(inst)
<1>1. inst.w \in 0..1 /\ inst.s \in 0..1 /\ inst.data[1] \in Byte /\ inst.data[2] \in Byte
  BY InstructionTypes
<1>2. /\ isByte \in BOOLEAN /\ (isByte => inst.data[2] = 0)
      /\ inst.w = 1 => (isByte <=> inst.s = 1)
  BY DEF ImmediateIsByte, OneByteNumbers
<1>3. ValueRead(Number(DataNumber(inst)), inst.w) = v % (IF inst.w = 1 THEN 65536 ELSE 256)
  BY ValuesRead DEF DataNumber
<1>4. v % 256 = inst.data[1]
  BY <1>1, ByteReadsBack
<1>5. inst.w = 1 => ToU16(v) = WordMeant(inst.data, isByte)
  <2> HIDE DEF isByte
  <2>1. inst.w = 1 => ~ShownWrong(inst.data, isByte)
    BY DEF isByte
  <2>2. QED
    BY <1>1, <1>2, <2>1, ImmReadsBack
<1> HIDE DEF v, isByte
<1>6. CASE inst.w = 0
  <2>1. dst.isWord = FALSE
    <3>1. (inst.w = 1) = FALSE
      BY <1>6
    <3>2. QED
      BY <3>1
  <2>2. SourceValue(dst, src) = IF src.isLow THEN src.low ELSE src.hi
    BY <2>1 DEF SourceValue, SourceByte
  <2>3. SourceValue(dst, src) = inst.data[1]
    BY <1>6, <2>2
  <2>4. QED
    BY <1>3, <1>4, <1>6, <2>3
<1>7. CASE inst.w = 1
  <2>0. dst.isWord = TRUE /\ src.isWord = (inst.s = 0)
    BY <1>7
  <2>1. SourceValue(dst, src) = WordMeant(inst.data, isByte)
    <3>1. SourceValue(dst, src) = IF src.isWord THEN CombineWord(src.low, src.hi) ELSE SignExtend(src.low)
      BY <2>0 DEF SourceValue
    <3>2. CASE inst.s = 0
      <4>1. src.isWord = TRUE /\ isByte = FALSE
        BY <1>2, <1>7, <2>0, <3>2
      <4>2. QED
        BY <3>1, <4>1 DEF WordMeant
    <3>3. CASE inst.s = 1
      <4>1. (inst.s = 0) = FALSE /\ isByte = TRUE
        BY <1>2, <1>7, <3>3
      <4>2. src.isWord = FALSE
        BY <2>0, <4>1
      <4>3. QED
        BY <3>1, <4>1, <4>2 DEF WordMeant
    <3>4. QED
      BY <1>1, <3>2, <3>3
  <2>2. ToU16(v) = v % 65536
    BY DEF ToU16
  <2>3. ValueRead(Number(DataNumber(inst)), inst.w) = v % 65536
    BY <1>3, <1>7
  <2>4. ToU16(v) = WordMeant(inst.data, isByte)
    BY <1>5, <1>7
  <2>5. QED
    BY <2>1, <2>2, <2>3, <2>4
<1>8. QED
  BY <1>1, <1>6, <1>7

-----------------------------------------------------------------------------
(***************************************************************************)
(* The classes of operands, one after the other.                           *)
(***************************************************************************)
ReadAsRun(inst, operands) ==
    LET w == WidthRead(operands) IN
    /\ PlaceRead(operands[1], w) = PlaceWritten(inst)
    /\ ValueRead(operands[2], w) = SourceValue(DestOf(inst), SourceOf(inst))

LEMMA ReadPair ==
    ASSUME NEW inst \in Instruction, NEW a, NEW b, Wide(a) \/ Wide(b) <=> inst.w = 1,
           PlaceRead(a, inst.w) = PlaceWritten(inst),
           ValueRead(b, inst.w) = SourceValue(DestOf(inst), SourceOf(inst))
    PROVE  ReadAsRun(inst, <<a, b>>)
<1>1. inst.w \in 0..1
  BY InstructionTypes
<1>2. WidthRead(<<a, b>>) = inst.w
  <2>1. WidthRead(<<a, b>>) = IF Wide(a) \/ Wide(b) THEN 1 ELSE 0
    BY WidthOfPair
  <2>2. QED
    BY <1>1, <2>1
<1>3. <<a, b>>[1] = a /\ <<a, b>>[2] = b
  OBVIOUS
<1>4. QED
  BY <1>2, <1>3, Zenon DEF ReadAsRun

LEMMA RegisterNamed ==
    ASSUME NEW k, NEW word \in BOOLEAN
    PROVE  GetRegister(k, word, FALSE) = IF word THEN k ELSE k % 4
BY Zenon DEF GetRegister

LEMMA SamePlace ==
    ASSUME NEW c, NEW d, NEW word \in BOOLEAN, NEW wide \in BOOLEAN,
           NEW low \in BOOLEAN, NEW first \in BOOLEAN,
           c = d, word <=> wide, low <=> first
    PROVE  Place(c, word, low) = Place(d, wide, first)
BY DEF Place

LEMMA PlaceWrittenIs ==
    ASSUME NEW inst \in Instruction, NEW c, NEW word \in BOOLEAN, NEW low \in BOOLEAN,
           DestCell(inst) = c, DestOf(inst).isWord <=> word,
           DestOf(inst).isWord \/ DestOf(inst).isLow <=> low
    PROVE  PlaceWritten(inst) = Place(c, word, low)
<1> DEFINE wide == DestOf(inst).isWord
           first == DestOf(inst).isWord \/ DestOf(inst).isLow
<1>1. wide \in BOOLEAN /\ first \in BOOLEAN
  <2>1. DestOf(inst) \in Dest
    BY DestOfType
  <2>2. QED
    BY <2>1 DEF Dest
<1>2. PlaceWritten(inst) = Place(DestCell(inst), wide, first)
  BY Zenon DEF PlaceWritten, Place
<1>3. wide <=> word
  OBVIOUS
<1>4. first <=> low
  OBVIOUS
<1> HIDE DEF wide, first
<1>5. Place(DestCell(inst), wide, first) = Place(c, word, low)
  BY <1>1, <1>3, <1>4, SamePlace
<1>6. QED
  BY <1>2, <1>5

LEMMA WidthBit ==
    ASSUME NEW inst \in Instruction
    PROVE  inst.w = 0 \/ inst.w = 1
BY InstructionTypes

\* A register that is written, and one that is read.
LEMMA RegisterWritten ==
    ASSUME NEW inst \in Instruction, NEW k \in 0..7,
           DestCell(inst) = RegisterCell(GetRegister(k, inst.w = 1, FALSE)),
           DestOf(inst).isWord <=> inst.w = 1,
           DestOf(inst).isLow <=> k < 4
    PROVE  PlaceRead(Register(k, inst.w), inst.w) = PlaceWritten(inst)
<1> DEFINE c == RegisterCell(IF inst.w = 1 THEN k ELSE k % 4)
           word == inst.w = 1
           low == inst.w = 1 \/ k < 4
<1>1. DestCell(inst) = c
  BY RegisterNamed
<1>2. PlaceRead(Register(k, inst.w), inst.w) = Place(c, word, low)
  BY RegisterPlace, Zenon
<1>3. word \in BOOLEAN /\ low \in BOOLEAN
  OBVIOUS
<1>4. DestOf(inst).isWord <=> word
  OBVIOUS
<1>5. DestOf(inst).isWord \/ DestOf(inst).isLow <=> low
  OBVIOUS
<1> HIDE DEF c, word, low
<1>6. PlaceWritten(inst) = Place(c, word, low)
  BY <1>1, <1>3, <1>4, <1>5, PlaceWrittenIs
<1>7. QED
  BY <1>2, <1>6

LEMMA RegisterTaken ==
    ASSUME TypeOK, NEW inst \in Instruction, NEW k \in 0..7, NEW low \in BOOLEAN,
           DestOf(inst).isWord = (inst.w = 1),
           SourceOf(inst) = FromCell(RegisterCell(GetRegister(k, inst.w = 1, FALSE)), inst.w = 1, low),
           inst.w = 0 => (low <=> k < 4)
    PROVE  ValueRead(Register(k, inst.w), inst.w) = SourceValue(DestOf(inst), SourceOf(inst))
<1> DEFINE c == RegisterCell(GetRegister(k, inst.w = 1, FALSE))
           word == inst.w = 1
           some == word \/ low
           a == Register(k, inst.w)
           d == DestOf(inst)
<1>1. c \in Cell
  <2>1. (inst.w = 1) \in BOOLEAN
    OBVIOUS
  <2>2. QED
    BY <2>1, GetRegisterType
<1>2. word \in BOOLEAN /\ some \in BOOLEAN
  OBVIOUS
<1>3. PlaceRead(a, inst.w) = Place(c, word, some)
  <2> DEFINE shown == RegisterCell(IF inst.w = 1 THEN k ELSE k % 4)
             first == inst.w = 1 \/ k < 4
  <2>1. PlaceRead(a, inst.w) = Place(shown, word, first)
    BY RegisterPlace, Zenon
  <2>2. shown = c
    BY RegisterNamed
  <2>3. first \in BOOLEAN
    OBVIOUS
  <2>4. first <=> some
    BY WidthBit
  <2> HIDE DEF shown, first, c, word, some
  <2>5. Place(shown, word, first) = Place(c, word, some)
    BY <1>2, <2>2, <2>3, <2>4, SamePlace
  <2>6. QED
    BY <2>1, <2>5
<1>4. SourceOf(inst) = FromCell(c, word, low) /\ d.isWord = word
  OBVIOUS
<1>5. a[1] # "number"
  BY DEF Register
<1> HIDE DEF c, word, a, d
<1>6. SourceValue(d, FromCell(c, word, low)) = PartOf(Place(c, word, some), Read(c))
  BY <1>1, <1>2, <1>4, ValueTaken
<1>7. Place(c, word, some).cell = c
  BY DEF Place
<1> HIDE DEF some
<1>8. ValueRead(a, inst.w) = PartOf(PlaceRead(a, inst.w), Read(PlaceRead(a, inst.w).cell))
  BY <1>5, ValuesRead
<1>9. ValueRead(a, inst.w) = PartOf(Place(c, word, some), Read(c))
  BY <1>3, <1>7, <1>8, Zenon
<1>10. QED
  BY <1>4, <1>6, <1>9 DEF a, d

\* The same of a place in memory.
LEMMA MemoryWritten ==
    ASSUME NEW inst \in Instruction, NEW op, op[1] = "memory",
           AddressRead(op) = EffectiveAddress(inst),
           DestCell(inst) = MemoryCell(EffectiveAddress(inst)),
           DestOf(inst).isWord <=> inst.w = 1,
           DestOf(inst).isWord \/ DestOf(inst).isLow
    PROVE  PlaceRead(op, inst.w) = PlaceWritten(inst)
<1> DEFINE c == MemoryCell(EffectiveAddress(inst))
           word == inst.w = 1
<1>1. PlaceRead(op, inst.w) = Place(MemoryCell(AddressRead(op)), word, TRUE)
  BY PlacesRead, Zenon
<1>2. MemoryCell(AddressRead(op)) = c
  BY Zenon
<1>3. DestCell(inst) = c /\ word \in BOOLEAN /\ (DestOf(inst).isWord <=> word) /\ TRUE \in BOOLEAN
  OBVIOUS
<1> HIDE DEF c, word
<1>4. PlaceWritten(inst) = Place(c, word, TRUE)
  BY <1>3, PlaceWrittenIs
<1>5. QED
  BY <1>1, <1>2, <1>4, Zenon

LEMMA MemoryTaken ==
    ASSUME TypeOK, NEW inst \in Instruction, NEW op, op[1] = "memory",
           AddressRead(op) = EffectiveAddress(inst), InBounds(EffectiveAddress(inst)),
           DestOf(inst).isWord = (inst.w = 1),
           SourceOf(inst) = FromCell(MemoryCell(EffectiveAddress(inst)), inst.w = 1, TRUE)
    PROVE  ValueRead(op, inst.w) = SourceValue(DestOf(inst), SourceOf(inst))
<1> DEFINE c == MemoryCell(EffectiveAddress(inst))
           word == inst.w = 1
           d == DestOf(inst)
           some == word \/ TRUE
<1>1. c \in Cell
  BY MemoryCellType DEF TypeOK, RegistersOK
<1>2. PlaceRead(op, inst.w) = Place(c, word, some)
  <2>1. PlaceRead(op, inst.w) = Place(MemoryCell(AddressRead(op)), word, TRUE)
    BY PlacesRead, Zenon
  <2>2. some = TRUE
    OBVIOUS
  <2> HIDE DEF some
  <2>3. QED
    BY <2>1, <2>2, Zenon
<1>3. SourceOf(inst) = FromCell(c, word, TRUE) /\ d.isWord = word /\ word \in BOOLEAN
  OBVIOUS
<1> HIDE DEF c, word, d
<1>4. SourceValue(d, FromCell(c, word, TRUE)) = PartOf(Place(c, word, some), Read(c))
  BY <1>1, <1>3, ValueTaken
<1>5. Place(c, word, some).cell = c
  BY DEF Place
<1> HIDE DEF some
<1>6. op[1] # "number"
  OBVIOUS
<1>7. ValueRead(op, inst.w) = PartOf(PlaceRead(op, inst.w), Read(PlaceRead(op, inst.w).cell))
  BY <1>6, ValuesRead
<1>8. ValueRead(op, inst.w) = PartOf(Place(c, word, some), Read(c))
  BY <1>2, <1>5, <1>7, Zenon
<1>9. QED
  BY <1>3, <1>4, <1>8 DEF d

\* An instruction without an immediate operand has no s bit.
LEMMA NoImmediateNoSign ==
    ASSUME NEW inst \in Instruction, inst.operands \notin {"Register_Immediate", "Memory_Immediate"}
    PROVE  ImmediateIsWord(inst) = (inst.w = 1)
<1>1. inst.s \in 0..1 /\ inst.s # 1
  BY InstructionTypes, InstructionShape
<1>2. QED
  BY <1>1 DEF ImmediateIsWord

\* The width of the operands, but for the moves of segment registers.
LEMMA WidthsAgree ==
    ASSUME NEW inst \in Instruction, inst.operands \notin SegmentMoves
    PROVE  DestOf(inst).isWord = (inst.w = 1)
<1>1. DestOf(inst).isWord = (inst.w = 1 \/ inst.operands \in SegmentMoves)
  BY DestFields
<1>2. (inst.operands \in SegmentMoves) = FALSE
  OBVIOUS
<1>3. QED
  BY <1>1, <1>2, Zenon

-----------------------------------------------------------------------------
(***************************************************************************)
(* The classes of operands, one after the other.                           *)
(***************************************************************************)
LEMMA AccumulatorIsTheFirst == \A word \in BOOLEAN : RegisterCell(AX) = RegisterCell(GetRegister(0, word, FALSE))
<1>1. ASSUME NEW word \in BOOLEAN
      PROVE  GetRegister(0, word, FALSE) = 0
  <2>1. 0 % 4 = 0
    OBVIOUS
  <2>2. QED
    BY <2>1, RegisterNamed
<1>2. QED
  BY <1>1 DEF AX

LEMMA RegisterRegisterIsRead ==
    ASSUME TypeOK, NEW inst \in Instruction, inst.operands = "Register_Register"
    PROVE  ReadAsRun(inst, EncodeBasicInstruction(inst))
<1> DEFINE a == Register(inst.rm, inst.w)
           b == Register(inst.reg, inst.w)
           low == IsLowRegister(inst.reg)
<1>1. EncodeBasicInstruction(inst) = <<a, b>>
  BY Zenon DEF EncodeBasicInstruction
<1>2. DestCell(inst) = RegisterCell(GetRegister(inst.rm, inst.w = 1, FALSE))
  BY Zenon DEF DestCell, MemoryDestinations
<1>3. SourceOf(inst) = FromCell(RegisterCell(GetRegister(inst.reg, inst.w = 1, FALSE)), inst.w = 1, low)
  <2>1. SourceCell(inst) = RegisterCell(GetRegister(inst.reg, inst.w = 1, FALSE))
    BY Zenon DEF SourceCell, MemorySources
  <2>2. SourceOf(inst) = FromCell(SourceCell(inst), inst.w = 1, low)
    BY Zenon DEF SourceOf, SegmentMoves
  <2>3. QED
    BY <2>1, <2>2
<1>4. /\ inst.rm \in 0..7 /\ inst.reg \in 0..7 /\ low \in BOOLEAN /\ (low <=> inst.reg < 4)
      /\ DestOf(inst).isWord = (inst.w = 1)
  BY InstructionTypes, WidthsAgree DEF SegmentMoves, IsLowRegister
<1>5. DestOf(inst).isLow = IsLowRegister(inst.rm)
  BY DestFields
<1>6. DestOf(inst).isLow <=> inst.rm < 4
  BY <1>5 DEF IsLowRegister
<1>7. Wide(a) \/ Wide(b) <=> inst.w = 1
  BY WidthsOfOperands
<1>8. PlaceRead(a, inst.w) = PlaceWritten(inst)
  BY <1>2, <1>4, <1>6, RegisterWritten
<1> HIDE DEF low
<1>9. ValueRead(b, inst.w) = SourceValue(DestOf(inst), SourceOf(inst))
  BY <1>3, <1>4, RegisterTaken
<1> HIDE DEF a, b
<1>10. QED
  BY <1>1, <1>7, <1>8, <1>9, ReadPair

LEMMA RegisterImmediateIsRead ==
    ASSUME NEW inst \in Instruction, inst.operands = "Register_Immediate",
           OneByteNumbers(inst), options \in Options, ~Misleads(inst)
    PROVE  ReadAsRun(inst, EncodeBasicInstruction(inst))
<1> DEFINE a == Register(inst.rm, inst.w)
           b == Number(DataNumber(inst))
<1>1. EncodeBasicInstruction(inst) = <<a, b>>
  BY Zenon DEF EncodeBasicInstruction
<1>2. DestCell(inst) = RegisterCell(GetRegister(inst.rm, inst.w = 1, FALSE))
  BY Zenon DEF DestCell, MemoryDestinations
<1>3. SourceOf(inst) = [low |-> inst.data[1], hi |-> inst.data[2],
                        isWord |-> ImmediateIsWord(inst), isLow |-> TRUE]
  BY Zenon DEF SourceOf, SegmentMoves
<1>4. inst.rm \in 0..7 /\ DestOf(inst).isWord = (inst.w = 1)
  BY InstructionTypes, WidthsAgree DEF SegmentMoves
<1>5. DestOf(inst).isLow = IsLowRegister(inst.rm)
  BY DestFields
<1>6. DestOf(inst).isLow <=> inst.rm < 4
  BY <1>5 DEF IsLowRegister
<1>7. Wide(a) \/ Wide(b) <=> inst.w = 1
  BY WidthsOfOperands
<1>8. PlaceRead(a, inst.w) = PlaceWritten(inst)
  BY <1>2, <1>4, <1>6, RegisterWritten
<1> DEFINE src == SourceOf(inst)
<1>9. /\ src.low = inst.data[1] /\ src.hi = inst.data[2] /\ src.isLow = TRUE
      /\ inst.w = 1 => src.isWord = (inst.s = 0)
  BY <1>3 DEF ImmediateIsWord
<1>10. inst.w = 1 => ~ShownWrong(inst.data, ImmediateIsByte(inst))
  BY DEF Misleads
<1> HIDE DEF src
<1>11. ValueRead(b, inst.w) = SourceValue(DestOf(inst), src)
  BY <1>4, <1>9, <1>10, NumberIsTaken
<1> HIDE DEF a, b
<1>12. QED
  BY <1>1, <1>7, <1>8, <1>11, ReadPair DEF src

LEMMA AccumulatorWritten ==
    ASSUME NEW inst \in Instruction, DestCell(inst) = RegisterCell(AX),
           DestOf(inst).isWord <=> inst.w = 1, DestOf(inst).isLow
    PROVE  PlaceRead(Register(0, inst.w), inst.w) = PlaceWritten(inst)
<1>1. PICK k \in 0..7 : k = 0
  OBVIOUS
<1>2. DestCell(inst) = RegisterCell(GetRegister(k, inst.w = 1, FALSE))
  <2>1. (inst.w = 1) \in BOOLEAN
    OBVIOUS
  <2>2. RegisterCell(AX) = RegisterCell(GetRegister(0, inst.w = 1, FALSE))
    BY <2>1, AccumulatorIsTheFirst, Zenon
  <2>3. QED
    BY <1>1, <2>2
<1>3. DestOf(inst).isLow <=> k < 4
  BY <1>1
<1>4. PlaceRead(Register(k, inst.w), inst.w) = PlaceWritten(inst)
  BY <1>2, <1>3, RegisterWritten
<1>5. QED
  BY <1>1, <1>4, Zenon

LEMMA AccumulatorTaken ==
    ASSUME TypeOK, NEW inst \in Instruction, DestOf(inst).isWord = (inst.w = 1),
           SourceOf(inst) = FromCell(RegisterCell(AX), inst.w = 1, TRUE)
    PROVE  ValueRead(Register(0, inst.w), inst.w) = SourceValue(DestOf(inst), SourceOf(inst))
<1>1. PICK k \in 0..7 : k = 0
  OBVIOUS
<1>2. SourceOf(inst) = FromCell(RegisterCell(GetRegister(k, inst.w = 1, FALSE)), inst.w = 1, TRUE)
  <2>1. (inst.w = 1) \in BOOLEAN
    OBVIOUS
  <2>2. RegisterCell(AX) = RegisterCell(GetRegister(0, inst.w = 1, FALSE))
    BY <2>1, AccumulatorIsTheFirst, Zenon
  <2>3. QED
    BY <1>1, <2>2
<1>3. TRUE <=> k < 4
  BY <1>1
<1>4. ValueRead(Register(k, inst.w), inst.w) = SourceValue(DestOf(inst), SourceOf(inst))
  BY <1>2, <1>3, RegisterTaken
<1>5. QED
  BY <1>1, <1>4, Zenon

LEMMA AccumulatorImmediateIsRead ==
    ASSUME NEW inst \in Instruction, inst.operands = "Accumulator_Immediate",
           OneByteNumbers(inst), options \in Options, ~Misleads(inst)
    PROVE  ReadAsRun(inst, EncodeBasicInstruction(inst))
<1> DEFINE a == Register(0, inst.w)
           b == Number(DataNumber(inst))
<1>1. EncodeBasicInstruction(inst) = <<a, b>>
  BY Zenon DEF EncodeBasicInstruction
<1>2. DestCell(inst) = RegisterCell(AX)
  BY Zenon DEF DestCell, MemoryDestinations
<1>3. SourceOf(inst) = [low |-> inst.data[1], hi |-> inst.data[2],
                        isWord |-> ImmediateIsWord(inst), isLow |-> TRUE]
  BY Zenon DEF SourceOf, SegmentMoves
<1>4. DestOf(inst).isWord = (inst.w = 1)
  BY WidthsAgree DEF SegmentMoves
<1>5. DestOf(inst).isLow = TRUE
  BY DestFields
<1>7. Wide(a) \/ Wide(b) <=> inst.w = 1
  BY WidthsOfOperands
<1>8. PlaceRead(a, inst.w) = PlaceWritten(inst)
  BY <1>2, <1>4, <1>5, AccumulatorWritten
<1> DEFINE src == SourceOf(inst)
<1>9. /\ src.low = inst.data[1] /\ src.hi = inst.data[2] /\ src.isLow = TRUE
      /\ inst.w = 1 => src.isWord = (inst.s = 0)
  BY <1>3 DEF ImmediateIsWord
<1>10. inst.w = 1 => ~ShownWrong(inst.data, ImmediateIsByte(inst))
  BY DEF Misleads
<1> HIDE DEF src
<1>11. ValueRead(b, inst.w) = SourceValue(DestOf(inst), src)
  BY <1>4, <1>9, <1>10, NumberIsTaken
<1> HIDE DEF a, b
<1>12. QED
  BY <1>1, <1>7, <1>8, <1>11, ReadPair DEF src

\* The memory operand of the three classes that have an address with a base.
LEMMA AddressOfMemory ==
    ASSUME TypeOK, NEW inst \in Instruction, OneByteNumbers(inst), FieldsAgree(inst),
           options \in Options, OperandsReady(inst), ~Misleads(inst), NEW size,
           inst.operands \in {"Memory_Register", "Register_Memory", "Memory_Immediate"}
    PROVE  /\ AppendMemory(inst, size)[1] = "memory"
           /\ Wide(AppendMemory(inst, size)) <=> size = "word"
           /\ AddressRead(AppendMemory(inst, size)) = EffectiveAddress(inst)
           /\ InBounds(EffectiveAddress(inst))
<1>1. AddressBytes(inst) = inst.disp
  BY DEF AddressBytes
<1>2. ~ShownWrong(inst.disp, AddressIsByte(inst))
  BY <1>1 DEF Misleads
<1>3. AddressRead(AppendMemory(inst, size)) = EffectiveAddress(inst)
  BY <1>2, AddressIsRead
<1>4. InBounds(EffectiveAddress(inst))
  BY DEF OperandsReady, AddressPanics, UsesMemory, MemoryDestinations, MemorySources
<1>5. \E base, v : AppendMemory(inst, size) = Memory(size, base, v)
  BY DEF AppendMemory
<1>6. QED
  BY <1>3, <1>4, <1>5, WidthsOfOperands DEF Memory

LEMMA MemoryRegisterIsRead ==
    ASSUME TypeOK, NEW inst \in Instruction, inst.operands = "Memory_Register",
           OneByteNumbers(inst), FieldsAgree(inst), options \in Options,
           OperandsReady(inst), ~Misleads(inst)
    PROVE  ReadAsRun(inst, EncodeBasicInstruction(inst))
<1> DEFINE a == Register(inst.reg, inst.w)
           b == AppendMemory(inst, "")
<1>1. EncodeBasicInstruction(inst) = <<a, b>>
  BY Zenon DEF EncodeBasicInstruction
<1>2. DestCell(inst) = RegisterCell(GetRegister(inst.reg, inst.w = 1, FALSE))
  BY Zenon DEF DestCell, MemoryDestinations
<1>3. SourceOf(inst) = FromCell(MemoryCell(EffectiveAddress(inst)), inst.w = 1, TRUE)
  <2>1. SourceCell(inst) = MemoryCell(EffectiveAddress(inst))
    BY Zenon DEF SourceCell, MemorySources
  <2>2. SourceOf(inst) = FromCell(SourceCell(inst), ImmediateIsWord(inst), TRUE)
    BY Zenon DEF SourceOf, SegmentMoves
  <2>3. ImmediateIsWord(inst) = (inst.w = 1)
    BY NoImmediateNoSign
  <2>4. QED
    BY <2>1, <2>2, <2>3
<1>4. inst.reg \in 0..7 /\ DestOf(inst).isWord = (inst.w = 1)
  BY InstructionTypes, WidthsAgree DEF SegmentMoves
<1>5. DestOf(inst).isLow = IsLowRegister(inst.reg)
  BY DestFields
<1>6. DestOf(inst).isLow <=> inst.reg < 4
  BY <1>5 DEF IsLowRegister
<1>7. /\ b[1] = "memory" /\ ~Wide(b) /\ AddressRead(b) = EffectiveAddress(inst)
      /\ InBounds(EffectiveAddress(inst))
  <2>1. "" # "word"
    OBVIOUS
  <2> DEFINE none == ""
  <2>2. inst.operands \in {"Memory_Register", "Register_Memory", "Memory_Immediate"} /\ none # "word"
    BY <2>1
  <2> HIDE DEF none
  <2>3. LET op == AppendMemory(inst, none) IN
        /\ op[1] = "memory" /\ ~Wide(op) /\ AddressRead(op) = EffectiveAddress(inst)
        /\ InBounds(EffectiveAddress(inst))
    BY <2>2, AddressOfMemory
  <2>4. QED
    BY <2>3 DEF none
<1>8. Wide(a) \/ Wide(b) <=> inst.w = 1
  BY <1>7, WidthsOfOperands
<1>9. PlaceRead(a, inst.w) = PlaceWritten(inst)
  BY <1>2, <1>4, <1>6, RegisterWritten
<1> HIDE DEF a, b
<1>10. ValueRead(b, inst.w) = SourceValue(DestOf(inst), SourceOf(inst))
  BY <1>3, <1>4, <1>7, MemoryTaken
<1>11. QED
  BY <1>1, <1>8, <1>9, <1>10, ReadPair

\* Stores of a byte register mislead: only the words are left.
LEMMA RegisterMemoryIsRead ==
    ASSUME TypeOK, NEW inst \in Instruction, inst.operands = "Register_Memory",
           OneByteNumbers(inst), FieldsAgree(inst), options \in Options,
           OperandsReady(inst), ~Misleads(inst)
    PROVE  ReadAsRun(inst, EncodeBasicInstruction(inst))
<1> DEFINE a == AppendMemory(inst, "")
           b == Register(inst.reg, inst.w)
<1>1. EncodeBasicInstruction(inst) = <<a, b>>
  BY Zenon DEF EncodeBasicInstruction
<1>2. DestCell(inst) = MemoryCell(EffectiveAddress(inst))
  BY Zenon DEF DestCell, MemoryDestinations
<1>3. inst.w = 1
  BY WidthBit DEF Misleads
<1>4. SourceOf(inst) = FromCell(RegisterCell(GetRegister(inst.reg, inst.w = 1, FALSE)), inst.w = 1, TRUE)
  <2>1. SourceCell(inst) = RegisterCell(GetRegister(inst.reg, TRUE, FALSE))
    BY Zenon DEF SourceCell, MemorySources
  <2>2. SourceOf(inst) = FromCell(SourceCell(inst), TRUE, TRUE)
    BY Zenon DEF SourceOf, SegmentMoves
  <2>3. (inst.w = 1) = TRUE
    BY <1>3
  <2>4. QED
    BY <2>1, <2>2, <2>3, Zenon
<1>5. inst.reg \in 0..7 /\ DestOf(inst).isWord = (inst.w = 1)
  BY InstructionTypes, WidthsAgree DEF SegmentMoves
<1>6. /\ a[1] = "memory" /\ ~Wide(a) /\ AddressRead(a) = EffectiveAddress(inst)
      /\ InBounds(EffectiveAddress(inst))
  <2>1. "" # "word"
    OBVIOUS
  <2> DEFINE none == ""
  <2>2. inst.operands \in {"Memory_Register", "Register_Memory", "Memory_Immediate"} /\ none # "word"
    BY <2>1
  <2> HIDE DEF none
  <2>3. LET op == AppendMemory(inst, none) IN
        /\ op[1] = "memory" /\ ~Wide(op) /\ AddressRead(op) = EffectiveAddress(inst)
        /\ InBounds(EffectiveAddress(inst))
    BY <2>2, AddressOfMemory
  <2>4. QED
    BY <2>3 DEF none
<1>7. Wide(a) \/ Wide(b) <=> inst.w = 1
  BY <1>6, WidthsOfOperands
<1>8. DestOf(inst).isWord \/ DestOf(inst).isLow
  BY <1>3, <1>5
<1>9. inst.w # 0
  BY <1>3
<1>10. ValueRead(b, inst.w) = SourceValue(DestOf(inst), SourceOf(inst))
  BY <1>4, <1>5, <1>9, RegisterTaken
<1> HIDE DEF a, b
<1>11. PlaceRead(a, inst.w) = PlaceWritten(inst)
  BY <1>2, <1>5, <1>6, <1>8, MemoryWritten
<1>12. QED
  BY <1>1, <1>7, <1>10, <1>11, ReadPair

LEMMA MemoryImmediateIsRead ==
    ASSUME TypeOK, NEW inst \in Instruction, inst.operands = "Memory_Immediate",
           OneByteNumbers(inst), FieldsAgree(inst), options \in Options,
           OperandsReady(inst), ~Misleads(inst)
    PROVE  ReadAsRun(inst, EncodeBasicInstruction(inst))
<1> DEFINE size == IF inst.w = 1 THEN "word" ELSE "byte"
           a == AppendMemory(inst, size)
           b == Number(DataNumber(inst))
           src == SourceOf(inst)
<1>1. EncodeBasicInstruction(inst) = <<a, b>>
  BY Zenon DEF EncodeBasicInstruction
<1>2. DestCell(inst) = MemoryCell(EffectiveAddress(inst))
  BY Zenon DEF DestCell, MemoryDestinations
<1>3. src = IF ImmediateIsWord(inst)
            THEN [low |-> inst.data[1], hi |-> inst.data[2], isWord |-> TRUE, isLow |-> FALSE]
            ELSE [low |-> inst.data[1], hi |-> inst.data[1], isWord |-> FALSE, isLow |-> FALSE]
  BY Zenon DEF SourceOf, SegmentMoves
<1>4. DestOf(inst).isWord = (inst.w = 1)
  BY WidthsAgree DEF SegmentMoves
<1>5. size = "word" <=> inst.w = 1
  OBVIOUS
<1> HIDE DEF size
<1>6. /\ a[1] = "memory" /\ (Wide(a) <=> size = "word") /\ AddressRead(a) = EffectiveAddress(inst)
      /\ InBounds(EffectiveAddress(inst))
  BY AddressOfMemory
<1>7. Wide(a) \/ Wide(b) <=> inst.w = 1
  BY <1>5, <1>6, WidthsOfOperands
<1>8. DestOf(inst).isWord \/ DestOf(inst).isLow
  <2>1. DestOf(inst).isLow = (inst.w = 1 \/ ~ImmediateIsWord(inst))
    BY DestFields
  <2>2. QED
    BY <2>1 DEF ImmediateIsWord
<1>9. /\ src.low = inst.data[1] /\ (src.isWord => src.hi = inst.data[2])
      /\ inst.w = 1 => src.isWord = (inst.s = 0)
      /\ inst.w = 0 => src.isLow \/ src.hi = inst.data[1]
  <2> HIDE DEF src
  <2>1. CASE ImmediateIsWord(inst)
    <3>1. src.low = inst.data[1] /\ src.hi = inst.data[2] /\ src.isWord = TRUE
      BY <1>3, <2>1
    <3>2. inst.w = 1 /\ (inst.s = 0) = TRUE
      BY <2>1 DEF ImmediateIsWord
    <3>3. QED
      BY <3>1, <3>2
  <2>2. CASE ~ImmediateIsWord(inst)
    <3>1. src.low = inst.data[1] /\ src.hi = inst.data[1] /\ src.isWord = FALSE
      BY <1>3, <2>2
    <3>2. inst.w = 1 => (inst.s = 0) = FALSE
      BY <2>2 DEF ImmediateIsWord
    <3>3. QED
      BY <3>1, <3>2
  <2>3. QED
    BY <2>1, <2>2
<1>10. inst.w = 1 => ~ShownWrong(inst.data, ImmediateIsByte(inst))
  BY DEF Misleads
<1> HIDE DEF src
<1>11. ValueRead(b, inst.w) = SourceValue(DestOf(inst), src)
  BY <1>4, <1>9, <1>10, NumberIsTaken
<1> HIDE DEF a, b
<1>12. PlaceRead(a, inst.w) = PlaceWritten(inst)
  BY <1>2, <1>4, <1>6, <1>8, MemoryWritten
<1>13. QED
  BY <1>1, <1>7, <1>11, <1>12, ReadPair DEF src

\* The accumulator's address, with nothing in the registers that are added.
LEMMA AddressOfAccumulator ==
    ASSUME TypeOK, NEW inst \in Instruction, options \in Options, OperandsReady(inst), ~Misleads(inst),
           inst.operands \in {"Memory_Accumulator", "Accumulator_Memory"}
    PROVE  LET op == Memory("", -1, DataNumber(inst)) IN
           /\ op[1] = "memory" /\ ~Wide(op)
           /\ AddressRead(op) = EffectiveAddress(inst)
           /\ InBounds(EffectiveAddress(inst))
<1>1. AddressBytes(inst) = inst.data
  BY DEF AddressBytes
<1>2. ~ShownWrong(inst.data, AddressIsByte(inst)) /\ BaseAddress(0) = 0
  BY <1>1 DEF Misleads
<1>3. AddressRead(Memory("", -1, DataNumber(inst))) = EffectiveAddress(inst)
  BY <1>2, AccumulatorAddressIsRead
<1>4. InBounds(EffectiveAddress(inst))
  BY DEF OperandsReady, AddressPanics, UsesMemory, MemoryDestinations, MemorySources
<1>5. "" # "word"
  OBVIOUS
<1> DEFINE none == ""
           op == Memory(none, -1, DataNumber(inst))
<1>6. none # "word"
  BY <1>5
<1> HIDE DEF none
<1>7. op[1] = "memory" /\ ~Wide(op)
  BY <1>6, WidthsOfOperands DEF Memory
<1>8. QED
  BY <1>3, <1>4, <1>7, Zenon DEF none

LEMMA AccumulatorMovesAreRead ==
    ASSUME TypeOK, NEW inst \in Instruction, FieldsAgree(inst), options \in Options,
           inst.operands \in {"Memory_Accumulator", "Accumulator_Memory"},
           OperandsReady(inst), ~Misleads(inst)
    PROVE  ReadAsRun(inst, EncodeBasicInstruction(inst))
<1> DEFINE acc == Register(0, inst.w)
           addr == Memory("", -1, DataNumber(inst))
<1>1. EncodeBasicInstruction(inst) = IF inst.d = 1 THEN <<addr, acc>> ELSE <<acc, addr>>
  BY Zenon DEF EncodeBasicInstruction, AppendMemAcc
<1>2. DestOf(inst).isWord = (inst.w = 1)
  BY WidthsAgree DEF SegmentMoves
<1>3. DestOf(inst).isLow = TRUE
  BY DestFields
<1>4. /\ addr[1] = "memory" /\ ~Wide(addr) /\ AddressRead(addr) = EffectiveAddress(inst)
      /\ InBounds(EffectiveAddress(inst))
  BY AddressOfAccumulator
<1>5. /\ Wide(acc) \/ Wide(addr) <=> inst.w = 1
      /\ Wide(addr) \/ Wide(acc) <=> inst.w = 1
  BY <1>4, WidthsOfOperands
<1>6. CASE inst.operands = "Memory_Accumulator"
  <2>1. DestCell(inst) = RegisterCell(AX)
    BY <1>6, Zenon DEF DestCell, MemoryDestinations
  <2>2. SourceOf(inst) = FromCell(MemoryCell(EffectiveAddress(inst)), inst.w = 1, TRUE)
    <3>1. SourceCell(inst) = MemoryCell(EffectiveAddress(inst))
      BY <1>6, Zenon DEF SourceCell, MemorySources
    <3>2. SourceOf(inst) = FromCell(SourceCell(inst), inst.w = 1, TRUE)
      BY <1>6, Zenon DEF SourceOf, SegmentMoves
    <3>3. QED
      BY <3>1, <3>2
  <2>3. PlaceRead(acc, inst.w) = PlaceWritten(inst)
    BY <1>2, <1>3, <2>1, AccumulatorWritten
  <2>4. EncodeBasicInstruction(inst) = <<acc, addr>>
    <3>1. inst.d # 1
      BY <1>6 DEF FieldsAgree
    <3> HIDE DEF acc, addr
    <3>2. QED
      BY <1>1, <3>1
  <2> HIDE DEF acc, addr
  <2>5. ValueRead(addr, inst.w) = SourceValue(DestOf(inst), SourceOf(inst))
    BY <1>2, <1>4, <2>2, MemoryTaken
  <2>6. QED
    BY <1>5, <2>3, <2>4, <2>5, ReadPair
<1>7. CASE inst.operands = "Accumulator_Memory"
  <2>1. DestCell(inst) = MemoryCell(EffectiveAddress(inst))
    BY <1>7, Zenon DEF DestCell, MemoryDestinations
  <2>2. SourceOf(inst) = FromCell(RegisterCell(AX), inst.w = 1, TRUE)
    <3>1. SourceCell(inst) = RegisterCell(AX)
      BY <1>7, Zenon DEF SourceCell, MemorySources
    <3>2. SourceOf(inst) = FromCell(SourceCell(inst), inst.w = 1, TRUE)
      BY <1>7, Zenon DEF SourceOf, SegmentMoves
    <3>3. QED
      BY <3>1, <3>2
  <2>3. ValueRead(acc, inst.w) = SourceValue(DestOf(inst), SourceOf(inst))
    BY <1>2, <2>2, AccumulatorTaken
  <2>4. EncodeBasicInstruction(inst) = <<addr, acc>>
    <3>1. inst.d = 1
      BY <1>7 DEF FieldsAgree
    <3> HIDE DEF acc, addr
    <3>2. QED
      BY <1>1, <3>1
  <2> HIDE DEF acc, addr
  <2>5. PlaceRead(addr, inst.w) = PlaceWritten(inst)
    BY <1>2, <1>3, <1>4, <2>1, MemoryWritten
  <2>6. QED
    BY <1>5, <2>3, <2>4, <2>5, ReadPair
<1>8. QED
  BY <1>6, <1>7

\* A move of a segment register is of words, whatever its w bit.
LEMMA WordsAreRead ==
    ASSUME TypeOK, NEW inst \in Instruction, NEW a, NEW b, NEW c, NEW d \in Cell,
           Wide(a) \/ Wide(b), b[1] # "number",
           PlaceRead(a, 1) = Place(c, TRUE, TRUE), PlaceRead(b, 1) = Place(d, TRUE, TRUE),
           DestCell(inst) = c, SourceOf(inst) = FromCell(d, TRUE, TRUE),
           inst.operands \in SegmentMoves
    PROVE  ReadAsRun(inst, <<a, b>>)
<1>1. DestOf(inst).isWord = TRUE
  <2>1. DestOf(inst).isWord = (inst.w = 1 \/ inst.operands \in SegmentMoves)
    BY DestFields
  <2>2. (inst.w = 1 \/ inst.operands \in SegmentMoves) = TRUE
    OBVIOUS
  <2>3. QED
    BY <2>1, <2>2, Zenon
<1>2. PlaceWritten(inst) = Place(c, TRUE, TRUE)
  BY <1>1, PlaceWrittenIs
<1>3. SourceValue(DestOf(inst), SourceOf(inst)) = PartOf(Place(d, TRUE, TRUE), Read(d))
  <2>1. (TRUE \/ TRUE) = TRUE
    OBVIOUS
  <2>2. SourceValue(DestOf(inst), FromCell(d, TRUE, TRUE)) = PartOf(Place(d, TRUE, TRUE \/ TRUE), Read(d))
    BY <1>1, ValueTaken
  <2>3. QED
    BY <2>1, <2>2, Zenon
<1>4. ValueRead(b, 1) = PartOf(Place(d, TRUE, TRUE), Read(d))
  <2>1. Place(d, TRUE, TRUE).cell = d
    BY DEF Place
  <2>2. ValueRead(b, 1) = PartOf(PlaceRead(b, 1), Read(PlaceRead(b, 1).cell))
    BY ValuesRead
  <2>3. QED
    BY <2>1, <2>2, Zenon
<1>5. WidthRead(<<a, b>>) = 1
  BY WidthOfPair
<1>6. <<a, b>>[1] = a /\ <<a, b>>[2] = b
  OBVIOUS
<1>7. QED
  BY <1>2, <1>3, <1>4, <1>5, <1>6, Zenon DEF ReadAsRun

LEMMA SegmentMovesAreRead ==
    ASSUME TypeOK, NEW inst \in Instruction, inst.operands \in SegmentMoves, OperandsReady(inst)
    PROVE  ReadAsRun(inst, EncodeBasicInstruction(inst))
<1> DEFINE a == Register(inst.rm, 1)
           b == SegmentRegister(inst.reg)
           c == RegisterCell(inst.rm)
           d == RegisterCell(ES + inst.reg)
<1>1. Wide(a) /\ Wide(b) /\ a[1] # "number" /\ b[1] # "number"
  <2>1. Wide(a) /\ Wide(b)
    BY WidthsOfOperands
  <2>2. QED
    BY <2>1 DEF Register, SegmentRegister
<1>2. PlaceRead(b, 1) = Place(d, TRUE, TRUE)
  BY PlacesRead
<1>3. PlaceRead(a, 1) = Place(c, TRUE, TRUE)
  <2>1. PlaceRead(a, 1) = Place(RegisterCell(IF 1 = 1 THEN inst.rm ELSE inst.rm % 4), 1 = 1, 1 = 1 \/ inst.rm < 4)
    BY RegisterPlace, Zenon
  <2>2. (1 = 1) = TRUE /\ (1 = 1 \/ inst.rm < 4) = TRUE
    OBVIOUS
  <2>3. (IF 1 = 1 THEN inst.rm ELSE inst.rm % 4) = inst.rm
    OBVIOUS
  <2>4. QED
    BY <2>1, <2>2, <2>3, Zenon
<1>4. /\ GetRegister(inst.rm, TRUE, FALSE) = inst.rm
      /\ GetRegister(inst.reg, TRUE, TRUE) = ES + inst.reg
  BY Zenon DEF GetRegister
<1>5. c \in Cell /\ d \in Cell
  <2>1. ES + inst.reg \in RegisterType
    BY DEF OperandsReady, NoSuchRegister
  <2>2. inst.rm \in 0..7 /\ inst.reg \in 0..7
    BY InstructionTypes
  <2>3. QED
    BY <1>4, <2>1, <2>2, GetRegisterType
<1>6. CASE inst.operands = "Register16_SegReg"
  <2>1. EncodeBasicInstruction(inst) = <<b, a>>
    BY <1>6, Zenon DEF EncodeBasicInstruction
  <2>2. DestCell(inst) = d
    BY <1>4, <1>6, Zenon DEF DestCell, MemoryDestinations
  <2>3. SourceOf(inst) = FromCell(c, TRUE, TRUE)
    <3>1. SourceCell(inst) = c
      BY <1>4, <1>6, Zenon DEF SourceCell, MemorySources
    <3>2. SourceOf(inst) = FromCell(SourceCell(inst), TRUE, TRUE)
      BY <1>6, Zenon DEF SourceOf, SegmentMoves
    <3>3. QED
      BY <3>1, <3>2
  <2> HIDE DEF a, b, c, d
  <2>4. QED
    BY <1>1, <1>2, <1>3, <1>5, <2>1, <2>2, <2>3, WordsAreRead
<1>7. CASE inst.operands = "SegReg_Register16"
  <2>1. EncodeBasicInstruction(inst) = <<a, b>>
    BY <1>7, Zenon DEF EncodeBasicInstruction
  <2>2. DestCell(inst) = c
    BY <1>4, <1>7, Zenon DEF DestCell, MemoryDestinations
  <2>3. SourceOf(inst) = FromCell(d, TRUE, TRUE)
    <3>1. SourceCell(inst) = d
      BY <1>4, <1>7, Zenon DEF SourceCell, MemorySources
    <3>2. SourceOf(inst) = FromCell(SourceCell(inst), TRUE, TRUE)
      BY <1>7, Zenon DEF SourceOf, SegmentMoves
    <3>3. QED
      BY <3>1, <3>2
  <2> HIDE DEF a, b, c, d
  <2>4. QED
    BY <1>1, <1>2, <1>3, <1>5, <2>1, <2>2, <2>3, WordsAreRead
<1>8. QED
  BY <1>6, <1>7 DEF SegmentMoves

\* The line of an instruction means what the emulator does, in every class.
LEMMA LineIsRead ==
    ASSUME TypeOK, NEW inst \in Instruction, inst.operands # "ShortLabel",
           OneByteNumbers(inst), FieldsAgree(inst), options \in Options,
           OperandsReady(inst), ~Misleads(inst)
    PROVE  ReadAsRun(inst, EncodeBasicInstruction(inst))
<1>1. inst.operands \in Operands /\ inst.operands \notin UnsupportedOperands
  BY InstructionTypes DEF OperandsReady
<1>2. QED
  BY <1>1, RegisterRegisterIsRead, RegisterImmediateIsRead, AccumulatorImmediateIsRead,
     MemoryRegisterIsRead, RegisterMemoryIsRead, MemoryImmediateIsRead, AccumulatorMovesAreRead,
     SegmentMovesAreRead DEF Operands, UnsupportedOperands, SegmentMoves

-----------------------------------------------------------------------------
(***************************************************************************)
(* The listing in the program.  Its invariant is that of the disassembler, *)
(* whose two loops main calls one after the other; between the two it sets *)
(* the format of numbers, while there is no listing yet, to one that the   *)
(* command line was accepted with.                                         *)
(***************************************************************************)
ListingInv ==
    /\ EncoderInv
    /\ LayoutInv
    /\ NumbersInv
    /\ FormatInv
    /\ phase \in BeforeTheEnd => i = 0 /\ listing = <<>>
    /\ phase \notin {"arguments", "refused"} => parsing = "accepted"

\* ReadFile: whatever the format, it is a format, and nothing is written.
LEMMA ListingReadFile ==
    ASSUME PipelineInv, ListingInv, ReadFile
    PROVE  EncoderInv' /\ LayoutInv'
<1>1. /\ phase = "reading" /\ i = 0 /\ listing = <<>> /\ encoding = "encoding"
      /\ cmdArgs.immValuesFmt \in 0..3
  BY DEF PipelineInv, ListingInv, ReadFile, BeforeTheEnd, FormatInv
<1>2. UNCHANGED decoderVars /\ i' = i /\ byteIdx' = byteIdx /\ listing' = listing /\ encoding' = encoding
  BY DEF ReadFile
<1>3. options' \in Options
  <2>1. options' = <<"NONE", "HEX", "SIGNED", "UNSIGNED">>[cmdArgs.immValuesFmt + 1]
    BY DEF ReadFile
  <2>2. cmdArgs.immValuesFmt + 1 \in {1, 2, 3, 4}
    BY <1>1
  <2>3. options' \in {"NONE", "HEX", "SIGNED", "UNSIGNED"}
    BY <2>1, <2>2
  <2>4. QED
    BY <2>3, PipelineConstants DEF PipelineConstants
<1>4. instructions' = instructions /\ decoding' = decoding
  BY <1>2 DEF decoderVars
<1>5. EncoderInv'
  <2>1. EncoderTypeOK'
    BY <1>2, <1>3, <1>4 DEF ListingInv, EncoderInv, EncoderTypeOK
  <2>2. \A n \in DOMAIN listing' : FALSE
    BY <1>1, <1>2
  <2>3. byteIdx' = StartOf(instructions', i' + 1)
    BY <1>2, <1>4 DEF ListingInv, EncoderInv
  <2>4. QED
    BY <2>1, <2>2, <2>3 DEF EncoderInv
<1>6. LayoutInv'
  <2> DEFINE none == [k \in 1..0 |-> 1]
  <2>1. 1..i' = {} /\ DOMAIN listing' = {} /\ 1..0 = {} /\ encoding' # "done"
    BY <1>1, <1>2
  <2>2. none \in [1..i' -> DOMAIN listing']
    BY <2>1
  <2> HIDE DEF none
  <2>3. Layout(none)'
    BY <2>1, <2>2 DEF Layout, InstructionsInOrder, LabelsBeforeThem, LabelAtTheEnd, NothingElse
  <2>4. QED
    BY <2>2, <2>3 DEF LayoutInv
<1>7. QED
  BY <1>5, <1>6

LEMMA ListingInvNext ==
    PipelineInv /\ ListingInv /\ [PipelineNext]_pipelineVars => ListingInv'
<1> SUFFICES ASSUME PipelineInv, ListingInv, [PipelineNext]_pipelineVars
             PROVE  ListingInv'
  OBVIOUS
<1>1. DisassemblerInv /\ DecoderTypeOK
  BY DEF DisassemblerInv, PipelineInv, ListingInv, DecoderInv
<1>2. NumbersInv'
  BY <1>1, StepsOfTheParts, NumbersInvNext DEF ListingInv
<1>3. FormatInv'
  BY StepsOfTheParts, FormatInvNext DEF PipelineInv, ListingInv
<1>4. EncoderInv' /\ LayoutInv'
  <2>1. CASE ReadFile
    BY <2>1, ListingReadFile
  <2>2. CASE DecodeFile
    <3>1. DecoderNext /\ UNCHANGED encoderVars /\ phase = "decoding"
      BY <2>2 DEF DecodeFile
    <3>2. ListingWaits
      BY <3>1 DEF PipelineInv, ListingInv, ListingWaits, BeforeTheEnd
    <3>3. QED
      BY <1>1, <3>1, <3>2, EncoderInvDecode, LayoutDecode
  <2>3. CASE EncodeListing
    BY <1>1, <2>3, EncoderInvEncode, LayoutEncode DEF EncodeListing, ListingInv
  <2>4. CASE ~ReadFile /\ ~DecodeFile /\ ~EncodeListing
    <3>1. UNCHANGED <<decoderVars, encoderVars>>
      BY <2>4 DEF PipelineNext, ParseArguments, Refuse, DebugPrintCmdArguments, FinishDecoding,
         WriteListing, CreateEmulationCtx, Emulate, DumpMemory, PrintRegisterState, Undefined,
         Crash, pipelineVars
    <3>2. /\ UNCHANGED <<decoderVars, options, i, byteIdx, listing>> /\ encoding' = encoding
      BY <3>1 DEF encoderVars
    <3>3. LayoutInv'
      BY <3>2, LayoutStays DEF ListingInv
    <3>4. EncoderInv'
      BY <3>2 DEF ListingInv, EncoderInv, EncoderTypeOK, decoderVars
    <3>5. QED
      BY <3>3, <3>4
  <2>5. QED
    BY <2>1, <2>2, <2>3, <2>4
<1>5. phase' \in BeforeTheEnd => i' = 0 /\ listing' = <<>>
  BY DEF ListingInv, PipelineNext, ParseArguments, Refuse, DebugPrintCmdArguments, ReadFile,
     DecodeFile, FinishDecoding, EncodeListing, WriteListing, CreateEmulationCtx, Emulate,
     DumpMemory, PrintRegisterState, Undefined, Crash, AfterListing, BeforeTheEnd,
     pipelineVars, encoderVars
<1>6. phase' \notin {"arguments", "refused"} => parsing' = "accepted"
  <2>1. CASE phase = "arguments"
    BY <2>1 DEF PipelineNext, ParseArguments, Refuse, DebugPrintCmdArguments, ReadFile,
       DecodeFile, FinishDecoding, EncodeListing, WriteListing, CreateEmulationCtx, Emulate,
       DumpMemory, PrintRegisterState, Undefined, Crash, pipelineVars, commandLineVars
  <2>2. CASE phase # "arguments"
    <3>1. parsing' = parsing
      BY <2>2, ArgumentsStay DEF commandLineVars
    <3>2. phase = "refused" => phase' = "refused"
      BY DEF PipelineNext, ParseArguments, Refuse, DebugPrintCmdArguments, ReadFile,
         DecodeFile, FinishDecoding, EncodeListing, WriteListing, CreateEmulationCtx, Emulate,
         DumpMemory, PrintRegisterState, Undefined, Crash, pipelineVars
    <3>3. QED
      BY <2>2, <3>1, <3>2 DEF ListingInv
  <2>3. QED
    BY <2>1, <2>2
<1>7. QED
  BY <1>2, <1>3, <1>4, <1>5, <1>6 DEF ListingInv

LEMMA ListingInvInit == PipelineInit => ListingInv
<1> SUFFICES ASSUME PipelineInit PROVE ListingInv
  OBVIOUS
<1>1. DisassemblerInit
  BY DEF PipelineInit, DisassemblerInit
<1>2. EncoderInv
  BY <1>1, EncoderInvInit DEF DisassemblerInv
<1>3. LayoutInv
  BY <1>1, LayoutInvInit
<1>4. NumbersInv
  BY <1>1 DEF DisassemblerInit, DecoderInit, NumbersInv
<1>5. FormatInv
  BY DefaultsType DEF PipelineInit, CommandLineInit, FormatInv
<1>6. phase = "arguments" /\ i = 0 /\ listing = <<>>
  BY <1>1 DEF PipelineInit, DisassemblerInit, EncoderInit
<1>7. QED
  BY <1>2, <1>3, <1>4, <1>5, <1>6 DEF ListingInv

\* The line of a finished listing is what the encoder writes of its instruction.
LEMMA LineOfInstruction ==
    ASSUME PipelineInv, ListingInv, encoding = "done", NEW k \in DOMAIN instructions
    PROVE  listing[LineOf(k)] = LineWritten(k)
<1>1. /\ instructions \in Seq(Instruction) /\ listing \in Seq(Line)
      /\ Len(instructions) \in Nat /\ DOMAIN instructions = 1..Len(instructions)
  BY DEF PipelineInv, ListingInv, DecoderInv, DecoderTypeOK, EncoderInv, EncoderTypeOK
<1>2. PICK lines \in [1..i -> DOMAIN listing] : Layout(lines)
  BY DEF ListingInv, LayoutInv
<1>3. i = Len(instructions) /\ i \in Nat /\ k \in 1..i
  BY <1>1, <1>2 DEF Layout, LabelAtTheEnd
<1>4. LineOf(k) = lines[k]
  BY <1>1, <1>2, <1>3, LineIsWhereItIs DEF ListingInv
<1>5. QED
  BY <1>2, <1>3, <1>4 DEF Layout, InstructionsInOrder

\* What the listing says is what is executed: the operands of every line name
\* the place the emulator writes and the value it takes, but for the lines of
\* Misleads, for every program and format (encodeBasicInstruction, emulateNext).
THEOREM TheListingIsWhatRuns == PipelineSpec => []ListingMeansWhatRuns
<1>1. PipelineInv /\ ListingInv => ListingMeansWhatRuns
  <2> SUFFICES ASSUME PipelineInv, ListingInv, phase = "emulating", status = "running",
                      encoding = "done", NEW k \in DOMAIN instructions \ DecodedJumps,
                      OperandsReady(instructions[k]), ~Misleads(instructions[k])
               PROVE  ReadAsRun(instructions[k], listing[LineOf(k)].operands)
    BY DEF ListingMeansWhatRuns, ReadAsRun
  <2>1. TypeOK /\ program = instructions
    BY DEF PipelineInv
  <2>2. /\ instructions[k] \in Instruction /\ OneByteNumbers(instructions[k])
        /\ FieldsAgree(instructions[k]) /\ options \in Options
    BY DEF PipelineInv, ListingInv, DecoderInv, DecoderTypeOK, EncoderInv, EncoderTypeOK, NumbersInv
  <2>3. instructions[k].operands # "ShortLabel"
    BY DEF DecodedJumps
  <2>4. listing[LineOf(k)].operands = EncodeBasicInstruction(instructions[k])
    <3>1. listing[LineOf(k)] = LineWritten(k)
      BY LineOfInstruction
    <3>2. LineWritten(k).operands = EncodeBasicInstruction(instructions[k])
      BY <2>3 DEF LineWritten, InstructionLine
    <3>3. QED
      BY <3>1, <3>2
  <2>5. QED
    BY <2>1, <2>2, <2>3, <2>4, LineIsRead
<1>2. QED
  BY <1>1, PipelineInvariant, ListingInvInit, ListingInvNext, PTL DEF PipelineSpec

-----------------------------------------------------------------------------
(***************************************************************************)
(* Following a trace.  FoldLeft takes the lines one by one, from the first *)
(* on, which the provers learn from a function that does so: the fold is a *)
(* function of the sets of places, each without its greatest after it.     *)
(***************************************************************************)
Followed(lines) ==
    FoldLeft(LAMBDA regs, line : RegistersRead(regs, line), [r \in RegisterType |-> 0], lines)

FoldsAll(h, lines, places) ==
    h = [s \in SUBSET places |->
           IF s = {} THEN [r \in RegisterType |-> 0]
           ELSE RegistersRead(h[s \ {Max(s)}], lines[Max(s)])]

LEMMA FollowedFolds ==
    ASSUME NEW lines
    PROVE  Followed(lines) = (CHOOSE h : FoldsAll(h, lines, DOMAIN lines))[DOMAIN lines]
BY Zenon DEF Followed, FoldLeft, MapThenFoldSet, FoldsAll

LEMMA GreatestPlace ==
    ASSUME NEW n \in Nat, NEW s \in SUBSET (1..n), s # {}
    PROVE  Max(s) \in s /\ \A m \in s : m <= Max(s)
<1> DEFINE bounds == {b \in Nat : \A m \in s : m <= b}
<1>1. n \in bounds /\ bounds \subseteq Nat
  OBVIOUS
<1>2. PICK b \in bounds : \A other \in bounds : b <= other
  <2> HIDE DEF bounds
  <2> QED
    BY <1>1, LeastNumber
<1>3. b \in s
  <2>1. SUFFICES ASSUME b \notin s PROVE FALSE
    OBVIOUS
  <2>2. PICK m \in s : TRUE
    OBVIOUS
  <2>3. b \in Nat /\ m \in 1..n /\ m <= b
    BY <1>2, <2>2
  <2>4. b - 1 \in Nat
    BY <2>3
  <2>5. \A k \in s : k <= b - 1
    BY <1>2, <2>1, <2>3
  <2>6. b - 1 \in bounds
    BY <2>4, <2>5
  <2>7. b <= b - 1
    BY <1>2, <2>6
  <2>8. QED
    BY <2>3, <2>7
<1>4. \E x \in s : \A y \in s : x >= y
  BY <1>2, <1>3
<1>5. Max(s) \in s /\ \A y \in s : Max(s) >= y
  BY <1>4, Zenon DEF Max
<1>6. QED
  BY <1>5

LEMMA GreatestIs ==
    ASSUME NEW n \in Nat, NEW s \in SUBSET (1..n), n \in s
    PROVE  Max(s) = n
<1> DEFINE greatest == Max(s)
<1>1. greatest \in s /\ n <= greatest
  BY GreatestPlace
<1> HIDE DEF greatest
<1>2. greatest = n
  BY <1>1
<1>3. QED
  BY <1>2 DEF greatest

\* One place more.
LEMMA OneFoldMore ==
    ASSUME NEW lines, NEW n \in Nat, n # 0, NEW h, FoldsAll(h, lines, 1..(n - 1))
    PROVE  \E g : FoldsAll(g, lines, 1..n)
<1> DEFINE g == [s \in SUBSET (1..n) |->
                   IF n \in s THEN RegistersRead(h[s \ {n}], lines[n]) ELSE h[s]]
<1>1. ASSUME NEW s \in SUBSET (1..n)
      PROVE  g[s] = IF s = {} THEN [r \in RegisterType |-> 0]
                    ELSE RegistersRead(g[s \ {Max(s)}], lines[Max(s)])
  <2>1. CASE n \in s
    <3>1. Max(s) = n /\ s # {}
      BY <2>1, GreatestIs
    <3>2. s \ {n} \in SUBSET (1..n) /\ n \notin s \ {n}
      OBVIOUS
    <3>3. g[s \ {n}] = h[s \ {n}]
      BY <3>2
    <3>4. g[s] = RegistersRead(h[s \ {n}], lines[n])
      BY <2>1
    <3> HIDE DEF g
    <3>5. QED
      BY <3>1, <3>3, <3>4
  <2>2. CASE n \notin s
    <3>1. s \in SUBSET (1..(n - 1))
      BY <2>2
    <3>2. h[s] = IF s = {} THEN [r \in RegisterType |-> 0]
                 ELSE RegistersRead(h[s \ {Max(s)}], lines[Max(s)])
      BY <3>1, Zenon DEF FoldsAll
    <3>3. g[s] = h[s]
      BY <2>2
    <3>4. s \ {Max(s)} \in SUBSET (1..n) /\ n \notin s \ {Max(s)}
      BY <2>2
    <3>5. g[s \ {Max(s)}] = h[s \ {Max(s)}]
      BY <3>4
    <3> HIDE DEF g
    <3>6. QED
      BY <3>2, <3>3, <3>5
  <2>3. QED
    BY <2>1, <2>2
<1>2. g = [s \in SUBSET (1..n) |-> g[s]]
  OBVIOUS
<1> HIDE DEF g
<1>3. FoldsAll(g, lines, 1..n)
  BY <1>1, <1>2 DEF FoldsAll
<1>4. QED
  BY <1>3

LEMMA FoldExists ==
    ASSUME NEW lines, NEW n \in Nat
    PROVE  \E h : FoldsAll(h, lines, 1..n)
<1> DEFINE T == {m \in Nat : ~ \E h : FoldsAll(h, lines, 1..m)}
<1>1. SUFFICES ASSUME T # {} PROVE FALSE
  OBVIOUS
<1>2. PICK m \in T : \A other \in T : m <= other
  <2>1. T \subseteq Nat
    OBVIOUS
  <2> HIDE DEF T
  <2>2. QED
    BY <1>1, <2>1, LeastNumber
<1>3. m \in Nat /\ ~ \E h : FoldsAll(h, lines, 1..m)
  OBVIOUS
<1>4. m # 0
  <2> DEFINE h == [s \in SUBSET {} |-> [r \in RegisterType |-> 0]]
  <2>1. 1..0 = {}
    OBVIOUS
  <2>2. \A s \in SUBSET {} : s = {}
    OBVIOUS
  <2>3. FoldsAll(h, lines, {})
    BY <2>2 DEF FoldsAll
  <2>4. QED
    BY <1>3, <2>1, <2>3
<1>5. m - 1 \in Nat /\ m - 1 \notin T
  BY <1>2, <1>3, <1>4
<1>6. \E h : FoldsAll(h, lines, 1..(m - 1))
  BY <1>5
<1>7. QED
  BY <1>3, <1>4, <1>6, OneFoldMore

\* Registers after each number of lines.
LeadTo(lines, end) ==
    \E regs : /\ regs[0] = [r \in RegisterType |-> 0]
              /\ \A m \in 1..Len(lines) : regs[m] = RegistersRead(regs[m - 1], lines[m])
              /\ regs[Len(lines)] = end

LEMMA FollowedLines ==
    ASSUME NEW S, NEW lines \in Seq(S), NEW end, LeadTo(lines, end)
    PROVE  Followed(lines) = end
<1> DEFINE n == Len(lines)
           fold == CHOOSE h : FoldsAll(h, lines, 1..n)
<1>1. n \in Nat /\ DOMAIN lines = 1..n
  OBVIOUS
<1>2. PICK regs : /\ regs[0] = [r \in RegisterType |-> 0]
                  /\ \A m \in 1..n : regs[m] = RegistersRead(regs[m - 1], lines[m])
                  /\ regs[n] = end
  BY DEF LeadTo
<1> HIDE DEF n
<1>3. FoldsAll(fold, lines, 1..n)
  BY <1>1, FoldExists
<1> HIDE DEF fold
<1>4. ASSUME NEW s \in SUBSET (1..n)
      PROVE  fold[s] = IF s = {} THEN [r \in RegisterType |-> 0]
                       ELSE RegistersRead(fold[s \ {Max(s)}], lines[Max(s)])
  BY <1>3, Zenon DEF FoldsAll
<1>5. \A m \in 0..n : fold[1..m] = regs[m]
  <2> DEFINE T == {m \in 0..n : fold[1..m] # regs[m]}
  <2>1. SUFFICES ASSUME T # {} PROVE FALSE
    OBVIOUS
  <2>2. PICK m \in T : \A other \in T : m <= other
    <3>1. T \subseteq Nat
      BY <1>1
    <3> HIDE DEF T
    <3>2. QED
      BY <2>1, <3>1, LeastNumber
  <2>3. m \in 0..n /\ m \in Nat /\ fold[1..m] # regs[m] /\ 1..m \in SUBSET (1..n)
    BY <1>1
  <2>4. m # 0
    <3>1. 1..0 = {} /\ {} \in SUBSET (1..n)
      OBVIOUS
    <3>2. fold[{}] = [r \in RegisterType |-> 0]
      BY <1>4, <3>1
    <3>3. QED
      BY <1>2, <2>3, <3>1, <3>2
  <2>5. m - 1 \in 0..n /\ m - 1 \notin T /\ m \in 1..n
    BY <1>1, <2>2, <2>3, <2>4
  <2>6. fold[1..(m - 1)] = regs[m - 1]
    BY <2>5
  <2>7. 1..m # {} /\ m \in 1..m /\ (1..m) \ {m} = 1..(m - 1)
    <3>1. m \in Nat /\ m # 0
      BY <2>3, <2>4
    <3> HIDE DEF T
    <3>2. m \in 1..m
      BY <3>1
    <3>3. \A k : k \in (1..m) \ {m} <=> k \in 1..(m - 1)
      BY <3>1
    <3>4. QED
      BY <3>2, <3>3
  <2>8. Max(1..m) = m
    BY <2>3, <2>7, GreatestIs
  <2>9. fold[1..m] = RegistersRead(fold[1..(m - 1)], lines[m])
    BY <1>4, <2>3, <2>7, <2>8
  <2>10. QED
    BY <1>2, <2>3, <2>5, <2>6, <2>9
<1>6. fold[1..n] = end
  BY <1>1, <1>2, <1>5
<1>7. Followed(lines) = fold[1..n]
  BY <1>1, FollowedFolds DEF fold
<1>8. QED
  BY <1>6, <1>7

(***************************************************************************)
(* What is printed of a run with --verbose: the listing, then one line of  *)
(* the trace for each step that has one, which lead to the registers the   *)
(* emulator has by then.                                                   *)
(***************************************************************************)
IsTraced == Executed /\ IsVerbose(cmdArgs)
ListingItem == [listing |-> Cut(listing)]

\* lines, whose items are in S, are a trace that leads to the registers end.
IsTrace(lines, S, end) ==
    /\ lines \in Seq(S)
    /\ \A line \in S : "nextIp" \in DOMAIN line
    /\ LeadTo(lines, end)

TracedInv ==
    IsTraced =>
      /\ phase \in {"arguments", "reading", "decoding", "listing"} => out = <<>>
      /\ phase = "loading" => out = <<ListingItem>>
      /\ phase = "emulating" =>
           \E lines, S :
              /\ IsTrace(lines, S, registers)
              /\ out = <<ListingItem>> \o lines
      /\ phase = "ended" =>
           \E lines, S :
              /\ IsTrace(lines, S, registers)
              /\ out = <<ListingItem>> \o lines
                          \o <<[text |-> "blank"], [registers |-> registers]>>

LEMMA PrintedBetween ==
    ASSUME NEW S, NEW lines \in Seq(S), NEW a, NEW b, NEW c
    PROVE  LET whole == <<a>> \o lines \o <<b, c>>
           IN  SubSeq(whole, 2, Len(whole) - 2) = lines
<1> DEFINE T == S \cup {a, b, c}
           whole == <<a>> \o lines \o <<b, c>>
           n == Len(lines)
<1>1. /\ lines \in Seq(T) /\ <<a>> \in Seq(T) /\ <<b, c>> \in Seq(T) /\ n \in Nat
      /\ Len(<<a>>) = 1 /\ Len(<<b, c>>) = 2 /\ DOMAIN lines = 1..n
  OBVIOUS
<1> HIDE DEF T
<1>2. /\ whole \in Seq(T) /\ Len(whole) = n + 3
      /\ \A k \in 1..n : whole[k + 1] = lines[k]
  BY <1>1
<1> HIDE DEF whole
<1>3. Len(whole) - 2 = n + 1
  BY <1>1, <1>2
<1>4. SubSeq(whole, 2, n + 1) = lines
  <2>1. /\ SubSeq(whole, 2, n + 1) \in Seq(T) /\ Len(SubSeq(whole, 2, n + 1)) = n
        /\ \A k \in 1..n : SubSeq(whole, 2, n + 1)[k] = whole[k + 1]
    BY <1>1, <1>2
  <2>2. QED
    BY <1>1, <1>2, <2>1
<1>5. QED
  BY <1>3, <1>4 DEF whole

LEMMA OneLineMore ==
    ASSUME NEW S, NEW lines \in Seq(S), NEW a, NEW line
    PROVE  /\ (<<a>> \o lines) \o <<line>> = <<a>> \o Append(lines, line)
           /\ (<<a>> \o lines) \o <<>> = <<a>> \o lines
           /\ Append(lines, line) \in Seq(S \cup {line})
           /\ Len(Append(lines, line)) = Len(lines) + 1 /\ Len(lines) \in Nat
           /\ \A k \in 1..Len(lines) : Append(lines, line)[k] = lines[k]
           /\ Append(lines, line)[Len(lines) + 1] = line
<1> DEFINE T == S \cup {a, line}
<1>1. lines \in Seq(T) /\ <<a>> \in Seq(T) /\ <<line>> \in Seq(T)
  OBVIOUS
<1>2. /\ (<<a>> \o lines) \o <<line>> = <<a>> \o Append(lines, line)
      /\ (<<a>> \o lines) \o <<>> = <<a>> \o lines
  BY <1>1
<1>3. QED
  BY <1>2

LEMMA EndOfTrace ==
    ASSUME NEW S, NEW lines \in Seq(S), NEW a, NEW b, NEW c
    PROVE  (<<a>> \o lines) \o <<b>> \o <<c>> = <<a>> \o lines \o <<b, c>>
<1> DEFINE T == S \cup {a, b, c}
<1>1. lines \in Seq(T) /\ <<a>> \in Seq(T) /\ <<b>> \in Seq(T) /\ <<c>> \in Seq(T)
  OBVIOUS
<1>2. <<b, c>> = <<b>> \o <<c>>
  <2> DEFINE both == <<b>> \o <<c>>
  <2>1. both \in Seq(T) /\ Len(both) = 2 /\ both[1] = b /\ both[2] = c
    BY <1>1
  <2>2. <<b, c>> \in Seq(T)
    OBVIOUS
  <2> HIDE DEF both
  <2>3. both = <<b, c>>
    BY <2>1, <2>2
  <2>4. QED
    BY <2>3 DEF both
<1> DEFINE front == <<a>> \o lines
           y == <<b>>
           z == <<c>>
<1>3. front \in Seq(T) /\ y \in Seq(T) /\ z \in Seq(T)
  BY <1>1
<1> HIDE DEF T, front, y, z
<1>4. (front \o y) \o z = front \o (y \o z)
  BY <1>3, ConcatAssociative
<1>5. QED
  BY <1>2, <1>4 DEF front, y, z

LEMMA ItLeadsOn ==
    ASSUME NEW S, NEW lines \in Seq(S), NEW end, LeadTo(lines, end), NEW line
    PROVE  LeadTo(Append(lines, line), RegistersRead(end, line))
<1> DEFINE n == Len(lines)
           more == Append(lines, line)
<1>1. PICK regs : /\ regs[0] = [r \in RegisterType |-> 0]
                  /\ \A m \in 1..n : regs[m] = RegistersRead(regs[m - 1], lines[m])
                  /\ regs[n] = end
  BY DEF LeadTo
<1>2. n \in Nat /\ Len(more) = n + 1 /\ (\A k \in 1..n : more[k] = lines[k]) /\ more[n + 1] = line
  BY OneLineMore
<1> HIDE DEF n, more
<1> DEFINE after == [m \in 0..(n + 1) |-> IF m = n + 1 THEN RegistersRead(end, line) ELSE regs[m]]
<1>3. \A m \in 0..n : after[m] = regs[m]
  BY <1>2
<1>4. after[n + 1] = RegistersRead(end, line)
  BY <1>2
<1> HIDE DEF after
<1>5. after[0] = [r \in RegisterType |-> 0]
  BY <1>1, <1>2, <1>3
<1>6. ASSUME NEW m \in 1..(n + 1)
      PROVE  after[m] = RegistersRead(after[m - 1], more[m])
  <2>1. CASE m = n + 1
    <3>1. m - 1 = n /\ n \in 0..n
      BY <1>2, <2>1
    <3>2. after[n] = end
      BY <1>1, <1>3, <3>1
    <3>3. QED
      BY <1>2, <1>4, <2>1, <3>1, <3>2
  <2>2. CASE m # n + 1
    <3>1. m \in 1..n /\ m \in 0..n /\ m - 1 \in 0..n
      BY <1>2, <2>2
    <3>2. QED
      BY <1>1, <1>2, <1>3, <3>1
  <2>3. QED
    BY <2>1, <2>2
<1>7. QED
  BY <1>2, <1>4, <1>5, <1>6 DEF LeadTo, more

\* Emulate: the line it prints, if any, leads from the registers before it to
\* those after it.
LEMMA TracedEmulate ==
    ASSUME PipelineInv, PipelineInv', TracedInv, IsTraced, Emulate
    PROVE  \E lines, S :
              /\ IsTrace(lines, S, registers')
              /\ out' = <<ListingItem>> \o lines
<1>1. PICK lines, S :
              /\ IsTrace(lines, S, registers)
              /\ out = <<ListingItem>> \o lines
  BY DEF TracedInv, Emulate
<1>2. /\ TypeOK /\ TypeOK' /\ Next
  <2>1. Next /\ status = "running"
    BY DEF Emulate, Next
  <2>2. status' # "none"
    BY <2>1 DEF Next, EmulateNext, EmulateMov, EmulateAdd, EmulateSub, EmulateFlagJump,
       EmulateLoop, EmulateUnsupported, PanicOnAddress, UndefinedRegister, Stop
  <2>3. QED
    BY <2>1, <2>2 DEF PipelineInv
<1>3. out' = out \o TraceOfStep
  BY DEF Emulate, IsTraced
<1>4. CASE TraceOfStep = <<>> /\ UNCHANGED <<registers, memory>>
  <2>1. out' = <<ListingItem>> \o lines
    BY <1>1, <1>3, <1>4, OneLineMore DEF IsTrace
  <2>2. IsTrace(lines, S, registers')
    BY <1>1, <1>4
  <2>3. QED
    BY <2>1, <2>2
<1>5. CASE \E inst \in Instruction :
              TraceOfStep = << TraceLine(inst) >> /\ Tells(TraceLine(inst))
  <2>1. PICK inst \in Instruction : TraceOfStep = << TraceLine(inst) >> /\ Tells(TraceLine(inst))
    BY <1>5
  <2>2. "nextIp" \in DOMAIN TraceLine(inst)
    BY DEF TraceLine
  <2>3. PICK line : line = TraceLine(inst)
    OBVIOUS
  <2>4. /\ TraceOfStep = <<line>> /\ "nextIp" \in DOMAIN line
        /\ registers' = RegistersRead(registers, line)
    BY <2>1, <2>2, <2>3 DEF Tells
  <2>5. /\ Append(lines, line) \in Seq(S \cup {line})
        /\ out' = <<ListingItem>> \o Append(lines, line)
    BY <1>1, <1>3, <2>4, OneLineMore DEF IsTrace
  <2>6. LeadTo(Append(lines, line), registers')
    BY <1>1, <2>4, ItLeadsOn DEF IsTrace
  <2>7. \A l \in S \cup {line} : "nextIp" \in DOMAIN l
    BY <1>1, <2>4 DEF IsTrace
  <2>8. QED
    BY <2>5, <2>6, <2>7 DEF IsTrace
<1>6. QED
  BY <1>2, <1>4, <1>5, StepIsTold

LEMMA NothingFollowed == LeadTo(<<>>, [r \in RegisterType |-> 0])
<1> DEFINE regs == [m \in {0} |-> [r \in RegisterType |-> 0]]
<1>1. regs[0] = [r \in RegisterType |-> 0] /\ Len(<<>>) = 0 /\ 1..0 = {}
  OBVIOUS
<1> HIDE DEF regs
<1>2. QED
  BY <1>1 DEF LeadTo

LEMMA TracedInvNext ==
    PipelineInv /\ PipelineInv' /\ PrintedInv /\ TracedInv /\ [PipelineNext]_pipelineVars
      => TracedInv'
<1> SUFFICES ASSUME PipelineInv, PipelineInv', PrintedInv, TracedInv, [PipelineNext]_pipelineVars,
                    IsTraced'
             PROVE  TracedInv'
  BY DEF TracedInv
<1>1. CASE phase = "arguments"
  <2>1. out = <<>>
    BY <1>1 DEF PrintedInv
  <2>2. \/ phase' = "refused"
        \/ phase' \in {"arguments", "reading"} /\ out' = <<>>
    BY <1>1, <2>1, NothingDebugged DEF PipelineNext, ParseArguments, Refuse, DebugPrintCmdArguments,
       ReadFile, DecodeFile, FinishDecoding, EncodeListing, WriteListing, CreateEmulationCtx,
       Emulate, DumpMemory, PrintRegisterState, Undefined, Crash, pipelineVars
  <2>3. QED
    BY <2>2 DEF TracedInv
<1>2. CASE phase # "arguments"
  <2>1. cmdArgs' = cmdArgs /\ parsing' = parsing
    BY <1>2, ArgumentsStay DEF commandLineVars
  <2>2. IsTraced
    BY <2>1 DEF IsTraced, Executed
  <2>3. cmdArgs.execFlag /\ ~cmdArgs.dumpMemory /\ IsVerbose(cmdArgs)
    BY <2>2 DEF IsTraced, Executed, IsVerbose
  <2>4. IsListed /\ AfterListing = "loading" /\ Blank = <<[text |-> "blank"]>>
    BY <2>3 DEF IsListed, AfterListing, Blank
  <2>5. CASE ReadFile \/ DecodeFile \/ FinishDecoding \/ EncodeListing
    <3>1. out' = <<>> /\ phase' \in {"decoding", "listing"}
      BY <2>2, <2>4, <2>5 DEF TracedInv, ReadFile, DecodeFile, FinishDecoding, EncodeListing
    <3>2. QED
      BY <3>1 DEF TracedInv
  <2>6. CASE WriteListing
    <3>1. out = <<>> /\ out' = Append(out, ListingItem) /\ phase' = "loading" /\ listing' = listing
      BY <2>2, <2>4, <2>6 DEF TracedInv, WriteListing, ListingItem, encoderVars
    <3>2. out' = <<ListingItem>>
      BY <3>1
    <3>3. ListingItem' = ListingItem
      BY <3>1 DEF ListingItem, Cut
    <3>4. QED
      BY <3>1, <3>2, <3>3 DEF TracedInv
  <2>7. CASE CreateEmulationCtx
    <3>1. /\ out = <<ListingItem>> /\ out' = out /\ phase' = "emulating" /\ listing' = listing
          /\ registers' = [r \in RegisterType |-> 0]
      BY <2>2, <2>7 DEF TracedInv, CreateEmulationCtx, encoderVars
    <3>2. ListingItem' = ListingItem
      BY <3>1 DEF ListingItem, Cut
    <3>3. out' = <<ListingItem>> \o <<>> /\ <<>> \in Seq({})
      BY <3>1
    <3>4. IsTrace(<<>>, {}, registers')
      BY <3>1, <3>3, NothingFollowed DEF IsTrace
    <3>5. QED
      BY <3>1, <3>2, <3>3, <3>4 DEF TracedInv
  <2>8. CASE Emulate
    <3>1. phase' = "emulating" /\ listing' = listing
      BY <2>8 DEF Emulate, encoderVars
    <3>2. ListingItem' = ListingItem
      BY <3>1 DEF ListingItem, Cut
    <3>3. QED
      BY <2>2, <2>8, <3>1, <3>2, TracedEmulate DEF TracedInv
  <2>9. CASE PrintRegisterState
    <3>1. PICK lines, S :
              /\ IsTrace(lines, S, registers)
              /\ out = <<ListingItem>> \o lines
      BY <2>2, <2>9 DEF TracedInv, PrintRegisterState
    <3>2. /\ out' = out \o <<[text |-> "blank"]>> \o <<[registers |-> registers]>>
          /\ phase' = "ended" /\ registers' = registers /\ listing' = listing
      BY <2>4, <2>9 DEF PrintRegisterState, vars, encoderVars
    <3>3. ListingItem' = ListingItem
      BY <3>2 DEF ListingItem, Cut
    <3>4. out' = <<ListingItem>> \o lines \o <<[text |-> "blank"], [registers |-> registers]>>
      <4> DEFINE a == ListingItem
                 b == [text |-> "blank"]
                 c == [registers |-> registers]
      <4>1. out' = (<<a>> \o lines) \o <<b>> \o <<c>> /\ lines \in Seq(S)
        BY <3>1, <3>2 DEF IsTrace
      <4> HIDE DEF a, b, c
      <4>2. out' = <<a>> \o lines \o <<b, c>>
        BY <4>1, EndOfTrace
      <4>3. QED
        BY <4>2 DEF a, b, c
    <3>5. QED
      BY <3>1, <3>2, <3>3, <3>4 DEF TracedInv
  <2>10. CASE UNCHANGED pipelineVars
    <3>1. phase' = phase /\ out' = out /\ listing' = listing /\ registers' = registers
      BY <2>10 DEF pipelineVars, encoderVars, vars
    <3>2. ListingItem' = ListingItem
      BY <3>1 DEF ListingItem, Cut
    <3>3. QED
      BY <2>2, <3>1, <3>2 DEF TracedInv
  <2>11. CASE Undefined \/ Crash
    <3>1. phase' \in {"undefined", "crashed"}
      BY <2>11 DEF Undefined, Crash
    <3>2. QED
      BY <3>1 DEF TracedInv
  <2>12. QED
    BY <1>2, <2>3, <2>5, <2>6, <2>7, <2>8, <2>9, <2>10, <2>11 DEF PipelineNext, ParseArguments,
       Refuse, DebugPrintCmdArguments, DumpMemory
<1>3. QED
  BY <1>1, <1>2

\* A reader of a verbose run who starts from registers of 0 and follows every
\* line ends with the registers main prints, in runs of any length, and nothing
\* is printed but the listing, the trace and these (emulate, printRegisterState).
THEOREM FollowingTheTraceGivesTheRegisters == PipelineSpec => []TraceLeadsToTheFinalRegisters
<1>1. TracedInv => TraceLeadsToTheFinalRegisters
  <2> SUFFICES ASSUME TracedInv, phase = "ended", IsTraced
               PROVE  /\ \A n \in DOMAIN TraceLines : "nextIp" \in DOMAIN TraceLines[n]
                      /\ out = <<[listing |-> Cut(listing)]>> \o TraceLines
                            \o <<[text |-> "blank"], [registers |-> Followed(TraceLines)]>>
    BY Zenon DEF TraceLeadsToTheFinalRegisters, IsTraced, Followed
  <2>1. PICK lines, S :
              /\ IsTrace(lines, S, registers)
              /\ out = <<ListingItem>> \o lines
                          \o <<[text |-> "blank"], [registers |-> registers]>>
    BY DEF TracedInv
  <2>2. TraceLines = lines
    BY <2>1, PrintedBetween DEF TraceLines, IsTrace
  <2>3. Followed(lines) = registers
    BY <2>1, FollowedLines DEF IsTrace
  <2>4. \A n \in DOMAIN lines : "nextIp" \in DOMAIN lines[n]
    BY <2>1 DEF IsTrace
  <2>5. QED
    BY <2>1, <2>2, <2>3, <2>4 DEF ListingItem
<1>2. PipelineInit => TracedInv /\ PrintedInv
  BY DEF PipelineInit, TracedInv, PrintedInv
<1>3. QED
  BY <1>1, <1>2, PipelineInvariant, PrintedInvNext, TracedInvNext, PTL DEF PipelineSpec
=============================================================================
