------------------------------ MODULE Pipeline ------------------------------
(***************************************************************************)
(* main of main.cpp: the command line, the file, the decoder, the listing, *)
(* the emulator with its trace, the final registers or the memory dump.    *)
(* One step is a step of the part main has called, or the statement after  *)
(* it.  out is what the user gets to see on standard output.               *)
(***************************************************************************)
EXTENDS Disassembler, Trace, CommandLine

CONSTANT BUFFER_LINES     \* the lines of listing the logger's buffer holds

ASSUME PipelineConstants ==
    /\ BUFFER_LINES \in Nat
    /\ EMULATOR_MEMORY_SIZE = MEGABYTE
    /\ Options = {"NONE", "HEX", "SIGNED", "UNSIGNED"}

\* The emulator's variables are emuCtx, once it is created; status is "none" before.
VARIABLES
    phase,                \* where main is, or how the program ended
    out                   \* the items printed so far

pipelineVars == <<decoderVars, encoderVars, commandLineVars, vars, phase, out>>

Phase == {"arguments", "reading", "decoding", "listing", "loading", "emulating",
          "ended", "refused", "crashed", "undefined"}

PipelineInit ==
    /\ DecoderInit /\ EncoderInit /\ options = "NONE" /\ CommandLineInit
    /\ program = <<>> /\ registers = <<>> /\ memory = <<>> /\ status = "none"
    /\ phase = "arguments"
    /\ out = <<>>

ParseArguments ==
    /\ phase = "arguments" /\ CommandLineNext
    /\ UNCHANGED <<decoderVars, encoderVars, vars, phase, out>>

(***************************************************************************)
(* The logger.  main initialises it with the level L_INFO; the log goes to *)
(* standard output like everything else.  writeLine formats into a buffer  *)
(* of fixed size, which cuts what is longer: of main's texts, a listing.   *)
(***************************************************************************)
LogLevel == [L_TRACE |-> 0, L_DEBUG |-> 1, L_INFO |-> 2,
             L_WARNING |-> 3, L_ERROR |-> 4, L_FATAL |-> 5]
MinimumLogLevel == LogLevel.L_INFO

Log(level, what) == IF LogLevel[level] < MinimumLogLevel THEN <<>> ELSE <<[text |-> what]>>
Cut(lines) == SubSeq(lines, 1, Min({Len(lines), BUFFER_LINES}))
-----------------------------------------------------------------------------
\* printUsage, and main's logErr.
Refuse ==
    /\ phase = "arguments" /\ parsing = "refused"
    /\ out' = <<[text |-> "usage"]>> \o Log("L_ERROR", "error")
    /\ phase' = "refused"
    /\ UNCHANGED <<decoderVars, encoderVars, commandLineVars, vars>>

DebugPrintCmdArguments ==
    /\ phase = "arguments" /\ parsing = "accepted"
    /\ out' = Log("L_DEBUG", "arguments")
    /\ phase' = "reading"
    /\ UNCHANGED <<decoderVars, encoderVars, commandLineVars, vars>>

\* fileReadEntire succeeds; the format of immediate values is set in ctx.
ReadFile ==
    /\ phase = "reading"
    /\ options' = <<"NONE", "HEX", "SIGNED", "UNSIGNED">>[cmdArgs.immValuesFmt + 1]
    /\ phase' = "decoding"
    /\ UNCHANGED <<decoderVars, i, byteIdx, listing, encoding, commandLineVars, vars, out>>

DecodeFile ==
    /\ phase = "decoding" /\ DecoderNext
    /\ UNCHANGED <<encoderVars, commandLineVars, vars, phase, out>>

IsListed == ~cmdArgs.execFlag \/ IsVerbose(cmdArgs)

AfterListing == IF cmdArgs.execFlag THEN "loading" ELSE "ended"

FinishDecoding ==
    /\ phase = "decoding" /\ decoding = "done"
    /\ phase' = IF IsListed THEN "listing" ELSE AfterListing
    /\ UNCHANGED <<decoderVars, encoderVars, commandLineVars, vars, out>>

EncodeListing ==
    /\ phase = "listing" /\ EncoderNext
    /\ UNCHANGED <<commandLineVars, vars, phase, out>>

WriteListing ==
    /\ phase = "listing" /\ encoding = "done"
    /\ out' = Append(out, [listing |-> Cut(listing)])
    /\ phase' = AfterListing
    /\ UNCHANGED <<decoderVars, encoderVars, commandLineVars, vars>>

\* createEmulationCtx, with the decoder's instructions, which main does not use again.
CreateEmulationCtx ==
    /\ phase = "loading"
    /\ program' = instructions
    /\ registers' = [r \in RegisterType |-> 0]
    /\ memory' = [a \in Address |-> 0]
    /\ status' = "running"
    /\ phase' = "emulating"
    /\ UNCHANGED <<decoderVars, encoderVars, commandLineVars, out>>

\* An iteration of emulate, with the line it prints.
Emulate ==
    /\ phase = "emulating" /\ Next
    /\ out' = IF IsVerbose(cmdArgs) THEN out \o TraceOfStep ELSE out
    /\ UNCHANGED <<decoderVars, encoderVars, commandLineVars, phase>>

\* The bytes dumpMemory writes, of a range that lies in the memory.
Dump == [dump |-> [k \in 1..(cmdArgs.dumpEnd - cmdArgs.dumpStart) |->
                      memory[cmdArgs.dumpStart + k - 1]]]
Blank == IF IsVerbose(cmdArgs) THEN <<[text |-> "blank"]>> ELSE <<>>

DumpMemory ==
    /\ phase = "emulating" /\ status = "stopped"
    /\ cmdArgs.dumpMemory /\ cmdArgs.dumpEnd <= MEGABYTE
    /\ out' = out \o Blank \o <<Dump>>
    /\ phase' = "ended"
    /\ UNCHANGED <<decoderVars, encoderVars, commandLineVars, vars>>

PrintRegisterState ==
    /\ phase = "emulating" /\ status = "stopped"
    /\ ~cmdArgs.dumpMemory
    /\ out' = out \o Blank \o <<[registers |-> registers]>>
    /\ phase' = "ended"
    /\ UNCHANGED <<decoderVars, encoderVars, commandLineVars, vars>>

\* A read past the end of a table: a segment register without a name or a cell,
\* a dump past the memory.  Nothing is known of what follows.
Undefined ==
    /\ \/ phase = "listing" /\ encoding = "undefined"
       \/ phase = "emulating" /\ status = "undefined"
       \/ /\ phase = "emulating" /\ status = "stopped"
          /\ cmdArgs.dumpMemory /\ cmdArgs.dumpEnd > MEGABYTE
    /\ phase' = "undefined"
    /\ UNCHANGED <<decoderVars, encoderVars, commandLineVars, vars, out>>

\* Panic, Assert or Expect: the handler of initCore prints to standard error and
\* throws, nobody catches, and the program aborts.  What standard output holds
\* back in its buffer is then lost.  The file may fail at Expect.
Crash ==
    /\ \/ phase = "reading"
       \/ phase = "decoding" /\ decoding \in {"panicked", "asserted"}
       \/ phase = "emulating" /\ status \in {"panicked", "asserted"}
    /\ \E n \in 0..Len(out) : out' = SubSeq(out, 1, n)
    /\ phase' = "crashed"
    /\ UNCHANGED <<decoderVars, encoderVars, commandLineVars, vars>>

PipelineNext ==
    \/ ParseArguments \/ Refuse \/ DebugPrintCmdArguments \/ ReadFile
    \/ DecodeFile \/ FinishDecoding \/ EncodeListing \/ WriteListing
    \/ CreateEmulationCtx \/ Emulate \/ DumpMemory \/ PrintRegisterState \/ Undefined \/ Crash

\* One thread, which nothing interrupts.
PipelineSpec == PipelineInit /\ [][PipelineNext]_pipelineVars /\ WF_pipelineVars(PipelineNext)
-----------------------------------------------------------------------------
PipelineTypeOK ==
    /\ phase \in Phase
    /\ status \in {"none"} \cup Status
    /\ CommandLineTypeOK
    /\ status # "none" => TypeOK

\* Where the program is over.
Over == phase \in {"ended", "refused", "crashed", "undefined"}
Executed == parsing = "accepted" /\ cmdArgs.execFlag

\* "When this option is on, all other std output is off": with --exec, and
\* however --verbose and a format are set, --dump-memory leaves nothing on
\* standard output but the dump, all of it or none, and only of a run that
\* stopped by itself (isVerbose, and the order of the last statements of main).
DumpIsAlone ==
    Over /\ Executed /\ cmdArgs.dumpMemory =>
      \/ out = <<>>
      \/ out = <<Dump>> /\ status = "stopped" /\ phase = "ended"

\* A verbose run ends with the registers that a reader of its trace expects:
\* following the printed lines from registers of 0 gives the final registers
\* that are printed, and nothing but the listing and these stands on standard
\* output (emulateNext's lines, printRegisterState, their order in main).
TraceLines == SubSeq(out, 2, Len(out) - 2)
TraceLeadsToTheFinalRegisters ==
    phase = "ended" /\ Executed /\ IsVerbose(cmdArgs) =>
      LET final == FoldLeft(LAMBDA regs, line : RegistersRead(regs, line),
                            [r \in RegisterType |-> 0], TraceLines)
      IN  /\ \A n \in DOMAIN TraceLines : "nextIp" \in DOMAIN TraceLines[n]
          /\ out = <<[listing |-> Cut(listing)]>> \o TraceLines
                      \o <<[text |-> "blank"], [registers |-> final]>>

\* The three tables that are indexed with a number from the user and no check,
\* the segment names, the emulated registers and the memory that is dumped, are
\* only read past their end when that number was given: a dump end past the
\* memory, or an instruction with a segment field that names no register
\* (dumpMemory with the defaults of CommandLineArguments, segRegTable in
\* appendReg, getRegister).  A truncated file's missing bytes are another matter
\* (StrayBytes of the decoder), and so are stores through a misaligned u16*.
OddSegment(inst) == inst.operands \in SegmentOperands /\ inst.reg \notin 0..3
TablesAreOverrunForACause ==
    phase = "undefined" =>
      \/ \E a \in FlagsIn(args) : a.flag = "dump-end" /\ a.value > MEGABYTE
      \/ \E k \in DOMAIN instructions : OddSegment(instructions[k])

(***************************************************************************)
(* What a reader of a listed line takes an operand to be: a place, which   *)
(* is a cell and the part of it, or a value.  The width of the operands is *)
(* that of a register, or the size keyword's.                              *)
(***************************************************************************)
WidthRead(operands) ==
    IF \E n \in DOMAIN operands :
          \/ operands[n][1] = "segment"
          \/ (operands[n][1] = "register" /\ operands[n][2] = 1)
          \/ (operands[n][1] = "memory" /\ operands[n][2] = "word")
    THEN 1 ELSE 0

AddressRead(operand) ==
    (IF operand[3] = -1 THEN 0 ELSE BaseAddress(operand[3])) + ToI16(ToU16(operand[4]))

PlaceRead(operand, w) ==
    CASE operand[1] = "segment" ->
           [cell |-> RegisterCell(ES + operand[2]), isWord |-> TRUE, isLow |-> TRUE]
      [] operand[1] = "register" ->
           [cell |-> RegisterCell(IF w = 1 THEN operand[3] ELSE operand[3] % 4),
            isWord |-> w = 1, isLow |-> w = 1 \/ operand[3] < 4]
      [] operand[1] = "memory" ->
           [cell |-> MemoryCell(AddressRead(operand)), isWord |-> w = 1, isLow |-> TRUE]

ValueRead(operand, w) ==
    IF operand[1] = "number" THEN operand[2] % (IF w = 1 THEN 65536 ELSE 256)
    ELSE PartOf(PlaceRead(operand, w), Read(PlaceRead(operand, w).cell))

\* The place the emulator writes.
PlaceWritten(inst) ==
    [cell |-> DestCell(inst), isWord |-> DestOf(inst).isWord,
     isLow |-> DestOf(inst).isWord \/ DestOf(inst).isLow]

\* The lines that are known to mislead: a number of ShownWrong, the byte store of
\* a register, the accumulator move with something in BX + SI.
Misleads(inst) ==
    \/ ShownWrong(AddressBytes(inst), AddressIsByte(inst))
    \/ inst.w = 1 /\ ShownWrong(inst.data, ImmediateIsByte(inst))
    \/ inst.operands = "Register_Memory" /\ inst.w = 0
    \/ inst.operands \in {"Memory_Accumulator", "Accumulator_Memory"} /\ BaseAddress(0) # 0

\* What the listing says is what is executed: in a run with --verbose the first
\* operand of an instruction's line is the place the emulator writes, and the
\* second is the value it takes, in every class of operands, width and format
\* of numbers, but for the lines of Misleads (encodeBasicInstruction and
\* emulateNext each have their own switch over the operands).
ListingMeansWhatRuns ==
    phase = "emulating" /\ status = "running" /\ encoding = "done" =>
      \A k \in DOMAIN instructions \ DecodedJumps :
        LET inst     == instructions[k]
            operands == listing[LineOf(k)].operands
            w        == WidthRead(operands)
        IN  AtIp(k) /\ OperandsReady(inst) /\ ~Misleads(inst) =>
              /\ PlaceRead(operands[1], w) = PlaceWritten(inst)
              /\ ValueRead(operands[2], w) = SourceValue(DestOf(inst), SourceOf(inst))

\* In a build with asserts every run of the program comes to an end, whatever
\* the arguments and the file, unless it executes a program with another way
\* back: a jump that is not one counted loop, or an end or a jump past the range
\* of IP, which starts over (main calls each loop once, and each ends).
PipelineEnds ==
    ASSERT_ENABLED =>
      <>(Over \/ (phase = "emulating" /\ ~(OneCountedLoop /\ FitsInIp)))

\* "When this option is on, all other std output is off.": the usage of
\* --dump-memory.
DumpMemoryTurnsOutputOff ==
    phase = "ended" /\ cmdArgs.dumpMemory =>
        \A n \in DOMAIN out : "dump" \in DOMAIN out[n]
=============================================================================
