------------------------------ MODULE Encoder -------------------------------
(***************************************************************************)
(* encodeAsm8086 of decoder.cpp: the loop that writes the listing of a     *)
(* decoded program, a label before each instruction that is the target of  *)
(* a jump.  One step is one iteration of the loop.  It works on the        *)
(* DecodingContext the decoder leaves, whose variables it only reads.      *)
(*                                                                         *)
(* A line of the listing is a label or an instruction with its two         *)
(* operands, or with the label it jumps to.  Of the text only what it says *)
(* is kept: the register, the number and its sign, the size keyword.  Hex  *)
(* and decimal digits of a number are the same number.                     *)
(***************************************************************************)
EXTENDS Decoder

CONSTANTS
    Options,         \* the values of DecodingOpts in use
    LabelNumbers     \* labels are numbered modulo this, 2^16 in the code

ASSUME EncoderConstants ==
    /\ Options \subseteq {"NONE", "HEX", "SIGNED", "UNSIGNED"}
    /\ LabelNumbers \in Nat \ {0}

VARIABLES
    options,         \* DecodingContext::options
    i, byteIdx,      \* the next instruction and its offset; i counts from 0
    listing,         \* the lines written so far
    encoding         \* where the loop is, or how it was left

encoderVars == <<options, i, byteIdx, listing, encoding>>

EncoderInit ==
    /\ options \in Options
    /\ i = 0
    /\ byteIdx = 0
    /\ listing = <<>>
    /\ encoding = "encoding"

(***************************************************************************)
(* appendImmFromLowAndHigh: the number a reader of the text reads.  A      *)
(* negative number is written as a "-" and the digits of its negation,     *)
(* which for the smallest number of the type is itself: its digits bring   *)
(* a "-" of their own, and "--128" reads as 128.                           *)
(***************************************************************************)
AppendSigned(v, n) == IF v = -(n \div 2) THEN -v ELSE v

\* Mutant: both bytes always count.
AppendImmAsWord(low, high) ==
    IF options \in {"HEX", "UNSIGNED"} THEN CombineWord(low, high)
    ELSE AppendSigned(ToI16(CombineWord(low, high)), 65536)

AppendImm(low, high) ==
    IF options \in {"HEX", "UNSIGNED"} THEN CombineWord(low, high)
    ELSE IF high # 0 THEN AppendSigned(ToI16(CombineWord(low, high)), 65536)
    ELSE AppendSigned(ToI8(low), 256)

(***************************************************************************)
(* The operands of encodeBasicInstruction.                                 *)
(***************************************************************************)
Register(k, w) == <<"register", w, k>>
SegmentRegister(k) == <<"segment", k>>
Number(v) == <<"number", v>>
\* "" is no size keyword; -1 is no base, else it is an index of regDispTable.
Memory(size, base, v) == <<"memory", size, base, v>>

AppendMemory(inst, size) ==
    IF IsDirectAddrMode(inst.mod, inst.rm)
    THEN Memory(size, -1, AppendImm(inst.disp[1], inst.disp[2]))
    ELSE Memory(size, inst.rm,
                IF inst.disp = <<0, 0>> THEN 0 ELSE AppendImm(inst.disp[1], inst.disp[2]))

DataNumber(inst) == AppendImm(inst.data[1], inst.data[2])

\* Mutant: the accumulator is always written first.
AppendMemAccFirst(inst) ==
    <<Register(0, inst.w), Memory("", -1, DataNumber(inst))>>

AppendMemAcc(inst) ==
    LET acc  == Register(0, inst.w)
        addr == Memory("", -1, DataNumber(inst))
    IN  IF inst.d = 1 THEN <<addr, acc>> ELSE <<acc, addr>>

EncodeBasicInstruction(inst) ==
    CASE inst.operands \in {"Accumulator_Memory", "Memory_Accumulator"} -> AppendMemAcc(inst)
      [] inst.operands = "Accumulator_Immediate" ->
           <<Register(0, inst.w), Number(DataNumber(inst))>>
      [] inst.operands = "Memory_Immediate" ->
           <<AppendMemory(inst, IF inst.w = 1 THEN "word" ELSE "byte"), Number(DataNumber(inst))>>
      [] inst.operands = "Memory_Register" ->
           <<Register(inst.reg, inst.w), AppendMemory(inst, "")>>
      [] inst.operands = "Register_Memory" ->
           <<AppendMemory(inst, ""), Register(inst.reg, inst.w)>>
      [] inst.operands = "Register_Register" ->
           <<Register(inst.rm, inst.w), Register(inst.reg, inst.w)>>
      [] inst.operands = "Register_Immediate" ->
           <<Register(inst.rm, inst.w), Number(DataNumber(inst))>>
      [] inst.operands = "SegReg_Register16" ->
           <<Register(inst.rm, 1), SegmentRegister(inst.reg)>>
      [] inst.operands = "Register16_SegReg" ->
           <<SegmentRegister(inst.reg), Register(inst.rm, 1)>>
      [] inst.operands = "SegReg_Memory16" ->
           <<AppendMemory(inst, ""), SegmentRegister(inst.reg)>>
      [] inst.operands = "Memory_SegReg" ->
           <<SegmentRegister(inst.reg), AppendMemory(inst, "")>>

\* segRegTable has four names: a larger index is read past its end.
SegmentOperands == {"SegReg_Register16", "Register16_SegReg", "SegReg_Memory16", "Memory_SegReg"}
NoSuchName(inst) == inst.operands \in SegmentOperands /\ inst.reg > 3

(***************************************************************************)
(* Labels.  core::find yields the first match.                             *)
(***************************************************************************)
LabelsAt(byteOff) == {l \in DOMAIN jmpLabels : jmpLabels[l].byteOffset = byteOff}
LabelName(l) == jmpLabels[l].labelIdx % LabelNumbers
FailedLabel == -1      \* "(failed to decode label)"

LabelLine(byteOff) ==
    IF LabelsAt(byteOff) = {} THEN <<>>
    ELSE << [label |-> LabelName(Min(LabelsAt(byteOff)))] >>

\* Mutant: byteIdx is increased only after the instruction is written.
InstructionLineFromStart(inst, end) ==
    LET found == LabelsAt(end - inst.byteCount + ToI8(inst.data[1])) IN
    [type |-> inst.type,
     operands |->
        IF inst.operands # "ShortLabel" THEN EncodeBasicInstruction(inst)
        ELSE << <<"label", IF found = {} THEN FailedLabel ELSE LabelName(Min(found))>> >>]

\* encodeInstruction; end is byteIdx, increased before the call.
InstructionLine(inst, end) ==
    LET found == LabelsAt(end + ToI8(inst.data[1])) IN
    [type |-> inst.type,
     operands |->
        IF inst.operands # "ShortLabel" THEN EncodeBasicInstruction(inst)
        ELSE << <<"label", IF found = {} THEN FailedLabel ELSE LabelName(Min(found))>> >>]

EncodeNext ==
    /\ encoding = "encoding" /\ i < Len(instructions)
    /\ LET inst == instructions[i + 1] IN
         /\ ~NoSuchName(inst)
         /\ byteIdx' = byteIdx + inst.byteCount
         /\ listing' = listing \o LabelLine(byteIdx)
                               \o <<InstructionLine(inst, byteIdx + inst.byteCount)>>
    /\ i' = i + 1
    /\ UNCHANGED <<options, encoding>>

\* A segment register without a name: nothing is known of what follows.
UndefinedName ==
    /\ encoding = "encoding" /\ i < Len(instructions)
    /\ NoSuchName(instructions[i + 1])
    /\ encoding' = "undefined"
    /\ UNCHANGED <<options, i, byteIdx, listing>>

\* Mutant: the loop ends with the instructions.
EndBeforeTheLastLabel ==
    /\ encoding = "encoding" /\ i = Len(instructions)
    /\ encoding' = "done"
    /\ UNCHANGED <<options, i, byteIdx, listing>>

\* Mutant: the last iteration counts as one.
EndCountingOn ==
    /\ encoding = "encoding" /\ i = Len(instructions)
    /\ listing' = listing \o LabelLine(byteIdx)
    /\ encoding' = "done"
    /\ i' = i + 1
    /\ UNCHANGED <<options, byteIdx>>

\* The iteration past the end of the instructions: a label at the end.
EncodeEnd ==
    /\ encoding = "encoding" /\ i = Len(instructions)
    /\ listing' = listing \o LabelLine(byteIdx)
    /\ encoding' = "done"
    /\ UNCHANGED <<options, i, byteIdx>>

EncoderNext ==
    /\ EncodeNext \/ UndefinedName \/ EncodeEnd
    /\ UNCHANGED decoderVars
-----------------------------------------------------------------------------
\* What a line can hold.  Segment registers are only written by the names they
\* have, and a base is an index of regDispTable.
ListedOperand ==
    ({"register"} \X (0..1) \X (0..7)) \cup ({"segment"} \X (0..3)) \cup ({"number"} \X Int)
      \cup ({"memory"} \X {"", "byte", "word"} \X ((-1)..7) \X Int)
      \cup ({"label"} \X (FailedLabel..LabelNumbers - 1))

Line == [label : 0..LabelNumbers - 1] \cup [type : InstType, operands : Seq(ListedOperand)]

EncoderTypeOK ==
    /\ options \in Options
    /\ i \in 0..Len(instructions)
    /\ byteIdx \in Nat
    /\ listing \in Seq(Line)
    /\ encoding \in {"encoding", "done", "undefined"}
=============================================================================
