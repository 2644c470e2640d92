------------------------------ MODULE Decoder -------------------------------
(***************************************************************************)
(* decodeAsm8086 of decoder.cpp: the loop that turns the bytes of a        *)
(* program into its instructions and collects a label for the target of    *)
(* every jump.  One step is one iteration of the loop.                     *)
(*                                                                         *)
(* The decoder does not check that an instruction ends before the bytes    *)
(* do.  Array accesses are checked by core::Arr with an Assert: a build    *)
(* with asserts (the debug preset) terminates there, a build without reads *)
(* whatever bytes follow the array in memory.                              *)
(***************************************************************************)
EXTENDS Instructions, Build, SequencesExt

CONSTANTS
    Inputs,            \* the byte sequences the decoder may be given
    StrayBytes         \* what may follow the byte array in memory

ASSUME DecoderConstants ==
    /\ Inputs \subseteq Seq(Byte)
    /\ StrayBytes \subseteq Byte /\ StrayBytes # {}

VARIABLES
    bytes,             \* the program, core::Arr<u8>
    idx,               \* DecodingContext::idx, the offset of the next instruction
    instructions,      \* DecodingContext::instructions
    jmpLabels,         \* DecodingContext::jmpLabels
    decoding           \* where the loop is, or how it was left

decoderVars == <<bytes, idx, instructions, jmpLabels, decoding>>

\* What may follow the array: the longest instruction has 6 bytes, and its
\* first is always in the array.
Overrun == [1..5 -> StrayBytes]
AnyTail == CHOOSE tail \in Overrun : TRUE

DecoderStatus == {"decoding", "done", "panicked", "asserted"}

DecoderInit ==
    /\ bytes \in Inputs
    /\ idx = 0
    /\ instructions = <<>>
    /\ jmpLabels = <<>>
    /\ decoding = "decoding"

\* Mutant: the loop condition admits one iteration too many.
IsDecodingPastTheEnd == decoding = "decoding" /\ idx <= Len(bytes)

IsDecoding == decoding = "decoding" /\ idx < Len(bytes)

\* The instruction decodeInstruction reads at idx when tail follows the array.
InstructionRead(tail) == DecodeInstruction(bytes \o tail, idx)
OpcodeKnown == OpcodeDecode((bytes \o AnyTail)[idx + 1]) # NoOpcode

\* The instruction at idx ends past the array.  What follows the array does not
\* matter here: each byte that decides the length follows one in the array.
Truncated == idx + InstructionRead(AnyTail).byteCount > Len(bytes)

\* What decodeInstruction may return, if it reads all its bytes.
InstructionsRead ==
    {InstructionRead(tail) : tail \in IF Truncated THEN Overrun ELSE {AnyTail}}

(***************************************************************************)
(* storeShortJmpLabel: the target is relative to the end of the jump, and  *)
(* a target that already has a label keeps it (core::appendUnique).        *)
(***************************************************************************)
\* Mutant: the target is taken relative to the start of the jump.
StoreLabelFromStart(labels, inst, at) ==
    LET byteOff == at + ToI8(inst.data[1])
    IN  IF \E k \in DOMAIN labels : labels[k].byteOffset = byteOff
        THEN labels
        ELSE Append(labels, [byteOffset |-> byteOff, labelIdx |-> Len(labels)])

\* Mutant: a label that is found is replaced, as by a set that is not ordered.
StoreLabelAgain(labels, inst, at) ==
    LET byteOff == at + inst.byteCount + ToI8(inst.data[1])
        others  == SelectSeq(labels, LAMBDA l : l.byteOffset # byteOff)
    IN  Append(others, [byteOffset |-> byteOff, labelIdx |-> Len(others)])

StoreShortJmpLabel(labels, inst, at) ==
    LET byteOff == at + inst.byteCount + ToI8(inst.data[1])
    IN  IF \E k \in DOMAIN labels : labels[k].byteOffset = byteOff
        THEN labels
        ELSE Append(labels, [byteOffset |-> byteOff, labelIdx |-> Len(labels)])

LabelsAfter(labels, inst, at) ==
    IF inst.operands = "ShortLabel" THEN StoreShortJmpLabel(labels, inst, at)
                                    ELSE labels

\* Mutant: an unknown reg field is not noticed.
DecodeAnything ==
    /\ IsDecoding /\ OpcodeKnown
    /\ ~(ASSERT_ENABLED /\ Truncated)
    /\ \E inst \in InstructionsRead :
         /\ jmpLabels' = LabelsAfter(jmpLabels, inst, idx)
         /\ idx' = idx + inst.byteCount
         /\ instructions' = Append(instructions, inst)
    /\ UNCHANGED <<bytes, decoding>>

\* One iteration of the loop that decodes an instruction.
DecodeNext ==
    /\ IsDecoding /\ OpcodeKnown
    /\ ~(ASSERT_ENABLED /\ Truncated)
    /\ \E inst \in InstructionsRead :
         /\ inst.type # "UNKNOWN"
         /\ jmpLabels' = LabelsAfter(jmpLabels, inst, idx)
         /\ idx' = idx + inst.byteCount
         /\ instructions' = Append(instructions, inst)
    /\ UNCHANGED <<bytes, decoding>>

\* Panic: no opcode is a prefix of the byte (opcodeDecode).
PanicOnOpcode ==
    /\ IsDecoding /\ ~OpcodeKnown
    /\ decoding' = "panicked"
    /\ UNCHANGED <<bytes, idx, instructions, jmpLabels>>

\* Panic: the reg field of IMM_TO_FROM_REG_OR_MEM names no supported operation.
PanicOnRegField ==
    /\ IsDecoding /\ OpcodeKnown
    /\ ~(ASSERT_ENABLED /\ Truncated)
    /\ \E inst \in InstructionsRead : inst.type = "UNKNOWN"
    /\ decoding' = "panicked"
    /\ UNCHANGED <<bytes, idx, instructions, jmpLabels>>

\* Assert in core::Arr: the last instruction is cut short.
AssertOnTruncation ==
    /\ IsDecoding /\ OpcodeKnown
    /\ ASSERT_ENABLED /\ Truncated
    /\ decoding' = "asserted"
    /\ UNCHANGED <<bytes, idx, instructions, jmpLabels>>

\* Mutant: the loop ends only exactly at the end of the bytes.
FinishAtTheEnd ==
    /\ decoding = "decoding" /\ idx = Len(bytes)
    /\ decoding' = "done"
    /\ UNCHANGED <<bytes, idx, instructions, jmpLabels>>

Finish ==
    /\ decoding = "decoding" /\ idx >= Len(bytes)
    /\ decoding' = "done"
    /\ UNCHANGED <<bytes, idx, instructions, jmpLabels>>

DecoderNext ==
    DecodeNext \/ PanicOnOpcode \/ PanicOnRegField \/ AssertOnTruncation \/ Finish

\* The loop runs in the program's only thread: nothing can keep it from its
\* next iteration.
DecoderSpec == DecoderInit /\ [][DecoderNext]_decoderVars /\ WF_decoderVars(DecoderNext)
-----------------------------------------------------------------------------
DecoderTypeOK ==
    /\ bytes \in Seq(Byte)
    /\ idx \in Nat
    /\ instructions \in Seq(Instruction)
    /\ jmpLabels \in Seq([byteOffset : Int, labelIdx : Nat])
    /\ decoding \in DecoderStatus

(***************************************************************************)
(* Properties.                                                             *)
(***************************************************************************)

\* The bytes of an instruction by the layout of its encoding, written from
\* the opposite side as the decoder: opcode byte, mod/reg/rm byte, then as
\* many displacement and data bytes as the addressing mode and the operands
\* have room for.
OpcodeByte(inst) ==
    CASE inst.opcode \in Opcodes8 -> inst.opcode
      [] inst.opcode \in Opcodes7 -> 2 * inst.opcode + inst.w
      [] inst.opcode \in Opcodes6 -> 4 * inst.opcode + 2 * (inst.d + inst.s) + inst.w
      [] inst.opcode \in Opcodes4 -> 16 * inst.opcode + 8 * inst.w + inst.reg

ModRegRmByte(inst) ==
    IF inst.mod = NONE_SENTINEL THEN <<>>
    ELSE <<64 * inst.mod + 8 * inst.reg + inst.rm>>

DispBytes(inst) ==
    CASE Is8bitDisplacement(inst.mod) -> <<inst.disp[1]>>
      [] Is16bitDisplacement(inst.mod) \/ IsDirectAddrMode(inst.mod, inst.rm) -> inst.disp
      [] OTHER -> <<>>

DataBytes(inst) ==
    CASE inst.operands \in {"Register_Immediate", "Memory_Immediate",
                            "Accumulator_Immediate"} ->
           IF inst.w = 1 /\ inst.s = 0 THEN inst.data ELSE <<inst.data[1]>>
      [] inst.operands \in {"Memory_Accumulator", "Accumulator_Memory"} -> inst.data
      [] inst.operands = "ShortLabel" -> <<inst.data[1]>>
      [] OTHER -> <<>>

Assemble(inst) ==
    <<OpcodeByte(inst)>> \o ModRegRmByte(inst) \o DispBytes(inst) \o DataBytes(inst)

\* Decoding loses nothing and invents nothing: assembling the instructions
\* again gives the bytes up to idx, of which at most the last instruction's
\* can lie past the end of the array (decodeFromDisplacements, and the
\* advance of ctx.idx in decodeAsm8086).
Lossless ==
    LET image == FlattenSeq([k \in DOMAIN instructions |-> Assemble(instructions[k])])
        both  == {k \in DOMAIN image : k <= Len(bytes)}
    IN  /\ Len(image) = idx
        /\ \A k \in both : image[k] = bytes[k]

\* An instruction begins inside the array, even when it ends past it, and
\* only the last one can end past it (the loop's condition).
OnlyTheLastOverruns ==
    \A k \in DOMAIN instructions :
        /\ StartOf(instructions, k) < Len(bytes)
        /\ ASSERT_ENABLED \/ k < Len(instructions) =>
              StartOf(instructions, k + 1) <= Len(bytes)

\* The offset the jump instructions[k] goes to.
TargetOf(k) == StartOf(instructions, k + 1) + ToI8(instructions[k].data[1])
DecodedJumps == {k \in DOMAIN instructions : instructions[k].operands = "ShortLabel"}

\* The labels are the targets of the jumps decoded so far, one label for each
\* target however many jumps go there, numbered in the order of the first
\* jump to each (storeShortJmpLabel).
LabelsAreTargets ==
    /\ {jmpLabels[l].byteOffset : l \in DOMAIN jmpLabels} = {TargetOf(k) : k \in DecodedJumps}
    /\ \A l, m \in DOMAIN jmpLabels :
          jmpLabels[l].byteOffset = jmpLabels[m].byteOffset => l = m
    /\ \A l \in DOMAIN jmpLabels : jmpLabels[l].labelIdx = l - 1
    /\ \A k, n \in DecodedJumps, l, m \in DOMAIN jmpLabels :
          /\ l < m /\ TargetOf(n) = jmpLabels[m].byteOffset
          /\ k = Min({j \in DecodedJumps : TargetOf(j) = jmpLabels[l].byteOffset})
          => k < n

\* A label that was handed out is never changed or taken back: the listing may
\* name it from any later line (appendUnique keeps the label it finds).
LabelsAreStable == [][IsPrefix(jmpLabels, jmpLabels')]_decoderVars
=============================================================================
