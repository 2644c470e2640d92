---------------------------- MODULE Instructions ----------------------------
(***************************************************************************)
(* The Instruction record of decoder.h, the addressing-mode predicates of  *)
(* utils.h and decodeInstruction of decoder.cpp: how one instruction is    *)
(* read from the bytes at an offset.  The loop around it and the jump      *)
(* labels are in Decoder.                                                  *)
(*                                                                         *)
(* Offsets count bytes from 0 as in the code, sequences count from 1: the  *)
(* byte at offset k is bytes[k + 1].                                       *)
(***************************************************************************)
EXTENDS Opcodes, FiniteSets

(***************************************************************************)
(* enum Mod and its predicates.                                            *)
(***************************************************************************)
MEMORY_NO_DISPLACEMENT == 0
MEMORY_8_BIT_DISPLACEMENT == 1
MEMORY_16_BIT_DISPLACEMENT == 2
REGISTER_TO_REGISTER_NO_DISPLACEMENT == 3
NONE_SENTINEL == 4

Mod == 0..4

IsDirectAddrMode(mod, rm) == mod = MEMORY_NO_DISPLACEMENT /\ rm = 6
IsRegToReg(mod) == mod = REGISTER_TO_REGISTER_NO_DISPLACEMENT
IsEffectiveAddrCalc(mod) == mod \notin {NONE_SENTINEL, REGISTER_TO_REGISTER_NO_DISPLACEMENT}
Is8bitDisplacement(mod) == mod = MEMORY_8_BIT_DISPLACEMENT
Is16bitDisplacement(mod) == mod = MEMORY_16_BIT_DISPLACEMENT

(***************************************************************************)
(* enum InstType.  Of two synonyms (JE and JZ) the decoder only yields the *)
(* first, and so does the model.                                           *)
(***************************************************************************)
ArithmeticTypes == {"ADD", "SUB", "CMP"}

ConditionalJumpType ==
    <<"JO", "JNO", "JB", "JNB", "JE", "JNE", "JBE", "JNBE",
      "JS", "JNS", "JP", "JNP", "JL", "JNL", "JLE", "JNLE">>
LoopJumpType == <<"LOOPNE", "LOOPE", "LOOP", "JCXZ">>

JumpTypes == {"JO", "JNO", "JB", "JNB", "JE", "JNE", "JBE", "JNBE",
              "JS", "JNS", "JP", "JNP", "JL", "JNL", "JLE", "JNLE",
              "LOOPNE", "LOOPE", "LOOP", "JCXZ"}
InstType == {"MOV"} \cup ArithmeticTypes \cup JumpTypes

(***************************************************************************)
(* enum Operands.  In the names with Memory, Accumulator or SegReg the     *)
(* source comes first: Memory_Register loads a register from memory and    *)
(* Register_Memory stores one; Register_Immediate and Memory_Immediate are *)
(* the other way round.                                                    *)
(***************************************************************************)
Operands == {"Memory_Accumulator", "Memory_Register", "Memory_Immediate",
             "Register_Register", "Register_Memory", "Register_Immediate",
             "Accumulator_Memory", "Accumulator_Immediate", "ShortLabel",
             "SegReg_Register16", "SegReg_Memory16", "Register16_SegReg",
             "Memory_SegReg"}

InstructionFields ==
    [opcode : Opcode, d : 0..1, s : 0..1, w : 0..1, mod : Mod, reg : 0..7, rm : 0..7,
     disp : Byte \X Byte, data : Byte \X Byte,
     type : InstType, operands : Operands, byteCount : 1..6]

\* What decodeInstruction returns.  The operands of a jump, and of nothing else,
\* are a short label; only the arithmetic with an immediate has an s field;
\* operands with an effective address have a mod that says how it is made; and
\* the accumulator moves have no mod and no rm field, which is left 0.
Instruction ==
    {i \in InstructionFields :
        /\ i.type \in JumpTypes <=> i.operands = "ShortLabel"
        /\ i.s = 1 => /\ i.type \in ArithmeticTypes
                      /\ i.operands \in {"Register_Immediate", "Memory_Immediate"}
        /\ i.operands \in {"Memory_Register", "Register_Memory", "Memory_Immediate"} =>
              IsEffectiveAddrCalc(i.mod)
        /\ i.operands \in {"Memory_Accumulator", "Accumulator_Memory"} =>
              i.mod = NONE_SENTINEL /\ i.rm = 0}

\* The type the switch over the opcode sets; of the opcode that ADD, SUB and
\* CMP share, the reg field decides.
TypeOfOpcode(opcode, reg) ==
    CASE opcode \in ConditionalJumps -> ConditionalJumpType[opcode - 111]
      [] opcode \in LoopJumps        -> LoopJumpType[opcode - 223]
      [] opcode \in {ADD_REG_OR_MEM_WITH_REG_TO_EDIT, ADD_IMM_TO_ACC} -> "ADD"
      [] opcode \in {SUB_REG_OR_MEM_WITH_REG_TO_EDIT, SUB_IMM_FROM_ACC} -> "SUB"
      [] opcode \in {CMP_REG_OR_MEM_WITH_REG, CMP_IMM_WITH_ACC} -> "CMP"
      [] opcode = IMM_TO_FROM_REG_OR_MEM ->
           (CASE reg = 0 -> "ADD" [] reg = 5 -> "SUB" [] reg = 7 -> "CMP"
              [] OTHER -> "UNKNOWN")
      [] OTHER -> "MOV"

OperandsOfOpcode(opcode, mod, d) ==
    CASE opcode \in JumpOpcodes -> "ShortLabel"
      [] opcode \in RegMemOpcodes ->
           IF IsRegToReg(mod) THEN "Register_Register"
           ELSE IF d = 1 THEN "Memory_Register" ELSE "Register_Memory"
      [] opcode \in {IMM_TO_FROM_REG_OR_MEM, MOV_IMM_TO_REG_OR_MEM} ->
           IF IsEffectiveAddrCalc(mod) THEN "Memory_Immediate" ELSE "Register_Immediate"
      [] opcode = MOV_IMM_TO_REG -> "Register_Immediate"
      [] opcode = MOV_MEM_TO_ACC -> "Memory_Accumulator"
      [] opcode = MOV_ACC_TO_MEM -> "Accumulator_Memory"
      [] opcode \in {ADD_IMM_TO_ACC, SUB_IMM_FROM_ACC, CMP_IMM_WITH_ACC} ->
           "Accumulator_Immediate"
      [] opcode = MOV_REG_OR_MEMORY_TO_SEGMENT_REG ->
           IF IsRegToReg(mod) THEN "Register16_SegReg" ELSE "Memory_SegReg"
      [] opcode = MOV_SEGMENT_REG_TO_REG_OR_MEMORY ->
           IF IsRegToReg(mod) THEN "SegReg_Register16" ELSE "SegReg_Memory16"

(***************************************************************************)
(* The lengths decodeFromDisplacements adds up: opcode and mod/reg/rm      *)
(* bytes (ibc + 1 after the fields), displacement bytes, data bytes.       *)
(***************************************************************************)
HeaderLength(fd) == IF fd.rm.byteIdx < 0 THEN 1 ELSE fd.rm.byteIdx + 1

DispLength(fd, mod, rm) ==
    CASE fd.disp /\ Is8bitDisplacement(mod) -> 1
      [] fd.disp /\ (Is16bitDisplacement(mod) \/ IsDirectAddrMode(mod, rm)) -> 2
      [] OTHER -> 0

\* Mutant: the s bit is forgotten.
DataIsWordByW(fd, s, w) ==
    IF fd.fixedWord = NO_FIXED_SIZE THEN w = 1 ELSE fd.fixedWord = FIXED_SIZE_WORD

DataIsWord(fd, s, w) ==
    IF fd.fixedWord = NO_FIXED_SIZE THEN s = 0 /\ w = 1
                                    ELSE fd.fixedWord = FIXED_SIZE_WORD

DataLength(fd, s, w) ==
    IF fd.data THEN (IF DataIsWord(fd, s, w) THEN 2 ELSE 1) ELSE 0

\* One field of the instruction at offset idx; fields not present stay 0.
Field(bytes, idx, f) ==
    IF f.byteIdx < 0 THEN 0
                     ELSE BitField(bytes[idx + f.byteIdx + 1], f.shift, f.values)

\* The n (0, 1 or 2) bytes from offset idx, low byte first; absent ones are 0.
LowHigh(bytes, idx, n) ==
    <<IF n > 0 THEN bytes[idx + 1] ELSE 0, IF n > 1 THEN bytes[idx + 2] ELSE 0>>

(***************************************************************************)
(* decodeInstruction, without its effect on the jump labels, for bytes     *)
(* whose opcode is known and long enough for every byte it reads.          *)
(***************************************************************************)
DecodeInstruction(bytes, idx) ==
    LET opcode  == OpcodeDecode(bytes[idx + 1])
        fd      == FieldDisplacements(opcode)
        d       == Field(bytes, idx, fd.d)
        s       == Field(bytes, idx, fd.s)
        w       == Field(bytes, idx, fd.w)
        mod     == IF fd.mod.byteIdx < 0 THEN NONE_SENTINEL
                                         ELSE Field(bytes, idx, fd.mod)
        reg     == Field(bytes, idx, fd.reg)
        rm      == IF opcode = MOV_IMM_TO_REG THEN reg ELSE Field(bytes, idx, fd.rm)
        dispIdx == idx + HeaderLength(fd)
        dispLen == DispLength(fd, mod, rm)
        dataLen == DataLength(fd, s, w)
    IN  [opcode |-> opcode, d |-> d, s |-> s, w |-> w, mod |-> mod,
         reg |-> reg, rm |-> rm,
         disp |-> LowHigh(bytes, dispIdx, dispLen),
         data |-> LowHigh(bytes, dispIdx + dispLen, dataLen),
         type |-> TypeOfOpcode(opcode, reg),
         operands |-> OperandsOfOpcode(opcode, mod, d),
         byteCount |-> HeaderLength(fd) + dispLen + dataLen]

\* Where the instruction program[i] begins: what the emulator's linear search
\* and the disassembler's byteIdx add up (and for i = Len + 1 the length of
\* the program in bytes).
StartOf(program, i) ==
    LET start[k \in 1..(Len(program) + 1)] ==
            IF k = 1 THEN 0 ELSE start[k - 1] + program[k - 1].byteCount
    IN  start[i]
=============================================================================
