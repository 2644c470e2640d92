------------------------------ MODULE Opcodes -------------------------------
(***************************************************************************)
(* opcodes.h and opcodes.cpp: the opcodes, which are prefixes of 8, 7, 6   *)
(* or 4 bits of an instruction's first byte, the search for the opcode of  *)
(* a byte, and the table that says where in an instruction the fields of   *)
(* each opcode are.                                                        *)
(***************************************************************************)
EXTENDS Word16, Sequences

(***************************************************************************)
(* enum Opcode.  The values are those of the enumeration: opcodes of       *)
(* different widths are kept in one enumeration and index one table.       *)
(***************************************************************************)
MOV_IMM_TO_REG == 11                       \* 1011

ADD_REG_OR_MEM_WITH_REG_TO_EDIT == 0       \* 000000
SUB_REG_OR_MEM_WITH_REG_TO_EDIT == 10      \* 001010
CMP_REG_OR_MEM_WITH_REG == 14              \* 001110
IMM_TO_FROM_REG_OR_MEM == 32               \* 100000
MOV_REG_OR_MEM_TO_OR_FROM_REG == 34        \* 100010

ADD_IMM_TO_ACC == 2                        \* 0000010
SUB_IMM_FROM_ACC == 22                     \* 0010110
CMP_IMM_WITH_ACC == 30                     \* 0011110
MOV_MEM_TO_ACC == 80                       \* 1010000
MOV_ACC_TO_MEM == 81                       \* 1010001
MOV_IMM_TO_REG_OR_MEM == 99                \* 1100011

MOV_SEGMENT_REG_TO_REG_OR_MEMORY == 140    \* 10001100
MOV_REG_OR_MEMORY_TO_SEGMENT_REG == 142    \* 10001110

\* JO_ON_OVERFLOW .. JNLE_JG_ON_NOT_LESS_OR_EQ_GE, 01110000 .. 01111111
ConditionalJumps == 112..127
\* LOOPNZ_LOOPNE.., LOOPZ_LOOPE.., LOOP_CX_TIMES, JCXZ.., 11100000 .. 11100011
LoopJumps == 224..227
JumpOpcodes == ConditionalJumps \cup LoopJumps

Opcodes8 == JumpOpcodes \cup {MOV_SEGMENT_REG_TO_REG_OR_MEMORY,
                              MOV_REG_OR_MEMORY_TO_SEGMENT_REG}
Opcodes7 == {ADD_IMM_TO_ACC, SUB_IMM_FROM_ACC, CMP_IMM_WITH_ACC,
             MOV_MEM_TO_ACC, MOV_ACC_TO_MEM, MOV_IMM_TO_REG_OR_MEM}
RegMemOpcodes == {MOV_REG_OR_MEM_TO_OR_FROM_REG, ADD_REG_OR_MEM_WITH_REG_TO_EDIT,
                  SUB_REG_OR_MEM_WITH_REG_TO_EDIT, CMP_REG_OR_MEM_WITH_REG}
Opcodes6 == RegMemOpcodes \cup {IMM_TO_FROM_REG_OR_MEM}
Opcodes4 == {MOV_IMM_TO_REG}
Opcode == Opcodes8 \cup Opcodes7 \cup Opcodes6 \cup Opcodes4

NoOpcode == -1

(***************************************************************************)
(* opcodeDecode: the longest opcodes are tried first, and NoOpcode stands  *)
(* for the Panic at the end of the function.                               *)
(***************************************************************************)
OpcodeDecode(byte) ==
    IF byte \in Opcodes8 THEN byte
    ELSE IF byte \div 2 \in Opcodes7 THEN byte \div 2
    ELSE IF byte \div 4 \in Opcodes6 THEN byte \div 4
    ELSE IF byte \div 16 \in Opcodes4 THEN byte \div 16
    ELSE NoOpcode

(***************************************************************************)
(* FieldDisplacements.  A field is found in byte byteIdx of the            *)
(* instruction by dividing by shift (2^offset) and keeping `values` values *)
(* (the width of the mask); NotSet is the field that is not present.  Only *)
(* whether disp1 and data1 are present matters to the decoder, never their *)
(* byte index.                                                             *)
(***************************************************************************)
NotSet == [byteIdx |-> -1, shift |-> 1, values |-> 1]

DEFAULT_W   == [byteIdx |-> 0, shift |-> 1,  values |-> 2]
DEFAULT_D   == [byteIdx |-> 0, shift |-> 2,  values |-> 2]
DEFAULT_S   == [byteIdx |-> 0, shift |-> 2,  values |-> 2]
DEFAULT_MOD == [byteIdx |-> 1, shift |-> 64, values |-> 4]
DEFAULT_REG == [byteIdx |-> 1, shift |-> 8,  values |-> 8]
DEFAULT_RM  == [byteIdx |-> 1, shift |-> 1,  values |-> 8]

NO_FIXED_SIZE   == -1
FIXED_SIZE_BYTE == 0
FIXED_SIZE_WORD == 1

NoFields == [d |-> NotSet, s |-> NotSet, w |-> NotSet, mod |-> NotSet,
             reg |-> NotSet, rm |-> NotSet, disp |-> FALSE, data |-> FALSE,
             fixedWord |-> NO_FIXED_SIZE]

DEFAULT_JMP == [NoFields EXCEPT !.data = TRUE, !.fixedWord = FIXED_SIZE_BYTE]

ModRegRmFields == [NoFields EXCEPT !.mod = DEFAULT_MOD, !.reg = DEFAULT_REG,
                                   !.rm = DEFAULT_RM, !.disp = TRUE]

AccumulatorFields == [NoFields EXCEPT !.d = DEFAULT_D, !.w = DEFAULT_W,
                                      !.data = TRUE]

ImmToRegFields ==
    [NoFields EXCEPT !.w = [byteIdx |-> 0, shift |-> 8, values |-> 2],
                     !.reg = [byteIdx |-> 0, shift |-> 1, values |-> 8],
                     !.data = TRUE]

\* getFieldDisplacements, with the table filled by initDisplacementsLT.
FieldDisplacements(opcode) ==
    CASE opcode \in RegMemOpcodes ->
           [ModRegRmFields EXCEPT !.d = DEFAULT_D, !.w = DEFAULT_W]
      [] opcode = IMM_TO_FROM_REG_OR_MEM ->
           [ModRegRmFields EXCEPT !.s = DEFAULT_S, !.w = DEFAULT_W, !.data = TRUE]
      [] opcode = MOV_IMM_TO_REG_OR_MEM ->
           [ModRegRmFields EXCEPT !.w = DEFAULT_W, !.data = TRUE]
      [] opcode \in {MOV_REG_OR_MEMORY_TO_SEGMENT_REG,
                     MOV_SEGMENT_REG_TO_REG_OR_MEMORY} -> ModRegRmFields
      [] opcode = MOV_IMM_TO_REG -> ImmToRegFields
      [] opcode \in {MOV_MEM_TO_ACC, MOV_ACC_TO_MEM} ->
           [AccumulatorFields EXCEPT !.fixedWord = FIXED_SIZE_WORD]
      [] opcode \in {ADD_IMM_TO_ACC, SUB_IMM_FROM_ACC, CMP_IMM_WITH_ACC} ->
           AccumulatorFields
      [] opcode \in JumpOpcodes -> DEFAULT_JMP
=============================================================================
