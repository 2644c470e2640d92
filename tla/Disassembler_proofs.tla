------------------------- MODULE Disassembler_proofs -------------------------
(***************************************************************************)
(* Theorems about the decoder's loop and about the listing written from    *)
(* what it leaves: for every file, whatever follows it in memory, in       *)
(* builds with and without asserts.                                        *)
(***************************************************************************)
EXTENDS Disassembler, Instructions_proofs, SequenceTheorems, FiniteSetTheorems

(***************************************************************************)
(* What the decoder reads.                                                 *)
(***************************************************************************)
\* Reading past the array is reading the bytes that follow it.
LEMMA TailsAreBytes ==
    /\ AnyTail \in Overrun
    /\ \A tail \in Overrun : tail \in Seq(Byte) /\ Len(tail) = 5
<1>1. StrayBytes \subseteq Byte /\ StrayBytes # {}
  BY DecoderConstants
<1>2. AnyTail \in Overrun
  <2>1. PICK b \in StrayBytes : TRUE
    BY <1>1
  <2>2. [k \in 1..5 |-> b] \in Overrun
    BY DEF Overrun
  <2>3. QED
    BY <2>2 DEF AnyTail
<1>3. ASSUME NEW tail \in Overrun
      PROVE  tail \in Seq(Byte) /\ Len(tail) = 5
  <2>1. tail \in [1..5 -> Byte]
    BY <1>1 DEF Overrun
  <2>2. tail \in Seq(Byte)
    <3>1. tail \in UNION {[1..n -> Byte] : n \in Nat}
      BY <2>1
    <3>2. QED
      BY <3>1, SeqDef, Zenon
  <2>3. Len(tail) \in Nat /\ DOMAIN tail = 1..Len(tail)
    BY <2>2, LenProperties, Zenon
  <2>4. DOMAIN tail = 1..5
    BY <2>1
  <2>5. Len(tail) = 5
    <3> DEFINE n == Len(tail)
    <3>1. n \in Nat /\ 1..n = 1..5
      BY <2>3, <2>4
    <3> HIDE DEF n
    <3>2. 5 \in 1..n /\ n \in 1..n
      BY <3>1
    <3>3. n = 5
      BY <3>1, <3>2
    <3>4. QED
      BY <3>3 DEF n
  <2>6. QED
    BY <2>2, <2>5
<1>4. QED
  BY <1>2, <1>3

LEMMA BytesRead ==
    ASSUME NEW array \in Seq(Byte), NEW at \in Nat, at < Len(array), NEW tail \in Overrun
    PROVE  /\ array \o tail \in Seq(Byte)
           /\ at + 6 <= Len(array \o tail)
           /\ \A k \in 1..Len(array) : (array \o tail)[k] = array[k]
           /\ array[at + 1] \in Byte
<1>1. tail \in Seq(Byte) /\ Len(tail) = 5
  BY TailsAreBytes
<1>2. /\ array \o tail \in Seq(Byte)
      /\ Len(array \o tail) = Len(array) + 5
      /\ \A k \in 1..Len(array) + 5 :
            (array \o tail)[k] = IF k <= Len(array) THEN array[k] ELSE tail[k - Len(array)]
  <2>1. /\ array \o tail \in Seq(Byte)
        /\ Len(array \o tail) = Len(array) + Len(tail)
        /\ \A k \in 1..Len(array) + Len(tail) :
              (array \o tail)[k] = IF k <= Len(array) THEN array[k] ELSE tail[k - Len(array)]
    BY <1>1, ConcatProperties, Zenon
  <2>2. QED
    BY <1>1, <2>1, Zenon
<1>3. Len(array) \in Nat /\ at + 1 \in 1..Len(array)
  OBVIOUS
<1>4. at + 6 <= Len(array \o tail)
  BY <1>2, <1>3
<1>5. ASSUME NEW k \in 1..Len(array)
      PROVE  (array \o tail)[k] = array[k]
  BY <1>2, <1>3, k \in 1..Len(array) + 5
<1>6. array[at + 1] \in Byte
  BY <1>3, ElementOfSeq
<1>7. QED
  BY <1>2, <1>4, <1>5, <1>6

\* Whether an opcode is known does not depend on what follows the array; and
\* what is decoded where it is known is an instruction.
LEMMA InstructionIsRead ==
    ASSUME bytes \in Seq(Byte), idx \in Nat, IsDecoding, OpcodeKnown,
           NEW tail \in Overrun, InstructionRead(tail).type # "UNKNOWN"
    PROVE  InstructionRead(tail) \in Instruction
<1> DEFINE read == bytes \o tail
<1>1. idx < Len(bytes)
  BY DEF IsDecoding
<1>2. /\ read \in Seq(Byte) /\ idx + 6 <= Len(read) /\ read[idx + 1] = bytes[idx + 1]
  <2>1. idx + 1 \in 1..Len(bytes)
    BY <1>1
  <2>2. QED
    BY <1>1, <2>1, BytesRead
<1>3. (bytes \o AnyTail)[idx + 1] = bytes[idx + 1]
  <2>1. idx + 1 \in 1..Len(bytes)
    BY <1>1
  <2>2. QED
    BY <1>1, <2>1, BytesRead, TailsAreBytes
<1>4. OpcodeDecode(read[idx + 1]) # NoOpcode
  BY <1>2, <1>3 DEF OpcodeKnown
<1>5. InstructionRead(tail) = DecodeInstruction(read, idx)
  BY DEF InstructionRead
<1> HIDE DEF read
<1>6. QED
  BY <1>2, <1>4, <1>5, DecodedIsInstruction
-----------------------------------------------------------------------------
(***************************************************************************)
(* Assembling what was decoded: the bytes that were read.                  *)
(***************************************************************************)
\* Some bytes of a sequence, by length.
LEMMA ShortSubSeq ==
    ASSUME NEW array \in Seq(Byte), NEW from \in Nat, NEW n \in 0..2, from + n <= Len(array)
    PROVE  LET pair == LowHigh(array, from, n) IN
           SubSeq(array, from + 1, from + n) = IF n = 0 THEN <<>> ELSE IF n = 1 THEN <<pair[1]>> ELSE pair
<1> DEFINE pair == LowHigh(array, from, n)
           part == SubSeq(array, from + 1, from + n)
           taken == IF n = 0 THEN <<>> ELSE IF n = 1 THEN <<pair[1]>> ELSE pair
<1>1. /\ part \in Seq(Byte) /\ Len(part) = n
      /\ \A k \in 1..n : part[k] = array[from + k]
  OBVIOUS
<1>2. /\ n > 0 => array[from + 1] \in Byte
      /\ n > 1 => array[from + 2] \in Byte
  OBVIOUS
<1>3. ASSUME n = 0 PROVE part = taken
  <2>1. part = <<>>
    BY <1>1, <1>3
  <2>2. part = taken
    BY <1>3, <2>1
  <2> HIDE DEF taken, part
  <2>3. QED
    BY <2>2
<1>4. ASSUME n = 1 PROVE part = taken
  <2>1. taken = <<array[from + 1]>>
    BY <1>4 DEF LowHigh
  <2>2. taken \in Seq(Byte) /\ Len(taken) = 1 /\ taken[1] = array[from + 1]
    BY <1>2, <1>4, <2>1
  <2>3. part[1] = array[from + 1] /\ Len(part) = 1
    BY <1>1, <1>4
  <2> HIDE DEF taken, part
  <2>4. \A k \in 1..Len(part) : part[k] = taken[k]
    BY <2>2, <2>3
  <2>5. part = taken
    BY <1>1, <2>2, <2>3, <2>4, SeqEqual
  <2>6. QED
    BY <2>5
<1>5. ASSUME n = 2 PROVE part = taken
  <2>1. taken = <<array[from + 1], array[from + 2]>>
    BY <1>5 DEF LowHigh
  <2>2. taken \in Seq(Byte) /\ Len(taken) = 2 /\ taken[1] = array[from + 1] /\ taken[2] = array[from + 2]
    <3> DEFINE a == array[from + 1]
               b == array[from + 2]
    <3>1. a \in Byte /\ b \in Byte /\ taken = <<a, b>>
      BY <1>2, <1>5, <2>1
    <3> HIDE DEF a, b, taken
    <3>2. taken \in Seq(Byte) /\ Len(taken) = 2 /\ taken[1] = a /\ taken[2] = b
      BY <3>1
    <3>3. QED
      BY <3>2 DEF a, b
  <2>3. part[1] = array[from + 1] /\ part[2] = array[from + 2] /\ Len(part) = 2
    BY <1>1, <1>5
  <2> HIDE DEF taken, part
  <2>4. \A k \in 1..Len(part) : part[k] = taken[k]
    BY <2>2, <2>3
  <2>5. part = taken
    BY <1>1, <2>2, <2>3, <2>4, SeqEqual
  <2>6. QED
    BY <2>5
<1>6. part = taken
  <2> HIDE DEF taken, part
  <2> QED
    BY <1>3, <1>4, <1>5
<1>7. QED
  BY <1>6

\* Opcodes of one width are of no other.
LEMMA WidthsApart ==
    ASSUME NEW o
    PROVE  /\ o \in Opcodes8 => o \notin Opcodes7 /\ o \notin Opcodes6 /\ o \notin Opcodes4
           /\ o \in Opcodes7 => /\ o \notin Opcodes8 /\ o \notin Opcodes6 /\ o \notin Opcodes4
                                /\ o # MOV_IMM_TO_REG
           /\ o \in Opcodes6 => /\ o \notin Opcodes8 /\ o \notin Opcodes7 /\ o \notin Opcodes4
                                /\ o # MOV_IMM_TO_REG
           /\ o \in Opcodes4 => /\ o \notin Opcodes8 /\ o \notin Opcodes7 /\ o \notin Opcodes6
                                /\ o = MOV_IMM_TO_REG /\ o \notin ModRegRmOpcodes
           /\ o \in Opcodes6 => \/ o = IMM_TO_FROM_REG_OR_MEM /\ o \notin RegMemOpcodes
                                      /\ o \notin AccumulatorMemory /\ o \notin ImmediateToAccumulator
                                \/ o # IMM_TO_FROM_REG_OR_MEM /\ o \in RegMemOpcodes
<1>1. o \in Opcodes8 => o \notin Opcodes7 /\ o \notin Opcodes6 /\ o \notin Opcodes4
  BY OpcodesApart
<1>2. o \in Opcodes7 => o \notin Opcodes8 /\ o \notin Opcodes6 /\ o \notin Opcodes4 /\ o # MOV_IMM_TO_REG
  BY OpcodesApart
<1>3. o \in Opcodes6 => o \notin Opcodes8 /\ o \notin Opcodes7 /\ o \notin Opcodes4 /\ o # MOV_IMM_TO_REG
  BY OpcodesApart
<1>4. o \in Opcodes4 => /\ o \notin Opcodes8 /\ o \notin Opcodes7 /\ o \notin Opcodes6
                        /\ o = MOV_IMM_TO_REG /\ o \notin ModRegRmOpcodes
  BY OpcodesApart
<1>5. o \in Opcodes6 => \/ o = IMM_TO_FROM_REG_OR_MEM /\ o \notin RegMemOpcodes
                              /\ o \notin AccumulatorMemory /\ o \notin ImmediateToAccumulator
                        \/ o # IMM_TO_FROM_REG_OR_MEM /\ o \in RegMemOpcodes
  BY OpcodesApart
<1>6. QED
  BY <1>1, <1>2, <1>3, <1>4, <1>5, Zenon

\* The first byte of an instruction, put together from its fields.
LEMMA FirstByteIs ==
    ASSUME NEW array \in Seq(Byte), NEW at \in Nat, at + 2 <= Len(array),
           OpcodeDecode(array[at + 1]) # NoOpcode
    PROVE  OpcodeByte(DecodeInstruction(array, at)) = array[at + 1]
<1> DEFINE inst == DecodeInstruction(array, at)
           o == OpcodeDecode(array[at + 1])
           first == array[at + 1]
           byte7 == 2 * inst.opcode + inst.w
           byte6 == 4 * inst.opcode + 2 * (inst.d + inst.s) + inst.w
           byte4 == 16 * inst.opcode + 8 * inst.w + inst.reg
<1>1. /\ o \in Opcode /\ inst.opcode = o
      /\ inst.d = IF o \in RegMemOpcodes \cup AccumulatorMemory \cup ImmediateToAccumulator
                  THEN (first \div 2) % 2 ELSE 0
      /\ inst.s = IF o = IMM_TO_FROM_REG_OR_MEM THEN (first \div 2) % 2 ELSE 0
      /\ inst.w = IF o = MOV_IMM_TO_REG THEN (first \div 8) % 2
                  ELSE IF o \in Opcodes8 THEN 0 ELSE first % 2
      /\ inst.reg = IF o \in ModRegRmOpcodes THEN (array[at + 2] \div 8) % 8
                    ELSE IF o = MOV_IMM_TO_REG THEN first % 8 ELSE 0
  BY DecodedFields
<1>2. first \in Byte
  BY FieldIs
<1>3. /\ o \in Opcodes8 => first = o
      /\ o \in Opcodes7 => first = 2 * o + (first % 2)
      /\ o \in Opcodes6 => first = 4 * o + 2 * ((first \div 2) % 2) + (first % 2)
      /\ o \in Opcodes4 => first = 16 * o + 8 * ((first \div 8) % 2) + (first % 8)
  BY <1>2, OpcodeOfByte
<1>4. OpcodeByte(inst) =
        CASE inst.opcode \in Opcodes8 -> inst.opcode
          [] inst.opcode \in Opcodes7 -> byte7
          [] inst.opcode \in Opcodes6 -> byte6
          [] inst.opcode \in Opcodes4 -> byte4
  BY Zenon DEF OpcodeByte
<1>5. first \in Int /\ (first \div 2) % 2 \in Int /\ first % 2 \in Int /\ (first \div 8) % 2 \in Int
      /\ first % 8 \in Int
  <2>1. first \in Int
    BY <1>2 DEF Byte
  <2> HIDE DEF first
  <2>2. QED
    BY <2>1
<1> HIDE DEF inst, o, first
<1>6. /\ o \in Opcodes8 => o \notin Opcodes7 /\ o \notin Opcodes6 /\ o \notin Opcodes4
      /\ o \in Opcodes7 => /\ o \notin Opcodes8 /\ o \notin Opcodes6 /\ o \notin Opcodes4
                           /\ o # MOV_IMM_TO_REG
      /\ o \in Opcodes6 => /\ o \notin Opcodes8 /\ o \notin Opcodes7 /\ o \notin Opcodes4
                           /\ o # MOV_IMM_TO_REG
      /\ o \in Opcodes4 => /\ o \notin Opcodes8 /\ o \notin Opcodes7 /\ o \notin Opcodes6
                           /\ o = MOV_IMM_TO_REG /\ o \notin ModRegRmOpcodes
      /\ o \in Opcodes8 \/ o \in Opcodes7 \/ o \in Opcodes6 \/ o \in Opcodes4
  <2>1. o \in Opcodes8 \/ o \in Opcodes7 \/ o \in Opcodes6 \/ o \in Opcodes4
    BY <1>1 DEF Opcode
  <2>2. QED
    BY <2>1, WidthsApart, Zenon
<1>7. o \in Opcodes6 => \/ o = IMM_TO_FROM_REG_OR_MEM /\ o \notin RegMemOpcodes
                              /\ o \notin AccumulatorMemory /\ o \notin ImmediateToAccumulator
                        \/ o # IMM_TO_FROM_REG_OR_MEM /\ o \in RegMemOpcodes
  BY WidthsApart, Zenon
<1>8. CASE o \in Opcodes8
  <2>1. OpcodeByte(inst) = inst.opcode
    BY <1>1, <1>4, <1>6, <1>8, Zenon
  <2>2. QED
    BY <1>1, <1>3, <1>8, <2>1 DEF inst, first
<1>9. CASE o \in Opcodes7
  <2>1. OpcodeByte(inst) = byte7
    BY <1>1, <1>4, <1>6, <1>9, Zenon
  <2>2. inst.w = first % 2 /\ inst.opcode = o
    BY <1>1, <1>6, <1>9
  <2>3. OpcodeByte(inst) = first
    BY <1>3, <1>9, <2>1, <2>2
  <2>4. QED
    BY <2>3 DEF inst, first
<1>10. CASE o \in Opcodes6
  <2>1. OpcodeByte(inst) = byte6
    BY <1>1, <1>4, <1>6, <1>10, Zenon
  <2>2. inst.w = first % 2 /\ inst.opcode = o /\ inst.d + inst.s = (first \div 2) % 2
    BY <1>1, <1>5, <1>6, <1>7, <1>10
  <2>3. OpcodeByte(inst) = first
    BY <1>3, <1>10, <2>1, <2>2
  <2>4. QED
    BY <2>3 DEF inst, first
<1>11. CASE o \in Opcodes4
  <2>1. OpcodeByte(inst) = byte4
    BY <1>1, <1>4, <1>6, <1>11, Zenon
  <2>2. inst.w = (first \div 8) % 2 /\ inst.opcode = o /\ inst.reg = first % 8
    BY <1>1, <1>6, <1>11
  <2>3. OpcodeByte(inst) = first
    BY <1>3, <1>11, <2>1, <2>2
  <2>4. QED
    BY <2>3 DEF inst, first
<1>12. QED
  BY <1>6, <1>8, <1>9, <1>10, <1>11

\* The second byte of an instruction that has a mod/reg/rm byte.
LEMMA SecondByteIs ==
    ASSUME NEW array \in Seq(Byte), NEW at \in Nat, at + 2 <= Len(array),
           OpcodeDecode(array[at + 1]) # NoOpcode
    PROVE  LET inst == DecodeInstruction(array, at) IN
           /\ inst.opcode \in ModRegRmOpcodes => ModRegRmByte(inst) = <<array[at + 2]>> /\ inst.mod \in 0..3
           /\ inst.opcode \notin ModRegRmOpcodes => ModRegRmByte(inst) = <<>> /\ inst.mod = 4
<1> DEFINE inst == DecodeInstruction(array, at)
           o == OpcodeDecode(array[at + 1])
           second == array[at + 2]
<1>1. /\ inst.opcode = o
      /\ inst.mod = IF o \in ModRegRmOpcodes THEN (second \div 64) % 4 ELSE 4
      /\ inst.reg = IF o \in ModRegRmOpcodes THEN (second \div 8) % 8
                    ELSE IF o = MOV_IMM_TO_REG THEN array[at + 1] % 8 ELSE 0
      /\ inst.rm = IF o \in ModRegRmOpcodes THEN second % 8
                   ELSE IF o = MOV_IMM_TO_REG THEN array[at + 1] % 8 ELSE 0
  BY DecodedFields
<1>2. second \in Byte
  BY FieldIs
<1> HIDE DEF inst, o, second
<1>3. second \in Nat /\ second < 256
  BY <1>2 DEF Byte
<1>4. 64 * ((second \div 64) % 4) + 8 * ((second \div 8) % 8) + (second % 8) = second
  BY <1>3
<1>5. (second \div 64) % 4 \in 0..3
  BY <1>3
<1>6. CASE o \in ModRegRmOpcodes
  <2>1. 64 * inst.mod + 8 * inst.reg + inst.rm = second /\ inst.mod \in 0..3
    BY <1>1, <1>4, <1>5, <1>6
  <2>2. ModRegRmByte(inst) = <<second>>
    BY <2>1 DEF ModRegRmByte, NONE_SENTINEL
  <2>3. QED
    BY <1>1, <1>6, <2>1, <2>2 DEF inst, second
<1>7. CASE o \notin ModRegRmOpcodes
  BY <1>1, <1>7 DEF ModRegRmByte, NONE_SENTINEL, inst
<1>8. QED
  BY <1>6, <1>7

\* The displacement, put back: as many bytes as were read.
LEMMA DispBytesAre ==
    ASSUME NEW inst, inst.opcode \in ModRegRmOpcodes => inst.mod \in 0..3,
           inst.opcode \notin ModRegRmOpcodes => inst.mod = 4
    PROVE  LET n == DispLengthOf(inst) IN
           DispBytes(inst) = IF n = 0 THEN <<>> ELSE IF n = 1 THEN <<inst.disp[1]>> ELSE inst.disp
<1> DEFINE one == Is8bitDisplacement(inst.mod)
           two == Is16bitDisplacement(inst.mod) \/ IsDirectAddrMode(inst.mod, inst.rm)
           n == DispLengthOf(inst)
<1>1. /\ one <=> inst.mod = 1
      /\ two <=> inst.mod = 2 \/ (inst.mod = 0 /\ inst.rm = 6)
  BY DEF Is8bitDisplacement, Is16bitDisplacement, IsDirectAddrMode, MEMORY_NO_DISPLACEMENT,
         MEMORY_8_BIT_DISPLACEMENT, MEMORY_16_BIT_DISPLACEMENT
<1>2. DispBytes(inst) = CASE one -> <<inst.disp[1]>> [] two -> inst.disp [] OTHER -> <<>>
  BY Zenon DEF DispBytes
<1> HIDE DEF one, two
<1>3. /\ one => n = 1 /\ ~two
      /\ two => n = 2 /\ ~one
      /\ ~one /\ ~two => n = 0
  BY <1>1 DEF DispLengthOf
<1> HIDE DEF n
<1>4. CASE one
  <2>1. DispBytes(inst) = <<inst.disp[1]>>
    BY <1>2, <1>3, <1>4, Zenon
  <2>2. QED
    BY <1>3, <1>4, <2>1 DEF n
<1>5. CASE two
  <2>1. DispBytes(inst) = inst.disp
    BY <1>2, <1>3, <1>5, Zenon
  <2>2. QED
    BY <1>3, <1>5, <2>1 DEF n
<1>6. CASE ~one /\ ~two
  <2>1. DispBytes(inst) = <<>>
    BY <1>2, <1>6, Zenon
  <2>2. QED
    BY <1>3, <1>6, <2>1 DEF n
<1>7. QED
  BY <1>4, <1>5, <1>6

\* The operands an instruction is given for its opcode.
LEMMA OperandsAreThose ==
    ASSUME NEW o \in Opcode, NEW mod \in Mod, NEW d, NEW kind, kind = OperandsOfOpcode(o, mod, d)
    PROVE  /\ o \in JumpOpcodes => kind = "ShortLabel"
           /\ o \in RegMemOpcodes =>
                 kind = IF mod = 3 THEN "Register_Register"
                            ELSE IF d = 1 THEN "Memory_Register" ELSE "Register_Memory"
           /\ o \in {IMM_TO_FROM_REG_OR_MEM, MOV_IMM_TO_REG_OR_MEM} =>
                 kind = IF mod \in 0..2 THEN "Memory_Immediate" ELSE "Register_Immediate"
           /\ o = MOV_IMM_TO_REG => kind = "Register_Immediate"
           /\ o \in AccumulatorMemory => kind \in {"Memory_Accumulator", "Accumulator_Memory"}
           /\ o \in ImmediateToAccumulator => kind = "Accumulator_Immediate"
           /\ o \in SegmentOpcodes =>
                 kind \in IF mod = 3 THEN {"Register16_SegReg", "SegReg_Register16"}
                                         ELSE {"Memory_SegReg", "SegReg_Memory16"}
BY OperandsAre

\* The same for the immediate value, the address or the offset of a jump.
LEMMA DataBytesAre ==
    ASSUME NEW inst, inst.opcode \in Opcode, inst.mod \in Mod,
           inst.operands = OperandsOfOpcode(inst.opcode, inst.mod, inst.d)
    PROVE  LET n == DataLengthOf(inst) IN
           DataBytes(inst) = IF n = 0 THEN <<>> ELSE IF n = 1 THEN <<inst.data[1]>> ELSE inst.data
<1> DEFINE o == inst.opcode
           kind == inst.operands
           n == DataLengthOf(inst)
           immediate == kind \in {"Register_Immediate", "Memory_Immediate", "Accumulator_Immediate"}
           address == kind \in {"Memory_Accumulator", "Accumulator_Memory"}
           short == kind = "ShortLabel"
           one == <<inst.data[1]>>
           sized == IF inst.w = 1 /\ inst.s = 0 THEN inst.data ELSE one
<1>1. DataBytes(inst) = CASE immediate -> sized [] address -> inst.data [] short -> one [] OTHER -> <<>>
  BY Zenon DEF DataBytes
<1>2. /\ o \in JumpOpcodes => kind = "ShortLabel"
      /\ o \in RegMemOpcodes =>
            kind = IF inst.mod = 3 THEN "Register_Register"
                   ELSE IF inst.d = 1 THEN "Memory_Register" ELSE "Register_Memory"
      /\ o \in {IMM_TO_FROM_REG_OR_MEM, MOV_IMM_TO_REG_OR_MEM} =>
            kind = IF inst.mod \in 0..2 THEN "Memory_Immediate" ELSE "Register_Immediate"
      /\ o = MOV_IMM_TO_REG => kind = "Register_Immediate"
      /\ o \in AccumulatorMemory => kind \in {"Memory_Accumulator", "Accumulator_Memory"}
      /\ o \in ImmediateToAccumulator => kind = "Accumulator_Immediate"
      /\ o \in SegmentOpcodes =>
            kind \in IF inst.mod = 3 THEN {"Register16_SegReg", "SegReg_Register16"}
                                     ELSE {"Memory_SegReg", "SegReg_Memory16"}
  <2>1. o \in Opcode /\ inst.mod \in Mod
    OBVIOUS
  <2>2. inst.operands = OperandsOfOpcode(o, inst.mod, inst.d)
    OBVIOUS
  <2> HIDE DEF o
  <2>3. QED
    BY <2>1, <2>2, OperandsAreThose
<1>3. n = IF o \in RegMemOpcodes \cup SegmentOpcodes THEN 0
          ELSE IF o \in AccumulatorMemory THEN 2
          ELSE IF o \in JumpOpcodes THEN 1
          ELSE IF inst.s = 0 /\ inst.w = 1 THEN 2 ELSE 1
  BY DEF DataLengthOf
<1>4. sized = IF inst.s = 0 /\ inst.w = 1 THEN inst.data ELSE one
  OBVIOUS
<1>5. \/ o \in RegMemOpcodes \/ o \in {IMM_TO_FROM_REG_OR_MEM, MOV_IMM_TO_REG_OR_MEM}
      \/ o = MOV_IMM_TO_REG \/ o \in AccumulatorMemory \/ o \in ImmediateToAccumulator
      \/ o \in SegmentOpcodes \/ o \in JumpOpcodes
  <2>1. o \in Opcode
    OBVIOUS
  <2> HIDE DEF o
  <2>2. QED
    BY <2>1, OpcodesApart
<1> HIDE DEF o, kind, n, sized, one
<1>6. CASE o \in RegMemOpcodes \cup SegmentOpcodes
  <2>1. o \in RegMemOpcodes \/ o \in SegmentOpcodes
    BY <1>6
  <2>2. ~immediate /\ ~address /\ ~short
    BY <1>2, <2>1
  <2>3. DataBytes(inst) = <<>>
    BY <1>1, <2>2, Zenon
  <2>4. n = 0
    BY <1>3, <1>6
  <2>5. QED
    BY <2>3, <2>4 DEF n
<1>7. CASE o \in AccumulatorMemory
  <2>1. address /\ ~immediate /\ ~short
    BY <1>2, <1>7
  <2>2. DataBytes(inst) = inst.data
    BY <1>1, <2>1, Zenon
  <2>3. o \notin RegMemOpcodes /\ o \notin SegmentOpcodes
    BY <1>7, ClassesApart, Zenon
  <2>4. n = 2
    BY <1>3, <1>7, <2>3
  <2>5. QED
    BY <2>2, <2>4 DEF n
<1>8. CASE o \in JumpOpcodes
  <2>1. short /\ ~immediate /\ ~address
    BY <1>2, <1>8
  <2>2. DataBytes(inst) = one
    BY <1>1, <2>1, Zenon
  <2>3. o \notin RegMemOpcodes /\ o \notin SegmentOpcodes /\ o \notin AccumulatorMemory
    BY <1>8, ClassesApart, Zenon
  <2>4. n = 1
    BY <1>3, <1>8, <2>3
  <2>5. QED
    BY <2>2, <2>4 DEF n, one
<1>9. CASE \/ o = IMM_TO_FROM_REG_OR_MEM \/ o = MOV_IMM_TO_REG_OR_MEM \/ o = MOV_IMM_TO_REG
           \/ o \in ImmediateToAccumulator
  <2>1. immediate /\ ~address /\ ~short
    BY <1>2, <1>9
  <2>2. DataBytes(inst) = sized
    BY <1>1, <2>1, Zenon
  <2>3. o \notin RegMemOpcodes /\ o \notin SegmentOpcodes /\ o \notin AccumulatorMemory /\ o \notin JumpOpcodes
    BY <1>9, ClassesApart, Zenon
  <2>4. n = IF inst.s = 0 /\ inst.w = 1 THEN 2 ELSE 1
    BY <1>3, <2>3
  <2>5. QED
    BY <1>4, <2>2, <2>4 DEF n, one
<1>10. QED
  BY <1>5, <1>6, <1>7, <1>8, <1>9

\* Assembling a decoded instruction gives the bytes it was decoded from.
LEMMA AssembleIsRead ==
    ASSUME NEW array \in Seq(Byte), NEW at \in Nat, at + 6 <= Len(array),
           OpcodeDecode(array[at + 1]) # NoOpcode
    PROVE  LET inst == DecodeInstruction(array, at) IN
           Assemble(inst) = SubSeq(array, at + 1, at + inst.byteCount)
<1> DEFINE inst == DecodeInstruction(array, at)
           h == HeaderBytes(inst)
           p == DispLengthOf(inst)
           q == DataLengthOf(inst)
           Part(m, n) == SubSeq(array, m, n)
<1>0. at + 2 <= Len(array) /\ Len(array) \in Nat
  OBVIOUS
<1>1. /\ inst.disp = LowHigh(array, at + h, p) /\ inst.data = LowHigh(array, at + h + p, q)
      /\ inst.byteCount = h + p + q
      /\ h \in 1..2 /\ p \in 0..2 /\ q \in 0..2
  BY <1>0, DecodedBytes
<1>2. /\ inst.opcode \in Opcode
      /\ inst.operands = OperandsOfOpcode(inst.opcode, inst.mod, inst.d)
  <2>1. inst.opcode = OpcodeDecode(array[at + 1]) /\ OpcodeDecode(array[at + 1]) \in Opcode
    BY <1>0, DecodedFields
  <2>2. inst.operands = OperandsOfOpcode(OpcodeDecode(array[at + 1]), inst.mod, inst.d)
    BY DEF DecodeInstruction
  <2> HIDE DEF inst
  <2>3. QED
    BY <2>1, <2>2
<1>3. /\ inst.opcode \in ModRegRmOpcodes => ModRegRmByte(inst) = <<array[at + 2]>> /\ inst.mod \in 0..3
      /\ inst.opcode \notin ModRegRmOpcodes => ModRegRmByte(inst) = <<>> /\ inst.mod = 4
  BY <1>0, SecondByteIs
<1>4. OpcodeByte(inst) = array[at + 1]
  BY <1>0, FirstByteIs
<1> HIDE DEF inst
<1>5. <<OpcodeByte(inst)>> = Part(at + 1, at + 1)
  <2>1. 1 \in 0..2 /\ at + 1 <= Len(array)
    BY <1>0
  <2>2. Part(at + 1, at + 1) = <<LowHigh(array, at, 1)[1]>>
    BY <2>1, ShortSubSeq
  <2>3. LowHigh(array, at, 1)[1] = array[at + 1]
    BY DEF LowHigh
  <2>4. QED
    BY <1>4, <2>2, <2>3
<1>6. ModRegRmByte(inst) = Part(at + 2, at + h)
  <2>1. CASE inst.opcode \in ModRegRmOpcodes
    <3>1. h = 2
      BY <2>1 DEF HeaderBytes
    <3>2. 1 \in 0..2 /\ at + 1 \in Nat /\ (at + 1) + 1 <= Len(array)
      BY <1>0
    <3>3. SubSeq(array, (at + 1) + 1, (at + 1) + 1) = <<LowHigh(array, at + 1, 1)[1]>>
      BY <3>2, ShortSubSeq
    <3>4. LowHigh(array, at + 1, 1)[1] = array[at + 2]
      BY DEF LowHigh
    <3>5. (at + 1) + 1 = at + 2 /\ at + h = at + 2
      BY <3>1
    <3>6. ModRegRmByte(inst) = <<array[at + 2]>>
      BY <1>3, <2>1
    <3> HIDE DEF h
    <3>7. QED
      BY <3>3, <3>4, <3>5, <3>6, Zenon
  <2>2. CASE inst.opcode \notin ModRegRmOpcodes
    <3>1. h = 1
      BY <2>2 DEF HeaderBytes
    <3>2. Part(at + 2, at + 1) = <<>>
      BY <1>0
    <3>3. QED
      BY <1>3, <2>2, <3>1, <3>2
  <2>3. QED
    BY <2>1, <2>2
<1>7. inst.mod \in Mod
  BY <1>3 DEF Mod
<1>8. DispBytes(inst) = IF p = 0 THEN <<>> ELSE IF p = 1 THEN <<inst.disp[1]>> ELSE inst.disp
  BY <1>3, DispBytesAre
<1>9. DataBytes(inst) = IF q = 0 THEN <<>> ELSE IF q = 1 THEN <<inst.data[1]>> ELSE inst.data
  BY <1>2, <1>7, DataBytesAre
<1> HIDE DEF h, p, q
<1>10. DispBytes(inst) = Part(at + h + 1, at + h + p)
  <2>1. at + h \in Nat /\ p \in 0..2 /\ at + h + p <= Len(array)
    BY <1>0, <1>1, SMTT(30)
  <2>2. QED
    BY <1>1, <1>8, <2>1, ShortSubSeq, ZenonT(30)
<1>11. DataBytes(inst) = Part(at + h + p + 1, at + h + p + q)
  <2>1. at + h + p \in Nat /\ q \in 0..2 /\ at + h + p + q <= Len(array)
    BY <1>0, <1>1, SMTT(30)
  <2>2. QED
    BY <1>1, <1>9, <2>1, ShortSubSeq, ZenonT(30)
<1>12. Part(at + 1, at + 1) \o Part(at + 2, at + h) = Part(at + 1, at + h)
  <2>1. /\ at + 1 \in 1..Len(array) + 1 /\ at + 1 \in (at + 1) - 1..Len(array)
        /\ at + h \in at + 1..Len(array) /\ (at + 1) + 1 = at + 2
    BY <1>0, <1>1
  <2>2. QED
    BY <2>1, ConcatAdjacentSubSeq
<1>13. Part(at + 1, at + h) \o Part(at + h + 1, at + h + p) = Part(at + 1, at + h + p)
  <2>1. /\ at + 1 \in 1..Len(array) + 1 /\ at + h \in (at + 1) - 1..Len(array)
        /\ at + h + p \in at + h..Len(array)
    BY <1>0, <1>1
  <2>2. QED
    BY <2>1, ConcatAdjacentSubSeq
<1>14. Part(at + 1, at + h + p) \o Part(at + h + p + 1, at + h + p + q) = Part(at + 1, at + h + p + q)
  <2>1. /\ at + 1 \in 1..Len(array) + 1 /\ at + h + p \in (at + 1) - 1..Len(array)
        /\ at + h + p + q \in at + h + p..Len(array)
    BY <1>0, <1>1
  <2>2. QED
    BY <2>1, ConcatAdjacentSubSeq
<1>15. Assemble(inst) = Part(at + 1, at + h + p + q)
  <2> HIDE DEF Part
  <2> QED
    BY <1>5, <1>6, <1>10, <1>11, <1>12, <1>13, <1>14, Zenon DEF Assemble
<1>16. at + h + p + q = at + inst.byteCount
  BY <1>0, <1>1
<1>17. QED
  BY <1>15, <1>16 DEF inst

-----------------------------------------------------------------------------
(***************************************************************************)
(* The decoder's loop.                                                     *)
(***************************************************************************)
LEMMA ConstantBytes == DecoderInit => bytes \in Seq(Byte)
BY DecoderConstants DEF DecoderInit

\* The offset of a label is a number.
LEMMA OffsetType ==
    ASSUME NEW b \in Byte
    PROVE  ToI8(b) \in Int
BY DEF ToI8, Byte

\* A step of the loop adds one instruction, which begins in the array and, in a
\* build with asserts, ends there.
LEMMA StepOfDecodeNext ==
    ASSUME DecoderTypeOK, DecodeNext
    PROVE  \E tail \in Overrun :
             LET inst == InstructionRead(tail) IN
             /\ inst \in Instruction
             /\ instructions' = Append(instructions, inst)
             /\ idx' = idx + inst.byteCount
             /\ jmpLabels' = LabelsAfter(jmpLabels, inst, idx)
             /\ idx < Len(bytes) /\ bytes' = bytes /\ decoding' = decoding
             /\ ASSERT_ENABLED => idx + inst.byteCount <= Len(bytes)
<1>1. /\ IsDecoding /\ OpcodeKnown /\ ~(ASSERT_ENABLED /\ Truncated)
      /\ bytes' = bytes /\ decoding' = decoding
  BY DEF DecodeNext
<1>2. PICK inst \in InstructionsRead :
         /\ inst.type # "UNKNOWN"
         /\ jmpLabels' = LabelsAfter(jmpLabels, inst, idx)
         /\ idx' = idx + inst.byteCount
         /\ instructions' = Append(instructions, inst)
  BY DEF DecodeNext
<1>3. PICK tail \in Overrun : inst = InstructionRead(tail) /\ (~Truncated => tail = AnyTail)
  BY TailsAreBytes DEF InstructionsRead
<1>4. inst \in Instruction
  BY <1>1, <1>2, <1>3, InstructionIsRead DEF DecoderTypeOK
<1>5. idx < Len(bytes)
  BY <1>1 DEF IsDecoding
<1>6. ASSERT_ENABLED => idx + inst.byteCount <= Len(bytes)
  <2>1. inst.byteCount \in Int /\ Len(bytes) \in Nat /\ idx \in Nat
    BY <1>4, InstructionTypes DEF DecoderTypeOK
  <2>2. ASSERT_ENABLED => ~(idx + inst.byteCount > Len(bytes))
    BY <1>1, <1>3 DEF Truncated
  <2>3. QED
    BY <2>1, <2>2
<1>7. QED
  BY <1>1, <1>2, <1>3, <1>4, <1>5, <1>6

(***************************************************************************)
(* The labels, as a relation between a program and a list of labels: each  *)
(* label has a jump and each jump a label, no two labels have one offset,  *)
(* they are numbered through, and before a jump with a later label comes   *)
(* one with an earlier label.  The last part is what has to be added to    *)
(* LabelsAreTargets' other parts to be inductive: a least element is       *)
(* harder to keep than a jump.                                             *)
(***************************************************************************)
Label == [byteOffset : Int, labelIdx : Nat]
ShortJumps(prog) == {k \in DOMAIN prog : prog[k].operands = "ShortLabel"}
Target(prog, k) == StartOf(prog, k + 1) + ToI8(prog[k].data[1])

LabelsHaveJumps(prog, labels) ==
    \A l \in DOMAIN labels : \E k \in ShortJumps(prog) : Target(prog, k) = labels[l].byteOffset
JumpsHaveLabels(prog, labels) ==
    \A k \in ShortJumps(prog) : \E l \in DOMAIN labels : labels[l].byteOffset = Target(prog, k)
LabelsDiffer(labels) ==
    \A l, m \in DOMAIN labels : labels[l].byteOffset = labels[m].byteOffset => l = m
LabelsAreNumbered(labels) ==
    \A l \in DOMAIN labels : labels[l].labelIdx = l - 1
LabelsAreOrdered(prog, labels) ==
    \A n \in ShortJumps(prog), l, m \in DOMAIN labels :
        l < m /\ Target(prog, n) = labels[m].byteOffset =>
            \E k \in ShortJumps(prog) : k < n /\ Target(prog, k) = labels[l].byteOffset

LabelsFit(prog, labels) ==
    /\ LabelsHaveJumps(prog, labels) /\ JumpsHaveLabels(prog, labels)
    /\ LabelsDiffer(labels) /\ LabelsAreNumbered(labels) /\ LabelsAreOrdered(prog, labels)

\* The targets of the jumps of a program stay where they are when it grows.
LEMMA TargetsStay ==
    ASSUME NEW prog \in Seq(Instruction), NEW inst \in Instruction
    PROVE  LET longer == Append(prog, inst)
               n == Len(prog) + 1
           IN
           /\ \A k \in ShortJumps(prog) : k \in 1..Len(prog) /\ Target(longer, k) = Target(prog, k)
           /\ inst.operands # "ShortLabel" => ShortJumps(longer) = ShortJumps(prog)
           /\ inst.operands = "ShortLabel" => ShortJumps(longer) = ShortJumps(prog) \cup {n}
           /\ Target(longer, n) = StartOf(prog, n) + inst.byteCount + ToI8(inst.data[1])
<1> DEFINE longer == Append(prog, inst)
           n == Len(prog) + 1
<1>1. /\ longer \in Seq(Instruction) /\ Len(longer) = n /\ Len(prog) \in Nat
      /\ DOMAIN longer = 1..n /\ DOMAIN prog = 1..Len(prog)
      /\ longer[n] = inst /\ \A k \in 1..Len(prog) : longer[k] = prog[k]
  OBVIOUS
<1> HIDE DEF longer
<1>2. ASSUME NEW k \in ShortJumps(prog)
      PROVE  k \in 1..Len(prog) /\ Target(longer, k) = Target(prog, k)
  <2>1. k \in 1..Len(prog)
    BY <1>1 DEF ShortJumps
  <2>2. k + 1 \in 1..(Len(prog) + 1)
    BY <1>1, <2>1
  <2>3. StartOf(longer, k + 1) = StartOf(prog, k + 1)
    BY <2>2, StartOfAppend DEF longer
  <2>4. longer[k] = prog[k]
    BY <1>1, <2>1
  <2>5. QED
    BY <2>1, <2>3, <2>4 DEF Target
<1>3. inst.operands # "ShortLabel" => ShortJumps(longer) = ShortJumps(prog)
  BY <1>1 DEF ShortJumps
<1>4. inst.operands = "ShortLabel" => ShortJumps(longer) = ShortJumps(prog) \cup {n}
  BY <1>1 DEF ShortJumps
<1>5. Target(longer, n) = StartOf(prog, n) + inst.byteCount + ToI8(inst.data[1])
  <2>1. n \in 1..Len(longer) /\ n \in 1..(Len(prog) + 1)
    BY <1>1
  <2>2. StartOf(longer, n + 1) = StartOf(longer, n) + longer[n].byteCount
    BY <1>1, <2>1, StartOfAddsUp
  <2>3. StartOf(longer, n) = StartOf(prog, n)
    BY <2>1, StartOfAppend DEF longer
  <2>4. QED
    BY <1>1, <2>2, <2>3 DEF Target
<1>6. QED
  BY <1>2, <1>3, <1>4, <1>5 DEF longer

\* One more instruction, and the label it may bring.
LEMMA LabelsStillFit ==
    ASSUME NEW prog \in Seq(Instruction), NEW labels \in Seq(Label), NEW inst \in Instruction,
           LabelsFit(prog, labels)
    PROVE  LET after == LabelsAfter(labels, inst, StartOf(prog, Len(prog) + 1)) IN
           /\ after \in Seq(Label)
           /\ LabelsFit(Append(prog, inst), after)
           /\ IsPrefix(labels, after)
<1> DEFINE longer == Append(prog, inst)
           n == Len(prog) + 1
           at == StartOf(prog, n)
           byteOff == at + inst.byteCount + ToI8(inst.data[1])
           new == Append(labels, [byteOffset |-> byteOff, labelIdx |-> Len(labels)])
           after == LabelsAfter(labels, inst, at)
<1>1. /\ \A k \in ShortJumps(prog) : k \in 1..Len(prog) /\ Target(longer, k) = Target(prog, k)
      /\ inst.operands # "ShortLabel" => ShortJumps(longer) = ShortJumps(prog)
      /\ inst.operands = "ShortLabel" => ShortJumps(longer) = ShortJumps(prog) \cup {n}
      /\ Target(longer, n) = byteOff
  BY TargetsStay
<1>2. after = IF inst.operands = "ShortLabel" /\ ~(\E k \in DOMAIN labels : labels[k].byteOffset = byteOff)
              THEN new ELSE labels
  BY DEF LabelsAfter, StoreShortJmpLabel
<1>3. byteOff \in Int
  <2>1. n \in 1..(Len(prog) + 1)
    OBVIOUS
  <2>2. at \in Nat
    BY <2>1, StartOfAddsUp
  <2>3. inst.byteCount \in Int /\ ToI8(inst.data[1]) \in Int
    BY InstructionTypes, OffsetType
  <2>4. QED
    BY <2>2, <2>3
<1>4. Len(prog) \in Nat /\ Len(labels) \in Nat /\ DOMAIN labels = 1..Len(labels)
  OBVIOUS
<1>5. /\ LabelsHaveJumps(prog, labels) /\ JumpsHaveLabels(prog, labels)
      /\ LabelsDiffer(labels) /\ LabelsAreNumbered(labels) /\ LabelsAreOrdered(prog, labels)
  BY DEF LabelsFit
<1>6. IsPrefix(labels, labels)
  BY <1>4 DEF IsPrefix
<1> HIDE DEF after, longer, at, byteOff
<1>7. CASE inst.operands # "ShortLabel"
  <2>1. after = labels
    BY <1>2, <1>7
  <2>2. /\ LabelsHaveJumps(longer, labels) /\ JumpsHaveLabels(longer, labels)
        /\ LabelsAreOrdered(longer, labels)
    <3>1. /\ ShortJumps(longer) = ShortJumps(prog)
          /\ \A k \in ShortJumps(prog) : Target(longer, k) = Target(prog, k)
      BY <1>1, <1>7
    <3>2. LabelsHaveJumps(longer, labels)
      BY <1>5, <3>1 DEF LabelsHaveJumps
    <3>3. JumpsHaveLabels(longer, labels)
      BY <1>5, <3>1 DEF JumpsHaveLabels
    <3>4. LabelsAreOrdered(longer, labels)
      BY <1>5, <3>1 DEF LabelsAreOrdered
    <3>5. QED
      BY <3>2, <3>3, <3>4
  <2>3. QED
    BY <1>5, <1>6, <2>1, <2>2 DEF LabelsFit, longer, after, at
<1>8. CASE inst.operands = "ShortLabel" /\ \E k \in DOMAIN labels : labels[k].byteOffset = byteOff
  <2>1. after = labels
    BY <1>2, <1>8
  <2>2. LabelsHaveJumps(longer, labels)
    BY <1>1, <1>5, <1>8 DEF LabelsHaveJumps
  <2>3. JumpsHaveLabels(longer, labels)
    BY <1>1, <1>5, <1>8 DEF JumpsHaveLabels
  <2>4. LabelsAreOrdered(longer, labels)
    <3>1. SUFFICES ASSUME NEW j \in ShortJumps(longer), NEW l \in DOMAIN labels, NEW m \in DOMAIN labels,
                          l < m, Target(longer, j) = labels[m].byteOffset
                   PROVE  \E k \in ShortJumps(longer) : k < j /\ Target(longer, k) = labels[l].byteOffset
      BY DEF LabelsAreOrdered
    <3>2. CASE j \in ShortJumps(prog)
      <4>1. PICK k \in ShortJumps(prog) : k < j /\ Target(prog, k) = labels[l].byteOffset
        BY <1>1, <1>5, <3>1, <3>2 DEF LabelsAreOrdered
      <4>2. QED
        BY <1>1, <1>8, <4>1
    <3>3. CASE j = n
      <4>1. PICK k \in ShortJumps(prog) : Target(prog, k) = labels[l].byteOffset
        BY <1>5 DEF LabelsHaveJumps
      <4>2. k \in ShortJumps(longer) /\ k < j /\ Target(longer, k) = labels[l].byteOffset
        BY <1>1, <1>4, <1>8, <3>3, <4>1
      <4>3. QED
        BY <4>2
    <3>4. QED
      BY <1>1, <1>8, <3>1, <3>2, <3>3
  <2>5. QED
    BY <1>5, <1>6, <2>1, <2>2, <2>3, <2>4 DEF LabelsFit, longer, after, at
<1>9. CASE inst.operands = "ShortLabel" /\ ~\E k \in DOMAIN labels : labels[k].byteOffset = byteOff
  <2>1. after = new
    BY <1>2, <1>9
  <2>2. /\ new \in Seq(Label) /\ Len(new) = Len(labels) + 1 /\ DOMAIN new = 1..(Len(labels) + 1)
        /\ \A l \in 1..Len(labels) : new[l] = labels[l]
        /\ new[Len(labels) + 1].byteOffset = byteOff /\ new[Len(labels) + 1].labelIdx = Len(labels)
    BY <1>3, <1>4 DEF Label
  <2> HIDE DEF new
  <2>3. ASSUME NEW l \in DOMAIN new, l \notin DOMAIN labels
        PROVE  l = Len(labels) + 1
    BY <1>4, <2>2, <2>3
  <2>4. ASSUME NEW k \in ShortJumps(prog)
        PROVE  Target(longer, k) # byteOff
    BY <1>1, <1>5, <1>9 DEF JumpsHaveLabels
  <2>5. LabelsHaveJumps(longer, new)
    BY <1>1, <1>4, <1>5, <1>9, <2>2, <2>3 DEF LabelsHaveJumps
  <2>6. JumpsHaveLabels(longer, new)
    <3>1. SUFFICES ASSUME NEW k \in ShortJumps(longer)
                   PROVE  \E l \in DOMAIN new : new[l].byteOffset = Target(longer, k)
      BY DEF JumpsHaveLabels
    <3>2. CASE k \in ShortJumps(prog)
      <4>1. PICK l \in DOMAIN labels : labels[l].byteOffset = Target(prog, k)
        BY <1>5, <3>2 DEF JumpsHaveLabels
      <4>2. l \in DOMAIN new /\ new[l].byteOffset = Target(longer, k)
        BY <1>1, <1>4, <2>2, <3>2, <4>1
      <4>3. QED
        BY <4>2
    <3>3. CASE k = n
      <4>1. Len(labels) + 1 \in DOMAIN new
        BY <1>4, <2>2
      <4>2. QED
        BY <1>1, <2>2, <3>3, <4>1
    <3>4. QED
      BY <1>1, <1>9, <3>2, <3>3
  <2>7. LabelsDiffer(new)
    BY <1>4, <1>5, <1>9, <2>2, <2>3 DEF LabelsDiffer
  <2>8. LabelsAreNumbered(new)
    BY <1>4, <1>5, <2>2, <2>3 DEF LabelsAreNumbered
  <2>9. LabelsAreOrdered(longer, new)
    <3>1. SUFFICES ASSUME NEW j \in ShortJumps(longer), NEW l \in DOMAIN new, NEW m \in DOMAIN new,
                          l < m, Target(longer, j) = new[m].byteOffset
                   PROVE  \E k \in ShortJumps(longer) : k < j /\ Target(longer, k) = new[l].byteOffset
      BY DEF LabelsAreOrdered
    <3>2. l \in DOMAIN labels /\ new[l] = labels[l]
      BY <1>4, <2>2, <3>1
    <3>3. CASE m \in DOMAIN labels
      <4>1. new[m] = labels[m]
        BY <1>4, <2>2, <3>3
      <4>2. j # n
        BY <1>1, <1>9, <3>1, <3>3, <4>1
      <4>3. j \in ShortJumps(prog) /\ Target(prog, j) = labels[m].byteOffset
        BY <1>1, <1>9, <3>1, <4>1, <4>2
      <4>4. PICK k \in ShortJumps(prog) : k < j /\ Target(prog, k) = labels[l].byteOffset
        BY <1>5, <3>1, <3>2, <3>3, <4>3 DEF LabelsAreOrdered
      <4>5. QED
        BY <1>1, <1>9, <3>2, <4>4
    <3>4. CASE m \notin DOMAIN labels
      <4>1. new[m].byteOffset = byteOff
        BY <2>2, <2>3, <3>4
      <4>2. j = n
        BY <1>1, <1>9, <2>4, <3>1, <4>1
      <4>3. PICK k \in ShortJumps(prog) : Target(prog, k) = labels[l].byteOffset
        BY <1>5, <3>2 DEF LabelsHaveJumps
      <4>4. k \in ShortJumps(longer) /\ Target(longer, k) = Target(prog, k)
        BY <1>1, <1>9
      <4>5. k < j
        BY <1>1, <4>2
      <4>6. QED
        BY <3>2, <4>3, <4>4, <4>5
    <3>5. QED
      BY <3>3, <3>4
  <2>10. IsPrefix(labels, new)
    <3>1. /\ SubSeq(labels, 1, Len(labels)) \in Seq(Label) /\ SubSeq(new, 1, Len(labels)) \in Seq(Label)
          /\ Len(SubSeq(labels, 1, Len(labels))) = Len(labels)
          /\ Len(SubSeq(new, 1, Len(labels))) = Len(labels)
          /\ \A l \in 1..Len(labels) :
                SubSeq(labels, 1, Len(labels))[l] = labels[l] /\ SubSeq(new, 1, Len(labels))[l] = new[l]
      BY <1>4, <2>2
    <3>2. SubSeq(labels, 1, Len(labels)) = SubSeq(new, 1, Len(labels))
      BY <2>2, <3>1, SeqEqual
    <3>3. QED
      BY <1>4, <2>2, <3>2 DEF IsPrefix
  <2>11. LabelsFit(longer, new)
    BY <2>5, <2>6, <2>7, <2>8, <2>9 DEF LabelsFit
  <2>12. QED
    BY <2>1, <2>2, <2>10, <2>11 DEF longer, after, at
<1>10. QED
  BY <1>7, <1>8, <1>9

\* What the labels are for a list that fits: LabelsAreTargets.
LEMMA FittingLabelsAreTargets ==
    ASSUME instructions \in Seq(Instruction), jmpLabels \in Seq(Label),
           LabelsFit(instructions, jmpLabels)
    PROVE  LabelsAreTargets
<1> USE DEF ShortJumps, Target
<1>1. /\ LabelsHaveJumps(instructions, jmpLabels) /\ JumpsHaveLabels(instructions, jmpLabels)
      /\ LabelsDiffer(jmpLabels) /\ LabelsAreNumbered(jmpLabels)
      /\ LabelsAreOrdered(instructions, jmpLabels)
  BY DEF LabelsFit
<1>2. DecodedJumps = ShortJumps(instructions) /\ \A k : TargetOf(k) = Target(instructions, k)
  BY DEF DecodedJumps, TargetOf
<1>3. DecodedJumps \subseteq Nat
  BY DEF DecodedJumps
<1> HIDE DEF ShortJumps, Target
<1>4. {jmpLabels[l].byteOffset : l \in DOMAIN jmpLabels} = {TargetOf(k) : k \in DecodedJumps}
  BY <1>1, <1>2 DEF LabelsHaveJumps, JumpsHaveLabels
<1>5. ASSUME NEW k \in DecodedJumps, NEW n \in DecodedJumps, NEW l \in DOMAIN jmpLabels, NEW m \in DOMAIN jmpLabels,
             l < m, TargetOf(n) = jmpLabels[m].byteOffset,
             k = Min({j \in DecodedJumps : TargetOf(j) = jmpLabels[l].byteOffset})
      PROVE  k < n
  <2> DEFINE same == {j \in DecodedJumps : TargetOf(j) = jmpLabels[l].byteOffset}
  <2>1. PICK j \in DecodedJumps : j < n /\ TargetOf(j) = jmpLabels[l].byteOffset
    BY <1>1, <1>2, <1>5 DEF LabelsAreOrdered
  <2>2. j \in same /\ same \subseteq Nat
    BY <1>3, <2>1
  <2> HIDE DEF same
  <2>3. \E least \in same : \A other \in same : least <= other
    BY <2>2, LeastNumber
  <2>4. Min(same) \in same /\ \A other \in same : Min(same) <= other
    BY <2>3 DEF Min
  <2>5. k <= j
    BY <1>5, <2>2, <2>4 DEF same
  <2>6. QED
    BY <1>3, <2>1, <2>5
<1>6. QED
  BY <1>1, <1>4, <1>5 DEF LabelsAreTargets, LabelsDiffer, LabelsAreNumbered

-----------------------------------------------------------------------------
(***************************************************************************)
(* The decoder's invariant.  idx is the end of what is decoded, which the  *)
(* properties do not say and all of them need.                             *)
(***************************************************************************)
DecoderInv ==
    /\ DecoderTypeOK
    /\ idx = StartOf(instructions, Len(instructions) + 1)
    /\ OnlyTheLastOverruns
    /\ LabelsFit(instructions, jmpLabels)

LEMMA DecoderInvInit == DecoderInit => DecoderInv
<1> SUFFICES ASSUME DecoderInit PROVE DecoderInv
  OBVIOUS
<1>1. instructions = <<>> /\ jmpLabels = <<>> /\ idx = 0 /\ decoding = "decoding" /\ bytes \in Seq(Byte)
  BY ConstantBytes DEF DecoderInit
<1>2. /\ instructions \in Seq(Instruction) /\ Len(instructions) = 0 /\ DOMAIN instructions = {}
      /\ jmpLabels \in Seq(Label) /\ DOMAIN jmpLabels = {}
  BY <1>1
<1>3. DecoderTypeOK
  BY <1>1, <1>2 DEF DecoderTypeOK, DecoderStatus, Label
<1>4. idx = StartOf(instructions, Len(instructions) + 1)
  <2>1. StartOf(instructions, 1) = 0
    BY <1>2, StartOfAddsUp
  <2>2. QED
    BY <1>1, <1>2, <2>1
<1>5. OnlyTheLastOverruns
  BY <1>2 DEF OnlyTheLastOverruns
<1>6. LabelsFit(instructions, jmpLabels)
  BY <1>2 DEF LabelsFit, LabelsHaveJumps, JumpsHaveLabels, LabelsDiffer, LabelsAreNumbered,
              LabelsAreOrdered, ShortJumps
<1>7. QED
  BY <1>3, <1>4, <1>5, <1>6 DEF DecoderInv

LEMMA DecoderInvNext == DecoderInv /\ [DecoderNext]_decoderVars => DecoderInv'
<1> SUFFICES ASSUME DecoderInv, [DecoderNext]_decoderVars PROVE DecoderInv'
  OBVIOUS
<1>0. /\ DecoderTypeOK /\ idx = StartOf(instructions, Len(instructions) + 1) /\ OnlyTheLastOverruns
      /\ LabelsFit(instructions, jmpLabels)
      /\ instructions \in Seq(Instruction) /\ jmpLabels \in Seq(Label) /\ idx \in Nat
      /\ bytes \in Seq(Byte) /\ decoding \in DecoderStatus /\ Len(instructions) \in Nat
  BY DEF DecoderInv, DecoderTypeOK, Label
<1>1. CASE DecodeNext
  <2>1. PICK tail \in Overrun :
             LET inst == InstructionRead(tail) IN
             /\ inst \in Instruction
             /\ instructions' = Append(instructions, inst)
             /\ idx' = idx + inst.byteCount
             /\ jmpLabels' = LabelsAfter(jmpLabels, inst, idx)
             /\ idx < Len(bytes) /\ bytes' = bytes /\ decoding' = decoding
             /\ ASSERT_ENABLED => idx + inst.byteCount <= Len(bytes)
    BY <1>0, <1>1, StepOfDecodeNext
  <2> DEFINE inst == InstructionRead(tail)
             n == Len(instructions) + 1
  <2>2. /\ inst \in Instruction
        /\ instructions' = Append(instructions, inst)
        /\ idx' = idx + inst.byteCount
        /\ jmpLabels' = LabelsAfter(jmpLabels, inst, idx)
        /\ idx < Len(bytes) /\ bytes' = bytes /\ decoding' = decoding
        /\ ASSERT_ENABLED => idx + inst.byteCount <= Len(bytes)
    BY <2>1
  <2> HIDE DEF inst
  <2>3. /\ instructions' \in Seq(Instruction) /\ Len(instructions') = n /\ n \in 1..n
        /\ DOMAIN instructions' = 1..n /\ instructions'[n] = inst
    BY <1>0, <2>2
  <2>4. inst.byteCount \in Int /\ Len(bytes) \in Nat
    BY <1>0, <2>2, InstructionTypes
  <2>5. \A k \in 1..n : StartOf(instructions', k) = StartOf(instructions, k)
    BY <1>0, <2>2, StartOfAppend
  <2>6. StartOf(instructions', n + 1) = idx' /\ idx' \in Nat
    <3>1. StartOf(instructions', n + 1) = StartOf(instructions', n) + inst.byteCount
      BY <2>3, StartOfAddsUp
    <3>2. StartOf(instructions', n + 1) \in Nat
      BY <2>3, n + 1 \in 1..(Len(instructions') + 1), StartOfAddsUp
    <3>3. QED
      BY <1>0, <2>2, <2>3, <2>5, <3>1, <3>2
  <2>7. /\ jmpLabels' \in Seq(Label) /\ LabelsFit(instructions', jmpLabels')
    BY <1>0, <2>2, LabelsStillFit
  <2>8. DecoderTypeOK'
    BY <1>0, <2>2, <2>3, <2>6, <2>7 DEF DecoderTypeOK, Label
  <2>9. OnlyTheLastOverruns'
    <3>1. SUFFICES ASSUME NEW k \in 1..n
                   PROVE  /\ StartOf(instructions', k) < Len(bytes')
                          /\ ASSERT_ENABLED \/ k < n => StartOf(instructions', k + 1) <= Len(bytes')
      BY <2>3 DEF OnlyTheLastOverruns
    <3>2. CASE k = n
      <4>1. StartOf(instructions', k) = idx /\ StartOf(instructions', k + 1) = idx + inst.byteCount
        BY <1>0, <2>2, <2>5, <2>6, <3>2
      <4>2. QED
        BY <1>0, <2>2, <2>4, <3>2, <4>1
    <3>3. CASE k # n
      <4>1. k \in DOMAIN instructions /\ k + 1 \in 1..n /\ k \in 1..n
        BY <1>0, <3>3
      <4>2. StartOf(instructions', k) = StartOf(instructions, k)
            /\ StartOf(instructions', k + 1) = StartOf(instructions, k + 1)
        BY <2>5, <4>1
      <4>3. CASE k + 1 = n
        BY <1>0, <2>2, <2>4, <3>3, <4>1, <4>2, <4>3 DEF OnlyTheLastOverruns
      <4>4. CASE k + 1 # n
        <5>1. k < Len(instructions)
          BY <1>0, <4>1, <4>4
        <5>2. QED
          BY <1>0, <2>2, <4>1, <4>2, <5>1 DEF OnlyTheLastOverruns
      <4>5. QED
        BY <4>3, <4>4
    <3>4. QED
      BY <3>2, <3>3
  <2>10. QED
    BY <2>3, <2>6, <2>7, <2>8, <2>9 DEF DecoderInv
<1>2. ASSUME UNCHANGED <<bytes, idx, instructions, jmpLabels>>, decoding' \in DecoderStatus
      PROVE  DecoderInv'
  BY <1>0, <1>2 DEF DecoderInv, DecoderTypeOK, OnlyTheLastOverruns
<1>3. CASE PanicOnOpcode
  BY <1>2, <1>3 DEF PanicOnOpcode, DecoderStatus
<1>4. CASE PanicOnRegField
  BY <1>2, <1>4 DEF PanicOnRegField, DecoderStatus
<1>5. CASE AssertOnTruncation
  BY <1>2, <1>5 DEF AssertOnTruncation, DecoderStatus
<1>6. CASE Finish
  BY <1>2, <1>6 DEF Finish, DecoderStatus
<1>7. CASE UNCHANGED decoderVars
  BY <1>0, <1>2, <1>7 DEF decoderVars
<1>8. QED
  BY <1>1, <1>3, <1>4, <1>5, <1>6, <1>7 DEF DecoderNext

-----------------------------------------------------------------------------
(***************************************************************************)
(* The operands of a listed line.                                          *)
(***************************************************************************)
\* Of a tuple that names its kind: which kind it is.
LEMMA ListedOperandTypes ==
    /\ \A w \in 0..1, k \in 0..7 : Register(k, w) \in ListedOperand /\ Register(k, w)[1] = "register"
    /\ \A k \in 0..3 : SegmentRegister(k) \in ListedOperand /\ SegmentRegister(k)[1] = "segment"
    /\ \A v \in Int : Number(v) \in ListedOperand /\ Number(v)[1] = "number"
    /\ \A size \in {"", "byte", "word"}, base \in (-1)..7, v \in Int :
          Memory(size, base, v) \in ListedOperand /\ Memory(size, base, v)[1] = "memory"
    /\ \A l \in FailedLabel..LabelNumbers - 1 : <<"label", l>> \in ListedOperand
<1>1. \A w \in 0..1, k \in 0..7 : Register(k, w) \in ListedOperand /\ Register(k, w)[1] = "register"
  BY DEF Register, ListedOperand
<1>2. \A k \in 0..3 : SegmentRegister(k) \in ListedOperand /\ SegmentRegister(k)[1] = "segment"
  BY DEF SegmentRegister, ListedOperand
<1>3. \A v \in Int : Number(v) \in ListedOperand /\ Number(v)[1] = "number"
  BY DEF Number, ListedOperand
<1>4. \A size \in {"", "byte", "word"}, base \in (-1)..7, v \in Int :
         Memory(size, base, v) \in ListedOperand /\ Memory(size, base, v)[1] = "memory"
  BY DEF Memory, ListedOperand
<1>5. \A l \in FailedLabel..LabelNumbers - 1 : <<"label", l>> \in ListedOperand
  BY DEF ListedOperand
<1>6. QED
  BY <1>1, <1>2, <1>3, <1>4, <1>5

\* A listed number is a number, and a base is an index or none.
LEMMA AppendImmType ==
    ASSUME NEW low \in Byte, NEW high \in Byte
    PROVE  AppendImm(low, high) \in Int
<1>1. CombineWord(low, high) \in Int
  <2>1. low \in Int /\ high \in Int
    BY DEF Byte
  <2>2. QED
    BY <2>1 DEF CombineWord
<1>2. \A v \in Int : ToI16(v) \in Int /\ ToI8(v) \in Int
  BY DEF ToI16, ToI8
<1>3. \A v \in Int, n \in Int : AppendSigned(v, n) \in Int
  BY DEF AppendSigned
<1>4. low \in Int
  BY DEF Byte
<1>5. AppendSigned(ToI16(CombineWord(low, high)), 65536) \in Int
  BY <1>1, <1>2, <1>3
<1>6. AppendSigned(ToI8(low), 256) \in Int
  BY <1>2, <1>3, <1>4
<1>7. QED
  BY <1>1, <1>5, <1>6 DEF AppendImm

LEMMA BaseTypes ==
    /\ -1 \in (-1)..7 /\ 0 \in Int
    /\ \A k \in 0..7 : k \in (-1)..7
OBVIOUS

LEMMA AppendMemoryType ==
    ASSUME NEW inst \in Instruction, NEW size \in {"", "byte", "word"}
    PROVE  AppendMemory(inst, size) \in ListedOperand /\ AppendMemory(inst, size)[1] = "memory"
<1> DEFINE v == AppendImm(inst.disp[1], inst.disp[2])
<1>1. v \in Int /\ inst.rm \in 0..7
  BY InstructionTypes, AppendImmType
<1> HIDE DEF v
<1>2. inst.rm \in (-1)..7 /\ -1 \in (-1)..7 /\ 0 \in Int
  BY <1>1, BaseTypes, Zenon
<1>3. \/ AppendMemory(inst, size) = Memory(size, -1, v)
      \/ AppendMemory(inst, size) = Memory(size, inst.rm, 0)
      \/ AppendMemory(inst, size) = Memory(size, inst.rm, v)
  BY DEF AppendMemory, v
<1>4. /\ Memory(size, -1, v) \in ListedOperand /\ Memory(size, -1, v)[1] = "memory"
      /\ Memory(size, inst.rm, 0) \in ListedOperand /\ Memory(size, inst.rm, 0)[1] = "memory"
      /\ Memory(size, inst.rm, v) \in ListedOperand /\ Memory(size, inst.rm, v)[1] = "memory"
  BY <1>1, <1>2, ListedOperandTypes, Zenon
<1>5. QED
  BY <1>3, <1>4, Zenon

\* Two operands, neither of them a label.
PlainOperands(operands) ==
    /\ operands \in Seq(ListedOperand)
    /\ operands[1][1] # "label"

LEMMA PlainPair ==
    ASSUME NEW a \in ListedOperand, NEW b \in ListedOperand, a[1] # "label"
    PROVE  PlainOperands(<<a, b>>)
BY DEF PlainOperands

LEMMA EncodeBasicType ==
    ASSUME NEW inst \in Instruction, inst.operands # "ShortLabel", ~NoSuchName(inst)
    PROVE  PlainOperands(EncodeBasicInstruction(inst))
<1> DEFINE acc == Register(0, inst.w)
           rm == Register(inst.rm, inst.w)
           reg == Register(inst.reg, inst.w)
           rm16 == Register(inst.rm, 1)
           seg == SegmentRegister(inst.reg)
           num == Number(DataNumber(inst))
           addr == Memory("", -1, DataNumber(inst))
           mem == AppendMemory(inst, "")
           sized == AppendMemory(inst, IF inst.w = 1 THEN "word" ELSE "byte")
           accs == AppendMemAcc(inst)
           kind == inst.operands
<1>1. /\ inst.w \in 0..1 /\ inst.rm \in 0..7 /\ inst.reg \in 0..7 /\ kind \in Operands
      /\ DataNumber(inst) \in Int
  BY InstructionTypes, AppendImmType DEF DataNumber
<1>2. /\ acc \in ListedOperand /\ acc[1] = "register" /\ rm \in ListedOperand /\ rm[1] = "register"
      /\ reg \in ListedOperand /\ reg[1] = "register" /\ rm16 \in ListedOperand /\ rm16[1] = "register"
      /\ num \in ListedOperand
      /\ addr \in ListedOperand /\ addr[1] = "memory"
  <2> HIDE DEF kind
  <2>1. 0 \in 0..7 /\ 1 \in 0..1 /\ -1 \in (-1)..7 /\ "" \in {"", "byte", "word"}
    OBVIOUS
  <2>2. QED
    BY <1>1, <2>1, ListedOperandTypes, Zenon
<1>3. /\ mem \in ListedOperand /\ mem[1] = "memory" /\ sized \in ListedOperand /\ sized[1] = "memory"
  BY AppendMemoryType
<1>4. kind \in SegmentOperands => seg \in ListedOperand /\ seg[1] = "segment"
  <2>1. kind \in SegmentOperands => inst.reg \in 0..3
    BY <1>1 DEF NoSuchName
  <2>2. QED
    BY <2>1, ListedOperandTypes, Zenon
<1>5. accs = <<addr, acc>> \/ accs = <<acc, addr>>
  BY DEF AppendMemAcc
<1>6. EncodeBasicInstruction(inst) =
        CASE kind \in {"Accumulator_Memory", "Memory_Accumulator"} -> accs
          [] kind = "Accumulator_Immediate" -> <<acc, num>>
          [] kind = "Memory_Immediate" -> <<sized, num>>
          [] kind = "Memory_Register" -> <<reg, mem>>
          [] kind = "Register_Memory" -> <<mem, reg>>
          [] kind = "Register_Register" -> <<rm, reg>>
          [] kind = "Register_Immediate" -> <<rm, num>>
          [] kind = "SegReg_Register16" -> <<rm16, seg>>
          [] kind = "Register16_SegReg" -> <<seg, rm16>>
          [] kind = "SegReg_Memory16" -> <<mem, seg>>
          [] kind = "Memory_SegReg" -> <<seg, mem>>
  BY Zenon DEF EncodeBasicInstruction
<1> HIDE DEF acc, rm, reg, rm16, seg, num, addr, mem, sized, accs
<1>7. /\ PlainOperands(accs) /\ PlainOperands(<<acc, num>>) /\ PlainOperands(<<sized, num>>)
      /\ PlainOperands(<<reg, mem>>) /\ PlainOperands(<<mem, reg>>)
      /\ PlainOperands(<<rm, reg>>) /\ PlainOperands(<<rm, num>>)
  <2>1. /\ PlainOperands(<<addr, acc>>) /\ PlainOperands(<<acc, addr>>)
        /\ PlainOperands(<<acc, num>>) /\ PlainOperands(<<sized, num>>)
        /\ PlainOperands(<<reg, mem>>) /\ PlainOperands(<<mem, reg>>)
        /\ PlainOperands(<<rm, reg>>) /\ PlainOperands(<<rm, num>>)
    BY <1>2, <1>3, PlainPair
  <2>2. QED
    BY <1>5, <2>1
<1>8. kind \in SegmentOperands => /\ PlainOperands(<<rm16, seg>>) /\ PlainOperands(<<seg, rm16>>)
                                  /\ PlainOperands(<<mem, seg>>) /\ PlainOperands(<<seg, mem>>)
  BY <1>2, <1>3, <1>4, PlainPair
<1>9. \/ kind \in {"Accumulator_Memory", "Memory_Accumulator"}
      \/ kind = "Accumulator_Immediate" \/ kind = "Memory_Immediate" \/ kind = "Memory_Register"
      \/ kind = "Register_Memory" \/ kind = "Register_Register" \/ kind = "Register_Immediate"
      \/ kind \in SegmentOperands
  BY <1>1 DEF Operands, SegmentOperands
<1> HIDE DEF kind
<1>10. CASE kind \in {"Accumulator_Memory", "Memory_Accumulator"}
  BY <1>6, <1>7, <1>10, Zenon
<1>11. CASE kind = "Accumulator_Immediate"
  BY <1>6, <1>7, <1>11, Zenon
<1>12. CASE kind = "Memory_Immediate"
  BY <1>6, <1>7, <1>12, Zenon
<1>13. CASE kind = "Memory_Register"
  BY <1>6, <1>7, <1>13, Zenon
<1>14. CASE kind = "Register_Memory"
  BY <1>6, <1>7, <1>14, Zenon
<1>15. CASE kind = "Register_Register"
  BY <1>6, <1>7, <1>15, Zenon
<1>16. CASE kind = "Register_Immediate"
  BY <1>6, <1>7, <1>16, Zenon
<1>17. CASE kind \in SegmentOperands
  <2>1. CASE kind = "SegReg_Register16"
    BY <1>6, <1>8, <1>17, <2>1, Zenon
  <2>2. CASE kind = "Register16_SegReg"
    BY <1>6, <1>8, <1>17, <2>2, Zenon
  <2>3. CASE kind = "SegReg_Memory16"
    BY <1>6, <1>8, <1>17, <2>3, Zenon
  <2>4. CASE kind = "Memory_SegReg"
    BY <1>6, <1>8, <1>17, <2>4, Zenon
  <2>5. QED
    BY <1>17, <2>1, <2>2, <2>3, <2>4 DEF SegmentOperands
<1>18. QED
  BY <1>9, <1>10, <1>11, <1>12, <1>13, <1>14, <1>15, <1>16, <1>17

-----------------------------------------------------------------------------
(***************************************************************************)
(* The listing.                                                            *)
(***************************************************************************)
\* A line that is not a label line does not say "(failed to decode label)".
Found(line) == "label" \in DOMAIN line \/ line.operands[1] # <<"label", FailedLabel>>

\* byteIdx is the offset of the next instruction, so that the loop looks its
\* labels up where the decoder stored them.
EncoderInv ==
    /\ EncoderTypeOK
    /\ byteIdx = StartOf(instructions, i + 1)
    /\ \A n \in DOMAIN listing : Found(listing[n])

DisassemblerInv == DecoderInv /\ EncoderInv

\* A label's name is a number.
LEMMA LabelNameType ==
    ASSUME DecoderTypeOK, NEW offset, LabelsAt(offset) # {}
    PROVE  LabelName(Min(LabelsAt(offset))) \in 0..LabelNumbers - 1
<1>1. LabelsAt(offset) \subseteq Nat
  BY DEF LabelsAt, DecoderTypeOK
<1>2. \E least \in LabelsAt(offset) : \A other \in LabelsAt(offset) : least <= other
  BY <1>1, LeastNumber
<1>3. Min(LabelsAt(offset)) \in LabelsAt(offset)
  BY <1>2 DEF Min
<1>4. jmpLabels[Min(LabelsAt(offset))].labelIdx \in Nat
  <2>1. Min(LabelsAt(offset)) \in DOMAIN jmpLabels
    BY <1>3 DEF LabelsAt
  <2>2. jmpLabels \in Seq(Label)
    BY DEF DecoderTypeOK, Label
  <2>3. jmpLabels[Min(LabelsAt(offset))] \in Label
    BY <2>1, <2>2
  <2>4. QED
    BY <2>3 DEF Label
<1>5. LabelNumbers \in Nat \ {0}
  BY EncoderConstants
<1>6. \A v \in Nat : v % LabelNumbers \in 0..LabelNumbers - 1
  BY <1>5
<1>7. QED
  BY <1>4, <1>6 DEF LabelName

\* A label line, if there is one.
LEMMA LabelLineType ==
    ASSUME DecoderTypeOK, NEW offset
    PROVE  /\ LabelLine(offset) \in Seq(Line)
           /\ \A n \in DOMAIN LabelLine(offset) : Found(LabelLine(offset)[n])
<1>1. CASE LabelsAt(offset) = {}
  BY <1>1 DEF LabelLine
<1>2. CASE LabelsAt(offset) # {}
  <2> DEFINE name == LabelName(Min(LabelsAt(offset)))
             line == [label |-> name]
  <2>1. name \in 0..LabelNumbers - 1
    BY <1>2, LabelNameType
  <2>2. LabelLine(offset) = <<line>>
    BY <1>2 DEF LabelLine
  <2> HIDE DEF name
  <2>3. line \in Line /\ "label" \in DOMAIN line
    BY <2>1 DEF Line
  <2> HIDE DEF line
  <2>4. <<line>> \in Seq(Line) /\ DOMAIN <<line>> = {1} /\ <<line>>[1] = line
    BY <2>3
  <2>5. QED
    BY <2>2, <2>3, <2>4 DEF Found
<1>3. QED
  BY <1>1, <1>2

\* A jump of the program has a label where the listing looks for it.
LEMMA JumpIsFound ==
    ASSUME DecoderInv, NEW k \in DOMAIN instructions, instructions[k].operands = "ShortLabel"
    PROVE  LabelsAt(StartOf(instructions, k) + instructions[k].byteCount + ToI8(instructions[k].data[1])) # {}
<1> DEFINE offset == StartOf(instructions, k) + instructions[k].byteCount + ToI8(instructions[k].data[1])
<1>1. StartOf(instructions, k + 1) = StartOf(instructions, k) + instructions[k].byteCount
  <2>1. instructions \in Seq(Instruction) /\ k \in 1..Len(instructions)
    BY DEF DecoderInv, DecoderTypeOK
  <2>2. QED
    BY <2>1, StartOfAddsUp
<1>2. PICK l \in DOMAIN jmpLabels : jmpLabels[l].byteOffset = Target(instructions, k)
  BY DEF DecoderInv, LabelsFit, JumpsHaveLabels, ShortJumps
<1>3. jmpLabels[l].byteOffset = offset
  BY <1>1, <1>2 DEF Target
<1> HIDE DEF offset
<1>4. LabelsAt(offset) # {}
  BY <1>3 DEF LabelsAt
<1>5. QED
  BY <1>4 DEF offset

\* The line of an instruction.
LEMMA InstructionLineType ==
    ASSUME DecoderInv, NEW k \in DOMAIN instructions, ~NoSuchName(instructions[k])
    PROVE  LET line == InstructionLine(instructions[k],
                          StartOf(instructions, k) + instructions[k].byteCount)
           IN  line \in Line /\ Found(line) /\ "label" \notin DOMAIN line
<1> DEFINE inst == instructions[k]
           end == StartOf(instructions, k) + inst.byteCount
           found == LabelsAt(end + ToI8(inst.data[1]))
           line == InstructionLine(inst, end)
           operands == IF inst.operands # "ShortLabel" THEN EncodeBasicInstruction(inst)
                       ELSE << <<"label", IF found = {} THEN FailedLabel ELSE LabelName(Min(found))>> >>
<1>1. inst \in Instruction
  BY DEF DecoderInv, DecoderTypeOK
<1>2. inst.type \in InstType
  BY <1>1, InstructionTypes
<1>3. line = [type |-> inst.type, operands |-> operands]
  BY DEF InstructionLine
<1>4. operands \in Seq(ListedOperand) /\ operands[1] # <<"label", FailedLabel>>
  <2>1. CASE inst.operands # "ShortLabel"
    <3>1. PlainOperands(operands)
      BY <1>1, <2>1, EncodeBasicType
    <3> HIDE DEF operands
    <3>2. QED
      BY <3>1 DEF PlainOperands
  <2>2. CASE inst.operands = "ShortLabel"
    <3> DEFINE name == LabelName(Min(found))
    <3>1. found # {}
      BY <2>2, JumpIsFound
    <3>2. name \in 0..LabelNumbers - 1
      BY <3>1, LabelNameType DEF DecoderInv
    <3>3. operands = << <<"label", name>> >>
      BY <2>2, <3>1
    <3> HIDE DEF name, found, operands
    <3>4. LabelNumbers \in Nat
      BY EncoderConstants
    <3>5. name \in FailedLabel..LabelNumbers - 1 /\ name # FailedLabel
      BY <3>2, <3>4 DEF FailedLabel
    <3>6. <<"label", name>> \in ListedOperand
      BY <3>5, ListedOperandTypes, Zenon
    <3>7. <<"label", name>> # <<"label", FailedLabel>>
      BY <3>5
    <3>8. QED
      BY <3>3, <3>6, <3>7
  <2>3. QED
    BY <2>1, <2>2
<1> HIDE DEF operands, line, inst, end
<1>5. line \in Line
  BY <1>2, <1>3, <1>4 DEF Line
<1>6. line.operands = operands /\ "label" \notin DOMAIN line
  BY <1>3
<1>7. QED
  BY <1>4, <1>5, <1>6 DEF Found, line, inst, end

LEMMA EncoderInvInit == DisassemblerInit => DisassemblerInv
<1> SUFFICES ASSUME DisassemblerInit PROVE DisassemblerInv
  OBVIOUS
<1>1. DecoderInv
  BY DecoderInvInit DEF DisassemblerInit
<1>2. /\ instructions = <<>> /\ i = 0 /\ byteIdx = 0 /\ listing = <<>> /\ encoding = "encoding"
      /\ options \in Options
  BY DEF DisassemblerInit, DecoderInit, EncoderInit
<1>3. /\ instructions \in Seq(Instruction) /\ Len(instructions) = 0 /\ listing \in Seq(Line)
      /\ DOMAIN listing = {}
  BY <1>2
<1>4. StartOf(instructions, i + 1) = 0
  <2>1. StartOf(instructions, 1) = 0
    BY <1>3, StartOfAddsUp
  <2>2. QED
    BY <1>2, <2>1
<1>5. EncoderTypeOK
  BY <1>2, <1>3 DEF EncoderTypeOK
<1>6. QED
  BY <1>1, <1>2, <1>3, <1>4, <1>5 DEF DisassemblerInv, EncoderInv

\* The listing while the decoder runs: only the program grows.
LEMMA EncoderInvDecode ==
    ASSUME DisassemblerInv, DecoderNext, UNCHANGED encoderVars
    PROVE  EncoderInv'
<1>1. /\ instructions \in Seq(Instruction) /\ i \in 0..Len(instructions) /\ i \in Nat
      /\ Len(instructions) \in Nat /\ DecoderTypeOK
      /\ EncoderTypeOK /\ byteIdx = StartOf(instructions, i + 1)
      /\ \A n \in DOMAIN listing : Found(listing[n])
  BY DEF DisassemblerInv, DecoderInv, DecoderTypeOK, EncoderInv, EncoderTypeOK
<1>2. i' = i /\ byteIdx' = byteIdx /\ listing' = listing /\ encoding' = encoding /\ options' = options
  BY DEF encoderVars
<1>3. \A n \in DOMAIN listing' : Found(listing'[n])
  BY <1>1, <1>2
<1>4. CASE instructions' = instructions
  BY <1>1, <1>2, <1>3, <1>4 DEF EncoderInv, EncoderTypeOK
<1>5. CASE DecodeNext
  <2>1. PICK inst \in Instruction : instructions' = Append(instructions, inst)
    BY <1>1, <1>5, StepOfDecodeNext
  <2>2. Len(instructions') = Len(instructions) + 1
    BY <1>1, <2>1
  <2>3. StartOf(instructions', i + 1) = StartOf(instructions, i + 1)
    BY <1>1, <2>1, i + 1 \in 1..(Len(instructions) + 1), StartOfAppend
  <2>4. EncoderTypeOK'
    BY <1>1, <1>2, <2>2 DEF EncoderTypeOK
  <2>5. QED
    BY <1>1, <1>2, <1>3, <2>3, <2>4 DEF EncoderInv
<1>6. QED
  BY <1>4, <1>5 DEF DecoderNext, PanicOnOpcode, PanicOnRegField, AssertOnTruncation, Finish

LEMMA EncoderInvEncode ==
    ASSUME DisassemblerInv, EncoderNext
    PROVE  EncoderInv'
<1>1. /\ instructions \in Seq(Instruction) /\ i \in 0..Len(instructions) /\ i \in Nat
      /\ Len(instructions) \in Nat /\ DecoderTypeOK /\ DecoderInv
      /\ options \in Options /\ byteIdx \in Nat /\ listing \in Seq(Line)
      /\ encoding \in {"encoding", "done", "undefined"}
      /\ byteIdx = StartOf(instructions, i + 1)
      /\ \A n \in DOMAIN listing : Found(listing[n])
  BY DEF DisassemblerInv, DecoderInv, DecoderTypeOK, EncoderInv, EncoderTypeOK
<1>2. instructions' = instructions
  BY DEF EncoderNext, decoderVars
<1>3. ASSUME NEW more \in Seq(Line), \A n \in DOMAIN more : Found(more[n])
      PROVE  listing \o more \in Seq(Line) /\ \A n \in DOMAIN (listing \o more) : Found((listing \o more)[n])
  <2>1. /\ listing \o more \in Seq(Line)
        /\ Len(listing \o more) = Len(listing) + Len(more)
        /\ \A n \in 1..Len(listing) + Len(more) : (listing \o more)[n] =
              IF n <= Len(listing) THEN listing[n] ELSE more[n - Len(listing)]
    BY <1>1, ConcatProperties, Zenon
  <2>2. DOMAIN (listing \o more) = 1..Len(listing) + Len(more)
    BY <2>1
  <2>3. ASSUME NEW n \in DOMAIN (listing \o more)
        PROVE  Found((listing \o more)[n])
    <3>1. Len(listing) \in Nat /\ Len(more) \in Nat
      BY <1>1
    <3>2. CASE n <= Len(listing)
      <4>1. n \in DOMAIN listing
        BY <1>1, <2>2, <3>2
      <4>2. QED
        BY <1>1, <2>1, <2>2, <3>2, <4>1
    <3>3. CASE ~(n <= Len(listing))
      <4>1. n - Len(listing) \in DOMAIN more
        BY <2>2, <3>1, <3>3
      <4>2. QED
        BY <1>3, <2>1, <2>2, <3>3, <4>1
    <3>4. QED
      BY <3>2, <3>3
  <2>4. QED
    BY <2>1, <2>3
<1>4. LabelLine(byteIdx) \in Seq(Line) /\ \A n \in DOMAIN LabelLine(byteIdx) : Found(LabelLine(byteIdx)[n])
  BY <1>1, LabelLineType
<1>5. CASE EncodeNext
  <2> DEFINE inst == instructions[i + 1]
             line == InstructionLine(inst, byteIdx + inst.byteCount)
  <2>1. /\ i < Len(instructions) /\ ~NoSuchName(inst) /\ byteIdx' = byteIdx + inst.byteCount
        /\ listing' = listing \o LabelLine(byteIdx) \o <<line>>
        /\ i' = i + 1 /\ options' = options /\ encoding' = encoding
    BY <1>5 DEF EncodeNext
  <2>2. i + 1 \in 1..Len(instructions) /\ i + 1 \in DOMAIN instructions
    BY <1>1, <2>1
  <2>3. line \in Line /\ Found(line)
    BY <1>1, <2>1, <2>2, InstructionLineType
  <2>4. byteIdx' = StartOf(instructions', i' + 1) /\ byteIdx' \in Nat
    <3>1. StartOf(instructions, (i + 1) + 1) = StartOf(instructions, i + 1) + inst.byteCount
      BY <1>1, <2>2, StartOfAddsUp
    <3>2. StartOf(instructions, (i + 1) + 1) \in Nat
      BY <1>1, <2>2, (i + 1) + 1 \in 1..(Len(instructions) + 1), StartOfAddsUp
    <3>3. QED
      BY <1>1, <1>2, <2>1, <3>1, <3>2
  <2> HIDE DEF line, inst
  <2>5. listing' \in Seq(Line) /\ \A n \in DOMAIN listing' : Found(listing'[n])
    <3> DEFINE more == LabelLine(byteIdx) \o <<line>>
    <3>1. <<line>> \in Seq(Line) /\ Len(<<line>>) = 1 /\ <<line>>[1] = line
      BY <2>3
    <3>2. listing' = listing \o more
      <4>1. (listing \o LabelLine(byteIdx)) \o <<line>> = listing \o (LabelLine(byteIdx) \o <<line>>)
        <5>1. listing \in Seq(Line) /\ LabelLine(byteIdx) \in Seq(Line) /\ <<line>> \in Seq(Line)
          BY <1>1, <1>4, <3>1
        <5> HIDE DEF more
        <5>2. QED
          BY <5>1, ConcatAssociative
      <4>2. QED
        BY <2>1, <4>1, Zenon
    <3>3. /\ more \in Seq(Line) /\ Len(more) = Len(LabelLine(byteIdx)) + 1
          /\ \A n \in 1..Len(LabelLine(byteIdx)) + 1 : more[n] =
                IF n <= Len(LabelLine(byteIdx)) THEN LabelLine(byteIdx)[n]
                                                ELSE <<line>>[n - Len(LabelLine(byteIdx))]
      <4>1. /\ more \in Seq(Line) /\ Len(more) = Len(LabelLine(byteIdx)) + Len(<<line>>)
            /\ \A n \in 1..Len(LabelLine(byteIdx)) + Len(<<line>>) : more[n] =
                  IF n <= Len(LabelLine(byteIdx)) THEN LabelLine(byteIdx)[n]
                                                  ELSE <<line>>[n - Len(LabelLine(byteIdx))]
        BY <1>4, <3>1, ConcatProperties, Zenon
      <4>2. QED
        BY <3>1, <4>1, Zenon
    <3> HIDE DEF more
    <3>4. \A n \in DOMAIN more : Found(more[n])
      <4> DEFINE label == LabelLine(byteIdx)
      <4>1. /\ label \in Seq(Line) /\ Len(label) \in Nat /\ DOMAIN label = 1..Len(label)
            /\ \A n \in DOMAIN label : Found(label[n])
        BY <1>4
      <4>2. /\ Len(more) = Len(label) + 1
            /\ \A n \in 1..Len(label) + 1 : more[n] =
                  IF n <= Len(label) THEN label[n] ELSE <<line>>[n - Len(label)]
        BY <3>3
      <4>3. DOMAIN more = 1..Len(label) + 1
        BY <3>3, <4>2
      <4> HIDE DEF label
      <4>4. ASSUME NEW n \in 1..Len(label) + 1
            PROVE  Found(more[n])
        <5>1. CASE n <= Len(label)
          BY <4>1, <4>2, <5>1, n \in DOMAIN label
        <5>2. CASE n = Len(label) + 1
          <6>1. n - Len(label) = 1 /\ ~(n <= Len(label))
            BY <4>1, <5>2
          <6>2. QED
            BY <2>3, <3>1, <4>2, <6>1
        <5>3. QED
          BY <4>1, <5>1, <5>2
      <4>5. QED
        BY <4>3, <4>4
    <3>5. QED
      BY <1>3, <3>2, <3>3, <3>4
  <2>6. EncoderTypeOK'
    BY <1>1, <1>2, <2>1, <2>4, <2>5 DEF EncoderTypeOK
  <2>7. QED
    BY <2>4, <2>5, <2>6 DEF EncoderInv
<1>6. CASE UndefinedName
  <2>1. i' = i /\ byteIdx' = byteIdx /\ listing' = listing /\ options' = options /\ encoding' = "undefined"
    BY <1>6 DEF UndefinedName
  <2>2. QED
    BY <1>1, <1>2, <2>1 DEF EncoderInv, EncoderTypeOK
<1>7. CASE EncodeEnd
  <2>1. /\ i' = i /\ byteIdx' = byteIdx /\ options' = options /\ encoding' = "done"
        /\ listing' = listing \o LabelLine(byteIdx)
    BY <1>7 DEF EncodeEnd
  <2>2. listing' \in Seq(Line) /\ \A n \in DOMAIN listing' : Found(listing'[n])
    BY <1>3, <1>4, <2>1
  <2>3. EncoderTypeOK'
    BY <1>1, <1>2, <2>1, <2>2 DEF EncoderTypeOK
  <2>4. QED
    BY <1>1, <1>2, <2>1, <2>2, <2>3 DEF EncoderInv
<1>8. QED
  BY <1>5, <1>6, <1>7 DEF EncoderNext

LEMMA DisassemblerInvNext ==
    DisassemblerInv /\ [DisassemblerNext]_<<decoderVars, encoderVars>> => DisassemblerInv'
<1> SUFFICES ASSUME DisassemblerInv, [DisassemblerNext]_<<decoderVars, encoderVars>>
             PROVE  DisassemblerInv'
  OBVIOUS
<1>1. CASE Decode
  <2>1. DecoderInv'
    BY <1>1, DecoderInvNext DEF Decode, DisassemblerInv
  <2>2. EncoderInv'
    BY <1>1, EncoderInvDecode DEF Decode
  <2>3. QED
    BY <2>1, <2>2 DEF DisassemblerInv
<1>2. CASE Encode
  <2>1. EncoderNext /\ UNCHANGED decoderVars
    BY <1>2 DEF Encode, EncoderNext
  <2>2. DecoderInv'
    BY <2>1, DecoderInvNext DEF DisassemblerInv
  <2>3. QED
    BY <2>1, <2>2, EncoderInvEncode DEF DisassemblerInv
<1>3. CASE UNCHANGED <<decoderVars, encoderVars>>
  <2>1. DecoderInv'
    BY <1>3, DecoderInvNext DEF DisassemblerInv
  <2>2. EncoderInv'
    BY <1>3 DEF DisassemblerInv, EncoderInv, EncoderTypeOK, decoderVars, encoderVars
  <2>3. QED
    BY <2>1, <2>2 DEF DisassemblerInv
<1>4. QED
  BY <1>1, <1>2, <1>3 DEF DisassemblerNext

-----------------------------------------------------------------------------
(***************************************************************************)
(* Theorems.                                                               *)
(***************************************************************************)
\* The invariant of both loops, from which the theorems below follow.
THEOREM DisassemblerKeepsItsInvariant == DisassemblerSpec => []DisassemblerInv
BY EncoderInvInit, DisassemblerInvNext, PTL DEF DisassemblerSpec

\* Whatever the file and whatever follows it in memory, decodeAsm8086 only ever
\* yields instructions that decodeInstruction can mean, the emulator's input.
THEOREM DecoderYieldsInstructions == DisassemblerSpec => []DecoderTypeOK
<1>1. DisassemblerInv => DecoderTypeOK
  BY DEF DisassemblerInv, DecoderInv
<1>2. QED
  BY <1>1, DisassemblerKeepsItsInvariant, PTL

\* encodeAsm8086 only writes lines that mean something: registers and segments
\* that have a name, bases of the table, labels in range.
THEOREM ListingIsWellFormed == DisassemblerSpec => []EncoderTypeOK
<1>1. DisassemblerInv => EncoderTypeOK
  BY DEF DisassemblerInv, EncoderInv
<1>2. QED
  BY <1>1, DisassemblerKeepsItsInvariant, PTL

\* The loop of decodeAsm8086 begins every instruction inside the array, and only
\* the last can end past it; in a build with asserts not even that one.
THEOREM DecoderStaysInTheFile == DisassemblerSpec => []OnlyTheLastOverruns
<1>1. DisassemblerInv => OnlyTheLastOverruns
  BY DEF DisassemblerInv, DecoderInv
<1>2. QED
  BY <1>1, DisassemblerKeepsItsInvariant, PTL

\* storeShortJmpLabel keeps one label for each target of a jump, in the order of
\* the first jump to each.
THEOREM LabelsNameTheTargets == DisassemblerSpec => []LabelsAreTargets
<1>1. DisassemblerInv => LabelsAreTargets
  <2>1. SUFFICES ASSUME DisassemblerInv PROVE LabelsAreTargets
    OBVIOUS
  <2>2. /\ instructions \in Seq(Instruction) /\ jmpLabels \in Seq(Label)
        /\ LabelsFit(instructions, jmpLabels)
    BY <2>1 DEF DisassemblerInv, DecoderInv, DecoderTypeOK, Label
  <2>3. QED
    BY <2>2, FittingLabelsAreTargets
<1>2. QED
  BY <1>1, DisassemblerKeepsItsInvariant, PTL

\* Every jump is listed with the label the decoder stored for it: appendShortLabel
\* never writes "(failed to decode label)".
THEOREM EveryJumpIsListedWithItsLabel == DisassemblerSpec => []JumpsFindTheirLabel
<1>1. DisassemblerInv => JumpsFindTheirLabel
  <2>1. SUFFICES ASSUME DisassemblerInv, NEW n \in InstructionLines
                 PROVE  listing[n].operands[1] # <<"label", FailedLabel>>
    BY DEF JumpsFindTheirLabel
  <2>2. n \in DOMAIN listing /\ ~("label" \in DOMAIN listing[n])
    BY DEF InstructionLines, LabelLines
  <2>3. Found(listing[n])
    BY <2>1, <2>2 DEF DisassemblerInv, EncoderInv
  <2>4. QED
    BY <2>2, <2>3 DEF Found
<1>2. QED
  BY <1>1, DisassemblerKeepsItsInvariant, PTL

\* No step changes or takes back a label that was handed out (appendUnique).
THEOREM LabelsStay == DisassemblerSpec => LabelsAreStable
<1>1. DisassemblerInv /\ [DisassemblerNext]_<<decoderVars, encoderVars>> => [IsPrefix(jmpLabels, jmpLabels')]_decoderVars
  <2>1. SUFFICES ASSUME DisassemblerInv, Decode
                 PROVE  IsPrefix(jmpLabels, jmpLabels') \/ UNCHANGED decoderVars
    BY DEF DisassemblerNext, Encode, EncoderNext, decoderVars
  <2>2. /\ jmpLabels \in Seq(Label) /\ instructions \in Seq(Instruction) /\ DecoderTypeOK
        /\ LabelsFit(instructions, jmpLabels) /\ idx = StartOf(instructions, Len(instructions) + 1)
    BY <2>1 DEF DisassemblerInv, DecoderInv, DecoderTypeOK, Label
  <2>3. CASE DecodeNext
    <3>1. PICK inst \in Instruction : jmpLabels' = LabelsAfter(jmpLabels, inst, idx)
      BY <2>2, <2>3, StepOfDecodeNext
    <3>2. QED
      BY <2>2, <3>1, LabelsStillFit
  <2>4. CASE jmpLabels' = jmpLabels
    BY <2>2, <2>4 DEF IsPrefix
  <2>5. QED
    BY <2>1, <2>3, <2>4 DEF Decode, DecoderNext, PanicOnOpcode, PanicOnRegField, AssertOnTruncation, Finish
<1>2. QED
  BY <1>1, DisassemblerKeepsItsInvariant, PTL DEF DisassemblerSpec, LabelsAreStable

-----------------------------------------------------------------------------
(***************************************************************************)
(* FlattenSeq, the concatenation of a sequence of sequences of bytes.      *)
(***************************************************************************)
Bytes == Seq(Byte)

\* h concatenates the first sequences, as far as the n-th.
Flattens(h, seqs, n) ==
    /\ h \in [1..n -> Bytes]
    /\ \A k \in 1..n : h[k] = IF k = 1 THEN seqs[k] ELSE h[k - 1] \o seqs[k]

LEMMA ConcatBytes ==
    ASSUME NEW s \in Bytes, NEW t \in Bytes
    PROVE  /\ s \o t \in Bytes
           /\ Len(s \o t) = Len(s) + Len(t)
           /\ \A k \in 1..Len(s) + Len(t) : (s \o t)[k] = IF k <= Len(s) THEN s[k] ELSE t[k - Len(s)]
BY ConcatProperties, Zenon DEF Bytes

\* There is such a function, for every n, by the least n that has none.
LEMMA FlattensExists ==
    ASSUME NEW seqs \in Seq(Bytes), NEW n \in 1..Len(seqs)
    PROVE  \E h : Flattens(h, seqs, n)
<1> DEFINE T == {m \in 1..Len(seqs) : ~ \E h : Flattens(h, seqs, m)}
<1>0. Len(seqs) \in Nat /\ \A k \in 1..Len(seqs) : seqs[k] \in Bytes
  OBVIOUS
<1>1. SUFFICES ASSUME T # {} PROVE FALSE
  OBVIOUS
<1>2. T \subseteq Nat
  BY <1>0
<1>3. PICK m \in T : \A other \in T : m <= other
  <2> HIDE DEF T
  <2> QED
    BY <1>1, <1>2, LeastNumber
<1>4. m \in 1..Len(seqs) /\ m \in Int /\ ~ \E h : Flattens(h, seqs, m)
  BY <1>0
<1>5. m # 1
  <2>1. seqs[1] \in Bytes
    BY <1>0, <1>4
  <2>2. Flattens([k \in 1..1 |-> seqs[k]], seqs, 1)
    BY <2>1 DEF Flattens
  <2>3. QED
    BY <1>4, <2>2
<1>6. m - 1 \in 1..Len(seqs) /\ m - 1 \notin T
  BY <1>0, <1>3, <1>4, <1>5
<1>7. PICK h : Flattens(h, seqs, m - 1)
  BY <1>6
<1> DEFINE g == [k \in 1..m |-> IF k = m THEN h[m - 1] \o seqs[m] ELSE h[k]]
<1>8. Flattens(g, seqs, m)
  <2>1. m - 1 \in 1..(m - 1) /\ h[m - 1] \in Bytes /\ seqs[m] \in Bytes
    BY <1>0, <1>4, <1>5, <1>7 DEF Flattens
  <2>2. h[m - 1] \o seqs[m] \in Bytes
    BY <2>1, ConcatBytes, Zenon
  <2>3. ASSUME NEW k \in 1..m
        PROVE  g[k] \in Bytes /\ g[k] = IF k = 1 THEN seqs[k] ELSE g[k - 1] \o seqs[k]
    <3>1. CASE k = m
      <4>1. k - 1 \in 1..m /\ k - 1 # m /\ k # 1
        BY <3>1, <1>4, <1>5
      <4>2. g[k] = h[m - 1] \o seqs[m] /\ g[k - 1] = h[k - 1]
        BY <3>1, <4>1
      <4> HIDE DEF g
      <4>3. QED
        BY <4>1, <4>2, <2>2, <3>1
    <3>2. CASE k # m
      <4>1. k \in 1..(m - 1)
        BY <3>2, <1>4
      <4>2. g[k] = h[k]
        BY <3>2
      <4>3. h[k] \in Bytes /\ h[k] = IF k = 1 THEN seqs[k] ELSE h[k - 1] \o seqs[k]
        BY <4>1, <1>7 DEF Flattens
      <4>4. k # 1 => k - 1 \in 1..m /\ k - 1 # m
        BY <4>1, <1>4
      <4>5. k # 1 => g[k - 1] = h[k - 1]
        BY <4>4
      <4> HIDE DEF g
      <4>6. QED
        BY <4>2, <4>3, <4>5
    <3>3. QED
      BY <3>1, <3>2
  <2> HIDE DEF g
  <2>4. g = [k \in 1..m |-> g[k]]
    BY DEF g
  <2>5. QED
    BY <2>3, <2>4 DEF Flattens
<1>9. QED
  BY <1>4, <1>8

\* Where two sequences agree, so do their concatenations.
LEMMA FlattensAgree ==
    ASSUME NEW seqs, NEW others, NEW n \in Nat, NEW m \in Nat, n <= m,
           \A k \in 1..n : seqs[k] = others[k],
           NEW h, Flattens(h, seqs, n), NEW g, Flattens(g, others, m)
    PROVE  \A k \in 1..n : h[k] = g[k]
<1> DEFINE T == {k \in 1..n : h[k] # g[k]}
<1>1. SUFFICES ASSUME T # {} PROVE FALSE
  OBVIOUS
<1>2. PICK k \in T : \A other \in T : k <= other
  <2>1. T \subseteq Nat
    OBVIOUS
  <2> HIDE DEF T
  <2>2. QED
    BY <1>1, <2>1, LeastNumber
<1>3. k \in 1..n /\ k \in 1..m /\ h[k] # g[k]
  OBVIOUS
<1>4. /\ h[k] = IF k = 1 THEN seqs[k] ELSE h[k - 1] \o seqs[k]
      /\ g[k] = IF k = 1 THEN others[k] ELSE g[k - 1] \o others[k]
  BY <1>3 DEF Flattens
<1>5. k # 1 => k - 1 \in 1..n /\ k - 1 \notin T
  BY <1>2, <1>3
<1>6. k # 1 => h[k - 1] = g[k - 1]
  BY <1>5
<1>7. seqs[k] = others[k]
  BY <1>3
<1>8. QED
  BY <1>3, <1>4, <1>6, <1>7

\* FlattenSeq computes the last of them.
LEMMA FlattenIsLast ==
    ASSUME NEW seqs \in Seq(Bytes), Len(seqs) # 0
    PROVE  \E h : Flattens(h, seqs, Len(seqs)) /\ FlattenSeq(seqs) = h[Len(seqs)]
<1> DEFINE n == Len(seqs)
           Flat == CHOOSE flat : flat = [k \in 1..n |->
                        IF k = 1 THEN seqs[k] ELSE flat[k - 1] \o seqs[k]]
<1>0. n \in Nat /\ n \in 1..n
  OBVIOUS
<1>1. PICK h : Flattens(h, seqs, n)
  BY <1>0, FlattensExists
<1>2. h = [k \in 1..n |-> IF k = 1 THEN seqs[k] ELSE h[k - 1] \o seqs[k]]
  BY <1>1 DEF Flattens
<1>3. Flat = [k \in 1..n |-> IF k = 1 THEN seqs[k] ELSE Flat[k - 1] \o seqs[k]]
  <2> HIDE DEF n
  <2> QED
    BY <1>2
<1>4. FlattenSeq(seqs) = Flat[n]
  BY DEF FlattenSeq
<1>5. n # 0
  OBVIOUS
<1> HIDE DEF Flat, n
<1>6. \A k \in 1..n : Flat[k] = IF k = 1 THEN seqs[k] ELSE Flat[k - 1] \o seqs[k]
  BY <1>3
<1>7. \A k \in 1..n : Flat[k] = h[k]
  <2> DEFINE T == {k \in 1..n : Flat[k] # h[k]}
  <2>1. SUFFICES ASSUME T # {} PROVE FALSE
    OBVIOUS
  <2>2. PICK k \in T : \A other \in T : k <= other
    <3>1. T \subseteq Nat
      BY <1>0
    <3> HIDE DEF T
    <3>2. QED
      BY <2>1, <3>1, LeastNumber
  <2>3. k \in 1..n /\ Flat[k] # h[k]
    OBVIOUS
  <2>4. k # 1 => k - 1 \in 1..n /\ k - 1 \notin T
    BY <1>0, <2>2, <2>3
  <2>5. k # 1 => Flat[k - 1] = h[k - 1]
    BY <2>4
  <2>6. h[k] = IF k = 1 THEN seqs[k] ELSE h[k - 1] \o seqs[k]
    BY <1>1, <2>3 DEF Flattens
  <2>7. QED
    BY <1>6, <2>3, <2>5, <2>6
<1>8. QED
  BY <1>0, <1>1, <1>4, <1>7 DEF n

\* One more sequence is put at the end.
LEMMA FlattenAppend ==
    ASSUME NEW seqs \in Seq(Bytes), NEW t \in Bytes
    PROVE  /\ FlattenSeq(seqs) \in Bytes
           /\ FlattenSeq(Append(seqs, t)) = FlattenSeq(seqs) \o t
<1> DEFINE longer == Append(seqs, t)
           n == Len(seqs)
<1>1. /\ longer \in Seq(Bytes) /\ Len(longer) = n + 1 /\ n \in Nat
      /\ longer[n + 1] = t /\ \A k \in 1..n : longer[k] = seqs[k]
  OBVIOUS
<1> HIDE DEF longer
<1>2. PICK g : Flattens(g, longer, n + 1) /\ FlattenSeq(longer) = g[n + 1]
  BY <1>1, FlattenIsLast
<1>3. g[n + 1] = IF n + 1 = 1 THEN t ELSE g[n] \o t
  BY <1>1, <1>2, n + 1 \in 1..(n + 1), (n + 1) - 1 = n DEF Flattens
<1>4. CASE n = 0
  <2>1. seqs = <<>>
    BY <1>4
  <2>2. FlattenSeq(seqs) = <<>>
    BY <2>1 DEF FlattenSeq
  <2>3. <<>> \in Bytes
    BY DEF Bytes
  <2>4. <<>> \o t = t
    BY ConcatEmptySeq, Zenon DEF Bytes
  <2>5. g[n + 1] = t
    BY <1>3, <1>4
  <2>6. QED
    BY <1>2, <2>2, <2>3, <2>4, <2>5 DEF longer
<1>5. CASE n # 0
  <2>1. PICK h : Flattens(h, seqs, n) /\ FlattenSeq(seqs) = h[n]
    BY <1>5, FlattenIsLast
  <2>2. h[n] = g[n]
    <3>1. n + 1 \in Nat /\ n <= n + 1 /\ n \in 1..n /\ \A k \in 1..n : seqs[k] = longer[k]
      BY <1>1, <1>5
    <3>2. \A k \in 1..n : h[k] = g[k]
      <4> DEFINE m == n + 1
      <4>1. n \in Nat /\ m \in Nat /\ n <= m /\ Flattens(g, longer, m)
        BY <1>1, <1>2
      <4> HIDE DEF n, m
      <4>2. QED
        BY <2>1, <3>1, <4>1, FlattensAgree
    <3>3. QED
      BY <3>1, <3>2
  <2>3. h[n] \in Bytes
    BY <1>1, <1>5, <2>1, n \in 1..n DEF Flattens
  <2>4. g[n + 1] = g[n] \o t
    BY <1>1, <1>3, <1>5
  <2>5. QED
    BY <1>2, <2>1, <2>2, <2>3, <2>4 DEF longer
<1>6. QED
  BY <1>4, <1>5

(***************************************************************************)
(* The instructions decoded so far, assembled again, are the bytes so far. *)
(***************************************************************************)
Images(prog) == [k \in DOMAIN prog |-> Assemble(prog[k])]

LosslessInv ==
    /\ Images(instructions) \in Seq(Bytes)
    /\ LET image == FlattenSeq(Images(instructions)) IN
       /\ image \in Bytes /\ Len(image) = idx
       /\ \A k \in 1..Len(image) : k <= Len(bytes) => image[k] = bytes[k]

\* One more instruction, one more image.
LEMMA ImagesAppend ==
    ASSUME NEW prog \in Seq(Instruction), NEW inst \in Instruction
    PROVE  Images(Append(prog, inst)) = Append(Images(prog), Assemble(inst))
<1> DEFINE longer == Append(prog, inst)
           n == Len(prog)
           left == Images(longer)
           right == Append(Images(prog), Assemble(inst))
<1>1. /\ n \in Nat /\ DOMAIN longer = 1..n + 1 /\ longer[n + 1] = inst
      /\ DOMAIN prog = 1..n /\ \A k \in 1..n : longer[k] = prog[k]
  OBVIOUS
<1> HIDE DEF longer, n
<1>2. left = [k \in 1..n + 1 |-> IF k = n + 1 THEN Assemble(inst) ELSE Assemble(prog[k])]
  <2>1. \A k \in 1..n + 1 : k = n + 1 \/ k \in 1..n
    BY <1>1
  <2>2. \A k \in 1..n + 1 : Assemble(longer[k]) = IF k = n + 1 THEN Assemble(inst) ELSE Assemble(prog[k])
    BY <1>1, <2>1
  <2>3. QED
    BY <1>1, <2>2 DEF Images
<1>3. Images(prog) = [k \in 1..n |-> Assemble(prog[k])]
  BY <1>1 DEF Images
<1>4. right = [k \in 1..n + 1 |-> IF k = n + 1 THEN Assemble(inst) ELSE Assemble(prog[k])]
  <2> DEFINE A(k) == Assemble(prog[k])
             a == Assemble(inst)
             s == [k \in 1..n |-> A(k)]
  <2> HIDE DEF A, a
  <2>1. Append(s, a) = [k \in 1..n + 1 |-> IF k = n + 1 THEN a ELSE A(k)]
    BY <1>1
  <2>2. QED
    BY <1>3, <2>1 DEF A, a
<1>5. QED
  BY <1>2, <1>4 DEF longer

\* An image of an instruction read is a run of the bytes read.
LEMMA RunOfBytes ==
    ASSUME NEW whole \in Bytes, NEW at \in Nat, NEW n \in Nat, at + n <= Len(whole)
    PROVE  LET run == SubSeq(whole, at + 1, at + n) IN
           run \in Bytes /\ Len(run) = n /\ \A k \in 1..n : run[k] = whole[at + k]
<1>1. whole \in Seq(Byte) /\ Len(whole) \in Nat
  BY DEF Bytes
<1> DEFINE run == SubSeq(whole, at + 1, at + n)
<1>2. \A k \in (at + 1)..(at + n) : k \in 1..Len(whole)
  BY <1>1
<1>3. run \in Seq(Byte)
  BY <1>1, <1>2
<1>4. Len(run) = n /\ \A k \in 1..n : run[k] = whole[at + k]
  BY <1>1
<1>5. QED
  BY <1>3, <1>4 DEF Bytes

LEMMA LosslessStep ==
    ASSUME DecoderTypeOK, LosslessInv, DecodeNext
    PROVE  LosslessInv'
<1>0. instructions \in Seq(Instruction) /\ bytes \in Seq(Byte) /\ idx \in Nat /\ Len(bytes) \in Nat
  BY DEF DecoderTypeOK
<1>1. PICK tail \in Overrun :
           LET inst == InstructionRead(tail) IN
           /\ inst \in Instruction
           /\ instructions' = Append(instructions, inst)
           /\ idx' = idx + inst.byteCount
           /\ jmpLabels' = LabelsAfter(jmpLabels, inst, idx)
           /\ idx < Len(bytes) /\ bytes' = bytes /\ decoding' = decoding
           /\ ASSERT_ENABLED => idx + inst.byteCount <= Len(bytes)
  BY StepOfDecodeNext
<1> DEFINE whole == bytes \o tail
           inst == DecodeInstruction(whole, idx)
           n == inst.byteCount
           part == Assemble(inst)
           image == FlattenSeq(Images(instructions))
           after == FlattenSeq(Images(instructions'))
<1>2. InstructionRead(tail) = inst
  BY DEF InstructionRead
<1>3. /\ inst \in Instruction /\ instructions' = Append(instructions, inst)
      /\ idx' = idx + n /\ idx < Len(bytes) /\ bytes' = bytes
  BY <1>1, <1>2
<1>4. /\ whole \in Seq(Byte) /\ idx + 6 <= Len(whole)
      /\ \A k \in 1..Len(bytes) : whole[k] = bytes[k]
  BY <1>0, <1>3, BytesRead
<1>5. OpcodeDecode(whole[idx + 1]) # NoOpcode
  <2>1. idx + 1 \in 1..Len(bytes)
    BY <1>0, <1>3
  <2>2. (bytes \o AnyTail)[idx + 1] = bytes[idx + 1]
    BY <1>0, <1>3, <2>1, BytesRead, TailsAreBytes
  <2>3. OpcodeKnown
    BY DEF DecodeNext
  <2>4. QED
    BY <1>4, <2>1, <2>2, <2>3 DEF OpcodeKnown
<1> HIDE DEF whole
<1>6. part = SubSeq(whole, idx + 1, idx + n)
  BY <1>0, <1>4, <1>5, AssembleIsRead
<1> HIDE DEF inst
<1>7. n \in 1..6
  <2>1. inst \in InstructionFields
    BY <1>3 DEF Instruction
  <2>2. QED
    BY <2>1 DEF InstructionFields
<1>8. part \in Bytes /\ Len(part) = n /\ \A k \in 1..n : part[k] = whole[idx + k]
  <2>1. whole \in Bytes /\ n \in Nat /\ idx + n <= Len(whole)
    BY <1>0, <1>4, <1>7 DEF Bytes
  <2> HIDE DEF n, part
  <2>2. QED
    BY <1>0, <1>6, <2>1, RunOfBytes, Zenon
<1> HIDE DEF part, n
<1>9. /\ Images(instructions) \in Seq(Bytes) /\ image \in Bytes /\ Len(image) = idx
      /\ \A k \in 1..Len(image) : k <= Len(bytes) => image[k] = bytes[k]
  BY DEF LosslessInv
<1>10. Images(instructions') = Append(Images(instructions), part)
  BY <1>0, <1>3, ImagesAppend DEF part
<1>11. after = image \o part
  BY <1>8, <1>9, <1>10, FlattenAppend
<1> HIDE DEF image, after
<1>12. /\ after \in Bytes /\ Len(after) = idx + n
       /\ \A k \in 1..idx + n : after[k] = IF k <= idx THEN image[k] ELSE part[k - idx]
  <2>1. /\ after \in Bytes /\ Len(after) = Len(image) + Len(part)
        /\ \A k \in 1..Len(image) + Len(part) :
              after[k] = IF k <= Len(image) THEN image[k] ELSE part[k - Len(image)]
    BY <1>8, <1>9, <1>11, ConcatBytes
  <2>2. QED
    BY <1>8, <1>9, <2>1
<1>13. ASSUME NEW k \in 1..idx + n, k <= Len(bytes)
       PROVE  after[k] = bytes[k]
  <2>1. k \in 1..Len(bytes)
    BY <1>0, <1>7, <1>13
  <2>2. CASE k <= idx
    BY <1>0, <1>9, <1>12, <1>13, <2>1, <2>2
  <2>3. CASE ~(k <= idx)
    <3>1. k - idx \in 1..n /\ idx + (k - idx) = k
      BY <1>0, <1>7, <1>13, <2>3
    <3>2. part[k - idx] = whole[k]
      BY <1>8, <3>1
    <3>3. QED
      BY <1>4, <1>12, <2>1, <2>3, <3>2
  <2>4. QED
    BY <2>2, <2>3
<1>14. Images(instructions') \in Seq(Bytes)
  BY <1>8, <1>9, <1>10
<1>15. QED
  BY <1>3, <1>12, <1>13, <1>14 DEF LosslessInv, after, n

LEMMA LosslessInit == DecoderInit => LosslessInv
<1> SUFFICES ASSUME DecoderInit PROVE LosslessInv
  OBVIOUS
<1>1. instructions = <<>> /\ idx = 0
  BY DEF DecoderInit
<1>2. Images(instructions) = <<>>
  BY <1>1 DEF Images
<1>3. FlattenSeq(<<>>) = <<>>
  BY DEF FlattenSeq
<1>4. <<>> \in Bytes /\ Len(<<>>) = 0 /\ <<>> \in Seq(Bytes)
  BY DEF Bytes
<1>5. QED
  <2> DEFINE image == FlattenSeq(Images(instructions))
  <2>1. image = <<>> /\ Images(instructions) = <<>>
    BY <1>2, <1>3
  <2> HIDE DEF image
  <2>2. Images(instructions) \in Seq(Bytes) /\ image \in Bytes /\ Len(image) = idx /\ idx = 0
    BY <1>1, <1>4, <2>1
  <2>3. \A k \in 1..Len(image) : FALSE
    BY <2>2
  <2>4. QED
    BY <2>2, <2>3 DEF LosslessInv, image

LEMMA LosslessInvNext == DecoderTypeOK /\ LosslessInv /\ [DecoderNext]_decoderVars => LosslessInv'
<1> SUFFICES ASSUME DecoderTypeOK, LosslessInv, [DecoderNext]_decoderVars PROVE LosslessInv'
  OBVIOUS
<1>1. CASE DecodeNext
  BY <1>1, LosslessStep
<1>2. CASE instructions' = instructions /\ idx' = idx /\ bytes' = bytes
  BY <1>2 DEF LosslessInv
<1>3. QED
  BY <1>1, <1>2 DEF DecoderNext, decoderVars, PanicOnOpcode, PanicOnRegField, AssertOnTruncation, Finish

\* The instructions, put back into bytes, are the bytes of the file as far as the
\* decoder has come, however they are cut into instructions (decodeAsm8086 and
\* the decodeFrom functions).
THEOREM DecodingLosesNothing == DisassemblerSpec => []Lossless
<1>1. DisassemblerInv /\ LosslessInv /\ [DisassemblerNext]_<<decoderVars, encoderVars>> => LosslessInv'
  <2>1. DisassemblerInv => DecoderTypeOK
    BY DEF DisassemblerInv, DecoderInv
  <2>2. [DisassemblerNext]_<<decoderVars, encoderVars>> => [DecoderNext]_decoderVars
    BY DEF DisassemblerNext, Decode, Encode, EncoderNext, decoderVars
  <2>3. QED
    BY <2>1, <2>2, LosslessInvNext
<1>2. LosslessInv => Lossless
  BY DEF LosslessInv, Lossless, Images, Bytes
<1>3. QED
  BY <1>1, <1>2, LosslessInit, DisassemblerKeepsItsInvariant, PTL DEF DisassemblerSpec, DisassemblerInit

-----------------------------------------------------------------------------
(***************************************************************************)
(* The layout of the listing.  lines[k] is the line of instruction k; the  *)
(* line before it is the label of its offset, if that has one, and another *)
(* label may only come last, of the end of the program.                    *)
(***************************************************************************)
LabelOf(offset) == [label |-> LabelName(Min(LabelsAt(offset)))]
LineWritten(k) ==
    InstructionLine(instructions[k], StartOf(instructions, k) + instructions[k].byteCount)

IsLabelled(k) == LabelsAt(StartOf(instructions, k)) # {}

InstructionsInOrder(lines) ==
    /\ lines \in [1..i -> DOMAIN listing]
    /\ \A k, m \in 1..i : k < m => lines[k] < lines[m]
    /\ \A k \in 1..i : listing[lines[k]] = LineWritten(k)

LabelsBeforeThem(lines) ==
    \A k \in 1..i : IsLabelled(k) =>
        /\ lines[k] - 1 \in DOMAIN listing
        /\ listing[lines[k] - 1] = LabelOf(StartOf(instructions, k))

LabelAtTheEnd ==
    encoding = "done" =>
        /\ i = Len(instructions)
        /\ LabelsAt(byteIdx) # {} =>
              Len(listing) \in DOMAIN listing /\ listing[Len(listing)] = LabelOf(byteIdx)

NothingElse(lines) ==
    \A n \in DOMAIN listing :
        \/ \E k \in 1..i : n = lines[k]
        \/ \E k \in 1..i : IsLabelled(k) /\ n = lines[k] - 1
        \/ encoding = "done" /\ LabelsAt(byteIdx) # {} /\ n = Len(listing)

Layout(lines) ==
    InstructionsInOrder(lines) /\ LabelsBeforeThem(lines) /\ LabelAtTheEnd /\ NothingElse(lines)
LayoutInv == \E lines \in [1..i -> DOMAIN listing] : Layout(lines)

\* Before anything is written.
LEMMA LayoutOfNothing ==
    ASSUME i = 0, listing = <<>>, encoding # "done"
    PROVE  LayoutInv
<1> DEFINE none == [k \in 1..i |-> 1]
<1>1. 1..i = {} /\ DOMAIN listing = {}
  OBVIOUS
<1>2. none \in [1..i -> DOMAIN listing]
  BY <1>1
<1> HIDE DEF none
<1>3. Layout(none)
  BY <1>1, <1>2 DEF Layout, InstructionsInOrder, LabelsBeforeThem, LabelAtTheEnd, NothingElse
<1>4. QED
  BY <1>2, <1>3 DEF LayoutInv

\* A sequence followed by another and one more element.
LEMMA AppendBoth ==
    ASSUME NEW S, NEW s \in Seq(S), NEW t \in Seq(S), NEW e \in S
    PROVE  /\ Len(s \o t \o <<e>>) = Len(s) + Len(t) + 1
           /\ \A n \in 1..Len(s) : (s \o t \o <<e>>)[n] = s[n]
           /\ \A n \in 1..Len(t) : (s \o t \o <<e>>)[Len(s) + n] = t[n]
           /\ (s \o t \o <<e>>)[Len(s) + Len(t) + 1] = e
OBVIOUS

\* What has been laid out stays: the labels and the program no longer change.
LEMMA WrittenStays ==
    ASSUME UNCHANGED <<decoderVars, options>>
    PROVE  /\ \A offset : LabelsAt(offset)' = LabelsAt(offset)
           /\ \A offset : LabelOf(offset)' = LabelOf(offset)
           /\ \A k : IsLabelled(k)' <=> IsLabelled(k)
           /\ \A k : LineWritten(k)' = LineWritten(k)
<1>1. instructions' = instructions /\ jmpLabels' = jmpLabels /\ options' = options
  BY DEF decoderVars
<1>2. \A offset : LabelsAt(offset)' = LabelsAt(offset)
  BY <1>1 DEF LabelsAt
<1>3. \A offset : LabelOf(offset)' = LabelOf(offset)
  BY <1>1, <1>2 DEF LabelOf, LabelName
<1>4. \A k : IsLabelled(k)' <=> IsLabelled(k)
  BY <1>1, <1>2 DEF IsLabelled
<1>5. \A k : LineWritten(k)' = LineWritten(k)
  BY <1>1 DEF LineWritten, InstructionLine, EncodeBasicInstruction, AppendMemAcc, AppendMemory,
     DataNumber, AppendImm, LabelsAt, LabelName
<1>6. QED
  BY <1>2, <1>3, <1>4, <1>5

\* The label line in front of an instruction.
LEMMA LabelLineIs ==
    ASSUME DisassemblerInv
    PROVE  /\ LabelLine(byteIdx) \in Seq(Line)
           /\ LabelsAt(byteIdx) = {} => LabelLine(byteIdx) = <<>>
           /\ LabelsAt(byteIdx) # {} => Len(LabelLine(byteIdx)) = 1
                                          /\ LabelLine(byteIdx)[1] = LabelOf(byteIdx)
<1>1. LabelLine(byteIdx) \in Seq(Line)
  BY LabelLineType DEF DisassemblerInv, DecoderInv
<1>2. LabelsAt(byteIdx) = {} => LabelLine(byteIdx) = <<>>
  BY DEF LabelLine
<1>3. ASSUME LabelsAt(byteIdx) # {}
      PROVE  Len(LabelLine(byteIdx)) = 1 /\ LabelLine(byteIdx)[1] = LabelOf(byteIdx)
  <2> DEFINE line == LabelOf(byteIdx)
  <2>1. LabelLine(byteIdx) = <<line>>
    BY <1>3 DEF LabelLine, LabelOf
  <2> HIDE DEF line
  <2>2. QED
    BY <2>1 DEF line
<1>4. QED
  BY <1>1, <1>2, <1>3

LEMMA LayoutEncodeNext ==
    ASSUME DisassemblerInv, LayoutInv, EncodeNext, UNCHANGED decoderVars
    PROVE  LayoutInv'
<1> DEFINE inst == instructions[i + 1]
           line == InstructionLine(inst, byteIdx + inst.byteCount)
           mark == LabelLine(byteIdx)
           longer == listing \o mark \o <<line>>
<1>1. /\ instructions \in Seq(Instruction) /\ i \in Nat /\ listing \in Seq(Line)
      /\ byteIdx = StartOf(instructions, i + 1) /\ DecoderInv
  BY DEF DisassemblerInv, DecoderInv, DecoderTypeOK, EncoderInv, EncoderTypeOK
<1>2. /\ i < Len(instructions) /\ ~NoSuchName(inst) /\ listing' = longer
      /\ i' = i + 1 /\ options' = options /\ encoding = "encoding" /\ encoding' = "encoding"
  BY DEF EncodeNext
<1>3. i + 1 \in DOMAIN instructions
  BY <1>1, <1>2
<1>4. line = LineWritten(i + 1)
  BY <1>1 DEF LineWritten
<1>5. line \in Line
  BY <1>1, <1>2, <1>3, InstructionLineType
<1>6. /\ mark \in Seq(Line)
      /\ ~IsLabelled(i + 1) => mark = <<>>
      /\ IsLabelled(i + 1) => Len(mark) = 1 /\ mark[1] = LabelOf(byteIdx)
  BY <1>1, LabelLineIs DEF IsLabelled
<1> HIDE DEF inst, line, mark
<1>7. /\ Len(longer) = Len(listing) + Len(mark) + 1
      /\ \A n \in 1..Len(listing) : longer[n] = listing[n]
      /\ \A n \in 1..Len(mark) : longer[Len(listing) + n] = mark[n]
      /\ longer[Len(listing) + Len(mark) + 1] = line
  BY <1>1, <1>5, <1>6, AppendBoth
<1>8. DOMAIN longer = 1..Len(listing) + Len(mark) + 1
  <2>1. longer \in Seq(Line)
    BY <1>1, <1>5, <1>6
  <2> HIDE DEF longer
  <2>2. QED
    BY <1>7, <2>1
<1> HIDE DEF longer
<1>9. /\ Len(listing) \in Nat /\ DOMAIN listing = 1..Len(listing)
      /\ Len(mark) = IF IsLabelled(i + 1) THEN 1 ELSE 0
  BY <1>1, <1>6
<1>10. PICK lines \in [1..i -> DOMAIN listing] : Layout(lines)
  BY DEF LayoutInv
<1>11. /\ \A k, m \in 1..i : k < m => lines[k] < lines[m]
       /\ \A k \in 1..i : listing[lines[k]] = LineWritten(k)
       /\ \A k \in 1..i : IsLabelled(k) =>
             /\ lines[k] - 1 \in DOMAIN listing
             /\ listing[lines[k] - 1] = LabelOf(StartOf(instructions, k))
       /\ \A n \in DOMAIN listing :
             \/ \E k \in 1..i : n = lines[k]
             \/ \E k \in 1..i : IsLabelled(k) /\ n = lines[k] - 1
  BY <1>2, <1>10 DEF Layout, InstructionsInOrder, LabelsBeforeThem, NothingElse
<1>12. PICK new : new = [k \in 1..(i + 1) |-> IF k <= i THEN lines[k] ELSE Len(longer)]
  OBVIOUS
<1>13. /\ \A k \in 1..i : new[k] = lines[k] /\ new[k] \in 1..Len(listing)
       /\ new[i + 1] = Len(longer)
       /\ new \in [1..(i + 1) -> DOMAIN longer]
       /\ \A k \in 1..(i + 1) : k \in 1..i \/ k = i + 1
  <2>1. /\ \A k \in 1..i : k \in 1..(i + 1) /\ k <= i
        /\ i + 1 \in 1..(i + 1) /\ ~(i + 1 <= i)
        /\ \A k \in 1..(i + 1) : k \in 1..i \/ k = i + 1
    BY <1>1
  <2>2. \A k \in 1..i : lines[k] \in 1..Len(listing)
    BY <1>9, <1>10
  <2>3. \A n \in 1..Len(listing) : n \in DOMAIN longer
    BY <1>8, <1>9
  <2>4. Len(longer) \in DOMAIN longer
    BY <1>7, <1>8, <1>9
  <2>5. \A k \in 1..i : new[k] = lines[k]
    BY <1>12, <2>1
  <2>6. new[i + 1] = Len(longer)
    BY <1>12, <2>1
  <2>7. new \in [1..(i + 1) -> DOMAIN longer]
    BY <1>12, <2>1, <2>2, <2>3, <2>4
  <2>8. QED
    BY <2>1, <2>2, <2>5, <2>6, <2>7
<1>14. \A k, m \in 1..(i + 1) : k < m => new[k] < new[m]
  <2> SUFFICES ASSUME NEW k \in 1..(i + 1), NEW m \in 1..(i + 1), k < m
               PROVE  new[k] < new[m]
    OBVIOUS
  <2>1. k \in 1..i
    BY <1>1
  <2>2. CASE m \in 1..i
    BY <1>11, <1>13, <2>1, <2>2
  <2>3. CASE m = i + 1
    BY <1>7, <1>9, <1>13, <2>1, <2>3
  <2>4. QED
    BY <1>13, <2>2, <2>3
<1>15. \A k \in 1..(i + 1) : longer[new[k]] = LineWritten(k)
  BY <1>4, <1>7, <1>9, <1>11, <1>13
<1>16. ASSUME NEW k \in 1..(i + 1), IsLabelled(k)
       PROVE  new[k] - 1 \in DOMAIN longer /\ longer[new[k] - 1] = LabelOf(StartOf(instructions, k))
  <2>1. CASE k \in 1..i
    BY <1>7, <1>8, <1>9, <1>11, <1>13, <1>16, <2>1
  <2>2. CASE k = i + 1
    BY <1>1, <1>6, <1>7, <1>8, <1>9, <1>13, <1>16, <2>2
  <2>3. QED
    BY <1>13, <2>1, <2>2
<1>17. ASSUME NEW n \in DOMAIN longer
       PROVE  \/ \E k \in 1..(i + 1) : n = new[k]
              \/ \E k \in 1..(i + 1) : IsLabelled(k) /\ n = new[k] - 1
  <2>1. CASE n \in DOMAIN listing
    BY <1>1, <1>11, <1>13, <2>1
  <2>2. CASE n = Len(longer)
    BY <1>1, <1>13, <2>2
  <2>3. CASE n \notin DOMAIN listing /\ n # Len(longer)
    <3>1. IsLabelled(i + 1) /\ n = Len(longer) - 1
      BY <1>7, <1>8, <1>9, <2>3
    <3>2. QED
      BY <1>1, <1>13, <3>1
  <2>4. QED
    BY <2>1, <2>2, <2>3
<1>18. UNCHANGED <<decoderVars, options>> /\ instructions' = instructions
  BY <1>2 DEF decoderVars
<1>19. Layout(new)'
  <2>1. InstructionsInOrder(new)'
    BY <1>2, <1>13, <1>14, <1>15, <1>18, WrittenStays DEF InstructionsInOrder
  <2>2. LabelsBeforeThem(new)'
    BY <1>2, <1>16, <1>18, WrittenStays DEF LabelsBeforeThem
  <2>3. LabelAtTheEnd'
    BY <1>2 DEF LabelAtTheEnd
  <2>4. NothingElse(new)'
    BY <1>2, <1>17, <1>18, WrittenStays DEF NothingElse
  <2>5. QED
    BY <2>1, <2>2, <2>3, <2>4 DEF Layout
<1>20. new \in [1..i' -> DOMAIN listing']
  BY <1>2, <1>13
<1>21. QED
  BY <1>19, <1>20 DEF LayoutInv

LEMMA LayoutEncodeEnd ==
    ASSUME DisassemblerInv, LayoutInv, EncodeEnd, UNCHANGED decoderVars
    PROVE  LayoutInv'
<1> DEFINE mark == LabelLine(byteIdx)
           longer == listing \o mark
<1>1. /\ i \in Nat /\ listing \in Seq(Line) /\ byteIdx' = byteIdx /\ i = Len(instructions)
      /\ i' = i /\ options' = options /\ encoding = "encoding" /\ encoding' = "done"
      /\ listing' = longer
  <2>1. instructions \in Seq(Instruction) /\ listing \in Seq(Line)
    BY DEF DisassemblerInv, DecoderInv, DecoderTypeOK, EncoderInv, EncoderTypeOK
  <2>2. /\ byteIdx' = byteIdx /\ i = Len(instructions) /\ i' = i /\ options' = options
        /\ encoding = "encoding" /\ encoding' = "done" /\ listing' = longer
    BY DEF EncodeEnd
  <2> HIDE DEF longer
  <2>3. QED
    BY <2>1, <2>2
<1>2. /\ mark \in Seq(Line)
      /\ LabelsAt(byteIdx) = {} => mark = <<>>
      /\ LabelsAt(byteIdx) # {} => Len(mark) = 1 /\ mark[1] = LabelOf(byteIdx)
  BY LabelLineIs
<1> HIDE DEF mark
<1>3. /\ Len(longer) = Len(listing) + Len(mark) /\ DOMAIN longer = 1..Len(listing) + Len(mark)
      /\ \A n \in 1..Len(listing) : longer[n] = listing[n]
      /\ \A n \in 1..Len(mark) : longer[Len(listing) + n] = mark[n]
      /\ Len(listing) \in Nat /\ DOMAIN listing = 1..Len(listing) /\ Len(mark) \in Nat
      /\ LabelsAt(byteIdx) = {} => Len(mark) = 0
      /\ LabelsAt(byteIdx) # {} => Len(mark) = 1
  <2>1. /\ longer \in Seq(Line) /\ Len(longer) = Len(listing) + Len(mark)
        /\ \A n \in 1..Len(listing) : longer[n] = listing[n]
        /\ \A n \in 1..Len(mark) : longer[Len(listing) + n] = mark[n]
    BY <1>1, <1>2
  <2>2. /\ Len(listing) \in Nat /\ DOMAIN listing = 1..Len(listing) /\ Len(mark) \in Nat
        /\ LabelsAt(byteIdx) = {} => Len(mark) = 0
        /\ LabelsAt(byteIdx) # {} => Len(mark) = 1
    BY <1>1, <1>2
  <2> HIDE DEF longer
  <2>3. DOMAIN longer = 1..Len(listing) + Len(mark)
    BY <2>1
  <2>4. QED
    BY <2>1, <2>2, <2>3
<1> HIDE DEF longer
<1>4. PICK lines \in [1..i -> DOMAIN listing] : Layout(lines)
  BY DEF LayoutInv
<1>5. UNCHANGED <<decoderVars, options>> /\ instructions' = instructions
  BY <1>1 DEF decoderVars
<1>6. LabelsAt(byteIdx)' = LabelsAt(byteIdx) /\ LabelOf(byteIdx)' = LabelOf(byteIdx)
  BY <1>1, <1>5 DEF decoderVars, LabelsAt, LabelOf, LabelName
<1>7. \A n \in DOMAIN listing : n \in DOMAIN longer
  BY <1>3
<1>8. lines \in [1..i -> DOMAIN longer]
  BY <1>4, <1>7
<1>9. Layout(lines)'
  <2>1. InstructionsInOrder(lines)'
    BY <1>1, <1>3, <1>4, <1>5, <1>8, WrittenStays DEF Layout, InstructionsInOrder
  <2>2. LabelsBeforeThem(lines)'
    BY <1>1, <1>3, <1>4, <1>5, <1>7, WrittenStays DEF Layout, LabelsBeforeThem
  <2>3. LabelAtTheEnd'
    <3>1. i = Len(instructions) /\ (LabelsAt(byteIdx) # {} =>
             Len(longer) \in DOMAIN longer /\ longer[Len(longer)] = LabelOf(byteIdx))
      BY <1>1, <1>2, <1>3
    <3>2. QED
      BY <1>1, <1>5, <1>6, <3>1 DEF LabelAtTheEnd
  <2>4. NothingElse(lines)'
    <3>1. ASSUME NEW n \in DOMAIN longer
          PROVE  \/ \E k \in 1..i : n = lines[k]
                 \/ \E k \in 1..i : IsLabelled(k) /\ n = lines[k] - 1
                 \/ LabelsAt(byteIdx) # {} /\ n = Len(longer)
      <4>1. CASE n \in DOMAIN listing
        BY <1>1, <1>4, <4>1 DEF Layout, NothingElse
      <4>2. CASE n \notin DOMAIN listing
        <5>1. Len(mark) = 1 /\ n = Len(longer)
          BY <1>3, <4>2
        <5>2. LabelsAt(byteIdx) # {}
          BY <1>3, <5>1
        <5>3. QED
          BY <5>1, <5>2
      <4>3. QED
        BY <4>1, <4>2
    <3>2. QED
      BY <1>1, <1>5, <1>6, <3>1, WrittenStays DEF NothingElse
  <2>5. QED
    BY <2>1, <2>2, <2>3, <2>4 DEF Layout
<1>10. QED
  BY <1>1, <1>8, <1>9 DEF LayoutInv

\* A step that leaves the listing where it is.
LEMMA LayoutStays ==
    ASSUME LayoutInv, (encoding' = encoding) \/ (encoding' # "done" /\ encoding # "done"),
           UNCHANGED <<decoderVars, options, i, byteIdx, listing>>
    PROVE  LayoutInv'
<1>1. PICK lines \in [1..i -> DOMAIN listing] : Layout(lines)
  BY DEF LayoutInv
<1>2. /\ UNCHANGED <<decoderVars, options>> /\ i' = i /\ listing' = listing /\ byteIdx' = byteIdx
      /\ instructions' = instructions
  BY DEF decoderVars
<1>3. LabelsAt(byteIdx)' = LabelsAt(byteIdx) /\ LabelOf(byteIdx)' = LabelOf(byteIdx)
  BY <1>2 DEF decoderVars, LabelsAt, LabelOf, LabelName
<1>4. InstructionsInOrder(lines)' /\ LabelsBeforeThem(lines)'
  BY <1>1, <1>2, WrittenStays DEF Layout, InstructionsInOrder, LabelsBeforeThem
<1>5. LabelAtTheEnd'
  BY <1>1, <1>2, <1>3 DEF Layout, LabelAtTheEnd
<1>6. CASE encoding' = encoding
  <2>1. NothingElse(lines)'
    BY <1>1, <1>2, <1>3, <1>6, WrittenStays DEF Layout, NothingElse
  <2>2. QED
    BY <1>1, <1>2, <1>4, <1>5, <2>1 DEF Layout, LayoutInv
<1>7. CASE encoding' # "done" /\ encoding # "done"
  <2>1. NothingElse(lines)'
    BY <1>1, <1>2, <1>3, <1>7, WrittenStays DEF Layout, NothingElse
  <2>2. QED
    BY <1>1, <1>2, <1>4, <1>5, <2>1 DEF Layout, LayoutInv
<1>8. QED
  BY <1>6, <1>7

\* The encoder keeps the layout.
LEMMA LayoutEncode ==
    ASSUME DisassemblerInv, LayoutInv, EncoderNext
    PROVE  LayoutInv'
<1>1. CASE EncodeNext
  BY <1>1, LayoutEncodeNext DEF EncoderNext
<1>2. CASE UndefinedName
  BY <1>2, LayoutStays DEF EncoderNext, UndefinedName
<1>3. CASE EncodeEnd
  BY <1>3, LayoutEncodeEnd DEF EncoderNext
<1>4. QED
  BY <1>1, <1>2, <1>3 DEF EncoderNext

-----------------------------------------------------------------------------
(***************************************************************************)
(* LineOf counts; the layout says where its count ends.                    *)
(***************************************************************************)
LEMMA LinesAreTold ==
    ASSUME LayoutInv, i \in Nat, NEW lines \in [1..i -> DOMAIN listing], Layout(lines)
    PROVE  /\ InstructionLines = {lines[k] : k \in 1..i}
           /\ \A n \in LabelLines :
                 \/ \E k \in 1..i : IsLabelled(k) /\ n = lines[k] - 1
                 \/ encoding = "done" /\ LabelsAt(byteIdx) # {} /\ n = Len(listing)
           /\ \A k \in 1..i : IsLabelled(k) => lines[k] - 1 \in LabelLines
           /\ encoding = "done" /\ LabelsAt(byteIdx) # {} => Len(listing) \in LabelLines
<1>1. \A k : "label" \notin DOMAIN LineWritten(k)
  BY DEF LineWritten, InstructionLine
<1>2. \A offset : "label" \in DOMAIN LabelOf(offset)
  BY DEF LabelOf
<1>3. \A k \in 1..i : lines[k] \in DOMAIN listing \ LabelLines
  BY <1>1 DEF Layout, InstructionsInOrder, LabelLines
<1>4. \A k \in 1..i : IsLabelled(k) => lines[k] - 1 \in LabelLines
  BY <1>2 DEF Layout, LabelsBeforeThem, LabelLines
<1>5. encoding = "done" /\ LabelsAt(byteIdx) # {} => Len(listing) \in LabelLines
  BY <1>2 DEF Layout, LabelAtTheEnd, LabelLines
<1>6. \A n \in DOMAIN listing :
         \/ \E k \in 1..i : n = lines[k]
         \/ \E k \in 1..i : IsLabelled(k) /\ n = lines[k] - 1
         \/ encoding = "done" /\ LabelsAt(byteIdx) # {} /\ n = Len(listing)
  BY DEF Layout, NothingElse
<1>7. LabelLines \subseteq DOMAIN listing
  BY DEF LabelLines
<1>8. QED
  BY <1>3, <1>4, <1>5, <1>6, <1>7 DEF InstructionLines

LEMMA LineIsWhereItIs ==
    ASSUME LayoutInv, i \in Nat, listing \in Seq(Line),
           NEW lines \in [1..i -> DOMAIN listing], Layout(lines), NEW k \in 1..i
    PROVE  LineOf(k) = lines[k]
<1>1. InstructionLines = {lines[m] : m \in 1..i}
  BY LinesAreTold
<1>2. \A l, m \in 1..i : l < m => lines[l] < lines[m]
  BY DEF Layout, InstructionsInOrder
<1>3. \A m \in 1..i : lines[m] \in Nat /\ lines[m] >= 1
  BY DOMAIN listing \subseteq Nat \ {0}
<1>4. ASSUME NEW m \in 1..i
      PROVE  Cardinality(InstructionLines \cap 1..lines[m]) = m
  <2> DEFINE upTo == InstructionLines \cap 1..lines[m]
             f == [l \in 1..m |-> lines[l]]
  <2>1. \A l \in 1..i : lines[l] <= lines[m] <=> l <= m
    BY <1>2, <1>3
  <2>2. \A l \in 1..m : l \in 1..i
    OBVIOUS
  <2>3. upTo = {lines[l] : l \in 1..m}
    BY <1>1, <1>3, <2>1, <2>2
  <2>4. ASSUME NEW l \in 1..m, NEW n \in 1..m, lines[l] = lines[n]
        PROVE  l = n
    <3>1. l \in 1..i /\ n \in 1..i /\ l \in Int /\ n \in Int /\ lines[l] \in Int
      BY <1>3, <2>2
    <3>2. ~(l < n) /\ ~(n < l)
      BY <1>2, <2>4, <3>1
    <3>3. QED
      BY <3>1, <3>2
  <2>5. f \in Bijection(1..m, upTo)
    BY <2>3, <2>4 DEF Bijection, Injection, Surjection, IsInjective
  <2>6. ExistsBijection(1..m, upTo)
    BY <2>5 DEF ExistsBijection
  <2>7. IsFiniteSet(1..m) /\ Cardinality(1..m) = m
    BY FS_Interval
  <2> HIDE DEF upTo
  <2>8. Cardinality(upTo) = Cardinality(1..m)
    BY <2>6, <2>7, FS_Bijection
  <2>9. QED
    BY <2>7, <2>8 DEF upTo
<1>5. lines[k] \in InstructionLines /\ Cardinality(InstructionLines \cap 1..lines[k]) = k
  BY <1>1, <1>4
<1>6. \A n \in InstructionLines : Cardinality(InstructionLines \cap 1..n) = k => n = lines[k]
  BY <1>1, <1>4
<1>7. QED
  BY <1>5, <1>6 DEF LineOf

-----------------------------------------------------------------------------
(***************************************************************************)
(* The layout is kept: there is no listing before the program is decoded.  *)
(***************************************************************************)
ListingWaits == decoding # "done" => i = 0 /\ listing = <<>> /\ encoding = "encoding"

LEMMA LayoutInvInit == DisassemblerInit => LayoutInv /\ ListingWaits
<1> SUFFICES ASSUME DisassemblerInit PROVE LayoutInv /\ ListingWaits
  OBVIOUS
<1>1. i = 0 /\ listing = <<>> /\ encoding = "encoding"
  BY DEF DisassemblerInit, EncoderInit
<1>2. QED
  BY <1>1, LayoutOfNothing DEF ListingWaits

LEMMA LayoutDecode ==
    ASSUME ListingWaits, DecoderNext, UNCHANGED encoderVars
    PROVE  LayoutInv' /\ ListingWaits'
<1>1. decoding # "done"
  BY DEF DecoderNext, DecodeNext, PanicOnOpcode, PanicOnRegField, AssertOnTruncation, Finish, IsDecoding
<1>2. i' = 0 /\ listing' = <<>> /\ encoding' = "encoding"
  BY <1>1 DEF ListingWaits, encoderVars
<1> DEFINE none == [k \in 1..0 |-> 1]
<1>3. 1..i' = {} /\ DOMAIN listing' = {} /\ 1..0 = {}
  BY <1>2
<1>4. none \in [1..i' -> DOMAIN listing']
  BY <1>3
<1> HIDE DEF none
<1>5. Layout(none)'
  BY <1>2, <1>3, <1>4 DEF Layout, InstructionsInOrder, LabelsBeforeThem, LabelAtTheEnd, NothingElse
<1>6. QED
  BY <1>2, <1>4, <1>5 DEF LayoutInv, ListingWaits

LEMMA LayoutInvNext ==
    DisassemblerInv /\ LayoutInv /\ ListingWaits /\ [DisassemblerNext]_<<decoderVars, encoderVars>>
      => LayoutInv' /\ ListingWaits'
<1> SUFFICES ASSUME DisassemblerInv, LayoutInv, ListingWaits,
                    [DisassemblerNext]_<<decoderVars, encoderVars>>
             PROVE  LayoutInv' /\ ListingWaits'
  OBVIOUS
<1>1. CASE Decode
  BY <1>1, LayoutDecode DEF Decode
<1>2. CASE Encode
  <2>1. EncoderNext /\ decoding = "done" /\ decoding' = decoding
    BY <1>2 DEF Encode, EncoderNext, decoderVars
  <2>2. QED
    BY <2>1, LayoutEncode DEF ListingWaits
<1>3. CASE UNCHANGED <<decoderVars, encoderVars>>
  <2>1. /\ UNCHANGED <<decoderVars, options, i, byteIdx, listing>> /\ encoding' = encoding
        /\ decoding' = decoding
    BY <1>3 DEF decoderVars, encoderVars
  <2>2. LayoutInv'
    BY <2>1, LayoutStays
  <2>3. QED
    BY <2>1, <2>2 DEF ListingWaits
<1>4. QED
  BY <1>1, <1>2, <1>3 DEF DisassemblerNext

\* What every finished listing is like.
LEMMA ListingKeepsItsLayout == DisassemblerSpec => [](DisassemblerInv /\ LayoutInv)
<1>1. DisassemblerInit => DisassemblerInv /\ LayoutInv /\ ListingWaits
  BY EncoderInvInit, LayoutInvInit
<1>2. DisassemblerInv /\ LayoutInv /\ ListingWaits /\ [DisassemblerNext]_<<decoderVars, encoderVars>>
        => (DisassemblerInv /\ LayoutInv /\ ListingWaits)'
  BY DisassemblerInvNext, LayoutInvNext
<1>3. QED
  BY <1>1, <1>2, PTL DEF DisassemblerSpec

\* The first of some labels is one of them.
LEMMA FirstLabel ==
    ASSUME DecoderTypeOK, NEW offset, LabelsAt(offset) # {}
    PROVE  Min(LabelsAt(offset)) \in LabelsAt(offset)
<1>1. LabelsAt(offset) \subseteq Nat
  BY DEF LabelsAt, DecoderTypeOK
<1>2. \E least \in LabelsAt(offset) : \A other \in LabelsAt(offset) : least <= other
  BY <1>1, LeastNumber
<1>3. QED
  BY <1>2 DEF Min

LEMMA SmallRemainder ==
    ASSUME NEW n \in Nat \ {0}, NEW v \in 0..n - 1
    PROVE  v % n = v
<1>1. v \in Nat /\ n \in Nat /\ n > 0 /\ v < n /\ v = n * 0 + v
  OBVIOUS
<1>2. QED
  BY <1>1

\* As long as the numbers last, a name stands for one offset.
LEMMA NamesDiffer ==
    ASSUME DecoderInv, Len(jmpLabels) <= LabelNumbers, NEW a, NEW b,
           LabelsAt(a) # {}, LabelsAt(b) # {},
           LabelName(Min(LabelsAt(a))) = LabelName(Min(LabelsAt(b)))
    PROVE  a = b
<1>1. DecoderTypeOK
  BY DEF DecoderInv
<1>2. Min(LabelsAt(a)) \in LabelsAt(a)
  BY <1>1, FirstLabel
<1>3. Min(LabelsAt(a)) \in LabelsAt(a) /\ Min(LabelsAt(b)) \in LabelsAt(b)
  BY <1>1, <1>2, FirstLabel
<1>4. PICK l \in DOMAIN jmpLabels : l = Min(LabelsAt(a)) /\ jmpLabels[l].byteOffset = a
  BY <1>3 DEF LabelsAt
<1>5. PICK m \in DOMAIN jmpLabels : m = Min(LabelsAt(b)) /\ jmpLabels[m].byteOffset = b
  BY <1>3 DEF LabelsAt
<1>6. l \in 1..Len(jmpLabels) /\ m \in 1..Len(jmpLabels) /\ Len(jmpLabels) \in Nat
  <2>1. jmpLabels \in Seq([byteOffset : Int, labelIdx : Nat])
    BY <1>1 DEF DecoderTypeOK
  <2>2. QED
    BY <2>1
<1>7. jmpLabels[l].labelIdx = l - 1 /\ jmpLabels[m].labelIdx = m - 1
  BY DEF DecoderInv, LabelsFit, LabelsAreNumbered
<1>8. LabelNumbers \in Nat \ {0}
  BY EncoderConstants
<1>9. l - 1 \in 0..LabelNumbers - 1 /\ m - 1 \in 0..LabelNumbers - 1
  BY <1>6, <1>8
<1>10. (l - 1) % LabelNumbers = l - 1 /\ (m - 1) % LabelNumbers = m - 1
  BY <1>8, <1>9, SmallRemainder
<1>11. (l - 1) % LabelNumbers = (m - 1) % LabelNumbers
  BY <1>4, <1>5, <1>7 DEF LabelName
<1>12. l = m
  BY <1>6, <1>10, <1>11
<1>13. QED
  BY <1>4, <1>5, <1>12

\* The name a jump is listed with, and the places that define it.
LEMMA LabelsAreInPlace ==
    ASSUME DisassemblerInv, LayoutInv, Listed, NEW k \in DecodedJumps
    PROVE  LET name    == listing[LineOf(k)].operands[1][2]
               defined == {n \in LabelLines : listing[n].label = name}
               targets == {t \in 1..(Len(instructions) + 1) : IsTarget(k, t)}
               places  == {IF t = Len(instructions) + 1 THEN Len(listing)
                                                        ELSE LineOf(t) - 1 : t \in targets}
           IN  /\ places \subseteq defined
               /\ Len(jmpLabels) <= LabelNumbers => defined = places
<1> DEFINE offset == TargetOf(k)
           place(t) == IF t = Len(instructions) + 1 THEN Len(listing) ELSE LineOf(t) - 1
           name == listing[LineOf(k)].operands[1][2]
           defined == {n \in LabelLines : listing[n].label = name}
           targets == {t \in 1..(Len(instructions) + 1) : IsTarget(k, t)}
<1>1. /\ DecoderInv /\ instructions \in Seq(Instruction) /\ listing \in Seq(Line)
      /\ Len(instructions) \in Nat /\ DOMAIN instructions = 1..Len(instructions)
      /\ byteIdx = StartOf(instructions, i + 1)
  BY DEF DisassemblerInv, DecoderInv, DecoderTypeOK, EncoderInv, EncoderTypeOK
<1>2. PICK lines \in [1..i -> DOMAIN listing] : Layout(lines)
  BY DEF LayoutInv
<1>3. encoding = "done" /\ i = Len(instructions) /\ i \in Nat
  BY <1>1, <1>2 DEF Listed, Layout, LabelAtTheEnd
<1>4. k \in 1..i /\ k \in DOMAIN instructions /\ instructions[k].operands = "ShortLabel"
  BY <1>1, <1>3 DEF DecodedJumps
<1>5. \A m \in 1..i : LineOf(m) = lines[m]
  BY <1>1, <1>2, <1>3, LineIsWhereItIs
<1>6. /\ \A n \in LabelLines :
            \/ \E m \in 1..i : IsLabelled(m) /\ n = lines[m] - 1
            \/ LabelsAt(byteIdx) # {} /\ n = Len(listing)
      /\ \A m \in 1..i : IsLabelled(m) => lines[m] - 1 \in LabelLines
      /\ LabelsAt(byteIdx) # {} => Len(listing) \in LabelLines
  BY <1>2, <1>3, LinesAreTold
<1>7. /\ \A m \in 1..i : listing[lines[m]] = LineWritten(m)
      /\ \A m \in 1..i : IsLabelled(m) => listing[lines[m] - 1] = LabelOf(StartOf(instructions, m))
      /\ LabelsAt(byteIdx) # {} => listing[Len(listing)] = LabelOf(byteIdx)
  BY <1>2, <1>3 DEF Layout, InstructionsInOrder, LabelsBeforeThem, LabelAtTheEnd
<1>8. \A o : LabelOf(o).label = LabelName(Min(LabelsAt(o)))
  BY DEF LabelOf
<1>9. LabelsAt(offset) # {} /\ name = LabelName(Min(LabelsAt(offset)))
  <2> DEFINE inst == instructions[k]
             end == StartOf(instructions, k) + inst.byteCount
  <2>1. offset = end + ToI8(inst.data[1])
    BY <1>1, <1>4, StartOfAddsUp DEF TargetOf
  <2>2. LabelsAt(end + ToI8(inst.data[1])) # {}
    BY <1>1, <1>4, JumpIsFound
  <2>3. LineWritten(k).operands = << <<"label", LabelName(Min(LabelsAt(end + ToI8(inst.data[1]))))>> >>
    BY <1>4, <2>2 DEF LineWritten, InstructionLine
  <2>4. name = LabelName(Min(LabelsAt(end + ToI8(inst.data[1]))))
    BY <1>4, <1>5, <1>7, <2>3
  <2> HIDE DEF name, offset, inst, end
  <2>5. QED
    BY <2>1, <2>2, <2>4
<1>10. \A t : IsTarget(k, t) <=> offset = StartOf(instructions, t)
  BY DEF IsTarget
<1> HIDE DEF name, offset
<1>11. Len(jmpLabels) <= LabelNumbers =>
         \A o : LabelsAt(o) # {} /\ LabelOf(o).label = name => o = offset
  BY <1>1, <1>8, <1>9, NamesDiffer
<1>12. ASSUME Len(jmpLabels) <= LabelNumbers, NEW n \in defined
       PROVE  \E t \in targets : n = place(t)
  <2>1. n \in LabelLines /\ listing[n].label = name
    OBVIOUS
  <2>2. CASE LabelsAt(byteIdx) # {} /\ n = Len(listing)
    <3>1. offset = StartOf(instructions, i + 1)
      BY <1>1, <1>7, <1>11, <1>12, <2>1, <2>2
    <3>2. i + 1 \in targets
      BY <1>1, <1>3, <1>10, <3>1
    <3>3. QED
      BY <1>3, <2>2, <3>2
  <2>3. ASSUME NEW m \in 1..i, IsLabelled(m), n = lines[m] - 1
        PROVE  \E t \in targets : n = place(t)
    <3>1. offset = StartOf(instructions, m)
      BY <1>7, <1>11, <1>12, <2>1, <2>3 DEF IsLabelled
    <3>2. m \in targets /\ m # Len(instructions) + 1
      BY <1>1, <1>3, <1>10, <3>1
    <3>3. n = place(m)
      BY <1>5, <2>3, <3>2
    <3>4. QED
      BY <3>2, <3>3
  <2>4. QED
    BY <1>6, <2>1, <2>2, <2>3
<1>13. ASSUME NEW t \in targets
       PROVE  place(t) \in defined
  <2>1. t \in 1..(i + 1) /\ offset = StartOf(instructions, t)
    BY <1>3, <1>10
  <2>2. CASE t = i + 1
    <3>1. LabelsAt(byteIdx) # {} /\ LabelOf(byteIdx).label = name
      BY <1>1, <1>8, <1>9, <2>1, <2>2
    <3>2. Len(listing) \in LabelLines /\ listing[Len(listing)].label = name
      BY <1>6, <1>7, <3>1
    <3>3. QED
      BY <1>3, <2>2, <3>2
  <2>3. CASE t # i + 1
    <3>1. t \in 1..i
      BY <1>3, <2>1, <2>3
    <3>2. IsLabelled(t) /\ LabelOf(StartOf(instructions, t)).label = name
      BY <1>8, <1>9, <2>1 DEF IsLabelled
    <3>3. lines[t] - 1 \in LabelLines /\ listing[lines[t] - 1].label = name
      BY <1>6, <1>7, <3>1, <3>2
    <3>4. place(t) = lines[t] - 1
      BY <1>3, <1>5, <2>3, <3>1
    <3>5. QED
      BY <3>3, <3>4
  <2>4. QED
    BY <2>2, <2>3
<1>14. /\ {place(t) : t \in targets} \subseteq defined
       /\ Len(jmpLabels) <= LabelNumbers => defined = {place(t) : t \in targets}
  <2> HIDE DEF defined, targets, place
  <2>1. Len(jmpLabels) <= LabelNumbers => defined \subseteq {place(t) : t \in targets}
    BY <1>12
  <2>2. {place(t) : t \in targets} \subseteq defined
    BY <1>13
  <2>3. QED
    BY <2>1, <2>2
<1>15. QED
  BY <1>14 DEF name, defined, targets, place

\* In a finished listing the name a jump is written with is defined where the
\* jump goes: on the line before that instruction, or at the end, or nowhere
\* when the jump goes into an instruction; while the numbers of labels last it
\* is defined nowhere else (encodeAsm8086).
THEOREM LabelsAreWhereTheJumpsGo == DisassemblerSpec => []LabelsMarkTheirTargets
<1>1. DisassemblerInv /\ LayoutInv => LabelsMarkTheirTargets
  <2>1. SUFFICES ASSUME DisassemblerInv, LayoutInv PROVE LabelsMarkTheirTargets
    OBVIOUS
  <2>2. QED
    BY <2>1, LabelsAreInPlace, Zenon DEF LabelsMarkTheirTargets
<1>2. QED
  BY <1>1, ListingKeepsItsLayout, PTL

-----------------------------------------------------------------------------
(***************************************************************************)
(* The numbers of the listing.                                             *)
(***************************************************************************)
\* A number of one byte has no second byte.
OneByteNumbers(inst) ==
    /\ inst.mod = 1 => inst.disp[2] = 0
    /\ inst.w = 1 /\ inst.s = 1 => inst.data[2] = 0

LEMMA DecodedNumbers ==
    ASSUME NEW array \in Seq(Byte), NEW at \in Nat, at + 2 <= Len(array),
           OpcodeDecode(array[at + 1]) # NoOpcode
    PROVE  OneByteNumbers(DecodeInstruction(array, at))
<1> DEFINE inst == DecodeInstruction(array, at)
           o == OpcodeDecode(array[at + 1])
           h == HeaderBytes(inst)
           p == DispLengthOf(inst)
           q == DataLengthOf(inst)
<1>1. inst.disp = LowHigh(array, at + h, p) /\ inst.data = LowHigh(array, at + h + p, q)
  BY DecodedBytes
<1>2. \A from, n : n \in {0, 1} => LowHigh(array, from, n)[2] = 0
  BY DEF LowHigh
<1>3. /\ inst.opcode = o
      /\ inst.mod = IF o \in ModRegRmOpcodes THEN (array[at + 2] \div 64) % 4 ELSE 4
      /\ inst.s = IF o = IMM_TO_FROM_REG_OR_MEM THEN (array[at + 1] \div 2) % 2 ELSE 0
  BY DecodedFields
<1> HIDE DEF inst, o
<1>4. inst.mod = 1 => p = 1
  BY <1>3 DEF DispLengthOf
<1>5. inst.s = 1 => q = 1
  <2>1. inst.s = 1 => inst.opcode = IMM_TO_FROM_REG_OR_MEM
    BY <1>3
  <2>2. inst.opcode = IMM_TO_FROM_REG_OR_MEM =>
          /\ inst.opcode \notin RegMemOpcodes /\ inst.opcode \notin SegmentOpcodes
          /\ inst.opcode \notin AccumulatorMemory /\ inst.opcode \notin JumpOpcodes
    BY ClassesApart, Zenon
  <2>3. QED
    BY <2>1, <2>2 DEF DataLengthOf
<1> HIDE DEF h, p, q
<1>6. /\ inst.mod = 1 => inst.disp[2] = 0
      /\ inst.s = 1 => inst.data[2] = 0
  BY <1>1, <1>2, <1>4, <1>5
<1>7. QED
  BY <1>6 DEF OneByteNumbers, inst

\* An address with nothing but a base has no displacement, and the d bit of an
\* accumulator move, which the listing goes by, is the one of its operands,
\* which the emulator goes by.
FieldsAgree(inst) ==
    /\ inst.mod = 0 /\ inst.rm # 6 => inst.disp = <<0, 0>>
    /\ inst.operands = "Accumulator_Memory" => inst.d = 1
    /\ inst.operands = "Memory_Accumulator" => inst.d = 0

\* The opcodes of the accumulator moves, by their operands.
LEMMA AccumulatorOpcodes ==
    ASSUME NEW o \in Opcode, NEW mod \in Mod, NEW d
    PROVE  LET operands == OperandsOfOpcode(o, mod, d) IN
           /\ operands \in {"Accumulator_Memory", "Memory_Accumulator"} => o \in AccumulatorMemory
           /\ o = MOV_MEM_TO_ACC => operands = "Memory_Accumulator"
           /\ o = MOV_ACC_TO_MEM => operands = "Accumulator_Memory"
<1> DEFINE operands == OperandsOfOpcode(o, mod, d)
<1>1. /\ o \in JumpOpcodes => operands = "ShortLabel"
      /\ o \in RegMemOpcodes =>
            operands = IF mod = 3 THEN "Register_Register"
                       ELSE IF d = 1 THEN "Memory_Register" ELSE "Register_Memory"
      /\ o \in {IMM_TO_FROM_REG_OR_MEM, MOV_IMM_TO_REG_OR_MEM} =>
            operands = IF mod \in 0..2 THEN "Memory_Immediate" ELSE "Register_Immediate"
      /\ o = MOV_IMM_TO_REG => operands = "Register_Immediate"
      /\ o \in ImmediateToAccumulator => operands = "Accumulator_Immediate"
      /\ o \in SegmentOpcodes =>
            operands \in IF mod = 3 THEN {"Register16_SegReg", "SegReg_Register16"}
                                    ELSE {"Memory_SegReg", "SegReg_Memory16"}
      /\ o = MOV_MEM_TO_ACC => operands = "Memory_Accumulator"
      /\ o = MOV_ACC_TO_MEM => operands = "Accumulator_Memory"
  BY OperandsAre
<1> HIDE DEF operands
<1>2. \/ o \in JumpOpcodes \/ o \in RegMemOpcodes \/ o \in {IMM_TO_FROM_REG_OR_MEM, MOV_IMM_TO_REG_OR_MEM}
      \/ o = MOV_IMM_TO_REG \/ o \in ImmediateToAccumulator \/ o \in SegmentOpcodes
      \/ o \in AccumulatorMemory
  BY OpcodesApart
<1>3. operands \in {"Accumulator_Memory", "Memory_Accumulator"} => o \in AccumulatorMemory
  BY <1>1, <1>2
<1>4. QED
  BY <1>1, <1>3 DEF operands

LEMMA DecodedFieldsAgree ==
    ASSUME NEW array \in Seq(Byte), NEW at \in Nat, at + 2 <= Len(array),
           OpcodeDecode(array[at + 1]) # NoOpcode, DecodeInstruction(array, at) \in Instruction
    PROVE  FieldsAgree(DecodeInstruction(array, at))
<1> DEFINE inst == DecodeInstruction(array, at)
           o == OpcodeDecode(array[at + 1])
           first == array[at + 1]
           h == HeaderBytes(inst)
           p == DispLengthOf(inst)
<1>1. inst.disp = LowHigh(array, at + h, p)
  BY DecodedBytes
<1>2. \A from : LowHigh(array, from, 0) = <<0, 0>>
  BY DEF LowHigh
<1>3. /\ o \in Opcode /\ inst.opcode = o
      /\ inst.d = IF o \in RegMemOpcodes \cup AccumulatorMemory \cup ImmediateToAccumulator
                  THEN (first \div 2) % 2 ELSE 0
      /\ inst.mod = IF o \in ModRegRmOpcodes THEN (array[at + 2] \div 64) % 4 ELSE 4
  BY DecodedFields
<1>4. inst.operands = OperandsOfOpcode(o, inst.mod, inst.d) /\ inst.mod \in Mod
  BY InstructionTypes DEF DecodeInstruction
<1>5. first \in Byte
  <2>1. at + 1 \in 1..Len(array)
    OBVIOUS
  <2>2. QED
    BY <2>1
<1>6. o \in Opcodes7 => first = 2 * o + (first % 2)
  BY <1>5, OpcodeOfByte
<1> HIDE DEF inst, o, first
<1>7. /\ inst.operands \in {"Accumulator_Memory", "Memory_Accumulator"} => o \in AccumulatorMemory
      /\ o = MOV_MEM_TO_ACC => inst.operands = "Memory_Accumulator"
      /\ o = MOV_ACC_TO_MEM => inst.operands = "Accumulator_Memory"
  <2> DEFINE mod == inst.mod
             d == inst.d
             operands == OperandsOfOpcode(o, mod, d)
  <2>1. o \in Opcode /\ mod \in Mod /\ inst.operands = operands
    BY <1>3, <1>4
  <2> HIDE DEF mod, d
  <2>2. /\ operands \in {"Accumulator_Memory", "Memory_Accumulator"} => o \in AccumulatorMemory
        /\ o = MOV_MEM_TO_ACC => operands = "Memory_Accumulator"
        /\ o = MOV_ACC_TO_MEM => operands = "Accumulator_Memory"
    BY <2>1, AccumulatorOpcodes
  <2> HIDE DEF operands
  <2>3. QED
    BY <2>1, <2>2
<1>9. ASSUME o \in AccumulatorMemory
      PROVE  \/ inst.operands = "Memory_Accumulator" /\ inst.d = 0
             \/ inst.operands = "Accumulator_Memory" /\ inst.d = 1
  <2>1. o \in Opcodes7 /\ inst.d = (first \div 2) % 2
    BY <1>3, <1>9, OpcodesApart
  <2>2. first \in Int /\ (o = 80 \/ o = 81) /\ first = 2 * o + (first % 2)
    <3>1. first \in Int
      BY <1>5 DEF Byte
    <3>2. o = 80 \/ o = 81
      BY <1>9, OpcodesApart
    <3>3. first = 2 * o + (first % 2)
      BY <1>6, <2>1
    <3>4. QED
      BY <3>1, <3>2, <3>3
  <2>3. inst.d = o % 2
    BY <2>1, <2>2
  <2>4. \/ o = MOV_MEM_TO_ACC /\ o = 80
        \/ o = MOV_ACC_TO_MEM /\ o = 81
    BY <1>9 DEF AccumulatorMemory, MOV_MEM_TO_ACC, MOV_ACC_TO_MEM
  <2>5. QED
    BY <1>7, <2>3, <2>4
<1>10. inst.mod = 0 /\ inst.rm # 6 => p = 0
  BY <1>3 DEF DispLengthOf
<1> HIDE DEF h, p
<1>11. inst.mod = 0 /\ inst.rm # 6 => inst.disp = <<0, 0>>
  BY <1>1, <1>2, <1>10
<1>12. QED
  BY <1>7, <1>9, <1>11 DEF FieldsAgree, inst

NumbersInv ==
    \A k \in DOMAIN instructions : OneByteNumbers(instructions[k]) /\ FieldsAgree(instructions[k])

LEMMA NumbersInvNext ==
    DecoderTypeOK /\ NumbersInv /\ [DecoderNext]_decoderVars => NumbersInv'
<1> SUFFICES ASSUME DecoderTypeOK, NumbersInv, [DecoderNext]_decoderVars PROVE NumbersInv'
  OBVIOUS
<1>1. CASE DecodeNext
  <2>0. instructions \in Seq(Instruction) /\ bytes \in Seq(Byte) /\ idx \in Nat
    BY DEF DecoderTypeOK
  <2>1. PICK tail \in Overrun :
             LET inst == InstructionRead(tail) IN
             /\ inst \in Instruction
             /\ instructions' = Append(instructions, inst)
             /\ idx' = idx + inst.byteCount
             /\ jmpLabels' = LabelsAfter(jmpLabels, inst, idx)
             /\ idx < Len(bytes) /\ bytes' = bytes /\ decoding' = decoding
             /\ ASSERT_ENABLED => idx + inst.byteCount <= Len(bytes)
    BY <1>1, StepOfDecodeNext
  <2> DEFINE whole == bytes \o tail
             inst == DecodeInstruction(whole, idx)
  <2>2. inst \in Instruction /\ instructions' = Append(instructions, inst) /\ idx < Len(bytes)
    BY <2>1 DEF InstructionRead
  <2>3. idx + 1 \in 1..Len(bytes)
    BY <2>0, <2>2
  <2>4. /\ whole \in Seq(Byte) /\ idx + 6 <= Len(whole) /\ whole[idx + 1] = bytes[idx + 1]
    BY <2>0, <2>2, <2>3, BytesRead
  <2>5. (bytes \o AnyTail)[idx + 1] = bytes[idx + 1]
    BY <2>0, <2>2, <2>3, BytesRead, TailsAreBytes
  <2>6. OpcodeDecode(whole[idx + 1]) # NoOpcode
    BY <1>1, <2>4, <2>5 DEF DecodeNext, OpcodeKnown
  <2> HIDE DEF whole
  <2>7. OneByteNumbers(inst) /\ FieldsAgree(inst)
    <3>1. idx + 2 <= Len(whole)
      BY <2>0, <2>4
    <3>2. QED
      BY <2>0, <2>2, <2>4, <2>6, <3>1, DecodedNumbers, DecodedFieldsAgree
  <2> HIDE DEF inst
  <2>8. \A k \in DOMAIN instructions' : instructions'[k] = inst \/
             (k \in DOMAIN instructions /\ instructions'[k] = instructions[k])
    BY <2>0, <2>2
  <2>9. QED
    BY <2>7, <2>8 DEF NumbersInv
<1>2. CASE instructions' = instructions
  BY <1>2 DEF NumbersInv
<1>3. QED
  BY <1>1, <1>2 DEF DecoderNext, decoderVars, PanicOnOpcode, PanicOnRegField, AssertOnTruncation, Finish

\* appendImmFromLowAndHigh, for a number of one or two bytes: what is read back
\* is what was meant, save for the bytes ShownWrong names.
LEMMA ImmReadsBack ==
    ASSUME NEW pair, pair[1] \in Byte, pair[2] \in Byte, NEW isByte \in BOOLEAN,
           isByte => pair[2] = 0, options \in Options
    PROVE  ToU16(AppendImm(pair[1], pair[2])) = WordMeant(pair, isByte) <=> ~ShownWrong(pair, isByte)
<1> DEFINE low == pair[1]
           high == pair[2]
           v == AppendImm(low, high)
           word == low + 256 * high
<1>1. /\ low \in Int /\ 0 <= low /\ low < 256 /\ high \in Int /\ 0 <= high /\ high < 256
  BY DEF Byte
<1> HIDE DEF low, high
<1>2. word \in Int /\ 0 <= word /\ word < 65536 /\ (high # 0 => word >= 256)
  BY <1>1
<1>3. WordMeant(pair, isByte) = IF isByte THEN (IF low < 128 THEN low ELSE low + 65280) ELSE word
  <2>1. WordMeant(pair, isByte) = IF isByte THEN ToU16(ToI8(low)) ELSE word
    BY DEF WordMeant, SignExtend, CombineWord, low, high
  <2>2. ToU16(ToI8(low)) = IF low < 128 THEN low ELSE low + 65280
    BY <1>1 DEF ToU16, ToI8
  <2>3. QED
    BY <2>1, <2>2
<1>4. CASE options \in {"HEX", "UNSIGNED"}
  <2>1. ToU16(v) = word
    <3>1. v = word
      BY <1>4 DEF AppendImm, CombineWord
    <3> HIDE DEF v, word
    <3>2. QED
      BY <1>2, <3>1 DEF ToU16
  <2>2. ShownWrong(pair, isByte) <=> isByte /\ low >= 128
    BY <1>4 DEF ShownWrong, low
  <2> HIDE DEF v
  <2>3. isByte => word = low
    BY <1>1 DEF high
  <2>4. QED
    BY <1>1, <1>3, <2>1, <2>2, <2>3 DEF v, low, high
<1>5. CASE options \in {"NONE", "SIGNED"}
  <2>1. ShownWrong(pair, isByte) <=> high = 0 /\ IF isByte THEN low = 128 ELSE low > 128
    BY <1>5 DEF ShownWrong, low, high
  <2>2. CASE high # 0
    <3>1. v = IF ToI16(word) = -32768 THEN 32768 ELSE ToI16(word)
      <4>1. v = AppendSigned(ToI16(word), 65536)
        BY <1>5, <2>2 DEF AppendImm, CombineWord
      <4> HIDE DEF v, word
      <4>2. QED
        BY <1>2, <4>1 DEF AppendSigned, ToI16
    <3> HIDE DEF v, word
    <3>2. ToU16(v) = word
      BY <1>2, <3>1 DEF ToU16, ToI16
    <3>3. ~isByte
      BY <2>2 DEF high
    <3>4. QED
      BY <1>3, <2>1, <2>2, <3>2, <3>3 DEF v, low, high
  <2>3. CASE high = 0
    <3>1. v = IF low = 128 THEN 128 ELSE IF low < 128 THEN low ELSE low - 256
      <4>1. v = AppendSigned(ToI8(low), 256)
        BY <1>5, <2>3 DEF AppendImm
      <4> HIDE DEF v
      <4>2. QED
        BY <1>1, <4>1 DEF AppendSigned, ToI8
    <3> HIDE DEF v
    <3>2. ToU16(v) = IF low <= 128 THEN low ELSE low + 65280
      BY <1>1, <3>1 DEF ToU16
    <3>3. word = low
      BY <1>1, <2>3
    <3> HIDE DEF word
    <3>4. ToU16(v) = WordMeant(pair, isByte) <=> ~(IF isByte THEN low = 128 ELSE low > 128)
      BY <1>1, <1>3, <3>2, <3>3
    <3>5. QED
      BY <2>1, <2>3, <3>4 DEF v, low, high
  <2>4. QED
    BY <2>2, <2>3
<1>6. QED
  BY <1>4, <1>5, EncoderConstants

\* A byte, in whatever format, is the low part of the number that is written.
LEMMA ByteReadsBack ==
    ASSUME NEW low \in Byte, NEW high \in Byte
    PROVE  AppendImm(low, high) % 256 = low
<1> DEFINE word == low + 256 * high
           v == AppendImm(low, high)
<1>1. low \in Int /\ 0 <= low /\ low < 256 /\ high \in Int /\ 0 <= high /\ high < 256
  BY DEF Byte
<1>2. word \in Int /\ 0 <= word /\ word < 65536 /\ word % 256 = low
  BY <1>1
<1>3. \/ v = word \/ v = AppendSigned(ToI16(word), 65536) \/ v = AppendSigned(ToI8(low), 256)
  BY DEF AppendImm, CombineWord
<1> HIDE DEF v, word
<1>4. CASE v = word
  BY <1>2, <1>4 DEF v
<1>5. CASE v = AppendSigned(ToI16(word), 65536)
  <2>1. v = word \/ v = word - 65536
    BY <1>2, <1>5 DEF AppendSigned, ToI16
  <2>2. v % 256 = word % 256
    BY <1>2, <2>1
  <2>3. QED
    BY <1>2, <2>2 DEF v
<1>6. CASE v = AppendSigned(ToI8(low), 256)
  <2>1. v = low \/ v = low - 256
    BY <1>1, <1>6 DEF AppendSigned, ToI8
  <2>2. v % 256 = low
    BY <1>1, <2>1
  <2>3. QED
    BY <2>2 DEF v
<1>7. QED
  BY <1>3, <1>4, <1>5, <1>6

\* What OperandReadsBack asks of an operand of each kind.
LEMMA ReadsBackByKind ==
    ASSUME NEW inst, inst.w \in 0..1, NEW operand
    PROVE  /\ operand[1] \notin {"memory", "number"} => OperandReadsBack(inst, operand)
           /\ operand[1] = "memory" =>
                (OperandReadsBack(inst, operand) <=>
                   (ToU16(operand[4]) = WordMeant(AddressBytes(inst), AddressIsByte(inst))
                      <=> ~ShownWrong(AddressBytes(inst), AddressIsByte(inst))))
           /\ operand[1] = "number" /\ inst.w = 1 =>
                (OperandReadsBack(inst, operand) <=>
                   (ToU16(operand[2]) = WordMeant(inst.data, ImmediateIsByte(inst))
                      <=> ~ShownWrong(inst.data, ImmediateIsByte(inst))))
           /\ operand[1] = "number" /\ inst.w = 0 =>
                (OperandReadsBack(inst, operand) <=> operand[2] % 256 = inst.data[1])
<1> DEFINE address == ToU16(operand[4]) = WordMeant(AddressBytes(inst), AddressIsByte(inst))
                        <=> ~ShownWrong(AddressBytes(inst), AddressIsByte(inst))
           word == ToU16(operand[2]) = WordMeant(inst.data, ImmediateIsByte(inst))
                     <=> ~ShownWrong(inst.data, ImmediateIsByte(inst))
           byte == operand[2] % 256 = inst.data[1]
           kind == operand[1]
<1>1. OperandReadsBack(inst, operand) =
        CASE kind = "memory" -> address
          [] kind = "number" /\ inst.w = 1 -> word
          [] kind = "number" /\ inst.w = 0 -> byte
          [] OTHER -> TRUE
  BY Zenon DEF OperandReadsBack
<1>2. address \in BOOLEAN /\ word \in BOOLEAN /\ byte \in BOOLEAN
  OBVIOUS
<1> HIDE DEF address, word, byte, kind
<1>3. kind \notin {"memory", "number"} => OperandReadsBack(inst, operand)
  BY <1>1
<1>4. kind = "memory" => OperandReadsBack(inst, operand) = address
  BY <1>1
<1>5. kind = "number" /\ inst.w = 1 => OperandReadsBack(inst, operand) = word
  BY <1>1
<1>6. kind = "number" /\ inst.w = 0 => OperandReadsBack(inst, operand) = byte
  BY <1>1
<1>7. QED
  BY <1>3, <1>4, <1>5, <1>6 DEF address, word, byte, kind

\* A memory operand with an effective address.
LEMMA MemoryReadsBack ==
    ASSUME NEW inst \in Instruction, OneByteNumbers(inst), options \in Options, NEW size,
           inst.operands \notin {"Memory_Accumulator", "Accumulator_Memory"}
    PROVE  OperandReadsBack(inst, AppendMemory(inst, size))
<1> DEFINE v == AppendImm(inst.disp[1], inst.disp[2])
           isByte == AddressIsByte(inst)
           op == AppendMemory(inst, size)
<1>1. inst.w \in 0..1 /\ inst.disp[1] \in Byte /\ inst.disp[2] \in Byte
  BY InstructionTypes
<1>2. isByte \in BOOLEAN /\ (isByte => inst.disp[2] = 0) /\ AddressBytes(inst) = inst.disp
  BY DEF AddressIsByte, Is8bitDisplacement, MEMORY_8_BIT_DISPLACEMENT, OneByteNumbers, AddressBytes
<1>3. ToU16(v) = WordMeant(inst.disp, isByte) <=> ~ShownWrong(inst.disp, isByte)
  <2> HIDE DEF isByte
  <2> QED
    BY <1>1, <1>2, ImmReadsBack
<1>4. op[1] = "memory" /\ (op[4] = v \/ (inst.disp = <<0, 0>> /\ op[4] = 0))
  BY DEF AppendMemory, Memory
<1>5. inst.disp = <<0, 0>> =>
        (ToU16(0) = WordMeant(inst.disp, isByte) <=> ~ShownWrong(inst.disp, isByte))
  BY DEF ToU16, WordMeant, ShownWrong, SignExtend, ToI8, CombineWord
<1> HIDE DEF v, isByte, op
<1>6. ToU16(op[4]) = WordMeant(inst.disp, isByte) <=> ~ShownWrong(inst.disp, isByte)
  BY <1>3, <1>4, <1>5
<1>7. OperandReadsBack(inst, op)
  BY <1>1, <1>2, <1>4, <1>6, ReadsBackByKind DEF isByte
<1>8. QED
  BY <1>7 DEF op

\* The address of an accumulator move.
LEMMA AddressReadsBack ==
    ASSUME NEW inst \in Instruction, options \in Options,
           inst.operands \in {"Memory_Accumulator", "Accumulator_Memory"}
    PROVE  OperandReadsBack(inst, Memory("", -1, DataNumber(inst)))
<1> DEFINE op == Memory("", -1, DataNumber(inst))
           isByte == AddressIsByte(inst)
<1>1. inst.w \in 0..1 /\ inst.data[1] \in Byte /\ inst.data[2] \in Byte
  BY InstructionTypes
<1>2. isByte = FALSE /\ AddressBytes(inst) = inst.data
  <2>1. inst.mod = 4
    BY DEF Instruction, NONE_SENTINEL
  <2>2. QED
    BY <2>1 DEF AddressIsByte, Is8bitDisplacement, MEMORY_8_BIT_DISPLACEMENT, AddressBytes
<1>3. op[1] = "memory" /\ op[4] = AppendImm(inst.data[1], inst.data[2])
  BY DEF Memory, DataNumber
<1> HIDE DEF op, isByte
<1>4. ToU16(op[4]) = WordMeant(inst.data, isByte) <=> ~ShownWrong(inst.data, isByte)
  BY <1>1, <1>2, <1>3, ImmReadsBack
<1>5. OperandReadsBack(inst, op)
  BY <1>1, <1>2, <1>3, <1>4, ReadsBackByKind DEF isByte
<1>6. QED
  BY <1>5 DEF op

\* An immediate value.
LEMMA NumberReadsBack ==
    ASSUME NEW inst \in Instruction, OneByteNumbers(inst), options \in Options
    PROVE  OperandReadsBack(inst, Number(DataNumber(inst)))
<1> DEFINE op == Number(DataNumber(inst))
           v == AppendImm(inst.data[1], inst.data[2])
           isByte == ImmediateIsByte(inst)
<1>1. inst.w \in 0..1 /\ inst.data[1] \in Byte /\ inst.data[2] \in Byte
  BY InstructionTypes
<1>2. isByte \in BOOLEAN /\ (isByte => inst.data[2] = 0)
  BY DEF ImmediateIsByte, OneByteNumbers
<1>3. op[1] = "number" /\ op[2] = v
  BY DEF Number, DataNumber
<1>4. v % 256 = inst.data[1]
  BY <1>1, ByteReadsBack
<1>5. ToU16(v) = WordMeant(inst.data, isByte) <=> ~ShownWrong(inst.data, isByte)
  <2> HIDE DEF isByte
  <2> QED
    BY <1>1, <1>2, ImmReadsBack
<1> HIDE DEF op, v, isByte
<1>6. CASE inst.w = 1
  <2>1. ToU16(op[2]) = WordMeant(inst.data, isByte) <=> ~ShownWrong(inst.data, isByte)
    BY <1>3, <1>5
  <2>2. OperandReadsBack(inst, op)
    BY <1>1, <1>3, <1>6, <2>1, ReadsBackByKind DEF isByte
  <2>3. QED
    BY <2>2 DEF op
<1>7. CASE inst.w = 0
  <2>1. OperandReadsBack(inst, op)
    BY <1>1, <1>3, <1>4, <1>7, ReadsBackByKind
  <2>2. QED
    BY <2>1 DEF op
<1>8. QED
  BY <1>1, <1>6, <1>7

\* The two operands of a line.
BothReadBack(inst, operands) ==
    \A o \in DOMAIN operands : OperandReadsBack(inst, operands[o])

LEMMA ReadBackPair ==
    ASSUME NEW inst, NEW a, NEW b, OperandReadsBack(inst, a), OperandReadsBack(inst, b)
    PROVE  BothReadBack(inst, <<a, b>>)
BY DEF BothReadBack

LEMMA OperandsReadBack ==
    ASSUME NEW inst \in Instruction, OneByteNumbers(inst), options \in Options,
           inst.operands # "ShortLabel"
    PROVE  BothReadBack(inst, EncodeBasicInstruction(inst))
<1> DEFINE acc == Register(0, inst.w)
           rm == Register(inst.rm, inst.w)
           reg == Register(inst.reg, inst.w)
           rm16 == Register(inst.rm, 1)
           seg == SegmentRegister(inst.reg)
           num == Number(DataNumber(inst))
           addr == Memory("", -1, DataNumber(inst))
           mem == AppendMemory(inst, "")
           sized == AppendMemory(inst, IF inst.w = 1 THEN "word" ELSE "byte")
           accs == AppendMemAcc(inst)
           kind == inst.operands
<1>1. inst.w \in 0..1 /\ kind \in Operands
  BY InstructionTypes
<1>2. /\ OperandReadsBack(inst, acc) /\ OperandReadsBack(inst, rm) /\ OperandReadsBack(inst, reg)
      /\ OperandReadsBack(inst, rm16) /\ OperandReadsBack(inst, seg)
  <2>1. /\ acc[1] = "register" /\ rm[1] = "register" /\ reg[1] = "register" /\ rm16[1] = "register"
        /\ seg[1] = "segment"
    BY DEF Register, SegmentRegister
  <2> HIDE DEF acc, rm, reg, rm16, seg
  <2>2. QED
    BY <1>1, <2>1, ReadsBackByKind
<1>3. OperandReadsBack(inst, num)
  BY NumberReadsBack
<1>4. accs = <<addr, acc>> \/ accs = <<acc, addr>>
  BY DEF AppendMemAcc
<1>5. EncodeBasicInstruction(inst) =
        CASE kind \in {"Accumulator_Memory", "Memory_Accumulator"} -> accs
          [] kind = "Accumulator_Immediate" -> <<acc, num>>
          [] kind = "Memory_Immediate" -> <<sized, num>>
          [] kind = "Memory_Register" -> <<reg, mem>>
          [] kind = "Register_Memory" -> <<mem, reg>>
          [] kind = "Register_Register" -> <<rm, reg>>
          [] kind = "Register_Immediate" -> <<rm, num>>
          [] kind = "SegReg_Register16" -> <<rm16, seg>>
          [] kind = "Register16_SegReg" -> <<seg, rm16>>
          [] kind = "SegReg_Memory16" -> <<mem, seg>>
          [] kind = "Memory_SegReg" -> <<seg, mem>>
  BY Zenon DEF EncodeBasicInstruction
<1>6. kind \in {"Accumulator_Memory", "Memory_Accumulator"} => OperandReadsBack(inst, addr)
  BY AddressReadsBack
<1>7. kind \notin {"Accumulator_Memory", "Memory_Accumulator"} =>
        OperandReadsBack(inst, mem) /\ OperandReadsBack(inst, sized)
  BY MemoryReadsBack
<1> HIDE DEF acc, rm, reg, rm16, seg, num, addr, mem, sized, accs, kind
<1>8. CASE kind \in {"Accumulator_Memory", "Memory_Accumulator"}
  <2>1. EncodeBasicInstruction(inst) = accs
    BY <1>5, <1>8, Zenon
  <2>2. BothReadBack(inst, <<addr, acc>>) /\ BothReadBack(inst, <<acc, addr>>)
    BY <1>2, <1>6, <1>8, ReadBackPair
  <2>3. QED
    BY <1>4, <2>1, <2>2, Zenon
<1>9. CASE kind \notin {"Accumulator_Memory", "Memory_Accumulator"}
  <2>1. /\ BothReadBack(inst, <<acc, num>>) /\ BothReadBack(inst, <<sized, num>>)
        /\ BothReadBack(inst, <<reg, mem>>) /\ BothReadBack(inst, <<mem, reg>>)
        /\ BothReadBack(inst, <<rm, reg>>) /\ BothReadBack(inst, <<rm, num>>)
        /\ BothReadBack(inst, <<rm16, seg>>) /\ BothReadBack(inst, <<seg, rm16>>)
        /\ BothReadBack(inst, <<mem, seg>>) /\ BothReadBack(inst, <<seg, mem>>)
    BY <1>2, <1>3, <1>7, <1>9, ReadBackPair
  <2>2. \/ kind = "Accumulator_Immediate" \/ kind = "Memory_Immediate" \/ kind = "Memory_Register"
        \/ kind = "Register_Memory" \/ kind = "Register_Register" \/ kind = "Register_Immediate"
        \/ kind = "SegReg_Register16" \/ kind = "Register16_SegReg" \/ kind = "SegReg_Memory16"
        \/ kind = "Memory_SegReg"
    BY <1>1, <1>9 DEF Operands, kind
  <2>3. CASE kind = "Accumulator_Immediate"
    BY <1>5, <2>1, <2>3, Zenon
  <2>4. CASE kind = "Memory_Immediate"
    BY <1>5, <2>1, <2>4, Zenon
  <2>5. CASE kind = "Memory_Register"
    BY <1>5, <2>1, <2>5, Zenon
  <2>6. CASE kind = "Register_Memory"
    BY <1>5, <2>1, <2>6, Zenon
  <2>7. CASE kind = "Register_Register"
    BY <1>5, <2>1, <2>7, Zenon
  <2>8. CASE kind = "Register_Immediate"
    BY <1>5, <2>1, <2>8, Zenon
  <2>9. CASE kind = "SegReg_Register16"
    BY <1>5, <2>1, <2>9, Zenon
  <2>10. CASE kind = "Register16_SegReg"
    BY <1>5, <2>1, <2>10, Zenon
  <2>11. CASE kind = "SegReg_Memory16"
    BY <1>5, <2>1, <2>11, Zenon
  <2>12. CASE kind = "Memory_SegReg"
    BY <1>5, <2>1, <2>12, Zenon
  <2>13. QED
    BY <2>2, <2>3, <2>4, <2>5, <2>6, <2>7, <2>8, <2>9, <2>10, <2>11, <2>12
<1>10. QED
  BY <1>8, <1>9

\* The line the layout gives an instruction reads back as that instruction.
LEMMA ListingReadsBack ==
    ASSUME DisassemblerInv, LayoutInv, NumbersInv PROVE NumbersReadBack
<1>1. SUFFICES ASSUME Listed, NEW k \in DOMAIN instructions
               PROVE  BothReadBack(instructions[k], listing[LineOf(k)].operands)
  BY DEF NumbersReadBack, BothReadBack
<1>2. /\ instructions \in Seq(Instruction) /\ listing \in Seq(Line) /\ options \in Options
      /\ Len(instructions) \in Nat /\ DOMAIN instructions = 1..Len(instructions)
  BY DEF DisassemblerInv, DecoderInv, DecoderTypeOK, EncoderInv, EncoderTypeOK
<1>3. PICK lines \in [1..i -> DOMAIN listing] : Layout(lines)
  BY DEF LayoutInv
<1>4. i = Len(instructions) /\ i \in Nat /\ k \in 1..i
  BY <1>1, <1>2, <1>3 DEF Listed, Layout, LabelAtTheEnd
<1>5. listing[LineOf(k)] = LineWritten(k)
  <2>1. LineOf(k) = lines[k]
    BY <1>2, <1>3, <1>4, LineIsWhereItIs
  <2>2. QED
    BY <1>3, <1>4, <2>1 DEF Layout, InstructionsInOrder
<1> DEFINE inst == instructions[k]
           operands == LineWritten(k).operands
<1>6. inst \in Instruction /\ OneByteNumbers(inst)
  BY <1>1, <1>2 DEF NumbersInv
<1>7. CASE inst.operands = "ShortLabel"
  <2>1. PICK name : operands = << <<"label", name>> >>
    BY <1>7 DEF LineWritten, InstructionLine
  <2>2. \A o \in DOMAIN operands : operands[o][1] = "label"
    BY <2>1
  <2>3. inst.w \in 0..1
    BY <1>6, InstructionTypes
  <2> HIDE DEF operands, inst
  <2>4. BothReadBack(inst, operands)
    BY <2>2, <2>3, ReadsBackByKind DEF BothReadBack
  <2>5. QED
    BY <1>5, <2>4 DEF operands, inst
<1>8. CASE inst.operands # "ShortLabel"
  <2>1. operands = EncodeBasicInstruction(inst)
    BY <1>8 DEF LineWritten, InstructionLine
  <2> HIDE DEF operands, inst
  <2>2. BothReadBack(inst, operands)
    BY <1>2, <1>6, <1>8, <2>1, OperandsReadBack
  <2>3. QED
    BY <1>5, <2>2 DEF operands, inst
<1>9. QED
  BY <1>7, <1>8

\* In every format, width and addressing mode the listing says the number the
\* instruction has, except exactly the bytes that appendImmFromLowAndHigh shows
\* with the wrong sign or without it.
THEOREM NumbersAreListed == DisassemblerSpec => []NumbersReadBack
<1>1. DisassemblerInit => NumbersInv
  BY DEF DisassemblerInit, DecoderInit, NumbersInv
<1>2. DisassemblerInv /\ NumbersInv /\ [DisassemblerNext]_<<decoderVars, encoderVars>> => NumbersInv'
  <2>1. DisassemblerInv => DecoderTypeOK
    BY DEF DisassemblerInv, DecoderInv
  <2>2. [DisassemblerNext]_<<decoderVars, encoderVars>> => [DecoderNext]_decoderVars
    BY DEF DisassemblerNext, Decode, Encode, EncoderNext, decoderVars
  <2>3. QED
    BY <2>1, <2>2, NumbersInvNext
<1>3. DisassemblerInv /\ LayoutInv /\ NumbersInv => NumbersReadBack
  BY ListingReadsBack
<1>4. QED
  BY <1>1, <1>2, <1>3, ListingKeepsItsLayout, PTL DEF DisassemblerSpec
=============================================================================
