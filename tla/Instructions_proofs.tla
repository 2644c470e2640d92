------------------------- MODULE Instructions_proofs --------------------------
(***************************************************************************)
(* What decodeInstruction may return; and StartOf, the offsets that the    *)
(* decoder, the listing and the emulator each add up in a loop of their    *)
(* own.  StartOf is a recursive function; what holds of it for every       *)
(* program is proved by taking the least number for which it fails.        *)
(***************************************************************************)
EXTENDS Instructions, WellFoundedInduction, TLAPS

\* The fields of an instruction, one by one.
LEMMA InstructionTypes ==
    ASSUME NEW inst \in Instruction
    PROVE  /\ inst.w \in 0..1 /\ inst.s \in 0..1 /\ inst.mod \in Mod
           /\ inst.reg \in 0..7 /\ inst.rm \in 0..7
           /\ inst.disp[1] \in Byte /\ inst.disp[2] \in Byte
           /\ inst.data[1] \in Byte /\ inst.data[2] \in Byte
           /\ inst.type \in InstType /\ inst.operands \in Operands
           /\ inst.byteCount \in Int
           /\ inst.type \in JumpTypes <=> inst.operands = "ShortLabel"
<1>1. inst \in InstructionFields
  BY DEF Instruction
<1>2. inst.disp \in Byte \X Byte /\ inst.data \in Byte \X Byte
  BY <1>1 DEF InstructionFields
<1>3. /\ inst.disp[1] \in Byte /\ inst.disp[2] \in Byte
      /\ inst.data[1] \in Byte /\ inst.data[2] \in Byte
  BY <1>2
<1>4. inst.byteCount \in Int
  <2>1. inst.byteCount \in 1..6
    BY <1>1 DEF InstructionFields
  <2>2. QED
    BY <2>1
<1>5. /\ inst.w \in 0..1 /\ inst.s \in 0..1 /\ inst.mod \in Mod
      /\ inst.reg \in 0..7 /\ inst.rm \in 0..7
      /\ inst.type \in InstType /\ inst.operands \in Operands
  BY <1>1, Zenon DEF InstructionFields
<1>6. inst.type \in JumpTypes <=> inst.operands = "ShortLabel"
  BY DEF Instruction
<1>7. QED
  BY <1>3, <1>4, <1>5, <1>6

\* What the fields say of each other.
LEMMA InstructionShape ==
    ASSUME NEW inst \in Instruction
    PROVE  /\ inst.s = 1 => /\ inst.type \in ArithmeticTypes
                            /\ inst.operands \in {"Register_Immediate", "Memory_Immediate"}
           /\ inst.operands \in {"Memory_Register", "Register_Memory", "Memory_Immediate"} =>
                 inst.mod \in 0..2
           /\ inst.operands \in {"Memory_Accumulator", "Accumulator_Memory"} =>
                 inst.mod = 4 /\ inst.rm = 0
<1>1. inst.mod \in 0..4
  BY InstructionTypes DEF Mod
<1>2. IsEffectiveAddrCalc(inst.mod) => inst.mod \in 0..2
  BY <1>1 DEF IsEffectiveAddrCalc, NONE_SENTINEL, REGISTER_TO_REGISTER_NO_DISPLACEMENT
<1>3. QED
  BY <1>2 DEF Instruction, NONE_SENTINEL

\* No instruction is empty.
LEMMA LengthType ==
    ASSUME NEW program \in Seq(Instruction), NEW k \in DOMAIN program
    PROVE  program[k].byteCount \in Nat /\ program[k].byteCount >= 1
<1>1. program[k] \in Instruction
  OBVIOUS
<1>2. program[k].byteCount \in 1..6
  BY <1>1 DEF Instruction, InstructionFields
<1>3. QED
  BY <1>2

-----------------------------------------------------------------------------
(***************************************************************************)
(* The least number of a set.                                              *)
(***************************************************************************)
LessThan == {p \in Nat \X Nat : p[1] < p[2]}

LEMMA LessThanWellFounded == IsWellFoundedOn(LessThan, Nat)
  BY NatLessThanWellFounded DEF OpToRel, LessThan

\* A set of natural numbers that is not empty has a least one.
LEMMA LeastNumber ==
    ASSUME NEW T, T \subseteq Nat, T # {}
    PROVE  \E n \in T : \A m \in T : n <= m
<1>1. PICK n \in T : \A m \in T : <<m, n>> \notin LessThan
  BY LessThanWellFounded, WFMin
<1>2. ASSUME NEW m \in T PROVE n <= m
  <2>1. n \in Nat /\ m \in Nat
    OBVIOUS
  <2>2. ~(m < n)
    BY <1>1, <2>1 DEF LessThan
  <2>3. QED
    BY <2>1, <2>2
<1>3. QED
  BY <1>2

-----------------------------------------------------------------------------
(***************************************************************************)
(* The recursion equation of StartOf.                                      *)
(***************************************************************************)
\* h adds up the lengths of the instructions as far as the n-th.
AddsUp(h, program, n) ==
    /\ h \in [1..n -> Nat]
    /\ \A k \in 1..n : h[k] = IF k = 1 THEN 0 ELSE h[k - 1] + program[k - 1].byteCount

\* There is such a function, for every n: of the least n that has none, the
\* number before has one, which can be continued.
LEMMA AddsUpExists ==
    ASSUME NEW program \in Seq(Instruction), NEW n \in 1..(Len(program) + 1)
    PROVE  \E h : AddsUp(h, program, n)
<1> DEFINE T == {m \in 1..(Len(program) + 1) : ~ \E h : AddsUp(h, program, m)}
<1>0. Len(program) \in Nat
  OBVIOUS
<1>1. SUFFICES ASSUME T # {} PROVE FALSE
  OBVIOUS
<1>2. T \subseteq Nat
  BY <1>0
<1>3. PICK m \in T : \A other \in T : m <= other
  <2> HIDE DEF T
  <2> QED
    BY <1>1, <1>2, LeastNumber
<1>4. m \in 1..(Len(program) + 1) /\ m \in Int /\ ~ \E h : AddsUp(h, program, m)
  BY <1>0
<1>5. m # 1
  <2>1. AddsUp([k \in 1..1 |-> 0], program, 1)
    BY DEF AddsUp
  <2>2. QED
    BY <1>4, <2>1
<1>6. m - 1 \in 1..(Len(program) + 1) /\ m - 1 \notin T
  BY <1>0, <1>3, <1>4, <1>5
<1>7. PICK h : AddsUp(h, program, m - 1)
  BY <1>6
<1> DEFINE g == [k \in 1..m |-> IF k = m THEN h[m - 1] + program[m - 1].byteCount ELSE h[k]]
<1>8. AddsUp(g, program, m)
  <2>1. m - 1 \in 1..(m - 1) /\ h[m - 1] \in Nat
    BY <1>4, <1>5, <1>7 DEF AddsUp
  <2>2. program[m - 1].byteCount \in Nat
    <3>1. m - 1 \in DOMAIN program
      BY <1>0, <1>4, <1>5
    <3>2. QED
      BY <3>1, LengthType
  <2>3. ASSUME NEW k \in 1..m
        PROVE  g[k] \in Nat /\ g[k] = IF k = 1 THEN 0 ELSE g[k - 1] + program[k - 1].byteCount
    <3>1. CASE k = m
      <4>1. k - 1 \in 1..m /\ k - 1 # m /\ k # 1
        BY <3>1, <1>4, <1>5
      <4>2. g[k] = h[m - 1] + program[m - 1].byteCount /\ g[k - 1] = h[k - 1]
        BY <3>1, <4>1
      <4>3. QED
        BY <4>1, <4>2, <2>1, <2>2, <3>1
    <3>2. CASE k # m
      <4>1. k \in 1..(m - 1)
        BY <3>2, <1>4
      <4>2. g[k] = h[k]
        BY <3>2
      <4>3. h[k] \in Nat /\ h[k] = IF k = 1 THEN 0 ELSE h[k - 1] + program[k - 1].byteCount
        BY <4>1, <1>7 DEF AddsUp
      <4>4. k # 1 => k - 1 \in 1..m /\ k - 1 # m
        BY <4>1, <1>4
      <4>5. k # 1 => g[k - 1] = h[k - 1]
        BY <4>4
      <4>6. QED
        BY <4>2, <4>3, <4>5
    <3>3. QED
      BY <3>1, <3>2
  <2> HIDE DEF g
  <2>4. g = [k \in 1..m |-> g[k]]
    BY DEF g
  <2>5. QED
    BY <2>3, <2>4 DEF AddsUp
<1>9. QED
  BY <1>4, <1>8

\* The first instruction starts at 0, and each starts where the one before ends.
LEMMA StartOfAddsUp ==
    ASSUME NEW program \in Seq(Instruction)
    PROVE  /\ \A i \in 1..(Len(program) + 1) : StartOf(program, i) \in Nat
           /\ StartOf(program, 1) = 0
           /\ \A i \in 1..Len(program) :
                 StartOf(program, i + 1) = StartOf(program, i) + program[i].byteCount
<1> DEFINE n == Len(program) + 1
           Start == CHOOSE start : start = [k \in 1..n |->
                        IF k = 1 THEN 0 ELSE start[k - 1] + program[k - 1].byteCount]
<1>0. Len(program) \in Nat /\ n \in 1..n /\ 1 \in 1..n
  OBVIOUS
<1>1. PICK h : AddsUp(h, program, n)
  BY <1>0, AddsUpExists
<1>2. h = [k \in 1..n |-> IF k = 1 THEN 0 ELSE h[k - 1] + program[k - 1].byteCount]
  BY <1>1 DEF AddsUp
<1>3. Start = [k \in 1..n |-> IF k = 1 THEN 0 ELSE Start[k - 1] + program[k - 1].byteCount]
  <2> HIDE DEF n
  <2> QED
    BY <1>2
<1>4. \A i : StartOf(program, i) = Start[i]
  BY DEF StartOf
<1> HIDE DEF Start
<1>5. \A k \in 1..n : Start[k] = IF k = 1 THEN 0 ELSE Start[k - 1] + program[k - 1].byteCount
  <2> HIDE DEF n
  <2> QED
    BY <1>3
<1>6. \A i \in 1..Len(program) : Start[i + 1] = Start[i] + program[i].byteCount
  <2>1. ASSUME NEW i \in 1..Len(program)
        PROVE  i + 1 \in 1..n /\ i + 1 # 1 /\ (i + 1) - 1 = i
    BY <1>0
  <2> HIDE DEF n
  <2>2. QED
    BY <1>5, <2>1
<1>7. ASSUME NEW i \in 1..n PROVE Start[i] \in Nat
  <2> DEFINE T == {m \in 1..n : Start[m] \notin Nat}
  <2>1. SUFFICES ASSUME T # {} PROVE FALSE
    OBVIOUS
  <2>2. T \subseteq Nat
    BY <1>0
  <2>3. PICK m \in T : \A other \in T : m <= other
    <3> HIDE DEF T
    <3> QED
      BY <2>1, <2>2, LeastNumber
  <2>4. m \in 1..n /\ Start[m] \notin Nat
    OBVIOUS
  <2>5. m # 1
    BY <1>0, <1>5, <2>4
  <2>6. m - 1 \in 1..Len(program) /\ (m - 1) + 1 = m /\ m - 1 \notin T /\ m - 1 \in 1..n
    BY <1>0, <2>3, <2>4, <2>5
  <2>7. Start[m - 1] \in Nat
    BY <2>6
  <2>8. Start[m] = Start[m - 1] + program[m - 1].byteCount
    BY <1>6, <2>6
  <2>9. program[m - 1].byteCount \in Nat
    BY <2>6, LengthType
  <2>10. QED
    BY <2>4, <2>7, <2>8, <2>9
<1>8. Start[1] = 0
  BY <1>0, <1>5
<1>9. QED
  BY <1>4, <1>6, <1>7, <1>8

\* Offsets grow along the program.
LEMMA StartOfGrows ==
    ASSUME NEW program \in Seq(Instruction),
           NEW i \in 1..(Len(program) + 1), NEW j \in 1..(Len(program) + 1), i < j
    PROVE  StartOf(program, i) < StartOf(program, j)
<1> DEFINE T == {m \in 1..(Len(program) + 1) :
                    i < m /\ ~(StartOf(program, i) < StartOf(program, m))}
<1>0. Len(program) \in Nat /\ i \in Int
  OBVIOUS
<1>1. SUFFICES ASSUME T # {} PROVE FALSE
  OBVIOUS
<1>2. T \subseteq Nat
  BY <1>0
<1>3. PICK m \in T : \A other \in T : m <= other
  <2> HIDE DEF T
  <2> QED
    BY <1>1, <1>2, LeastNumber
<1>4. /\ m \in 1..(Len(program) + 1) /\ i < m /\ m \in Int
      /\ ~(StartOf(program, i) < StartOf(program, m))
  BY <1>0
<1>5. m - 1 \in 1..Len(program) /\ m - 1 \notin T /\ (m - 1) + 1 = m
  BY <1>0, <1>3, <1>4
<1>6. /\ StartOf(program, m) = StartOf(program, m - 1) + program[m - 1].byteCount
      /\ program[m - 1].byteCount \in Nat /\ program[m - 1].byteCount >= 1
      /\ StartOf(program, m) \in Nat /\ StartOf(program, m - 1) \in Nat
      /\ StartOf(program, i) \in Nat
  <2>1. program[m - 1].byteCount \in Nat /\ program[m - 1].byteCount >= 1
    BY <1>5, LengthType
  <2>2. StartOf(program, m) = StartOf(program, m - 1) + program[m - 1].byteCount
    BY <1>5, StartOfAddsUp
  <2>3. m - 1 \in 1..(Len(program) + 1)
    BY <1>0, <1>5
  <2>4. QED
    BY <1>4, <2>1, <2>2, <2>3, StartOfAddsUp
<1>7. i = m - 1 \/ StartOf(program, i) < StartOf(program, m - 1)
  BY <1>0, <1>4, <1>5
<1>8. QED
  BY <1>4, <1>6, <1>7

\* A longer program has the same offsets as far as the shorter one reaches.
LEMMA StartOfAppend ==
    ASSUME NEW program \in Seq(Instruction), NEW inst \in Instruction,
           NEW i \in 1..(Len(program) + 1)
    PROVE  StartOf(Append(program, inst), i) = StartOf(program, i)
<1> DEFINE longer == Append(program, inst)
           T == {m \in 1..(Len(program) + 1) : StartOf(longer, m) # StartOf(program, m)}
<1>0. /\ Len(program) \in Nat /\ longer \in Seq(Instruction)
      /\ Len(longer) = Len(program) + 1
      /\ \A k \in 1..Len(program) : longer[k] = program[k]
  OBVIOUS
<1> HIDE DEF longer
<1>1. SUFFICES ASSUME T # {} PROVE FALSE
  BY DEF longer
<1>2. T \subseteq Nat
  BY <1>0
<1>3. PICK m \in T : \A other \in T : m <= other
  <2> HIDE DEF T
  <2> QED
    BY <1>1, <1>2, LeastNumber
<1>4. m \in 1..(Len(program) + 1) /\ m \in Int /\ StartOf(longer, m) # StartOf(program, m)
  BY <1>0
<1>5. m # 1
  BY <1>0, <1>4, StartOfAddsUp
<1>6. /\ m - 1 \in 1..Len(program) /\ m - 1 \in 1..Len(longer) /\ (m - 1) + 1 = m
      /\ m - 1 \notin T /\ m - 1 \in 1..(Len(program) + 1)
  BY <1>0, <1>3, <1>4, <1>5
<1>7. /\ StartOf(longer, m) = StartOf(longer, m - 1) + longer[m - 1].byteCount
      /\ StartOf(program, m) = StartOf(program, m - 1) + program[m - 1].byteCount
  <2>1. StartOf(longer, (m - 1) + 1) = StartOf(longer, m - 1) + longer[m - 1].byteCount
    BY <1>0, <1>6, StartOfAddsUp
  <2>2. StartOf(program, (m - 1) + 1) = StartOf(program, m - 1) + program[m - 1].byteCount
    BY <1>6, StartOfAddsUp
  <2>3. QED
    BY <1>6, <2>1, <2>2
<1>8. StartOf(longer, m - 1) = StartOf(program, m - 1)
  BY <1>6
<1>9. QED
  BY <1>0, <1>4, <1>6, <1>7, <1>8

-----------------------------------------------------------------------------
(***************************************************************************)
(* What decodeInstruction returns.                                         *)
(***************************************************************************)
ImmediateToAccumulator == {ADD_IMM_TO_ACC, SUB_IMM_FROM_ACC, CMP_IMM_WITH_ACC}
AccumulatorMemory == {MOV_MEM_TO_ACC, MOV_ACC_TO_MEM}
SegmentOpcodes == {MOV_REG_OR_MEMORY_TO_SEGMENT_REG, MOV_SEGMENT_REG_TO_REG_OR_MEMORY}

\* The classes of opcodes that share their fields are all there are, and apart.
LEMMA OpcodeClasses ==
    /\ Opcode = RegMemOpcodes \cup {IMM_TO_FROM_REG_OR_MEM, MOV_IMM_TO_REG_OR_MEM, MOV_IMM_TO_REG}
                  \cup ImmediateToAccumulator \cup AccumulatorMemory \cup SegmentOpcodes \cup JumpOpcodes
    /\ RegMemOpcodes = {34, 0, 10, 14} /\ IMM_TO_FROM_REG_OR_MEM = 32
    /\ MOV_IMM_TO_REG_OR_MEM = 99 /\ MOV_IMM_TO_REG = 11
    /\ ImmediateToAccumulator = {2, 22, 30} /\ AccumulatorMemory = {80, 81}
    /\ SegmentOpcodes = {142, 140} /\ JumpOpcodes = (112..127) \cup (224..227)
<1>1. /\ RegMemOpcodes = {34, 0, 10, 14} /\ IMM_TO_FROM_REG_OR_MEM = 32
      /\ MOV_IMM_TO_REG_OR_MEM = 99 /\ MOV_IMM_TO_REG = 11
      /\ ImmediateToAccumulator = {2, 22, 30} /\ AccumulatorMemory = {80, 81}
      /\ SegmentOpcodes = {142, 140} /\ JumpOpcodes = (112..127) \cup (224..227)
  BY DEF RegMemOpcodes, IMM_TO_FROM_REG_OR_MEM, MOV_IMM_TO_REG_OR_MEM, MOV_IMM_TO_REG,
         ImmediateToAccumulator, AccumulatorMemory, SegmentOpcodes, JumpOpcodes,
         MOV_REG_OR_MEM_TO_OR_FROM_REG, ADD_REG_OR_MEM_WITH_REG_TO_EDIT,
         SUB_REG_OR_MEM_WITH_REG_TO_EDIT, CMP_REG_OR_MEM_WITH_REG,
         ADD_IMM_TO_ACC, SUB_IMM_FROM_ACC, CMP_IMM_WITH_ACC, MOV_MEM_TO_ACC, MOV_ACC_TO_MEM,
         MOV_REG_OR_MEMORY_TO_SEGMENT_REG, MOV_SEGMENT_REG_TO_REG_OR_MEMORY,
         ConditionalJumps, LoopJumps
<1>2. Opcode = RegMemOpcodes \cup {IMM_TO_FROM_REG_OR_MEM, MOV_IMM_TO_REG_OR_MEM, MOV_IMM_TO_REG}
                 \cup ImmediateToAccumulator \cup AccumulatorMemory \cup SegmentOpcodes \cup JumpOpcodes
  BY DEF Opcode, Opcodes8, Opcodes7, Opcodes6, Opcodes4, ImmediateToAccumulator,
         AccumulatorMemory, SegmentOpcodes
<1>3. QED
  BY <1>1, <1>2

\* A field of the table, with the value the decoder finds in it.
LEMMA FieldIs ==
    ASSUME NEW bytes \in Seq(Byte), NEW at \in Nat, at + 2 <= Len(bytes)
    PROVE  /\ bytes[at + 1] \in Byte /\ bytes[at + 2] \in Byte
           /\ Field(bytes, at, NotSet) = 0
           /\ Field(bytes, at, DEFAULT_W) = bytes[at + 1] % 2
           /\ Field(bytes, at, DEFAULT_D) = (bytes[at + 1] \div 2) % 2
           /\ Field(bytes, at, DEFAULT_S) = (bytes[at + 1] \div 2) % 2
           /\ Field(bytes, at, DEFAULT_MOD) = (bytes[at + 2] \div 64) % 4
           /\ Field(bytes, at, DEFAULT_REG) = (bytes[at + 2] \div 8) % 8
           /\ Field(bytes, at, DEFAULT_RM) = bytes[at + 2] % 8
           /\ Field(bytes, at, ImmToRegFields.w) = (bytes[at + 1] \div 8) % 2
           /\ Field(bytes, at, ImmToRegFields.reg) = bytes[at + 1] % 8
<1>1. /\ at + 1 \in DOMAIN bytes /\ at + 2 \in DOMAIN bytes
      /\ at + 0 + 1 = at + 1 /\ at + 1 + 1 = at + 2
  OBVIOUS
<1>2. bytes[at + 1] \in Byte /\ bytes[at + 2] \in Byte
  BY <1>1
<1>3. \A b \in Byte : b \div 1 = b
  BY DEF Byte
<1>4. Field(bytes, at, NotSet) = 0
  BY DEF Field, NotSet
<1>5. QED
  BY <1>1, <1>2, <1>3, <1>4 DEF Field, BitField, DEFAULT_W, DEFAULT_D, DEFAULT_S, DEFAULT_MOD,
        DEFAULT_REG, DEFAULT_RM, ImmToRegFields, NoFields

\* The rows of the table.
LEMMA TableIs ==
    ASSUME NEW opcode
    PROVE  LET fd == FieldDisplacements(opcode) IN
           /\ opcode \in RegMemOpcodes => fd = [ModRegRmFields EXCEPT !.d = DEFAULT_D, !.w = DEFAULT_W]
           /\ opcode = IMM_TO_FROM_REG_OR_MEM =>
                 fd = [ModRegRmFields EXCEPT !.s = DEFAULT_S, !.w = DEFAULT_W, !.data = TRUE]
           /\ opcode = MOV_IMM_TO_REG_OR_MEM =>
                 fd = [ModRegRmFields EXCEPT !.w = DEFAULT_W, !.data = TRUE]
           /\ opcode \in SegmentOpcodes => fd = ModRegRmFields
           /\ opcode = MOV_IMM_TO_REG => fd = ImmToRegFields
           /\ opcode \in AccumulatorMemory =>
                 fd = [AccumulatorFields EXCEPT !.fixedWord = FIXED_SIZE_WORD]
           /\ opcode \in ImmediateToAccumulator => fd = AccumulatorFields
           /\ opcode \in JumpOpcodes => fd = DEFAULT_JMP
<1> DEFINE a == [ModRegRmFields EXCEPT !.d = DEFAULT_D, !.w = DEFAULT_W]
           b == [ModRegRmFields EXCEPT !.s = DEFAULT_S, !.w = DEFAULT_W, !.data = TRUE]
           c == [ModRegRmFields EXCEPT !.w = DEFAULT_W, !.data = TRUE]
           e == [AccumulatorFields EXCEPT !.fixedWord = FIXED_SIZE_WORD]
<1>1. FieldDisplacements(opcode) =
        CASE opcode \in RegMemOpcodes -> a
          [] opcode = IMM_TO_FROM_REG_OR_MEM -> b
          [] opcode = MOV_IMM_TO_REG_OR_MEM -> c
          [] opcode \in SegmentOpcodes -> ModRegRmFields
          [] opcode = MOV_IMM_TO_REG -> ImmToRegFields
          [] opcode \in AccumulatorMemory -> e
          [] opcode \in ImmediateToAccumulator -> AccumulatorFields
          [] opcode \in JumpOpcodes -> DEFAULT_JMP
  BY Zenon DEF FieldDisplacements, SegmentOpcodes, AccumulatorMemory, ImmediateToAccumulator
<1> HIDE DEF a, b, c, e
<1>2. QED
  <2> SUFFICES /\ opcode \in RegMemOpcodes => FieldDisplacements(opcode) = a
               /\ opcode = IMM_TO_FROM_REG_OR_MEM => FieldDisplacements(opcode) = b
               /\ opcode = MOV_IMM_TO_REG_OR_MEM => FieldDisplacements(opcode) = c
               /\ opcode \in SegmentOpcodes => FieldDisplacements(opcode) = ModRegRmFields
               /\ opcode = MOV_IMM_TO_REG => FieldDisplacements(opcode) = ImmToRegFields
               /\ opcode \in AccumulatorMemory => FieldDisplacements(opcode) = e
               /\ opcode \in ImmediateToAccumulator => FieldDisplacements(opcode) = AccumulatorFields
               /\ opcode \in JumpOpcodes => FieldDisplacements(opcode) = DEFAULT_JMP
    BY DEF a, b, c, e
  <2>1. QED
    BY <1>1, OpcodeClasses

ModRegRmOpcodes == RegMemOpcodes \cup {IMM_TO_FROM_REG_OR_MEM, MOV_IMM_TO_REG_OR_MEM} \cup SegmentOpcodes

\* How many bytes of each kind a decoded instruction has, by its class.
HeaderBytes(inst) == IF inst.opcode \in ModRegRmOpcodes THEN 2 ELSE 1
DispLengthOf(inst) ==
    IF inst.opcode \notin ModRegRmOpcodes THEN 0
    ELSE IF inst.mod = 1 THEN 1
    ELSE IF inst.mod = 2 \/ (inst.mod = 0 /\ inst.rm = 6) THEN 2 ELSE 0
DataLengthOf(inst) ==
    IF inst.opcode \in RegMemOpcodes \cup SegmentOpcodes THEN 0
    ELSE IF inst.opcode \in AccumulatorMemory THEN 2
    ELSE IF inst.opcode \in JumpOpcodes THEN 1
    ELSE IF inst.s = 0 /\ inst.w = 1 THEN 2 ELSE 1

\* Which class an opcode is of, by its number.
LEMMA OpcodesApart ==
    ASSUME NEW o
    PROVE  /\ o \in Opcode <=> \/ o \in RegMemOpcodes \/ o = IMM_TO_FROM_REG_OR_MEM
                              \/ o = MOV_IMM_TO_REG_OR_MEM \/ o = MOV_IMM_TO_REG
                              \/ o \in ImmediateToAccumulator \/ o \in AccumulatorMemory
                              \/ o \in SegmentOpcodes \/ o \in JumpOpcodes
           /\ o \in Opcodes8 <=> o \in JumpOpcodes \/ o \in SegmentOpcodes
           /\ o \in Opcodes7 <=> \/ o \in ImmediateToAccumulator \/ o \in AccumulatorMemory
                                 \/ o = MOV_IMM_TO_REG_OR_MEM
           /\ o \in Opcodes6 <=> o \in RegMemOpcodes \/ o = IMM_TO_FROM_REG_OR_MEM
           /\ o \in Opcodes4 <=> o = MOV_IMM_TO_REG
           /\ o \in ModRegRmOpcodes <=> \/ o \in RegMemOpcodes \/ o = IMM_TO_FROM_REG_OR_MEM
                                        \/ o = MOV_IMM_TO_REG_OR_MEM \/ o \in SegmentOpcodes
           /\ o \in RegMemOpcodes <=> o = 34 \/ o = 0 \/ o = 10 \/ o = 14
           /\ o \in ImmediateToAccumulator <=> o = 2 \/ o = 22 \/ o = 30
           /\ o \in AccumulatorMemory <=> o = 80 \/ o = 81
           /\ o \in SegmentOpcodes <=> o = 140 \/ o = 142
           /\ o \in JumpOpcodes <=> o \in 112..127 \/ o \in 224..227
           /\ IMM_TO_FROM_REG_OR_MEM = 32 /\ MOV_IMM_TO_REG_OR_MEM = 99 /\ MOV_IMM_TO_REG = 11
<1>1. o \in Opcode <=> \/ o \in RegMemOpcodes \/ o = IMM_TO_FROM_REG_OR_MEM
                       \/ o = MOV_IMM_TO_REG_OR_MEM \/ o = MOV_IMM_TO_REG
                       \/ o \in ImmediateToAccumulator \/ o \in AccumulatorMemory
                       \/ o \in SegmentOpcodes \/ o \in JumpOpcodes
  BY OpcodeClasses
<1>2. /\ o \in Opcodes8 <=> o \in JumpOpcodes \/ o \in SegmentOpcodes
      /\ o \in Opcodes7 <=> \/ o \in ImmediateToAccumulator \/ o \in AccumulatorMemory
                            \/ o = MOV_IMM_TO_REG_OR_MEM
      /\ o \in Opcodes6 <=> o \in RegMemOpcodes \/ o = IMM_TO_FROM_REG_OR_MEM
      /\ o \in Opcodes4 <=> o = MOV_IMM_TO_REG
      /\ o \in ModRegRmOpcodes <=> \/ o \in RegMemOpcodes \/ o = IMM_TO_FROM_REG_OR_MEM
                                   \/ o = MOV_IMM_TO_REG_OR_MEM \/ o \in SegmentOpcodes
  BY DEF Opcodes8, Opcodes7, Opcodes6, Opcodes4, ModRegRmOpcodes, ImmediateToAccumulator,
         AccumulatorMemory, SegmentOpcodes
<1>3. /\ o \in RegMemOpcodes <=> o = 34 \/ o = 0 \/ o = 10 \/ o = 14
      /\ o \in ImmediateToAccumulator <=> o = 2 \/ o = 22 \/ o = 30
      /\ o \in AccumulatorMemory <=> o = 80 \/ o = 81
      /\ o \in SegmentOpcodes <=> o = 140 \/ o = 142
      /\ o \in JumpOpcodes <=> o \in 112..127 \/ o \in 224..227
      /\ IMM_TO_FROM_REG_OR_MEM = 32 /\ MOV_IMM_TO_REG_OR_MEM = 99 /\ MOV_IMM_TO_REG = 11
  BY OpcodeClasses
<1>4. QED
  BY <1>1, <1>2, <1>3

\* The classes are apart: of an opcode of one class, that it is of no other.
LEMMA ClassesApart ==
    ASSUME NEW o
    PROVE  /\ o \in RegMemOpcodes =>
                 /\ o # IMM_TO_FROM_REG_OR_MEM /\ o # MOV_IMM_TO_REG_OR_MEM /\ o \notin SegmentOpcodes
                 /\ o # MOV_IMM_TO_REG /\ o \notin AccumulatorMemory /\ o \notin ImmediateToAccumulator
                 /\ o \notin JumpOpcodes /\ o \in ModRegRmOpcodes /\ o \notin Opcodes8
                 /\ o \notin Opcodes7 /\ o \in Opcodes6 /\ o \notin Opcodes4
                 /\ o \in Opcode
           /\ o = IMM_TO_FROM_REG_OR_MEM =>
                 /\ o \notin RegMemOpcodes /\ o # MOV_IMM_TO_REG_OR_MEM /\ o \notin SegmentOpcodes
                 /\ o # MOV_IMM_TO_REG /\ o \notin AccumulatorMemory /\ o \notin ImmediateToAccumulator
                 /\ o \notin JumpOpcodes /\ o \in ModRegRmOpcodes /\ o \notin Opcodes8
                 /\ o \notin Opcodes7 /\ o \in Opcodes6 /\ o \notin Opcodes4
                 /\ o \in Opcode
           /\ o = MOV_IMM_TO_REG_OR_MEM =>
                 /\ o \notin RegMemOpcodes /\ o # IMM_TO_FROM_REG_OR_MEM /\ o \notin SegmentOpcodes
                 /\ o # MOV_IMM_TO_REG /\ o \notin AccumulatorMemory /\ o \notin ImmediateToAccumulator
                 /\ o \notin JumpOpcodes /\ o \in ModRegRmOpcodes /\ o \notin Opcodes8
                 /\ o \in Opcodes7 /\ o \notin Opcodes6 /\ o \notin Opcodes4
                 /\ o \in Opcode
           /\ o \in SegmentOpcodes =>
                 /\ o \notin RegMemOpcodes /\ o # IMM_TO_FROM_REG_OR_MEM /\ o # MOV_IMM_TO_REG_OR_MEM
                 /\ o # MOV_IMM_TO_REG /\ o \notin AccumulatorMemory /\ o \notin ImmediateToAccumulator
                 /\ o \notin JumpOpcodes /\ o \in ModRegRmOpcodes /\ o \in Opcodes8
                 /\ o \notin Opcodes7 /\ o \notin Opcodes6 /\ o \notin Opcodes4
                 /\ o \in Opcode
           /\ o = MOV_IMM_TO_REG =>
                 /\ o \notin RegMemOpcodes /\ o # IMM_TO_FROM_REG_OR_MEM /\ o # MOV_IMM_TO_REG_OR_MEM
                 /\ o \notin SegmentOpcodes /\ o \notin AccumulatorMemory /\ o \notin ImmediateToAccumulator
                 /\ o \notin JumpOpcodes /\ o \notin ModRegRmOpcodes /\ o \notin Opcodes8
                 /\ o \notin Opcodes7 /\ o \notin Opcodes6 /\ o \in Opcodes4
                 /\ o \in Opcode
           /\ o \in AccumulatorMemory =>
                 /\ o \notin RegMemOpcodes /\ o # IMM_TO_FROM_REG_OR_MEM /\ o # MOV_IMM_TO_REG_OR_MEM
                 /\ o \notin SegmentOpcodes /\ o # MOV_IMM_TO_REG /\ o \notin ImmediateToAccumulator
                 /\ o \notin JumpOpcodes /\ o \notin ModRegRmOpcodes /\ o \notin Opcodes8
                 /\ o \in Opcodes7 /\ o \notin Opcodes6 /\ o \notin Opcodes4
                 /\ o \in Opcode
           /\ o \in ImmediateToAccumulator =>
                 /\ o \notin RegMemOpcodes /\ o # IMM_TO_FROM_REG_OR_MEM /\ o # MOV_IMM_TO_REG_OR_MEM
                 /\ o \notin SegmentOpcodes /\ o # MOV_IMM_TO_REG /\ o \notin AccumulatorMemory
                 /\ o \notin JumpOpcodes /\ o \notin ModRegRmOpcodes /\ o \notin Opcodes8
                 /\ o \in Opcodes7 /\ o \notin Opcodes6 /\ o \notin Opcodes4
                 /\ o \in Opcode
           /\ o \in JumpOpcodes =>
                 /\ o \notin RegMemOpcodes /\ o # IMM_TO_FROM_REG_OR_MEM /\ o # MOV_IMM_TO_REG_OR_MEM
                 /\ o \notin SegmentOpcodes /\ o # MOV_IMM_TO_REG /\ o \notin AccumulatorMemory
                 /\ o \notin ImmediateToAccumulator /\ o \notin ModRegRmOpcodes /\ o \in Opcodes8
                 /\ o \notin Opcodes7 /\ o \notin Opcodes6 /\ o \notin Opcodes4
                 /\ o \in Opcode
<1>1. o \in RegMemOpcodes =>
         /\ o # IMM_TO_FROM_REG_OR_MEM /\ o # MOV_IMM_TO_REG_OR_MEM /\ o \notin SegmentOpcodes
         /\ o # MOV_IMM_TO_REG /\ o \notin AccumulatorMemory /\ o \notin ImmediateToAccumulator
         /\ o \notin JumpOpcodes /\ o \in ModRegRmOpcodes /\ o \notin Opcodes8
         /\ o \notin Opcodes7 /\ o \in Opcodes6 /\ o \notin Opcodes4
         /\ o \in Opcode
  BY OpcodesApart
<1>2. o = IMM_TO_FROM_REG_OR_MEM =>
         /\ o \notin RegMemOpcodes /\ o # MOV_IMM_TO_REG_OR_MEM /\ o \notin SegmentOpcodes
         /\ o # MOV_IMM_TO_REG /\ o \notin AccumulatorMemory /\ o \notin ImmediateToAccumulator
         /\ o \notin JumpOpcodes /\ o \in ModRegRmOpcodes /\ o \notin Opcodes8
         /\ o \notin Opcodes7 /\ o \in Opcodes6 /\ o \notin Opcodes4
         /\ o \in Opcode
  BY OpcodesApart
<1>3. o = MOV_IMM_TO_REG_OR_MEM =>
         /\ o \notin RegMemOpcodes /\ o # IMM_TO_FROM_REG_OR_MEM /\ o \notin SegmentOpcodes
         /\ o # MOV_IMM_TO_REG /\ o \notin AccumulatorMemory /\ o \notin ImmediateToAccumulator
         /\ o \notin JumpOpcodes /\ o \in ModRegRmOpcodes /\ o \notin Opcodes8
         /\ o \in Opcodes7 /\ o \notin Opcodes6 /\ o \notin Opcodes4
         /\ o \in Opcode
  BY OpcodesApart
<1>4. o \in SegmentOpcodes =>
         /\ o \notin RegMemOpcodes /\ o # IMM_TO_FROM_REG_OR_MEM /\ o # MOV_IMM_TO_REG_OR_MEM
         /\ o # MOV_IMM_TO_REG /\ o \notin AccumulatorMemory /\ o \notin ImmediateToAccumulator
         /\ o \notin JumpOpcodes /\ o \in ModRegRmOpcodes /\ o \in Opcodes8
         /\ o \notin Opcodes7 /\ o \notin Opcodes6 /\ o \notin Opcodes4
         /\ o \in Opcode
  BY OpcodesApart
<1>5. o = MOV_IMM_TO_REG =>
         /\ o \notin RegMemOpcodes /\ o # IMM_TO_FROM_REG_OR_MEM /\ o # MOV_IMM_TO_REG_OR_MEM
         /\ o \notin SegmentOpcodes /\ o \notin AccumulatorMemory /\ o \notin ImmediateToAccumulator
         /\ o \notin JumpOpcodes /\ o \notin ModRegRmOpcodes /\ o \notin Opcodes8
         /\ o \notin Opcodes7 /\ o \notin Opcodes6 /\ o \in Opcodes4
         /\ o \in Opcode
  BY OpcodesApart
<1>6. o \in AccumulatorMemory =>
         /\ o \notin RegMemOpcodes /\ o # IMM_TO_FROM_REG_OR_MEM /\ o # MOV_IMM_TO_REG_OR_MEM
         /\ o \notin SegmentOpcodes /\ o # MOV_IMM_TO_REG /\ o \notin ImmediateToAccumulator
         /\ o \notin JumpOpcodes /\ o \notin ModRegRmOpcodes /\ o \notin Opcodes8
         /\ o \in Opcodes7 /\ o \notin Opcodes6 /\ o \notin Opcodes4
         /\ o \in Opcode
  BY OpcodesApart
<1>7. o \in ImmediateToAccumulator =>
         /\ o \notin RegMemOpcodes /\ o # IMM_TO_FROM_REG_OR_MEM /\ o # MOV_IMM_TO_REG_OR_MEM
         /\ o \notin SegmentOpcodes /\ o # MOV_IMM_TO_REG /\ o \notin AccumulatorMemory
         /\ o \notin JumpOpcodes /\ o \notin ModRegRmOpcodes /\ o \notin Opcodes8
         /\ o \in Opcodes7 /\ o \notin Opcodes6 /\ o \notin Opcodes4
         /\ o \in Opcode
  BY OpcodesApart
<1>8. o \in JumpOpcodes =>
         /\ o \notin RegMemOpcodes /\ o # IMM_TO_FROM_REG_OR_MEM /\ o # MOV_IMM_TO_REG_OR_MEM
         /\ o \notin SegmentOpcodes /\ o # MOV_IMM_TO_REG /\ o \notin AccumulatorMemory
         /\ o \notin ImmediateToAccumulator /\ o \notin ModRegRmOpcodes /\ o \in Opcodes8
         /\ o \notin Opcodes7 /\ o \notin Opcodes6 /\ o \notin Opcodes4
         /\ o \in Opcode
  BY OpcodesApart
<1>9. QED
  BY <1>1, <1>2, <1>3, <1>4, <1>5, <1>6, <1>7, <1>8, Zenon

\* The opcode and what is left of the first byte.
LEMMA OpcodeOfByte ==
    ASSUME NEW b \in Byte, OpcodeDecode(b) # NoOpcode
    PROVE  /\ OpcodeDecode(b) \in Opcode
           /\ OpcodeDecode(b) \in Opcodes8 => b = OpcodeDecode(b)
           /\ OpcodeDecode(b) \in Opcodes7 => b = 2 * OpcodeDecode(b) + (b % 2)
           /\ OpcodeDecode(b) \in Opcodes6 => b = 4 * OpcodeDecode(b) + 2 * ((b \div 2) % 2) + (b % 2)
           /\ OpcodeDecode(b) \in Opcodes4 => b = 16 * OpcodeDecode(b) + 8 * ((b \div 8) % 2) + (b % 8)
<1> DEFINE o == OpcodeDecode(b)
<1>2. \/ o \in Opcodes8 /\ b = o
      \/ o \in Opcodes7 /\ o = b \div 2
      \/ o \in Opcodes6 /\ o = b \div 4
      \/ o \in Opcodes4 /\ o = b \div 16
  BY DEF OpcodeDecode
<1>3. o \in Opcode
  BY <1>2 DEF Opcode
<1> HIDE DEF o
<1>4. b \in Nat /\ b < 256
  BY DEF Byte
<1>5. CASE o \in Opcodes8 /\ b = o
  <2>1. o \notin Opcodes7 /\ o \notin Opcodes6 /\ o \notin Opcodes4
    BY <1>5, OpcodesApart
  <2>2. QED
    BY <1>3, <1>5, <2>1 DEF o
<1>6. CASE o \in Opcodes7 /\ o = b \div 2
  <2>1. b = 2 * o + (b % 2)
    BY <1>4, <1>6
  <2>2. o \notin Opcodes8 /\ o \notin Opcodes6 /\ o \notin Opcodes4
    BY <1>6, OpcodesApart
  <2>3. QED
    BY <1>3, <1>6, <2>1, <2>2 DEF o
<1>7. CASE o \in Opcodes6 /\ o = b \div 4
  <2>1. b = 4 * o + 2 * ((b \div 2) % 2) + (b % 2)
    BY <1>4, <1>7
  <2>2. o \notin Opcodes8 /\ o \notin Opcodes7 /\ o \notin Opcodes4
    BY <1>7, OpcodesApart
  <2>3. QED
    BY <1>3, <1>7, <2>1, <2>2 DEF o
<1>8. CASE o \in Opcodes4 /\ o = b \div 16
  <2>1. b = 16 * o + 8 * ((b \div 8) % 2) + (b % 8)
    BY <1>4, <1>8
  <2>2. o \notin Opcodes8 /\ o \notin Opcodes7 /\ o \notin Opcodes6
    BY <1>8, OpcodesApart
  <2>3. QED
    BY <1>3, <1>8, <2>1, <2>2 DEF o
<1>9. QED
  BY <1>2, <1>5, <1>6, <1>7, <1>8

\* What is read into each field, class by class.
LEMMA DecodedFields ==
    ASSUME NEW bytes \in Seq(Byte), NEW at \in Nat, at + 2 <= Len(bytes),
           OpcodeDecode(bytes[at + 1]) # NoOpcode
    PROVE  LET inst == DecodeInstruction(bytes, at)
               o == OpcodeDecode(bytes[at + 1])
               first == bytes[at + 1]
               second == bytes[at + 2]
           IN
           /\ o \in Opcode /\ inst.opcode = o
           /\ inst.d = IF o \in RegMemOpcodes \cup AccumulatorMemory \cup ImmediateToAccumulator
                       THEN (first \div 2) % 2 ELSE 0
           /\ inst.s = IF o = IMM_TO_FROM_REG_OR_MEM THEN (first \div 2) % 2 ELSE 0
           /\ inst.w = IF o = MOV_IMM_TO_REG THEN (first \div 8) % 2
                       ELSE IF o \in Opcodes8 THEN 0 ELSE first % 2
           /\ inst.mod = IF o \in ModRegRmOpcodes THEN (second \div 64) % 4 ELSE 4
           /\ inst.reg = IF o \in ModRegRmOpcodes THEN (second \div 8) % 8
                         ELSE IF o = MOV_IMM_TO_REG THEN first % 8 ELSE 0
           /\ inst.rm = IF o \in ModRegRmOpcodes THEN second % 8
                        ELSE IF o = MOV_IMM_TO_REG THEN first % 8 ELSE 0
<1> DEFINE inst == DecodeInstruction(bytes, at)
           o == OpcodeDecode(bytes[at + 1])
           fd == FieldDisplacements(o)
<1>1. /\ inst.opcode = o /\ inst.d = Field(bytes, at, fd.d) /\ inst.s = Field(bytes, at, fd.s)
      /\ inst.w = Field(bytes, at, fd.w)
      /\ inst.mod = IF fd.mod.byteIdx < 0 THEN NONE_SENTINEL ELSE Field(bytes, at, fd.mod)
      /\ inst.reg = Field(bytes, at, fd.reg)
      /\ inst.rm = IF o = MOV_IMM_TO_REG THEN inst.reg ELSE Field(bytes, at, fd.rm)
  BY DEF DecodeInstruction
<1>2. bytes[at + 1] \in Byte /\ o \in Opcode
  BY FieldIs, OpcodeOfByte
<1>3. DEFAULT_MOD.byteIdx = 1 /\ NotSet.byteIdx = -1 /\ NONE_SENTINEL = 4
  BY DEF DEFAULT_MOD, NotSet, NONE_SENTINEL
<1> HIDE DEF inst, o
<1>5. CASE o \in RegMemOpcodes
  <2>0. fd = [ModRegRmFields EXCEPT !.d = DEFAULT_D, !.w = DEFAULT_W]
    BY <1>5, TableIs
  <2>1. /\ fd.d = DEFAULT_D /\ fd.s = NotSet /\ fd.w = DEFAULT_W /\ fd.mod = DEFAULT_MOD
        /\ fd.reg = DEFAULT_REG /\ fd.rm = DEFAULT_RM
    BY <2>0 DEF ModRegRmFields, NoFields
  <2>2. o \notin Opcodes8 /\ o # MOV_IMM_TO_REG /\ o # IMM_TO_FROM_REG_OR_MEM /\ o \in ModRegRmOpcodes
    BY <1>5, ClassesApart, Zenon
  <2> HIDE DEF fd
  <2>3. QED
    BY <1>1, <1>2, <1>3, <1>5, <2>1, <2>2, FieldIs DEF o, inst
<1>6. CASE o = IMM_TO_FROM_REG_OR_MEM
  <2>0. fd = [ModRegRmFields EXCEPT !.s = DEFAULT_S, !.w = DEFAULT_W, !.data = TRUE]
    BY <1>6, TableIs
  <2>1. /\ fd.d = NotSet /\ fd.s = DEFAULT_S /\ fd.w = DEFAULT_W /\ fd.mod = DEFAULT_MOD
        /\ fd.reg = DEFAULT_REG /\ fd.rm = DEFAULT_RM
    BY <2>0 DEF ModRegRmFields, NoFields
  <2>2. /\ o \notin Opcodes8 /\ o # MOV_IMM_TO_REG /\ o \in ModRegRmOpcodes
        /\ o \notin RegMemOpcodes /\ o \notin AccumulatorMemory /\ o \notin ImmediateToAccumulator
    BY <1>6, ClassesApart, Zenon
  <2> HIDE DEF fd
  <2>3. QED
    BY <1>1, <1>2, <1>3, <1>6, <2>1, <2>2, FieldIs DEF o, inst
<1>7. CASE o = MOV_IMM_TO_REG_OR_MEM
  <2>0. fd = [ModRegRmFields EXCEPT !.w = DEFAULT_W, !.data = TRUE]
    BY <1>7, TableIs
  <2>1. /\ fd.d = NotSet /\ fd.s = NotSet /\ fd.w = DEFAULT_W /\ fd.mod = DEFAULT_MOD
        /\ fd.reg = DEFAULT_REG /\ fd.rm = DEFAULT_RM
    BY <2>0 DEF ModRegRmFields, NoFields
  <2>2. /\ o \notin Opcodes8 /\ o # MOV_IMM_TO_REG /\ o # IMM_TO_FROM_REG_OR_MEM /\ o \in ModRegRmOpcodes
        /\ o \notin RegMemOpcodes /\ o \notin AccumulatorMemory /\ o \notin ImmediateToAccumulator
    BY <1>7, ClassesApart, Zenon
  <2> HIDE DEF fd
  <2>3. QED
    BY <1>1, <1>2, <1>3, <1>7, <2>1, <2>2, FieldIs DEF o, inst
<1>8. CASE o \in SegmentOpcodes
  <2>0. fd = ModRegRmFields
    BY <1>8, TableIs
  <2>1. /\ fd.d = NotSet /\ fd.s = NotSet /\ fd.w = NotSet /\ fd.mod = DEFAULT_MOD
        /\ fd.reg = DEFAULT_REG /\ fd.rm = DEFAULT_RM
    BY <2>0 DEF ModRegRmFields, NoFields
  <2>2. /\ o \in Opcodes8 /\ o # MOV_IMM_TO_REG /\ o # IMM_TO_FROM_REG_OR_MEM /\ o \in ModRegRmOpcodes
        /\ o \notin RegMemOpcodes /\ o \notin AccumulatorMemory /\ o \notin ImmediateToAccumulator
    BY <1>8, ClassesApart, Zenon
  <2> HIDE DEF fd
  <2>3. QED
    BY <1>1, <1>2, <1>3, <1>8, <2>1, <2>2, FieldIs DEF o, inst
<1>9. CASE o = MOV_IMM_TO_REG
  <2>0. fd = ImmToRegFields
    BY <1>9, TableIs
  <2>1. /\ fd.d = NotSet /\ fd.s = NotSet /\ fd.w = ImmToRegFields.w /\ fd.mod = NotSet
        /\ fd.reg = ImmToRegFields.reg
    BY <2>0 DEF ImmToRegFields, NoFields
  <2>2. /\ o # IMM_TO_FROM_REG_OR_MEM /\ o \notin ModRegRmOpcodes
        /\ o \notin RegMemOpcodes /\ o \notin AccumulatorMemory /\ o \notin ImmediateToAccumulator
    BY <1>9, ClassesApart, Zenon
  <2> HIDE DEF fd
  <2>3. QED
    BY <1>1, <1>2, <1>3, <1>9, <2>1, <2>2, FieldIs DEF o, inst
<1>10. CASE o \in AccumulatorMemory \cup ImmediateToAccumulator
  <2>0. fd = AccumulatorFields \/ fd = [AccumulatorFields EXCEPT !.fixedWord = FIXED_SIZE_WORD]
    BY <1>10, TableIs
  <2>1. /\ fd.d = DEFAULT_D /\ fd.s = NotSet /\ fd.w = DEFAULT_W /\ fd.mod = NotSet
        /\ fd.reg = NotSet /\ fd.rm = NotSet
    BY <2>0 DEF AccumulatorFields, NoFields
  <2>2. /\ o \notin Opcodes8 /\ o # MOV_IMM_TO_REG /\ o # IMM_TO_FROM_REG_OR_MEM /\ o \notin ModRegRmOpcodes
    BY <1>10, ClassesApart, Zenon
  <2> HIDE DEF fd
  <2>3. QED
    BY <1>1, <1>2, <1>3, <1>10, <2>1, <2>2, FieldIs DEF o, inst
<1>11. CASE o \in JumpOpcodes
  <2>0. fd = DEFAULT_JMP
    BY <1>11, TableIs
  <2>1. /\ fd.d = NotSet /\ fd.s = NotSet /\ fd.w = NotSet /\ fd.mod = NotSet
        /\ fd.reg = NotSet /\ fd.rm = NotSet
    BY <2>0 DEF DEFAULT_JMP, NoFields
  <2>2. /\ o \in Opcodes8 /\ o # MOV_IMM_TO_REG /\ o # IMM_TO_FROM_REG_OR_MEM /\ o \notin ModRegRmOpcodes
        /\ o \notin RegMemOpcodes /\ o \notin AccumulatorMemory /\ o \notin ImmediateToAccumulator
    BY <1>11, ClassesApart, Zenon
  <2> HIDE DEF fd
  <2>3. QED
    BY <1>1, <1>2, <1>3, <1>11, <2>1, <2>2, FieldIs DEF o, inst
<1>12. QED
  BY <1>2, <1>5, <1>6, <1>7, <1>8, <1>9, <1>10, <1>11, OpcodesApart

\* The bytes after the header: displacement, then data.
LEMMA DecodedBytes ==
    ASSUME NEW bytes \in Seq(Byte), NEW at \in Nat, at + 2 <= Len(bytes),
           OpcodeDecode(bytes[at + 1]) # NoOpcode
    PROVE  LET inst == DecodeInstruction(bytes, at)
               header == HeaderBytes(inst)
               disp == DispLengthOf(inst)
               data == DataLengthOf(inst)
           IN
           /\ inst.disp = LowHigh(bytes, at + header, disp)
           /\ inst.data = LowHigh(bytes, at + header + disp, data)
           /\ inst.byteCount = header + disp + data
           /\ header \in 1..2 /\ disp \in 0..2 /\ data \in 0..2
<1> DEFINE inst == DecodeInstruction(bytes, at)
           o == OpcodeDecode(bytes[at + 1])
           fd == FieldDisplacements(o)
           header == HeaderLength(fd)
           disp == DispLength(fd, inst.mod, inst.rm)
           data == DataLength(fd, inst.s, inst.w)
<1>1. /\ inst.disp = LowHigh(bytes, at + header, disp)
      /\ inst.data = LowHigh(bytes, at + header + disp, data)
      /\ inst.byteCount = header + disp + data
  BY DEF DecodeInstruction
<1>2. o \in Opcode /\ inst.opcode = o
  BY DecodedFields
<1>3. inst.s \in 0..1
  <2>1. bytes[at + 1] \in Byte
    BY FieldIs
  <2>2. inst.s = 0 \/ inst.s = (bytes[at + 1] \div 2) % 2
    BY DecodedFields
  <2> HIDE DEF inst
  <2>3. QED
    BY <2>1, <2>2 DEF Byte
<1>4. /\ DEFAULT_RM.byteIdx = 1 /\ NotSet.byteIdx = -1 /\ DEFAULT_REG.byteIdx = 1
      /\ NO_FIXED_SIZE = -1 /\ FIXED_SIZE_BYTE = 0 /\ FIXED_SIZE_WORD = 1
  BY DEF DEFAULT_RM, NotSet, DEFAULT_REG, NO_FIXED_SIZE, FIXED_SIZE_BYTE, FIXED_SIZE_WORD
<1> HIDE DEF inst, o
\* What the row of the class says of the three lengths.
<1>5. /\ fd.rm.byteIdx = IF o \in ModRegRmOpcodes THEN 1 ELSE -1
      /\ fd.disp <=> o \in ModRegRmOpcodes
      /\ fd.data <=> o \notin RegMemOpcodes \cup SegmentOpcodes
      /\ fd.fixedWord = IF o \in AccumulatorMemory THEN 1 ELSE IF o \in JumpOpcodes THEN 0 ELSE -1
  <2>1. CASE o \in RegMemOpcodes
    <3>0. fd = [ModRegRmFields EXCEPT !.d = DEFAULT_D, !.w = DEFAULT_W]
      BY <2>1, TableIs
    <3>1. fd.rm = DEFAULT_RM /\ fd.disp = TRUE /\ fd.data = FALSE /\ fd.fixedWord = NO_FIXED_SIZE
      BY <3>0 DEF ModRegRmFields, NoFields
    <3>2. o \in ModRegRmOpcodes /\ o \notin AccumulatorMemory /\ o \notin JumpOpcodes
      BY <2>1, ClassesApart, Zenon
    <3> HIDE DEF fd
    <3>3. QED
      BY <1>4, <2>1, <3>1, <3>2
  <2>2. CASE o = IMM_TO_FROM_REG_OR_MEM
    <3>0. fd = [ModRegRmFields EXCEPT !.s = DEFAULT_S, !.w = DEFAULT_W, !.data = TRUE]
      BY <2>2, TableIs
    <3>1. fd.rm = DEFAULT_RM /\ fd.disp = TRUE /\ fd.data = TRUE /\ fd.fixedWord = NO_FIXED_SIZE
      BY <3>0 DEF ModRegRmFields, NoFields
    <3>2. /\ o \in ModRegRmOpcodes /\ o \notin AccumulatorMemory /\ o \notin JumpOpcodes
          /\ o \notin RegMemOpcodes /\ o \notin SegmentOpcodes
      BY <2>2, ClassesApart, Zenon
    <3> HIDE DEF fd
    <3>3. QED
      BY <1>4, <3>1, <3>2
  <2>3. CASE o = MOV_IMM_TO_REG_OR_MEM
    <3>0. fd = [ModRegRmFields EXCEPT !.w = DEFAULT_W, !.data = TRUE]
      BY <2>3, TableIs
    <3>1. fd.rm = DEFAULT_RM /\ fd.disp = TRUE /\ fd.data = TRUE /\ fd.fixedWord = NO_FIXED_SIZE
      BY <3>0 DEF ModRegRmFields, NoFields
    <3>2. /\ o \in ModRegRmOpcodes /\ o \notin AccumulatorMemory /\ o \notin JumpOpcodes
          /\ o \notin RegMemOpcodes /\ o \notin SegmentOpcodes
      BY <2>3, ClassesApart, Zenon
    <3> HIDE DEF fd
    <3>3. QED
      BY <1>4, <3>1, <3>2
  <2>4. CASE o \in SegmentOpcodes
    <3>0. fd = ModRegRmFields
      BY <2>4, TableIs
    <3>1. fd.rm = DEFAULT_RM /\ fd.disp = TRUE /\ fd.data = FALSE /\ fd.fixedWord = NO_FIXED_SIZE
      BY <3>0 DEF ModRegRmFields, NoFields
    <3>2. o \in ModRegRmOpcodes /\ o \notin AccumulatorMemory /\ o \notin JumpOpcodes
      BY <2>4, ClassesApart, Zenon
    <3> HIDE DEF fd
    <3>3. QED
      BY <1>4, <2>4, <3>1, <3>2
  <2>5. CASE o = MOV_IMM_TO_REG
    <3>0. fd = ImmToRegFields
      BY <2>5, TableIs
    <3>1. fd.rm = NotSet /\ fd.disp = FALSE /\ fd.data = TRUE /\ fd.fixedWord = NO_FIXED_SIZE
      BY <3>0 DEF ImmToRegFields, NoFields
    <3>2. /\ o \notin ModRegRmOpcodes /\ o \notin AccumulatorMemory /\ o \notin JumpOpcodes
          /\ o \notin RegMemOpcodes /\ o \notin SegmentOpcodes
      BY <2>5, ClassesApart, Zenon
    <3> HIDE DEF fd
    <3>3. QED
      BY <1>4, <3>1, <3>2
  <2>6. CASE o \in AccumulatorMemory
    <3>0. fd = [AccumulatorFields EXCEPT !.fixedWord = FIXED_SIZE_WORD]
      BY <2>6, TableIs
    <3>1. fd.rm = NotSet /\ fd.disp = FALSE /\ fd.data = TRUE /\ fd.fixedWord = FIXED_SIZE_WORD
      BY <3>0 DEF AccumulatorFields, NoFields
    <3>2. o \notin ModRegRmOpcodes /\ o \notin RegMemOpcodes /\ o \notin SegmentOpcodes
      BY <2>6, ClassesApart, Zenon
    <3> HIDE DEF fd
    <3>3. QED
      BY <1>4, <2>6, <3>1, <3>2
  <2>7. CASE o \in ImmediateToAccumulator
    <3>0. fd = AccumulatorFields
      BY <2>7, TableIs
    <3>1. fd.rm = NotSet /\ fd.disp = FALSE /\ fd.data = TRUE /\ fd.fixedWord = NO_FIXED_SIZE
      BY <3>0 DEF AccumulatorFields, NoFields
    <3>2. /\ o \notin ModRegRmOpcodes /\ o \notin AccumulatorMemory /\ o \notin JumpOpcodes
          /\ o \notin RegMemOpcodes /\ o \notin SegmentOpcodes
      BY <2>7, ClassesApart, Zenon
    <3> HIDE DEF fd
    <3>3. QED
      BY <1>4, <3>1, <3>2
  <2>8. CASE o \in JumpOpcodes
    <3>0. fd = DEFAULT_JMP
      BY <2>8, TableIs
    <3>1. fd.rm = NotSet /\ fd.disp = FALSE /\ fd.data = TRUE /\ fd.fixedWord = FIXED_SIZE_BYTE
      BY <3>0 DEF DEFAULT_JMP, NoFields
    <3>2. /\ o \notin ModRegRmOpcodes /\ o \notin AccumulatorMemory
          /\ o \notin RegMemOpcodes /\ o \notin SegmentOpcodes
      BY <2>8, ClassesApart, Zenon
    <3> HIDE DEF fd
    <3>3. QED
      BY <1>4, <2>8, <3>1, <3>2
  <2>9. QED
    BY <1>2, <2>1, <2>2, <2>3, <2>4, <2>5, <2>6, <2>7, <2>8, OpcodesApart
<1> HIDE DEF fd
<1>6. header = HeaderBytes(inst) /\ header \in 1..2
  BY <1>2, <1>5 DEF HeaderLength, HeaderBytes
<1>7. disp = DispLengthOf(inst) /\ disp \in 0..2
  <2>1. disp = IF fd.disp /\ inst.mod = 1 THEN 1
               ELSE IF fd.disp /\ (inst.mod = 2 \/ (inst.mod = 0 /\ inst.rm = 6)) THEN 2 ELSE 0
    <3>1. /\ Is8bitDisplacement(inst.mod) <=> inst.mod = 1
          /\ Is16bitDisplacement(inst.mod) <=> inst.mod = 2
          /\ IsDirectAddrMode(inst.mod, inst.rm) <=> inst.mod = 0 /\ inst.rm = 6
      BY DEF Is8bitDisplacement, Is16bitDisplacement, IsDirectAddrMode, MEMORY_NO_DISPLACEMENT,
             MEMORY_8_BIT_DISPLACEMENT, MEMORY_16_BIT_DISPLACEMENT
    <3>2. disp = CASE fd.disp /\ inst.mod = 1 -> 1
                   [] fd.disp /\ (inst.mod = 2 \/ (inst.mod = 0 /\ inst.rm = 6)) -> 2
                   [] OTHER -> 0
      BY <3>1, Zenon DEF DispLength
    <3>3. CASE fd.disp /\ inst.mod = 1
      <4>1. inst.mod # 2 /\ inst.mod # 0
        BY <3>3
      <4>2. QED
        BY <3>2, <3>3, <4>1, Zenon
    <3>4. CASE fd.disp /\ (inst.mod = 2 \/ (inst.mod = 0 /\ inst.rm = 6))
      <4>1. inst.mod # 1
        BY <3>4
      <4>2. QED
        BY <3>2, <3>4, <4>1, Zenon
    <3>5. CASE ~(fd.disp /\ inst.mod = 1) /\ ~(fd.disp /\ (inst.mod = 2 \/ (inst.mod = 0 /\ inst.rm = 6)))
      BY <3>2, <3>5, Zenon
    <3>6. QED
      BY <3>3, <3>4, <3>5
  <2>2. QED
    BY <1>2, <1>5, <2>1 DEF DispLengthOf
<1>8. data = DataLengthOf(inst) /\ data \in 0..2
  <2>1. o \in AccumulatorMemory \cup JumpOpcodes => o \notin RegMemOpcodes \cup SegmentOpcodes
    BY ClassesApart, Zenon
  <2>2. o \in JumpOpcodes => o \notin AccumulatorMemory
    BY ClassesApart, Zenon
  <2>3. QED
    BY <1>2, <1>3, <1>4, <1>5, <2>1, <2>2 DEF DataLength, DataIsWord, DataLengthOf
<1>9. QED
  BY <1>1, <1>6, <1>7, <1>8 DEF inst

\* The operation of each opcode.
LEMMA TypeIs ==
    ASSUME NEW o \in Opcode, NEW reg
    PROVE  /\ o \in JumpOpcodes => TypeOfOpcode(o, reg) \in JumpTypes
           /\ o = IMM_TO_FROM_REG_OR_MEM => TypeOfOpcode(o, reg) \in ArithmeticTypes \cup {"UNKNOWN"}
           /\ o \notin JumpOpcodes /\ o # IMM_TO_FROM_REG_OR_MEM =>
                 TypeOfOpcode(o, reg) \in {"MOV"} \cup ArithmeticTypes
<1> DEFINE add == {ADD_REG_OR_MEM_WITH_REG_TO_EDIT, ADD_IMM_TO_ACC}
           sub == {SUB_REG_OR_MEM_WITH_REG_TO_EDIT, SUB_IMM_FROM_ACC}
           cmp == {CMP_REG_OR_MEM_WITH_REG, CMP_IMM_WITH_ACC}
           byReg == CASE reg = 0 -> "ADD" [] reg = 5 -> "SUB" [] reg = 7 -> "CMP" [] OTHER -> "UNKNOWN"
<1>1. /\ o \in add <=> o = 0 \/ o = 2
      /\ o \in sub <=> o = 10 \/ o = 22
      /\ o \in cmp <=> o = 14 \/ o = 30
      /\ o \in ConditionalJumps <=> o \in 112..127
      /\ o \in LoopJumps <=> o \in 224..227
      /\ o = IMM_TO_FROM_REG_OR_MEM <=> o = 32
      /\ o \in JumpOpcodes <=> o \in 112..127 \/ o \in 224..227
  BY DEF ADD_REG_OR_MEM_WITH_REG_TO_EDIT, ADD_IMM_TO_ACC, SUB_REG_OR_MEM_WITH_REG_TO_EDIT,
         SUB_IMM_FROM_ACC, CMP_REG_OR_MEM_WITH_REG, CMP_IMM_WITH_ACC, ConditionalJumps, LoopJumps,
         IMM_TO_FROM_REG_OR_MEM, JumpOpcodes
<1> HIDE DEF add, sub, cmp
<1>2. byReg \in ArithmeticTypes \cup {"UNKNOWN"}
  <2>1. CASE reg = 0
    <3>1. reg # 5 /\ reg # 7
      BY <2>1
    <3>2. byReg = "ADD"
      BY <2>1, <3>1, Zenon
    <3>3. QED
      BY <3>2 DEF ArithmeticTypes
  <2>2. CASE reg = 5
    <3>1. reg # 0 /\ reg # 7
      BY <2>2
    <3>2. byReg = "SUB"
      BY <2>2, <3>1, Zenon
    <3>3. QED
      BY <3>2 DEF ArithmeticTypes
  <2>3. CASE reg = 7
    <3>1. reg # 0 /\ reg # 5
      BY <2>3
    <3>2. byReg = "CMP"
      BY <2>3, <3>1, Zenon
    <3>3. QED
      BY <3>2 DEF ArithmeticTypes
  <2>4. CASE reg # 0 /\ reg # 5 /\ reg # 7
    <3>1. byReg = "UNKNOWN"
      BY <2>4, Zenon
    <3>2. QED
      BY <3>1
  <2>5. QED
    BY <2>1, <2>2, <2>3, <2>4
<1> HIDE DEF byReg
<1>3. TypeOfOpcode(o, reg) =
        CASE o \in ConditionalJumps -> ConditionalJumpType[o - 111]
          [] o \in LoopJumps -> LoopJumpType[o - 223]
          [] o \in add -> "ADD"
          [] o \in sub -> "SUB"
          [] o \in cmp -> "CMP"
          [] o = IMM_TO_FROM_REG_OR_MEM -> byReg
          [] OTHER -> "MOV"
  BY Zenon DEF TypeOfOpcode, add, sub, cmp, byReg
<1>4. CASE o \in ConditionalJumps
  <2>1. /\ o \notin LoopJumps /\ o \notin add /\ o \notin sub /\ o \notin cmp
        /\ o # IMM_TO_FROM_REG_OR_MEM /\ o \in JumpOpcodes
    BY <1>1, <1>4
  <2>2. TypeOfOpcode(o, reg) = ConditionalJumpType[o - 111]
    BY <1>3, <1>4, <2>1, Zenon
  <2>3. o - 111 \in 1..16
    BY <1>1, <1>4
  <2>4. \A k \in 1..16 : ConditionalJumpType[k] \in JumpTypes
    BY DEF ConditionalJumpType, JumpTypes
  <2>5. QED
    BY <2>1, <2>2, <2>3, <2>4
<1>5. CASE o \in LoopJumps
  <2>1. /\ o \notin ConditionalJumps /\ o \notin add /\ o \notin sub /\ o \notin cmp
        /\ o # IMM_TO_FROM_REG_OR_MEM /\ o \in JumpOpcodes
    BY <1>1, <1>5
  <2>2. TypeOfOpcode(o, reg) = LoopJumpType[o - 223]
    BY <1>3, <1>5, <2>1, Zenon
  <2>3. o - 223 \in 1..4
    BY <1>1, <1>5
  <2>4. \A k \in 1..4 : LoopJumpType[k] \in JumpTypes
    BY DEF LoopJumpType, JumpTypes
  <2>5. QED
    BY <2>1, <2>2, <2>3, <2>4
<1>6. CASE o \in add \/ o \in sub \/ o \in cmp
  <2>1. /\ o \notin ConditionalJumps /\ o \notin LoopJumps /\ o # IMM_TO_FROM_REG_OR_MEM
        /\ o \notin JumpOpcodes
        /\ o \in add => o \notin sub /\ o \notin cmp
        /\ o \in sub => o \notin add /\ o \notin cmp
        /\ o \in cmp => o \notin add /\ o \notin sub
    BY <1>1, <1>6
  <2>2. TypeOfOpcode(o, reg) = "ADD" \/ TypeOfOpcode(o, reg) = "SUB" \/ TypeOfOpcode(o, reg) = "CMP"
    BY <1>3, <1>6, <2>1, Zenon
  <2>3. QED
    BY <2>1, <2>2 DEF ArithmeticTypes
<1>7. CASE o = IMM_TO_FROM_REG_OR_MEM
  <2>1. /\ o \notin ConditionalJumps /\ o \notin LoopJumps /\ o \notin JumpOpcodes
        /\ o \notin add /\ o \notin sub /\ o \notin cmp
    BY <1>1, <1>7
  <2>2. TypeOfOpcode(o, reg) = byReg
    BY <1>3, <1>7, <2>1, Zenon
  <2>3. QED
    BY <1>2, <1>7, <2>1, <2>2
<1>8. CASE /\ o \notin ConditionalJumps /\ o \notin LoopJumps /\ o # IMM_TO_FROM_REG_OR_MEM
           /\ o \notin add /\ o \notin sub /\ o \notin cmp
  <2>1. TypeOfOpcode(o, reg) = "MOV"
    BY <1>3, <1>8, Zenon
  <2>2. o \notin JumpOpcodes
    BY <1>8 DEF JumpOpcodes
  <2>3. QED
    BY <1>8, <2>1, <2>2
<1>9. QED
  BY <1>4, <1>5, <1>6, <1>7, <1>8

\* The operands of each opcode.
LEMMA OperandsAre ==
    ASSUME NEW o \in Opcode, NEW mod \in Mod, NEW d
    PROVE  LET operands == OperandsOfOpcode(o, mod, d) IN
           /\ o \in JumpOpcodes => operands = "ShortLabel"
           /\ o \in RegMemOpcodes =>
                 operands = IF mod = 3 THEN "Register_Register"
                            ELSE IF d = 1 THEN "Memory_Register" ELSE "Register_Memory"
           /\ o \in {IMM_TO_FROM_REG_OR_MEM, MOV_IMM_TO_REG_OR_MEM} =>
                 operands = IF mod \in 0..2 THEN "Memory_Immediate" ELSE "Register_Immediate"
           /\ o = MOV_IMM_TO_REG => operands = "Register_Immediate"
           /\ o \in AccumulatorMemory => operands \in {"Memory_Accumulator", "Accumulator_Memory"}
           /\ o = MOV_MEM_TO_ACC => operands = "Memory_Accumulator"
           /\ o = MOV_ACC_TO_MEM => operands = "Accumulator_Memory"
           /\ o \in ImmediateToAccumulator => operands = "Accumulator_Immediate"
           /\ o \in SegmentOpcodes =>
                 operands \in IF mod = 3 THEN {"Register16_SegReg", "SegReg_Register16"}
                                         ELSE {"Memory_SegReg", "SegReg_Memory16"}
<1> DEFINE immediate == {IMM_TO_FROM_REG_OR_MEM, MOV_IMM_TO_REG_OR_MEM}
           load == MOV_MEM_TO_ACC
           store == MOV_ACC_TO_MEM
           toSeg == MOV_REG_OR_MEMORY_TO_SEGMENT_REG
           fromSeg == MOV_SEGMENT_REG_TO_REG_OR_MEMORY
           regMem == IF mod = 3 THEN "Register_Register"
                     ELSE IF d = 1 THEN "Memory_Register" ELSE "Register_Memory"
           byImmediate == IF mod \in 0..2 THEN "Memory_Immediate" ELSE "Register_Immediate"
           byToSeg == IF mod = 3 THEN "Register16_SegReg" ELSE "Memory_SegReg"
           byFromSeg == IF mod = 3 THEN "SegReg_Register16" ELSE "SegReg_Memory16"
<1>1. /\ IsRegToReg(mod) <=> mod = 3
      /\ IsEffectiveAddrCalc(mod) <=> mod \in 0..2
  BY DEF IsRegToReg, IsEffectiveAddrCalc, Mod, NONE_SENTINEL, REGISTER_TO_REGISTER_NO_DISPLACEMENT
<1>2. OperandsOfOpcode(o, mod, d) =
        CASE o \in JumpOpcodes -> "ShortLabel"
          [] o \in RegMemOpcodes -> regMem
          [] o \in immediate -> byImmediate
          [] o = MOV_IMM_TO_REG -> "Register_Immediate"
          [] o = load -> "Memory_Accumulator"
          [] o = store -> "Accumulator_Memory"
          [] o \in ImmediateToAccumulator -> "Accumulator_Immediate"
          [] o = toSeg -> byToSeg
          [] o = fromSeg -> byFromSeg
  BY <1>1, Zenon DEF OperandsOfOpcode, ImmediateToAccumulator
<1>3. /\ o \in immediate <=> o = IMM_TO_FROM_REG_OR_MEM \/ o = MOV_IMM_TO_REG_OR_MEM
      /\ o \in AccumulatorMemory <=> o = load \/ o = store
      /\ o \in SegmentOpcodes <=> o = toSeg \/ o = fromSeg
      /\ load # store /\ toSeg # fromSeg
  BY DEF AccumulatorMemory, SegmentOpcodes, MOV_MEM_TO_ACC, MOV_ACC_TO_MEM,
         MOV_REG_OR_MEMORY_TO_SEGMENT_REG, MOV_SEGMENT_REG_TO_REG_OR_MEMORY
<1> HIDE DEF immediate, load, store, toSeg, fromSeg, regMem, byImmediate, byToSeg, byFromSeg
<1>4. o \in JumpOpcodes => OperandsOfOpcode(o, mod, d) = "ShortLabel"
  BY <1>2, <1>3, ClassesApart, Zenon
<1>5. o \in RegMemOpcodes => OperandsOfOpcode(o, mod, d) = regMem
  BY <1>2, <1>3, ClassesApart, Zenon
<1>6. o \in immediate => OperandsOfOpcode(o, mod, d) = byImmediate
  BY <1>2, <1>3, ClassesApart, Zenon
<1>7. o = MOV_IMM_TO_REG => OperandsOfOpcode(o, mod, d) = "Register_Immediate"
  BY <1>2, <1>3, ClassesApart, Zenon
<1>8. /\ o = load => OperandsOfOpcode(o, mod, d) = "Memory_Accumulator"
      /\ o = store => OperandsOfOpcode(o, mod, d) = "Accumulator_Memory"
  BY <1>2, <1>3, ClassesApart, Zenon
<1>9. o \in ImmediateToAccumulator => OperandsOfOpcode(o, mod, d) = "Accumulator_Immediate"
  BY <1>2, <1>3, ClassesApart, Zenon
<1>10. /\ o = toSeg => OperandsOfOpcode(o, mod, d) = byToSeg
       /\ o = fromSeg => OperandsOfOpcode(o, mod, d) = byFromSeg
  BY <1>2, <1>3, ClassesApart, Zenon
<1>11. QED
  BY <1>3, <1>4, <1>5, <1>6, <1>7, <1>8, <1>9, <1>10 DEF immediate, load, store, regMem, byImmediate, byToSeg, byFromSeg

\* An instruction whose operation is known is an instruction: what the decoder
\* hands to the listing and to the emulator has the shape both rely on.
LEMMA DecodedIsInstruction ==
    ASSUME NEW bytes \in Seq(Byte), NEW at \in Nat, at + 6 <= Len(bytes),
           OpcodeDecode(bytes[at + 1]) # NoOpcode,
           DecodeInstruction(bytes, at).type # "UNKNOWN"
    PROVE  DecodeInstruction(bytes, at) \in Instruction
<1> DEFINE inst == DecodeInstruction(bytes, at)
           o == OpcodeDecode(bytes[at + 1])
<1>0. at + 2 <= Len(bytes) /\ Len(bytes) \in Nat
  OBVIOUS
<1>1. /\ o \in Opcode /\ inst.opcode = o
      /\ inst.d \in 0..1 /\ inst.s \in 0..1 /\ inst.w \in 0..1
      /\ inst.mod \in Mod /\ inst.reg \in 0..7 /\ inst.rm \in 0..7
      /\ o \notin ModRegRmOpcodes => inst.mod = 4
      /\ o \in ModRegRmOpcodes => inst.mod \in 0..3
      /\ o \notin ModRegRmOpcodes /\ o # MOV_IMM_TO_REG => inst.rm = 0
      /\ o # IMM_TO_FROM_REG_OR_MEM => inst.s = 0
  <2> DEFINE first == bytes[at + 1]
             second == bytes[at + 2]
  <2>1. /\ o \in Opcode /\ inst.opcode = o
        /\ inst.d = IF o \in RegMemOpcodes \cup AccumulatorMemory \cup ImmediateToAccumulator
                    THEN (first \div 2) % 2 ELSE 0
        /\ inst.s = IF o = IMM_TO_FROM_REG_OR_MEM THEN (first \div 2) % 2 ELSE 0
        /\ inst.w = IF o = MOV_IMM_TO_REG THEN (first \div 8) % 2
                    ELSE IF o \in Opcodes8 THEN 0 ELSE first % 2
        /\ inst.mod = IF o \in ModRegRmOpcodes THEN (second \div 64) % 4 ELSE 4
        /\ inst.reg = IF o \in ModRegRmOpcodes THEN (second \div 8) % 8
                      ELSE IF o = MOV_IMM_TO_REG THEN first % 8 ELSE 0
        /\ inst.rm = IF o \in ModRegRmOpcodes THEN second % 8
                     ELSE IF o = MOV_IMM_TO_REG THEN first % 8 ELSE 0
    BY <1>0, DecodedFields
  <2>2. first \in Nat /\ second \in Nat
    BY <1>0, FieldIs DEF Byte
  <2> HIDE DEF inst, o, first, second
  <2>3. /\ (first \div 2) % 2 \in 0..1 /\ (first \div 8) % 2 \in 0..1 /\ first % 2 \in 0..1
        /\ first % 8 \in 0..7 /\ (second \div 64) % 4 \in 0..3 /\ (second \div 8) % 8 \in 0..7
        /\ second % 8 \in 0..7
    BY <2>2
  <2>4. QED
    BY <2>1, <2>3 DEF Mod
<1>2. /\ inst.disp = LowHigh(bytes, at + HeaderBytes(inst), DispLengthOf(inst))
      /\ inst.data = LowHigh(bytes, at + HeaderBytes(inst) + DispLengthOf(inst), DataLengthOf(inst))
      /\ inst.byteCount = HeaderBytes(inst) + DispLengthOf(inst) + DataLengthOf(inst)
      /\ HeaderBytes(inst) \in 1..2 /\ DispLengthOf(inst) \in 0..2 /\ DataLengthOf(inst) \in 0..2
  BY <1>0, DecodedBytes
<1>3. ASSUME NEW from \in Nat, NEW n \in 0..2, from + n <= Len(bytes)
      PROVE  LowHigh(bytes, from, n) \in Byte \X Byte
  <2>1. 0 \in Byte
    BY DEF Byte
  <2>2. n > 0 => bytes[from + 1] \in Byte
    BY <1>3
  <2>3. n > 1 => bytes[from + 2] \in Byte
    BY <1>3
  <2>4. QED
    BY <2>1, <2>2, <2>3 DEF LowHigh
<1>4. inst.disp \in Byte \X Byte /\ inst.data \in Byte \X Byte /\ inst.byteCount \in 1..6
  <2> DEFINE h == HeaderBytes(inst)
             p == DispLengthOf(inst)
             q == DataLengthOf(inst)
  <2>1. h \in 1..2 /\ p \in 0..2 /\ q \in 0..2
    BY <1>2
  <2>2. inst.disp = LowHigh(bytes, at + h, p) /\ inst.data = LowHigh(bytes, at + h + p, q)
        /\ inst.byteCount = h + p + q
    BY <1>2
  <2> HIDE DEF h, p, q, inst
  <2>3. at + h \in Nat /\ at + h + p <= Len(bytes) /\ at + h + p \in Nat /\ at + h + p + q <= Len(bytes)
    BY <1>0, <2>1
  <2>4. QED
    BY <1>3, <2>1, <2>2, <2>3
<1>5. inst.type = TypeOfOpcode(o, inst.reg) /\ inst.operands = OperandsOfOpcode(o, inst.mod, inst.d)
  BY DEF DecodeInstruction
<1>6. inst \in [opcode : {inst.opcode}, d : {inst.d}, s : {inst.s}, w : {inst.w}, mod : {inst.mod},
                reg : {inst.reg}, rm : {inst.rm}, disp : {inst.disp}, data : {inst.data},
                type : {inst.type}, operands : {inst.operands}, byteCount : {inst.byteCount}]
  BY Zenon DEF DecodeInstruction
<1>7. inst.type # "UNKNOWN"
  OBVIOUS
<1>8. /\ inst.operands \in Operands
      /\ inst.operands = "ShortLabel" <=> o \in JumpOpcodes
      /\ inst.operands \in {"Memory_Register", "Register_Memory", "Memory_Immediate"} =>
            inst.mod \in 0..2
      /\ inst.operands \in {"Memory_Accumulator", "Accumulator_Memory"} => o \in AccumulatorMemory
      /\ o = IMM_TO_FROM_REG_OR_MEM => inst.operands \in {"Register_Immediate", "Memory_Immediate"}
  <2>1. inst.mod \in Mod /\ o \in Opcode
    BY <1>1
  <2> HIDE DEF inst, o
  <2>2. /\ o \in JumpOpcodes => inst.operands = "ShortLabel"
        /\ o \in RegMemOpcodes =>
              inst.operands = IF inst.mod = 3 THEN "Register_Register"
                              ELSE IF inst.d = 1 THEN "Memory_Register" ELSE "Register_Memory"
        /\ o \in {IMM_TO_FROM_REG_OR_MEM, MOV_IMM_TO_REG_OR_MEM} =>
              inst.operands = IF inst.mod \in 0..2 THEN "Memory_Immediate" ELSE "Register_Immediate"
        /\ o = MOV_IMM_TO_REG => inst.operands = "Register_Immediate"
        /\ o \in AccumulatorMemory => inst.operands \in {"Memory_Accumulator", "Accumulator_Memory"}
        /\ o \in ImmediateToAccumulator => inst.operands = "Accumulator_Immediate"
        /\ o \in SegmentOpcodes =>
              inst.operands \in IF inst.mod = 3 THEN {"Register16_SegReg", "SegReg_Register16"}
                                                ELSE {"Memory_SegReg", "SegReg_Memory16"}
    BY <1>5, <2>1, OperandsAre
  <2>3. /\ o \in RegMemOpcodes => o \in ModRegRmOpcodes /\ o \notin JumpOpcodes
        /\ o \in {IMM_TO_FROM_REG_OR_MEM, MOV_IMM_TO_REG_OR_MEM} => o \notin JumpOpcodes
        /\ o = MOV_IMM_TO_REG => o \notin JumpOpcodes
        /\ o \in AccumulatorMemory \cup ImmediateToAccumulator \cup SegmentOpcodes => o \notin JumpOpcodes
    BY ClassesApart
  <2>4. /\ o \in RegMemOpcodes => inst.mod \in 0..3
        /\ inst.mod \in 0..3 /\ inst.mod # 3 => inst.mod \in 0..2
    BY <1>1, <2>3
  <2>5. \/ o \in RegMemOpcodes \/ o \in {IMM_TO_FROM_REG_OR_MEM, MOV_IMM_TO_REG_OR_MEM}
        \/ o = MOV_IMM_TO_REG \/ o \in AccumulatorMemory \/ o \in ImmediateToAccumulator
        \/ o \in SegmentOpcodes \/ o \in JumpOpcodes
    BY <2>1, OpcodesApart
  <2>6. CASE o \in RegMemOpcodes
    BY <2>2, <2>3, <2>4, <2>6 DEF Operands
  <2>7. CASE o \in {IMM_TO_FROM_REG_OR_MEM, MOV_IMM_TO_REG_OR_MEM}
    BY <2>2, <2>3, <2>7 DEF Operands
  <2>8. CASE o = MOV_IMM_TO_REG
    BY <2>2, <2>3, <2>8 DEF Operands
  <2>9. CASE o \in AccumulatorMemory
    BY <2>2, <2>3, <2>9 DEF Operands
  <2>10. CASE o \in ImmediateToAccumulator
    BY <2>2, <2>3, <2>10 DEF Operands
  <2>11. CASE o \in SegmentOpcodes
    BY <2>2, <2>3, <2>11 DEF Operands
  <2>12. CASE o \in JumpOpcodes
    BY <2>2, <2>12 DEF Operands
  <2>13. QED
    BY <2>5, <2>6, <2>7, <2>8, <2>9, <2>10, <2>11, <2>12
<1>9. /\ inst.type \in InstType
      /\ inst.type \in JumpTypes <=> o \in JumpOpcodes
      /\ o = IMM_TO_FROM_REG_OR_MEM => inst.type \in ArithmeticTypes
  <2>1. o \in Opcode
    BY <1>1
  <2> HIDE DEF inst, o
  <2>2. /\ o \in JumpOpcodes => inst.type \in JumpTypes
        /\ o = IMM_TO_FROM_REG_OR_MEM => inst.type \in ArithmeticTypes \cup {"UNKNOWN"}
        /\ o \notin JumpOpcodes /\ o # IMM_TO_FROM_REG_OR_MEM =>
              inst.type \in {"MOV"} \cup ArithmeticTypes
    BY <1>5, <2>1, TypeIs
  <2>3. o = IMM_TO_FROM_REG_OR_MEM => o \notin JumpOpcodes
    BY ClassesApart, Zenon
  <2>4. \A t \in {"MOV"} \cup ArithmeticTypes : t \notin JumpTypes
    BY DEF ArithmeticTypes, JumpTypes
  <2>5. QED
    BY <1>7, <2>2, <2>3, <2>4 DEF InstType
<1> HIDE DEF inst, o
<1>10. inst \in InstructionFields
  <2>1. /\ inst.opcode \in Opcode /\ inst.d \in 0..1 /\ inst.s \in 0..1 /\ inst.w \in 0..1
        /\ inst.mod \in Mod /\ inst.reg \in 0..7 /\ inst.rm \in 0..7
        /\ inst.disp \in Byte \X Byte /\ inst.data \in Byte \X Byte
        /\ inst.type \in InstType /\ inst.operands \in Operands /\ inst.byteCount \in 1..6
    BY <1>1, <1>4, <1>8, <1>9
  <2>2. QED
    BY <1>6, <2>1, Zenon DEF InstructionFields
<1>11. /\ inst.s = 1 => o = IMM_TO_FROM_REG_OR_MEM
       /\ o \in AccumulatorMemory => inst.mod = 4 /\ inst.rm = 0
  <2>1. o \in AccumulatorMemory => o \notin ModRegRmOpcodes /\ o # MOV_IMM_TO_REG
    BY ClassesApart, Zenon
  <2>2. QED
    BY <1>1, <2>1
<1>12. inst.mod \in 0..2 => IsEffectiveAddrCalc(inst.mod)
  BY DEF IsEffectiveAddrCalc, NONE_SENTINEL, REGISTER_TO_REGISTER_NO_DISPLACEMENT
<1>13. inst.type \in JumpTypes <=> inst.operands = "ShortLabel"
  BY <1>8, <1>9
<1>14. inst.s = 1 => /\ inst.type \in ArithmeticTypes
                     /\ inst.operands \in {"Register_Immediate", "Memory_Immediate"}
  BY <1>8, <1>9, <1>11
<1>15. inst.operands \in {"Memory_Register", "Register_Memory", "Memory_Immediate"} =>
         IsEffectiveAddrCalc(inst.mod)
  BY <1>8, <1>12
<1>16. inst.operands \in {"Memory_Accumulator", "Accumulator_Memory"} =>
         inst.mod = NONE_SENTINEL /\ inst.rm = 0
  BY <1>8, <1>11 DEF NONE_SENTINEL
<1>17. QED
  <2>1. inst \in Instruction
    BY <1>10, <1>13, <1>14, <1>15, <1>16, Zenon DEF Instruction
  <2>2. QED
    BY <2>1, Zenon DEF inst
=============================================================================
