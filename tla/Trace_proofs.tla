---------------------------- MODULE Trace_proofs -----------------------------
(***************************************************************************)
(* The trace tells the whole step, for every program: the letters of the   *)
(* flags say what SetFlags did to FLAGS, the new value of the destination  *)
(* what the operand's cell holds, and nothing else changes.                *)
(***************************************************************************)
EXTENDS Trace, Emulator_proofs

(***************************************************************************)
(* The letters and FLAGS.                                                  *)
(***************************************************************************)
\* A flag's letter is printed when the flag is set.
LEMMA LettersTell ==
    ASSUME NEW flags
    PROVE  LET read == AllFlags(FlagLetters(flags)) IN
           /\ read \in SixFlags
           /\ read.carry <=> IsFlagSet(flags, CPU_FLAG_CARRY_FLAG)
           /\ read.parity <=> IsFlagSet(flags, CPU_FLAG_PARITY_FLAG)
           /\ read.auxCarry <=> IsFlagSet(flags, CPU_FLAG_AUX_CARRY_FLAG)
           /\ read.zero <=> IsFlagSet(flags, CPU_FLAG_ZERO_FLAG)
           /\ read.sign <=> IsFlagSet(flags, CPU_FLAG_SIGN_FLAG)
           /\ read.overflow <=> IsFlagSet(flags, CPU_FLAG_OVERFLOW_FLAG)
<1> DEFINE letters == FlagLetters(flags)
           FlagOf(letter) == CASE letter = "C" -> CPU_FLAG_CARRY_FLAG
                               [] letter = "P" -> CPU_FLAG_PARITY_FLAG
                               [] letter = "A" -> CPU_FLAG_AUX_CARRY_FLAG
                               [] letter = "Z" -> CPU_FLAG_ZERO_FLAG
                               [] letter = "S" -> CPU_FLAG_SIGN_FLAG
                               [] letter = "O" -> CPU_FLAG_OVERFLOW_FLAG
<1>1. /\ FlagOf("C") = CPU_FLAG_CARRY_FLAG /\ FlagOf("P") = CPU_FLAG_PARITY_FLAG
      /\ FlagOf("A") = CPU_FLAG_AUX_CARRY_FLAG /\ FlagOf("Z") = CPU_FLAG_ZERO_FLAG
      /\ FlagOf("S") = CPU_FLAG_SIGN_FLAG /\ FlagOf("O") = CPU_FLAG_OVERFLOW_FLAG
  BY Zenon
<1>2. \A letter \in {"C", "P", "A", "Z", "S", "O"} :
         letter \in letters <=> IsFlagSet(flags, FlagOf(letter))
  BY Zenon DEF FlagLetters
<1> HIDE DEF letters, FlagOf
<1>3. /\ "C" \in letters <=> IsFlagSet(flags, CPU_FLAG_CARRY_FLAG)
      /\ "P" \in letters <=> IsFlagSet(flags, CPU_FLAG_PARITY_FLAG)
      /\ "A" \in letters <=> IsFlagSet(flags, CPU_FLAG_AUX_CARRY_FLAG)
      /\ "Z" \in letters <=> IsFlagSet(flags, CPU_FLAG_ZERO_FLAG)
      /\ "S" \in letters <=> IsFlagSet(flags, CPU_FLAG_SIGN_FLAG)
      /\ "O" \in letters <=> IsFlagSet(flags, CPU_FLAG_OVERFLOW_FLAG)
  BY <1>1, <1>2, Zenon
<1> DEFINE read == AllFlags(letters)
<1>4. /\ read.carry = ("C" \in letters) /\ read.parity = ("P" \in letters)
      /\ read.auxCarry = ("A" \in letters) /\ read.zero = ("Z" \in letters)
      /\ read.sign = ("S" \in letters) /\ read.overflow = ("O" \in letters)
  BY Zenon DEF AllFlags
<1>5. read \in SixFlags
  <2> DEFINE c == "C" \in letters
             p == "P" \in letters
             a == "A" \in letters
             z == "Z" \in letters
             s == "S" \in letters
             o == "O" \in letters
  <2>1. /\ c \in BOOLEAN /\ p \in BOOLEAN /\ a \in BOOLEAN
        /\ z \in BOOLEAN /\ s \in BOOLEAN /\ o \in BOOLEAN
    OBVIOUS
  <2>2. read = [carry |-> c, parity |-> p, auxCarry |-> a, zero |-> z, sign |-> s, overflow |-> o]
    BY Zenon DEF AllFlags
  <2> HIDE DEF c, p, a, z, s, o, read
  <2>3. read = [sign |-> s, zero |-> z, carry |-> c, overflow |-> o, parity |-> p, auxCarry |-> a]
    BY <2>2
  <2>4. QED
    BY <2>1, <2>3, Zenon DEF SixFlags
<1> HIDE DEF read
<1>6. QED
  BY <1>3, <1>4, <1>5, Zenon DEF read, letters

\* SetFlags depends on the six values, and changes no flag that has its value.
LEMMA SetFlagsSame ==
    ASSUME NEW g \in Word, NEW f \in SixFlags,
           f.carry <=> IsFlagSet(g, CPU_FLAG_CARRY_FLAG),
           f.parity <=> IsFlagSet(g, CPU_FLAG_PARITY_FLAG),
           f.auxCarry <=> IsFlagSet(g, CPU_FLAG_AUX_CARRY_FLAG),
           f.zero <=> IsFlagSet(g, CPU_FLAG_ZERO_FLAG),
           f.sign <=> IsFlagSet(g, CPU_FLAG_SIGN_FLAG),
           f.overflow <=> IsFlagSet(g, CPU_FLAG_OVERFLOW_FLAG)
    PROVE  SetFlags(g, f) = g
<1>1. ASSUME NEW flag \in FlagValues, NEW value, value <=> IsFlagSet(g, flag)
      PROVE  SetFlag(g, flag, value) = 0
  <2>1. BitOf(flag, value) = BitOf(flag, IsFlagSet(g, flag))
    BY <1>1, Zenon DEF BitOf
  <2>2. BitOf(flag, value) \in Int
    BY FlagsDiffer DEF BitOf, FlagValues
  <2>3. QED
    BY <2>1, <2>2 DEF SetFlag
<1>2. /\ SetFlag(g, CPU_FLAG_CARRY_FLAG, f.carry) = 0
      /\ SetFlag(g, CPU_FLAG_PARITY_FLAG, f.parity) = 0
      /\ SetFlag(g, CPU_FLAG_AUX_CARRY_FLAG, f.auxCarry) = 0
      /\ SetFlag(g, CPU_FLAG_ZERO_FLAG, f.zero) = 0
      /\ SetFlag(g, CPU_FLAG_SIGN_FLAG, f.sign) = 0
      /\ SetFlag(g, CPU_FLAG_OVERFLOW_FLAG, f.overflow) = 0
  BY <1>1, FlagsAreFlagValues, Zenon
<1>3. QED
  BY <1>2 DEF SetFlags, Word

LEMMA SetFlagsByValue ==
    ASSUME NEW g, NEW f \in SixFlags, NEW e \in SixFlags,
           f.carry <=> e.carry, f.parity <=> e.parity, f.auxCarry <=> e.auxCarry,
           f.zero <=> e.zero, f.sign <=> e.sign, f.overflow <=> e.overflow
    PROVE  SetFlags(g, f) = SetFlags(g, e)
<1>1. /\ f = [sign |-> f.sign, zero |-> f.zero, carry |-> f.carry,
              overflow |-> f.overflow, parity |-> f.parity, auxCarry |-> f.auxCarry]
      /\ e = [sign |-> e.sign, zero |-> e.zero, carry |-> e.carry,
              overflow |-> e.overflow, parity |-> e.parity, auxCarry |-> e.auxCarry]
      /\ f.carry \in BOOLEAN /\ f.parity \in BOOLEAN /\ f.auxCarry \in BOOLEAN
      /\ f.zero \in BOOLEAN /\ f.sign \in BOOLEAN /\ f.overflow \in BOOLEAN
      /\ e.carry \in BOOLEAN /\ e.parity \in BOOLEAN /\ e.auxCarry \in BOOLEAN
      /\ e.zero \in BOOLEAN /\ e.sign \in BOOLEAN /\ e.overflow \in BOOLEAN
  BY Zenon DEF SixFlags
<1>2. /\ f.carry = e.carry /\ f.parity = e.parity /\ f.auxCarry = e.auxCarry
      /\ f.zero = e.zero /\ f.sign = e.sign /\ f.overflow = e.overflow
  BY <1>1, Zenon
<1>3. f = e
  BY <1>1, <1>2, Zenon
<1>4. QED
  BY <1>3

\* Whoever sets the flags that a line shows gets the FLAGS the line was printed
\* with, whether the step set flags or not.
LEMMA FlagsReadBack ==
    ASSUME NEW g \in Word, NEW h \in Word, h = g \/ \E f \in SixFlags : h = SetFlags(g, f)
    PROVE  SetFlags(g, AllFlags(FlagLetters(h))) = h
<1> DEFINE read == AllFlags(FlagLetters(h))
<1>1. /\ read \in SixFlags
      /\ read.carry <=> IsFlagSet(h, CPU_FLAG_CARRY_FLAG)
      /\ read.parity <=> IsFlagSet(h, CPU_FLAG_PARITY_FLAG)
      /\ read.auxCarry <=> IsFlagSet(h, CPU_FLAG_AUX_CARRY_FLAG)
      /\ read.zero <=> IsFlagSet(h, CPU_FLAG_ZERO_FLAG)
      /\ read.sign <=> IsFlagSet(h, CPU_FLAG_SIGN_FLAG)
      /\ read.overflow <=> IsFlagSet(h, CPU_FLAG_OVERFLOW_FLAG)
  BY LettersTell, Zenon
<1> HIDE DEF read
<1>2. CASE h = g
  <2>1. SetFlags(h, read) = h
    BY <1>1, SetFlagsSame, Zenon
  <2>2. QED
    BY <1>2, <2>1 DEF read
<1>3. CASE \E f \in SixFlags : h = SetFlags(g, f)
  <2>1. PICK f \in SixFlags : h = SetFlags(g, f)
    BY <1>3
  <2>2. /\ IsFlagSet(h, CPU_FLAG_CARRY_FLAG) <=> f.carry
        /\ IsFlagSet(h, CPU_FLAG_PARITY_FLAG) <=> f.parity
        /\ IsFlagSet(h, CPU_FLAG_AUX_CARRY_FLAG) <=> f.auxCarry
        /\ IsFlagSet(h, CPU_FLAG_ZERO_FLAG) <=> f.zero
        /\ IsFlagSet(h, CPU_FLAG_SIGN_FLAG) <=> f.sign
        /\ IsFlagSet(h, CPU_FLAG_OVERFLOW_FLAG) <=> f.overflow
    BY <2>1, SetFlagsExact, Zenon
  <2>3. SetFlags(g, read) = SetFlags(g, f)
    BY <1>1, <2>2, SetFlagsByValue, Zenon
  <2>4. QED
    BY <2>1, <2>3 DEF read
<1>4. QED
  BY <1>2, <1>3

-----------------------------------------------------------------------------
(***************************************************************************)
(* The registers and the memory.                                           *)
(***************************************************************************)
\* The last part of RegistersRead, from registers that differ only in IP and
\* FLAGS.
LEMMA RegistersReadBack ==
    ASSUME NEW base \in [RegisterType -> Word], NEW after \in [RegisterType -> Word],
           \A q \in RegisterType : q \notin {IP, FLAGS} => after[q] = base[q],
           \/ after[FLAGS] = base[FLAGS]
           \/ \E f \in SixFlags : after[FLAGS] = SetFlags(base[FLAGS], f)
    PROVE  after = [base EXCEPT ![IP] = after[IP],
                                ![FLAGS] = SetFlags(base[FLAGS], AllFlags(FlagLetters(after[FLAGS])))]
<1>1. IP \in RegisterType /\ FLAGS \in RegisterType /\ IP # FLAGS
  BY DEF IP, FLAGS, RegisterType
<1>2. base[FLAGS] \in Word /\ after[FLAGS] \in Word
  BY <1>1
<1>3. SetFlags(base[FLAGS], AllFlags(FlagLetters(after[FLAGS]))) = after[FLAGS]
  BY <1>2, FlagsReadBack
<1> DEFINE right == [base EXCEPT ![IP] = after[IP],
                ![FLAGS] = SetFlags(base[FLAGS], AllFlags(FlagLetters(after[FLAGS])))]
<1>4. right = [q \in RegisterType |-> IF q = FLAGS THEN after[FLAGS]
                                      ELSE IF q = IP THEN after[IP] ELSE base[q]]
  BY <1>1, <1>3
<1>5. right = [q \in RegisterType |-> after[q]]
  <2> HIDE DEF right
  <2> QED
    BY <1>1, <1>4
<1>6. QED
  BY <1>5

\* The instruction whose line is printed is the one at IP.
LEMMA OneIsCurrent ==
    ASSUME program \in Seq(Instruction), NEW k \in DOMAIN program, AtIp(k)
    PROVE  Current = {program[k]} /\ (CHOOSE i \in Current : TRUE) = program[k]
<1>1. {i \in DOMAIN program : AtIp(i)} = {k}
  BY OneAtIp
<1>2. Current = {program[k]}
  BY <1>1 DEF Current
<1>3. QED
  BY <1>2

\* What a step with operands does: it writes v to the operand's cell, and sets
\* the six flags or leaves FLAGS alone.
LEMMA OperandWrite ==
    ASSUME TypeOK, NEW inst \in Instruction,
           EmulateMov(inst) \/ EmulateAdd(inst) \/ EmulateSub(inst)
    PROVE  LET cell == DestCell(inst) IN
           /\ inst.type \notin LoopJumps16 /\ inst.operands # "ShortLabel" /\ cell \in Cell
           /\ \E v \in Word :
                /\ memory' = MemoryWith(cell, v)
                /\ \/ registers' = Advance(RegistersWith(cell, v), inst, 0)
                   \/ \E f \in SixFlags :
                        registers' = Advance([RegistersWith(cell, v) EXCEPT
                                                ![FLAGS] = SetFlags(registers[FLAGS], f)], inst, 0)
<1> DEFINE cell == DestCell(inst)
           dst == DestOf(inst)
           src == SourceOf(inst)
<1>1. OperandsReady(inst) /\ inst.type \notin JumpTypes /\ inst.type \notin LoopJumps16
  BY DEF EmulateMov, EmulateAdd, EmulateSub, JumpTypes, LoopJumps16
<1>2. inst.operands # "ShortLabel"
  BY <1>1, InstructionTypes
<1>3. RegistersOK /\ MemoryOK
  BY DEF TypeOK, RegistersOK, MemoryOK
<1>4. cell \in Cell
  BY <1>1, <1>2, <1>3, DestCellType
<1>5. Read(cell) \in Word
  <2>1. 0 \in Word
    BY DEF Word
  <2>2. QED
    BY <1>3, <1>4, <2>1, CellTypes
<1>6. dst \in Dest /\ src \in Source
  BY <1>1, <1>2, <1>3, DestOfType, SourceOfType
<1>7. registers[FLAGS] \in Word
  BY <1>3 DEF RegistersOK, FLAGS, RegisterType
<1>8. /\ MovResult(dst, src, Read(cell)) \in Word /\ AddResult(dst, src, Read(cell)) \in Word
      /\ SubResult(dst, src, Read(cell)) \in Word /\ SubStored(inst, cell) \in Word
  BY <1>5, <1>6, <1>7, ResultTypes DEF SubStored
<1>9. /\ AddFlags(Values(dst), PartOf(dst, Read(cell)), SourceValue(dst, src)) \in SixFlags
      /\ SubFlags(Values(dst), PartOf(dst, Read(cell)), SourceValue(dst, src)) \in SixFlags
  BY <1>5, <1>6, OperandTypes, FlagsType DEF Fits
<1> HIDE DEF cell, dst, src
<1>10. CASE EmulateMov(inst)
  BY <1>1, <1>2, <1>4, <1>8, <1>10 DEF EmulateMov, cell, dst, src
<1>11. CASE EmulateAdd(inst)
  BY <1>1, <1>2, <1>4, <1>8, <1>9, <1>11 DEF EmulateAdd, AddFlagsResult, cell, dst, src
<1>12. CASE EmulateSub(inst)
  BY <1>1, <1>2, <1>4, <1>8, <1>9, <1>12 DEF EmulateSub, SubFlagsResult, cell, dst, src
<1>13. QED
  BY <1>10, <1>11, <1>12

\* What a line of the trace says of its step.
Tells(line) ==
    /\ registers' = RegistersRead(registers, line)
    /\ memory' = MemoryRead(memory, line)
    /\ \A k \in DOMAIN line.dest : line.dest[k].old = Read(line.dest[k].cell)

LEMMA OperandLineTells ==
    ASSUME TypeOK, TypeOK', NEW inst \in Instruction,
           EmulateMov(inst) \/ EmulateAdd(inst) \/ EmulateSub(inst)
    PROVE  Tells(TraceLine(inst))
<1> DEFINE cell == DestCell(inst)
           r == cell.at
           line == TraceLine(inst)
           new == NewValue(inst, cell)
           base == IF cell.inMemory THEN registers ELSE [registers EXCEPT ![r] = new]
<1>1. /\ inst.type \notin LoopJumps16 /\ inst.operands # "ShortLabel" /\ cell \in Cell
  BY OperandWrite
<1>2. PICK v \in Word :
         /\ memory' = MemoryWith(cell, v)
         /\ \/ registers' = Advance(RegistersWith(cell, v), inst, 0)
            \/ \E f \in SixFlags :
                 registers' = Advance([RegistersWith(cell, v) EXCEPT
                                         ![FLAGS] = SetFlags(registers[FLAGS], f)], inst, 0)
  BY OperandWrite
<1>3. /\ registers \in [RegisterType -> Word] /\ registers' \in [RegisterType -> Word]
      /\ memory \in [Address -> Byte] /\ memory' \in [Address -> Byte]
  BY DEF TypeOK
<1>4. /\ line.dest = << [cell |-> cell, old |-> Read(cell), new |-> new] >>
      /\ line.inst = inst /\ line.nextIp = registers'[IP] /\ line.flags = FlagLetters(registers'[FLAGS])
  BY <1>1 DEF TraceLine, Destination
<1> HIDE DEF line
<1>5. /\ DOMAIN line.dest = {1} /\ line.dest # <<>>
      /\ line.dest[1].cell = cell /\ line.dest[1].new = new /\ line.dest[1].old = Read(cell)
  BY <1>4
<1>6. IP \in RegisterType /\ FLAGS \in RegisterType /\ IP # FLAGS
  BY DEF IP, FLAGS, RegisterType
<1>7. \/ cell.inMemory = FALSE /\ r \in RegisterType
      \/ cell.inMemory = TRUE /\ r \in Address /\ r + 1 \in Address /\ r # r + 1
  <2>1. CASE cell \in [inMemory : {FALSE}, at : RegisterType]
    BY <2>1
  <2>2. CASE cell \in [inMemory : {TRUE}, at : 0..(EMULATOR_MEMORY_SIZE - 2)]
    <3>1. cell.inMemory = TRUE /\ r \in 0..(EMULATOR_MEMORY_SIZE - 2)
      BY <2>2
    <3>2. QED
      BY <3>1, EmulatorConstants DEF Address, EmulatorConstants
  <2>3. QED
    BY <1>1, <2>1, <2>2 DEF Cell
<1> HIDE DEF cell, r
<1>8. WritesRegister(line) <=> ~cell.inMemory
  BY <1>5 DEF WritesRegister
<1>9. memory' = MemoryRead(memory, line)
  <2>1. CASE cell.inMemory = FALSE
    BY <1>2, <1>5, <1>8, <2>1 DEF MemoryRead, MemoryWith
  <2>2. CASE cell.inMemory = TRUE
    <3>1. memory' = [memory EXCEPT ![r] = LowPart(v), ![r + 1] = HighPart(v)]
      BY <1>2, <2>2 DEF MemoryWith, r
    <3>2. r \in Address /\ r + 1 \in Address /\ r # r + 1
      BY <1>7, <2>2
    <3>3. memory'[r] = LowPart(v) /\ memory'[r + 1] = HighPart(v)
      BY <1>3, <3>1, <3>2
    <3>4. new = CombineWord(LowPart(v), HighPart(v))
      BY <2>2, <3>3 DEF NewValue, r
    <3>5. new = v
      BY <3>4, PartsRoundTrip
    <3>6. MemoryRead(memory, line) = [memory EXCEPT ![r] = LowPart(new), ![r + 1] = HighPart(new)]
      BY <1>5, <1>8, <2>2 DEF MemoryRead, r
    <3>7. QED
      BY <3>1, <3>5, <3>6
  <2>3. QED
    BY <1>7, <2>1, <2>2
<1>10. base \in [RegisterType -> Word]
  <2>1. cell.inMemory = FALSE => new \in Word
    <3>1. IpBeforeAdvance(inst) \in Word
      <4>1. registers'[IP] \in Int /\ registers[IP] \in Word
        BY <1>3, <1>6 DEF Word
      <4>2. registers'[IP] - inst.byteCount \in Int
        BY <4>1, InstructionTypes
      <4>3. ToU16(registers'[IP] - inst.byteCount) \in Word
        BY <4>2, PartTypes
      <4>4. QED
        BY <4>1, <4>3 DEF IpBeforeAdvance
    <3>2. QED
      BY <1>3, <1>7, <3>1 DEF NewValue, r
  <2>2. QED
    BY <1>3, <1>7, <2>1
<1>11. RegistersRead(registers, line) =
          [base EXCEPT ![IP] = registers'[IP],
                       ![FLAGS] = SetFlags(base[FLAGS], AllFlags(FlagLetters(registers'[FLAGS])))]
  BY <1>1, <1>4, <1>5, <1>7, <1>8 DEF RegistersRead, r
<1>12. \A q \in RegisterType : q \notin {IP, FLAGS} => registers'[q] = base[q]
  <2>1. SUFFICES ASSUME NEW q \in RegisterType, q # IP, q # FLAGS
                 PROVE  registers'[q] = base[q]
    OBVIOUS
  <2>2. registers'[q] = RegistersWith(cell, v)[q]
    <3>1. RegistersWith(cell, v) \in [RegisterType -> Word]
      BY <1>1, CellTypes DEF TypeOK, RegistersOK, MemoryOK, cell
    <3>2. QED
      BY <1>2, <1>6, <2>1, <3>1 DEF Advance
  <2>3. CASE cell.inMemory = TRUE
    BY <2>2, <2>3 DEF RegistersWith
  <2>4. CASE cell.inMemory = FALSE /\ q = r
    <3>1. new = registers'[r]
      BY <2>1, <2>4 DEF NewValue, r
    <3>2. QED
      BY <1>3, <2>1, <2>4, <3>1
  <2>5. CASE cell.inMemory = FALSE /\ q # r
    BY <1>3, <2>1, <2>2, <2>5 DEF RegistersWith, r
  <2>6. QED
    BY <1>7, <2>3, <2>4, <2>5
<1>13. \/ registers'[FLAGS] = base[FLAGS]
       \/ \E f \in SixFlags : registers'[FLAGS] = SetFlags(base[FLAGS], f)
  <2>1. CASE cell.inMemory = FALSE /\ r = FLAGS
    <3>1. new = registers'[FLAGS]
      BY <1>6, <2>1 DEF NewValue, r
    <3>2. QED
      BY <1>3, <1>6, <2>1, <3>1
  <2>2. CASE cell.inMemory = TRUE \/ r # FLAGS
    <3>1. base[FLAGS] = registers[FLAGS]
      BY <1>3, <1>6, <1>7, <2>2
    <3>2. /\ RegistersWith(cell, v) \in [RegisterType -> Word]
          /\ RegistersWith(cell, v)[FLAGS] = registers[FLAGS]
      <4>1. RegistersWith(cell, v) \in [RegisterType -> Word]
        BY <1>1, CellTypes DEF TypeOK, RegistersOK, MemoryOK, cell
      <4>2. QED
        BY <1>3, <1>6, <1>7, <2>2, <4>1 DEF RegistersWith, r
    <3>3. CASE registers' = Advance(RegistersWith(cell, v), inst, 0)
      <4>1. registers'[FLAGS] = registers[FLAGS]
        BY <1>6, <3>2, <3>3 DEF Advance
      <4>2. QED
        BY <3>1, <4>1
    <3>4. CASE \E f \in SixFlags :
                 registers' = Advance([RegistersWith(cell, v) EXCEPT
                                         ![FLAGS] = SetFlags(registers[FLAGS], f)], inst, 0)
      <4>1. PICK f \in SixFlags :
                 registers' = Advance([RegistersWith(cell, v) EXCEPT
                                         ![FLAGS] = SetFlags(registers[FLAGS], f)], inst, 0)
        BY <3>4
      <4>2. registers'[FLAGS] = SetFlags(registers[FLAGS], f)
        BY <1>6, <3>2, <4>1 DEF Advance
      <4>3. QED
        BY <3>1, <4>2
    <3>5. QED
      BY <1>2, <3>3, <3>4
  <2>3. QED
    BY <1>7, <2>1, <2>2
<1> HIDE DEF base
<1>14. registers' = RegistersRead(registers, line)
  BY <1>3, <1>10, <1>11, <1>12, <1>13, RegistersReadBack
<1>15. QED
  BY <1>5, <1>9, <1>14 DEF Tells, line

\* A jump prints no destination; the reader counts CX down with a loop.
LEMMA JumpLineTells ==
    ASSUME TypeOK, TypeOK', NEW inst \in Instruction, EmulateFlagJump(inst) \/ EmulateLoop(inst)
    PROVE  Tells(TraceLine(inst))
<1> DEFINE line == TraceLine(inst)
           base == JumpRegisters(inst)
<1>1. /\ inst.operands = "ShortLabel"
      /\ base \in [RegisterType -> Word]
      /\ registers' = Advance(base, inst, JumpDelta(inst, base))
      /\ memory' = memory
  BY JumpStep
<1>2. /\ line.dest = <<>> /\ line.inst = inst
      /\ line.nextIp = registers'[IP] /\ line.flags = FlagLetters(registers'[FLAGS])
  BY <1>1 DEF TraceLine, Destination
<1>3. ~WritesRegister(line)
  BY <1>2 DEF WritesRegister
<1> HIDE DEF line
<1>4. RegistersRead(registers, line) =
          [base EXCEPT ![IP] = registers'[IP],
                       ![FLAGS] = SetFlags(base[FLAGS], AllFlags(FlagLetters(registers'[FLAGS])))]
  BY <1>2, <1>3 DEF RegistersRead, JumpRegisters
<1> HIDE DEF base
<1>5. registers' \in [RegisterType -> Word]
  BY DEF TypeOK
<1>6. IP \in RegisterType /\ FLAGS \in RegisterType /\ IP # FLAGS
  BY DEF IP, FLAGS, RegisterType
<1>7. /\ \A q \in RegisterType : q \notin {IP, FLAGS} => registers'[q] = base[q]
      /\ registers'[FLAGS] = base[FLAGS]
  BY <1>1, <1>6 DEF Advance
<1>8. registers' = RegistersRead(registers, line)
  <2>1. base \in [RegisterType -> Word]
    BY <1>1
  <2>2. QED
    BY <1>4, <1>5, <1>7, <2>1, RegistersReadBack
<1>9. memory' = MemoryRead(memory, line)
  BY <1>1, <1>2 DEF MemoryRead
<1>10. QED
  BY <1>2, <1>8, <1>9 DEF Tells, line

\* A step prints one line, which tells it, or none and changes nothing.
LEMMA StepIsTold ==
    ASSUME TypeOK, TypeOK', Next
    PROVE  \/ TraceOfStep = <<>> /\ UNCHANGED <<registers, memory>>
           \/ \E inst \in Instruction :
                 TraceOfStep = << TraceLine(inst) >> /\ Tells(TraceLine(inst))
<1>1. CASE Stop
  <2>1. TraceOfStep = <<>>
    BY <1>1 DEF Stop, TraceOfStep
  <2>2. UNCHANGED <<registers, memory>>
    BY <1>1 DEF Stop
  <2>3. QED
    BY <2>1, <2>2
<1>2. CASE \E k \in DOMAIN program : AtIp(k) /\ EmulateNext(program[k])
  <2>1. PICK k \in DOMAIN program : AtIp(k) /\ EmulateNext(program[k])
    BY <1>2
  <2> DEFINE inst == program[k]
  <2>2. Current = {inst} /\ (CHOOSE i \in Current : TRUE) = inst /\ inst \in Instruction
    <3>1. program \in Seq(Instruction)
      BY DEF TypeOK
    <3>2. QED
      BY <2>1, <3>1, OneIsCurrent
  <2>3. EmulateNext(inst)
    BY <2>1
  <2> HIDE DEF inst
  <2>4. CASE EmulateMov(inst) \/ EmulateAdd(inst) \/ EmulateSub(inst)
             \/ EmulateFlagJump(inst) \/ EmulateLoop(inst)
    <3>1. Tells(TraceLine(inst))
      BY <2>2, <2>4, OperandLineTells, JumpLineTells
    <3>2. status' = "running"
      BY <2>4 DEF Next, EmulateMov, EmulateAdd, EmulateSub, EmulateFlagJump, EmulateLoop
    <3>3. ~Unsupported(inst)
      <4>1. CASE EmulateMov(inst) \/ EmulateAdd(inst) \/ EmulateSub(inst)
        BY <4>1 DEF EmulateMov, EmulateAdd, EmulateSub, Unsupported, OperandsReady, JumpTypes
      <4>2. CASE EmulateFlagJump(inst) \/ EmulateLoop(inst)
        <5>1. inst.operands = "ShortLabel" /\ inst.type \in FlagJumps \cup LoopJumps16
          BY <2>2, <4>2, JumpStep DEF EmulateFlagJump, EmulateLoop
        <5>2. QED
          BY <5>1 DEF Unsupported, UnsupportedOperands
      <4>3. QED
        BY <2>4, <4>1, <4>2
    <3>4. TraceOfStep = << TraceLine(inst) >>
      BY <2>2, <3>2, <3>3 DEF TraceOfStep
    <3>5. QED
      BY <2>2, <3>1, <3>4
  <2>5. CASE EmulateUnsupported(inst) \/ PanicOnAddress(inst) \/ UndefinedRegister(inst)
    <3>1. UNCHANGED <<registers, memory>>
      BY <2>5, EarlyReturn
    <3>2. TraceOfStep = <<>>
      BY <2>2, <2>5 DEF TraceOfStep, EmulateUnsupported, PanicOnAddress, UndefinedRegister
    <3>3. QED
      BY <3>1, <3>2
  <2>6. QED
    BY <2>3, <2>4, <2>5 DEF EmulateNext
<1>3. QED
  BY <1>1, <1>2 DEF Next

\* A reader of the trace who starts from the same registers and memory follows
\* the emulator exactly, in every program and whatever it does with FLAGS: no
\* line leaves anything out, and a step without a line changes nothing.
THEOREM TheTraceTellsEverything == Spec => TraceTellsTheStep
<1> DEFINE A == /\ \A n \in DOMAIN TraceOfStep :
                     LET line == TraceOfStep[n] IN
                     /\ registers' = RegistersRead(registers, line)
                     /\ memory' = MemoryRead(memory, line)
                     /\ \A k \in DOMAIN line.dest : line.dest[k].old = Read(line.dest[k].cell)
                /\ TraceOfStep = <<>> => UNCHANGED <<registers, memory>>
<1>1. TypeOK /\ TypeOK' /\ [Next]_vars => [A]_vars
  <2> SUFFICES ASSUME TypeOK, TypeOK', Next
               PROVE  A
    OBVIOUS
  <2>1. CASE TraceOfStep = <<>> /\ UNCHANGED <<registers, memory>>
    BY <2>1
  <2>2. CASE \E inst \in Instruction :
               TraceOfStep = << TraceLine(inst) >> /\ Tells(TraceLine(inst))
    <3>1. PICK t : TraceOfStep = <<t>> /\ Tells(t)
      BY <2>2
    <3>2. QED
      BY <3>1 DEF Tells
  <2>3. QED
    BY <2>1, <2>2, StepIsTold
<1>2. QED
  BY <1>1, TypeCorrect, PTL DEF Spec, TraceTellsTheStep
=============================================================================
