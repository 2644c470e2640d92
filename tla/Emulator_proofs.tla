--------------------------- MODULE Emulator_proofs ---------------------------
(***************************************************************************)
(* What holds of the emulator for every set of programs and every size of  *)
(* the memory: its types, what may change FLAGS, where it stops, and what  *)
(* an instruction on bytes leaves alone.                                   *)
(***************************************************************************)
EXTENDS Emulator, Alu_proofs, Instructions_proofs, FiniteSetTheorems

\* The cells an instruction may have as its destination or source.
Cell == [inMemory : {FALSE}, at : RegisterType]
          \cup [inMemory : {TRUE}, at : 0..(EMULATOR_MEMORY_SIZE - 2)]

RegistersOK == registers \in [RegisterType -> Word]
MemoryOK == memory \in [Address -> Byte]

-----------------------------------------------------------------------------
\* A cell's value is a word, and a word can be put into any cell.
LEMMA CellTypes ==
    ASSUME RegistersOK, MemoryOK, NEW cell \in Cell, NEW v \in Word
    PROVE  /\ Read(cell) \in Word
           /\ RegistersWith(cell, v) \in [RegisterType -> Word]
           /\ MemoryWith(cell, v) \in [Address -> Byte]
<1>1. CASE cell \in [inMemory : {FALSE}, at : RegisterType]
  BY <1>1 DEF Read, RegistersWith, MemoryWith, RegistersOK, MemoryOK
<1>2. CASE cell \in [inMemory : {TRUE}, at : 0..(EMULATOR_MEMORY_SIZE - 2)]
  <2>1. cell.inMemory = TRUE /\ cell.at \in Address /\ cell.at + 1 \in Address
    <3>1. cell.inMemory = TRUE /\ cell.at \in 0..(EMULATOR_MEMORY_SIZE - 2)
      BY <1>2
    <3>2. QED
      BY <3>1, EmulatorConstants DEF Address, EmulatorConstants
  <2>2. memory[cell.at] \in Byte /\ memory[cell.at + 1] \in Byte
    BY <2>1 DEF MemoryOK
  <2>3. Read(cell) \in Word
    BY <2>1, <2>2, PartTypes DEF Read
  <2>4. MemoryWith(cell, v) \in [Address -> Byte]
    BY <2>1, PartTypes DEF MemoryWith, MemoryOK
  <2>5. QED
    BY <2>1, <2>3, <2>4 DEF RegistersWith, RegistersOK
<1>3. QED
  BY <1>1, <1>2 DEF Cell


\* IP stays a word whatever an instruction's length and jump.
LEMMA AdvanceType ==
    ASSUME NEW regs \in [RegisterType -> Word], NEW inst \in Instruction, NEW delta \in Int
    PROVE  Advance(regs, inst, delta) \in [RegisterType -> Word]
<1>1. IP \in RegisterType
  BY DEF IP, RegisterType
<1>2. regs[IP] \in Int
  BY <1>1 DEF Word
<1>3. regs[IP] + delta + inst.byteCount \in Int
  BY <1>2, InstructionTypes
<1>4. ToU16(regs[IP] + delta + inst.byteCount) \in Word
  BY <1>3, PartTypes
<1>5. QED
  BY <1>4 DEF Advance

-----------------------------------------------------------------------------
(***************************************************************************)
(* Addresses.                                                              *)
(***************************************************************************)

\* A register or a displacement read as signed is an integer.
LEMMA SignedTypes ==
    /\ \A b \in Byte : ToI8(b) \in Int
    /\ \A v \in Word : ToI16(v) \in Int
  BY DEF Byte, Word, ToI8, ToI16

LEMMA BaseAddressType ==
    ASSUME RegistersOK, NEW rm \in 0..7
    PROVE  BaseAddress(rm) \in Int
<1>1. \A r \in RegisterType : ToI16(registers[r]) \in Int
  BY SignedTypes DEF RegistersOK
<1>2. {BX, BP, SI, DI} \subseteq RegisterType
  BY DEF BX, BP, SI, DI, RegisterType
<1>3. CASE rm = 0 BY <1>1, <1>2, <1>3 DEF BaseAddress, AddressRegisters
<1>4. CASE rm = 1 BY <1>1, <1>2, <1>4 DEF BaseAddress, AddressRegisters
<1>5. CASE rm = 2 BY <1>1, <1>2, <1>5 DEF BaseAddress, AddressRegisters
<1>6. CASE rm = 3 BY <1>1, <1>2, <1>6 DEF BaseAddress, AddressRegisters
<1>7. CASE rm = 4 BY <1>1, <1>2, <1>7 DEF BaseAddress, AddressRegisters
<1>8. CASE rm = 5 BY <1>1, <1>2, <1>8 DEF BaseAddress, AddressRegisters
<1>9. CASE rm = 6 BY <1>1, <1>2, <1>9 DEF BaseAddress, AddressRegisters
<1>10. CASE rm = 7 BY <1>1, <1>2, <1>10 DEF BaseAddress, AddressRegisters
<1>11. QED
  BY <1>3, <1>4, <1>5, <1>6, <1>7, <1>8, <1>9, <1>10

LEMMA EffectiveAddressType ==
    ASSUME RegistersOK, NEW inst \in Instruction
    PROVE  EffectiveAddress(inst) \in Int
<1>1. ASSUME NEW mod \in Mod, NEW rm \in 0..7, NEW disp, disp[1] \in Byte, disp[2] \in Byte
      PROVE  CalcMemoryAddress(mod, rm, disp) \in Int
  <2>1. AddressDisplacement(mod, rm, disp) \in Int
    <3>1. ToI8(disp[1]) \in Int /\ ToI16(CombineWord(disp[1], disp[2])) \in Int
      BY <1>1, SignedTypes, PartTypes
    <3>2. 0 \in Int
      OBVIOUS
    <3>3. QED
      BY <3>1, <3>2, Zenon DEF AddressDisplacement
  <2>2. QED
    BY <2>1, BaseAddressType DEF CalcMemoryAddress
<1>2. MEMORY_16_BIT_DISPLACEMENT \in Mod
  BY DEF MEMORY_16_BIT_DISPLACEMENT, Mod
<1>3. QED
  BY <1>1, <1>2, InstructionTypes DEF EffectiveAddress

-----------------------------------------------------------------------------
(***************************************************************************)
(* The operands of an instruction whose operands can be had.               *)
(***************************************************************************)
LEMMA GetRegisterType ==
    ASSUME NEW reg \in 0..7, NEW isWord \in BOOLEAN
    PROVE  /\ RegisterCell(GetRegister(reg, isWord, FALSE)) \in Cell
           /\ ES + reg \in RegisterType => RegisterCell(GetRegister(reg, TRUE, TRUE)) \in Cell
<1>1. \A r \in RegisterType : RegisterCell(r) \in Cell
  BY DEF RegisterCell, Cell
<1>2. reg \in RegisterType /\ reg % 4 \in RegisterType
  BY DEF RegisterType
<1>3. GetRegister(reg, isWord, FALSE) \in RegisterType
  BY <1>2, Zenon DEF GetRegister
<1>4. GetRegister(reg, TRUE, TRUE) = ES + reg
  BY Zenon DEF GetRegister
<1>5. QED
  BY <1>1, <1>3, <1>4

LEMMA MemoryCellType ==
    ASSUME RegistersOK, NEW inst \in Instruction, InBounds(EffectiveAddress(inst))
    PROVE  MemoryCell(EffectiveAddress(inst)) \in Cell
<1>1. EffectiveAddress(inst) \in 0..(EMULATOR_MEMORY_SIZE - 2)
  BY EffectiveAddressType, EmulatorConstants DEF InBounds, EmulatorConstants
<1>2. QED
  BY <1>1 DEF MemoryCell, Cell

LEMMA DestCellType ==
    ASSUME RegistersOK, NEW inst \in Instruction, OperandsReady(inst),
           inst.operands # "ShortLabel"
    PROVE  DestCell(inst) \in Cell
<1>1. CASE inst.operands \in {"Register_Immediate", "Register_Register"}
  <2>1. DestCell(inst) = RegisterCell(GetRegister(inst.rm, inst.w = 1, FALSE))
    BY <1>1, Zenon DEF DestCell, MemoryDestinations
  <2>2. QED
    BY <2>1, GetRegisterType, InstructionTypes
<1>2. CASE inst.operands = "Register16_SegReg"
  <2>1. DestCell(inst) = RegisterCell(GetRegister(inst.reg, TRUE, TRUE))
    BY <1>2, Zenon DEF DestCell, MemoryDestinations
  <2>2. ES + inst.reg \in RegisterType
    BY <1>2 DEF OperandsReady, NoSuchRegister, SegmentMoves
  <2>3. QED
    BY <2>1, <2>2, GetRegisterType, InstructionTypes
<1>3. CASE inst.operands = "SegReg_Register16"
  <2>1. DestCell(inst) = RegisterCell(GetRegister(inst.rm, TRUE, FALSE))
    BY <1>3, Zenon DEF DestCell, MemoryDestinations
  <2>2. QED
    BY <2>1, GetRegisterType, InstructionTypes
<1>4. CASE inst.operands = "Memory_Register"
  <2>1. DestCell(inst) = RegisterCell(GetRegister(inst.reg, inst.w = 1, FALSE))
    BY <1>4, Zenon DEF DestCell, MemoryDestinations
  <2>2. QED
    BY <2>1, GetRegisterType, InstructionTypes
<1>5. CASE inst.operands \in {"Accumulator_Immediate", "Memory_Accumulator"}
  <2>1. DestCell(inst) = RegisterCell(AX)
    BY <1>5, Zenon DEF DestCell, MemoryDestinations
  <2>2. QED
    BY <2>1 DEF RegisterCell, Cell, AX, RegisterType
<1>6. CASE inst.operands \in MemoryDestinations
  <2>1. DestCell(inst) = MemoryCell(EffectiveAddress(inst))
    BY <1>6, Zenon DEF DestCell, MemoryDestinations
  <2>2. InBounds(EffectiveAddress(inst))
    BY <1>6 DEF OperandsReady, AddressPanics, UsesMemory
  <2>3. QED
    BY <2>1, <2>2, MemoryCellType
<1>7. QED
  BY <1>1, <1>2, <1>3, <1>4, <1>5, <1>6, InstructionTypes
     DEF Operands, OperandsReady, UnsupportedOperands, MemoryDestinations

\* Which part of the cell is meant is well defined for every kind of operands.
LEMMA DestOfType ==
    ASSUME NEW inst \in Instruction
    PROVE  DestOf(inst) \in Dest
<1> DEFINE low == CASE inst.operands \in {"Register_Immediate", "Register_Register"} ->
                         IsLowRegister(inst.rm)
                    [] inst.operands = "Memory_Register" -> IsLowRegister(inst.reg)
                    [] inst.operands = "Register_Memory" -> inst.w = 1
                    [] inst.operands = "Memory_Immediate" ->
                         inst.w = 1 \/ ~ImmediateIsWord(inst)
                    [] inst.operands \in SegmentMoves -> FALSE
                    [] OTHER -> TRUE
<1>1. low \in BOOLEAN
  <2>1. /\ IsLowRegister(inst.rm) \in BOOLEAN /\ IsLowRegister(inst.reg) \in BOOLEAN
        /\ (inst.w = 1) \in BOOLEAN /\ (inst.w = 1 \/ ~ImmediateIsWord(inst)) \in BOOLEAN
        /\ TRUE \in BOOLEAN /\ FALSE \in BOOLEAN
    BY DEF IsLowRegister, ImmediateIsWord
  <2>2. QED
    BY <2>1, Zenon
<1> DEFINE word == inst.w = 1 \/ inst.operands \in SegmentMoves
<1>2. word \in BOOLEAN
  OBVIOUS
<1>3. DestOf(inst) = [isWord |-> word, isLow |-> low]
  BY Zenon DEF DestOf
<1> HIDE DEF word, low
<1>4. QED
  BY <1>1, <1>2, <1>3 DEF Dest

\* The part of its cell that each kind of operands is about.
LEMMA DestFields ==
    ASSUME NEW inst \in Instruction
    PROVE  /\ DestOf(inst).isWord = (inst.w = 1 \/ inst.operands \in SegmentMoves)
           /\ inst.operands \in {"Register_Immediate", "Register_Register"} =>
                 DestOf(inst).isLow = IsLowRegister(inst.rm)
           /\ inst.operands = "Memory_Register" => DestOf(inst).isLow = IsLowRegister(inst.reg)
           /\ inst.operands = "Register_Memory" => DestOf(inst).isLow = (inst.w = 1)
           /\ inst.operands = "Memory_Immediate" =>
                 DestOf(inst).isLow = (inst.w = 1 \/ ~ImmediateIsWord(inst))
           /\ inst.operands \in {"Accumulator_Immediate", "Memory_Accumulator",
                                 "Accumulator_Memory"} => DestOf(inst).isLow = TRUE
<1> DEFINE low == CASE inst.operands \in {"Register_Immediate", "Register_Register"} ->
                         IsLowRegister(inst.rm)
                    [] inst.operands = "Memory_Register" -> IsLowRegister(inst.reg)
                    [] inst.operands = "Register_Memory" -> inst.w = 1
                    [] inst.operands = "Memory_Immediate" ->
                         inst.w = 1 \/ ~ImmediateIsWord(inst)
                    [] inst.operands \in SegmentMoves -> FALSE
                    [] OTHER -> TRUE
           word == inst.w = 1 \/ inst.operands \in SegmentMoves
<1>1. DestOf(inst) = [isWord |-> word, isLow |-> low]
  BY Zenon DEF DestOf
<1>2. ASSUME inst.operands \in {"Register_Immediate", "Register_Register"}
      PROVE  low = IsLowRegister(inst.rm)
  BY <1>2, Zenon DEF SegmentMoves
<1>3. ASSUME inst.operands = "Memory_Register" PROVE low = IsLowRegister(inst.reg)
  BY <1>3, Zenon DEF SegmentMoves
<1>4. ASSUME inst.operands = "Register_Memory" PROVE low = (inst.w = 1)
  BY <1>4, Zenon DEF SegmentMoves
<1>5. ASSUME inst.operands = "Memory_Immediate"
      PROVE  low = (inst.w = 1 \/ ~ImmediateIsWord(inst))
  BY <1>5, Zenon DEF SegmentMoves
<1>6. ASSUME inst.operands \in {"Accumulator_Immediate", "Memory_Accumulator", "Accumulator_Memory"}
      PROVE  low = TRUE
  BY <1>6, Zenon DEF SegmentMoves
<1> DEFINE d == DestOf(inst)
<1>7. d.isWord = word /\ d.isLow = low
  <2> HIDE DEF word, low
  <2>1. [isWord |-> word, isLow |-> low].isWord = word /\ [isWord |-> word, isLow |-> low].isLow = low
    BY Zenon
  <2>2. QED
    BY <1>1, <2>1, Zenon
<1> HIDE DEF low
<1>8. QED
  BY <1>2, <1>3, <1>4, <1>5, <1>6, <1>7, Zenon

LEMMA FromCellType ==
    ASSUME RegistersOK, MemoryOK, NEW cell \in Cell,
           NEW isWord \in BOOLEAN, NEW isLow \in BOOLEAN
    PROVE  FromCell(cell, isWord, isLow) \in Source
<1>1. Read(cell) \in Word
  <2>1. 0 \in Word
    BY DEF Word
  <2>2. QED
    BY <2>1, CellTypes
<1>2. LowPart(Read(cell)) \in Byte /\ HighPart(Read(cell)) \in Byte
  BY <1>1, PartTypes
<1>3. QED
  BY <1>2 DEF FromCell, Source

LEMMA SourceOfType ==
    ASSUME RegistersOK, MemoryOK, NEW inst \in Instruction, OperandsReady(inst),
           inst.operands # "ShortLabel"
    PROVE  SourceOf(inst) \in Source
<1>1. CASE inst.operands \in {"Register_Immediate", "Accumulator_Immediate"}
  <2>1. SourceOf(inst) = [low |-> inst.data[1], hi |-> inst.data[2],
                          isWord |-> ImmediateIsWord(inst), isLow |-> TRUE]
    BY <1>1, Zenon DEF SourceOf, SegmentMoves
  <2>2. QED
    BY <2>1, InstructionTypes DEF Source, ImmediateIsWord
<1>2. CASE inst.operands = "Memory_Immediate"
  <2>1. SourceOf(inst) =
           IF ImmediateIsWord(inst)
           THEN [low |-> inst.data[1], hi |-> inst.data[2], isWord |-> TRUE, isLow |-> FALSE]
           ELSE [low |-> inst.data[1], hi |-> inst.data[1], isWord |-> FALSE, isLow |-> FALSE]
    BY <1>2, Zenon DEF SourceOf, SegmentMoves
  <2>2. QED
    BY <2>1, InstructionTypes DEF Source
<1>3. CASE inst.operands = "Register_Register"
  <2>1. SourceOf(inst) = FromCell(SourceCell(inst), inst.w = 1, IsLowRegister(inst.reg))
    BY <1>3, Zenon DEF SourceOf, SegmentMoves
  <2>2. SourceCell(inst) = RegisterCell(GetRegister(inst.reg, inst.w = 1, FALSE))
    BY <1>3, Zenon DEF SourceCell, MemorySources
  <2>3. SourceCell(inst) \in Cell
    BY <2>2, GetRegisterType, InstructionTypes
  <2>4. (inst.w = 1) \in BOOLEAN /\ IsLowRegister(inst.reg) \in BOOLEAN
    BY DEF IsLowRegister
  <2>5. QED
    BY <2>1, <2>3, <2>4, FromCellType, Zenon
<1>4. CASE inst.operands \in SegmentMoves \cup {"Register_Memory"}
  <2>1. SourceOf(inst) = FromCell(SourceCell(inst), TRUE, TRUE)
    BY <1>4, Zenon DEF SourceOf, SegmentMoves
  <2>2. SourceCell(inst) \in {RegisterCell(GetRegister(inst.rm, TRUE, FALSE)),
                              RegisterCell(GetRegister(inst.reg, TRUE, TRUE)),
                              RegisterCell(GetRegister(inst.reg, TRUE, FALSE))}
    BY <1>4, Zenon DEF SourceCell, SegmentMoves, MemorySources
  <2>3. ASSUME inst.operands = "SegReg_Register16" PROVE ES + inst.reg \in RegisterType
    BY <2>3 DEF OperandsReady, NoSuchRegister, SegmentMoves
  <2>4. CASE inst.operands = "SegReg_Register16"
    <3>1. SourceCell(inst) \in Cell
      BY <2>2, <2>3, <2>4, GetRegisterType, InstructionTypes
    <3>2. QED
      BY <2>1, <3>1, FromCellType
  <2>5. CASE inst.operands # "SegReg_Register16"
    <3>1. SourceCell(inst) \in {RegisterCell(GetRegister(inst.rm, TRUE, FALSE)),
                                RegisterCell(GetRegister(inst.reg, TRUE, FALSE))}
      BY <1>4, <2>5, Zenon DEF SourceCell, SegmentMoves, MemorySources
    <3>2. SourceCell(inst) \in Cell
      BY <3>1, GetRegisterType, InstructionTypes
    <3>3. QED
      BY <2>1, <3>2, FromCellType
  <2>6. QED
    BY <2>4, <2>5
<1>5. CASE inst.operands \in MemorySources
  <2>1. SourceCell(inst) = MemoryCell(EffectiveAddress(inst))
    BY <1>5, Zenon DEF SourceCell, MemorySources
  <2>2. InBounds(EffectiveAddress(inst))
    BY <1>5 DEF OperandsReady, AddressPanics, UsesMemory
  <2>3. SourceCell(inst) \in Cell
    BY <2>1, <2>2, MemoryCellType
  <2>4. SourceOf(inst) \in {FromCell(SourceCell(inst), ImmediateIsWord(inst), TRUE),
                            FromCell(SourceCell(inst), inst.w = 1, TRUE)}
    BY <1>5, Zenon DEF SourceOf, SegmentMoves, MemorySources
  <2>5. QED
    BY <2>3, <2>4, FromCellType DEF ImmediateIsWord
<1>6. CASE inst.operands = "Accumulator_Memory"
  <2>1. SourceCell(inst) = RegisterCell(AX)
    BY <1>6, Zenon DEF SourceCell, MemorySources
  <2>2. SourceCell(inst) \in Cell
    BY <2>1 DEF RegisterCell, Cell, AX, RegisterType
  <2>3. SourceOf(inst) = FromCell(SourceCell(inst), inst.w = 1, TRUE)
    BY <1>6, Zenon DEF SourceOf, SegmentMoves
  <2>4. QED
    BY <2>2, <2>3, FromCellType
<1>7. QED
  BY <1>1, <1>2, <1>3, <1>4, <1>5, <1>6, InstructionTypes
     DEF Operands, OperandsReady, UnsupportedOperands, MemorySources, SegmentMoves

-----------------------------------------------------------------------------
\* No action leaves the types: one step per action, on the instruction at IP.
LEMMA EmulateNextType ==
    ASSUME TypeOK, NEW inst \in Instruction, EmulateNext(inst)
    PROVE  TypeOK'
<1> USE DEF TypeOK
<1>0. RegistersOK /\ MemoryOK
  BY DEF RegistersOK, MemoryOK
<1>1. ASSUME NEW v \in Word, DestCell(inst) \in Cell
      PROVE  /\ Advance(RegistersWith(DestCell(inst), v), inst, 0) \in [RegisterType -> Word]
             /\ MemoryWith(DestCell(inst), v) \in [Address -> Byte]
  <2>1. RegistersWith(DestCell(inst), v) \in [RegisterType -> Word]
    BY <1>0, <1>1, CellTypes
  <2>2. 0 \in Int
    OBVIOUS
  <2>3. Advance(RegistersWith(DestCell(inst), v), inst, 0) \in [RegisterType -> Word]
    BY <2>1, <2>2, AdvanceType, Zenon
  <2>4. QED
    BY <1>0, <1>1, <2>3, CellTypes
<1>2. ASSUME NEW v \in Word, NEW f \in Word, DestCell(inst) \in Cell
      PROVE  Advance([RegistersWith(DestCell(inst), v) EXCEPT ![FLAGS] = f], inst, 0)
                \in [RegisterType -> Word]
  <2>1. RegistersWith(DestCell(inst), v) \in [RegisterType -> Word]
    BY <1>0, <1>2, CellTypes
  <2>2. [RegistersWith(DestCell(inst), v) EXCEPT ![FLAGS] = f] \in [RegisterType -> Word]
    BY <1>2, <2>1
  <2>3. 0 \in Int
    OBVIOUS
  <2>4. QED
    BY <2>2, <2>3, AdvanceType, Zenon
<1>3. ASSUME OperandsReady(inst), inst.type \notin JumpTypes
      PROVE  /\ DestCell(inst) \in Cell /\ Read(DestCell(inst)) \in Word
             /\ DestOf(inst) \in Dest /\ SourceOf(inst) \in Source
  <2>1. inst.operands # "ShortLabel"
    BY <1>3, InstructionTypes
  <2>2. DestCell(inst) \in Cell
    BY <1>0, <1>3, <2>1, DestCellType
  <2>3. 0 \in Word
    BY DEF Word
  <2>4. Read(DestCell(inst)) \in Word
    BY <1>0, <2>2, <2>3, CellTypes
  <2>5. QED
    BY <1>0, <1>3, <2>1, <2>2, <2>4, DestOfType, SourceOfType
<1>4. registers[FLAGS] \in Word /\ registers[CX] \in Int
  BY DEF FLAGS, CX, RegisterType, Word
<1>5. CASE EmulateMov(inst)
  <2>1. inst.type \notin JumpTypes /\ OperandsReady(inst)
    BY <1>5 DEF EmulateMov, JumpTypes
  <2>2. MovResult(DestOf(inst), SourceOf(inst), Read(DestCell(inst))) \in Word
    BY <1>3, <1>4, <2>1, ResultTypes
  <2>3. QED
    BY <1>1, <1>3, <1>5, <2>1, <2>2 DEF EmulateMov
<1>6. CASE EmulateAdd(inst)
  <2>1. inst.type \notin JumpTypes /\ OperandsReady(inst)
    BY <1>6 DEF EmulateAdd, JumpTypes
  <2>2. /\ AddResult(DestOf(inst), SourceOf(inst), Read(DestCell(inst))) \in Word
        /\ AddFlagsResult(DestOf(inst), SourceOf(inst), Read(DestCell(inst)), registers[FLAGS])
             \in Word
    BY <1>3, <1>4, <2>1, ResultTypes
  <2>3. QED
    BY <1>1, <1>2, <1>3, <1>6, <2>1, <2>2 DEF EmulateAdd
<1>7. CASE EmulateSub(inst)
  <2>1. inst.type \notin JumpTypes /\ OperandsReady(inst)
    BY <1>7 DEF EmulateSub, JumpTypes
  <2>2. /\ SubStored(inst, DestCell(inst)) \in Word
        /\ SubFlagsResult(DestOf(inst), SourceOf(inst), Read(DestCell(inst)), registers[FLAGS])
             \in Word
    BY <1>3, <1>4, <2>1, ResultTypes DEF SubStored
  <2>3. QED
    BY <1>1, <1>2, <1>3, <1>7, <2>1, <2>2 DEF EmulateSub
<1>8. \A regs : JumpDelta(inst, regs) \in Int
  BY InstructionTypes, SignedTypes DEF JumpDelta
<1>9. CASE EmulateFlagJump(inst)
  BY <1>8, <1>9, AdvanceType DEF EmulateFlagJump
<1>10. CASE EmulateLoop(inst)
  <2>1. ToU16(registers[CX] - 1) \in Word
    <3>1. registers[CX] - 1 \in Int
      BY <1>4
    <3>2. QED
      BY <3>1, PartTypes, Zenon
  <2>2. [registers EXCEPT ![CX] = ToU16(registers[CX] - 1)] \in [RegisterType -> Word]
    BY <2>1
  <2>3. QED
    BY <1>8, <1>10, <2>2, AdvanceType DEF EmulateLoop
<1>11. CASE EmulateUnsupported(inst)
  BY <1>11 DEF EmulateUnsupported, Status
<1>12. CASE PanicOnAddress(inst)
  BY <1>12 DEF PanicOnAddress, Status
<1>13. CASE UndefinedRegister(inst)
  BY <1>13 DEF UndefinedRegister, Status
<1>14. QED
  BY <1>5, <1>6, <1>7, <1>9, <1>10, <1>11, <1>12, <1>13 DEF EmulateNext

\* So no step does.
LEMMA TypeNext == TypeOK /\ [Next]_vars => TypeOK'
<1> SUFFICES ASSUME TypeOK, [Next]_vars PROVE TypeOK'
  OBVIOUS
<1>1. CASE Stop
  BY <1>1 DEF Stop, TypeOK, Status
<1>2. ASSUME NEW i \in DOMAIN program, EmulateNext(program[i])
      PROVE  TypeOK'
  <2>1. program[i] \in Instruction
    BY DEF TypeOK
  <2>2. QED
    BY <1>2, <2>1, EmulateNextType
<1>3. CASE UNCHANGED vars
  BY <1>3 DEF vars, TypeOK
<1>4. QED
  BY <1>1, <1>2, <1>3 DEF Next

\* In every execution of every program the registers are words, the memory is
\* bytes and the status is one of the ways the loop can be left: no arithmetic
\* of emulateNext leaves the width of what it is stored in.
THEOREM TypeCorrect == Spec => []TypeOK
<1>1. Init => TypeOK
  BY EmulatorConstants DEF Init, TypeOK, EmulatorConstants, Word, Byte, Status
<1>2. QED
  BY <1>1, TypeNext, PTL DEF Spec

-----------------------------------------------------------------------------
(***************************************************************************)
(* What a step leaves where: register by register and byte by byte.        *)
(***************************************************************************)

\* An operand is in memory or one of the registers AX to DS, unless a move
\* names a segment register that does not exist.
LEMMA DestIsOperand ==
    ASSUME NEW inst \in Instruction, OperandsReady(inst), inst.operands # "ShortLabel",
           ~WritesOddSegment(inst)
    PROVE  \/ inst.operands \in MemoryDestinations /\ DestCell(inst) = MemoryCell(EffectiveAddress(inst))
           \/ inst.operands \notin MemoryDestinations /\ \E r \in 0..11 : DestCell(inst) = RegisterCell(r)
<1>1. CASE inst.operands \in MemoryDestinations
  <2>1. DestCell(inst) = MemoryCell(EffectiveAddress(inst))
    BY <1>1, Zenon DEF DestCell, MemoryDestinations
  <2>2. QED
    BY <1>1, <2>1
<1>2. CASE inst.operands = "Register16_SegReg"
  <2>1. DestCell(inst) = RegisterCell(GetRegister(inst.reg, TRUE, TRUE))
    BY <1>2, Zenon DEF DestCell, MemoryDestinations
  <2>2. GetRegister(inst.reg, TRUE, TRUE) = ES + inst.reg
    BY Zenon DEF GetRegister
  <2>3. ES + inst.reg \in 0..11
    BY <1>2 DEF WritesOddSegment, ES
  <2>4. QED
    BY <1>2, <2>1, <2>2, <2>3 DEF MemoryDestinations
<1>3. CASE inst.operands \notin MemoryDestinations \cup {"Register16_SegReg"}
  <2>1. /\ inst.reg \in 0..7 /\ inst.rm \in 0..7
        /\ inst.reg % 4 \in 0..7 /\ inst.rm % 4 \in 0..7
    BY InstructionTypes
  <2>2. /\ GetRegister(inst.rm, inst.w = 1, FALSE) \in 0..7
        /\ GetRegister(inst.rm, TRUE, FALSE) \in 0..7
        /\ GetRegister(inst.reg, inst.w = 1, FALSE) \in 0..7
    BY <2>1, Zenon DEF GetRegister
  <2>3. \E r \in 0..7 \cup {AX} : DestCell(inst) = RegisterCell(r)
    <3>1. inst.operands \in {"Register_Immediate", "Register_Register", "SegReg_Register16",
                             "Memory_Register", "Accumulator_Immediate", "Memory_Accumulator"}
      BY <1>3, InstructionTypes
         DEF Operands, OperandsReady, UnsupportedOperands, MemoryDestinations
    <3>2. DestCell(inst) \in {RegisterCell(GetRegister(inst.rm, inst.w = 1, FALSE)),
                              RegisterCell(GetRegister(inst.rm, TRUE, FALSE)),
                              RegisterCell(GetRegister(inst.reg, inst.w = 1, FALSE)),
                              RegisterCell(AX)}
      BY <3>1, Zenon DEF DestCell, MemoryDestinations
    <3>3. QED
      BY <2>2, <3>2
  <2>4. 0..7 \cup {AX} \subseteq 0..11
    BY DEF AX
  <2>5. QED
    BY <1>3, <2>3, <2>4
<1>4. QED
  BY <1>1, <1>2, <1>3

\* Cells are the same when they are of the same kind and at the same place.
LEMMA CellShape ==
    /\ \A r : RegisterCell(r).inMemory = FALSE /\ RegisterCell(r).at = r
    /\ \A a : MemoryCell(a).inMemory = TRUE /\ MemoryCell(a).at = a
    /\ \A r, s : RegisterCell(r) = RegisterCell(s) <=> r = s
    /\ \A a, b : MemoryCell(a) = MemoryCell(b) <=> a = b
    /\ \A r, a : RegisterCell(r) # MemoryCell(a)
<1>1. \A r : RegisterCell(r).inMemory = FALSE /\ RegisterCell(r).at = r
  BY DEF RegisterCell
<1>2. \A a : MemoryCell(a).inMemory = TRUE /\ MemoryCell(a).at = a
  BY DEF MemoryCell
<1>3. ASSUME NEW r, NEW a PROVE RegisterCell(r) # MemoryCell(a)
  <2>1. RegisterCell(r).inMemory = FALSE /\ MemoryCell(a).inMemory = TRUE
    BY <1>1, <1>2
  <2>2. QED
    BY <2>1, Zenon
<1>4. \A r, s : RegisterCell(r) = RegisterCell(s) => r = s
  BY <1>1, Zenon
<1>5. \A a, b : MemoryCell(a) = MemoryCell(b) => a = b
  BY <1>2, Zenon
<1>6. QED
  BY <1>1, <1>2, <1>3, <1>4, <1>5, Zenon

\* The step writes v to the operand and f to FLAGS, and moves IP on.
Effect(inst, v, f) ==
    /\ registers' = Advance([RegistersWith(DestCell(inst), v) EXCEPT ![FLAGS] = f], inst, 0)
    /\ memory' = MemoryWith(DestCell(inst), v)

\* Of the state, v reaches the operand's cell and nothing else.
LEMMA EffectByByte ==
    ASSUME TypeOK, NEW inst \in Instruction, OperandsReady(inst),
           inst.operands # "ShortLabel", ~WritesOddSegment(inst),
           NEW v \in Word, NEW f \in Word, Effect(inst, v, f)
    PROVE  /\ \A r \in 0..11 : registers'[r] =
                 IF DestCell(inst) = RegisterCell(r) THEN v ELSE registers[r]
           /\ registers'[IP] = ToU16(registers[IP] + inst.byteCount)
           /\ registers'[FLAGS] = f
           /\ \A a \in Address : memory'[a] =
                 IF DestCell(inst) = MemoryCell(a) THEN LowPart(v)
                 ELSE IF DestCell(inst) = MemoryCell(a - 1) THEN HighPart(v) ELSE memory[a]
<1>1. registers \in [RegisterType -> Word] /\ memory \in [Address -> Byte]
  BY DEF TypeOK
<1>2. inst.byteCount \in Int
  BY InstructionTypes
<1>3. /\ 0..11 \subseteq RegisterType /\ IP \in RegisterType /\ FLAGS \in RegisterType
      /\ IP # FLAGS /\ IP \notin 0..11 /\ FLAGS \notin 0..11
  BY DEF RegisterType, IP, FLAGS
<1>4. registers[IP] \in Int
  BY <1>1, <1>3 DEF Word
<1>5. registers[IP] + 0 + inst.byteCount = registers[IP] + inst.byteCount
  BY <1>2, <1>4
<1>6. CASE inst.operands \in MemoryDestinations
  <2> DEFINE a0 == EffectiveAddress(inst)
  <2>1. DestCell(inst) = MemoryCell(a0)
    BY <1>6, DestIsOperand
  <2>2. a0 \in Address /\ a0 + 1 \in Address
    <3>1. InBounds(a0)
      BY <1>6 DEF OperandsReady, AddressPanics, UsesMemory
    <3>2. a0 \in Int
      BY <1>1, EffectiveAddressType DEF RegistersOK
    <3>3. QED
      BY <3>1, <3>2, EmulatorConstants DEF InBounds, Address, EmulatorConstants
  <2> HIDE DEF a0
  <2>3. /\ DestCell(inst).inMemory = TRUE /\ DestCell(inst).at = a0
        /\ \A r : DestCell(inst) # RegisterCell(r)
        /\ \A a : DestCell(inst) = MemoryCell(a) <=> a = a0
    BY <2>1, CellShape, Zenon
  <2>4. registers' = Advance([registers EXCEPT ![FLAGS] = f], inst, 0)
    BY <2>3 DEF Effect, RegistersWith
  <2>5. memory' = [memory EXCEPT ![a0] = LowPart(v), ![a0 + 1] = HighPart(v)]
    BY <2>3 DEF Effect, MemoryWith
  <2>6. ASSUME NEW a \in Address
        PROVE  memory'[a] = IF a = a0 THEN LowPart(v)
                            ELSE IF a - 1 = a0 THEN HighPart(v) ELSE memory[a]
    <3>1. a0 # a0 + 1 /\ (a - 1 = a0 <=> a = a0 + 1)
      BY <2>2 DEF Address
    <3>2. QED
      BY <1>1, <2>2, <2>5, <3>1
  <2>7. registers'[IP] = ToU16(registers[IP] + inst.byteCount) /\ registers'[FLAGS] = f
    BY <1>1, <1>3, <1>5, <2>4 DEF Advance
  <2>8. \A r \in 0..11 : registers'[r] = registers[r]
    BY <1>1, <1>3, <2>4 DEF Advance
  <2>9. QED
    BY <2>3, <2>6, <2>7, <2>8
<1>7. CASE inst.operands \notin MemoryDestinations
  <2>1. PICK r0 \in 0..11 : DestCell(inst) = RegisterCell(r0)
    BY <1>7, DestIsOperand
  <2>2. /\ DestCell(inst).inMemory = FALSE /\ DestCell(inst).at = r0
        /\ \A r : DestCell(inst) = RegisterCell(r) <=> r = r0
        /\ \A a : DestCell(inst) # MemoryCell(a)
    BY <2>1, CellShape, Zenon
  <2>3. registers' = Advance([[registers EXCEPT ![r0] = v] EXCEPT ![FLAGS] = f], inst, 0)
    BY <2>2 DEF Effect, RegistersWith
  <2>4. memory' = memory
    BY <2>2 DEF Effect, MemoryWith
  <2>5. registers'[IP] = ToU16(registers[IP] + inst.byteCount) /\ registers'[FLAGS] = f
    BY <1>1, <1>3, <1>5, <2>3 DEF Advance
  <2>6. \A r \in 0..11 : registers'[r] = IF r = r0 THEN v ELSE registers[r]
    BY <1>1, <1>3, <2>3 DEF Advance
  <2>7. QED
    BY <2>2, <2>4, <2>5, <2>6
<1>8. QED
  BY <1>6, <1>7

\* What the three arithmetic cases of emulateNext write.
Written(inst) ==
    IF inst.type = "MOV" THEN MovResult(DestOf(inst), SourceOf(inst), Read(DestCell(inst)))
    ELSE IF inst.type = "ADD" THEN AddResult(DestOf(inst), SourceOf(inst), Read(DestCell(inst)))
    ELSE SubStored(inst, DestCell(inst))
FlagsWritten(inst) ==
    IF inst.type = "MOV" THEN registers[FLAGS]
    ELSE IF inst.type = "ADD"
    THEN AddFlagsResult(DestOf(inst), SourceOf(inst), Read(DestCell(inst)), registers[FLAGS])
    ELSE SubFlagsResult(DestOf(inst), SourceOf(inst), Read(DestCell(inst)), registers[FLAGS])

LEMMA OperandStep ==
    ASSUME TypeOK, NEW inst \in Instruction, ~WritesOddSegment(inst),
           EmulateMov(inst) \/ EmulateAdd(inst) \/ EmulateSub(inst)
    PROVE  /\ OperandsReady(inst) /\ inst.operands # "ShortLabel"
           /\ DestCell(inst) \in Cell /\ Read(DestCell(inst)) \in Word
           /\ DestOf(inst) \in Dest /\ SourceOf(inst) \in Source
           /\ Written(inst) \in Word /\ FlagsWritten(inst) \in Word
           /\ Effect(inst, Written(inst), FlagsWritten(inst))
           /\ status' = status /\ program' = program
<1>1. OperandsReady(inst) /\ inst.type \notin JumpTypes
  BY DEF EmulateMov, EmulateAdd, EmulateSub, JumpTypes
<1>2. inst.operands # "ShortLabel"
  BY <1>1, InstructionTypes
<1>3. RegistersOK /\ MemoryOK
  BY DEF TypeOK, RegistersOK, MemoryOK
<1>4. DestCell(inst) \in Cell
  BY <1>1, <1>2, <1>3, DestCellType
<1>5. Read(DestCell(inst)) \in Word
  <2>1. 0 \in Word
    BY DEF Word
  <2>2. QED
    BY <1>3, <1>4, <2>1, CellTypes
<1>6. DestOf(inst) \in Dest /\ SourceOf(inst) \in Source
  BY <1>1, <1>2, <1>3, DestOfType, SourceOfType
<1>7. FLAGS \in RegisterType /\ registers[FLAGS] \in Word
  BY <1>3 DEF RegistersOK, FLAGS, RegisterType
<1>8. Written(inst) \in Word /\ FlagsWritten(inst) \in Word
  BY <1>5, <1>6, <1>7, ResultTypes DEF Written, FlagsWritten, SubStored
<1>9. Effect(inst, Written(inst), FlagsWritten(inst))
  <2>1. CASE EmulateMov(inst)
    <3>1. /\ Written(inst) = MovResult(DestOf(inst), SourceOf(inst), Read(DestCell(inst)))
          /\ FlagsWritten(inst) = registers[FLAGS]
      BY <2>1 DEF EmulateMov, Written, FlagsWritten
    <3>2. RegistersWith(DestCell(inst), Written(inst))
            = [RegistersWith(DestCell(inst), Written(inst)) EXCEPT ![FLAGS] = registers[FLAGS]]
      <4>1. RegistersWith(DestCell(inst), Written(inst)) \in [RegisterType -> Word]
        BY <1>3, <1>4, <1>8, CellTypes
      <4>2. RegistersWith(DestCell(inst), Written(inst))[FLAGS] = registers[FLAGS]
        <5>1. CASE inst.operands \in MemoryDestinations
          BY <1>1, <1>2, <5>1, DestIsOperand DEF RegistersWith, MemoryCell
        <5>2. CASE inst.operands \notin MemoryDestinations
          <6>1. PICK r \in 0..11 : DestCell(inst) = RegisterCell(r)
            BY <1>1, <1>2, <5>2, DestIsOperand
          <6>2. QED
            BY <1>3, <1>7, <6>1 DEF RegistersWith, RegisterCell, FLAGS, RegistersOK
        <5>3. QED
          BY <5>1, <5>2
      <4>3. QED
        BY <4>1, <4>2
    <3>3. QED
      BY <2>1, <3>1, <3>2 DEF EmulateMov, Effect
  <2>2. CASE EmulateAdd(inst)
    BY <2>2 DEF EmulateAdd, Effect, Written, FlagsWritten
  <2>3. CASE EmulateSub(inst)
    BY <2>3 DEF EmulateSub, Effect, Written, FlagsWritten
  <2>4. QED
    BY <2>1, <2>2, <2>3
<1>10. status' = status /\ program' = program
  BY DEF EmulateMov, EmulateAdd, EmulateSub
<1>11. QED
  BY <1>1, <1>2, <1>4, <1>5, <1>6, <1>8, <1>9, <1>10

\* A jump moves IP and, if it is a loop, counts CX down.
JumpRegisters(inst) ==
    IF inst.type \in LoopJumps16 THEN [registers EXCEPT ![CX] = ToU16(registers[CX] - 1)]
                                 ELSE registers

LEMMA JumpStep ==
    ASSUME TypeOK, NEW inst \in Instruction, EmulateFlagJump(inst) \/ EmulateLoop(inst)
    PROVE  /\ inst.operands = "ShortLabel"
           /\ JumpRegisters(inst) \in [RegisterType -> Word]
           /\ JumpDelta(inst, JumpRegisters(inst)) \in {0, ToI8(inst.data[1])}
           /\ registers' = Advance(JumpRegisters(inst), inst, JumpDelta(inst, JumpRegisters(inst)))
           /\ registers'[IP] = ToU16(registers[IP] + JumpDelta(inst, JumpRegisters(inst)) + inst.byteCount)
           /\ registers'[FLAGS] = registers[FLAGS]
           /\ \A r \in 0..11 : registers'[r] = JumpRegisters(inst)[r]
           /\ memory' = memory /\ status' = status /\ program' = program
<1>1. inst.operands = "ShortLabel"
  BY InstructionTypes DEF EmulateFlagJump, EmulateLoop, FlagJumps, LoopJumps16, JumpTypes
<1>2. JumpRegisters(inst) \in [RegisterType -> Word]
  <2>1. CX \in RegisterType /\ registers \in [RegisterType -> Word]
    BY DEF TypeOK, CX, RegisterType
  <2>2. registers[CX] - 1 \in Int
    BY <2>1 DEF Word
  <2>3. ToU16(registers[CX] - 1) \in Word
    BY <2>2, PartTypes
  <2>4. QED
    BY <2>1, <2>3 DEF JumpRegisters
<1>3. /\ registers' = Advance(JumpRegisters(inst), inst, JumpDelta(inst, JumpRegisters(inst)))
      /\ memory' = memory /\ status' = status /\ program' = program
  <2>1. CASE EmulateFlagJump(inst)
    <3>1. JumpRegisters(inst) = registers
      BY <2>1 DEF EmulateFlagJump, JumpRegisters, FlagJumps, LoopJumps16
    <3>2. QED
      BY <2>1, <3>1 DEF EmulateFlagJump
  <2>2. CASE EmulateLoop(inst)
    BY <2>2 DEF EmulateLoop, JumpRegisters
  <2>3. QED
    BY <2>1, <2>2
<1>4. /\ JumpRegisters(inst)[IP] = registers[IP]
      /\ JumpRegisters(inst)[FLAGS] = registers[FLAGS]
  BY DEF JumpRegisters, TypeOK, RegisterType, CX, IP, FLAGS
<1>5. /\ registers'[IP] = ToU16(JumpRegisters(inst)[IP] + JumpDelta(inst, JumpRegisters(inst)) + inst.byteCount)
      /\ \A r \in RegisterType : r # IP => registers'[r] = JumpRegisters(inst)[r]
  <2>1. IP \in RegisterType
    BY DEF IP, RegisterType
  <2>2. QED
    BY <1>2, <1>3, <2>1 DEF Advance
<1>6. /\ \A r \in 0..11 : r \in RegisterType /\ r # IP
      /\ FLAGS \in RegisterType /\ FLAGS # IP
  BY DEF IP, FLAGS, RegisterType
<1>7. JumpDelta(inst, JumpRegisters(inst)) \in {0, ToI8(inst.data[1])}
  BY DEF JumpDelta
<1>8. QED
  BY <1>1, <1>2, <1>3, <1>4, <1>5, <1>6, <1>7

\* No two instructions start at IP: the search of nextInst has one answer.
LEMMA OneAtIp ==
    ASSUME program \in Seq(Instruction),
           NEW i \in DOMAIN program, NEW j \in DOMAIN program, AtIp(i), AtIp(j)
    PROVE  i = j
<1>1. /\ Len(program) \in Nat /\ i \in Int /\ j \in Int
      /\ i \in 1..(Len(program) + 1) /\ j \in 1..(Len(program) + 1)
  OBVIOUS
<1>2. StartOf(program, i) \in Int /\ StartOf(program, i) = StartOf(program, j)
  BY <1>1, StartOfAddsUp DEF AtIp
<1>3. ~(i < j)
  BY <1>1, <1>2, StartOfGrows
<1>4. ~(j < i)
  BY <1>1, <1>2, StartOfGrows
<1>5. QED
  BY <1>1, <1>3, <1>4

\* The actions that end the loop, or repeat the search, touch no operand.
LEMMA EarlyReturn ==
    ASSUME NEW inst, EmulateUnsupported(inst) \/ PanicOnAddress(inst) \/ UndefinedRegister(inst)
    PROVE  /\ registers' = registers /\ memory' = memory /\ program' = program
           /\ status' \in {status, "asserted", "panicked", "undefined"}
  BY DEF EmulateUnsupported, PanicOnAddress, UndefinedRegister

-----------------------------------------------------------------------------
(***************************************************************************)
(* FLAGS and IP.                                                           *)
(***************************************************************************)

\* Between a comparison and the jump that depends on it no move, jump or loop
\* changes the outcome, in any program.
THEOREM FlagsSurvive == Spec => OnlyArithmeticSetsFlags
<1> DEFINE A == registers[FLAGS] # registers'[FLAGS] =>
                  \E i \in Current : i.type \in ArithmeticTypes \/ WritesOddSegment(i)
<1>1. TypeOK /\ [Next]_vars => [A]_vars
  <2> SUFFICES ASSUME TypeOK, Next, registers[FLAGS] # registers'[FLAGS]
               PROVE  \E i \in Current : i.type \in ArithmeticTypes \/ WritesOddSegment(i)
    BY DEF vars
  <2>1. ~Stop
    BY DEF Stop
  <2>2. PICK k \in DOMAIN program : AtIp(k) /\ EmulateNext(program[k])
    BY <2>1 DEF Next
  <2> DEFINE inst == program[k]
  <2>3. inst \in Current /\ inst \in Instruction
    BY <2>2 DEF Current, TypeOK
  <2>4. EmulateNext(inst)
    BY <2>2
  <2> HIDE DEF inst
  <2>5. SUFFICES ASSUME inst.type \notin ArithmeticTypes, ~WritesOddSegment(inst)
                 PROVE  FALSE
    BY <2>3
  <2>6. ~EmulateMov(inst)
    <3> SUFFICES ASSUME EmulateMov(inst) PROVE FALSE
      OBVIOUS
    <3>1. /\ Effect(inst, Written(inst), FlagsWritten(inst))
          /\ Written(inst) \in Word /\ FlagsWritten(inst) \in Word
          /\ OperandsReady(inst) /\ inst.operands # "ShortLabel"
      BY <2>3, <2>5, OperandStep
    <3>2. registers'[FLAGS] = FlagsWritten(inst)
      BY <2>3, <2>5, <3>1, EffectByByte
    <3>3. QED
      BY <3>2 DEF EmulateMov, FlagsWritten
  <2>7. ~EmulateAdd(inst) /\ ~EmulateSub(inst)
    BY <2>5 DEF EmulateAdd, EmulateSub, ArithmeticTypes
  <2>8. ~EmulateFlagJump(inst) /\ ~EmulateLoop(inst)
    BY <2>3, JumpStep
  <2>9. ~EmulateUnsupported(inst) /\ ~PanicOnAddress(inst) /\ ~UndefinedRegister(inst)
    BY EarlyReturn
  <2>10. QED
    BY <2>4, <2>6, <2>7, <2>8, <2>9 DEF EmulateNext
<1>2. QED
  BY <1>1, TypeCorrect, PTL DEF Spec, OnlyArithmeticSetsFlags

End == StartOf(program, Len(program) + 1)

\* Of a program whose jumps land, IP is always where an instruction starts or
\* the program ends: what makes StopsAtTheEnd true, and what is inductive.
IpOnBoundary ==
    JumpsLandOnInstructions /\ SegmentsAreProper /\ End \in Word =>
      /\ registers[IP] \in Boundaries
      /\ status = "stopped" => registers[IP] = End

\* The boundaries of a program that ends within the words are words.
LEMMA BoundariesAreWords ==
    ASSUME program \in Seq(Instruction), End \in Word
    PROVE  Boundaries \subseteq Word
<1>1. SUFFICES ASSUME NEW k \in 1..(Len(program) + 1) PROVE StartOf(program, k) \in Word
  BY DEF Boundaries
<1>2. Len(program) \in Nat /\ Len(program) + 1 \in 1..(Len(program) + 1) /\ k \in Int
  OBVIOUS
<1>3. StartOf(program, k) \in Nat
  BY StartOfAddsUp
<1>4. k < Len(program) + 1 => StartOf(program, k) < End
  BY <1>2, StartOfGrows DEF End
<1>5. k = Len(program) + 1 => StartOf(program, k) = End
  BY DEF End
<1>6. End \in Nat /\ End < 65536
  BY DEF Word
<1>7. StartOf(program, k) < 65536
  BY <1>2, <1>3, <1>4, <1>5, <1>6
<1>8. QED
  BY <1>3, <1>7 DEF Word

\* In every execution of every program, if the loop stops by itself the program
\* has come to its end: IP never slips between instructions, and a search that
\* finds nothing means that nothing is left.
THEOREM StopsOnlyAtTheEnd == Spec => []StopsAtTheEnd
<1>1. Init /\ TypeOK => IpOnBoundary
  <2> SUFFICES ASSUME Init, TypeOK PROVE IpOnBoundary
    OBVIOUS
  <2>1. registers[IP] = 0 /\ status # "stopped"
    BY DEF Init, IP, RegisterType
  <2>2. 1 \in 1..(Len(program) + 1) /\ StartOf(program, 1) = 0
    <3>1. Len(program) \in Nat
      BY DEF TypeOK
    <3>2. QED
      BY <3>1, StartOfAddsUp DEF TypeOK
  <2>3. QED
    BY <2>1, <2>2 DEF IpOnBoundary, Boundaries
<1>2. TypeOK /\ IpOnBoundary /\ [Next]_vars => IpOnBoundary'
  <2> SUFFICES ASSUME TypeOK, IpOnBoundary, [Next]_vars,
                      (JumpsLandOnInstructions /\ SegmentsAreProper /\ End \in Word)'
               PROVE  /\ registers'[IP] \in Boundaries'
                      /\ status' = "stopped" => registers'[IP] = End'
    BY DEF IpOnBoundary
  <2>1. CASE UNCHANGED vars
    BY <2>1 DEF vars, IpOnBoundary, Boundaries, End, JumpsLandOnInstructions, SegmentsAreProper,
               Jumps, JumpTarget, WritesOddSegment
  <2>2. program' = program => /\ Boundaries' = Boundaries /\ End' = End
                              /\ JumpsLandOnInstructions /\ SegmentsAreProper /\ End \in Word
    BY DEF Boundaries, End, JumpsLandOnInstructions, SegmentsAreProper,
           Jumps, JumpTarget, WritesOddSegment
  <2>3. ASSUME program' = program
        PROVE  /\ registers[IP] \in Boundaries
               /\ status = "stopped" => registers[IP] = End
    BY <2>2, <2>3 DEF IpOnBoundary
  <2>4. CASE Stop
    <3>1. /\ program' = program /\ registers' = registers
          /\ \A i \in DOMAIN program : StartOf(program, i) # registers[IP]
      BY <2>4 DEF Stop, AtIp
    <3>2. PICK k \in 1..(Len(program) + 1) : registers[IP] = StartOf(program, k)
      BY <2>3, <3>1 DEF Boundaries
    <3>3. k = Len(program) + 1
      <4>1. Len(program) \in Nat /\ DOMAIN program = 1..Len(program)
        BY DEF TypeOK
      <4>2. k \notin 1..Len(program)
        BY <3>1, <3>2, <4>1
      <4>3. QED
        BY <4>1, <4>2
    <3>4. QED
      BY <2>2, <2>3, <3>1, <3>2, <3>3 DEF End
  <2>5. ASSUME status = "running", NEW k \in DOMAIN program, AtIp(k), EmulateNext(program[k])
        PROVE  registers'[IP] \in Boundaries' /\ status' # "stopped"
    <3> DEFINE inst == program[k]
    <3>1. inst \in Instruction
      BY DEF TypeOK
    <3>2. /\ StartOf(program, k) = registers[IP]
          /\ StartOf(program, k + 1) = registers[IP] + inst.byteCount
          /\ k + 1 \in 1..(Len(program) + 1)
      <4>1. Len(program) \in Nat /\ DOMAIN program = 1..Len(program)
        BY DEF TypeOK
      <4>2. QED
        BY <2>5, <4>1, StartOfAddsUp DEF AtIp, TypeOK
    <3>3. ASSUME program' = program,
                 registers'[IP] = ToU16(registers[IP] + inst.byteCount)
          PROVE  registers'[IP] \in Boundaries'
      <4>1. registers[IP] + inst.byteCount \in Boundaries
        BY <3>2 DEF Boundaries
      <4>2. registers[IP] + inst.byteCount \in Word
        BY <2>2, <3>3, <4>1, BoundariesAreWords DEF TypeOK
      <4>3. ToU16(registers[IP] + inst.byteCount) = registers[IP] + inst.byteCount
        BY <4>2 DEF Word, ToU16
      <4>4. QED
        BY <2>2, <3>3, <4>1, <4>3
    <3>4. EmulateNext(inst)
      BY <2>5
    <3>5. inst.operands = "ShortLabel" => k \in Jumps
      BY DEF Jumps
    <3>6. JumpTarget(k) = registers[IP] + inst.byteCount + ToI8(inst.data[1])
      BY <3>2 DEF JumpTarget
    <3>7. program' = program => ~WritesOddSegment(inst)
      BY <2>2 DEF SegmentsAreProper
    <3> HIDE DEF inst
    <3>8. CASE EmulateMov(inst) \/ EmulateAdd(inst) \/ EmulateSub(inst)
      <4>1. program' = program
        BY <3>8 DEF EmulateMov, EmulateAdd, EmulateSub
      <4>2. /\ Effect(inst, Written(inst), FlagsWritten(inst))
            /\ Written(inst) \in Word /\ FlagsWritten(inst) \in Word
            /\ OperandsReady(inst) /\ inst.operands # "ShortLabel" /\ status' = status
        BY <3>1, <3>7, <3>8, <4>1, OperandStep
      <4>3. registers'[IP] = ToU16(registers[IP] + inst.byteCount)
        BY <3>1, <3>7, <4>1, <4>2, EffectByByte
      <4>4. QED
        BY <2>5, <3>3, <4>1, <4>2, <4>3
    <3>9. CASE EmulateFlagJump(inst) \/ EmulateLoop(inst)
      <4> DEFINE delta == JumpDelta(inst, JumpRegisters(inst))
      <4>1. /\ program' = program /\ status' = status /\ inst.operands = "ShortLabel"
            /\ registers'[IP] = ToU16(registers[IP] + delta + inst.byteCount)
            /\ delta \in {0, ToI8(inst.data[1])}
        BY <3>1, <3>9, JumpStep
      <4> HIDE DEF delta
      <4>2. registers[IP] \in Int /\ inst.byteCount \in Int /\ ToI8(inst.data[1]) \in Int
        <5>1. registers[IP] \in Word
          BY DEF TypeOK, IP, RegisterType
        <5>2. QED
          BY <3>1, <5>1, InstructionTypes, SignedTypes DEF Word
      <4>3. CASE delta = 0
        <5>1. registers[IP] + delta + inst.byteCount = registers[IP] + inst.byteCount
          BY <4>2, <4>3
        <5>2. QED
          BY <2>5, <3>3, <4>1, <5>1
      <4>4. CASE delta = ToI8(inst.data[1])
        <5>1. registers[IP] + delta + inst.byteCount = JumpTarget(k)
          BY <3>6, <4>2, <4>4
        <5>2. JumpTarget(k) \in Boundaries
          BY <2>2, <3>5, <4>1 DEF JumpsLandOnInstructions
        <5>3. JumpTarget(k) \in Word
          BY <2>2, <4>1, <5>2, BoundariesAreWords DEF TypeOK
        <5>4. ToU16(JumpTarget(k)) = JumpTarget(k)
          BY <5>3 DEF Word, ToU16
        <5>5. QED
          BY <2>2, <2>5, <4>1, <5>1, <5>2, <5>4
      <4>5. QED
        BY <4>1, <4>3, <4>4
    <3>10. CASE EmulateUnsupported(inst) \/ PanicOnAddress(inst) \/ UndefinedRegister(inst)
      <4>1. /\ registers' = registers /\ program' = program
            /\ status' \in {status, "asserted", "panicked", "undefined"}
        BY <3>10, EarlyReturn
      <4>2. QED
        BY <2>2, <2>3, <2>5, <4>1
    <3>11. QED
      BY <3>4, <3>8, <3>9, <3>10 DEF EmulateNext
  <2>6. QED
    BY <2>1, <2>4, <2>5 DEF Next
<1>3. IpOnBoundary => StopsAtTheEnd
  BY DEF IpOnBoundary, StopsAtTheEnd, End
<1>4. QED
  BY <1>1, <1>2, <1>3, TypeCorrect, PTL DEF Spec

-----------------------------------------------------------------------------
(***************************************************************************)
(* Byte operands.                                                          *)
(***************************************************************************)

\* Replacing a half of a cell puts the other half back.
LEMMA OtherHalf ==
    ASSUME NEW dst \in Dest, ~dst.isWord, NEW cell \in Word, NEW v \in Byte
    PROVE  /\ dst.isLow  => HighPart(WithPart(dst, cell, v)) = HighPart(cell)
           /\ ~dst.isLow => LowPart(WithPart(dst, cell, v)) = LowPart(cell)
<1>1. LowPart(cell) \in Byte /\ HighPart(cell) \in Byte
  BY PartTypes
<1>2. /\ HighPart(CombineWord(v, HighPart(cell))) = HighPart(cell)
      /\ LowPart(CombineWord(LowPart(cell), v)) = LowPart(cell)
  BY <1>1, PartsRoundTrip
<1>3. QED
  BY <1>2 DEF WithPart

\* What a byte instruction writes has a half in common with what was there, and
\* what CMP writes is what was there.
LEMMA ByteWritten ==
    ASSUME TypeOK, NEW inst \in Instruction,
           DestOf(inst) \in Dest, SourceOf(inst) \in Source, Read(DestCell(inst)) \in Word,
           ~DestOf(inst).isWord
    PROVE  /\ inst.type = "CMP" => Written(inst) = Read(DestCell(inst))
           /\ \/ LowPart(Written(inst)) = LowPart(Read(DestCell(inst)))
              \/ HighPart(Written(inst)) = HighPart(Read(DestCell(inst)))
<1> DEFINE dst == DestOf(inst)  src == SourceOf(inst)  old == Read(DestCell(inst))
<1>1. Values(dst) = 256
  BY DEF Values
<1>2. SourceByte(src) \in Byte
  BY DEF SourceByte, Source
<1>3. PartOf(dst, old) \in Nat /\ SourceValue(dst, src) \in Nat
  BY OperandTypes DEF Fits
<1>4. /\ Sum(Values(dst), PartOf(dst, old), SourceValue(dst, src)) \in Byte
      /\ Difference(Values(dst), PartOf(dst, old), SourceValue(dst, src)) \in Byte
  <2> DEFINE a == PartOf(dst, old)  b == SourceValue(dst, src)
  <2>1. \A i \in Int : i % 256 \in Byte
    BY DEF Byte
  <2>2. a + b \in Int /\ a - b \in Int
    BY <1>3
  <2> HIDE DEF a, b
  <2>3. QED
    BY <1>1, <2>1, <2>2 DEF Sum, Difference, a, b
<1>5. \/ Written(inst) = old
      \/ \E v \in Byte : Written(inst) = WithPart(dst, old, v)
  BY <1>2, <1>4 DEF Written, MovResult, AddResult, SubStored, SubResult
<1>6. inst.type = "CMP" => Written(inst) = old
  BY DEF Written, SubStored
<1>7. QED
  BY <1>5, <1>6, OtherHalf

\* A step that touches no operand changes no byte.
LEMMA NothingChanged ==
    ASSUME registers' = registers, memory' = memory
    PROVE  Cardinality(ChangedBytes) = 0
<1>1. ChangedBytes = {}
  BY DEF ChangedBytes
<1>2. QED
  BY <1>1, FS_EmptySet

\* Of a cell in which one half stays, at most one byte is changed.
LEMMA AtMostOneByte ==
    ASSUME TypeOK, NEW inst \in Instruction, ~WritesOddSegment(inst),
           OperandsReady(inst), inst.operands # "ShortLabel",
           NEW v \in Word, NEW f \in Word, Effect(inst, v, f),
           \/ LowPart(v) = LowPart(Read(DestCell(inst)))
           \/ HighPart(v) = HighPart(Read(DestCell(inst)))
    PROVE  /\ Cardinality(ChangedBytes) <= 1
           /\ v = Read(DestCell(inst)) => Cardinality(ChangedBytes) = 0
<1>1. /\ \A r \in 0..11 : registers'[r] =
            IF DestCell(inst) = RegisterCell(r) THEN v ELSE registers[r]
      /\ \A a \in Address : memory'[a] =
            IF DestCell(inst) = MemoryCell(a) THEN LowPart(v)
            ELSE IF DestCell(inst) = MemoryCell(a - 1) THEN HighPart(v) ELSE memory[a]
  BY EffectByByte
<1>2. AX..DS = 0..11
  BY DEF AX, DS
<1>3. \E b : /\ ChangedBytes \subseteq {b}
             /\ v = Read(DestCell(inst)) => ChangedBytes = {}
  <2>1. CASE inst.operands \in MemoryDestinations
    <3> DEFINE a0 == EffectiveAddress(inst)
    <3>1. DestCell(inst) = MemoryCell(a0)
      BY <2>1, DestIsOperand
    <3>2. a0 \in Address /\ a0 + 1 \in Address /\ a0 \in Int
      <4>1. InBounds(a0)
        BY <2>1 DEF OperandsReady, AddressPanics, UsesMemory
      <4>2. a0 \in Int
        BY EffectiveAddressType DEF RegistersOK, TypeOK
      <4>3. QED
        BY <4>1, <4>2, EmulatorConstants DEF InBounds, Address, EmulatorConstants
    <3> HIDE DEF a0
    <3>3. \A r \in 0..11 : registers'[r] = registers[r]
      BY <1>1, <3>1, CellShape
    <3>4. \A a \in Address : memory'[a] = IF a = a0 THEN LowPart(v)
                                          ELSE IF a - 1 = a0 THEN HighPart(v) ELSE memory[a]
      BY <1>1, <3>1, CellShape
    <3>5. /\ memory[a0] \in Byte /\ memory[a0 + 1] \in Byte
          /\ Read(DestCell(inst)) = CombineWord(memory[a0], memory[a0 + 1])
      BY <3>1, <3>2, CellShape DEF Read, TypeOK
    <3>6. /\ LowPart(Read(DestCell(inst))) = memory[a0]
          /\ HighPart(Read(DestCell(inst))) = memory[a0 + 1]
      BY <3>5, PartsRoundTrip
    <3>7. \A a \in Address : a - 1 = a0 => a = a0 + 1
      BY <3>2 DEF Address
    <3>8. ASSUME LowPart(v) = memory[a0]
          PROVE  \A a \in Address : memory[a] # memory'[a] => a = a0 + 1
      BY <3>4, <3>7, <3>8
    <3>9. ASSUME HighPart(v) = memory[a0 + 1]
          PROVE  \A a \in Address : memory[a] # memory'[a] => a = a0
      BY <3>4, <3>7, <3>9
    <3>10. ChangedBytes = {<<"memory", a>> : a \in {a \in Address : memory[a] # memory'[a]}}
      BY <1>2, <3>3 DEF ChangedBytes
    <3>11. CASE LowPart(v) = LowPart(Read(DestCell(inst)))
      <4>1. ChangedBytes \subseteq {<<"memory", a0 + 1>>}
        BY <3>6, <3>8, <3>10, <3>11
      <4>2. v = Read(DestCell(inst)) => \A a \in Address : memory[a] = memory'[a]
        BY <3>4, <3>6, <3>7
      <4>3. v = Read(DestCell(inst)) => ChangedBytes = {}
        BY <3>10, <4>2
      <4>4. QED
        BY <4>1, <4>3
    <3>12. CASE HighPart(v) = HighPart(Read(DestCell(inst)))
      <4>1. ChangedBytes \subseteq {<<"memory", a0>>}
        BY <3>6, <3>9, <3>10, <3>12
      <4>2. v = Read(DestCell(inst)) => \A a \in Address : memory[a] = memory'[a]
        BY <3>4, <3>6, <3>7
      <4>3. v = Read(DestCell(inst)) => ChangedBytes = {}
        BY <3>10, <4>2
      <4>4. QED
        BY <4>1, <4>3
    <3>13. QED
      BY <3>11, <3>12
  <2>2. CASE inst.operands \notin MemoryDestinations
    <3>1. PICK r0 \in 0..11 : DestCell(inst) = RegisterCell(r0)
      BY <2>2, DestIsOperand
    <3>2. \A r \in 0..11 : registers'[r] = IF r = r0 THEN v ELSE registers[r]
      BY <1>1, <3>1, CellShape
    <3>3. \A a \in Address : memory'[a] = memory[a]
      BY <1>1, <3>1, CellShape
    <3>4. Read(DestCell(inst)) = registers[r0]
      BY <3>1, CellShape DEF Read
    <3>5. ChangedBytes =
            {<<"low", r>> : r \in {r \in 0..11 : LowPart(registers[r]) # LowPart(registers'[r])}}
            \cup {<<"high", r>> : r \in {r \in 0..11 : HighPart(registers[r]) # HighPart(registers'[r])}}
      BY <1>2, <3>3 DEF ChangedBytes
    <3>6. ASSUME v = registers[r0] PROVE ChangedBytes = {}
      <4>1. \A r \in 0..11 : registers'[r] = registers[r]
        BY <3>2, <3>6
      <4>2. QED
        BY <3>5, <4>1
    <3>7. CASE LowPart(v) = LowPart(Read(DestCell(inst)))
      <4>1. \A r \in 0..11 : LowPart(registers[r]) = LowPart(registers'[r])
        BY <3>2, <3>4, <3>7
      <4>2. \A r \in 0..11 : HighPart(registers[r]) # HighPart(registers'[r]) => r = r0
        BY <3>2
      <4>3. ChangedBytes \subseteq {<<"high", r0>>}
        BY <3>5, <4>1, <4>2
      <4>4. QED
        BY <3>4, <3>6, <4>3
    <3>8. CASE HighPart(v) = HighPart(Read(DestCell(inst)))
      <4>1. \A r \in 0..11 : HighPart(registers[r]) = HighPart(registers'[r])
        BY <3>2, <3>4, <3>8
      <4>2. \A r \in 0..11 : LowPart(registers[r]) # LowPart(registers'[r]) => r = r0
        BY <3>2
      <4>3. ChangedBytes \subseteq {<<"low", r0>>}
        BY <3>5, <4>1, <4>2
      <4>4. QED
        BY <3>4, <3>6, <4>3
    <3>9. QED
      BY <3>7, <3>8
  <2>3. QED
    BY <2>1, <2>2
<1>4. PICK b : ChangedBytes \subseteq {b} /\ (v = Read(DestCell(inst)) => ChangedBytes = {})
  BY <1>3
<1> HIDE DEF ChangedBytes
<1>5. ChangedBytes = {} \/ ChangedBytes = {b}
  BY <1>4
<1>6. Cardinality({}) = 0 /\ Cardinality({b}) = 1
  BY FS_EmptySet, FS_Singleton
<1>7. QED
  BY <1>4, <1>5, <1>6

\* In every program, whatever its operands and the size of the memory, a step
\* that executes a byte instruction changes at most one byte of the registers
\* and the memory together, and none if it is CMP.
THEOREM ByteInstructionsKeepToTheirByte == Spec => ByteInstructionsChangeOneByte
<1> DEFINE A == \A i \in Current :
                  /\ i.operands \notin SegmentMoves \cup {"ShortLabel"} /\ i.w = 0
                  => Cardinality(ChangedBytes) <= (IF i.type = "CMP" THEN 0 ELSE 1)
<1>1. TypeOK /\ [Next]_vars => [A]_vars
  <2> SUFFICES ASSUME TypeOK, Next, NEW i \in Current,
                      i.operands \notin SegmentMoves \cup {"ShortLabel"}, i.w = 0
               PROVE  Cardinality(ChangedBytes) <= IF i.type = "CMP" THEN 0 ELSE 1
    OBVIOUS
  <2>1. PICK k \in DOMAIN program : i = program[k] /\ AtIp(k)
    BY DEF Current
  <2>2. ~Stop
    BY <2>1 DEF Stop
  <2>3. PICK j \in DOMAIN program : AtIp(j) /\ EmulateNext(program[j])
    BY <2>2 DEF Next
  <2>4. j = k
    BY <2>1, <2>3, OneAtIp DEF TypeOK
  <2>5. EmulateNext(i) /\ i \in Instruction
    BY <2>1, <2>3, <2>4 DEF TypeOK
  <2>6. ~WritesOddSegment(i)
    BY DEF WritesOddSegment, SegmentMoves
  <2>7. CASE EmulateMov(i) \/ EmulateAdd(i) \/ EmulateSub(i)
    <3>1. /\ OperandsReady(i) /\ i.operands # "ShortLabel"
          /\ Read(DestCell(i)) \in Word /\ DestOf(i) \in Dest /\ SourceOf(i) \in Source
          /\ Written(i) \in Word /\ FlagsWritten(i) \in Word
          /\ Effect(i, Written(i), FlagsWritten(i))
      BY <2>5, <2>6, <2>7, OperandStep
    <3>2. ~DestOf(i).isWord
      <4>1. DestOf(i).isWord <=> (i.w = 1 \/ i.operands \in SegmentMoves)
        BY Zenon DEF DestOf
      <4>2. QED
        BY <4>1
    <3>3. /\ i.type = "CMP" => Written(i) = Read(DestCell(i))
          /\ \/ LowPart(Written(i)) = LowPart(Read(DestCell(i)))
             \/ HighPart(Written(i)) = HighPart(Read(DestCell(i)))
      BY <2>5, <3>1, <3>2, ByteWritten
    <3>4. /\ Cardinality(ChangedBytes) <= 1
          /\ Written(i) = Read(DestCell(i)) => Cardinality(ChangedBytes) = 0
      BY <2>5, <2>6, <3>1, <3>3, AtMostOneByte
    <3>5. QED
      BY <3>3, <3>4
  <2>8. CASE EmulateFlagJump(i) \/ EmulateLoop(i)
    BY <2>5, <2>8, JumpStep
  <2>9. CASE EmulateUnsupported(i) \/ PanicOnAddress(i) \/ UndefinedRegister(i)
    BY <2>9, EarlyReturn, NothingChanged
  <2>10. QED
    BY <2>5, <2>7, <2>8, <2>9 DEF EmulateNext
<1>2. QED
  BY <1>1, TypeCorrect, PTL DEF Spec, ByteInstructionsChangeOneByte
=============================================================================
