------------------------------ MODULE Emulator ------------------------------
(***************************************************************************)
(* The emulator of emulator.cpp: the EmulationContext, the fetch loop of   *)
(* emulate and nextInst, and emulateNext, which executes one instruction.  *)
(* A step is an iteration of the loop: Stop, or one of the actions that    *)
(* execute the instruction at IP.  The verbose trace is left out.          *)
(***************************************************************************)
EXTENDS Instructions, Alu, Build

CONSTANTS
    Programs,               \* the instruction sequences that may be executed
    EMULATOR_MEMORY_SIZE    \* bytes of memory; a megabyte in the code

ASSUME EmulatorConstants ==
    /\ Programs \subseteq Seq(Instruction)
    /\ EMULATOR_MEMORY_SIZE \in Nat /\ EMULATOR_MEMORY_SIZE >= 2

VARIABLES
    program,      \* ctx.instructions
    registers,    \* the value of each of ctx.registers
    memory,       \* ctx.memory
    status        \* "running", or how the loop was left

vars == <<program, registers, memory, status>>

(***************************************************************************)
(* enum RegisterType.                                                      *)
(***************************************************************************)
AX == 0
CX == 1
DX == 2
BX == 3
SP == 4
BP == 5
SI == 6
DI == 7
ES == 8
CS == 9
SS == 10
DS == 11
IP == 12
FLAGS == 13
RegisterType == 0..13

Address == 0..(EMULATOR_MEMORY_SIZE - 1)

\* "undefined": ctx.registers was indexed past its end, and nothing is known
\* of what follows.
Status == {"running", "stopped", "panicked", "asserted", "undefined"}

\* createEmulationCtx.
Init == /\ program \in Programs
        /\ registers = [r \in RegisterType |-> 0]
        /\ memory = [a \in Address |-> 0]
        /\ status = "running"

(***************************************************************************)
(* nextInst: the linear search for the instruction that starts at IP.  At  *)
(* most one does, as no instruction is empty.                              *)
(***************************************************************************)
AtIp(i) == StartOf(program, i) = registers[IP]

(***************************************************************************)
(* calcMemoryAddress.  The registers an address is made of are read as     *)
(* signed and the sum is a wide integer: it is not wrapped to 16 bits, and *)
(* may be negative.                                                        *)
(***************************************************************************)
AddressRegisters ==
    << <<BX, SI>>, <<BX, DI>>, <<BP, SI>>, <<BP, DI>>, <<SI>>, <<DI>>, <<BP>>, <<BX>> >>

BaseAddress(rm) ==
    LET r == AddressRegisters[rm + 1]
    IN  IF Len(r) = 1 THEN ToI16(registers[r[1]])
                      ELSE ToI16(registers[r[1]]) + ToI16(registers[r[2]])

AddressDisplacement(mod, rm, disp) ==
    CASE Is8bitDisplacement(mod) -> ToI8(disp[1])
      [] Is16bitDisplacement(mod) \/ IsDirectAddrMode(mod, rm) ->
           ToI16(CombineWord(disp[1], disp[2]))
      [] OTHER -> 0

CalcMemoryAddress(mod, rm, disp) ==
    (IF IsDirectAddrMode(mod, rm) THEN 0 ELSE BaseAddress(rm))
        + AddressDisplacement(mod, rm, disp)

\* The accumulator moves have no mod: the code sets it to a 16-bit displacement
\* and leaves rm as it is, 0.
EffectiveAddress(inst) ==
    IF inst.operands \in {"Memory_Accumulator", "Accumulator_Memory"}
    THEN CalcMemoryAddress(MEMORY_16_BIT_DISPLACEMENT, inst.rm, inst.data)
    ELSE CalcMemoryAddress(inst.mod, inst.rm, inst.disp)

InBounds(addr) == addr >= 0 /\ addr < EMULATOR_MEMORY_SIZE - 1

(***************************************************************************)
(* A cell is what a u16* points to: a register, or the bytes of memory at  *)
(* an address and the next one.                                            *)
(***************************************************************************)
RegisterCell(r) == [inMemory |-> FALSE, at |-> r]
MemoryCell(a) == [inMemory |-> TRUE, at |-> a]

Read(cell) ==
    IF cell.inMemory THEN CombineWord(memory[cell.at], memory[cell.at + 1])
                     ELSE registers[cell.at]

MemoryWith(cell, v) ==
    IF cell.inMemory
    THEN [memory EXCEPT ![cell.at] = LowPart(v), ![cell.at + 1] = HighPart(v)]
    ELSE memory

RegistersWith(cell, v) ==
    IF cell.inMemory THEN registers ELSE [registers EXCEPT ![cell.at] = v]

\* getRegister.  isLowRegister then tells which half an 8-bit register is.
GetRegister(reg, isWord, isSegment) ==
    CASE isSegment -> ES + reg
      [] ~isSegment /\ isWord -> reg
      [] ~isSegment /\ ~isWord -> reg % 4
IsLowRegister(reg) == reg < 4
-----------------------------------------------------------------------------
(***************************************************************************)
(* The first switch of emulateNext, over inst.operands: the destination,   *)
(* as its cell and its Dest, and the Source.                               *)
(***************************************************************************)
MemoryDestinations == {"Register_Memory", "Memory_Immediate", "Accumulator_Memory"}
MemorySources == {"Memory_Register", "Memory_Accumulator"}
SegmentMoves == {"Register16_SegReg", "SegReg_Register16"}
UnsupportedOperands == {"SegReg_Memory16", "Memory_SegReg"}

UsesMemory(inst) == inst.operands \in MemoryDestinations \cup MemorySources

\* Memory_Immediate, Register_Immediate and Memory_Register: src.isWord.
ImmediateIsWord(inst) == inst.s = 0 /\ inst.w = 1

DestCell(inst) ==
    CASE inst.operands \in {"Register_Immediate", "Register_Register"} ->
           RegisterCell(GetRegister(inst.rm, inst.w = 1, FALSE))
      [] inst.operands = "Register16_SegReg" -> RegisterCell(GetRegister(inst.reg, TRUE, TRUE))
      [] inst.operands = "SegReg_Register16" -> RegisterCell(GetRegister(inst.rm, TRUE, FALSE))
      [] inst.operands = "Memory_Register" ->
           RegisterCell(GetRegister(inst.reg, inst.w = 1, FALSE))
      [] inst.operands \in {"Accumulator_Immediate", "Memory_Accumulator"} -> RegisterCell(AX)
      [] inst.operands \in MemoryDestinations -> MemoryCell(EffectiveAddress(inst))

DestOf(inst) ==
    [isWord |-> inst.w = 1 \/ inst.operands \in SegmentMoves,
     isLow  |-> CASE inst.operands \in {"Register_Immediate", "Register_Register"} ->
                       IsLowRegister(inst.rm)
                  [] inst.operands = "Memory_Register" -> IsLowRegister(inst.reg)
                  [] inst.operands = "Register_Memory" -> inst.w = 1
                  [] inst.operands = "Memory_Immediate" ->
                       inst.w = 1 \/ ~ImmediateIsWord(inst)
                  [] inst.operands \in SegmentMoves -> FALSE
                  [] OTHER -> TRUE]

SourceCell(inst) ==
    CASE inst.operands = "Register_Register" ->
           RegisterCell(GetRegister(inst.reg, inst.w = 1, FALSE))
      [] inst.operands = "Register16_SegReg" -> RegisterCell(GetRegister(inst.rm, TRUE, FALSE))
      [] inst.operands = "SegReg_Register16" -> RegisterCell(GetRegister(inst.reg, TRUE, TRUE))
      [] inst.operands = "Register_Memory" -> RegisterCell(GetRegister(inst.reg, TRUE, FALSE))
      [] inst.operands = "Accumulator_Memory" -> RegisterCell(AX)
      [] inst.operands \in MemorySources -> MemoryCell(EffectiveAddress(inst))

FromCell(cell, isWord, isLow) ==
    [low |-> LowPart(Read(cell)), hi |-> HighPart(Read(cell)),
     isWord |-> isWord, isLow |-> isLow]

SourceOf(inst) ==
    CASE inst.operands \in {"Register_Immediate", "Accumulator_Immediate"} ->
           [low |-> inst.data[1], hi |-> inst.data[2],
            isWord |-> ImmediateIsWord(inst), isLow |-> TRUE]
      [] inst.operands = "Memory_Immediate" ->
           IF ImmediateIsWord(inst)
           THEN [low |-> inst.data[1], hi |-> inst.data[2], isWord |-> TRUE, isLow |-> FALSE]
           ELSE [low |-> inst.data[1], hi |-> inst.data[1], isWord |-> FALSE, isLow |-> FALSE]
      [] inst.operands = "Register_Register" ->
           FromCell(SourceCell(inst), inst.w = 1, IsLowRegister(inst.reg))
      [] inst.operands \in SegmentMoves \cup {"Register_Memory"} ->
           FromCell(SourceCell(inst), TRUE, TRUE)
      [] inst.operands = "Memory_Register" ->
           FromCell(SourceCell(inst), ImmediateIsWord(inst), TRUE)
      [] inst.operands \in {"Memory_Accumulator", "Accumulator_Memory"} ->
           FromCell(SourceCell(inst), inst.w = 1, TRUE)

\* The ways the first switch does not reach the second one.
AddressPanics(inst) == UsesMemory(inst) /\ ~InBounds(EffectiveAddress(inst))
NoSuchRegister(inst) == inst.operands \in SegmentMoves /\ ES + inst.reg \notin RegisterType
OperandsReady(inst) ==
    /\ inst.operands \notin UnsupportedOperands
    /\ ~AddressPanics(inst) /\ ~NoSuchRegister(inst)
-----------------------------------------------------------------------------
(***************************************************************************)
(* The second switch, over inst.type, and the update of IP after it: IP is *)
(* read again here, after the instruction had its effect.                  *)
(***************************************************************************)
Advance(regs, inst, deltaIp) ==
    [regs EXCEPT ![IP] = ToU16(regs[IP] + deltaIp + inst.byteCount)]

EmulateMov(inst) ==
    LET cell == DestCell(inst)
        next == MovResult(DestOf(inst), SourceOf(inst), Read(cell))
    IN  /\ inst.type = "MOV" /\ OperandsReady(inst)
        /\ registers' = Advance(RegistersWith(cell, next), inst, 0)
        /\ memory' = MemoryWith(cell, next)
        /\ UNCHANGED <<program, status>>

EmulateAdd(inst) ==
    LET cell  == DestCell(inst)
        next  == AddResult(DestOf(inst), SourceOf(inst), Read(cell))
        flags == AddFlagsResult(DestOf(inst), SourceOf(inst), Read(cell), registers[FLAGS])
    IN  /\ inst.type = "ADD" /\ OperandsReady(inst)
        /\ registers' = Advance([RegistersWith(cell, next) EXCEPT ![FLAGS] = flags], inst, 0)
        /\ memory' = MemoryWith(cell, next)
        /\ UNCHANGED <<program, status>>

\* Mutant: CMP does not put the old value back.
SubNeverRestored(inst, cell) == SubResult(DestOf(inst), SourceOf(inst), Read(cell))

\* What emulateSub leaves in the cell when the old value is put back or not.
SubStored(inst, cell) ==
    IF inst.type = "CMP" THEN Read(cell)
    ELSE SubResult(DestOf(inst), SourceOf(inst), Read(cell))

EmulateSub(inst) ==
    LET cell  == DestCell(inst)
        next  == SubStored(inst, cell)
        flags == SubFlagsResult(DestOf(inst), SourceOf(inst), Read(cell), registers[FLAGS])
    IN  /\ inst.type \in {"SUB", "CMP"} /\ OperandsReady(inst)
        /\ registers' = Advance([RegistersWith(cell, next) EXCEPT ![FLAGS] = flags], inst, 0)
        /\ memory' = MemoryWith(cell, next)
        /\ UNCHANGED <<program, status>>

FlagJumps == {"JE", "JNE", "JP", "JB"}
LoopJumps16 == {"LOOP", "LOOPNE"}

\* Is the jump taken?  For the loops regs are the registers after CX is
\* decremented.
Taken(type, regs) ==
    LET zero == IsFlagSet(regs[FLAGS], CPU_FLAG_ZERO_FLAG) IN
    CASE type = "JNE"    -> ~zero
      [] type = "JE"     -> zero
      [] type = "JP"     -> IsFlagSet(regs[FLAGS], CPU_FLAG_PARITY_FLAG)
      [] type = "JB"     -> IsFlagSet(regs[FLAGS], CPU_FLAG_CARRY_FLAG)
      [] type = "LOOP"   -> regs[CX] # 0
      [] type = "LOOPNE" -> regs[CX] # 0 /\ ~zero

\* Mutant: a jump is relative to its own start.
JumpDeltaFromStart(inst, regs) ==
    IF Taken(inst.type, regs) THEN ToI8(inst.data[1]) - inst.byteCount ELSE 0

JumpDelta(inst, regs) == IF Taken(inst.type, regs) THEN ToI8(inst.data[1]) ELSE 0

EmulateFlagJump(inst) ==
    /\ inst.type \in FlagJumps
    /\ registers' = Advance(registers, inst, JumpDelta(inst, registers))
    /\ UNCHANGED <<program, memory, status>>

\* Mutant: the loop decides on CX before it counts down.
EmulateLoopTestingFirst(inst) ==
    LET regs == [registers EXCEPT ![CX] = ToU16(registers[CX] - 1)]
    IN  /\ inst.type \in LoopJumps16
        /\ registers' = Advance(regs, inst, JumpDelta(inst, registers))
        /\ UNCHANGED <<program, memory, status>>

\* Mutant: the loop counts down with emulateSub, which sets the flags.
EmulateLoopSettingFlags(inst) ==
    LET flags == SetFlags(registers[FLAGS], SubFlags(65536, registers[CX], 1))
        regs  == [registers EXCEPT ![CX] = ToU16(registers[CX] - 1), ![FLAGS] = flags]
    IN  /\ inst.type \in LoopJumps16
        /\ registers' = Advance(regs, inst, JumpDelta(inst, regs))
        /\ UNCHANGED <<program, memory, status>>

\* Mutant: the loop does not count.
EmulateLoopWithoutCount(inst) ==
    /\ inst.type \in LoopJumps16
    /\ registers' = Advance(registers, inst, JumpDelta(inst, registers))
    /\ UNCHANGED <<program, memory, status>>

EmulateLoop(inst) ==
    LET regs == [registers EXCEPT ![CX] = ToU16(registers[CX] - 1)]
    IN  /\ inst.type \in LoopJumps16
        /\ registers' = Advance(regs, inst, JumpDelta(inst, regs))
        /\ UNCHANGED <<program, memory, status>>

\* The two Asserts on what is not supported.  Without them emulateNext returns
\* early, and the loop finds the same instruction at the same IP again.
Unsupported(inst) ==
    \/ inst.operands \in UnsupportedOperands
    \/ inst.type \in JumpTypes \ (FlagJumps \cup LoopJumps16)

EmulateUnsupported(inst) ==
    /\ Unsupported(inst)
    /\ status' = IF ASSERT_ENABLED THEN "asserted" ELSE status
    /\ UNCHANGED <<program, registers, memory>>

\* calcMemoryAddress panics, in every build.
PanicOnAddress(inst) ==
    /\ AddressPanics(inst)
    /\ status' = "panicked"
    /\ UNCHANGED <<program, registers, memory>>

\* A segment register field of 6 or 7 is past the end of ctx.registers.
UndefinedRegister(inst) ==
    /\ NoSuchRegister(inst)
    /\ status' = "undefined"
    /\ UNCHANGED <<program, registers, memory>>

\* nextInst finds no instruction at IP and ends the loop.
Stop ==
    /\ \A i \in DOMAIN program : ~AtIp(i)
    /\ status' = "stopped"
    /\ UNCHANGED <<program, registers, memory>>

EmulateNext(inst) ==
    \/ EmulateMov(inst) \/ EmulateAdd(inst) \/ EmulateSub(inst)
    \/ EmulateFlagJump(inst) \/ EmulateLoop(inst)
    \/ EmulateUnsupported(inst) \/ PanicOnAddress(inst) \/ UndefinedRegister(inst)

Next == /\ status = "running"
        /\ \/ Stop
           \/ \E i \in DOMAIN program : AtIp(i) /\ EmulateNext(program[i])

\* The loop runs in the program's only thread and nothing can interrupt it.
Spec == Init /\ [][Next]_vars /\ WF_vars(Next)
-----------------------------------------------------------------------------
TypeOK ==
    /\ program \in Seq(Instruction)
    /\ registers \in [RegisterType -> Word]
    /\ memory \in [Address -> Byte]
    /\ status \in Status

(***************************************************************************)
(* Predicates on programs that say when the properties below apply.        *)
(***************************************************************************)
Jumps == {k \in DOMAIN program : program[k].operands = "ShortLabel"}
JumpTarget(k) == StartOf(program, k + 1) + ToI8(program[k].data[1])
Boundaries == {StartOf(program, k) : k \in 1..(Len(program) + 1)}

JumpsLandOnInstructions == \A k \in Jumps : JumpTarget(k) \in Boundaries

\* A move to a segment register whose field is not 0..3 (es, cs, ss, ds).
WritesOddSegment(i) == i.operands = "Register16_SegReg" /\ i.reg \notin 0..3
SegmentsAreProper == \A k \in DOMAIN program : ~WritesOddSegment(program[k])

\* IP never wraps: there is an address for the end of the program, and none past
\* the last one is jumped to.  A program of 65536 bytes starts over instead.
FitsInIp ==
    /\ StartOf(program, Len(program) + 1) \in Word
    /\ \A k \in Jumps : JumpTarget(k) < 65536

Backward == {k \in Jumps : JumpTarget(k) <= StartOf(program, k)}
WritesCX(i) == /\ i.operands \notin {"ShortLabel"} \cup UnsupportedOperands
               /\ i.type # "CMP" /\ DestCell(i) = RegisterCell(CX)

\* The only way back is one LOOP, and nothing from its target to it touches CX.
OneCountedLoop ==
    /\ SegmentsAreProper
    /\ \A k \in Backward :
         /\ program[k].type = "LOOP" /\ Backward = {k}
         /\ \A j \in 1..k : StartOf(program, j) >= JumpTarget(k) /\ j # k =>
               program[j].operands # "ShortLabel" /\ ~WritesCX(program[j])

\* The locations a step changed, a byte each; IP and FLAGS are not operands.
ChangedBytes ==
    {<<"low", r>> : r \in {r \in AX..DS : LowPart(registers[r]) # LowPart(registers'[r])}}
    \cup {<<"high", r>> : r \in {r \in AX..DS : HighPart(registers[r]) # HighPart(registers'[r])}}
    \cup {<<"memory", a>> : a \in {a \in Address : memory[a] # memory'[a]}}

Current == {program[i] : i \in {i \in DOMAIN program : AtIp(i)}}

(***************************************************************************)
(* Properties.                                                             *)
(***************************************************************************)

\* A byte instruction changes one byte: although it replaces a whole 16-bit
\* cell, the cell's other half (the register's other byte, the next byte of
\* memory) is put back, and CMP puts back all of it (emulateMov, emulateAdd,
\* emulateSub and the restore after CMP).
ByteInstructionsChangeOneByte ==
    [][\A i \in Current :
         /\ i.operands \notin SegmentMoves \cup {"ShortLabel"} /\ i.w = 0
         => Cardinality(ChangedBytes) <= (IF i.type = "CMP" THEN 0 ELSE 1)]_vars

\* FLAGS only changes by arithmetic: a move, a jump or a loop between a
\* comparison and its conditional jump leaves the outcome alone (cases of
\* emulateNext).  Moves to a segment field of 5, which is FLAGS, aside.
OnlyArithmeticSetsFlags ==
    [][registers[FLAGS] # registers'[FLAGS] =>
         \E i \in Current : i.type \in ArithmeticTypes \/ WritesOddSegment(i)]_vars

\* The emulator stops silently when no instruction starts at IP.  When every
\* jump lands on an instruction or on the end of the program, and the end has
\* an address, that is only so at the end: IP never slips between
\* instructions (nextInst, nextIp).
StopsAtTheEnd ==
    LET end == StartOf(program, Len(program) + 1) IN
    status = "stopped" /\ JumpsLandOnInstructions /\ SegmentsAreProper /\ end \in Word
        => registers[IP] = end

\* In a build with asserts a program without a jump back comes to an end, and
\* so does a program whose only way back is a LOOP that counts CX down, as long
\* as IP does not wrap (emulate, nextInst and the 16-bit nextIp).
CountedProgramsEnd ==
    ASSERT_ENABLED /\ OneCountedLoop /\ FitsInIp => <>(status # "running")
=============================================================================
