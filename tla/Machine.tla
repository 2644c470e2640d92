------------------------------ MODULE Machine -------------------------------
(***************************************************************************)
(* What the emulator promises: an 8086 whose operands are bytes at         *)
(* locations.  A register is two bytes, each with a location of its own,   *)
(* and an instruction of w = 0 is about one location and an instruction of *)
(* w = 1 about two; results and flags are defined by the integers, not by  *)
(* wrapped words.  The code has none of this: it keeps 16-bit cells, picks *)
(* the half of a cell with the isWord and isLow of Dest and Source, and    *)
(* computes the flags from the wrapped result.  EmulatorRefinement says    *)
(* how the one is the other.                                               *)
(***************************************************************************)
EXTENDS Instructions

CONSTANTS Programs, MemorySize,
          IpValues      \* the instruction pointer counts modulo this; 2^16 in the code

ASSUME MachineConstants == MemorySize \in Nat /\ IpValues \in Nat \ {0}

VARIABLES program,
          cells,       \* the byte at each location
          flags,       \* the flags that are set
          ip,
          status

vars == <<program, cells, flags, ip, status>>

\* The locations: the low (0) and high (1) byte of registers 0 (ax) to 11 (ds),
\* numbered as in enum RegisterType, and the memory.
RegisterByte(r, half) == <<"register", 2 * r + half>>
MemoryByte(a) == <<"memory", a>>
Location == {RegisterByte(r, half) : r \in 0..11, half \in 0..1}
                \cup {MemoryByte(a) : a \in 0..(MemorySize - 1)}

Flag == {"carry", "parity", "auxCarry", "zero", "sign", "overflow"}

Init == /\ program \in Programs
        /\ cells = [l \in Location |-> 0]
        /\ flags = {}
        /\ ip = 0
        /\ status = "running"

\* An operand is the sequence of its locations, low byte first.
WordRegister(r) == <<RegisterByte(r, 0), RegisterByte(r, 1)>>
Register(k, w) == IF w = 1 THEN WordRegister(k)
                           ELSE <<RegisterByte(k % 4, k \div 4)>>
SegmentRegister(k) == WordRegister(8 + k)
Memory(a, w) == IF w = 1 THEN <<MemoryByte(a), MemoryByte(a + 1)>>
                         ELSE <<MemoryByte(a)>>

Value(operand) ==
    IF Len(operand) = 1 THEN cells[operand[1]]
                        ELSE CombineWord(cells[operand[1]], cells[operand[2]])

CellsWith(operand, v) ==
    [l \in Location |->
        CASE l = operand[1]                      -> LowPart(v)
          [] Len(operand) = 2 /\ l = operand[2]  -> HighPart(v)
          [] OTHER                               -> cells[l]]

(***************************************************************************)
(* Addresses.                                                              *)
(***************************************************************************)
Signed(r) == ToI16(Value(WordRegister(r)))

Base(rm) ==
    LET bx == Signed(3)  bp == Signed(5)  si == Signed(6)  di == Signed(7)
    IN  << bx + si, bx + di, bp + si, bp + di, si, di, bp, bx >>[rm + 1]

AccumulatorMoves == {"Memory_Accumulator", "Accumulator_Memory"}

\* An accumulator move has its address in its data bytes, and no registers in it.
EffectiveAddr(inst) ==
    LET disp16 == ToI16(CombineWord(inst.disp[1], inst.disp[2])) IN
    CASE inst.operands \in AccumulatorMoves ->
           ToI16(CombineWord(inst.data[1], inst.data[2]))
      [] inst.mod = MEMORY_NO_DISPLACEMENT -> IF inst.rm = 6 THEN disp16 ELSE Base(inst.rm)
      [] inst.mod = MEMORY_8_BIT_DISPLACEMENT -> Base(inst.rm) + ToI8(inst.disp[1])
      [] inst.mod = MEMORY_16_BIT_DISPLACEMENT -> Base(inst.rm) + disp16

MemoryOperands == AccumulatorMoves \cup {"Memory_Register", "Register_Memory", "Memory_Immediate"}
Accessible(inst) == inst.operands \in MemoryOperands =>
                        EffectiveAddr(inst) \in 0..(MemorySize - 2)

(***************************************************************************)
(* The operands of an instruction: where its result goes, and the number   *)
(* its source is.                                                          *)
(***************************************************************************)
\* Of two register operands, d = 1 makes reg the destination and d = 0 makes rm
\* the destination; the other is the source.
DestRegister(inst) == IF inst.d = 1 THEN inst.reg ELSE inst.rm
SourceRegister(inst) == IF inst.d = 1 THEN inst.rm ELSE inst.reg

SegmentOperands == {"Register16_SegReg", "SegReg_Register16"}
Width(inst) == IF inst.operands \in SegmentOperands THEN 1 ELSE inst.w

Target(inst) ==
    CASE inst.operands = "Register_Immediate" -> Register(inst.rm, inst.w)
      [] inst.operands = "Register_Register" -> Register(DestRegister(inst), inst.w)
      [] inst.operands = "Memory_Register" -> Register(inst.reg, inst.w)
      [] inst.operands \in {"Accumulator_Immediate", "Memory_Accumulator"} ->
           Register(0, inst.w)
      [] inst.operands = "Register16_SegReg" -> SegmentRegister(inst.reg)
      [] inst.operands = "SegReg_Register16" -> WordRegister(inst.rm)
      [] inst.operands \in {"Register_Memory", "Memory_Immediate", "Accumulator_Memory"} ->
           Memory(EffectiveAddr(inst), inst.w)

Immediate(inst) ==
    CASE inst.w = 0                -> inst.data[1]
      [] inst.w = 1 /\ inst.s = 1  -> SignExtend(inst.data[1])
      [] inst.w = 1 /\ inst.s = 0  -> CombineWord(inst.data[1], inst.data[2])

SourceNumber(inst) ==
    CASE inst.operands \in {"Register_Immediate", "Memory_Immediate", "Accumulator_Immediate"} ->
           Immediate(inst)
      [] inst.operands = "Register_Register" -> Value(Register(SourceRegister(inst), inst.w))
      [] inst.operands = "Register_Memory" -> Value(Register(inst.reg, inst.w))
      [] inst.operands = "Accumulator_Memory" -> Value(Register(0, inst.w))
      [] inst.operands = "Register16_SegReg" -> Value(WordRegister(inst.rm))
      [] inst.operands = "SegReg_Register16" -> Value(SegmentRegister(inst.reg))
      [] inst.operands \in {"Memory_Register", "Memory_Accumulator"} ->
           Value(Memory(EffectiveAddr(inst), inst.w))

(***************************************************************************)
(* Results and flags, by the integers the operands stand for.              *)
(***************************************************************************)
NumberOf(inst) == IF Width(inst) = 1 THEN 65536 ELSE 256
AsSigned(n, v) == IF v < n \div 2 THEN v ELSE v - n

Exact(type, a, b) == IF type = "ADD" THEN a + b ELSE a - b
\* The bits of a byte that are set, by their values.
SetBits(b) == {bit \in {1, 2, 4, 8, 16, 32, 64, 128} : (b \div bit) % 2 = 1}

FlagsOf(type, n, a, b) ==
    LET r == Exact(type, a, b) % n
    IN  {f \in Flag :
           \/ f = "carry"    /\ Exact(type, a, b) \notin 0..(n - 1)
           \/ f = "parity"   /\ Cardinality(SetBits(r % 256)) % 2 = 0
           \/ f = "auxCarry" /\ Exact(type, a % 16, b % 16) \notin 0..15
           \/ f = "zero"     /\ r = 0
           \/ f = "sign"     /\ AsSigned(n, r) < 0
           \/ f = "overflow" /\ Exact(type, AsSigned(n, a), AsSigned(n, b))
                                  \notin (-(n \div 2))..(n \div 2 - 1)}
-----------------------------------------------------------------------------
At(i) == StartOf(program, i) = ip
\* Mutant: the instruction pointer is wider than a word.
ContinueWithoutWrap(inst, delta) == ip' = ip + inst.byteCount + delta
Continue(inst, delta) == ip' = (ip + inst.byteCount + delta) % IpValues

Move(inst) ==
    /\ inst.type = "MOV" /\ inst.operands \notin {"SegReg_Memory16", "Memory_SegReg"}
    /\ Accessible(inst)
    /\ cells' = CellsWith(Target(inst), SourceNumber(inst))
    /\ Continue(inst, 0)
    /\ UNCHANGED <<program, flags, status>>

\* CMP is a SUB that only sets the flags.
Calculate(inst) ==
    LET n == NumberOf(inst)  a == Value(Target(inst))  b == SourceNumber(inst)
    IN  /\ inst.type \in ArithmeticTypes /\ Accessible(inst)
        /\ cells' = IF inst.type = "CMP" THEN cells
                    ELSE CellsWith(Target(inst), Exact(inst.type, a, b) % n)
        /\ flags' = FlagsOf(inst.type, n, a, b)
        /\ Continue(inst, 0)
        /\ UNCHANGED <<program, status>>

Jump(inst) ==
    /\ \/ inst.type = "JE"  /\ "zero" \in flags
       \/ inst.type = "JNE" /\ "zero" \notin flags
       \/ inst.type = "JP"  /\ "parity" \in flags
       \/ inst.type = "JB"  /\ "carry" \in flags
    /\ Continue(inst, ToI8(inst.data[1]))
    /\ UNCHANGED <<program, cells, flags, status>>

FallThrough(inst) ==
    /\ \/ inst.type = "JE"  /\ "zero" \notin flags
       \/ inst.type = "JNE" /\ "zero" \in flags
       \/ inst.type = "JP"  /\ "parity" \notin flags
       \/ inst.type = "JB"  /\ "carry" \notin flags
    /\ Continue(inst, 0)
    /\ UNCHANGED <<program, cells, flags, status>>

\* A loop counts cx down, without a flag, and goes on until it is 0.
Loop(inst) ==
    LET cx == WordRegister(1)
        left == ToU16(Value(cx) - 1)
        goesOn == left # 0 /\ (inst.type = "LOOP" \/ "zero" \notin flags)
    IN  /\ inst.type \in {"LOOP", "LOOPNE"}
        /\ cells' = CellsWith(cx, left)
        /\ Continue(inst, IF goesOn THEN ToI8(inst.data[1]) ELSE 0)
        /\ UNCHANGED <<program, flags, status>>

\* Mutant: only an ip past the end of the program ends the run.
HaltPastTheEnd == /\ ip > StartOf(program, Len(program) + 1)
                  /\ status' = "stopped"
                  /\ UNCHANGED <<program, cells, flags, ip>>

\* Nothing at ip: the program is over.
Halt == /\ \A i \in DOMAIN program : ~At(i)
        /\ status' = "stopped"
        /\ UNCHANGED <<program, cells, flags, ip>>

\* An instruction that cannot be executed changes nothing but how the run ended.
Fault(inst) ==
    /\ \/ ~Accessible(inst) /\ status' = "panicked"
       \/ /\ \/ inst.operands \in {"SegReg_Memory16", "Memory_SegReg"}
             \/ inst.type \in JumpTypes \ {"JE", "JNE", "JP", "JB", "LOOP", "LOOPNE"}
          /\ status' = "asserted"
    /\ UNCHANGED <<program, cells, flags, ip>>

Execute(inst) == \/ Move(inst) \/ Calculate(inst) \/ Jump(inst)
                 \/ FallThrough(inst) \/ Loop(inst) \/ Fault(inst)

Next == /\ status = "running"
        /\ \/ Halt
           \/ \E i \in DOMAIN program : At(i) /\ Execute(program[i])

Spec == Init /\ [][Next]_vars

\* The loop of emulate runs in the program's only thread.
FairSpec == Spec /\ WF_vars(Next)
-----------------------------------------------------------------------------
(***************************************************************************)
(* What the width of IP means for a program without jumps.                 *)
(***************************************************************************)
Length == StartOf(program, Len(program) + 1)
StraightLine == \A k \in DOMAIN program : program[k].operands # "ShortLabel"

\* A straight-line program shorter than the range of IP comes to its end.
ShortProgramsEnd ==
    StraightLine /\ Length < IpValues => <>(status # "running")

\* A program exactly as long as the range of IP has no end: after its last
\* instruction IP is 0 again and it starts over (u16 nextIp; nextInst never
\* finds IP past the last instruction).  Only a fault ends it.
FullProgramsStartOver ==
    StraightLine /\ Length = IpValues => [](status # "stopped")
=============================================================================
