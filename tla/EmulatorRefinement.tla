------------------------- MODULE EmulatorRefinement -------------------------
(***************************************************************************)
(* The emulator implements the machine: the bytes of a register are the    *)
(* halves of its 16-bit cell, the flags are the bits of FLAGS.             *)
(***************************************************************************)
EXTENDS Emulator

CellsOfMachine ==
    [l \in {<<"register", k>> : k \in 0..23} \cup {<<"memory", a>> : a \in Address} |->
        CASE l[1] = "memory"                       -> memory[l[2]]
          [] l[1] = "register" /\ l[2] % 2 = 0     -> LowPart(registers[l[2] \div 2])
          [] l[1] = "register" /\ l[2] % 2 = 1     -> HighPart(registers[l[2] \div 2])]

FlagBits == [carry |-> CPU_FLAG_CARRY_FLAG, parity |-> CPU_FLAG_PARITY_FLAG,
             auxCarry |-> CPU_FLAG_AUX_CARRY_FLAG, zero |-> CPU_FLAG_ZERO_FLAG,
             sign |-> CPU_FLAG_SIGN_FLAG, overflow |-> CPU_FLAG_OVERFLOW_FLAG]

FlagsOfMachine == {f \in DOMAIN FlagBits : IsFlagSet(registers[FLAGS], FlagBits[f])}

M == INSTANCE Machine WITH MemorySize <- EMULATOR_MEMORY_SIZE, IpValues <- 65536,
                           cells <- CellsOfMachine,
                           flags <- FlagsOfMachine,
                           ip <- registers[IP]

\* The instructions the code does not execute as the machine does: the three
\* divergences of EmulatorDivergences (the byte store of a register, the
\* accumulator move when BX + SI is not 0, d = 1 between two registers), and
\* the moves to and from a segment field that names no segment register.
Deviates(inst) ==
    \/ inst.operands = "Register_Memory" /\ inst.w = 0
    \/ inst.operands \in {"Memory_Accumulator", "Accumulator_Memory"} /\ BaseAddress(0) # 0
    \/ inst.operands = "Register_Register" /\ inst.d = 1
    \/ inst.operands \in SegmentMoves /\ inst.reg \notin 0..3

\* Every step of the emulator is a step of the machine, except a step that
\* executes an instruction that deviates: whatever the operands' class and
\* width, the code that picks halves of 16-bit cells reads and writes exactly
\* the operand's bytes, the flags it derives from the wrapped result are those
\* of the exact result, and the next IP is where the instruction or its jump
\* says (emulateNext, emulateMov, emulateAdd, emulateSub, calcMemoryAddress).
ImplementsMachine ==
    M!Init /\ [][(\E i \in Current : Deviates(i)) \/ M!Next]_(M!vars)
=============================================================================
