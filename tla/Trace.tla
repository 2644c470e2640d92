------------------------------- MODULE Trace --------------------------------
(***************************************************************************)
(* What emulateNext prints of each instruction when --verbose is given:    *)
(* the instruction, the cell it is about with its old and new value, IP    *)
(* before and after, and the letters of the flags.  The line is printed    *)
(* after the effect and before ctx's IP is set, so it is a function of the *)
(* step.  Its number, tmp_g_counter, is its place in the trace.            *)
(***************************************************************************)
EXTENDS Emulator

\* flagsToCptr: a letter for each flag that is set.
FlagLetters(flags) ==
    {letter \in {"C", "P", "A", "Z", "S", "O"} :
        IsFlagSet(flags, CASE letter = "C" -> CPU_FLAG_CARRY_FLAG
                           [] letter = "P" -> CPU_FLAG_PARITY_FLAG
                           [] letter = "A" -> CPU_FLAG_AUX_CARRY_FLAG
                           [] letter = "Z" -> CPU_FLAG_ZERO_FLAG
                           [] letter = "S" -> CPU_FLAG_SIGN_FLAG
                           [] letter = "O" -> CPU_FLAG_OVERFLOW_FLAG)}

\* IP when the line is printed: the instruction has written its operand.
IpBeforeAdvance(inst) ==
    IF inst.operands # "ShortLabel" /\ DestCell(inst) = RegisterCell(IP)
    THEN ToU16(registers'[IP] - inst.byteCount) ELSE registers[IP]

\* destRegister->value or *destMemoryAddress, after the effect.
NewValue(inst, cell) ==
    IF cell.inMemory THEN CombineWord(memory'[cell.at], memory'[cell.at + 1])
    ELSE IF cell.at = IP THEN IpBeforeAdvance(inst)
    ELSE registers'[cell.at]

\* No part of the line when the instruction has no destination.
Destination(inst) ==
    IF inst.operands = "ShortLabel" THEN <<>>
    ELSE LET cell == DestCell(inst)
         IN  << [cell |-> cell, old |-> Read(cell), new |-> NewValue(inst, cell)] >>

\* Mutant: the flags are written down before the instruction is executed.
TraceLineFlagsFirst(inst) ==
    [inst |-> inst, dest |-> Destination(inst),
     ip |-> IpBeforeAdvance(inst), nextIp |-> registers'[IP],
     flags |-> FlagLetters(registers[FLAGS])]

TraceLine(inst) ==
    [inst |-> inst, dest |-> Destination(inst),
     ip |-> IpBeforeAdvance(inst), nextIp |-> registers'[IP],
     flags |-> FlagLetters(registers'[FLAGS])]

\* Mutant: an instruction without a destination has no line.
TraceOfDestinations ==
    IF status' # "running" \/ \E i \in Current : Unsupported(i) \/ i.operands = "ShortLabel"
    THEN <<>> ELSE << TraceLine(CHOOSE i \in Current : TRUE) >>

\* The lines a step of the emulator prints: one, unless emulateNext was left
\* before, or there was no instruction.
TraceOfStep ==
    IF status' # "running" \/ \E i \in Current : Unsupported(i) THEN <<>>
    ELSE << TraceLine(CHOOSE i \in Current : TRUE) >>
-----------------------------------------------------------------------------
(***************************************************************************)
(* A reader of the trace, who knows the registers and the memory before a  *)
(* line and takes the changes from it.  The line does not show that a loop *)
(* counts CX down.                                                         *)
(***************************************************************************)
AllFlags(letters) ==
    [carry |-> "C" \in letters, parity |-> "P" \in letters, auxCarry |-> "A" \in letters,
     zero |-> "Z" \in letters, sign |-> "S" \in letters, overflow |-> "O" \in letters]

WritesRegister(line) == \E k \in DOMAIN line.dest : ~line.dest[k].cell.inMemory

RegistersRead(regs, line) ==
    LET counted == IF line.inst.type \in LoopJumps16
                   THEN [regs EXCEPT ![CX] = ToU16(regs[CX] - 1)] ELSE regs
        written == IF WritesRegister(line)
                   THEN [counted EXCEPT ![line.dest[1].cell.at] = line.dest[1].new]
                   ELSE counted
    IN  [written EXCEPT ![IP] = line.nextIp,
                        ![FLAGS] = SetFlags(written[FLAGS], AllFlags(line.flags))]

MemoryRead(mem, line) ==
    IF line.dest = <<>> \/ WritesRegister(line) THEN mem
    ELSE LET at == line.dest[1].cell.at IN
         [mem EXCEPT ![at] = LowPart(line.dest[1].new), ![at + 1] = HighPart(line.dest[1].new)]

\* The trace tells the whole step: a reader who follows the lines always has
\* the emulator's registers and memory, the flags and the other byte of a byte
\* operand included, each line begins with the value the line before it left,
\* and a step without a line changes nothing (emulateNext prints from dst, ip
\* and flags, and returns early before it).
TraceTellsTheStep ==
    [][/\ \A n \in DOMAIN TraceOfStep :
            LET line == TraceOfStep[n] IN
            /\ registers' = RegistersRead(registers, line)
            /\ memory' = MemoryRead(memory, line)
            /\ \A k \in DOMAIN line.dest : line.dest[k].old = Read(line.dest[k].cell)
       /\ TraceOfStep = <<>> => UNCHANGED <<registers, memory>>]_vars
=============================================================================
