--------------------------------- MODULE Alu --------------------------------
(***************************************************************************)
(* emulateMov, emulateAdd and emulateSub of emulator.cpp, and the flags.   *)
(*                                                                         *)
(* A destination is always a 16-bit cell (a register, or two adjacent      *)
(* bytes of memory).  Dest says which part of the cell the instruction     *)
(* is about: all of it, its low or its high byte.  Source likewise holds   *)
(* both bytes of the source cell and says which of them count.             *)
(***************************************************************************)
EXTENDS Word16

Dest == [isWord : BOOLEAN, isLow : BOOLEAN]
Source == [low : Byte, hi : Byte, isWord : BOOLEAN, isLow : BOOLEAN]

\* enum Flags: a flag is the value of its bit in the FLAGS register.
CPU_FLAG_CARRY_FLAG     == 1
CPU_FLAG_PARITY_FLAG    == 4
CPU_FLAG_AUX_CARRY_FLAG == 16
CPU_FLAG_ZERO_FLAG      == 64
CPU_FLAG_SIGN_FLAG      == 128
CPU_FLAG_OVERFLOW_FLAG  == 2048

IsFlagSet(flags, flag) == (flags \div flag) % 2 = 1

\* setFlag: by how much FLAGS changes when the flag gets the value.
BitOf(flag, value) == IF value THEN flag ELSE 0
SetFlag(flags, flag, value) == BitOf(flag, value) - BitOf(flag, IsFlagSet(flags, flag))

\* How many values the operation's operands have, and the part of a cell an
\* operation of that destination reads and replaces.
Values(dst) == IF dst.isWord THEN 65536 ELSE 256

PartOf(dst, cell) ==
    IF dst.isWord THEN cell ELSE IF dst.isLow THEN LowPart(cell) ELSE HighPart(cell)

WithPart(dst, cell, v) ==
    IF dst.isWord THEN v
    ELSE IF dst.isLow THEN CombineWord(v, HighPart(cell))
    ELSE CombineWord(LowPart(cell), v)

SourceByte(src) == IF src.isLow THEN src.low ELSE src.hi

\* srcVal of emulateAdd and emulateSub; a byte is sign-extended for a word.
SourceValue(dst, src) ==
    IF ~dst.isWord THEN SourceByte(src)
    ELSE IF src.isWord THEN CombineWord(src.low, src.hi)
    ELSE SignExtend(src.low)

\* emulateMov: the new value of the cell.
MovResult(dst, src, cell) ==
    WithPart(dst, cell,
             IF dst.isWord THEN CombineWord(src.low, src.hi) ELSE SourceByte(src))

(***************************************************************************)
(* The sums and differences of two operands of n values, and the six flags *)
(* the code derives from the operands and the wrapped result.              *)
(***************************************************************************)
\* Mutant: the sum is kept in a wider integer.
WideSum(n, a, b) == a + b
Sum(n, a, b) == (a + b) % n
Difference(n, a, b) == (a - b) % n

AddFlags(n, a, b) ==
    LET r == Sum(n, a, b) IN
    [sign     |-> IsSignedBitSet(r, n),
     zero     |-> r = 0,
     carry    |-> r < a,
     overflow |-> IsSignedBitSet(b, n) = IsSignedBitSet(a, n) /\ IsSignedBitSet(b, n) # IsSignedBitSet(r, n),
     parity   |-> EvenParity(LowPart(r)),
     auxCarry |-> (a % 16) + (b % 16) > 15]

\* Mutant: the comparison that finds a borrow lets equality pass.
SubFlagsOrEqual(n, a, b) ==
    LET r == Difference(n, a, b) IN
    [sign     |-> IsSignedBitSet(r, n),
     zero     |-> r = 0,
     carry    |-> a <= r,
     overflow |-> IsSignedBitSet(a, n) # IsSignedBitSet(b, n) /\ IsSignedBitSet(a, n) # IsSignedBitSet(r, n),
     parity   |-> EvenParity(LowPart(r)),
     auxCarry |-> (a % 16) - (b % 16) < 0]

SubFlags(n, a, b) ==
    LET r == Difference(n, a, b) IN
    [sign     |-> IsSignedBitSet(r, n),
     zero     |-> r = 0,
     carry    |-> a < r,
     overflow |-> IsSignedBitSet(a, n) # IsSignedBitSet(b, n) /\ IsSignedBitSet(a, n) # IsSignedBitSet(r, n),
     parity   |-> EvenParity(LowPart(r)),
     auxCarry |-> (a % 16) - (b % 16) < 0]

\* The six calls of setFlag: each is about a bit of its own.
SetFlags(flags, f) ==
    flags + SetFlag(flags, CPU_FLAG_OVERFLOW_FLAG, f.overflow)
          + SetFlag(flags, CPU_FLAG_SIGN_FLAG, f.sign)
          + SetFlag(flags, CPU_FLAG_ZERO_FLAG, f.zero)
          + SetFlag(flags, CPU_FLAG_AUX_CARRY_FLAG, f.auxCarry)
          + SetFlag(flags, CPU_FLAG_PARITY_FLAG, f.parity)
          + SetFlag(flags, CPU_FLAG_CARRY_FLAG, f.carry)

\* emulateAdd and emulateSub: the new value of the cell and of FLAGS.
AddResult(dst, src, cell) ==
    WithPart(dst, cell, Sum(Values(dst), PartOf(dst, cell), SourceValue(dst, src)))
AddFlagsResult(dst, src, cell, flags) ==
    SetFlags(flags, AddFlags(Values(dst), PartOf(dst, cell), SourceValue(dst, src)))

SubResult(dst, src, cell) ==
    WithPart(dst, cell, Difference(Values(dst), PartOf(dst, cell), SourceValue(dst, src)))
SubFlagsResult(dst, src, cell, flags) ==
    SetFlags(flags, SubFlags(Values(dst), PartOf(dst, cell), SourceValue(dst, src)))
=============================================================================
