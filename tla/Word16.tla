------------------------------- MODULE Word16 -------------------------------
(***************************************************************************)
(* The fixed-width integers of the emulator: the helpers of                *)
(* include/utils.h and the C++ casts the decoder and the emulator rely on. *)
(* A u8 is a member of Byte and a u16 a member of Word; arithmetic on them *)
(* is arithmetic on integers reduced modulo the width.  In TLA+ the result *)
(* of % is never negative, so ToU16(i) is also what the C++ cast u16(i)    *)
(* yields for a negative i.                                                *)
(***************************************************************************)
EXTENDS Integers

\* Not intervals: a prover would try the members of 0..65535 one by one.
Byte == {v \in Nat : v < 256}
Word == {v \in Nat : v < 65536}

LowPart(v) == v % 256

HighPart(v) == v \div 256

CombineWord(low, high) == low + 256 * high

ToU16(i) == i % 65536

\* i8(b) and i16(v): the same bits read as a two's complement number.
ToI8(b) == IF b < 128 THEN b ELSE b - 256

ToI16(v) == IF v < 32768 THEN v ELSE v - 65536

\* safeCastSignedInt(i8(b), tmp) followed by u16(tmp).
SignExtend(b) == ToU16(ToI8(b))

\* isSignedBitSet for an operand of n values (n = 256 or n = 65536).
IsSignedBitSet(v, n) == v >= n \div 2

\* intrin_numberOfSetBits(b) & 1 = 0, the number of set bits of a byte is even.
EvenParity(b) ==
    (b + b \div 2 + b \div 4 + b \div 8 + b \div 16 + b \div 32 + b \div 64
       + b \div 128) % 2 = 0

\* (v & mask) >> offset, for a mask of adjacent bits: a field of the byte v
\* is described by 2^offset and by the number of its values.
BitField(v, shift, values) == (v \div shift) % values
=============================================================================
