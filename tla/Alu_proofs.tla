----------------------------- MODULE Alu_proofs -----------------------------
(***************************************************************************)
(* What the arithmetic of emulator.cpp computes, for all operands.         *)
(***************************************************************************)
EXTENDS Alu, TLAPS

Width == {256, 65536}

\* The values an operand of the destination's width may have.
Fits(dst, v) == v \in Nat /\ v < Values(dst)

-----------------------------------------------------------------------------
(***************************************************************************)
(* Types: every result fits the width it is stored in.                     *)
(***************************************************************************)

\* The halves of a word are bytes, and two bytes make a word.
LEMMA PartTypes ==
    /\ \A v \in Word : LowPart(v) \in Byte /\ HighPart(v) \in Byte
    /\ \A low, high \in Byte : CombineWord(low, high) \in Word
    /\ \A i \in Int : ToU16(i) \in Word
    /\ \A b \in Byte : SignExtend(b) \in Word
  BY SMT DEF Word, Byte, LowPart, HighPart, CombineWord, ToU16, SignExtend, ToI8

\* Putting together the halves of a word gives the word back, and either half
\* of a combined word is the byte it was made of.
LEMMA PartsRoundTrip ==
    /\ \A v \in Word : CombineWord(LowPart(v), HighPart(v)) = v
    /\ \A low, high \in Byte : /\ LowPart(CombineWord(low, high)) = low
                               /\ HighPart(CombineWord(low, high)) = high
  BY SMT DEF Word, Byte, LowPart, HighPart, CombineWord

FlagValues == {CPU_FLAG_CARRY_FLAG, CPU_FLAG_PARITY_FLAG, CPU_FLAG_AUX_CARRY_FLAG,
               CPU_FLAG_ZERO_FLAG, CPU_FLAG_SIGN_FLAG, CPU_FLAG_OVERFLOW_FLAG}

LEMMA FlagsAreFlagValues ==
    /\ CPU_FLAG_CARRY_FLAG \in FlagValues /\ CPU_FLAG_PARITY_FLAG \in FlagValues
    /\ CPU_FLAG_AUX_CARRY_FLAG \in FlagValues /\ CPU_FLAG_ZERO_FLAG \in FlagValues
    /\ CPU_FLAG_SIGN_FLAG \in FlagValues /\ CPU_FLAG_OVERFLOW_FLAG \in FlagValues
  BY DEF FlagValues

LEMMA FlagsDiffer ==
    /\ CPU_FLAG_CARRY_FLAG = 1 /\ CPU_FLAG_PARITY_FLAG = 4 /\ CPU_FLAG_AUX_CARRY_FLAG = 16
    /\ CPU_FLAG_ZERO_FLAG = 64 /\ CPU_FLAG_SIGN_FLAG = 128 /\ CPU_FLAG_OVERFLOW_FLAG = 2048
  BY DEF CPU_FLAG_CARRY_FLAG, CPU_FLAG_PARITY_FLAG, CPU_FLAG_AUX_CARRY_FLAG,
         CPU_FLAG_ZERO_FLAG, CPU_FLAG_SIGN_FLAG, CPU_FLAG_OVERFLOW_FLAG

\* g is FLAGS after the flag got the value in flags: a word, with that flag and
\* no other changed.
IsFlagsWith(g, flags, flag, value) ==
    /\ g \in Word
    /\ IsFlagSet(g, flag) <=> value
    /\ \A other \in FlagValues : other # flag =>
          (IsFlagSet(g, other) <=> IsFlagSet(flags, other))

\* A bit that is not set can be added and one that is set can be taken away
\* without a carry or a borrow into the other flags.
LEMMA FlagBitsAreApart ==
    ASSUME NEW g \in Word, NEW flag \in FlagValues, NEW other \in FlagValues
    PROVE  /\ IsFlagSet(g, flag) => /\ g - flag \in Word
                                    /\ ~IsFlagSet(g - flag, flag)
           /\ ~IsFlagSet(g, flag) => /\ g + flag \in Word
                                     /\ IsFlagSet(g + flag, flag)
           /\ IsFlagSet(g, flag) /\ other # flag =>
                 (IsFlagSet(g - flag, other) <=> IsFlagSet(g, other))
           /\ ~IsFlagSet(g, flag) /\ other # flag =>
                 (IsFlagSet(g + flag, other) <=> IsFlagSet(g, other))
<1>1. IsFlagSet(g, flag) => g - flag \in Word /\ ~IsFlagSet(g - flag, flag)
  BY FlagsDiffer DEF FlagValues, IsFlagSet, Word
<1>2. ~IsFlagSet(g, flag) => g + flag \in Word /\ IsFlagSet(g + flag, flag)
  BY FlagsDiffer DEF FlagValues, IsFlagSet, Word
<1>3. CASE flag = CPU_FLAG_CARRY_FLAG
  <2>1. CASE other < flag
    BY <1>1, <1>2, <1>3, <2>1, FlagsDiffer DEF FlagValues, IsFlagSet, Word
  <2>2. CASE other > flag
    BY <1>1, <1>2, <1>3, <2>2, FlagsDiffer DEF FlagValues, IsFlagSet, Word
  <2>3. QED
    BY <1>1, <1>2, <2>1, <2>2, FlagsDiffer DEF FlagValues
<1>4. CASE flag = CPU_FLAG_PARITY_FLAG
  <2>1. CASE other < flag
    BY <1>1, <1>2, <1>4, <2>1, FlagsDiffer DEF FlagValues, IsFlagSet, Word
  <2>2. CASE other > flag
    BY <1>1, <1>2, <1>4, <2>2, FlagsDiffer, SMTT(30) DEF FlagValues, IsFlagSet, Word
  <2>3. QED
    BY <1>1, <1>2, <2>1, <2>2, FlagsDiffer DEF FlagValues
<1>5. CASE flag = CPU_FLAG_AUX_CARRY_FLAG
  <2>1. CASE other < flag
    BY <1>1, <1>2, <1>5, <2>1, FlagsDiffer DEF FlagValues, IsFlagSet, Word
  <2>2. CASE other > flag
    BY <1>1, <1>2, <1>5, <2>2, FlagsDiffer DEF FlagValues, IsFlagSet, Word
  <2>3. QED
    BY <1>1, <1>2, <2>1, <2>2, FlagsDiffer DEF FlagValues
<1>6. CASE flag = CPU_FLAG_ZERO_FLAG
  <2>1. CASE other < flag
    BY <1>1, <1>2, <1>6, <2>1, FlagsDiffer DEF FlagValues, IsFlagSet, Word
  <2>2. CASE other > flag
    BY <1>1, <1>2, <1>6, <2>2, FlagsDiffer DEF FlagValues, IsFlagSet, Word
  <2>3. QED
    BY <1>1, <1>2, <2>1, <2>2, FlagsDiffer DEF FlagValues
<1>7. CASE flag = CPU_FLAG_SIGN_FLAG
  <2>1. CASE other < flag
    BY <1>1, <1>2, <1>7, <2>1, FlagsDiffer DEF FlagValues, IsFlagSet, Word
  <2>2. CASE other > flag
    BY <1>1, <1>2, <1>7, <2>2, FlagsDiffer DEF FlagValues, IsFlagSet, Word
  <2>3. QED
    BY <1>1, <1>2, <2>1, <2>2, FlagsDiffer DEF FlagValues
<1>8. CASE flag = CPU_FLAG_OVERFLOW_FLAG
  <2>1. CASE other < flag
    BY <1>1, <1>2, <1>8, <2>1, FlagsDiffer DEF FlagValues, IsFlagSet, Word
  <2>2. CASE other > flag
    BY <1>1, <1>2, <1>8, <2>2, FlagsDiffer DEF FlagValues, IsFlagSet, Word
  <2>3. QED
    BY <1>1, <1>2, <2>1, <2>2, FlagsDiffer DEF FlagValues
<1>9. QED
  BY <1>3, <1>4, <1>5, <1>6, <1>7, <1>8 DEF FlagValues

\* A change worked out from flags may be made to any word that has the flag in
\* common with it: no bit is borrowed or carried.
LEMMA SetFlagExact ==
    ASSUME NEW flags \in Word, NEW g \in Word, NEW flag \in FlagValues, NEW value \in BOOLEAN,
           IsFlagSet(g, flag) <=> IsFlagSet(flags, flag)
    PROVE  IsFlagsWith(g + SetFlag(flags, flag, value), g, flag, value)
<1>1. CASE (IsFlagSet(g, flag) <=> value)
  <2>1. SetFlag(flags, flag, value) = 0
    BY <1>1, FlagsDiffer DEF SetFlag, BitOf, FlagValues
  <2>2. g + SetFlag(flags, flag, value) = g
    BY <2>1 DEF Word
  <2>3. QED
    BY <1>1, <2>2 DEF IsFlagsWith
<1>2. CASE IsFlagSet(g, flag) /\ ~value
  <2>1. SetFlag(flags, flag, value) = -flag
    BY <1>2, FlagsDiffer DEF SetFlag, BitOf, FlagValues
  <2>2. IsFlagsWith(g - flag, g, flag, value)
    BY <1>2, FlagBitsAreApart, Zenon DEF IsFlagsWith
  <2>3. g + SetFlag(flags, flag, value) = g - flag
    BY <2>1, FlagsDiffer DEF Word, FlagValues
  <2>4. QED
    BY <2>2, <2>3
<1>3. CASE ~IsFlagSet(g, flag) /\ value
  <2>1. SetFlag(flags, flag, value) = flag
    BY <1>3, FlagsDiffer DEF SetFlag, BitOf, FlagValues
  <2>2. IsFlagsWith(g + flag, g, flag, value)
    BY <1>3, FlagBitsAreApart, Zenon DEF IsFlagsWith
  <2>3. QED
    BY <2>1, <2>2
<1>4. QED
  BY <1>1, <1>2, <1>3

SixFlags == [sign : BOOLEAN, zero : BOOLEAN, carry : BOOLEAN,
             overflow : BOOLEAN, parity : BOOLEAN, auxCarry : BOOLEAN]

\* The six changes are worked out from one word and added up: FLAGS stays a word
\* and has exactly the six values, since each flag is a bit of its own.
LEMMA SetFlagsExact ==
    ASSUME NEW flags \in Word, NEW f \in SixFlags
    PROVE  LET g == SetFlags(flags, f) IN
           /\ g \in Word
           /\ IsFlagSet(g, CPU_FLAG_CARRY_FLAG) <=> f.carry
           /\ IsFlagSet(g, CPU_FLAG_PARITY_FLAG) <=> f.parity
           /\ IsFlagSet(g, CPU_FLAG_AUX_CARRY_FLAG) <=> f.auxCarry
           /\ IsFlagSet(g, CPU_FLAG_ZERO_FLAG) <=> f.zero
           /\ IsFlagSet(g, CPU_FLAG_SIGN_FLAG) <=> f.sign
           /\ IsFlagSet(g, CPU_FLAG_OVERFLOW_FLAG) <=> f.overflow
<1> DEFINE f1 == flags + SetFlag(flags, CPU_FLAG_OVERFLOW_FLAG, f.overflow)
           f2 == f1 + SetFlag(flags, CPU_FLAG_SIGN_FLAG, f.sign)
           f3 == f2 + SetFlag(flags, CPU_FLAG_ZERO_FLAG, f.zero)
           f4 == f3 + SetFlag(flags, CPU_FLAG_AUX_CARRY_FLAG, f.auxCarry)
           f5 == f4 + SetFlag(flags, CPU_FLAG_PARITY_FLAG, f.parity)
           f6 == f5 + SetFlag(flags, CPU_FLAG_CARRY_FLAG, f.carry)
<1> HIDE DEF f1, f2, f3, f4, f5, f6
<1>0. /\ f.carry \in BOOLEAN /\ f.parity \in BOOLEAN /\ f.auxCarry \in BOOLEAN
      /\ f.zero \in BOOLEAN /\ f.sign \in BOOLEAN /\ f.overflow \in BOOLEAN
  BY Zenon DEF SixFlags
<1>1. IsFlagsWith(f1, flags, CPU_FLAG_OVERFLOW_FLAG, f.overflow)
  BY <1>0, SetFlagExact, FlagsAreFlagValues, Zenon DEF f1
<1>2. IsFlagsWith(f2, f1, CPU_FLAG_SIGN_FLAG, f.sign)
  <2>1. /\ f1 \in Word
        /\ IsFlagSet(f1, CPU_FLAG_SIGN_FLAG) <=> IsFlagSet(flags, CPU_FLAG_SIGN_FLAG)
    BY <1>1, FlagsAreFlagValues, FlagsDiffer DEF IsFlagsWith
  <2>2. QED
    BY <1>0, <2>1, SetFlagExact, FlagsAreFlagValues, Zenon DEF f2
<1>3. IsFlagsWith(f3, f2, CPU_FLAG_ZERO_FLAG, f.zero)
  <2>1. /\ f2 \in Word
        /\ IsFlagSet(f2, CPU_FLAG_ZERO_FLAG) <=> IsFlagSet(flags, CPU_FLAG_ZERO_FLAG)
    BY <1>1, <1>2, FlagsAreFlagValues, FlagsDiffer DEF IsFlagsWith
  <2>2. QED
    BY <1>0, <2>1, SetFlagExact, FlagsAreFlagValues, Zenon DEF f3
<1>4. IsFlagsWith(f4, f3, CPU_FLAG_AUX_CARRY_FLAG, f.auxCarry)
  <2>1. /\ f3 \in Word
        /\ IsFlagSet(f3, CPU_FLAG_AUX_CARRY_FLAG) <=> IsFlagSet(flags, CPU_FLAG_AUX_CARRY_FLAG)
    BY <1>1, <1>2, <1>3, FlagsAreFlagValues, FlagsDiffer DEF IsFlagsWith
  <2>2. QED
    BY <1>0, <2>1, SetFlagExact, FlagsAreFlagValues, Zenon DEF f4
<1>5. IsFlagsWith(f5, f4, CPU_FLAG_PARITY_FLAG, f.parity)
  <2>1. /\ f4 \in Word
        /\ IsFlagSet(f4, CPU_FLAG_PARITY_FLAG) <=> IsFlagSet(flags, CPU_FLAG_PARITY_FLAG)
    BY <1>1, <1>2, <1>3, <1>4, FlagsAreFlagValues, FlagsDiffer DEF IsFlagsWith
  <2>2. QED
    BY <1>0, <2>1, SetFlagExact, FlagsAreFlagValues, Zenon DEF f5
<1>6. IsFlagsWith(f6, f5, CPU_FLAG_CARRY_FLAG, f.carry)
  <2>1. /\ f5 \in Word
        /\ IsFlagSet(f5, CPU_FLAG_CARRY_FLAG) <=> IsFlagSet(flags, CPU_FLAG_CARRY_FLAG)
    BY <1>1, <1>2, <1>3, <1>4, <1>5, FlagsAreFlagValues, FlagsDiffer DEF IsFlagsWith
  <2>2. QED
    BY <1>0, <2>1, SetFlagExact, FlagsAreFlagValues, Zenon DEF f6
<1>7. SetFlags(flags, f) = f6
  BY DEF SetFlags, f1, f2, f3, f4, f5, f6
<1>8. /\ f6 \in Word
      /\ IsFlagSet(f6, CPU_FLAG_CARRY_FLAG) <=> f.carry
      /\ IsFlagSet(f6, CPU_FLAG_PARITY_FLAG) <=> f.parity
      /\ IsFlagSet(f6, CPU_FLAG_AUX_CARRY_FLAG) <=> f.auxCarry
      /\ IsFlagSet(f6, CPU_FLAG_ZERO_FLAG) <=> f.zero
      /\ IsFlagSet(f6, CPU_FLAG_SIGN_FLAG) <=> f.sign
      /\ IsFlagSet(f6, CPU_FLAG_OVERFLOW_FLAG) <=> f.overflow
  BY <1>1, <1>2, <1>3, <1>4, <1>5, <1>6, FlagsAreFlagValues, FlagsDiffer DEF IsFlagsWith
<1>9. QED
  BY <1>7, <1>8

\* The flags of an addition and of a subtraction are truth values.
LEMMA FlagsType ==
    ASSUME NEW n \in Width, NEW a \in Nat, NEW b \in Nat
    PROVE  AddFlags(n, a, b) \in SixFlags /\ SubFlags(n, a, b) \in SixFlags
<1>1. AddFlags(n, a, b) \in SixFlags
  <2> DEFINE r == Sum(n, a, b)
             carry == r < a
             parity == EvenParity(LowPart(r))
             auxCarry == (a % 16) + (b % 16) > 15
             zero == r = 0
             sign == IsSignedBitSet(r, n)
             overflow == /\ IsSignedBitSet(b, n) = IsSignedBitSet(a, n)
                         /\ IsSignedBitSet(b, n) # IsSignedBitSet(r, n)
  <2>1. /\ carry \in BOOLEAN /\ parity \in BOOLEAN /\ auxCarry \in BOOLEAN
        /\ zero \in BOOLEAN /\ sign \in BOOLEAN /\ overflow \in BOOLEAN
    <3>1. r \in Int /\ n \div 2 \in Int
      BY DEF Width, Sum, Difference
    <3>2. (r < a) \in BOOLEAN /\ (a < r) \in BOOLEAN
      BY <3>1
    <3>3. \A v \in Int : IsSignedBitSet(v, n) \in BOOLEAN
      BY <3>1 DEF IsSignedBitSet
    <3>4. auxCarry \in BOOLEAN
      OBVIOUS
    <3>5. parity \in BOOLEAN /\ zero \in BOOLEAN
      BY Zenon DEF EvenParity
    <3>6. overflow \in BOOLEAN
      BY Zenon
    <3>7. QED
      BY <3>1, <3>2, <3>3, <3>4, <3>5, <3>6, Zenon
  <2>2. AddFlags(n, a, b) = [sign |-> sign, zero |-> zero, carry |-> carry,
              overflow |-> overflow, parity |-> parity, auxCarry |-> auxCarry]
    BY Zenon DEF AddFlags
  <2> HIDE DEF carry, parity, auxCarry, zero, sign, overflow
  <2>3. QED
    BY <2>1, <2>2 DEF SixFlags
<1>2. SubFlags(n, a, b) \in SixFlags
  <2> DEFINE r == Difference(n, a, b)
             carry == a < r
             parity == EvenParity(LowPart(r))
             auxCarry == (a % 16) - (b % 16) < 0
             zero == r = 0
             sign == IsSignedBitSet(r, n)
             overflow == /\ IsSignedBitSet(a, n) # IsSignedBitSet(b, n)
                         /\ IsSignedBitSet(a, n) # IsSignedBitSet(r, n)
  <2>1. /\ carry \in BOOLEAN /\ parity \in BOOLEAN /\ auxCarry \in BOOLEAN
        /\ zero \in BOOLEAN /\ sign \in BOOLEAN /\ overflow \in BOOLEAN
    <3>1. r \in Int /\ n \div 2 \in Int
      BY DEF Width, Sum, Difference
    <3>2. (r < a) \in BOOLEAN /\ (a < r) \in BOOLEAN
      BY <3>1
    <3>3. \A v \in Int : IsSignedBitSet(v, n) \in BOOLEAN
      BY <3>1 DEF IsSignedBitSet
    <3>4. auxCarry \in BOOLEAN
      OBVIOUS
    <3>5. parity \in BOOLEAN /\ zero \in BOOLEAN
      BY Zenon DEF EvenParity
    <3>6. overflow \in BOOLEAN
      BY Zenon
    <3>7. QED
      BY <3>1, <3>2, <3>3, <3>4, <3>5, <3>6, Zenon
  <2>2. SubFlags(n, a, b) = [sign |-> sign, zero |-> zero, carry |-> carry,
              overflow |-> overflow, parity |-> parity, auxCarry |-> auxCarry]
    BY Zenon DEF SubFlags
  <2> HIDE DEF carry, parity, auxCarry, zero, sign, overflow
  <2>3. QED
    BY <2>1, <2>2 DEF SixFlags
<1>3. QED
  BY <1>1, <1>2

\* What the operations read of the source and of the cell fits the destination.
LEMMA OperandTypes ==
    ASSUME NEW dst \in Dest, NEW src \in Source, NEW cell \in Word
    PROVE  /\ Values(dst) \in Width
           /\ Fits(dst, PartOf(dst, cell))
           /\ Fits(dst, SourceValue(dst, src))
<1>1. src.low \in Byte /\ src.hi \in Byte
  BY DEF Source
<1>2. Fits(dst, PartOf(dst, cell))
  BY PartTypes DEF PartOf, Values, Fits, Word, Byte
<1>3. Fits(dst, SourceValue(dst, src))
  <2>1. SourceByte(src) \in Byte
    BY <1>1 DEF SourceByte
  <2>2. CombineWord(src.low, src.hi) \in Word /\ SignExtend(src.low) \in Word
    BY <1>1, PartTypes
  <2>3. CASE ~dst.isWord
    BY <2>1, <2>3 DEF SourceValue, Values, Fits, Byte
  <2>4. CASE dst.isWord
    BY <2>2, <2>4 DEF SourceValue, Values, Fits, Word
  <2>5. QED
    BY <2>3, <2>4
<1>4. QED
  BY <1>2, <1>3 DEF Values, Width

\* The cell an operation leaves is a word.
LEMMA WithPartType ==
    ASSUME NEW dst \in Dest, NEW cell \in Word, NEW v, Fits(dst, v)
    PROVE  WithPart(dst, cell, v) \in Word
  BY PartTypes DEF WithPart, Values, Fits, Word, Byte

LEMMA ResultTypes ==
    ASSUME NEW dst \in Dest, NEW src \in Source, NEW cell \in Word, NEW flags \in Word
    PROVE  /\ MovResult(dst, src, cell) \in Word
           /\ AddResult(dst, src, cell) \in Word
           /\ SubResult(dst, src, cell) \in Word
           /\ AddFlagsResult(dst, src, cell, flags) \in Word
           /\ SubFlagsResult(dst, src, cell, flags) \in Word
<1>1. src.low \in Byte /\ src.hi \in Byte
  BY DEF Source
<1>2. MovResult(dst, src, cell) \in Word
  <2> DEFINE v == IF dst.isWord THEN CombineWord(src.low, src.hi) ELSE SourceByte(src)
  <2>1. Fits(dst, v)
    <3>1. SourceByte(src) \in Byte
      BY <1>1 DEF SourceByte
    <3>2. CombineWord(src.low, src.hi) \in Word
      BY <1>1, PartTypes
    <3>3. CASE ~dst.isWord
      BY <3>1, <3>3 DEF Values, Fits, Byte
    <3>4. CASE dst.isWord
      BY <3>2, <3>4 DEF Values, Fits, Word
    <3>5. QED
      BY <3>3, <3>4
  <2>2. QED
    BY <2>1, WithPartType DEF MovResult
<1>3. AddResult(dst, src, cell) \in Word
  <2>1. Fits(dst, Sum(Values(dst), PartOf(dst, cell), SourceValue(dst, src)))
    BY OperandTypes DEF Sum, Width, Fits
  <2>2. QED
    BY <2>1, WithPartType DEF AddResult
<1>4. SubResult(dst, src, cell) \in Word
  <2>1. Fits(dst, Difference(Values(dst), PartOf(dst, cell), SourceValue(dst, src)))
    BY OperandTypes DEF Difference, Width, Fits
  <2>2. QED
    BY <2>1, WithPartType DEF SubResult
<1>5. QED
  BY <1>2, <1>3, <1>4, OperandTypes, SetFlagsExact, FlagsType DEF Fits, AddFlagsResult, SubFlagsResult

-----------------------------------------------------------------------------
(***************************************************************************)
(* Flags: the code looks at the wrapped result, the definitions below at   *)
(* the integers the operands stand for.                                    *)
(***************************************************************************)
\* The two's complement number that v is among n values.
AsSigned(n, v) == IF v < n \div 2 THEN v ELSE v - n
OutOfRange(n, i) == i < -(n \div 2) \/ i >= n \div 2

\* A sum of n-valued operands wraps once or not at all.
LEMMA SumWraps ==
    ASSUME NEW n \in Width, NEW a \in Nat, a < n, NEW b \in Nat, b < n
    PROVE  Sum(n, a, b) = IF a + b < n THEN a + b ELSE a + b - n
<1>1. CASE n = 256
  BY <1>1 DEF Sum
<1>2. CASE n = 65536
  BY <1>2 DEF Sum
<1>3. QED
  BY <1>1, <1>2 DEF Width

LEMMA DifferenceWraps ==
    ASSUME NEW n \in Width, NEW a \in Nat, a < n, NEW b \in Nat, b < n
    PROVE  Difference(n, a, b) = IF a >= b THEN a - b ELSE a - b + n
<1>1. CASE n = 256
  BY <1>1 DEF Difference
<1>2. CASE n = 65536
  BY <1>2 DEF Difference
<1>3. QED
  BY <1>1, <1>2 DEF Width

\* The flags of emulateAdd: `old > next` is the carry out of the exact sum, and
\* the comparison of sign bits is a sum outside the signed range.
THEOREM AddFlagsAreExact ==
    ASSUME NEW n \in Width, NEW a \in Nat, a < n, NEW b \in Nat, b < n
    PROVE  /\ AddFlags(n, a, b).carry <=> (a + b >= n)
           /\ AddFlags(n, a, b).zero <=> (a + b = 0 \/ a + b = n)
           /\ AddFlags(n, a, b).overflow
                <=> OutOfRange(n, AsSigned(n, a) + AsSigned(n, b))
<1> DEFINE r == Sum(n, a, b)
<1>1. r = IF a + b < n THEN a + b ELSE a + b - n
  BY SumWraps
<1>2. AddFlags(n, a, b).carry <=> (r < a)
  BY DEF AddFlags
<1>3. AddFlags(n, a, b).zero <=> (r = 0)
  BY DEF AddFlags
<1>4. AddFlags(n, a, b).overflow
        <=> (IsSignedBitSet(b, n) = IsSignedBitSet(a, n) /\ IsSignedBitSet(b, n) # IsSignedBitSet(r, n))
  BY DEF AddFlags
<1>5. (r < a) <=> (a + b >= n)
  BY <1>1 DEF Width
<1>6. (r = 0) <=> (a + b = 0 \/ a + b = n)
  BY <1>1 DEF Width
<1>7. (IsSignedBitSet(b, n) = IsSignedBitSet(a, n) /\ IsSignedBitSet(b, n) # IsSignedBitSet(r, n))
        <=> OutOfRange(n, AsSigned(n, a) + AsSigned(n, b))
  <2>1. CASE n = 256
    BY <1>1, <2>1 DEF OutOfRange, AsSigned, IsSignedBitSet
  <2>2. CASE n = 65536
    BY <1>1, <2>2 DEF OutOfRange, AsSigned, IsSignedBitSet
  <2>3. QED
    BY <2>1, <2>2 DEF Width
<1>8. QED
  BY <1>2, <1>3, <1>4, <1>5, <1>6, <1>7

\* The flags of emulateSub, for SUB and CMP: `old < next` is the borrow of the
\* exact difference, so JB after a CMP compares unsigned.
THEOREM SubFlagsAreExact ==
    ASSUME NEW n \in Width, NEW a \in Nat, a < n, NEW b \in Nat, b < n
    PROVE  /\ SubFlags(n, a, b).carry <=> (a < b)
           /\ SubFlags(n, a, b).zero <=> (a = b)
           /\ SubFlags(n, a, b).overflow
                <=> OutOfRange(n, AsSigned(n, a) - AsSigned(n, b))
<1> DEFINE r == Difference(n, a, b)
<1>1. r = IF a >= b THEN a - b ELSE a - b + n
  BY DifferenceWraps
<1>2. SubFlags(n, a, b).carry <=> (a < r)
  BY DEF SubFlags
<1>3. SubFlags(n, a, b).zero <=> (r = 0)
  BY DEF SubFlags
<1>4. SubFlags(n, a, b).overflow
        <=> (IsSignedBitSet(a, n) # IsSignedBitSet(b, n) /\ IsSignedBitSet(a, n) # IsSignedBitSet(r, n))
  BY DEF SubFlags
<1>5. (a < r) <=> (a < b)
  BY <1>1 DEF Width
<1>6. (r = 0) <=> (a = b)
  BY <1>1 DEF Width
<1>7. (IsSignedBitSet(a, n) # IsSignedBitSet(b, n) /\ IsSignedBitSet(a, n) # IsSignedBitSet(r, n))
        <=> OutOfRange(n, AsSigned(n, a) - AsSigned(n, b))
  <2>1. CASE n = 256
    BY <1>1, <2>1 DEF OutOfRange, AsSigned, IsSignedBitSet
  <2>2. CASE n = 65536
    BY <1>1, <2>2 DEF OutOfRange, AsSigned, IsSignedBitSet
  <2>3. QED
    BY <2>1, <2>2 DEF Width
<1>8. QED
  BY <1>2, <1>3, <1>4, <1>5, <1>6, <1>7
=============================================================================
