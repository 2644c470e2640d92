---------------------- MODULE EmulatorRefinement_proofs ----------------------
(***************************************************************************)
(* The emulator implements the machine, for every program and every size   *)
(* of the memory: a step of the code on 16-bit cells is a step of the      *)
(* machine on bytes, with flags that are those of the exact result.        *)
(***************************************************************************)
EXTENDS EmulatorRefinement, Emulator_proofs

\* The machine's own copies of the helpers are those of the emulator.
LEMMA SameHelpers ==
    /\ \A v : M!LowPart(v) = LowPart(v) /\ M!HighPart(v) = HighPart(v)
    /\ \A low, high : M!CombineWord(low, high) = CombineWord(low, high)
    /\ \A v : M!ToI8(v) = ToI8(v) /\ M!ToI16(v) = ToI16(v) /\ M!ToU16(v) = ToU16(v)
    /\ \A v : M!SignExtend(v) = SignExtend(v)
    /\ \A p, i : M!StartOf(p, i) = StartOf(p, i)
    /\ \A S : M!Cardinality(S) = Cardinality(S)
<1>1. /\ \A v : M!LowPart(v) = LowPart(v) /\ M!HighPart(v) = HighPart(v)
      /\ \A low, high : M!CombineWord(low, high) = CombineWord(low, high)
      /\ \A v : M!ToU16(v) = ToU16(v)
  <2>1. \A v : M!LowPart(v) = LowPart(v)
    BY Zenon DEF M!LowPart, LowPart
  <2>2. \A v : M!HighPart(v) = HighPart(v)
    BY Zenon DEF M!HighPart, HighPart
  <2>3. \A low, high : M!CombineWord(low, high) = CombineWord(low, high)
    BY Zenon DEF M!CombineWord, CombineWord
  <2>4. \A v : M!ToU16(v) = ToU16(v)
    BY SMT DEF M!ToU16, ToU16
  <2>5. QED
    BY <2>1, <2>2, <2>3, <2>4, Zenon
<1>2. \A v : M!ToI8(v) = ToI8(v) /\ M!ToI16(v) = ToI16(v)
  BY DEF M!ToI8, ToI8, M!ToI16, ToI16
<1>3. \A v : M!SignExtend(v) = SignExtend(v)
  BY <1>1, <1>2, Zenon DEF M!SignExtend, SignExtend
<1>4. \A p, i : M!StartOf(p, i) = StartOf(p, i)
  BY Zenon DEF M!StartOf, StartOf
<1>5. \A S : M!Cardinality(S) = Cardinality(S)
  BY Zenon DEF M!Cardinality, Cardinality, M!IsFiniteSet, IsFiniteSet
<1>6. QED
  BY <1>1, <1>2, <1>3, <1>4, <1>5

-----------------------------------------------------------------------------
(***************************************************************************)
(* Cells: the byte at each location.                                       *)
(***************************************************************************)
Places == {<<"register", k>> : k \in 0..23} \cup {<<"memory", a>> : a \in Address}

\* CellsOfMachine, of registers and memory given as arguments: what is said of
\* it is said of the state before a step and of the state after it.
CellsFrom(regs, mem) ==
    [l \in {<<"register", k>> : k \in 0..23} \cup {<<"memory", a>> : a \in Address} |->
        CASE l[1] = "memory"                       -> mem[l[2]]
          [] l[1] = "register" /\ l[2] % 2 = 0     -> LowPart(regs[l[2] \div 2])
          [] l[1] = "register" /\ l[2] % 2 = 1     -> HighPart(regs[l[2] \div 2])]

LEMMA CellsBeforeAndAfter ==
    /\ CellsOfMachine = CellsFrom(registers, memory)
    /\ CellsOfMachine' = CellsFrom(registers', memory')
  BY Zenon DEF CellsOfMachine, CellsFrom

\* The locations of the machine, and what is at each of them.
LEMMA LocationShape ==
    /\ M!Location = Places
    /\ \A r, half : M!RegisterByte(r, half) = <<"register", 2 * r + half>>
    /\ \A a : M!MemoryByte(a) = <<"memory", a>>
<1>1. /\ \A r, half : M!RegisterByte(r, half) = <<"register", 2 * r + half>>
      /\ \A a : M!MemoryByte(a) = <<"memory", a>>
  BY Zenon DEF M!RegisterByte, M!MemoryByte
<1> DEFINE L == {M!RegisterByte(r, half) : r \in 0..11, half \in 0..1}
           R == {<<"register", k>> : k \in 0..23}
<1>2. L = R
  <2>1. ASSUME NEW x \in L PROVE x \in R
    <3>1. PICK r \in 0..11, half \in 0..1 : x = M!RegisterByte(r, half)
      OBVIOUS
    <3>2. 2 * r + half \in 0..23
      OBVIOUS
    <3>3. QED
      BY <1>1, <3>1, <3>2
  <2>2. ASSUME NEW x \in R PROVE x \in L
    <3>1. PICK k \in 0..23 : x = <<"register", k>>
      OBVIOUS
    <3>2. k \div 2 \in 0..11 /\ k % 2 \in 0..1 /\ k = 2 * (k \div 2) + (k % 2)
      OBVIOUS
    <3>3. x = M!RegisterByte(k \div 2, k % 2)
      BY <1>1, <3>1, <3>2, Zenon
    <3>4. QED
      BY <3>2, <3>3
  <2> HIDE DEF L, R
  <2>3. QED
    BY <2>1, <2>2
<1>3. {M!MemoryByte(a) : a \in 0..(EMULATOR_MEMORY_SIZE - 1)} = {<<"memory", a>> : a \in Address}
  BY <1>1 DEF Address
<1>4. QED
  BY <1>1, <1>2, <1>3 DEF M!Location, Places

LEMMA CellAt ==
    ASSUME NEW regs, NEW mem
    PROVE  /\ CellsFrom(regs, mem) = [l \in Places |-> CellsFrom(regs, mem)[l]]
           /\ \A r \in 0..11 :
                /\ M!RegisterByte(r, 0) \in Places /\ M!RegisterByte(r, 1) \in Places
                /\ CellsFrom(regs, mem)[M!RegisterByte(r, 0)] = LowPart(regs[r])
                /\ CellsFrom(regs, mem)[M!RegisterByte(r, 1)] = HighPart(regs[r])
           /\ \A a \in Address : /\ M!MemoryByte(a) \in Places
                                 /\ CellsFrom(regs, mem)[M!MemoryByte(a)] = mem[a]
<1>1. CellsFrom(regs, mem) = [l \in Places |-> CellsFrom(regs, mem)[l]]
  BY DEF CellsFrom, Places
<1>2. ASSUME NEW a \in Address
      PROVE  M!MemoryByte(a) \in Places /\ CellsFrom(regs, mem)[M!MemoryByte(a)] = mem[a]
  BY LocationShape DEF CellsFrom, Places
<1>3. ASSUME NEW r \in 0..11
      PROVE  /\ M!RegisterByte(r, 0) \in Places /\ M!RegisterByte(r, 1) \in Places
             /\ CellsFrom(regs, mem)[M!RegisterByte(r, 0)] = LowPart(regs[r])
             /\ CellsFrom(regs, mem)[M!RegisterByte(r, 1)] = HighPart(regs[r])
  <2>1. /\ 2 * r + 0 \in 0..23 /\ (2 * r + 0) % 2 = 0 /\ (2 * r + 0) \div 2 = r
        /\ 2 * r + 1 \in 0..23 /\ (2 * r + 1) % 2 = 1 /\ (2 * r + 1) \div 2 = r
    OBVIOUS
  <2>2. M!RegisterByte(r, 0) = <<"register", 2 * r + 0>> /\ M!RegisterByte(r, 1) = <<"register", 2 * r + 1>>
    BY LocationShape, Zenon
  <2> DEFINE k0 == 2 * r + 0  k1 == 2 * r + 1
  <2>3. /\ k0 \in 0..23 /\ k0 % 2 = 0 /\ k0 \div 2 = r
        /\ k1 \in 0..23 /\ k1 % 2 = 1 /\ k1 \div 2 = r
        /\ M!RegisterByte(r, 0) = <<"register", k0>> /\ M!RegisterByte(r, 1) = <<"register", k1>>
    BY <2>1, <2>2
  <2> HIDE DEF k0, k1
  <2>4. <<"register", k0>> \in Places /\ <<"register", k1>> \in Places
    BY <2>3 DEF Places
  <2>5. /\ CellsFrom(regs, mem)[<<"register", k0>>] = LowPart(regs[r])
        /\ CellsFrom(regs, mem)[<<"register", k1>>] = HighPart(regs[r])
    BY <2>3, <2>4 DEF CellsFrom, Places
  <2>6. QED
    BY <2>3, <2>4, <2>5
<1>4. QED
  BY <1>1, <1>2, <1>3

-----------------------------------------------------------------------------
(***************************************************************************)
(* Operands: a part of a cell is one or two locations.                     *)
(***************************************************************************)
OperandCells == {RegisterCell(r) : r \in 0..11}
                  \cup {MemoryCell(a) : a \in {a \in Address : a + 1 \in Address}}

\* Where the part of a cell is: all of it, or its low or its high byte.
PlaceOf(cell, isWord, isLow) ==
    IF cell.inMemory
    THEN IF isWord THEN <<M!MemoryByte(cell.at), M!MemoryByte(cell.at + 1)>>
                   ELSE <<M!MemoryByte(cell.at)>>
    ELSE IF isWord THEN <<M!RegisterByte(cell.at, 0), M!RegisterByte(cell.at, 1)>>
                   ELSE <<M!RegisterByte(cell.at, IF isLow THEN 0 ELSE 1)>>

LEMMA ReadType ==
    ASSUME TypeOK, NEW cell \in OperandCells
    PROVE  Read(cell) \in Word
<1>1. CASE cell \in {RegisterCell(r) : r \in 0..11}
  BY <1>1, CellShape DEF Read, TypeOK, RegisterType
<1>2. CASE cell \in {MemoryCell(a) : a \in {a \in Address : a + 1 \in Address}}
  <2>1. PICK a \in Address : cell = MemoryCell(a) /\ a + 1 \in Address
    BY <1>2
  <2>2. /\ Read(cell) = CombineWord(memory[a], memory[a + 1])
        /\ memory[a] \in Byte /\ memory[a + 1] \in Byte
    BY <2>1, CellShape DEF Read, TypeOK
  <2>3. QED
    BY <2>2, PartTypes
<1>3. QED
  BY <1>1, <1>2 DEF OperandCells

\* The machine reads of a place what the code takes of the cell.
LEMMA ValueOfPlace ==
    ASSUME TypeOK, NEW cell \in OperandCells, NEW isWord \in BOOLEAN, NEW isLow \in BOOLEAN,
           cell.inMemory /\ ~isWord => isLow
    PROVE  M!Value(PlaceOf(cell, isWord, isLow)) =
              IF isWord THEN Read(cell)
              ELSE IF isLow THEN LowPart(Read(cell)) ELSE HighPart(Read(cell))
<1> DEFINE C == CellsFrom(registers, memory)
<1>0. \A operand : M!Value(operand) =
          IF Len(operand) = 1 THEN C[operand[1]] ELSE CombineWord(C[operand[1]], C[operand[2]])
  BY CellsBeforeAndAfter, SameHelpers DEF M!Value
<1>1. CASE cell \in {RegisterCell(r) : r \in 0..11}
  <2>1. PICK r \in 0..11 : cell = RegisterCell(r)
    BY <1>1
  <2>2. cell.inMemory = FALSE /\ cell.at = r
    BY <2>1, CellShape
  <2>3. Read(cell) = registers[r] /\ registers[r] \in Word
    BY <2>2 DEF Read, TypeOK, RegisterType
  <2>4. /\ C[M!RegisterByte(r, 0)] = LowPart(registers[r])
        /\ C[M!RegisterByte(r, 1)] = HighPart(registers[r])
    BY CellAt
  <2>5. CombineWord(LowPart(registers[r]), HighPart(registers[r])) = registers[r]
    BY <2>3, PartsRoundTrip
  <2> HIDE DEF C
  <2>6. QED
    BY <1>0, <2>2, <2>3, <2>4, <2>5 DEF PlaceOf
<1>2. CASE cell \in {MemoryCell(a) : a \in {a \in Address : a + 1 \in Address}}
  <2>1. PICK a \in Address : cell = MemoryCell(a) /\ a + 1 \in Address
    BY <1>2
  <2>2. cell.inMemory = TRUE /\ cell.at = a
    BY <2>1, CellShape
  <2>3. /\ Read(cell) = CombineWord(memory[a], memory[a + 1])
        /\ memory[a] \in Byte /\ memory[a + 1] \in Byte
    BY <2>1, <2>2 DEF Read, TypeOK
  <2>4. C[M!MemoryByte(a)] = memory[a] /\ C[M!MemoryByte(a + 1)] = memory[a + 1]
    BY <2>1, CellAt
  <2>5. LowPart(CombineWord(memory[a], memory[a + 1])) = memory[a]
    BY <2>3, PartsRoundTrip
  <2> HIDE DEF C
  <2>6. QED
    BY <1>0, <2>2, <2>3, <2>4, <2>5 DEF PlaceOf
<1>3. QED
  BY <1>1, <1>2 DEF OperandCells

\* Two locations are the same only if they are of the same register and half, or
\* of the same address.
LEMMA LocationsDiffer ==
    /\ \A r, s \in 0..11 : \A i, j \in 0..1 :
          M!RegisterByte(r, i) = M!RegisterByte(s, j) <=> r = s /\ i = j
    /\ \A a, b : M!MemoryByte(a) = M!MemoryByte(b) <=> a = b
    /\ \A r, i, a : M!RegisterByte(r, i) # M!MemoryByte(a)
<1>1. ASSUME NEW r \in 0..11, NEW s \in 0..11, NEW i \in 0..1, NEW j \in 0..1
      PROVE  M!RegisterByte(r, i) = M!RegisterByte(s, j) <=> r = s /\ i = j
  <2>1. 2 * r + i = 2 * s + j <=> r = s /\ i = j
    OBVIOUS
  <2>2. QED
    BY <2>1, LocationShape
<1>2. \A a, b : M!MemoryByte(a) = M!MemoryByte(b) <=> a = b
  BY LocationShape
<1>3. ASSUME NEW r, NEW i, NEW a PROVE M!RegisterByte(r, i) # M!MemoryByte(a)
  <2>1. M!RegisterByte(r, i)[1] = "register" /\ M!MemoryByte(a)[1] = "memory"
    BY LocationShape
  <2>2. QED
    BY <2>1
<1>4. QED
  BY <1>1, <1>2, <1>3

\* When a step leaves its mark on one cell, what was the cell with its part
\* replaced by v is the machine with v at the part's place.
LEMMA CellsWithPlace ==
    ASSUME TypeOK, NEW cell \in OperandCells, NEW dst \in Dest, NEW v, Fits(dst, v),
           cell.inMemory /\ ~dst.isWord => dst.isLow,
           \A r \in 0..11 : registers'[r] =
                 IF cell = RegisterCell(r) THEN WithPart(dst, Read(cell), v) ELSE registers[r],
           \A a \in Address : memory'[a] =
                 IF cell = MemoryCell(a) THEN LowPart(WithPart(dst, Read(cell), v))
                 ELSE IF cell = MemoryCell(a - 1) THEN HighPart(WithPart(dst, Read(cell), v))
                 ELSE memory[a]
    PROVE  CellsOfMachine' = M!CellsWith(PlaceOf(cell, dst.isWord, dst.isLow), v)
<1> DEFINE C == CellsFrom(registers, memory)
           D == CellsFrom(registers', memory')
           place == PlaceOf(cell, dst.isWord, dst.isLow)
           W == M!CellsWith(place, v)
           w == WithPart(dst, Read(cell), v)
<1>0. Len(place) = 2 => place[1] # place[2]
  <2>1. CASE cell.inMemory
    <3>1. PICK a \in Address : cell = MemoryCell(a)
      BY <2>1, CellShape DEF OperandCells
    <3>2. a # a + 1
      BY DEF Address
    <3>3. M!MemoryByte(cell.at) # M!MemoryByte(cell.at + 1)
      BY <3>1, <3>2, CellShape, LocationsDiffer
    <3>4. QED
      BY <2>1, <3>3 DEF PlaceOf
  <2>2. CASE ~cell.inMemory
    <3>1. PICK r \in 0..11 : cell = RegisterCell(r)
      BY <2>2, CellShape DEF OperandCells
    <3>2. M!RegisterByte(cell.at, 0) # M!RegisterByte(cell.at, 1)
      BY <3>1, CellShape, LocationsDiffer
    <3>3. QED
      BY <2>2, <3>2 DEF PlaceOf
  <2>3. QED
    BY <2>1, <2>2
<1>1. /\ DOMAIN W = Places
      /\ \A l \in Places : W[l] =
            IF l = place[1] THEN LowPart(v)
            ELSE IF Len(place) = 2 /\ l = place[2] THEN HighPart(v) ELSE C[l]
  <2> HIDE DEF place
  <2>1. M!CellsWith(place, v) =
          [l \in M!Location |-> CASE l = place[1]                      -> M!LowPart(v)
                                 [] Len(place) = 2 /\ l = place[2]  -> M!HighPart(v)
                                 [] OTHER                           -> CellsOfMachine[l]]
    BY Zenon DEF M!CellsWith
  <2>2. DOMAIN W = M!Location
    BY <2>1
  <2>3. ASSUME NEW l \in M!Location
        PROVE  W[l] = CASE l = place[1]                      -> M!LowPart(v)
                        [] Len(place) = 2 /\ l = place[2]  -> M!HighPart(v)
                        [] OTHER                           -> CellsOfMachine[l]
    BY <2>1, Zenon
  <2> HIDE DEF W, C
  <2>4. ASSUME NEW l \in M!Location
        PROVE  W[l] = IF l = place[1] THEN M!LowPart(v)
                      ELSE IF Len(place) = 2 /\ l = place[2] THEN M!HighPart(v)
                      ELSE CellsOfMachine[l]
    <3>1. CASE l = place[1]
      BY <1>0, <2>3, <2>4, <3>1, Zenon
    <3>2. CASE l # place[1] /\ Len(place) = 2 /\ l = place[2]
      BY <2>3, <2>4, <3>2, Zenon
    <3>3. CASE l # place[1] /\ ~(Len(place) = 2 /\ l = place[2])
      BY <2>3, <2>4, <3>3, Zenon
    <3>4. QED
      BY <3>1, <3>2, <3>3
  <2>5. QED
    BY <2>2, <2>4, LocationShape, SameHelpers, CellsBeforeAndAfter DEF C
<1>2. ASSUME \A r \in 0..11 : /\ D[M!RegisterByte(r, 0)] = W[M!RegisterByte(r, 0)]
                              /\ D[M!RegisterByte(r, 1)] = W[M!RegisterByte(r, 1)],
             \A a \in Address : D[M!MemoryByte(a)] = W[M!MemoryByte(a)]
      PROVE  D = W
  <2>1. ASSUME NEW l \in Places PROVE D[l] = W[l]
    <3>1. CASE \E k \in 0..23 : l = <<"register", k>>
      <4>1. PICK k \in 0..23 : l = <<"register", k>>
        BY <3>1
      <4>2. k \div 2 \in 0..11 /\ k % 2 \in 0..1 /\ k = 2 * (k \div 2) + (k % 2)
        OBVIOUS
      <4>3. l = M!RegisterByte(k \div 2, k % 2)
        BY <4>1, <4>2, LocationShape, Zenon
      <4>4. l = M!RegisterByte(k \div 2, 0) \/ l = M!RegisterByte(k \div 2, 1)
        BY <4>2, <4>3
      <4> HIDE DEF D, W
      <4>5. QED
        BY <1>2, <4>2, <4>4
    <3>2. CASE \E a \in Address : l = <<"memory", a>>
      BY <1>2, <3>2, LocationShape
    <3>3. QED
      BY <3>1, <3>2 DEF Places
  <2>2. D = [l \in Places |-> D[l]]
    BY CellAt
  <2>3. W = [l \in Places |-> W[l]]
    BY <1>1, LocationShape DEF M!CellsWith
  <2> HIDE DEF D, W
  <2>4. QED
    BY <2>1, <2>2, <2>3
<1>3. Read(cell) \in Word
  BY ReadType
<1>4. /\ dst.isWord => w = v
      /\ ~dst.isWord /\ dst.isLow => /\ LowPart(w) = LowPart(v)
                                     /\ HighPart(w) = HighPart(Read(cell))
      /\ ~dst.isWord /\ ~dst.isLow => /\ LowPart(w) = LowPart(Read(cell))
                                      /\ HighPart(w) = LowPart(v)
  <2>1. LowPart(Read(cell)) \in Byte /\ HighPart(Read(cell)) \in Byte
    BY <1>3, PartTypes
  <2>2. ASSUME ~dst.isWord PROVE v \in Byte /\ LowPart(v) = v
    BY <2>2 DEF Fits, Values, Byte, LowPart
  <2>3. ASSUME ~dst.isWord
        PROVE  /\ LowPart(CombineWord(v, HighPart(Read(cell)))) = v
               /\ HighPart(CombineWord(v, HighPart(Read(cell)))) = HighPart(Read(cell))
               /\ LowPart(CombineWord(LowPart(Read(cell)), v)) = LowPart(Read(cell))
               /\ HighPart(CombineWord(LowPart(Read(cell)), v)) = v
    BY <2>1, <2>2, <2>3, PartsRoundTrip
  <2>4. QED
    BY <2>2, <2>3 DEF WithPart
<1>5. /\ \A r \in 0..11 : /\ D[M!RegisterByte(r, 0)] = LowPart(registers'[r])
                          /\ D[M!RegisterByte(r, 1)] = HighPart(registers'[r])
                          /\ C[M!RegisterByte(r, 0)] = LowPart(registers[r])
                          /\ C[M!RegisterByte(r, 1)] = HighPart(registers[r])
                          /\ M!RegisterByte(r, 0) \in Places /\ M!RegisterByte(r, 1) \in Places
      /\ \A a \in Address : /\ D[M!MemoryByte(a)] = memory'[a] /\ C[M!MemoryByte(a)] = memory[a]
                            /\ M!MemoryByte(a) \in Places
  BY CellAt
<1>6. CASE cell \in {RegisterCell(r) : r \in 0..11}
  <2>1. PICK r0 \in 0..11 : cell = RegisterCell(r0)
    BY <1>6
  <2>2. cell.inMemory = FALSE /\ cell.at = r0 /\ Read(cell) = registers[r0]
    BY <2>1, CellShape DEF Read
  <2>3. /\ \A r \in 0..11 : registers'[r] = IF r = r0 THEN w ELSE registers[r]
        /\ \A a \in Address : memory'[a] = memory[a]
    BY <2>1, CellShape
  <2>4. place = IF dst.isWord THEN <<M!RegisterByte(r0, 0), M!RegisterByte(r0, 1)>>
                ELSE <<M!RegisterByte(r0, IF dst.isLow THEN 0 ELSE 1)>>
    BY <2>2 DEF PlaceOf
  <2> HIDE DEF C, D, W, w, place
  <2>5. \A a \in Address : D[M!MemoryByte(a)] = W[M!MemoryByte(a)]
    <3>1. \A a \in Address : M!MemoryByte(a) # place[1] /\ (Len(place) = 2 => M!MemoryByte(a) # place[2])
      BY <2>4, LocationsDiffer
    <3>2. QED
      BY <1>1, <1>5, <2>3, <3>1
  <2>6. ASSUME NEW r \in 0..11
        PROVE  /\ D[M!RegisterByte(r, 0)] = W[M!RegisterByte(r, 0)]
               /\ D[M!RegisterByte(r, 1)] = W[M!RegisterByte(r, 1)]
    <3>1. /\ M!RegisterByte(r, 0) = M!RegisterByte(r0, 0) <=> r = r0
          /\ M!RegisterByte(r, 1) = M!RegisterByte(r0, 1) <=> r = r0
          /\ M!RegisterByte(r, 0) # M!RegisterByte(r0, 1)
          /\ M!RegisterByte(r, 1) # M!RegisterByte(r0, 0)
      BY LocationsDiffer
    <3>2. CASE dst.isWord
      <4>1. /\ place[1] = M!RegisterByte(r0, 0) /\ place[2] = M!RegisterByte(r0, 1)
            /\ Len(place) = 2
        BY <2>4, <3>2
      <4>2. QED
        BY <1>1, <1>4, <1>5, <2>3, <3>1, <3>2, <4>1
    <3>3. CASE ~dst.isWord /\ dst.isLow
      <4>1. place[1] = M!RegisterByte(r0, 0) /\ Len(place) = 1
        BY <2>4, <3>3
      <4>2. QED
        BY <1>1, <1>4, <1>5, <2>2, <2>3, <3>1, <3>3, <4>1
    <3>4. CASE ~dst.isWord /\ ~dst.isLow
      <4>1. place[1] = M!RegisterByte(r0, 1) /\ Len(place) = 1
        BY <2>4, <3>4
      <4>2. QED
        BY <1>1, <1>4, <1>5, <2>2, <2>3, <3>1, <3>4, <4>1
    <3>5. QED
      BY <3>2, <3>3, <3>4
  <2>7. QED
    BY <1>2, <2>5, <2>6, CellsBeforeAndAfter DEF D, W, place
<1>7. CASE cell \in {MemoryCell(a) : a \in {a \in Address : a + 1 \in Address}}
  <2>1. PICK a0 \in Address : cell = MemoryCell(a0) /\ a0 + 1 \in Address
    BY <1>7
  <2>2. /\ cell.inMemory = TRUE /\ cell.at = a0
        /\ Read(cell) = CombineWord(memory[a0], memory[a0 + 1])
    BY <2>1, CellShape DEF Read
  <2>3. HighPart(Read(cell)) = memory[a0 + 1]
    BY <2>1, <2>2, PartsRoundTrip DEF TypeOK
  <2>4. \A r \in 0..11 : registers'[r] = registers[r]
    BY <2>1, CellShape
  <2>5. ASSUME NEW a \in Address
        PROVE  memory'[a] = IF a = a0 THEN LowPart(w) ELSE IF a = a0 + 1 THEN HighPart(w) ELSE memory[a]
    <3>1. a - 1 = a0 <=> a = a0 + 1
      BY DEF Address
    <3>2. /\ cell = MemoryCell(a) <=> a = a0
          /\ cell = MemoryCell(a - 1) <=> a - 1 = a0
      BY <2>1, CellShape, Zenon
    <3> HIDE DEF w
    <3>3. QED
      BY <3>1, <3>2 DEF w
  <2>6. place = IF dst.isWord THEN <<M!MemoryByte(a0), M!MemoryByte(a0 + 1)>> ELSE <<M!MemoryByte(a0)>>
    BY <2>2 DEF PlaceOf
  <2>7. ~dst.isWord => dst.isLow
    BY <2>2
  <2>8. a0 # a0 + 1
    BY DEF Address
  <2> HIDE DEF C, D, W, w, place
  <2>9. \A r \in 0..11 : /\ D[M!RegisterByte(r, 0)] = W[M!RegisterByte(r, 0)]
                         /\ D[M!RegisterByte(r, 1)] = W[M!RegisterByte(r, 1)]
    <3>1. \A r \in 0..11, half \in 0..1 :
             /\ M!RegisterByte(r, half) # place[1]
             /\ Len(place) = 2 => M!RegisterByte(r, half) # place[2]
      BY <2>6, LocationsDiffer
    <3>2. QED
      BY <1>1, <1>5, <2>4, <3>1
  <2>10. ASSUME NEW a \in Address
         PROVE  D[M!MemoryByte(a)] = W[M!MemoryByte(a)]
    <3>1. /\ M!MemoryByte(a) = M!MemoryByte(a0) <=> a = a0
          /\ M!MemoryByte(a) = M!MemoryByte(a0 + 1) <=> a = a0 + 1
      BY LocationsDiffer
    <3>2. CASE dst.isWord
      <4>1. place[1] = M!MemoryByte(a0) /\ place[2] = M!MemoryByte(a0 + 1) /\ Len(place) = 2
        BY <2>6, <3>2
      <4>2. QED
        BY <1>1, <1>4, <1>5, <2>5, <3>1, <3>2, <4>1
    <3>3. CASE ~dst.isWord
      <4>1. place[1] = M!MemoryByte(a0) /\ Len(place) = 1
        BY <2>6, <3>3
      <4>2. QED
        BY <1>1, <1>4, <1>5, <2>3, <2>5, <2>7, <3>1, <3>3, <4>1
    <3>4. QED
      BY <3>2, <3>3
  <2>11. QED
    BY <1>2, <2>9, <2>10, CellsBeforeAndAfter DEF D, W, place
<1>8. QED
  BY <1>6, <1>7 DEF OperandCells

-----------------------------------------------------------------------------
(***************************************************************************)
(* Addresses and operands: for an instruction that does not deviate the    *)
(* two switches of emulateNext and the machine mean the same.              *)
(***************************************************************************)
LEMMA WordRegisterIs ==
    ASSUME TypeOK, NEW r \in 0..11
    PROVE  /\ RegisterCell(r) \in OperandCells
           /\ M!WordRegister(r) = PlaceOf(RegisterCell(r), TRUE, TRUE)
           /\ M!Value(M!WordRegister(r)) = registers[r]
<1>1. RegisterCell(r) \in OperandCells
  BY DEF OperandCells
<1>2. M!WordRegister(r) = PlaceOf(RegisterCell(r), TRUE, TRUE)
  BY CellShape DEF M!WordRegister, PlaceOf
<1>3. M!Value(PlaceOf(RegisterCell(r), TRUE, TRUE)) = Read(RegisterCell(r))
  BY <1>1, ValueOfPlace
<1>4. Read(RegisterCell(r)) = registers[r]
  BY CellShape DEF Read
<1>5. QED
  BY <1>1, <1>2, <1>3, <1>4

LEMMA BaseIs ==
    ASSUME TypeOK, NEW rm \in 0..7
    PROVE  M!Base(rm) = BaseAddress(rm)
<1>1. \A r \in 0..7 : M!Signed(r) = ToI16(registers[r])
  BY WordRegisterIs, SameHelpers DEF M!Signed
<1>2. /\ M!Signed(3) = ToI16(registers[3]) /\ M!Signed(5) = ToI16(registers[5])
      /\ M!Signed(6) = ToI16(registers[6]) /\ M!Signed(7) = ToI16(registers[7])
  BY <1>1
<1> DEFINE bx == ToI16(registers[3])  bp == ToI16(registers[5])
           si == ToI16(registers[6])  di == ToI16(registers[7])
<1>3. M!Base(rm) = << bx + si, bx + di, bp + si, bp + di, si, di, bp, bx >>[rm + 1]
  BY <1>2, Zenon DEF M!Base
<1> HIDE DEF bx, bp, si, di
<1>4. /\ BaseAddress(0) = bx + si /\ BaseAddress(1) = bx + di
      /\ BaseAddress(2) = bp + si /\ BaseAddress(3) = bp + di
      /\ BaseAddress(4) = si /\ BaseAddress(5) = di
      /\ BaseAddress(6) = bp /\ BaseAddress(7) = bx
  BY DEF BaseAddress, AddressRegisters, BX, BP, SI, DI, bx, bp, si, di
<1>5. rm = 0 \/ rm = 1 \/ rm = 2 \/ rm = 3 \/ rm = 4 \/ rm = 5 \/ rm = 6 \/ rm = 7
  OBVIOUS
<1>6. QED
  BY <1>3, <1>4, <1>5

LEMMA AddressIs ==
    ASSUME TypeOK, NEW inst \in Instruction, ~Deviates(inst)
    PROVE  /\ UsesMemory(inst) => M!EffectiveAddr(inst) = EffectiveAddress(inst)
           /\ M!Accessible(inst) <=> ~AddressPanics(inst)
<1> DEFINE disp16 == ToI16(CombineWord(inst.disp[1], inst.disp[2]))
<1>0. /\ inst.rm \in 0..7 /\ M!Base(inst.rm) = BaseAddress(inst.rm)
      /\ BaseAddress(inst.rm) \in Int /\ disp16 \in Int
      /\ ToI8(inst.disp[1]) \in Int
      /\ ToI16(CombineWord(inst.data[1], inst.data[2])) \in Int
  BY InstructionTypes, BaseIs, BaseAddressType, SignedTypes, PartTypes DEF TypeOK, RegistersOK
<1>1. ASSUME inst.operands \in {"Memory_Accumulator", "Accumulator_Memory"}
      PROVE  M!EffectiveAddr(inst) = EffectiveAddress(inst)
  <2>1. inst.rm = 0 /\ BaseAddress(0) = 0
    BY <1>1, InstructionShape DEF Deviates
  <2>2. EffectiveAddress(inst) = 0 + ToI16(CombineWord(inst.data[1], inst.data[2]))
    BY <1>1, <2>1 DEF EffectiveAddress, CalcMemoryAddress, AddressDisplacement, IsDirectAddrMode,
         Is8bitDisplacement, Is16bitDisplacement, MEMORY_NO_DISPLACEMENT,
         MEMORY_8_BIT_DISPLACEMENT, MEMORY_16_BIT_DISPLACEMENT
  <2>3. M!EffectiveAddr(inst) = M!ToI16(M!CombineWord(inst.data[1], inst.data[2]))
    <3>1. inst.mod = 4
      BY <1>1, InstructionShape
    <3>2. inst.operands \in M!AccumulatorMoves
      BY <1>1 DEF M!AccumulatorMoves
    <3>3. QED
      BY <3>1, <3>2 DEF M!EffectiveAddr, M!MEMORY_NO_DISPLACEMENT,
           M!MEMORY_8_BIT_DISPLACEMENT, M!MEMORY_16_BIT_DISPLACEMENT
  <2>4. QED
    BY <1>0, <2>2, <2>3, SameHelpers
<1>2. ASSUME inst.operands \in {"Memory_Register", "Register_Memory", "Memory_Immediate"}
      PROVE  M!EffectiveAddr(inst) = EffectiveAddress(inst)
  <2>1. inst.mod \in 0..2
    BY <1>2, InstructionShape
  <2>2. EffectiveAddress(inst) = CalcMemoryAddress(inst.mod, inst.rm, inst.disp)
    BY <1>2 DEF EffectiveAddress
  <2>3. inst.operands \notin M!AccumulatorMoves
    BY <1>2 DEF M!AccumulatorMoves
  <2>4. CASE inst.mod = 0
    <3>1. M!EffectiveAddr(inst) = IF inst.rm = 6 THEN disp16 ELSE M!Base(inst.rm)
      BY <2>3, <2>4, SameHelpers DEF M!EffectiveAddr, M!MEMORY_NO_DISPLACEMENT,
           M!MEMORY_8_BIT_DISPLACEMENT, M!MEMORY_16_BIT_DISPLACEMENT
    <3>2. CalcMemoryAddress(inst.mod, inst.rm, inst.disp) =
             IF inst.rm = 6 THEN 0 + disp16 ELSE BaseAddress(inst.rm) + 0
      <4>1. CASE inst.rm = 6
        BY <2>4, <4>1 DEF CalcMemoryAddress, AddressDisplacement, IsDirectAddrMode,
           Is8bitDisplacement, Is16bitDisplacement, MEMORY_NO_DISPLACEMENT,
           MEMORY_8_BIT_DISPLACEMENT, MEMORY_16_BIT_DISPLACEMENT
      <4>2. CASE inst.rm # 6
        <5>1. ~IsDirectAddrMode(inst.mod, inst.rm)
          BY <4>2 DEF IsDirectAddrMode
        <5>2. ~Is8bitDisplacement(inst.mod) /\ ~Is16bitDisplacement(inst.mod)
          BY <2>4 DEF Is8bitDisplacement, Is16bitDisplacement,
             MEMORY_8_BIT_DISPLACEMENT, MEMORY_16_BIT_DISPLACEMENT
        <5>3. AddressDisplacement(inst.mod, inst.rm, inst.disp) = 0
          BY <5>1, <5>2, Zenon DEF AddressDisplacement
        <5>4. QED
          BY <4>2, <5>1, <5>3 DEF CalcMemoryAddress
      <4>3. QED
        BY <4>1, <4>2
    <3> HIDE DEF disp16
    <3>3. QED
      BY <1>0, <2>2, <3>1, <3>2
  <2>5. CASE inst.mod = 1
    <3>1. M!EffectiveAddr(inst) = M!Base(inst.rm) + ToI8(inst.disp[1])
      BY <2>3, <2>5, SameHelpers DEF M!EffectiveAddr, M!MEMORY_NO_DISPLACEMENT,
           M!MEMORY_8_BIT_DISPLACEMENT, M!MEMORY_16_BIT_DISPLACEMENT
    <3>2. CalcMemoryAddress(inst.mod, inst.rm, inst.disp) = BaseAddress(inst.rm) + ToI8(inst.disp[1])
      BY <2>5 DEF CalcMemoryAddress, AddressDisplacement, IsDirectAddrMode,
         Is8bitDisplacement, Is16bitDisplacement, MEMORY_NO_DISPLACEMENT,
         MEMORY_8_BIT_DISPLACEMENT, MEMORY_16_BIT_DISPLACEMENT
    <3>3. QED
      BY <1>0, <2>2, <3>1, <3>2
  <2>6. CASE inst.mod = 2
    <3>1. M!EffectiveAddr(inst) = M!Base(inst.rm) + disp16
      BY <2>3, <2>6, SameHelpers DEF M!EffectiveAddr, M!MEMORY_NO_DISPLACEMENT,
           M!MEMORY_8_BIT_DISPLACEMENT, M!MEMORY_16_BIT_DISPLACEMENT
    <3>2. CalcMemoryAddress(inst.mod, inst.rm, inst.disp) = BaseAddress(inst.rm) + disp16
      BY <2>6 DEF CalcMemoryAddress, AddressDisplacement, IsDirectAddrMode,
         Is8bitDisplacement, Is16bitDisplacement, MEMORY_NO_DISPLACEMENT,
         MEMORY_8_BIT_DISPLACEMENT, MEMORY_16_BIT_DISPLACEMENT
    <3>3. QED
      BY <1>0, <2>2, <3>1, <3>2
  <2>7. QED
    BY <2>1, <2>4, <2>5, <2>6
<1>3. UsesMemory(inst) <=> inst.operands \in M!MemoryOperands
  BY DEF UsesMemory, MemoryDestinations, MemorySources, M!MemoryOperands, M!AccumulatorMoves
<1>4. UsesMemory(inst) => M!EffectiveAddr(inst) = EffectiveAddress(inst)
  BY <1>1, <1>2 DEF UsesMemory, MemoryDestinations, MemorySources
<1>5. EffectiveAddress(inst) \in Int
  BY EffectiveAddressType DEF TypeOK, RegistersOK
<1>6. EffectiveAddress(inst) \in 0..(EMULATOR_MEMORY_SIZE - 2) <=> InBounds(EffectiveAddress(inst))
  BY <1>5, EmulatorConstants DEF InBounds, EmulatorConstants
<1>7. QED
  BY <1>3, <1>4, <1>6 DEF M!Accessible, AddressPanics

\* A register operand: the cell getRegister finds, and in it the register's byte.
LEMMA RegisterPlace ==
    ASSUME NEW k \in 0..7, NEW w \in 0..1, NEW isWord \in BOOLEAN, NEW isLow \in BOOLEAN,
           isWord <=> w = 1, w = 0 => (isLow <=> IsLowRegister(k))
    PROVE  /\ RegisterCell(GetRegister(k, isWord, FALSE)) \in OperandCells
           /\ RegisterCell(GetRegister(k, isWord, FALSE)).inMemory = FALSE
           /\ M!Register(k, w) = PlaceOf(RegisterCell(GetRegister(k, isWord, FALSE)), isWord, isLow)
<1>1. GetRegister(k, isWord, FALSE) = IF w = 1 THEN k ELSE k % 4
  BY Zenon DEF GetRegister
<1>2. k \in 0..11 /\ k % 4 \in 0..11 /\ k \div 4 = IF k < 4 THEN 0 ELSE 1
  OBVIOUS
<1>3. RegisterCell(GetRegister(k, isWord, FALSE)) \in OperandCells
  BY <1>1, <1>2 DEF OperandCells
<1>4. /\ RegisterCell(GetRegister(k, isWord, FALSE)).inMemory = FALSE
      /\ RegisterCell(GetRegister(k, isWord, FALSE)).at = GetRegister(k, isWord, FALSE)
  BY CellShape
<1>5. M!Register(k, w) = IF w = 1 THEN <<M!RegisterByte(k, 0), M!RegisterByte(k, 1)>>
                                  ELSE <<M!RegisterByte(k % 4, k \div 4)>>
  BY DEF M!Register, M!WordRegister
<1>6. CASE w = 1
  BY <1>1, <1>3, <1>4, <1>5, <1>6 DEF PlaceOf
<1>7. CASE w = 0
  <2>1. k \div 4 = IF isLow THEN 0 ELSE 1
    BY <1>2, <1>7 DEF IsLowRegister
  <2>2. QED
    BY <1>1, <1>3, <1>4, <1>5, <1>7, <2>1 DEF PlaceOf
<1>8. w = 0 \/ w = 1
  OBVIOUS
<1>9. QED
  BY <1>6, <1>7, <1>8, Zenon

LEMMA SegmentPlace ==
    ASSUME NEW k \in 0..3
    PROVE  /\ RegisterCell(GetRegister(k, TRUE, TRUE)) \in OperandCells
           /\ RegisterCell(GetRegister(k, TRUE, TRUE)) = RegisterCell(8 + k)
           /\ M!SegmentRegister(k) = M!WordRegister(8 + k)
<1>1. GetRegister(k, TRUE, TRUE) = ES + k
  BY Zenon DEF GetRegister
<1>2. ES + k = 8 + k /\ 8 + k \in 0..11
  BY DEF ES
<1>3. M!SegmentRegister(k) = M!WordRegister(8 + k)
  BY Zenon DEF M!SegmentRegister
<1>4. RegisterCell(GetRegister(k, TRUE, TRUE)) = RegisterCell(8 + k)
  BY <1>1, <1>2, Zenon
<1>5. RegisterCell(8 + k) \in OperandCells
  BY <1>2, WordRegisterIs DEF OperandCells
<1>6. QED
  BY <1>3, <1>4, <1>5, Zenon

\* A memory operand whose address calcMemoryAddress accepts.
LEMMA MemoryPlace ==
    ASSUME TypeOK, NEW inst \in Instruction, ~Deviates(inst), OperandsReady(inst), UsesMemory(inst)
    PROVE  /\ MemoryCell(EffectiveAddress(inst)) \in OperandCells
           /\ M!Memory(M!EffectiveAddr(inst), inst.w) =
                 IF inst.w = 1 THEN PlaceOf(MemoryCell(EffectiveAddress(inst)), TRUE, TRUE)
                               ELSE PlaceOf(MemoryCell(EffectiveAddress(inst)), FALSE, TRUE)
<1> DEFINE a == EffectiveAddress(inst)
<1>1. a \in Address /\ a + 1 \in Address
  <2>1. InBounds(a)
    BY DEF OperandsReady, AddressPanics
  <2>2. a \in Int
    BY EffectiveAddressType DEF RegistersOK, TypeOK
  <2>3. QED
    BY <2>1, <2>2, EmulatorConstants DEF InBounds, Address, EmulatorConstants
<1>2. M!EffectiveAddr(inst) = a
  BY AddressIs
<1> HIDE DEF a
<1>3. QED
  BY <1>1, <1>2, CellShape DEF OperandCells, M!Memory, PlaceOf, a

\* The destination: the cell and the part of it that the first switch of
\* emulateNext chooses are the bytes the machine's instruction is about.
LEMMA TargetIs ==
    ASSUME TypeOK, NEW inst \in Instruction, ~Deviates(inst), OperandsReady(inst),
           inst.operands # "ShortLabel"
    PROVE  /\ DestCell(inst) \in OperandCells
           /\ DestCell(inst).inMemory /\ ~DestOf(inst).isWord => DestOf(inst).isLow
           /\ M!Target(inst) = PlaceOf(DestCell(inst), DestOf(inst).isWord, DestOf(inst).isLow)
<1> DEFINE dst == DestOf(inst)
<1>0. /\ inst.w \in 0..1 /\ inst.s \in 0..1 /\ inst.reg \in 0..7 /\ inst.rm \in 0..7
      /\ dst.isWord \in BOOLEAN /\ dst.isLow \in BOOLEAN
  BY InstructionTypes, DestOfType DEF Dest
<1>1. dst.isWord <=> inst.w = 1 \/ inst.operands \in SegmentMoves
  BY DestFields, Zenon
<1>2. CASE inst.operands \in {"Register_Immediate", "Register_Register"}
  <2>1. dst.isLow = IsLowRegister(inst.rm)
    BY <1>2, DestFields
  <2>2. DestCell(inst) = RegisterCell(GetRegister(inst.rm, inst.w = 1, FALSE))
    BY <1>2, Zenon DEF DestCell, MemoryDestinations
  <2>3. dst.isWord <=> inst.w = 1
    BY <1>1, <1>2 DEF SegmentMoves
  <2>4. DestCell(inst) = RegisterCell(GetRegister(inst.rm, dst.isWord, FALSE))
    BY <1>0, <2>2, <2>3, Zenon
  <2>5. M!Target(inst) = M!Register(inst.rm, inst.w)
    <3>1. CASE inst.operands = "Register_Immediate"
      BY <3>1, Zenon DEF M!Target
    <3>2. CASE inst.operands = "Register_Register"
      <4>1. inst.d # 1
        BY <3>2 DEF Deviates
      <4>2. QED
        BY <3>2, <4>1, Zenon DEF M!Target, M!DestRegister
    <3>3. QED
      BY <1>2, <3>1, <3>2
  <2> HIDE DEF dst
  <2>6. dst.isLow <=> IsLowRegister(inst.rm)
    BY <2>1
  <2>7. /\ RegisterCell(GetRegister(inst.rm, dst.isWord, FALSE)) \in OperandCells
        /\ RegisterCell(GetRegister(inst.rm, dst.isWord, FALSE)).inMemory = FALSE
        /\ M!Register(inst.rm, inst.w) =
              PlaceOf(RegisterCell(GetRegister(inst.rm, dst.isWord, FALSE)), dst.isWord, dst.isLow)
    BY <1>0, <2>3, <2>6, RegisterPlace
  <2>8. QED
    BY <2>4, <2>5, <2>7 DEF dst
<1>3. CASE inst.operands = "Memory_Register"
  <2>1. dst.isLow = IsLowRegister(inst.reg)
    BY <1>3, DestFields
  <2>2. DestCell(inst) = RegisterCell(GetRegister(inst.reg, inst.w = 1, FALSE))
    BY <1>3, Zenon DEF DestCell, MemoryDestinations
  <2>3. dst.isWord <=> inst.w = 1
    BY <1>1, <1>3 DEF SegmentMoves
  <2>4. DestCell(inst) = RegisterCell(GetRegister(inst.reg, dst.isWord, FALSE))
    BY <1>0, <2>2, <2>3, Zenon
  <2>5. M!Target(inst) = M!Register(inst.reg, inst.w)
    BY <1>3, Zenon DEF M!Target
  <2> HIDE DEF dst
  <2>6. dst.isLow <=> IsLowRegister(inst.reg)
    BY <2>1
  <2>7. /\ RegisterCell(GetRegister(inst.reg, dst.isWord, FALSE)) \in OperandCells
        /\ RegisterCell(GetRegister(inst.reg, dst.isWord, FALSE)).inMemory = FALSE
        /\ M!Register(inst.reg, inst.w) =
              PlaceOf(RegisterCell(GetRegister(inst.reg, dst.isWord, FALSE)), dst.isWord, dst.isLow)
    BY <1>0, <2>3, <2>6, RegisterPlace
  <2>8. QED
    BY <2>4, <2>5, <2>7 DEF dst
<1>4. CASE inst.operands \in {"Accumulator_Immediate", "Memory_Accumulator"}
  <2>1. dst.isLow
    BY <1>4, DestFields
  <2>2. DestCell(inst) = RegisterCell(0)
    BY <1>4, Zenon DEF DestCell, MemoryDestinations, AX
  <2>3. dst.isWord <=> inst.w = 1
    BY <1>1, <1>4 DEF SegmentMoves
  <2>4. GetRegister(0, dst.isWord, FALSE) = 0
    <3>1. 0 % 4 = 0
      OBVIOUS
    <3>2. QED
      BY <1>0, <3>1, Zenon DEF GetRegister
  <2>5. M!Target(inst) = M!Register(0, inst.w)
    BY <1>4, Zenon DEF M!Target
  <2> HIDE DEF dst
  <2>6. 0 \in 0..7 /\ IsLowRegister(0)
    BY DEF IsLowRegister
  <2>7. /\ RegisterCell(GetRegister(0, dst.isWord, FALSE)) \in OperandCells
        /\ RegisterCell(GetRegister(0, dst.isWord, FALSE)).inMemory = FALSE
        /\ M!Register(0, inst.w) =
              PlaceOf(RegisterCell(GetRegister(0, dst.isWord, FALSE)), dst.isWord, dst.isLow)
    BY <1>0, <2>1, <2>3, <2>6, RegisterPlace
  <2>8. QED
    BY <2>2, <2>4, <2>5, <2>7 DEF dst
<1>5. CASE inst.operands = "Register16_SegReg"
  <2>1. inst.reg \in 0..3
    BY <1>5 DEF Deviates, SegmentMoves
  <2>2. DestCell(inst) = RegisterCell(GetRegister(inst.reg, TRUE, TRUE))
    BY <1>5, Zenon DEF DestCell, MemoryDestinations
  <2>3. M!Target(inst) = M!SegmentRegister(inst.reg)
    BY <1>5, Zenon DEF M!Target
  <2>4. dst.isWord
    BY <1>1, <1>5 DEF SegmentMoves
  <2>5. /\ DestCell(inst) \in OperandCells /\ DestCell(inst) = RegisterCell(8 + inst.reg)
        /\ M!Target(inst) = M!WordRegister(8 + inst.reg)
    BY <2>1, <2>2, <2>3, SegmentPlace
  <2> HIDE DEF dst
  <2>6. QED
    BY <2>4, <2>5, CellShape DEF dst, PlaceOf, M!WordRegister
<1>6. CASE inst.operands = "SegReg_Register16"
  <2>1. DestCell(inst) = RegisterCell(GetRegister(inst.rm, TRUE, FALSE))
    BY <1>6, Zenon DEF DestCell, MemoryDestinations
  <2>2. GetRegister(inst.rm, TRUE, FALSE) = inst.rm
    BY Zenon DEF GetRegister
  <2>3. M!Target(inst) = M!WordRegister(inst.rm)
    BY <1>6, Zenon DEF M!Target
  <2>4. dst.isWord
    BY <1>1, <1>6 DEF SegmentMoves
  <2>5. inst.rm \in 0..11
    BY <1>0
  <2> HIDE DEF dst
  <2>6. DestCell(inst) = RegisterCell(inst.rm)
    BY <2>1, <2>2, Zenon
  <2>7. DestCell(inst) \in OperandCells
    BY <2>5, <2>6 DEF OperandCells
  <2>8. QED
    BY <2>3, <2>4, <2>6, <2>7, CellShape DEF dst, PlaceOf, M!WordRegister
<1>7. CASE inst.operands \in MemoryDestinations
  <2>1. DestCell(inst) = MemoryCell(EffectiveAddress(inst))
    BY <1>7, Zenon DEF DestCell, MemoryDestinations
  <2>2. dst.isWord <=> inst.w = 1
    BY <1>1, <1>7 DEF SegmentMoves, MemoryDestinations
  <2>3. dst.isLow
    <3>1. CASE inst.operands = "Register_Memory"
      <4>1. inst.w = 1
        BY <1>0, <3>1 DEF Deviates
      <4>2. dst.isLow = (inst.w = 1)
        BY <3>1, DestFields
      <4>3. QED
        BY <4>1, <4>2, Zenon
    <3>2. CASE inst.operands = "Memory_Immediate"
      <4>1. inst.w = 1 \/ ~ImmediateIsWord(inst)
        BY DEF ImmediateIsWord
      <4>2. dst.isLow = (inst.w = 1 \/ ~ImmediateIsWord(inst))
        BY <3>2, DestFields
      <4>3. QED
        BY <4>1, <4>2, Zenon
    <3>3. CASE inst.operands = "Accumulator_Memory"
      BY <3>3, DestFields
    <3>4. QED
      BY <1>7, <3>1, <3>2, <3>3 DEF MemoryDestinations
  <2>4. UsesMemory(inst)
    BY <1>7 DEF UsesMemory
  <2>5. M!Target(inst) = M!Memory(M!EffectiveAddr(inst), inst.w)
    BY <1>7, Zenon DEF M!Target, MemoryDestinations
  <2>6. /\ DestCell(inst) \in OperandCells
        /\ M!Target(inst) = IF inst.w = 1 THEN PlaceOf(DestCell(inst), TRUE, TRUE)
                                          ELSE PlaceOf(DestCell(inst), FALSE, TRUE)
    BY <2>1, <2>4, <2>5, MemoryPlace
  <2> HIDE DEF dst
  <2>7. QED
    BY <1>0, <2>2, <2>3, <2>6 DEF dst, PlaceOf
<1>8. QED
  BY <1>2, <1>3, <1>4, <1>5, <1>6, <1>7, InstructionTypes
     DEF Operands, OperandsReady, UnsupportedOperands, MemoryDestinations

\* A source read from a cell is what the machine has at the place.
LEMMA CellSource ==
    ASSUME TypeOK, NEW cell \in OperandCells, NEW dst \in Dest,
           NEW isWord \in BOOLEAN, NEW isLow \in BOOLEAN,
           dst.isWord => isWord, cell.inMemory /\ ~dst.isWord => isLow
    PROVE  /\ SourceValue(dst, FromCell(cell, isWord, isLow)) = M!Value(PlaceOf(cell, dst.isWord, isLow))
           /\ dst.isWord => FromCell(cell, isWord, isLow).isWord
<1> DEFINE src == FromCell(cell, isWord, isLow)
<1>1. /\ src.low = LowPart(Read(cell)) /\ src.hi = HighPart(Read(cell))
      /\ src.isWord = isWord /\ src.isLow = isLow
  BY Zenon DEF FromCell
<1>2. dst.isWord \in BOOLEAN
  BY DEF Dest
<1>3. M!Value(PlaceOf(cell, dst.isWord, isLow)) =
         IF dst.isWord THEN Read(cell)
         ELSE IF isLow THEN LowPart(Read(cell)) ELSE HighPart(Read(cell))
  BY <1>2, ValueOfPlace
<1>4. Read(cell) \in Word
  BY ReadType
<1>5. CombineWord(LowPart(Read(cell)), HighPart(Read(cell))) = Read(cell)
  BY <1>4, PartsRoundTrip
<1>6. dst.isWord => src.isWord
  BY <1>1, Zenon
<1> HIDE DEF src
<1>7. SourceValue(dst, src) = M!Value(PlaceOf(cell, dst.isWord, isLow))
  <2>1. CASE dst.isWord
    BY <1>1, <1>3, <1>5, <1>6, <2>1 DEF SourceValue
  <2>2. CASE ~dst.isWord /\ isLow
    <3>1. src.isLow
      BY <1>1, <2>2, Zenon
    <3>2. QED
      BY <1>1, <1>3, <2>2, <3>1 DEF SourceValue, SourceByte
  <2>3. CASE ~dst.isWord /\ ~isLow
    <3>1. ~src.isLow
      BY <1>1, <2>3, Zenon
    <3>2. QED
      BY <1>1, <1>3, <2>3, <3>1 DEF SourceValue, SourceByte
  <2>4. QED
    BY <2>1, <2>2, <2>3
<1>8. QED
  BY <1>6, <1>7 DEF src

\* An immediate, sign-extended when the s bit says so.
LEMMA ImmediateIs ==
    ASSUME NEW inst \in Instruction, NEW dst \in Dest, dst.isWord <=> inst.w = 1,
           NEW src \in Source, src.low = inst.data[1], SourceByte(src) = inst.data[1],
           src.isWord <=> ImmediateIsWord(inst), inst.w = 1 /\ inst.s = 0 => src.hi = inst.data[2]
    PROVE  /\ SourceValue(dst, src) = M!Immediate(inst)
           /\ inst.type = "MOV" /\ dst.isWord => src.isWord
<1>1. inst.w \in 0..1 /\ inst.s \in 0..1
  BY InstructionTypes
<1>2. CASE inst.w = 0
  <2>1. M!Immediate(inst) = inst.data[1]
    BY <1>2 DEF M!Immediate
  <2>2. QED
    BY <1>2, <2>1 DEF SourceValue
<1>3. CASE inst.w = 1 /\ inst.s = 1
  <2>1. M!Immediate(inst) = SignExtend(inst.data[1])
    BY <1>3, SameHelpers DEF M!Immediate
  <2>2. ~src.isWord
    BY <1>3 DEF ImmediateIsWord
  <2>3. inst.type # "MOV"
    BY <1>3, InstructionShape DEF ArithmeticTypes
  <2>4. QED
    BY <1>3, <2>1, <2>2, <2>3 DEF SourceValue
<1>4. CASE inst.w = 1 /\ inst.s = 0
  <2>1. M!Immediate(inst) = CombineWord(inst.data[1], inst.data[2])
    BY <1>4, SameHelpers DEF M!Immediate
  <2>2. src.isWord
    BY <1>4 DEF ImmediateIsWord
  <2>3. QED
    BY <1>4, <2>1, <2>2 DEF SourceValue
<1>5. QED
  BY <1>1, <1>2, <1>3, <1>4

\* The source: the number the second switch of emulateNext computes with.
LEMMA SourceIs ==
    ASSUME TypeOK, NEW inst \in Instruction, ~Deviates(inst), OperandsReady(inst),
           inst.operands # "ShortLabel"
    PROVE  /\ SourceValue(DestOf(inst), SourceOf(inst)) = M!SourceNumber(inst)
           /\ inst.type = "MOV" /\ DestOf(inst).isWord => SourceOf(inst).isWord
<1> DEFINE dst == DestOf(inst)  src == SourceOf(inst)
<1>0. /\ inst.w \in 0..1 /\ inst.s \in 0..1 /\ inst.reg \in 0..7 /\ inst.rm \in 0..7
      /\ inst.data[1] \in Byte /\ inst.data[2] \in Byte
      /\ dst \in Dest /\ dst.isWord \in BOOLEAN /\ src \in Source
      /\ (inst.w = 1) \in BOOLEAN /\ IsLowRegister(inst.reg) \in BOOLEAN
  BY InstructionTypes, DestOfType, SourceOfType DEF Dest, TypeOK, RegistersOK, MemoryOK, IsLowRegister
<1>1. dst.isWord <=> inst.w = 1 \/ inst.operands \in SegmentMoves
  BY DestFields, Zenon
<1>2. CASE inst.operands \in {"Register_Immediate", "Accumulator_Immediate"}
  <2>1. src = [low |-> inst.data[1], hi |-> inst.data[2],
               isWord |-> ImmediateIsWord(inst), isLow |-> TRUE]
    BY <1>2, Zenon DEF SourceOf, SegmentMoves
  <2>2. /\ src.low = inst.data[1] /\ src.hi = inst.data[2]
        /\ src.isWord = ImmediateIsWord(inst) /\ src.isLow = TRUE
    <3> HIDE DEF src
    <3> QED
      BY <2>1, Zenon
  <2>3. dst.isWord <=> inst.w = 1
    BY <1>1, <1>2 DEF SegmentMoves
  <2>4. M!SourceNumber(inst) = M!Immediate(inst)
    BY <1>2, Zenon DEF M!SourceNumber
  <2> HIDE DEF dst, src
  <2>5. SourceByte(src) = inst.data[1] /\ (src.isWord <=> ImmediateIsWord(inst))
    BY <2>2 DEF SourceByte
  <2>6. QED
    BY <1>0, <2>2, <2>3, <2>4, <2>5, ImmediateIs DEF dst, src
<1>3. CASE inst.operands = "Memory_Immediate"
  <2>1. src = IF ImmediateIsWord(inst)
              THEN [low |-> inst.data[1], hi |-> inst.data[2], isWord |-> TRUE, isLow |-> FALSE]
              ELSE [low |-> inst.data[1], hi |-> inst.data[1], isWord |-> FALSE, isLow |-> FALSE]
    BY <1>3, Zenon DEF SourceOf, SegmentMoves
  <2>2. /\ src.low = inst.data[1] /\ src.isLow = FALSE
        /\ ImmediateIsWord(inst) => src.hi = inst.data[2] /\ src.isWord = TRUE
        /\ ~ImmediateIsWord(inst) => src.hi = inst.data[1] /\ src.isWord = FALSE
    <3> HIDE DEF src
    <3>1. CASE ImmediateIsWord(inst)
      BY <2>1, <3>1, Zenon
    <3>2. CASE ~ImmediateIsWord(inst)
      BY <2>1, <3>2, Zenon
    <3>3. QED
      BY <3>1, <3>2
  <2>3. dst.isWord <=> inst.w = 1
    BY <1>1, <1>3 DEF SegmentMoves
  <2>4. M!SourceNumber(inst) = M!Immediate(inst)
    BY <1>3, Zenon DEF M!SourceNumber
  <2> HIDE DEF dst, src
  <2>5. /\ src.isWord <=> ImmediateIsWord(inst)
        /\ inst.w = 1 /\ inst.s = 0 => src.hi = inst.data[2]
    BY <2>2 DEF ImmediateIsWord
  <2>6. CASE inst.w = 1 /\ inst.s = 0
    <3>1. M!Immediate(inst) = CombineWord(inst.data[1], inst.data[2])
      BY <2>6, SameHelpers DEF M!Immediate
    <3>2. src.isWord /\ dst.isWord
      BY <2>3, <2>5, <2>6 DEF ImmediateIsWord
    <3>3. QED
      BY <2>2, <2>4, <2>5, <2>6, <3>1, <3>2 DEF SourceValue, dst, src
  <2>7. CASE ~(inst.w = 1 /\ inst.s = 0)
    <3>1. SourceByte(src) = inst.data[1]
      BY <2>2, <2>7 DEF SourceByte, ImmediateIsWord
    <3>2. QED
      BY <1>0, <2>2, <2>3, <2>4, <2>5, <3>1, ImmediateIs DEF dst, src
  <2>8. QED
    BY <2>6, <2>7
<1>4. CASE inst.operands = "Register_Register"
  <2> DEFINE cell == RegisterCell(GetRegister(inst.reg, dst.isWord, FALSE))
  <2>1. dst.isWord = (inst.w = 1)
    BY <1>1, <1>4, DestFields, Zenon DEF SegmentMoves
  <2>2. src = FromCell(cell, dst.isWord, IsLowRegister(inst.reg))
    <3>1. src = FromCell(SourceCell(inst), inst.w = 1, IsLowRegister(inst.reg))
      BY <1>4, Zenon DEF SourceOf, SegmentMoves
    <3>2. SourceCell(inst) = RegisterCell(GetRegister(inst.reg, inst.w = 1, FALSE))
      BY <1>4, Zenon DEF SourceCell, MemorySources
    <3> HIDE DEF dst, src
    <3>3. QED
      BY <2>1, <3>1, <3>2, Zenon
  <2>3. M!SourceNumber(inst) = M!Value(M!Register(inst.reg, inst.w))
    <3>1. inst.d # 1
      BY <1>4 DEF Deviates
    <3>2. QED
      BY <1>4, <3>1, Zenon DEF M!SourceNumber, M!SourceRegister
  <2> HIDE DEF dst, src
  <2>4. dst.isWord <=> inst.w = 1
    BY <2>1
  <2>5. /\ cell \in OperandCells /\ cell.inMemory = FALSE
        /\ M!Register(inst.reg, inst.w) = PlaceOf(cell, dst.isWord, IsLowRegister(inst.reg))
    BY <1>0, <2>4, RegisterPlace
  <2> HIDE DEF cell
  <2>6. /\ SourceValue(dst, FromCell(cell, dst.isWord, IsLowRegister(inst.reg)))
             = M!Value(PlaceOf(cell, dst.isWord, IsLowRegister(inst.reg)))
        /\ dst.isWord => FromCell(cell, dst.isWord, IsLowRegister(inst.reg)).isWord
    BY <1>0, <2>5, CellSource
  <2>7. QED
    BY <2>2, <2>3, <2>5, <2>6 DEF dst, src
<1>5. CASE inst.operands \in SegmentMoves
  <2> DEFINE r == IF inst.operands = "Register16_SegReg" THEN inst.rm ELSE 8 + inst.reg
             cell == RegisterCell(r)
  <2>1. inst.reg \in 0..3
    BY <1>5 DEF Deviates
  <2>2. src = FromCell(cell, TRUE, TRUE)
    <3>1. src = FromCell(SourceCell(inst), TRUE, TRUE)
      BY <1>5, Zenon DEF SourceOf, SegmentMoves
    <3>2. SourceCell(inst) = cell
      <4>1. CASE inst.operands = "Register16_SegReg"
        <5>1. SourceCell(inst) = RegisterCell(GetRegister(inst.rm, TRUE, FALSE))
          BY <4>1, Zenon DEF SourceCell, MemorySources
        <5>2. GetRegister(inst.rm, TRUE, FALSE) = inst.rm
          BY Zenon DEF GetRegister
        <5>3. QED
          BY <4>1, <5>1, <5>2, Zenon
      <4>2. CASE inst.operands = "SegReg_Register16"
        <5>1. SourceCell(inst) = RegisterCell(GetRegister(inst.reg, TRUE, TRUE))
          BY <4>2, Zenon DEF SourceCell, MemorySources
        <5>2. QED
          BY <2>1, <4>2, <5>1, SegmentPlace
      <4>3. QED
        BY <1>5, <4>1, <4>2 DEF SegmentMoves
    <3>3. QED
      BY <3>1, <3>2
  <2>3. M!SourceNumber(inst) = M!Value(M!WordRegister(r))
    <3>1. CASE inst.operands = "Register16_SegReg"
      BY <3>1, Zenon DEF M!SourceNumber
    <3>2. CASE inst.operands = "SegReg_Register16"
      <4>1. M!SourceNumber(inst) = M!Value(M!SegmentRegister(inst.reg))
        BY <3>2, Zenon DEF M!SourceNumber
      <4>2. QED
        BY <2>1, <3>2, <4>1, SegmentPlace
    <3>3. QED
      BY <1>5, <3>1, <3>2 DEF SegmentMoves
  <2>4. r \in 0..11
    BY <1>0, <2>1
  <2> HIDE DEF dst, src, r
  <2>5. cell \in OperandCells /\ M!WordRegister(r) = PlaceOf(cell, TRUE, TRUE)
    BY <2>4, WordRegisterIs
  <2>6. dst.isWord /\ PlaceOf(cell, TRUE, TRUE) = PlaceOf(cell, dst.isWord, TRUE)
    BY <1>1, <1>5 DEF PlaceOf
  <2> HIDE DEF cell
  <2>7. /\ SourceValue(dst, FromCell(cell, TRUE, TRUE)) = M!Value(PlaceOf(cell, dst.isWord, TRUE))
        /\ dst.isWord => FromCell(cell, TRUE, TRUE).isWord
    BY <1>0, <2>5, CellSource
  <2>8. QED
    BY <2>2, <2>3, <2>5, <2>6, <2>7 DEF dst, src
<1>6. CASE inst.operands \in {"Register_Memory", "Accumulator_Memory"}
  <2> DEFINE k == IF inst.operands = "Register_Memory" THEN inst.reg ELSE 0
             cell == RegisterCell(k)
  <2>1. dst.isWord <=> inst.w = 1
    BY <1>1, <1>6 DEF SegmentMoves
  <2>2. inst.operands = "Register_Memory" => inst.w = 1
    BY <1>0 DEF Deviates
  <2>3. M!SourceNumber(inst) = M!Value(M!Register(k, inst.w))
    BY <1>6, Zenon DEF M!SourceNumber
  <2>4. src \in {FromCell(cell, TRUE, TRUE), FromCell(cell, inst.w = 1, TRUE)}
        /\ (inst.operands = "Register_Memory" => src = FromCell(cell, TRUE, TRUE))
    <3>1. CASE inst.operands = "Register_Memory"
      BY <3>1, Zenon DEF SourceOf, SourceCell, SegmentMoves, MemorySources, GetRegister
    <3>2. CASE inst.operands = "Accumulator_Memory"
      BY <3>2, Zenon DEF SourceOf, SourceCell, SegmentMoves, MemorySources, AX
    <3>3. QED
      BY <1>6, <3>1, <3>2
  <2>5. k \in 0..7 /\ k \in 0..11 /\ (inst.w = 0 => k = 0)
    BY <1>0, <2>2
  <2> HIDE DEF dst, src, k
  <2>6. cell \in OperandCells /\ cell.inMemory = FALSE
    BY <2>5, WordRegisterIs, CellShape
  <2>7. M!Register(k, inst.w) = PlaceOf(cell, dst.isWord, TRUE)
    BY <1>0, <2>1, <2>5, CellShape DEF M!Register, M!WordRegister, PlaceOf
  <2> HIDE DEF cell
  <2>8. /\ SourceValue(dst, FromCell(cell, TRUE, TRUE)) = M!Value(PlaceOf(cell, dst.isWord, TRUE))
        /\ dst.isWord => FromCell(cell, TRUE, TRUE).isWord
        /\ SourceValue(dst, FromCell(cell, inst.w = 1, TRUE)) = M!Value(PlaceOf(cell, dst.isWord, TRUE))
        /\ dst.isWord => FromCell(cell, inst.w = 1, TRUE).isWord
    BY <1>0, <2>1, <2>6, CellSource
  <2>9. QED
    BY <2>3, <2>4, <2>7, <2>8 DEF dst, src
<1>7. CASE inst.operands \in MemorySources
  <2> DEFINE cell == MemoryCell(EffectiveAddress(inst))
  <2>1. dst.isWord <=> inst.w = 1
    BY <1>1, <1>7 DEF SegmentMoves, MemorySources
  <2>2. M!SourceNumber(inst) = M!Value(M!Memory(M!EffectiveAddr(inst), inst.w))
    BY <1>7, Zenon DEF M!SourceNumber, MemorySources
  <2>3. inst.s = 0
    BY <1>0, <1>7, InstructionShape DEF MemorySources
  <2>4. src \in {FromCell(cell, ImmediateIsWord(inst), TRUE), FromCell(cell, inst.w = 1, TRUE)}
    <3>1. SourceCell(inst) = cell
      BY <1>7, Zenon DEF SourceCell, MemorySources
    <3>2. src \in {FromCell(SourceCell(inst), ImmediateIsWord(inst), TRUE),
                   FromCell(SourceCell(inst), inst.w = 1, TRUE)}
      BY <1>7, Zenon DEF SourceOf, SegmentMoves, MemorySources
    <3>3. QED
      BY <3>1, <3>2
  <2>5. /\ cell \in OperandCells
        /\ M!Memory(M!EffectiveAddr(inst), inst.w) =
              IF inst.w = 1 THEN PlaceOf(cell, TRUE, TRUE) ELSE PlaceOf(cell, FALSE, TRUE)
    BY <1>7, MemoryPlace DEF UsesMemory
  <2> HIDE DEF dst, src, cell
  <2>6. M!Memory(M!EffectiveAddr(inst), inst.w) = PlaceOf(cell, dst.isWord, TRUE)
    BY <1>0, <2>1, <2>5 DEF PlaceOf
  <2>7. ImmediateIsWord(inst) \in BOOLEAN /\ (ImmediateIsWord(inst) <=> inst.w = 1)
    BY <2>3 DEF ImmediateIsWord
  <2>8. /\ SourceValue(dst, FromCell(cell, ImmediateIsWord(inst), TRUE))
             = M!Value(PlaceOf(cell, dst.isWord, TRUE))
        /\ dst.isWord => FromCell(cell, ImmediateIsWord(inst), TRUE).isWord
        /\ SourceValue(dst, FromCell(cell, inst.w = 1, TRUE)) = M!Value(PlaceOf(cell, dst.isWord, TRUE))
        /\ dst.isWord => FromCell(cell, inst.w = 1, TRUE).isWord
    BY <1>0, <2>1, <2>5, <2>7, CellSource
  <2>9. QED
    BY <2>2, <2>4, <2>6, <2>8 DEF dst, src
<1>8. QED
  BY <1>2, <1>3, <1>4, <1>5, <1>6, <1>7, InstructionTypes
     DEF Operands, OperandsReady, UnsupportedOperands, MemorySources, SegmentMoves

-----------------------------------------------------------------------------
(***************************************************************************)
(* Flags: the bits of FLAGS that the six calls of setFlag leave set are    *)
(* the flags of the exact result.                                          *)
(***************************************************************************)
\* The bits of b among those of T.
Ones(b, T) == {bit \in T : (b \div bit) % 2 = 1}

LEMMA OneMoreBit ==
    ASSUME NEW b \in Byte, NEW T, IsFiniteSet(Ones(b, T)), NEW bit \in Nat \ {0}, bit \notin T
    PROVE  /\ IsFiniteSet(Ones(b, T \cup {bit}))
           /\ Cardinality(Ones(b, T \cup {bit})) = Cardinality(Ones(b, T)) + ((b \div bit) % 2)
<1>1. (b \div bit) % 2 \in {0, 1}
  BY DEF Byte
<1>2. bit \notin Ones(b, T) /\ Cardinality(Ones(b, T)) \in Nat
  BY FS_CardinalityType DEF Ones
<1>3. CASE (b \div bit) % 2 = 1
  <2>1. Ones(b, T \cup {bit}) = Ones(b, T) \cup {bit}
    BY <1>3 DEF Ones
  <2>2. /\ IsFiniteSet(Ones(b, T) \cup {bit})
        /\ Cardinality(Ones(b, T) \cup {bit}) = Cardinality(Ones(b, T)) + 1
    BY <1>2, FS_AddElement
  <2>3. QED
    BY <1>3, <2>1, <2>2
<1>4. CASE (b \div bit) % 2 = 0
  <2>1. Ones(b, T \cup {bit}) = Ones(b, T)
    BY <1>4 DEF Ones
  <2>2. QED
    BY <1>2, <1>4, <2>1
<1>5. QED
  BY <1>1, <1>3, <1>4

\* Adding up the shifted values, as intrin_numberOfSetBits of a byte is modelled,
\* is counting the bits that are set, as far as it matters for the parity.
LEMMA ParityIs ==
    ASSUME NEW b \in Byte
    PROVE  EvenParity(b) <=> Cardinality(M!SetBits(b)) % 2 = 0
<1> DEFINE S0 == {}
           S1 == S0 \cup {1}
           S2 == S1 \cup {2}
           S3 == S2 \cup {4}
           S4 == S3 \cup {8}
           S5 == S4 \cup {16}
           S6 == S5 \cup {32}
           S7 == S6 \cup {64}
           S8 == S7 \cup {128}
<1>0. IsFiniteSet(Ones(b, S0)) /\ Cardinality(Ones(b, S0)) = 0
  <2>1. Ones(b, S0) = {}
    BY DEF Ones
  <2>2. QED
    BY <2>1, FS_EmptySet
<1>1. /\ IsFiniteSet(Ones(b, S1))
      /\ Cardinality(Ones(b, S1)) = Cardinality(Ones(b, S0)) + ((b \div 1) % 2)
  BY <1>0, OneMoreBit
<1>2. /\ IsFiniteSet(Ones(b, S2))
      /\ Cardinality(Ones(b, S2)) = Cardinality(Ones(b, S1)) + ((b \div 2) % 2)
  BY <1>1, OneMoreBit
<1>3. /\ IsFiniteSet(Ones(b, S3))
      /\ Cardinality(Ones(b, S3)) = Cardinality(Ones(b, S2)) + ((b \div 4) % 2)
  BY <1>2, OneMoreBit
<1>4. /\ IsFiniteSet(Ones(b, S4))
      /\ Cardinality(Ones(b, S4)) = Cardinality(Ones(b, S3)) + ((b \div 8) % 2)
  BY <1>3, OneMoreBit
<1>5. /\ IsFiniteSet(Ones(b, S5))
      /\ Cardinality(Ones(b, S5)) = Cardinality(Ones(b, S4)) + ((b \div 16) % 2)
  BY <1>4, OneMoreBit
<1>6. /\ IsFiniteSet(Ones(b, S6))
      /\ Cardinality(Ones(b, S6)) = Cardinality(Ones(b, S5)) + ((b \div 32) % 2)
  BY <1>5, OneMoreBit
<1>7. /\ IsFiniteSet(Ones(b, S7))
      /\ Cardinality(Ones(b, S7)) = Cardinality(Ones(b, S6)) + ((b \div 64) % 2)
  BY <1>6, OneMoreBit
<1>8. /\ IsFiniteSet(Ones(b, S8))
      /\ Cardinality(Ones(b, S8)) = Cardinality(Ones(b, S7)) + ((b \div 128) % 2)
  BY <1>7, OneMoreBit
<1>9. M!SetBits(b) = Ones(b, S8)
  BY DEF M!SetBits, Ones
<1>10. b \div 1 = b /\ b \in Nat
  BY DEF Byte
<1>11. Cardinality(M!SetBits(b)) = (b % 2) + ((b \div 2) % 2) + ((b \div 4) % 2) + ((b \div 8) % 2)
          + ((b \div 16) % 2) + ((b \div 32) % 2) + ((b \div 64) % 2) + ((b \div 128) % 2)
  <2> HIDE DEF S0, S1, S2, S3, S4, S5, S6, S7, S8
  <2>1. QED
    BY <1>0, <1>1, <1>2, <1>3, <1>4, <1>5, <1>6, <1>7, <1>8, <1>9, <1>10
<1>12. ASSUME NEW a0 \in Nat, NEW a1 \in Nat, NEW a2 \in Nat, NEW a3 \in Nat,
              NEW a4 \in Nat, NEW a5 \in Nat, NEW a6 \in Nat, NEW a7 \in Nat
       PROVE  (a0 + a1 + a2 + a3 + a4 + a5 + a6 + a7) % 2 =
              ((a0 % 2) + (a1 % 2) + (a2 % 2) + (a3 % 2) + (a4 % 2) + (a5 % 2) + (a6 % 2) + (a7 % 2)) % 2
  OBVIOUS
<1>13. QED
  BY <1>10, <1>11, <1>12 DEF EvenParity

CalculatedFlags(type, n, a, b) == IF type = "ADD" THEN AddFlags(n, a, b) ELSE SubFlags(n, a, b)
CalculatedResult(type, n, a, b) == IF type = "ADD" THEN Sum(n, a, b) ELSE Difference(n, a, b)

\* Each flag of emulateAdd and emulateSub is the machine's flag of that name.
LEMMA FlagsAre ==
    ASSUME NEW type \in ArithmeticTypes, NEW n \in Width,
           NEW a \in Nat, a < n, NEW b \in Nat, b < n
    PROVE  LET f == CalculatedFlags(type, n, a, b)
               g == M!FlagsOf(type, n, a, b)
           IN  /\ f \in SixFlags
               /\ f.carry <=> "carry" \in g
               /\ f.parity <=> "parity" \in g
               /\ f.auxCarry <=> "auxCarry" \in g
               /\ f.zero <=> "zero" \in g
               /\ f.sign <=> "sign" \in g
               /\ f.overflow <=> "overflow" \in g
<1> DEFINE f == CalculatedFlags(type, n, a, b)
           g == M!FlagsOf(type, n, a, b)
           r == CalculatedResult(type, n, a, b)
<1>0. f \in SixFlags
  BY FlagsType DEF CalculatedFlags
<1>1. /\ r = M!Exact(type, a, b) % n /\ r \in Nat /\ r < n
      /\ n \div 2 \in Nat /\ n \in Nat
  BY DEF CalculatedResult, Sum, Difference, M!Exact, Width
<1>2. /\ "carry" \in g <=> M!Exact(type, a, b) \notin 0..(n - 1)
      /\ "parity" \in g <=> Cardinality(M!SetBits(r % 256)) % 2 = 0
      /\ "auxCarry" \in g <=> M!Exact(type, a % 16, b % 16) \notin 0..15
      /\ "zero" \in g <=> r = 0
      /\ "sign" \in g <=> M!AsSigned(n, r) < 0
      /\ "overflow" \in g <=> M!Exact(type, M!AsSigned(n, a), M!AsSigned(n, b))
                                 \notin (-(n \div 2))..(n \div 2 - 1)
  <2> DEFINE c == M!Exact(type, a, b) \notin 0..(n - 1)
             p == Cardinality(M!SetBits(r % 256)) % 2 = 0
             x == M!Exact(type, a % 16, b % 16) \notin 0..15
             z == r = 0
             s == M!AsSigned(n, r) < 0
             o == M!Exact(type, M!AsSigned(n, a), M!AsSigned(n, b))
                     \notin (-(n \div 2))..(n \div 2 - 1)
  <2> HIDE DEF r
  <2>1. g = {k \in M!Flag :
               \/ k = "carry" /\ c
               \/ k = "parity" /\ p
               \/ k = "auxCarry" /\ x
               \/ k = "zero" /\ z
               \/ k = "sign" /\ s
               \/ k = "overflow" /\ o}
    BY <1>1, SameHelpers DEF M!FlagsOf
  <2> HIDE DEF g, c, p, x, z, s, o
  <2>2. /\ "carry" \in g <=> c
        /\ "parity" \in g <=> p
        /\ "auxCarry" \in g <=> x
        /\ "zero" \in g <=> z
        /\ "sign" \in g <=> s
        /\ "overflow" \in g <=> o
    BY <2>1 DEF M!Flag
  <2>3. QED
    BY <2>2, Zenon DEF c, p, x, z, s, o
<1>3. f.carry <=> "carry" \in g
  <2>1. f.carry <=> IF type = "ADD" THEN a + b >= n ELSE a < b
    BY AddFlagsAreExact, SubFlagsAreExact DEF CalculatedFlags
  <2>2. M!Exact(type, a, b) = (IF type = "ADD" THEN a + b ELSE a - b)
    BY DEF M!Exact
  <2>3. QED
    BY <1>1, <1>2, <2>1, <2>2
<1>4. f.parity <=> "parity" \in g
  <2>1. f.parity <=> EvenParity(LowPart(r))
    BY DEF CalculatedFlags, CalculatedResult, AddFlags, SubFlags
  <2>2. LowPart(r) = r % 256 /\ r % 256 \in Byte
    BY <1>1 DEF LowPart, Byte
  <2>3. EvenParity(r % 256) <=> Cardinality(M!SetBits(r % 256)) % 2 = 0
    BY <2>2, ParityIs
  <2> HIDE DEF f, g, r
  <2>4. QED
    BY <1>2, <2>1, <2>2, <2>3
<1>5. f.auxCarry <=> "auxCarry" \in g
  <2>1. f.auxCarry <=> IF type = "ADD" THEN (a % 16) + (b % 16) > 15 ELSE (a % 16) - (b % 16) < 0
    BY DEF CalculatedFlags, AddFlags, SubFlags
  <2>2. a % 16 \in 0..15 /\ b % 16 \in 0..15
    OBVIOUS
  <2>3. M!Exact(type, a % 16, b % 16) =
           (IF type = "ADD" THEN (a % 16) + (b % 16) ELSE (a % 16) - (b % 16))
    BY Zenon DEF M!Exact
  <2> HIDE DEF f, g
  <2>4. QED
    BY <1>2, <2>1, <2>2, <2>3
<1>6. f.zero <=> "zero" \in g
  <2>1. f.zero <=> r = 0
    BY DEF CalculatedFlags, CalculatedResult, AddFlags, SubFlags
  <2>2. QED
    BY <1>2, <2>1
<1>7. f.sign <=> "sign" \in g
  <2>1. f.sign <=> IsSignedBitSet(r, n)
    BY DEF CalculatedFlags, CalculatedResult, AddFlags, SubFlags
  <2>2. IsSignedBitSet(r, n) <=> M!AsSigned(n, r) < 0
    <3> HIDE DEF r
    <3>1. QED
      BY <1>1 DEF IsSignedBitSet, M!AsSigned
  <2>3. QED
    BY <1>2, <2>1, <2>2
<1>8. f.overflow <=> "overflow" \in g
  <2>1. f.overflow <=> OutOfRange(n, IF type = "ADD" THEN AsSigned(n, a) + AsSigned(n, b)
                                                     ELSE AsSigned(n, a) - AsSigned(n, b))
    BY AddFlagsAreExact, SubFlagsAreExact DEF CalculatedFlags
  <2>2. /\ M!AsSigned(n, a) = AsSigned(n, a) /\ AsSigned(n, a) \in Int
        /\ M!AsSigned(n, b) = AsSigned(n, b) /\ AsSigned(n, b) \in Int
    BY <1>1 DEF AsSigned, M!AsSigned
  <2>3. M!Exact(type, M!AsSigned(n, a), M!AsSigned(n, b)) =
           (IF type = "ADD" THEN AsSigned(n, a) + AsSigned(n, b) ELSE AsSigned(n, a) - AsSigned(n, b))
    BY <2>2 DEF M!Exact
  <2> HIDE DEF f, g
  <2>4. QED
    BY <1>1, <1>2, <2>1, <2>2, <2>3 DEF OutOfRange
<1>9. QED
  BY <1>0, <1>3, <1>4, <1>5, <1>6, <1>7, <1>8

\* FlagsOfMachine, of FLAGS given as an argument.
FlagsFrom(flags) == {f \in DOMAIN FlagBits : IsFlagSet(flags, FlagBits[f])}

LEMMA FlagsFromBits ==
    /\ FlagsOfMachine = FlagsFrom(registers[FLAGS])
    /\ FlagsOfMachine' = FlagsFrom(registers'[FLAGS])
    /\ \A flags : /\ FlagsFrom(flags) \subseteq M!Flag
                  /\ "carry" \in FlagsFrom(flags) <=> IsFlagSet(flags, CPU_FLAG_CARRY_FLAG)
                  /\ "parity" \in FlagsFrom(flags) <=> IsFlagSet(flags, CPU_FLAG_PARITY_FLAG)
                  /\ "auxCarry" \in FlagsFrom(flags) <=> IsFlagSet(flags, CPU_FLAG_AUX_CARRY_FLAG)
                  /\ "zero" \in FlagsFrom(flags) <=> IsFlagSet(flags, CPU_FLAG_ZERO_FLAG)
                  /\ "sign" \in FlagsFrom(flags) <=> IsFlagSet(flags, CPU_FLAG_SIGN_FLAG)
                  /\ "overflow" \in FlagsFrom(flags) <=> IsFlagSet(flags, CPU_FLAG_OVERFLOW_FLAG)
<1>1. /\ FlagsOfMachine = FlagsFrom(registers[FLAGS])
      /\ FlagsOfMachine' = FlagsFrom(registers'[FLAGS])
  BY Zenon DEF FlagsOfMachine, FlagsFrom, FLAGS
<1>2. /\ DOMAIN FlagBits = M!Flag
      /\ FlagBits["carry"] = CPU_FLAG_CARRY_FLAG /\ FlagBits["parity"] = CPU_FLAG_PARITY_FLAG
      /\ FlagBits["auxCarry"] = CPU_FLAG_AUX_CARRY_FLAG /\ FlagBits["zero"] = CPU_FLAG_ZERO_FLAG
      /\ FlagBits["sign"] = CPU_FLAG_SIGN_FLAG /\ FlagBits["overflow"] = CPU_FLAG_OVERFLOW_FLAG
  BY DEF FlagBits, M!Flag
<1>3. QED
  BY <1>1, <1>2 DEF FlagsFrom, M!Flag

\* FLAGS after an arithmetic instruction holds the machine's flags.
LEMMA FlagsAfter ==
    ASSUME NEW type \in ArithmeticTypes, NEW n \in Width,
           NEW a \in Nat, a < n, NEW b \in Nat, b < n, NEW flags \in Word
    PROVE  FlagsFrom(SetFlags(flags, CalculatedFlags(type, n, a, b))) = M!FlagsOf(type, n, a, b)
<1> DEFINE f == CalculatedFlags(type, n, a, b)
           h == FlagsFrom(SetFlags(flags, f))
           g == M!FlagsOf(type, n, a, b)
<1>1. /\ f \in SixFlags
      /\ f.carry <=> "carry" \in g
      /\ f.parity <=> "parity" \in g
      /\ f.auxCarry <=> "auxCarry" \in g
      /\ f.zero <=> "zero" \in g
      /\ f.sign <=> "sign" \in g
      /\ f.overflow <=> "overflow" \in g
  BY FlagsAre
<1> HIDE DEF f
<1>2. /\ IsFlagSet(SetFlags(flags, f), CPU_FLAG_CARRY_FLAG) <=> f.carry
      /\ IsFlagSet(SetFlags(flags, f), CPU_FLAG_PARITY_FLAG) <=> f.parity
      /\ IsFlagSet(SetFlags(flags, f), CPU_FLAG_AUX_CARRY_FLAG) <=> f.auxCarry
      /\ IsFlagSet(SetFlags(flags, f), CPU_FLAG_ZERO_FLAG) <=> f.zero
      /\ IsFlagSet(SetFlags(flags, f), CPU_FLAG_SIGN_FLAG) <=> f.sign
      /\ IsFlagSet(SetFlags(flags, f), CPU_FLAG_OVERFLOW_FLAG) <=> f.overflow
  BY <1>1, SetFlagsExact
<1>3. /\ "carry" \in h <=> "carry" \in g
      /\ "parity" \in h <=> "parity" \in g
      /\ "auxCarry" \in h <=> "auxCarry" \in g
      /\ "zero" \in h <=> "zero" \in g
      /\ "sign" \in h <=> "sign" \in g
      /\ "overflow" \in h <=> "overflow" \in g
  BY <1>1, <1>2, FlagsFromBits
<1>4. h \subseteq M!Flag /\ g \subseteq M!Flag
  BY FlagsFromBits DEF M!FlagsOf
<1> HIDE DEF h, g
<1>5. h = g
  <2>1. \A x \in M!Flag : x \in h <=> x \in g
    BY <1>3 DEF M!Flag
  <2>2. QED
    BY <1>4, <2>1
<1>6. QED
  BY <1>5 DEF f, g, h

-----------------------------------------------------------------------------
(***************************************************************************)
(* Steps: each action of the emulator is an action of the machine.         *)
(***************************************************************************)

\* The bytes are the same when the operand registers and the memory are.
LEMMA SameCells ==
    ASSUME \A r \in 0..11 : registers'[r] = registers[r],
           \A a \in Address : memory'[a] = memory[a]
    PROVE  CellsOfMachine' = CellsOfMachine
<1> DEFINE old == CellsFrom(registers, memory)
           new == CellsFrom(registers', memory')
<1>1. old = [l \in Places |-> old[l]] /\ new = [l \in Places |-> new[l]]
  BY CellAt
<1>2. ASSUME NEW l \in Places PROVE new[l] = old[l]
  <2>1. CASE \E a \in Address : l = <<"memory", a>>
    <3>1. PICK a \in Address : l = M!MemoryByte(a)
      BY <2>1, LocationShape
    <3>2. QED
      BY <3>1, CellAt
  <2>2. CASE \E k \in 0..23 : l = <<"register", k>>
    <3>1. PICK k \in 0..23 : l = <<"register", k>>
      BY <2>2
    <3>2. k \div 2 \in 0..11 /\ (k = 2 * (k \div 2) + 0 \/ k = 2 * (k \div 2) + 1)
      BY <3>1
    <3>3. l = M!RegisterByte(k \div 2, 0) \/ l = M!RegisterByte(k \div 2, 1)
      BY <3>1, <3>2, LocationShape
    <3>4. QED
      BY <3>2, <3>3, CellAt
  <2>3. QED
    BY <2>1, <2>2 DEF Places
<1>3. QED
  <2> HIDE DEF old, new
  <2>1. new = old
    BY <1>1, <1>2
  <2>2. QED
    BY <2>1, CellsBeforeAndAfter DEF old, new

\* The machine's ip is IP, and both wrap.
LEMMA ContinueIs ==
    ASSUME TypeOK, NEW inst \in Instruction, NEW delta \in Int,
           registers'[IP] = ToU16(registers[IP] + delta + inst.byteCount)
    PROVE  M!Continue(inst, delta)
<1>1. registers[IP] \in Int /\ inst.byteCount \in Int
  BY InstructionTypes DEF TypeOK, RegisterType, Word, IP
<1>2. registers[IP] + delta + inst.byteCount = registers[IP] + inst.byteCount + delta
  BY <1>1
<1>3. QED
  BY <1>2 DEF M!Continue, ToU16, IP

\* What the machine sees of a move or an arithmetic instruction.
LEMMA OperandStepIs ==
    ASSUME TypeOK, NEW inst \in Instruction, ~Deviates(inst),
           EmulateMov(inst) \/ EmulateAdd(inst) \/ EmulateSub(inst)
    PROVE  /\ M!Accessible(inst) /\ inst.operands \notin UnsupportedOperands
           /\ M!Continue(inst, 0)
           /\ program' = program /\ status' = status
           /\ registers'[FLAGS] = FlagsWritten(inst)
           /\ Written(inst) = Read(DestCell(inst)) => CellsOfMachine' = CellsOfMachine
           /\ \A v : /\ Fits(DestOf(inst), v)
                     /\ Written(inst) = WithPart(DestOf(inst), Read(DestCell(inst)), v)
                     => CellsOfMachine' = M!CellsWith(M!Target(inst), v)
<1>1. ~WritesOddSegment(inst)
  BY DEF Deviates, WritesOddSegment, SegmentMoves
<1>2. /\ OperandsReady(inst) /\ inst.operands # "ShortLabel"
      /\ DestOf(inst) \in Dest
      /\ Written(inst) \in Word /\ FlagsWritten(inst) \in Word
      /\ Effect(inst, Written(inst), FlagsWritten(inst))
      /\ status' = status /\ program' = program
  BY <1>1, OperandStep
<1>3. /\ \A r \in 0..11 : registers'[r] =
            IF DestCell(inst) = RegisterCell(r) THEN Written(inst) ELSE registers[r]
      /\ registers'[IP] = ToU16(registers[IP] + inst.byteCount)
      /\ registers'[FLAGS] = FlagsWritten(inst)
      /\ \A a \in Address : memory'[a] =
            IF DestCell(inst) = MemoryCell(a) THEN LowPart(Written(inst))
            ELSE IF DestCell(inst) = MemoryCell(a - 1) THEN HighPart(Written(inst)) ELSE memory[a]
  BY <1>1, <1>2, EffectByByte
<1>4. /\ DestCell(inst) \in OperandCells
      /\ DestCell(inst).inMemory /\ ~DestOf(inst).isWord => DestOf(inst).isLow
      /\ M!Target(inst) = PlaceOf(DestCell(inst), DestOf(inst).isWord, DestOf(inst).isLow)
  BY <1>2, TargetIs
<1>5. M!Accessible(inst) /\ inst.operands \notin UnsupportedOperands
  BY <1>2, AddressIs DEF OperandsReady
<1>6. M!Continue(inst, 0)
  <2>1. registers[IP] \in Int /\ inst.byteCount \in Int
    BY InstructionTypes DEF TypeOK, RegisterType, Word, IP
  <2>2. registers[IP] + inst.byteCount = registers[IP] + 0 + inst.byteCount
    BY <2>1
  <2>3. QED
    BY <1>3, <2>2, ContinueIs
<1>7. ASSUME Written(inst) = Read(DestCell(inst)) PROVE CellsOfMachine' = CellsOfMachine
  <2>1. \A r \in 0..11 : registers'[r] = registers[r]
    BY <1>3, <1>7, CellShape DEF Read
  <2>2. \A a \in Address : memory'[a] = memory[a]
    <3> SUFFICES ASSUME NEW a \in Address PROVE memory'[a] = memory[a]
      OBVIOUS
    <3>1. CASE DestCell(inst) = MemoryCell(a)
      <4>1. a + 1 \in Address
        BY <1>4, <3>1, CellShape DEF OperandCells
      <4>2. memory[a] \in Byte /\ memory[a + 1] \in Byte
        BY <4>1, EmulatorConstants DEF TypeOK, Address
      <4>3. Read(DestCell(inst)) = CombineWord(memory[a], memory[a + 1])
        BY <3>1, CellShape DEF Read
      <4>4. QED
        BY <1>3, <1>7, <3>1, <4>2, <4>3, PartsRoundTrip
    <3>2. CASE DestCell(inst) = MemoryCell(a - 1) /\ DestCell(inst) # MemoryCell(a)
      <4>1. a - 1 \in Address
        BY <1>4, <3>2, CellShape DEF OperandCells
      <4>2. memory[a - 1] \in Byte /\ memory[a] \in Byte /\ a - 1 + 1 = a
        BY <4>1, EmulatorConstants DEF TypeOK, Address
      <4>3. Read(DestCell(inst)) = CombineWord(memory[a - 1], memory[a])
        BY <3>2, <4>2, CellShape DEF Read
      <4>4. QED
        BY <1>3, <1>7, <3>2, <4>2, <4>3, PartsRoundTrip
    <3>3. QED
      BY <1>3, <3>1, <3>2
  <2>3. QED
    BY <2>1, <2>2, SameCells
<1>8. ASSUME NEW v, Fits(DestOf(inst), v),
             Written(inst) = WithPart(DestOf(inst), Read(DestCell(inst)), v)
      PROVE  CellsOfMachine' = M!CellsWith(M!Target(inst), v)
  <2>1. /\ \A r \in 0..11 : registers'[r] =
             IF DestCell(inst) = RegisterCell(r)
             THEN WithPart(DestOf(inst), Read(DestCell(inst)), v) ELSE registers[r]
        /\ \A a \in Address : memory'[a] =
             IF DestCell(inst) = MemoryCell(a)
             THEN LowPart(WithPart(DestOf(inst), Read(DestCell(inst)), v))
             ELSE IF DestCell(inst) = MemoryCell(a - 1)
             THEN HighPart(WithPart(DestOf(inst), Read(DestCell(inst)), v))
             ELSE memory[a]
    BY <1>3, <1>8
  <2>2. QED
    BY <1>2, <1>4, <1>8, <2>1, CellsWithPlace
<1>9. QED
  BY <1>2, <1>3, <1>5, <1>6, <1>7, <1>8

\* A MOV is a move.
LEMMA MovIsMove ==
    ASSUME TypeOK, NEW inst \in Instruction, ~Deviates(inst), EmulateMov(inst)
    PROVE  M!Move(inst)
<1> DEFINE dst == DestOf(inst)
           src == SourceOf(inst)
           v == SourceValue(dst, src)
<1>1. /\ inst.type = "MOV" /\ OperandsReady(inst) /\ inst.operands # "ShortLabel"
      /\ dst \in Dest /\ src \in Source /\ Read(DestCell(inst)) \in Word
  <2>1. ~WritesOddSegment(inst)
    BY DEF Deviates, WritesOddSegment, SegmentMoves
  <2>2. QED
    BY <2>1, OperandStep DEF EmulateMov
<1>2. v = M!SourceNumber(inst) /\ Fits(dst, v) /\ (dst.isWord => src.isWord)
  BY <1>1, SourceIs, OperandTypes
<1>3. Written(inst) = WithPart(dst, Read(DestCell(inst)), v)
  <2>1. v = IF dst.isWord THEN CombineWord(src.low, src.hi) ELSE SourceByte(src)
    BY <1>2 DEF SourceValue
  <2>2. QED
    BY <1>1, <2>1 DEF Written, MovResult
<1>4. /\ M!Accessible(inst) /\ inst.operands \notin UnsupportedOperands
      /\ M!Continue(inst, 0)
      /\ program' = program /\ status' = status
      /\ registers'[FLAGS] = FlagsWritten(inst)
      /\ CellsOfMachine' = M!CellsWith(M!Target(inst), v)
  BY <1>2, <1>3, OperandStepIs
<1>5. FlagsOfMachine' = FlagsOfMachine
  <2>1. registers'[FLAGS] = registers[FLAGS]
    BY <1>1, <1>4 DEF FlagsWritten
  <2>2. QED
    BY <2>1, FlagsFromBits
<1>6. QED
  BY <1>1, <1>2, <1>4, <1>5 DEF M!Move, UnsupportedOperands

\* An ADD, a SUB or a CMP is a calculation with the same result and flags.
LEMMA ArithmeticIsCalculation ==
    ASSUME TypeOK, NEW inst \in Instruction, ~Deviates(inst),
           EmulateAdd(inst) \/ EmulateSub(inst)
    PROVE  M!Calculate(inst)
<1> DEFINE dst == DestOf(inst)
           cell == Read(DestCell(inst))
           n == Values(dst)
           a == PartOf(dst, cell)
           b == SourceValue(dst, SourceOf(inst))
<1>1. /\ OperandsReady(inst) /\ inst.operands # "ShortLabel"
      /\ dst \in Dest /\ SourceOf(inst) \in Source /\ cell \in Word
      /\ inst.type \in ArithmeticTypes
      /\ EmulateAdd(inst) => inst.type = "ADD"
      /\ EmulateSub(inst) => inst.type \in {"SUB", "CMP"}
  <2>1. ~WritesOddSegment(inst)
    BY DEF Deviates, WritesOddSegment, SegmentMoves
  <2>2. QED
    BY <2>1, OperandStep DEF EmulateAdd, EmulateSub, ArithmeticTypes
<1>2. /\ n \in Width /\ a \in Nat /\ a < n /\ b \in Nat /\ b < n
  BY <1>1, OperandTypes DEF Fits
<1>3. M!NumberOf(inst) = n
  <2>1. dst.isWord <=> (inst.w = 1 \/ inst.operands \in SegmentMoves)
    BY DestFields
  <2>2. M!Width(inst) = 1 <=> (inst.w = 1 \/ inst.operands \in SegmentMoves)
    BY DEF M!Width, M!SegmentOperands, SegmentMoves
  <2>3. QED
    BY <2>1, <2>2 DEF M!NumberOf, Values
<1>4. M!Value(M!Target(inst)) = a
  <2>1. /\ DestCell(inst) \in OperandCells
        /\ DestCell(inst).inMemory /\ ~dst.isWord => dst.isLow
        /\ M!Target(inst) = PlaceOf(DestCell(inst), dst.isWord, dst.isLow)
    BY <1>1, TargetIs
  <2>2. dst.isWord \in BOOLEAN /\ dst.isLow \in BOOLEAN
    BY <1>1 DEF Dest
  <2>3. QED
    BY <2>1, <2>2, ValueOfPlace DEF PartOf
<1>5. M!SourceNumber(inst) = b
  BY <1>1, SourceIs
<1>6. /\ M!Accessible(inst) /\ M!Continue(inst, 0)
      /\ program' = program /\ status' = status
      /\ registers'[FLAGS] = FlagsWritten(inst)
  BY OperandStepIs
<1> DEFINE r == M!Exact(inst.type, a, b) % n
<1>7. r = CalculatedResult(inst.type, n, a, b) /\ r \in Nat /\ r < n
  BY <1>2 DEF CalculatedResult, Sum, Difference, M!Exact, Width
<1>8. CellsOfMachine' = IF inst.type = "CMP" THEN CellsOfMachine
                        ELSE M!CellsWith(M!Target(inst), r)
  <2>1. CASE inst.type = "CMP"
    <3>1. Written(inst) = Read(DestCell(inst))
      BY <2>1 DEF Written, SubStored
    <3>2. QED
      BY <2>1, <3>1, OperandStepIs
  <2>2. CASE inst.type # "CMP"
    <3>1. Written(inst) = WithPart(dst, cell, r)
      <4>1. inst.type = "ADD" \/ inst.type = "SUB"
        BY <1>1, <2>2 DEF ArithmeticTypes
      <4> HIDE DEF r, dst, cell, n, a, b
      <4>2. Written(inst) = WithPart(dst, cell, CalculatedResult(inst.type, n, a, b))
        BY <2>2, <4>1 DEF Written, SubStored, AddResult, SubResult, CalculatedResult, dst, cell, n, a, b
      <4>3. QED
        BY <1>7, <4>2
    <3>2. Fits(dst, r)
      BY <1>7 DEF Fits
    <3>3. QED
      BY <2>2, <3>1, <3>2, OperandStepIs
  <2>3. QED
    BY <2>1, <2>2
<1>9. FlagsOfMachine' = M!FlagsOf(inst.type, n, a, b)
  <2>1. FlagsWritten(inst) = SetFlags(registers[FLAGS], CalculatedFlags(inst.type, n, a, b))
    BY <1>1 DEF FlagsWritten, AddFlagsResult, SubFlagsResult, CalculatedFlags, ArithmeticTypes
  <2>2. registers[FLAGS] \in Word
    BY DEF TypeOK, RegisterType, FLAGS
  <2> HIDE DEF n, a, b
  <2>3. QED
    BY <1>1, <1>2, <1>6, <2>1, <2>2, FlagsAfter, FlagsFromBits
<1>10. QED
  <2> HIDE DEF n, a, b
  <2>1. M!Exact(inst.type, a, b) % n = r
    OBVIOUS
  <2> HIDE DEF r
  <2>2. QED
    BY <1>1, <1>3, <1>4, <1>5, <1>6, <1>8, <1>9, <2>1 DEF M!Calculate, ArithmeticTypes, M!ArithmeticTypes

\* The bits of FLAGS that the jumps test are the machine's flags.
LEMMA FlagIs ==
    /\ "zero" \in FlagsOfMachine <=> IsFlagSet(registers[FLAGS], CPU_FLAG_ZERO_FLAG)
    /\ "parity" \in FlagsOfMachine <=> IsFlagSet(registers[FLAGS], CPU_FLAG_PARITY_FLAG)
    /\ "carry" \in FlagsOfMachine <=> IsFlagSet(registers[FLAGS], CPU_FLAG_CARRY_FLAG)
  BY FlagsFromBits

\* A conditional jump is taken or not as the machine takes it or not.
LEMMA FlagJumpIsJump ==
    ASSUME TypeOK, NEW inst \in Instruction, EmulateFlagJump(inst)
    PROVE  M!Jump(inst) \/ M!FallThrough(inst)
<1> DEFINE delta == JumpDelta(inst, registers)
<1>1. /\ inst.type \in FlagJumps /\ program' = program /\ status' = status
      /\ memory' = memory
  BY DEF EmulateFlagJump
<1>2. JumpRegisters(inst) = registers
  BY <1>1 DEF JumpRegisters, FlagJumps, LoopJumps16
<1>3. /\ delta \in {0, ToI8(inst.data[1])}
      /\ registers'[IP] = ToU16(registers[IP] + delta + inst.byteCount)
      /\ registers'[FLAGS] = registers[FLAGS]
      /\ \A r \in 0..11 : registers'[r] = registers[r]
  BY <1>2, JumpStep
<1>4. ToI8(inst.data[1]) \in Int /\ M!ToI8(inst.data[1]) = ToI8(inst.data[1])
  BY InstructionTypes, SignedTypes, SameHelpers
<1>5. M!Continue(inst, delta)
  BY <1>3, <1>4, ContinueIs
<1>6. CellsOfMachine' = CellsOfMachine /\ FlagsOfMachine' = FlagsOfMachine
  BY <1>1, <1>3, SameCells, FlagsFromBits
<1>7. CASE Taken(inst.type, registers)
  <2>1. M!Continue(inst, M!ToI8(inst.data[1]))
    BY <1>4, <1>5, <1>7 DEF JumpDelta
  <2>2. \/ inst.type = "JE"  /\ "zero" \in FlagsOfMachine
        \/ inst.type = "JNE" /\ "zero" \notin FlagsOfMachine
        \/ inst.type = "JP"  /\ "parity" \in FlagsOfMachine
        \/ inst.type = "JB"  /\ "carry" \in FlagsOfMachine
    BY <1>1, <1>7, FlagIs DEF Taken, FlagJumps
  <2>3. QED
    BY <1>1, <1>6, <2>1, <2>2, Zenon DEF M!Jump
<1>8. CASE ~Taken(inst.type, registers)
  <2>1. M!Continue(inst, 0)
    BY <1>5, <1>8 DEF JumpDelta
  <2>2. \/ inst.type = "JE"  /\ "zero" \notin FlagsOfMachine
        \/ inst.type = "JNE" /\ "zero" \in FlagsOfMachine
        \/ inst.type = "JP"  /\ "parity" \notin FlagsOfMachine
        \/ inst.type = "JB"  /\ "carry" \notin FlagsOfMachine
    BY <1>1, <1>8, FlagIs DEF Taken, FlagJumps
  <2>3. QED
    BY <1>1, <1>6, <2>1, <2>2, Zenon DEF M!FallThrough
<1>9. QED
  BY <1>7, <1>8

\* A loop counts the same cx down, and goes on as long.
LEMMA LoopIsLoop ==
    ASSUME TypeOK, NEW inst \in Instruction, EmulateLoop(inst)
    PROVE  M!Loop(inst)
<1> DEFINE left == ToU16(registers[CX] - 1)
           regs == [registers EXCEPT ![CX] = left]
           delta == JumpDelta(inst, regs)
           dst == [isWord |-> TRUE, isLow |-> TRUE]
<1>1. /\ inst.type \in LoopJumps16 /\ program' = program /\ status' = status
      /\ memory' = memory
  BY DEF EmulateLoop
<1>2. JumpRegisters(inst) = regs
  BY <1>1 DEF JumpRegisters
<1>3. /\ delta \in {0, ToI8(inst.data[1])}
      /\ registers'[IP] = ToU16(registers[IP] + delta + inst.byteCount)
      /\ registers'[FLAGS] = registers[FLAGS]
      /\ \A r \in 0..11 : registers'[r] = regs[r]
  BY <1>2, JumpStep
<1>4. ToI8(inst.data[1]) \in Int /\ M!ToI8(inst.data[1]) = ToI8(inst.data[1])
  BY InstructionTypes, SignedTypes, SameHelpers
<1>5. M!Continue(inst, delta)
  <2>1. delta \in Int
    BY <1>3, <1>4
  <2> HIDE DEF delta
  <2>2. QED
    BY <1>3, <2>1, ContinueIs
<1>6. FlagsOfMachine' = FlagsOfMachine
  BY <1>3, FlagsFromBits
<1>7. /\ RegisterCell(CX) \in OperandCells
      /\ M!WordRegister(1) = PlaceOf(RegisterCell(CX), TRUE, TRUE)
      /\ M!Value(M!WordRegister(1)) = registers[CX]
      /\ registers[CX] \in Word
  <2>1. CX = 1 /\ 1 \in 0..11
    BY DEF CX
  <2>2. registers[1] \in Word
    BY DEF TypeOK, RegisterType
  <2>3. QED
    BY <2>1, <2>2, WordRegisterIs
<1>8. left \in Word /\ left = M!ToU16(M!Value(M!WordRegister(1)) - 1)
  <2>1. registers[CX] - 1 \in Int
    BY <1>7 DEF Word
  <2>2. QED
    BY <1>7, <2>1, PartTypes, SameHelpers
<1>9. CellsOfMachine' = M!CellsWith(M!WordRegister(1), left)
  <2>1. dst \in Dest /\ dst.isWord /\ dst.isLow /\ Fits(dst, left)
    BY <1>8 DEF Dest, Fits, Values, Word
  <2>2. WithPart(dst, Read(RegisterCell(CX)), left) = left
    BY <2>1 DEF WithPart
  <2> HIDE DEF left
  <2>3. \A r \in 0..11 : registers'[r] =
           IF RegisterCell(CX) = RegisterCell(r) THEN left ELSE registers[r]
    <3>1. \A r \in 0..11 : regs[r] = IF r = CX THEN left ELSE registers[r]
      BY DEF TypeOK, RegisterType
    <3>2. QED
      BY <1>3, <3>1, CellShape
  <2>4. \A a \in Address : memory'[a] =
           IF RegisterCell(CX) = MemoryCell(a) THEN LowPart(left)
           ELSE IF RegisterCell(CX) = MemoryCell(a - 1) THEN HighPart(left) ELSE memory[a]
    BY <1>1, CellShape
  <2>5. CellsOfMachine' = M!CellsWith(PlaceOf(RegisterCell(CX), dst.isWord, dst.isLow), left)
    <3> HIDE DEF dst
    <3>1. RegisterCell(CX).inMemory /\ ~dst.isWord => dst.isLow
      BY <2>1
    <3>2. QED
      BY <1>7, <2>1, <2>2, <2>3, <2>4, <3>1, CellsWithPlace
  <2>6. QED
    BY <1>7, <2>5
<1>10. delta = IF left # 0 /\ (inst.type = "LOOP" \/ "zero" \notin FlagsOfMachine)
               THEN M!ToI8(inst.data[1]) ELSE 0
  <2>1. regs[CX] = left /\ regs[FLAGS] = registers[FLAGS]
    BY DEF TypeOK, RegisterType, CX, FLAGS
  <2> HIDE DEF left, regs
  <2>2. Taken(inst.type, regs) <=>
           left # 0 /\ (inst.type = "LOOP" \/ "zero" \notin FlagsOfMachine)
    BY <1>1, <2>1, FlagIs DEF Taken, LoopJumps16
  <2>3. QED
    BY <1>4, <2>2 DEF JumpDelta
<1>11. QED
  <2> HIDE DEF left, delta
  <2>1. inst.type \in {"LOOP", "LOOPNE"}
    BY <1>1 DEF LoopJumps16
  <2>2. QED
    BY <1>1, <1>5, <1>6, <1>8, <1>9, <1>10, <2>1, Zenon DEF M!Loop

\* An address that panics is not accessible to the machine either.
LEMMA EarlyReturnIsFault ==
    ASSUME TypeOK, NEW inst \in Instruction, ~Deviates(inst),
           EmulateUnsupported(inst) \/ PanicOnAddress(inst)
    PROVE  M!Fault(inst) \/ UNCHANGED vars
<1>1. /\ registers' = registers /\ memory' = memory /\ program' = program
  BY EarlyReturn
<1>2. /\ CellsOfMachine' = CellsOfMachine /\ FlagsOfMachine' = FlagsOfMachine
      /\ registers'[IP] = registers[IP]
  BY <1>1, SameCells, FlagsFromBits
<1>3. CASE PanicOnAddress(inst)
  <2>1. ~M!Accessible(inst) /\ status' = "panicked"
    BY <1>3, AddressIs DEF PanicOnAddress
  <2>2. QED
    BY <1>1, <1>2, <2>1 DEF M!Fault, IP
<1>4. CASE EmulateUnsupported(inst) /\ ASSERT_ENABLED
  <2>1. /\ \/ inst.operands \in {"SegReg_Memory16", "Memory_SegReg"}
           \/ inst.type \in M!JumpTypes \ {"JE", "JNE", "JP", "JB", "LOOP", "LOOPNE"}
        /\ status' = "asserted"
    BY <1>4 DEF EmulateUnsupported, Unsupported, UnsupportedOperands, FlagJumps, LoopJumps16,
                JumpTypes, M!JumpTypes
  <2>2. QED
    BY <1>1, <1>2, <2>1 DEF M!Fault, IP
<1>5. CASE EmulateUnsupported(inst) /\ ~ASSERT_ENABLED
  BY <1>1, <1>5 DEF EmulateUnsupported, vars
<1>6. QED
  BY <1>3, <1>4, <1>5

\* The instruction at IP is executed as the machine executes it.
LEMMA ExecutesAsTheMachine ==
    ASSUME TypeOK, NEW inst \in Instruction, ~Deviates(inst), EmulateNext(inst)
    PROVE  M!Execute(inst) \/ UNCHANGED vars
<1>1. CASE EmulateMov(inst)
  BY <1>1, MovIsMove DEF M!Execute
<1>2. CASE EmulateAdd(inst) \/ EmulateSub(inst)
  BY <1>2, ArithmeticIsCalculation DEF M!Execute
<1>3. CASE EmulateFlagJump(inst)
  BY <1>3, FlagJumpIsJump DEF M!Execute
<1>4. CASE EmulateLoop(inst)
  BY <1>4, LoopIsLoop DEF M!Execute
<1>5. CASE EmulateUnsupported(inst) \/ PanicOnAddress(inst)
  BY <1>5, EarlyReturnIsFault DEF M!Execute
<1>6. ~UndefinedRegister(inst)
  BY DEF UndefinedRegister, NoSuchRegister, Deviates, ES, RegisterType
<1>7. QED
  BY <1>1, <1>2, <1>3, <1>4, <1>5, <1>6 DEF EmulateNext

\* When nothing starts at IP for the code, nothing does for the machine.
LEMMA StopIsHalt ==
    ASSUME Stop
    PROVE  M!Halt
<1>1. registers' = registers /\ memory' = memory /\ program' = program /\ status' = "stopped"
  BY DEF Stop
<1>2. /\ CellsOfMachine' = CellsOfMachine /\ FlagsOfMachine' = FlagsOfMachine
      /\ registers'[IP] = registers[IP]
  BY <1>1, SameCells, FlagsFromBits
<1>3. \A i : M!At(i) <=> AtIp(i)
  BY SameHelpers DEF M!At, AtIp, IP
<1>4. QED
  BY <1>1, <1>2, <1>3 DEF Stop, M!Halt, IP

\* createEmulationCtx leaves the machine as it starts: every byte 0, no flag set.
LEMMA InitIsInit ==
    ASSUME Init
    PROVE  M!Init
<1>1. /\ program \in Programs /\ status = "running"
      /\ \A r \in RegisterType : registers[r] = 0
      /\ \A a \in Address : memory[a] = 0
  BY DEF Init
<1>2. CellsOfMachine = [l \in M!Location |-> 0]
  <2> DEFINE c == CellsFrom(registers, memory)
  <2>1. c = [l \in Places |-> c[l]]
    BY CellAt
  <2>2. ASSUME NEW l \in Places PROVE c[l] = 0
    <3>1. CASE \E a \in Address : l = <<"memory", a>>
      <4>1. PICK a \in Address : l = M!MemoryByte(a)
        BY <3>1, LocationShape
      <4>2. QED
        BY <1>1, <4>1, CellAt
    <3>2. CASE \E k \in 0..23 : l = <<"register", k>>
      <4>1. PICK k \in 0..23 : l = <<"register", k>>
        BY <3>2
      <4>2. k \div 2 \in 0..11 /\ (k = 2 * (k \div 2) + 0 \/ k = 2 * (k \div 2) + 1)
        BY <4>1
      <4>3. l = M!RegisterByte(k \div 2, 0) \/ l = M!RegisterByte(k \div 2, 1)
        BY <4>1, <4>2, LocationShape
      <4>4. registers[k \div 2] = 0
        BY <1>1, <4>2 DEF RegisterType
      <4>5. LowPart(0) = 0 /\ HighPart(0) = 0
        BY DEF LowPart, HighPart
      <4>6. QED
        BY <4>2, <4>3, <4>4, <4>5, CellAt
    <3>3. QED
      BY <3>1, <3>2 DEF Places
  <2> HIDE DEF c
  <2>3. c = [l \in Places |-> 0]
    BY <2>1, <2>2
  <2>4. QED
    BY <2>3, CellsBeforeAndAfter, LocationShape DEF c
<1>3. FlagsOfMachine = {}
  <2>1. registers[FLAGS] = 0
    BY <1>1 DEF FLAGS, RegisterType
  <2>2. \A flag \in FlagValues : ~IsFlagSet(0, flag)
    BY FlagsDiffer DEF FlagValues, IsFlagSet
  <2>3. \A f \in M!Flag : f \notin FlagsFrom(0)
    BY <2>2, FlagsAreFlagValues, FlagsFromBits DEF M!Flag
  <2>4. QED
    BY <2>1, <2>3, FlagsFromBits
<1>4. registers[IP] = 0
  BY <1>1 DEF IP, RegisterType
<1>5. QED
  BY <1>1, <1>2, <1>3, <1>4 DEF M!Init, IP

\* Every step of the emulator, but one that executes an instruction that
\* deviates, is a step of the machine or changes nothing: for every program, of
\* whatever length, and every size of the memory (emulateNext, emulateMov,
\* emulateAdd, emulateSub, calcMemoryAddress, nextInst).
THEOREM EmulatorImplementsMachine == Spec => ImplementsMachine
<1> DEFINE A == (\E i \in Current : Deviates(i)) \/ M!Next
<1>1. TypeOK /\ [Next]_vars => [A]_(M!vars)
  <2>1. ASSUME UNCHANGED vars PROVE UNCHANGED M!vars
    <3>1. registers' = registers /\ memory' = memory /\ program' = program /\ status' = status
      BY <2>1 DEF vars
    <3>2. CellsOfMachine' = CellsOfMachine /\ FlagsOfMachine' = FlagsOfMachine
      BY <3>1, SameCells, FlagsFromBits
    <3>3. QED
      BY <3>1, <3>2 DEF M!vars
  <2> SUFFICES ASSUME TypeOK, Next, ~(\E i \in Current : Deviates(i))
               PROVE  M!Next \/ UNCHANGED vars
    BY <2>1
  <2>2. status = "running"
    BY DEF Next
  <2>3. CASE Stop
    BY <2>2, <2>3, StopIsHalt DEF M!Next
  <2>4. CASE \E i \in DOMAIN program : AtIp(i) /\ EmulateNext(program[i])
    <3>1. PICK i \in DOMAIN program : AtIp(i) /\ EmulateNext(program[i])
      BY <2>4
    <3>2. program[i] \in Current /\ program[i] \in Instruction
      BY <3>1 DEF Current, TypeOK
    <3>3. M!Execute(program[i]) \/ UNCHANGED vars
      BY <3>1, <3>2, ExecutesAsTheMachine
    <3>4. M!At(i)
      BY <3>1, SameHelpers DEF M!At, AtIp, IP
    <3>5. QED
      BY <2>2, <3>3, <3>4 DEF M!Next
  <2>5. QED
    BY <2>3, <2>4 DEF Next
<1>2. Init => M!Init
  BY InitIsInit
<1>3. QED
  BY <1>1, <1>2, TypeCorrect, PTL DEF Spec, ImplementsMachine
=============================================================================
