--------------------------- MODULE SharpLcdProofs ---------------------------
(***************************************************************************)
(* Proofs about the memory LCD: what flush() puts on the wire the panel    *)
(* takes off it unchanged, for a panel of any size the one-byte line       *)
(* address allows, and the driver implements the double-buffered Screen.   *)
(***************************************************************************)
EXTENDS SharpLcd, FiniteSetTheorems, TLAPS

LEMMA Sizes ==
  /\ LCD_LINE_BYTES \in Nat \ {0} /\ LCD_HEIGHT \in 1..255
  /\ LCD_WIDTH = 8 * LCD_LINE_BYTES /\ LCD_HEIGHT \in Nat \ {0}
<1>1. /\ LCD_LINE_BYTES \in Nat \ {0} /\ LCD_HEIGHT \in 1..255
      /\ LCD_WIDTH = 8 * LCD_LINE_BYTES
  BY LcdAssumption
<1> QED BY <1>1

-----------------------------------------------------------------------------
(* Bits.                                                                   *)

LEMMA BitIsBit ==
  ASSUME NEW v \in Nat, NEW mask \in Nat \ {0}
  PROVE  Bit(v, mask) \in {0, 1}
BY DEF Bit

\* A byte is the sum of its bits.
LEMMA ByteOfBits ==
  ASSUME NEW v \in Byte
  PROVE  v = 128 * Bit(v, 128) + 64 * Bit(v, 64) + 32 * Bit(v, 32) + 16 * Bit(v, 16)
               + 8 * Bit(v, 8) + 4 * Bit(v, 4) + 2 * Bit(v, 2) + Bit(v, 1)
<1> DEFINE d(n) == v \div n
<1>1. /\ v = 2 * d(2) + Bit(v, 1)
      /\ d(2) = 2 * d(4) + Bit(v, 2)
      /\ d(4) = 2 * d(8) + Bit(v, 4)
      /\ d(8) = 2 * d(16) + Bit(v, 8)
  BY DEF Bit, Byte
<1>2. /\ d(16) = 2 * d(32) + Bit(v, 16)
      /\ d(32) = 2 * d(64) + Bit(v, 32)
      /\ d(64) = 2 * d(128) + Bit(v, 64)
      /\ d(128) = Bit(v, 128)
  BY DEF Bit, Byte
<1>3. /\ d(2) \in Int /\ d(4) \in Int /\ d(8) \in Int /\ d(16) \in Int
      /\ d(32) \in Int /\ d(64) \in Int /\ d(128) \in Int
  BY DEF Byte
<1>4. /\ Bit(v, 128) \in Int /\ Bit(v, 64) \in Int /\ Bit(v, 32) \in Int /\ Bit(v, 16) \in Int
      /\ Bit(v, 8) \in Int /\ Bit(v, 4) \in Int /\ Bit(v, 2) \in Int /\ Bit(v, 1) \in Int
  BY DEF Bit, Byte
<1> HIDE DEF d
<1>5. d(16) = 8 * Bit(v, 128) + 4 * Bit(v, 64) + 2 * Bit(v, 32) + Bit(v, 16)
  BY <1>2, <1>3, <1>4
<1>6. v = 16 * d(16) + 8 * Bit(v, 8) + 4 * Bit(v, 4) + 2 * Bit(v, 2) + Bit(v, 1)
  BY <1>1, <1>3, <1>4
<1> QED BY <1>3, <1>4, <1>5, <1>6

\* The bits of a sum of bits.
LEMMA BitsOfByte ==
  ASSUME NEW b7 \in {0, 1}, NEW b6 \in {0, 1}, NEW b5 \in {0, 1}, NEW b4 \in {0, 1},
         NEW b3 \in {0, 1}, NEW b2 \in {0, 1}, NEW b1 \in {0, 1}, NEW b0 \in {0, 1},
         NEW v, v = 128 * b7 + 64 * b6 + 32 * b5 + 16 * b4 + 8 * b3 + 4 * b2 + 2 * b1 + b0
  PROVE  /\ v \in Byte
         /\ Bit(v, 128) = b7 /\ Bit(v, 64) = b6 /\ Bit(v, 32) = b5 /\ Bit(v, 16) = b4
         /\ Bit(v, 8) = b3 /\ Bit(v, 4) = b2 /\ Bit(v, 2) = b1 /\ Bit(v, 1) = b0
<1>1. v \in Byte
  BY DEF Byte
<1>2. v \div 1 = v
  BY <1>1 DEF Byte
<1>3. v \div 2 = 64 * b7 + 32 * b6 + 16 * b5 + 8 * b4 + 4 * b3 + 2 * b2 + b1
  OBVIOUS
<1>4. v \div 4 = 32 * b7 + 16 * b6 + 8 * b5 + 4 * b4 + 2 * b3 + b2
  OBVIOUS
<1>5. v \div 8 = 16 * b7 + 8 * b6 + 4 * b5 + 2 * b4 + b3
  OBVIOUS
<1>6. v \div 16 = 8 * b7 + 4 * b6 + 2 * b5 + b4
  OBVIOUS
<1>7. v \div 32 = 4 * b7 + 2 * b6 + b5
  OBVIOUS
<1>8. v \div 64 = 2 * b7 + b6
  OBVIOUS
<1>9. v \div 128 = b7
  OBVIOUS
<1> QED BY <1>1, <1>2, <1>3, <1>4, <1>5, <1>6, <1>7, <1>8, <1>9 DEF Bit

\* The panel reads back the address the driver wrote.
LEMMA ReverseTwice ==
  ASSUME NEW v \in Byte
  PROVE  reverse_bits(v) \in Byte /\ reverse_bits(reverse_bits(v)) = v
<1> DEFINE w == reverse_bits(v)
<1>1. /\ Bit(v, 128) \in {0, 1} /\ Bit(v, 64) \in {0, 1} /\ Bit(v, 32) \in {0, 1}
      /\ Bit(v, 16) \in {0, 1} /\ Bit(v, 8) \in {0, 1} /\ Bit(v, 4) \in {0, 1}
      /\ Bit(v, 2) \in {0, 1} /\ Bit(v, 1) \in {0, 1}
  BY BitIsBit DEF Byte
<1>2. w = 128 * Bit(v, 1) + 64 * Bit(v, 2) + 32 * Bit(v, 4) + 16 * Bit(v, 8)
            + 8 * Bit(v, 16) + 4 * Bit(v, 32) + 2 * Bit(v, 64) + Bit(v, 128)
  BY DEF reverse_bits
<1> HIDE DEF w
<1>3. /\ w \in Byte
      /\ Bit(w, 128) = Bit(v, 1) /\ Bit(w, 64) = Bit(v, 2) /\ Bit(w, 32) = Bit(v, 4)
      /\ Bit(w, 16) = Bit(v, 8) /\ Bit(w, 8) = Bit(v, 16) /\ Bit(w, 4) = Bit(v, 32)
      /\ Bit(w, 2) = Bit(v, 64) /\ Bit(w, 1) = Bit(v, 128)
  BY <1>1, <1>2, BitsOfByte
<1>4. reverse_bits(w) = v
  BY <1>1, <1>3, ByteOfBits DEF reverse_bits
<1> QED BY <1>3, <1>4 DEF w

-----------------------------------------------------------------------------
(* Framing.                                                                *)

LEMMA LineNumbers ==
  ASSUME NEW y \in Lines
  PROVE  y \in Int /\ y + 1 \in Byte /\ (y + 1) % 256 = y + 1
BY Sizes DEF Lines, Byte

LEMMA IsItsValues ==
  ASSUME NEW S, NEW T, NEW f \in [S -> T]
  PROVE  f = [x \in S |-> f[x]]
OBVIOUS

LEMMA TimesKeepsOrder ==
  ASSUME NEW a \in Nat, NEW b \in Nat, a <= b, NEW each \in Nat
  PROVE  a * each <= b * each
OBVIOUS

LEMMA DivMod ==
  ASSUME NEW each \in Nat \ {0}, NEW n \in Nat, NEW b \in 0..each - 1
  PROVE  (n * each + b) \div each = n /\ (n * each + b) % each = b
<1> DEFINE a == n * each + b
           q == a \div each
           r == a % each
<1>1. a \in Nat
  OBVIOUS
<1>2. q \in Int /\ r \in 0..each - 1 /\ a = each * q + r
  BY <1>1
<1> HIDE DEF q, r
<1>3. each * (n - q) = r - b
  BY <1>2
<1>4. ~(n - q >= 1)
  <2>1. SUFFICES ASSUME n - q >= 1 PROVE FALSE
    OBVIOUS
  <2>2. each * (n - q) >= each
    BY <1>2, <2>1
  <2> QED BY <1>2, <1>3, <2>2
<1>5. ~(q - n >= 1)
  <2>1. SUFFICES ASSUME q - n >= 1 PROVE FALSE
    OBVIOUS
  <2>2. each * (q - n) >= each
    BY <1>2, <2>1
  <2>3. each * (q - n) = b - r
    BY <1>2, <1>3
  <2> QED BY <1>2, <2>2, <2>3
<1>6. q = n
  BY <1>2, <1>4, <1>5
<1>7. r = b
  BY <1>2, <1>6
<1> QED BY <1>6, <1>7 DEF q, r

\* The dirty lines in their order: each is there, and no others.
Slot(y) == Cardinality({l \in dirty : l < y})

LEMMA DirtyIsFinite ==
  ASSUME dirty \subseteq Lines
  PROVE  /\ IsFiniteSet(dirty) /\ Cardinality(dirty) \in 0..LCD_HEIGHT
         /\ \A y \in dirty : Slot(y) \in 0..Cardinality(dirty) - 1
         /\ \A y, z \in dirty : Slot(y) = Slot(z) => y = z
<1>1. LCD_HEIGHT \in Nat \ {0} /\ Lines = 0..LCD_HEIGHT - 1
  BY Sizes DEF Lines
<1>2. IsFiniteSet(Lines) /\ Cardinality(Lines) = LCD_HEIGHT
  BY <1>1, FS_Interval
<1>3. IsFiniteSet(dirty) /\ Cardinality(dirty) <= LCD_HEIGHT
  BY <1>2, FS_Subset
<1>4. Cardinality(dirty) \in Nat
  BY <1>3, FS_CardinalityType
<1>5. ASSUME NEW S \in SUBSET dirty, NEW y \in S
      PROVE  /\ IsFiniteSet({l \in S : l < y}) /\ Cardinality({l \in S : l < y}) \in Nat
             /\ Cardinality({l \in S : l < y}) < Cardinality(S)
  <2> DEFINE T == {l \in S : l < y}
  <2>1. IsFiniteSet(S)
    BY <1>3, FS_Subset
  <2>2. T \in SUBSET S /\ T # S
    BY <1>1
  <2> HIDE DEF T
  <2>3. IsFiniteSet(T) /\ Cardinality(T) <= Cardinality(S) /\ Cardinality(S) # Cardinality(T)
    BY <2>1, <2>2, FS_Subset
  <2>4. Cardinality(T) \in Nat /\ Cardinality(S) \in Nat
    BY <2>1, <2>3, FS_CardinalityType
  <2>5. Cardinality(T) < Cardinality(S)
    BY <2>3, <2>4
  <2> QED BY <2>3, <2>4, <2>5 DEF T
<1>6. \A y \in dirty : Slot(y) \in 0..Cardinality(dirty) - 1
  <2> TAKE y \in dirty
  <2>1. Slot(y) \in Nat /\ Slot(y) < Cardinality(dirty)
    BY <1>5 DEF Slot
  <2> QED BY <1>4, <2>1
<1>7. ASSUME NEW y \in dirty, NEW z \in dirty, y < z
      PROVE  Slot(y) < Slot(z)
  <2> DEFINE S == {l \in dirty : l < z}
  <2>1. S \in SUBSET dirty /\ y \in S
    BY <1>7
  <2>2. {l \in S : l < y} = {l \in dirty : l < y}
    <3>1. \A l \in dirty : l < y => l < z
      BY <1>1, <1>7
    <3> QED BY <3>1
  <2>3. Cardinality({l \in S : l < y}) < Cardinality(S)
    BY <1>5, <2>1
  <2> QED BY <2>2, <2>3 DEF Slot
<1>8. \A y, z \in dirty : Slot(y) = Slot(z) => y = z
  <2> TAKE y, z \in dirty
  <2>1. Slot(y) \in Int /\ Slot(z) \in Int
    BY <1>4, <1>6
  <2>2. y \in Int /\ z \in Int
    BY <1>1
  <2> QED BY <1>7, <2>1, <2>2
<1> QED BY <1>3, <1>4, <1>6, <1>8

LEMMA DirtyInOrderFacts ==
  ASSUME dirty \subseteq Lines
  PROVE  /\ \A n \in 1..Cardinality(dirty) : DirtyInOrder[n] \in dirty
         /\ \A y \in dirty : \E n \in 1..Cardinality(dirty) : DirtyInOrder[n] = y
<1> DEFINE N == Cardinality(dirty)
           slot == [y \in dirty |-> Slot(y)]
<1>1. /\ IsFiniteSet(dirty) /\ N \in Nat
      /\ \A y \in dirty : Slot(y) \in 0..N - 1
      /\ \A y, z \in dirty : Slot(y) = Slot(z) => y = z
  BY DirtyIsFinite
<1>2. IsFiniteSet(0..N - 1) /\ Cardinality(0..N - 1) = N
  <2>1. IsFiniteSet(0..N - 1) /\ Cardinality(0..N - 1) = IF 0 > N - 1 THEN 0 ELSE N - 1 - 0 + 1
    BY <1>1, FS_Interval
  <2> QED BY <1>1, <2>1
<1>3. slot \in Injection(dirty, 0..N - 1)
  BY <1>1 DEF Injection, IsInjective
<1>4. slot \in Surjection(dirty, 0..N - 1)
  BY <1>2, <1>3, FS_Injection
<1>5. \A k \in 0..N - 1 : \E y \in dirty : Slot(y) = k
  BY <1>4 DEF Surjection
<1>6. \A n \in 1..N : DirtyInOrder[n] = CHOOSE y \in dirty : Slot(y) = n - 1
  BY DEF DirtyInOrder, Slot
<1>7. ASSUME NEW n \in 1..N
      PROVE  DirtyInOrder[n] \in dirty /\ Slot(DirtyInOrder[n]) = n - 1
  <2>1. n - 1 \in 0..N - 1
    BY <1>1
  <2>2. \E y \in dirty : Slot(y) = n - 1
    BY <1>5, <2>1
  <2> QED BY <1>6, <2>2
<1>8. ASSUME NEW y \in dirty
      PROVE  \E n \in 1..N : DirtyInOrder[n] = y
  <2>1. Slot(y) + 1 \in 1..N /\ Slot(y) + 1 - 1 = Slot(y)
    BY <1>1
  <2>2. DirtyInOrder[Slot(y) + 1] = y
    BY <1>1, <1>7, <2>1
  <2> QED BY <2>1, <2>2
<1> QED BY <1>7, <1>8

\* A data update takes no more than the panel keeps, and holds at its place the
\* address and the bytes of each dirty line.
LEMMA UpdateFacts ==
  ASSUME dirty \subseteq Lines, NEW mode
  PROVE  LET tx == UpdateBytes(mode)
             N == Cardinality(dirty)
             each == LCD_LINE_BYTES + 2
         IN  /\ tx = [i \in 1..N * each + 2 |-> tx[i]] /\ N * each + 2 \in 2..TX_MAX
             /\ tx[1] = mode
             /\ \A n \in 0..N - 1 :
                  /\ tx[2 + n * each] = line_address(DirtyInOrder[n + 1] + 1)
                  /\ \A b \in 1..LCD_LINE_BYTES :
                       tx[2 + n * each + b] = fb[DirtyInOrder[n + 1]][b]
<1> DEFINE tx == UpdateBytes(mode)
           N == Cardinality(dirty)
           each == LCD_LINE_BYTES + 2
           size == N * each
           D(k) == DirtyInOrder[(k \div each) + 1]
           Wire(i) == LineBytes(D(i - 2))[((i - 2) % each) + 1]
<1>1. N \in Nat /\ each \in Nat \ {0} /\ LCD_LINE_BYTES \in Nat \ {0} /\ N <= LCD_HEIGHT
        /\ LCD_HEIGHT \in Nat
  BY DirtyIsFinite, Sizes
<1>2. tx = [i \in 1..size + 2 |-> IF i = 1 THEN mode ELSE IF i = size + 2 THEN 0 ELSE Wire(i)]
  BY DEF UpdateBytes
<1>3. size \in Nat /\ size + 2 <= TX_MAX /\ TX_MAX \in Nat
  <2>1. size <= LCD_HEIGHT * each
    BY <1>1
  <2>2. TX_MAX = LCD_HEIGHT * each + 2
    BY <1>1 DEF TX_MAX
  <2> QED BY <1>1, <2>1, <2>2
<1>4. tx[1] = mode
  BY <1>2, <1>3
<1>5. ASSUME NEW n \in 0..N - 1, NEW b \in 0..LCD_LINE_BYTES
      PROVE  tx[2 + n * each + b] = LineBytes(DirtyInOrder[n + 1])[b + 1]
  <2> DEFINE i == 2 + n * each + b
  <2>1. n * each \in Nat /\ n * each + each <= size
    <3>1. n + 1 <= N /\ n \in Nat
      BY <1>1
    <3>2. (n + 1) * each <= N * each
      BY <1>1, <3>1
    <3> QED BY <1>1, <3>1, <3>2
  <2>2. i \in 1..size + 2 /\ i # 1 /\ i # size + 2
    BY <1>1, <1>3, <2>1
  <2>3. i - 2 = n * each + b
    BY <1>1, <2>1
  <2>4. (i - 2) \div each = n /\ (i - 2) % each = b
    <3>1. n \in Nat /\ b \in 0..each - 1
      BY <1>1
    <3>2. (n * each + b) \div each = n /\ (n * each + b) % each = b
      <4> HIDE DEF each
      <4> QED BY <1>1, <3>1, DivMod
    <3> HIDE DEF each, i
    <3> QED BY <2>3, <3>2
  <2>5. Wire(i) = LineBytes(DirtyInOrder[n + 1])[b + 1]
    BY <2>4
  <2> HIDE DEF i, Wire, tx
  <2>6. tx[i] = Wire(i)
    BY <1>2, <2>2
  <2> QED BY <2>5, <2>6 DEF i
<1>6. ASSUME NEW n \in 0..N - 1
      PROVE  tx[2 + n * each] = line_address(DirtyInOrder[n + 1] + 1)
  <2>1. 0 \in 0..LCD_LINE_BYTES /\ 2 + n * each + 0 = 2 + n * each /\ 0 + 1 = 1
          /\ 1 \in 1..LCD_LINE_BYTES + 2
    BY <1>1
  <2>2. tx[2 + n * each + 0] = LineBytes(DirtyInOrder[n + 1])[1]
    BY <1>5, <2>1
  <2> HIDE DEF tx
  <2> QED BY <2>1, <2>2 DEF LineBytes
<1>7. ASSUME NEW n \in 0..N - 1, NEW b \in 1..LCD_LINE_BYTES
      PROVE  tx[2 + n * each + b] = fb[DirtyInOrder[n + 1]][b]
  <2>1. b \in 0..LCD_LINE_BYTES /\ b + 1 \in 1..LCD_LINE_BYTES + 2 /\ b + 1 # 1
          /\ b + 1 # LCD_LINE_BYTES + 2 /\ b + 1 - 1 = b
    BY <1>1
  <2>2. tx[2 + n * each + b] = LineBytes(DirtyInOrder[n + 1])[b + 1]
    BY <1>5, <2>1
  <2> HIDE DEF tx
  <2> QED BY <2>1, <2>2 DEF LineBytes
<1>8. tx = [i \in 1..size + 2 |-> tx[i]] /\ size + 2 \in 2..TX_MAX
  BY <1>2, <1>3
<1> QED BY <1>4, <1>6, <1>7, <1>8

\* The panel keeps all of a transaction that is not too long.
LEMMA WholeTransaction ==
  ASSUME NEW bytes, NEW k \in Nat, k <= TX_MAX, bytes = [i \in 1..k |-> bytes[i]],
         Transaction(bytes)
  PROVE  apply_transaction(bytes) /\ Len(bytes) = k
<1>1. TX_MAX \in Nat
  BY Sizes DEF TX_MAX
<1>2. Len(bytes) = k
  OBVIOUS
<1>3. SubSeq(bytes, 1, k) = bytes
  <2>1. SubSeq(bytes, 1, k) = [i \in 1..k |-> bytes[i]]
    OBVIOUS
  <2> QED BY <2>1
<1>4. (IF Len(bytes) < TX_MAX THEN Len(bytes) ELSE TX_MAX) = k
  BY <1>1, <1>2
<1> QED BY <1>2, <1>3, <1>4 DEF Transaction

\* The panel's decoding of a data update: the dirty lines, as they are in the
\* framebuffer, and nothing else.
LEMMA PanelDecodes ==
  ASSUME dirty \subseteq Lines, fb \in Image, NEW mode \in {128, 192},
         apply_transaction(UpdateBytes(mode)),
         Len(UpdateBytes(mode)) = Cardinality(dirty) * (LCD_LINE_BYTES + 2) + 2
  PROVE  /\ panel_vcom' = (mode = 192)
         /\ img' = [y \in Lines |-> IF y \in dirty THEN fb[y] ELSE img[y]]
<1> DEFINE tx == UpdateBytes(mode)
           N == Cardinality(dirty)
           each == LCD_LINE_BYTES + 2
           At(n) == 2 + n * each
           D(n) == DirtyInOrder[n + 1]
           Sent(n) == [line |-> reverse_bits(tx[At(n)]),
                       data |-> [b \in 1..LCD_LINE_BYTES |-> tx[At(n) + b]]]
<1>1. /\ tx[1] = mode
      /\ \A n \in 0..N - 1 : tx[At(n)] = line_address(D(n) + 1)
      /\ \A n \in 0..N - 1 : \A b \in 1..LCD_LINE_BYTES : tx[At(n) + b] = fb[D(n)][b]
  BY UpdateFacts
<1>2. N \in Nat /\ N <= LCD_HEIGHT /\ LCD_LINE_BYTES \in Nat \ {0} /\ each \in Nat \ {0}
        /\ LCD_HEIGHT \in 1..255
  BY DirtyIsFinite, Sizes
<1>3. {n \in 0..LCD_HEIGHT : Len(tx) - (At(n) - 1) > 1 + LCD_LINE_BYTES} = 0..N - 1
  <2>1. ASSUME NEW n \in 0..LCD_HEIGHT
        PROVE  Len(tx) - (At(n) - 1) > 1 + LCD_LINE_BYTES <=> n \in 0..N - 1
    <3>1. n \in Nat /\ n * each \in Nat /\ N * each \in Nat
      BY <1>2
    <3>2. Len(tx) = N * each + 2
      OBVIOUS
    <3>3. CASE n < N
      <4>1. n + 1 <= N
        BY <1>2, <3>1, <3>3
      <4>2. (n + 1) * each <= N * each
        <5> HIDE DEF each, N
        <5> QED BY <1>2, <3>1, <4>1, TimesKeepsOrder
      <4>3. n * each + each <= N * each
        BY <1>2, <3>1, <4>2
      <4> HIDE DEF tx
      <4> QED BY <1>2, <3>1, <3>2, <3>3, <4>3
    <3>4. CASE n >= N
      <4>1. N * each <= n * each
        <5> HIDE DEF each, N
        <5> QED BY <1>2, <3>1, <3>4, TimesKeepsOrder
      <4> HIDE DEF tx, N
      <4>2. Len(tx) - (At(n) - 1) <= 1
        <5> HIDE DEF each
        <5> QED BY <3>1, <3>2, <4>1
      <4> QED BY <1>2, <3>1, <3>2, <3>4, <4>2
    <3> QED BY <1>2, <3>1, <3>3, <3>4
  <2> HIDE DEF tx, At, N
  <2>2. 0..N - 1 \subseteq 0..LCD_HEIGHT
    BY <1>2
  <2> QED BY <2>1, <2>2
<1>4. UpdateLines(tx) = {Sent(n) : n \in 0..N - 1}
  <2>1. UpdateLines(tx)
          = {Sent(n) : n \in {m \in 0..LCD_HEIGHT : Len(tx) - (At(m) - 1) > 1 + LCD_LINE_BYTES}}
    BY DEF UpdateLines
  <2> QED BY <1>3, <2>1
<1>5. /\ \A n \in 0..N - 1 : D(n) \in dirty
      /\ \A y \in dirty : \E n \in 0..N - 1 : D(n) = y
  <2>1. /\ \A m \in 1..N : DirtyInOrder[m] \in dirty
        /\ \A y \in dirty : \E m \in 1..N : DirtyInOrder[m] = y
    BY DirtyInOrderFacts
  <2>2. \A n \in 0..N - 1 : n + 1 \in 1..N
    BY <1>2
  <2>3. \A m \in 1..N : m - 1 \in 0..N - 1 /\ m - 1 + 1 = m
    BY <1>2
  <2> HIDE DEF N
  <2> QED BY <2>1, <2>2, <2>3
<1>6. ASSUME NEW n \in 0..N - 1
      PROVE  Sent(n).line = D(n) + 1 /\ Sent(n).data = fb[D(n)]
  <2>1. D(n) \in Lines
    BY <1>5
  <2> HIDE DEF D, tx, At
  <2>2. D(n) + 1 \in Byte /\ (D(n) + 1) % 256 = D(n) + 1
    BY <2>1, LineNumbers
  <2>3. reverse_bits(line_address(D(n) + 1)) = D(n) + 1
    BY <2>2, ReverseTwice DEF line_address
  <2>4. fb[D(n)] \in [1..LCD_LINE_BYTES -> Byte]
    BY <2>1 DEF Image, Line
  <2>5. [b \in 1..LCD_LINE_BYTES |-> tx[At(n) + b]] = fb[D(n)]
    <3>1. \A b \in 1..LCD_LINE_BYTES : tx[At(n) + b] = fb[D(n)][b]
      BY <1>1
    <3> DEFINE S == 1..LCD_LINE_BYTES
               f == fb[D(n)]
    <3>2. f = [b \in S |-> f[b]]
      <4>1. f \in [S -> Byte]
        BY <2>4
      <4> HIDE DEF S, f
      <4> QED BY <4>1, IsItsValues
    <3>3. [b \in 1..LCD_LINE_BYTES |-> tx[At(n) + b]]
            = [b \in 1..LCD_LINE_BYTES |-> fb[D(n)][b]]
      BY <3>1
    <3> QED BY <3>2, <3>3
  <2> QED BY <1>1, <2>3, <2>5
<1>7. /\ panel_vcom' = (Bit(mode, 64) = 1)
      /\ img' = IF Bit(mode, 32) = 1 THEN White
                ELSE IF Bit(mode, 128) = 0 THEN img
                ELSE [y \in Lines |->
                        LET new == {u \in UpdateLines(tx) : u.line = y + 1}
                        IN  IF new = {} THEN img[y] ELSE (CHOOSE u \in new : TRUE).data]
  BY <1>1 DEF apply_transaction, LCD_M0_WRITE, LCD_M1_VCOM, LCD_M2_CLEAR
<1>8. Bit(mode, 32) = 0 /\ Bit(mode, 128) = 1 /\ (Bit(mode, 64) = 1 <=> mode = 192)
  BY DEF Bit
<1> DEFINE New(y) == {u \in UpdateLines(tx) : u.line = y + 1}
<1>9. img' = [y \in Lines |-> IF New(y) = {} THEN img[y] ELSE (CHOOSE u \in New(y) : TRUE).data]
  BY <1>7, <1>8
<1> HIDE DEF tx, D, Sent
<1>10. \A y \in Lines : \A u \in New(y) : u.data = fb[y] /\ y \in dirty
  <2> TAKE y \in Lines
  <2> TAKE u \in New(y)
  <2>1. PICK n \in 0..N - 1 : u = Sent(n)
    BY <1>4
  <2>2. D(n) + 1 = y + 1 /\ u.data = fb[D(n)] /\ D(n) \in dirty
    BY <1>5, <1>6, <2>1
  <2>3. D(n) \in Int /\ y \in Int
    BY <2>2, LineNumbers
  <2>4. D(n) = y
    BY <2>2, <2>3
  <2> QED BY <2>2, <2>4
<1>11. \A y \in dirty : New(y) # {}
  <2> TAKE y \in dirty
  <2>1. PICK n \in 0..N - 1 : D(n) = y
    BY <1>5
  <2>2. Sent(n) \in New(y)
    BY <1>4, <1>6, <2>1
  <2> QED BY <2>2
<1> HIDE DEF New
<1>12. \A y \in Lines : (IF New(y) = {} THEN img[y] ELSE (CHOOSE u \in New(y) : TRUE).data)
                          = IF y \in dirty THEN fb[y] ELSE img[y]
  <2> TAKE y \in Lines
  <2>1. CASE New(y) = {}
    BY <1>11, <2>1
  <2>2. CASE New(y) # {}
    <3>1. (CHOOSE u \in New(y) : TRUE) \in New(y)
      BY <2>2
    <3> QED BY <1>10, <2>2, <3>1
  <2> QED BY <2>1, <2>2
<1>13. img' = [y \in Lines |-> IF y \in dirty THEN fb[y] ELSE img[y]]
  BY <1>9, <1>12
<1>14. panel_vcom' = (mode = 192)
  BY <1>7, <1>8
<1> QED BY <1>13, <1>14

-----------------------------------------------------------------------------
(* Pixels.                                                                 *)

\* set_pixel over a set of pixels: those of the panel that are in it get the
\* colour, the others keep theirs.
LEMMA DrawnPixels ==
  ASSUME fb \in Image, NEW px, NEW black \in BOOLEAN
  PROVE  /\ AfterDrawing(px, black) \in Image
         /\ \A x \in 0..LCD_WIDTH - 1, y \in Lines :
              PixelIsBlack(AfterDrawing(px, black), x, y)
                <=> IF <<x, y>> \in px THEN black ELSE PixelIsBlack(fb, x, y)
<1> DEFINE touched == {xy[2] : xy \in px}
           b(y, i, k) == IF Lands(px, y, i, k) THEN Inked(black)
                         ELSE Bit(fb[y][i], PixelMask[k + 1])
           After1(y, i) == 128 * b(y, i, 0) + 64 * b(y, i, 1) + 32 * b(y, i, 2)
                             + 16 * b(y, i, 3) + 8 * b(y, i, 4) + 4 * b(y, i, 5)
                             + 2 * b(y, i, 6) + b(y, i, 7)
           new == AfterDrawing(px, black)
<1>1. new = [y \in Lines |-> IF y \in touched THEN [i \in 1..LCD_LINE_BYTES |-> After1(y, i)]
                             ELSE fb[y]]
  BY DEF AfterDrawing
<1>2. \A k \in 0..7 : PixelMask[k + 1] \in Nat \ {0}
  BY DEF PixelMask
<1>3. ASSUME NEW y \in Lines, NEW i \in 1..LCD_LINE_BYTES, NEW k \in 0..7
      PROVE  b(y, i, k) \in {0, 1}
  <2>1. fb[y] \in [1..LCD_LINE_BYTES -> Byte]
    BY DEF Image, Line
  <2>2. fb[y][i] \in Byte
    BY <2>1
  <2>3. fb[y][i] \in Nat
    BY <2>2 DEF Byte
  <2> QED BY <1>2, <2>3, BitIsBit DEF Inked
<1>4. ASSUME NEW y \in Lines, NEW i \in 1..LCD_LINE_BYTES
      PROVE  /\ After1(y, i) \in Byte
             /\ \A k \in 0..7 : Bit(After1(y, i), PixelMask[k + 1]) = b(y, i, k)
  <2>1. /\ b(y, i, 0) \in {0, 1} /\ b(y, i, 1) \in {0, 1} /\ b(y, i, 2) \in {0, 1}
        /\ b(y, i, 3) \in {0, 1} /\ b(y, i, 4) \in {0, 1} /\ b(y, i, 5) \in {0, 1}
        /\ b(y, i, 6) \in {0, 1} /\ b(y, i, 7) \in {0, 1}
    BY <1>3
  <2> DEFINE v == After1(y, i)
  <2> HIDE DEF b
  <2>2. v = 128 * b(y, i, 0) + 64 * b(y, i, 1) + 32 * b(y, i, 2) + 16 * b(y, i, 3)
              + 8 * b(y, i, 4) + 4 * b(y, i, 5) + 2 * b(y, i, 6) + b(y, i, 7)
    OBVIOUS
  <2> HIDE DEF v
  <2>3. /\ v \in Byte
        /\ Bit(v, 128) = b(y, i, 0) /\ Bit(v, 64) = b(y, i, 1) /\ Bit(v, 32) = b(y, i, 2)
        /\ Bit(v, 16) = b(y, i, 3) /\ Bit(v, 8) = b(y, i, 4) /\ Bit(v, 4) = b(y, i, 5)
        /\ Bit(v, 2) = b(y, i, 6) /\ Bit(v, 1) = b(y, i, 7)
    BY <2>1, <2>2, BitsOfByte
  <2>4. \A k \in 0..7 : Bit(v, PixelMask[k + 1]) = b(y, i, k)
    <3> TAKE k \in 0..7
    <3>1. /\ PixelMask[1] = 128 /\ PixelMask[2] = 64 /\ PixelMask[3] = 32 /\ PixelMask[4] = 16
          /\ PixelMask[5] = 8 /\ PixelMask[6] = 4 /\ PixelMask[7] = 2 /\ PixelMask[8] = 1
      BY DEF PixelMask
    <3>2. k \in {0, 1, 2, 3, 4, 5, 6, 7}
      OBVIOUS
    <3> QED BY <2>3, <3>1, <3>2
  <2> QED BY <2>3, <2>4 DEF v
<1> HIDE DEF b, After1, touched, new
<1>5. new \in Image
  <2>1. \A y \in Lines : fb[y] \in Line
    BY DEF Image
  <2>2. \A y \in Lines : [i \in 1..LCD_LINE_BYTES |-> After1(y, i)] \in Line
    BY <1>4 DEF Line
  <2> QED BY <1>1, <2>1, <2>2 DEF Image
<1>6. ASSUME NEW x \in 0..LCD_WIDTH - 1, NEW y \in Lines
      PROVE  PixelIsBlack(new, x, y)
               <=> IF <<x, y>> \in px THEN black ELSE PixelIsBlack(fb, x, y)
  <2> DEFINE i == (x \div 8) + 1
             k == x % 8
  <2>1. /\ i \in 1..LCD_LINE_BYTES /\ k \in 0..7 /\ 8 * (i - 1) + k = x
        /\ x < LCD_WIDTH /\ y < LCD_HEIGHT
    BY Sizes DEF Lines
  <2>2. /\ PixelIsBlack(new, x, y) <=> Bit(new[y][i], PixelMask[k + 1]) = 0
        /\ PixelIsBlack(fb, x, y) <=> Bit(fb[y][i], PixelMask[k + 1]) = 0
    BY <2>1 DEF PixelIsBlack
  <2> HIDE DEF i, k
  <2>3. CASE y \in touched
    <3>1. new[y][i] = After1(y, i)
      BY <1>1, <2>1, <2>3
    <3>2. Bit(new[y][i], PixelMask[k + 1]) = b(y, i, k)
      BY <1>4, <2>1, <3>1
    <3>3. Lands(px, y, i, k) <=> <<x, y>> \in px
      BY <2>1 DEF Lands
    <3> QED BY <2>2, <3>2, <3>3 DEF b, Inked
  <2>4. CASE y \notin touched
    <3>1. new[y] = fb[y]
      BY <1>1, <2>4
    <3>2. <<x, y>> \notin px
      BY <2>4 DEF touched
    <3> QED BY <2>2, <3>1, <3>2
  <2> QED BY <2>3, <2>4
<1> QED BY <1>5, <1>6 DEF new

-----------------------------------------------------------------------------
(* The driver and its panel.                                               *)

LcdTypeOK ==
  /\ fb \in Image /\ img \in Image
  /\ dirty \subseteq Lines
  /\ vcom \in BOOLEAN /\ panel_vcom \in BOOLEAN
  /\ primed \in BOOLEAN
  /\ draws \in 0..MaxDraws

LcdInv == LcdTypeOK /\ VcomAgrees /\ CleanLinesAgree

LEMMA ImageFacts == White \in Image /\ Black \in Image
<1>1. 255 \in Byte /\ 0 \in Byte
  BY DEF Byte
<1> QED BY <1>1 DEF White, Black, Image, Line

\* A transaction without lines.
LEMMA ModeOnly ==
  ASSUME NEW mode, Transaction(<<mode, 0>>)
  PROVE  /\ panel_vcom' = (Bit(mode, 64) = 1)
         /\ Bit(mode, 32) = 1 => img' = White
         /\ Bit(mode, 32) # 1 /\ Bit(mode, 128) = 0 => img' = img
<1> DEFINE tx == <<mode, 0>>
<1>1. 2 <= TX_MAX
  <2>1. LCD_HEIGHT * (1 + LCD_LINE_BYTES + 1) \in Nat
    BY Sizes
  <2> QED BY <2>1 DEF TX_MAX
<1>2. tx = [i \in 1..2 |-> tx[i]] /\ tx[1] = mode
  OBVIOUS
<1>3. apply_transaction(tx)
  BY <1>1, <1>2, WholeTransaction
<1> HIDE DEF tx
<1> QED BY <1>2, <1>3 DEF apply_transaction, LCD_M0_WRITE, LCD_M1_VCOM, LCD_M2_CLEAR

LEMMA FlushStep ==
  ASSUME LcdInv, flush
  PROVE  img' = fb /\ panel_vcom' = vcom
<1> DEFINE mode == LCD_M0_WRITE + VcomBit(vcom)
<1>1. dirty \subseteq Lines /\ fb \in Image /\ vcom \in BOOLEAN /\ primed
  BY DEF LcdInv, LcdTypeOK, flush
<1>2. mode \in {128, 192} /\ (mode = 192 <=> vcom)
  BY <1>1 DEF VcomBit, LCD_M0_WRITE, LCD_M1_VCOM
<1>3. Transaction(UpdateBytes(mode))
  BY DEF flush, FlushBytes
<1> HIDE DEF mode
<1> DEFINE k == Cardinality(dirty) * (LCD_LINE_BYTES + 2) + 2
<1>4. UpdateBytes(mode) = [i \in 1..k |-> UpdateBytes(mode)[i]] /\ k \in 2..TX_MAX
  BY <1>1, UpdateFacts
<1>5. k \in Nat /\ k <= TX_MAX
  <2>1. TX_MAX \in Int
    BY Sizes DEF TX_MAX
  <2> HIDE DEF k
  <2> QED BY <1>4, <2>1
<1>6. apply_transaction(UpdateBytes(mode)) /\ Len(UpdateBytes(mode)) = k
  <2> HIDE DEF k
  <2> QED BY <1>3, <1>4, <1>5, WholeTransaction
<1>7. /\ panel_vcom' = (mode = 192)
      /\ img' = [y \in Lines |-> IF y \in dirty THEN fb[y] ELSE img[y]]
  BY <1>1, <1>2, <1>6, PanelDecodes
<1>8. \A y \in Lines : (IF y \in dirty THEN fb[y] ELSE img[y]) = fb[y]
  BY <1>1 DEF LcdInv, CleanLinesAgree
<1>9. fb = [y \in Lines |-> fb[y]]
  BY <1>1 DEF Image
<1>10. img' = fb
  BY <1>7, <1>8, <1>9
<1> QED BY <1>1, <1>2, <1>7, <1>10

LEMMA ToggleStep ==
  ASSUME vcom \in BOOLEAN, toggle_vcom
  PROVE  img' = img /\ panel_vcom' = ~vcom /\ vcom' = ~vcom
<1> DEFINE mode == VcomBit(~vcom)
<1>1. mode \in {0, 64} /\ (mode = 64 <=> ~vcom)
  BY DEF VcomBit, LCD_M1_VCOM
<1>2. Transaction(<<mode, 0>>) /\ vcom' = ~vcom
  BY DEF toggle_vcom
<1> HIDE DEF mode
<1>3. (Bit(mode, 64) = 1 <=> mode = 64) /\ Bit(mode, 32) = 0 /\ Bit(mode, 128) = 0
  BY <1>1 DEF Bit
<1> QED BY <1>1, <1>2, <1>3, ModeOnly

LEMMA ClearStep ==
  ASSUME vcom \in BOOLEAN, clear
  PROVE  img' = White /\ panel_vcom' = vcom
<1> DEFINE mode == LCD_M2_CLEAR + VcomBit(vcom)
<1>1. mode \in {32, 96} /\ (mode = 96 <=> vcom)
  BY DEF VcomBit, LCD_M1_VCOM, LCD_M2_CLEAR
<1>2. Transaction(<<mode, 0>>)
  BY DEF clear
<1> HIDE DEF mode
<1>3. (Bit(mode, 64) = 1 <=> mode = 96) /\ Bit(mode, 32) = 1
  BY <1>1 DEF Bit
<1> QED BY <1>1, <1>2, <1>3, ModeOnly

LEMMA DrawStep ==
  ASSUME fb \in Image, NEW c \in Calls, Draw(c)
  PROVE  /\ fb' \in Image
         /\ \A x \in 0..LCD_WIDTH - 1, y \in Lines :
              PixelIsBlack(fb', x, y)
                <=> IF <<x, y>> \in PixelsOf[c] THEN c.black ELSE PixelIsBlack(fb, x, y)
<1>1. c.black \in BOOLEAN
  BY LcdAssumption
<1>2. fb' = AfterDrawing(PixelsOf[c], c.black)
  BY DEF Draw
<1> QED BY <1>1, <1>2, DrawnPixels

LEMMA LcdInitKeeps ==
  ASSUME Init
  PROVE  LcdInv
<1>1. 0 \in 0..MaxDraws
  <2>1. MaxDraws \in Nat
    BY LcdAssumption
  <2> QED BY <2>1
<1> QED BY <1>1, ImageFacts DEF Init, LcdInv, LcdTypeOK, VcomAgrees, CleanLinesAgree

LEMMA LcdStepKeeps ==
  ASSUME LcdInv, [Next]_vars
  PROVE  LcdInv'
<1>0. /\ fb \in Image /\ img \in Image /\ dirty \subseteq Lines /\ vcom \in BOOLEAN
      /\ panel_vcom = vcom /\ primed \in BOOLEAN /\ draws \in 0..MaxDraws
      /\ primed => \A y \in Lines \ dirty : img[y] = fb[y]
  BY DEF LcdInv, LcdTypeOK, VcomAgrees, CleanLinesAgree
<1>1. MaxDraws \in Nat /\ White \in Image
  BY LcdAssumption, ImageFacts
<1>2. CASE fill_white
  BY <1>0, <1>1, <1>2 DEF fill_white, LcdInv, LcdTypeOK, VcomAgrees, CleanLinesAgree
<1>3. ASSUME NEW c \in Calls, Draw(c)
      PROVE  LcdInv'
  <2>1. fb' \in Image
    BY <1>0, <1>3, DrawStep
  <2>2. /\ primed /\ draws < MaxDraws /\ draws' = draws + 1
        /\ dirty' = dirty \cup {y \in Lines : fb'[y] # fb[y]}
        /\ UNCHANGED <<vcom, img, panel_vcom, primed>>
    BY <1>3 DEF Draw
  <2>3. draws' \in 0..MaxDraws
    BY <1>0, <1>1, <2>2
  <2>4. \A y \in Lines \ dirty' : img'[y] = fb'[y]
    BY <1>0, <2>2
  <2>5. dirty' \subseteq Lines
    BY <1>0, <2>2
  <2> QED BY <1>0, <2>1, <2>2, <2>3, <2>4, <2>5
        DEF LcdInv, LcdTypeOK, VcomAgrees, CleanLinesAgree
<1>4. CASE flush
  <2>1. img' = fb /\ panel_vcom' = vcom
    BY <1>4, FlushStep
  <2>2. dirty' = {} /\ UNCHANGED <<fb, vcom, primed, draws>>
    BY <1>4 DEF flush
  <2> QED BY <1>0, <2>1, <2>2 DEF LcdInv, LcdTypeOK, VcomAgrees, CleanLinesAgree
<1>5. CASE toggle_vcom
  <2>1. img' = img /\ panel_vcom' = ~vcom /\ vcom' = ~vcom
    BY <1>0, <1>5, ToggleStep
  <2>2. UNCHANGED <<fb, dirty, primed, draws>>
    BY <1>5 DEF toggle_vcom
  <2> QED BY <1>0, <2>1, <2>2 DEF LcdInv, LcdTypeOK, VcomAgrees, CleanLinesAgree
<1>6. CASE clear
  <2>1. img' = White /\ panel_vcom' = vcom
    BY <1>0, <1>6, ClearStep
  <2>2. fb' = White /\ dirty' = {} /\ primed' = TRUE /\ draws' = 0 /\ vcom' = vcom
    BY <1>6 DEF clear
  <2> QED BY <1>0, <1>1, <2>1, <2>2 DEF LcdInv, LcdTypeOK, VcomAgrees, CleanLinesAgree
<1>7. CASE UNCHANGED vars
  BY <1>0, <1>7 DEF vars, LcdInv, LcdTypeOK, VcomAgrees, CleanLinesAgree
<1> QED BY <1>2, <1>3, <1>4, <1>5, <1>6, <1>7 DEF Next

LEMMA LcdInductive == Spec => []LcdInv
<1>1. Init => LcdInv
  BY LcdInitKeeps
<1>2. LcdInv /\ [Next]_vars => LcdInv'
  BY LcdStepKeeps
<1> QED BY <1>1, <1>2, PTL DEF Spec

\* The framebuffer and the panel hold bytes, whatever is drawn where, and the
\* dirty lines are lines of the panel.
THEOREM LcdTypeCorrect == Spec => []LcdTypeOK
<1>1. LcdInv => LcdTypeOK
  BY DEF LcdInv
<1> QED BY <1>1, LcdInductive, PTL

\* The panel's polarity is the driver's after every transaction, so an update
\* neither undoes nor repeats an inversion.
THEOREM PolarityAgrees == Spec => []VcomAgrees
<1>1. LcdInv => VcomAgrees
  BY DEF LcdInv
<1> QED BY <1>1, LcdInductive, PTL

\* A line that flush() would not send is on the panel as it is in the
\* framebuffer, for a panel of any size and any calls.
THEOREM CleanLinesOnPanel == Spec => []CleanLinesAgree
<1>1. LcdInv => CleanLinesAgree
  BY DEF LcdInv
<1> QED BY <1>1, LcdInductive, PTL

\* Driver, wire and panel together are the double-buffered screen: flush() shows
\* exactly what was drawn, clear() whitens both, toggle_vcom() changes only the
\* polarity, and drawing nothing that is shown.
THEOREM LcdImplementsScreen == Spec => ImplementsScreen
<1>1. Init => Scr!Init
  BY ImageFacts DEF Init, Scr!Init
<1>2. LcdInv /\ [Next]_vars => [Scr!Next]_<<fb, img, panel_vcom>>
  <2> SUFFICES ASSUME LcdInv, [Next]_vars
               PROVE  [Scr!Next]_<<fb, img, panel_vcom>>
    OBVIOUS
  <2>0. fb \in Image /\ vcom \in BOOLEAN /\ panel_vcom = vcom /\ White \in Image
    BY ImageFacts DEF LcdInv, LcdTypeOK, VcomAgrees
  <2>1. CASE fill_white
    BY <2>0, <2>1 DEF fill_white, Scr!Next, Scr!Draw
  <2>2. ASSUME NEW c \in Calls, Draw(c)
        PROVE  [Scr!Next]_<<fb, img, panel_vcom>>
    <3>1. fb' \in Image /\ UNCHANGED <<img, panel_vcom>>
      BY <2>0, <2>2, DrawStep DEF Draw
    <3> QED BY <3>1 DEF Scr!Next, Scr!Draw
  <2>3. CASE flush
    <3>1. img' = fb /\ panel_vcom' = panel_vcom /\ fb' = fb
      BY <2>0, <2>3, FlushStep DEF flush
    <3> QED BY <3>1 DEF Scr!Next, Scr!Update
  <2>4. CASE toggle_vcom
    <3>1. img' = img /\ panel_vcom' = ~panel_vcom /\ fb' = fb
      BY <2>0, <2>4, ToggleStep DEF toggle_vcom
    <3> QED BY <3>1 DEF Scr!Next, Scr!Invert
  <2>5. CASE clear
    <3>1. img' = White /\ panel_vcom' = panel_vcom /\ fb' = White
      BY <2>0, <2>5, ClearStep DEF clear
    <3> QED BY <3>1 DEF Scr!Next, Scr!Wipe
  <2>6. CASE UNCHANGED vars
    BY <2>6 DEF vars
  <2> QED BY <2>1, <2>2, <2>3, <2>4, <2>5, <2>6 DEF Next
<1> QED BY <1>1, <1>2, LcdInductive, PTL DEF Spec, ImplementsScreen, Scr!Spec

\* set_pixel over all calls: a pixel of the panel takes the call's colour if the
\* call sets it, and keeps its own if not.
PixelsAreSet ==
  \A c \in Calls : Draw(c) =>
    \A x \in 0..LCD_WIDTH - 1, y \in Lines :
      PixelIsBlack(fb', x, y)
        <=> IF <<x, y>> \in PixelsOf[c] THEN c.black ELSE PixelIsBlack(fb, x, y)

\* Whatever a call draws, text too, and wherever: its pixels on the panel get the
\* colour and no others change; those off the panel are ignored, not wrapped.
THEOREM PixelsSet == Spec => [][PixelsAreSet]_vars
<1>1. LcdInv /\ [Next]_vars => [PixelsAreSet]_vars
  <2> SUFFICES ASSUME LcdInv
               PROVE  PixelsAreSet
    OBVIOUS
  <2>1. fb \in Image
    BY DEF LcdInv, LcdTypeOK
  <2> QED BY <2>1, DrawStep DEF PixelsAreSet
<1> QED BY <1>1, LcdInductive, PTL DEF Spec

\* The shapes among the calls: DrawsWhatIsAskedFor of them.
Shapes == {"fill_rect", "draw_hline", "fill_dither"}
ShapesAreDrawn ==
  \A c \in Calls : c.op \in Shapes /\ Draw(c) =>
    \A x \in 0..LCD_WIDTH - 1, y \in Lines :
      PixelIsBlack(fb', x, y)
        <=> IF <<x, y>> \in Asked[c] THEN c.black ELSE PixelIsBlack(fb, x, y)

LEMMA ShapePixels ==
  ASSUME NEW c \in Calls, c.op \in Shapes, NEW x \in 0..LCD_WIDTH - 1, NEW y \in Lines
  PROVE  <<x, y>> \in PixelsOf[c] <=> <<x, y>> \in Asked[c]
<1>1. <<x, y>> \in Asked[c] <=> AskedFor(c, x, y)
  BY DEF Asked
<1>2. PixelsOf[c] = Pixels(c)
  BY DEF PixelsOf
<1>3. x < LCD_WIDTH /\ y < LCD_HEIGHT /\ x \in Int /\ y \in Int
  BY Sizes DEF Lines
<1>4. c.y \in Int /\ (c.op = "fill_dither" => c.level \in Int)
  <2>1. c.y \in UInt16 /\ (c.op = "fill_dither" => c.level \in Byte)
    BY LcdAssumption
  <2>2. UInt16 \subseteq Int /\ Byte \subseteq Int
    BY DEF UInt16, Byte
  <2> QED BY <2>1, <2>2
<1>5. CASE c.op = "fill_rect"
  <2>1. Ends(c.x, c.w) /\ Ends(c.y, c.h)
    BY <1>5, LcdAssumption DEF Returns
  <2>2. fill_rect(c.x, c.y, c.w, c.h) = (c.x..c.x + c.w - 1) \X (c.y..c.y + c.h - 1)
    BY <2>1 DEF fill_rect, Counted
  <2> QED BY <1>1, <1>2, <1>5, <2>2 DEF Pixels, AskedFor
<1>6. CASE c.op = "draw_hline"
  <2>1. Ends(c.x, c.w)
    BY <1>6, LcdAssumption DEF Returns
  <2>2. draw_hline(c.x, c.y, c.w) = (c.x..c.x + c.w - 1) \X {c.y}
    BY <2>1 DEF draw_hline, Counted
  <2> QED BY <1>1, <1>2, <1>3, <1>4, <1>6, <2>2 DEF Pixels, AskedFor
<1>7. CASE c.op = "fill_dither"
  BY <1>1, <1>2, <1>3, <1>4, <1>7 DEF Pixels, AskedFor, fill_dither
<1> QED BY <1>5, <1>6, <1>7 DEF Shapes

\* A rectangle, a rule or a dither blackens or whitens the pixels of the panel
\* that are in it, and no others, at any level and at every position and size for
\* which the call returns: a rectangle or a rule that reaches column or row 65536
\* wraps its loop counter and never does (SharpLcd.cpp:193-200).
THEOREM ShapesDrawn == Spec => [][ShapesAreDrawn]_vars
<1>1. LcdInv /\ [Next]_vars => [ShapesAreDrawn]_vars
  <2> SUFFICES ASSUME LcdInv
               PROVE  ShapesAreDrawn
    OBVIOUS
  <2>1. fb \in Image
    BY DEF LcdInv, LcdTypeOK
  <2> SUFFICES ASSUME NEW c \in Calls, c.op \in Shapes, Draw(c),
                      NEW x \in 0..LCD_WIDTH - 1, NEW y \in Lines
               PROVE  PixelIsBlack(fb', x, y)
                        <=> IF <<x, y>> \in Asked[c] THEN c.black ELSE PixelIsBlack(fb, x, y)
    BY DEF ShapesAreDrawn
  <2> QED BY <2>1, DrawStep, ShapePixels
<1> QED BY <1>1, LcdInductive, PTL DEF Spec
=============================================================================
