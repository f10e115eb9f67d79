------------------------------ MODULE EccProofs ------------------------------
(***************************************************************************)
(* What is proved of the error correction experiments, for every field,    *)
(* every number of parity symbols and every size of block and of symbol.   *)
(*                                                                         *)
(* First the blocks, as an image carries them: the packing loses nothing,  *)
(* a mean that has not moved too far is read as its level, and             *)
(* Experiment::Run() counts as errors the cells that would be misread, two *)
(* border cases excepted.                                                  *)
(*                                                                         *)
(* Then the field that rs_init() tabulates, from the one fact that its     *)
(* polynomial is primitive: alpha_to and index_of are each other's         *)
(* inverses, and addition and multiplication obey the laws of a field.     *)
(*                                                                         *)
(* Then EccExperiment: what its blocks tolerate is read back,              *)
(* Berlekamp-Massey's register predicts the syndromes it was run over, the *)
(* decoder corrects up to nroots/2 wrong symbols, and its answer with a    *)
(* locator of full degree is a codeword, however many were wrong.          *)
(***************************************************************************)
EXTENDS EccExperiment, FiniteSetTheorems, WellFoundedInduction, TLAPS

-----------------------------------------------------------------------------
(* Blocks and levels.                                                        *)

\* Four pixels added up.
FourPixels == 0..1020

\* A mean has moved by less than half the distance of two levels, or by half of it upward.
WithinReach(i, sum) == sum - 4 * Level(i) \in -63..64

\* A mean has moved by less than half the distance of two levels.
Near(i, sum) == sum - 4 * Level(i) \in -63..63

\* The least element of a set that has a lower bound in it.
LEMMA MinIs ==
  ASSUME NEW S \in SUBSET Int, NEW k \in S, \A j \in S : k <= j
  PROVE  Min(S) = k
<1> DEFINE IsLeast(x) == x \in S /\ \A y \in S : x <= y
<1>1. IsLeast(k)
  OBVIOUS
<1>2. IsLeast(CHOOSE x \in S : \A y \in S : x <= y)
  BY <1>1
<1>3. \A x : IsLeast(x) => x = k
  BY <1>1
<1> QED
  BY <1>2, <1>3 DEF Min

\* upper_bound() of a mean just above a level is that level.
LEMMA UpperAbove ==
  ASSUME NEW i \in 0..7, NEW sum \in 0..1020,
         sum - 4 * Level(i) \in 1..128
  PROVE  UpperBound(sum) = i
<1> DEFINE S == {k \in 0..8 : k = 8 \/ 4 * Level(k) < sum}
<1>1. S \in SUBSET Int
  OBVIOUS
<1>2. i \in S
  BY DEF Level
<1>3. \A j \in S : i <= j
  BY DEF Level
<1> QED
  BY <1>1, <1>2, <1>3, MinIs DEF UpperBound

\* upper_bound() of a mean at a level or just below is the next darker level, or the end.
LEMMA UpperBelow ==
  ASSUME NEW i \in 0..7, NEW sum \in 0..1020,
         sum - 4 * Level(i) \in -127..0
  PROVE  UpperBound(sum) = i + 1
<1> DEFINE S == {k \in 0..8 : k = 8 \/ 4 * Level(k) < sum}
<1>1. S \in SUBSET Int
  OBVIOUS
<1>2. i + 1 \in S
  BY DEF Level
<1>3. \A j \in S : i + 1 <= j
  BY DEF Level
<1> QED
  BY <1>1, <1>2, <1>3, MinIs DEF UpperBound

\* FindClosest(): a sum of four pixels that is less than 64 below its level, or at most 64
\* above it, is read as that level.
THEOREM NearestLevel ==
  \A i \in 0..7, sum \in FourPixels : WithinReach(i, sum) => FindClosest(sum) = i
<1> SUFFICES ASSUME NEW i \in 0..7, NEW sum \in 0..1020,
                    sum - 4 * Level(i) \in -63..64
             PROVE  FindClosest(sum) = i
  BY DEF FourPixels, WithinReach
<1>1. CASE sum > 4 * Level(i)
  <2>1. UpperBound(sum) = i
    BY <1>1, UpperAbove DEF Level
  <2> QED
    BY <2>1 DEF FindClosest, Level
<1>2. CASE ~(sum > 4 * Level(i))
  <2>1. UpperBound(sum) = i + 1
    BY <1>2, UpperBelow DEF Level
  <2> QED
    BY <2>1 DEF FindClosest, Level
<1> QED
  BY <1>1, <1>2

\* Every sum but zero is within reach of exactly one level.
LEMMA SomeLevel ==
  \A sum \in FourPixels \ {0} : \E i \in 0..7 : WithinReach(i, sum)
<1> TAKE sum \in FourPixels \ {0}
<1>1. sum \in 1..1020
  BY DEF FourPixels
<1> DEFINE i == (1024 - sum) \div 128
<1>2. i \in 0..7 /\ sum - 4 * Level(i) \in -63..64
  BY <1>1 DEF Level
<1> HIDE DEF i
<1>3. WithinReach(i, sum)
  BY <1>2 DEF WithinReach
<1> QED
  BY <1>2, <1>3

\* The difference of two means, cut to whole levels and kept in a byte, is small only when
\* the difference itself is.
LEMMA CountedIsFar ==
  \A i \in 0..7, sum \in FourPixels : CountedError(4 * Level(i), sum) <=> ~Near(i, sum)
<1> SUFFICES ASSUME NEW i \in 0..7, NEW sum \in 0..1020
             PROVE  CountedError(4 * Level(i), sum) <=> ~Near(i, sum)
  BY DEF FourPixels
<1> DEFINE d == 4 * Level(i) - sum
           t == Truncated(d)
<1>1. d \in -956..960
  BY DEF Level
<1>2. t \in -239..240 /\ (d \in -63..63 <=> t \in -15..15)
  <2> HIDE DEF d
  <2>1. CASE d >= 0
    <3>1. t = d \div 4
      BY <2>1 DEF Truncated
    <3>2. d \div 4 \in 0..240 /\ (d <= 63 <=> d \div 4 <= 15)
      BY <1>1, <2>1
    <3> HIDE DEF t
    <3> QED
      BY <1>1, <2>1, <3>1, <3>2
  <2>2. CASE d < 0
    <3>1. t = -((-d) \div 4)
      BY <1>1, <2>2 DEF Truncated
    <3>2. (-d) \div 4 \in 0..239 /\ (-d <= 63 <=> (-d) \div 4 <= 15)
      BY <1>1, <2>2
    <3> QED
      BY <1>1, <2>2, <3>1, <3>2
  <2> QED
    BY <1>1, <2>1, <2>2
<1> HIDE DEF d, t
<1>3. AbsoluteOf(AsChar(t)) >= 16 <=> t \notin -15..15
  BY <1>2 DEF AsChar, AbsoluteOf
<1>4. d \in -63..63 <=> Near(i, sum)
  BY DEF d, Level, Near
<1> QED
  BY <1>2, <1>3, <1>4 DEF CountedError, d, t

\* Experiment::Run() counts a cell as an error exactly when EccExperiment::Run() would
\* misread it, although the difference wraps around in a char; except in the middle between
\* two levels, and for a level turned black altogether.
THEOREM CountedIsMisread ==
  ASSUME NEW i \in 0..7, NEW sum \in FourPixels \ {0},
         sum - 4 * Level(i) # 64
  PROVE  CountedError(4 * Level(i), sum) <=> FindClosest(sum) # i
<1>1. CountedError(4 * Level(i), sum) <=> ~Near(i, sum)
  BY CountedIsFar, Zenon
<1>2. Near(i, sum) <=> WithinReach(i, sum)
  BY DEF Near, WithinReach, Level, FourPixels
<1>3. PICK j \in 0..7 : WithinReach(j, sum)
  BY SomeLevel, Zenon
<1>4. FindClosest(sum) = j
  BY <1>3, NearestLevel, Zenon
<1>5. WithinReach(i, sum) => FindClosest(sum) = i
  BY NearestLevel, Zenon
<1> QED
  BY <1>1, <1>2, <1>3, <1>4, <1>5, Zenon

\* A cell's three bits are next to each other in the block.
LEMMA BitOfCell ==
  ASSUME NEW c \in Nat, NEW b \in 0..2
  PROVE  (3 * c + b) \div 3 = c /\ (3 * c + b) % 3 = b
OBVIOUS

\* The three bits of an index give it back.
LEMMA IndexFromBits ==
  ASSUME NEW v \in Index
  PROVE  v = (IF HasBit(v, 0) THEN 1 ELSE 0) + (IF HasBit(v, 1) THEN 2 ELSE 0)
               + (IF HasBit(v, 2) THEN 4 ELSE 0)
<1>1. BitValue[1] = 1 /\ BitValue[2] = 2 /\ BitValue[3] = 4
  BY DEF BitValue
<1>2. /\ HasBit(v, 0) <=> v % 2 = 1
      /\ HasBit(v, 1) <=> (v \div 2) % 2 = 1
      /\ HasBit(v, 2) <=> (v \div 4) % 2 = 1
  BY <1>1 DEF HasBit, Index
<1> QED
  BY <1>2 DEF Index

\* Every bit of a block is in one of its cells.
LEMMA BlockCells ==
  /\ CellBits = 3
  /\ \A c \in Cell : /\ c \in Nat /\ c % Side \in 0..Side-1 /\ c \div Side \in 0..Side-1
                      /\ (c \div Side) * (Side * CellBits) + (c % Side) * CellBits = 3 * c
                      /\ \A b \in 0..2 : 3 * c + b \in 0..BlockBits-1
  /\ \A j \in 0..BlockBits-1 : j \div 3 \in Cell /\ j % 3 \in 0..2 /\ 3 * (j \div 3) + (j % 3) = j
<1>0. Side \in Nat \ {0}
  BY BlockMatrixAssumption
<1> DEFINE N == Side * Side
<1>1. N \in Nat
  BY <1>0
<1>2. Cell = 0..N-1 /\ BlockBits = 3 * N /\ CellBits = 3
  BY <1>0 DEF Cell, BlockBits, CellBits
<1> HIDE DEF N
<1>3. ASSUME NEW c \in Cell, NEW b \in 0..2
      PROVE  c \in Nat /\ 3 * c + b \in 0..BlockBits-1
  BY <1>1, <1>2
<1>4. ASSUME NEW j \in 0..BlockBits-1
      PROVE  j \div 3 \in Cell /\ j % 3 \in 0..2 /\ 3 * (j \div 3) + (j % 3) = j
  BY <1>1, <1>2
<1>5. ASSUME NEW c \in Cell
      PROVE  /\ c % Side \in 0..Side-1
             /\ c = Side * (c \div Side) + (c % Side)
             /\ c \div Side \in 0..Side-1
  <2>1. c \in Nat /\ c < Side * Side
    BY <1>0, <1>2 DEF N
  <2>2. c % Side \in 0..Side-1 /\ c \div Side \in Nat /\ c = Side * (c \div Side) + (c % Side)
    BY <1>0, <2>1
  <2>3. c \div Side < Side
    BY <1>0, <2>1, <2>2
  <2> QED
    BY <1>0, <2>2, <2>3
<1>6. ASSUME NEW c \in Cell
      PROVE  (c \div Side) * (Side * CellBits) + (c % Side) * CellBits = 3 * c
  <2> DEFINE q == c \div Side
             m == c % Side
  <2>1. q \in Nat /\ m \in Nat /\ c = Side * q + m
    BY <1>0, <1>5
  <2> HIDE DEF q, m
  <2>2. q * (Side * 3) + m * 3 = 3 * (Side * q + m)
    BY <1>0, <2>1
  <2> QED
    BY <1>2, <2>1, <2>2 DEF q, m
<1> QED
  BY <1>2, <1>3, <1>4, <1>5, <1>6

\* Which bits of a block InitFromInts() sets.
LEMMA BitsOfInts ==
  ASSUME NEW values \in [Cell -> Index], NEW c \in Cell, NEW b \in 0..2
  PROVE  3 * c + b \in InitFromInts(values) <=> HasBit(values[c], b)
<1>1. 3 * c + b \in 0..BlockBits-1 /\ c \in Nat
  BY BlockCells
<1>2. (3 * c + b) \div CellBits = c /\ (3 * c + b) % CellBits = b
  BY <1>1, BitOfCell, BlockCells
<1> QED
  BY <1>1, <1>2 DEF InitFromInts

\* ToInts() of a cell, from its three bits.
LEMMA IntOfBits ==
  ASSUME NEW bits, NEW c \in Cell
  PROVE  ToInts(bits)[c] = (IF 3 * c \in bits THEN 1 ELSE 0)
                             + (IF 3 * c + 1 \in bits THEN 2 ELSE 0)
                             + (IF 3 * c + 2 \in bits THEN 4 ELSE 0)
<1>1. BitValue[0 + 1] = 1 /\ BitValue[1 + 1] = 2 /\ BitValue[2 + 1] = 4
  BY DEF BitValue
<1>2. (c \div Side) * (Side * CellBits) + (c % Side) * CellBits = 3 * c /\ c \in Nat
  BY BlockCells
<1>3. 3 * c + 0 = 3 * c
  BY <1>2
<1> QED
  BY <1>1, <1>2, <1>3 DEF ToInts, Entry

\* What InitFromInts() packs, ToInts() unpacks, for blocks of every size.
THEOREM IntsRoundTrip ==
  ASSUME NEW values \in [Cell -> Index]
  PROVE  ToInts(InitFromInts(values)) = values
<1>1. ASSUME NEW c \in Cell
      PROVE  ToInts(InitFromInts(values))[c] = values[c]
  <2>1. /\ 3 * c + 0 \in InitFromInts(values) <=> HasBit(values[c], 0)
        /\ 3 * c + 1 \in InitFromInts(values) <=> HasBit(values[c], 1)
        /\ 3 * c + 2 \in InitFromInts(values) <=> HasBit(values[c], 2)
    <3>1. 0 \in 0..2 /\ 1 \in 0..2 /\ 2 \in 0..2
      OBVIOUS
    <3>2. \A b \in 0..2 : 3 * c + b \in InitFromInts(values) <=> HasBit(values[c], b)
      BY BitsOfInts
    <3> QED
      BY <3>1, <3>2, Zenon
  <2>2. c \in Nat /\ values[c] \in Index
    BY BlockCells
  <2>3. 3 * c + 0 = 3 * c
    BY <2>2
  <2> QED
    BY <2>1, <2>2, <2>3, IntOfBits, IndexFromBits
<1>2. ToInts(InitFromInts(values)) = [c \in Cell |-> ToInts(InitFromInts(values))[c]]
  BY DEF ToInts
<1> QED
  BY <1>1, <1>2

\* A value of three bits is given back by its bits.
LEMMA BitsOfSum ==
  ASSUME NEW p \in 0..1, NEW q \in 0..1, NEW u \in 0..1
  PROVE  /\ p + 2 * q + 4 * u \in Index
         /\ HasBit(p + 2 * q + 4 * u, 0) <=> p = 1
         /\ HasBit(p + 2 * q + 4 * u, 1) <=> q = 1
         /\ HasBit(p + 2 * q + 4 * u, 2) <=> u = 1
<1>1. BitValue[0 + 1] = 1 /\ BitValue[1 + 1] = 2 /\ BitValue[2 + 1] = 4
  BY DEF BitValue
<1> QED
  BY <1>1 DEF HasBit, Index

\* What ToInts() unpacks, InitFromInts() packs into the same bits.
THEOREM BitsRoundTrip ==
  ASSUME NEW bits \in SUBSET (0..BlockBits-1)
  PROVE  ToInts(bits) \in [Cell -> Index] /\ InitFromInts(ToInts(bits)) = bits
<1> DEFINE values == ToInts(bits)
<1>1. ASSUME NEW c \in Cell
      PROVE  /\ values[c] \in Index
             /\ HasBit(values[c], 0) <=> 3 * c + 0 \in bits
             /\ HasBit(values[c], 1) <=> 3 * c + 1 \in bits
             /\ HasBit(values[c], 2) <=> 3 * c + 2 \in bits
  <2> DEFINE p == IF 3 * c \in bits THEN 1 ELSE 0
             q == IF 3 * c + 1 \in bits THEN 1 ELSE 0
             u == IF 3 * c + 2 \in bits THEN 1 ELSE 0
  <2>1. p \in 0..1 /\ q \in 0..1 /\ u \in 0..1
    OBVIOUS
  <2>2. values[c] = p + 2 * q + 4 * u
    BY IntOfBits
  <2>3. 3 * c + 0 = 3 * c
    BY BlockCells
  <2>4. (p = 1 <=> 3 * c \in bits) /\ (q = 1 <=> 3 * c + 1 \in bits) /\ (u = 1 <=> 3 * c + 2 \in bits)
    OBVIOUS
  <2> HIDE DEF p, q, u, values
  <2> QED
    BY <2>1, <2>2, <2>3, <2>4, BitsOfSum
<1>2. values \in [Cell -> Index]
  BY <1>1 DEF ToInts
<1> HIDE DEF values
<1>3. ASSUME NEW j \in 0..BlockBits-1
      PROVE  j \in InitFromInts(values) <=> j \in bits
  <2> DEFINE c == j \div 3
             b == j % 3
  <2>1. c \in Cell /\ b \in 0..2 /\ 3 * c + b = j
    BY BlockCells
  <2> HIDE DEF c, b
  <2>2. j \in InitFromInts(values) <=> HasBit(values[c], b)
    BY <1>2, <2>1, BitsOfInts
  <2>3. b = 0 \/ b = 1 \/ b = 2
    BY <2>1
  <2> QED
    BY <1>1, <2>1, <2>2, <2>3
<1>4. InitFromInts(values) \subseteq 0..BlockBits-1
  BY DEF InitFromInts
<1> QED
  BY <1>2, <1>3, <1>4 DEF values

\* The bytes that InitFromString() takes in, ToString() gives back.
THEOREM StringRoundTrip ==
  ASSUME NEW input \in [0..BlockBytes-1 -> Byte]
  PROVE  InitFromString(input) \in SUBSET (0..BlockBits-1)
         /\ ToString(InitFromString(input)) = input
<1>0. ByteBits \in Nat \ {0} /\ BlockBytes \in Nat /\ BlockBits = BlockBytes * ByteBits
  <2>1. Side \in Nat \ {0} /\ ByteBits \in Nat \ {0} /\ BlockBits % ByteBits = 0
    BY BlockMatrixAssumption
  <2>2. BlockBits \in Nat
    BY <2>1 DEF BlockBits, CellBits
  <2> HIDE DEF BlockBits
  <2> QED
    BY <2>1, <2>2 DEF BlockBytes
<1>1. ASSUME NEW k \in 0..BlockBytes-1, NEW b \in 0..ByteBits-1
      PROVE  k * ByteBits + b \in InitFromString(input) <=> b \in input[k]
  <2> DEFINE j == k * ByteBits + b
  <2>1. j \div ByteBits = k /\ j % ByteBits = b
    BY <1>0
  <2>2. j \in 0..BlockBits-1
    <3>1. k * ByteBits + ByteBits <= BlockBytes * ByteBits
      BY <1>0
    <3> QED
      BY <1>0, <3>1
  <2> HIDE DEF j
  <2> QED
    BY <2>1, <2>2 DEF InitFromString, j
<1>2. ASSUME NEW k \in 0..BlockBytes-1
      PROVE  {b \in 0..ByteBits-1 : k * ByteBits + b \in InitFromString(input)} = input[k]
  <2>1. input[k] \subseteq 0..ByteBits-1
    BY DEF Byte
  <2> QED
    BY <1>1, <2>1
<1>3. input = [k \in 0..BlockBytes-1 |-> input[k]]
  OBVIOUS
<1> QED
  BY <1>2, <1>3 DEF ToString, InitFromString

\* The whole way of a block: its bytes become levels of gray, and whatever happens to the
\* image, if the mean of every cell stays within reach of its level the bytes that
\* EccExperiment::Run() reads back are the bytes painted.
THEOREM PaintedIsRead ==
  ASSUME NEW input \in [0..BlockBytes-1 -> Byte], NEW sums \in [Cell -> FourPixels],
         \A c \in Cell : WithinReach(ToInts(InitFromString(input))[c], sums[c])
  PROVE  ToString(InitFromInts([c \in Cell |-> FindClosest(sums[c])])) = input
<1> DEFINE values == ToInts(InitFromString(input))
<1>1. values \in [Cell -> Index] /\ InitFromInts(values) = InitFromString(input)
  BY StringRoundTrip, BitsRoundTrip
<1>2. ASSUME NEW c \in Cell
      PROVE  FindClosest(sums[c]) = values[c]
  <2>1. values[c] \in 0..7 /\ sums[c] \in FourPixels /\ WithinReach(values[c], sums[c])
    BY <1>1 DEF Index
  <2> HIDE DEF values
  <2> QED
    BY <2>1, NearestLevel, Zenon
<1> HIDE DEF values
<1>3. [c \in Cell |-> FindClosest(sums[c])] = values
  BY <1>1, <1>2
<1> QED
  BY <1>1, <1>3, StringRoundTrip

-----------------------------------------------------------------------------
(* Recursion and induction on the natural numbers.                           *)

Less == {p \in Nat \X Nat : p[1] < p[2]}

\* Every set of natural numbers that is not empty has a least element.
LEMMA LeastNumber ==
  ASSUME NEW T \in SUBSET Nat, T # {}
  PROVE  \E m \in T : \A n \in T : m <= n
<1>1. IsWellFoundedOn(Less, Nat)
  BY NatLessThanWellFounded DEF Less, OpToRel
<1>2. PICK m \in T : \A n \in T : <<n, m>> \notin Less
  BY <1>1, WFMin
<1>3. m \in Nat /\ \A n \in T : n \in Nat /\ ~(n < m)
  BY <1>2 DEF Less
<1>4. \A n \in T : m <= n
  BY <1>3
<1> QED
  BY <1>4

\* Induction for a set of numbers.
LEMMA Everything ==
  ASSUME NEW T \in SUBSET Nat, 0 \in T, \A n \in T : n + 1 \in T
  PROVE  T = Nat
<1> DEFINE Rest == Nat \ T
<1> SUFFICES ASSUME Rest # {} PROVE FALSE
  OBVIOUS
<1>1. Rest \in SUBSET Nat
  OBVIOUS
<1>2. PICK m \in Rest : \A n \in Rest : m <= n
  <2> HIDE DEF Rest
  <2> QED
    BY <1>1, LeastNumber
<1>3. m \in Nat /\ m # 0 /\ m \notin T
  BY <1>2
<1>4. m - 1 \in Nat /\ ~(m <= m - 1) /\ (m - 1) + 1 = m
  BY <1>3
<1>5. m - 1 \in T
  BY <1>2, <1>4
<1> QED
  BY <1>3, <1>4, <1>5

\* The first values of a sequence that Step continues.
Iterates(g, n, S, a, Step) ==
  /\ g \in [0..n -> S] /\ g[0] = a
  /\ \A i \in 0..(n - 1) : g[i + 1] = Step[<<i, g[i]>>]

\* What is iterated from a first value exists: up to a given number,
LEMMA IterateUpTo ==
  ASSUME NEW S, NEW a \in S, NEW Step \in [Nat \X S -> S], NEW m \in Nat
  PROVE  \E g : Iterates(g, m, S, a, Step)
<1> DEFINE T == {n \in Nat : \E g : Iterates(g, n, S, a, Step)}
<1>1. 0 \in T
  <2>1. Iterates([i \in 0..0 |-> a], 0, S, a, Step)
    BY DEF Iterates
  <2> QED
    BY <2>1
<1>2. ASSUME NEW n \in T PROVE n + 1 \in T
  <2>1. n \in Nat
    OBVIOUS
  <2>2. PICK g : Iterates(g, n, S, a, Step)
    OBVIOUS
  <2>3. n \in 0..n /\ g[n] \in S
    BY <2>1, <2>2 DEF Iterates
  <2> DEFINE next == Step[<<n, g[n]>>]
             h == [i \in 0..(n + 1) |-> IF i = n + 1 THEN next ELSE g[i]]
  <2>4. next \in S
    BY <2>1, <2>3
  <2> HIDE DEF next
  <2>5. h \in [0..(n + 1) -> S] /\ h[0] = a
    BY <2>1, <2>2, <2>4 DEF Iterates
  <2>6. ASSUME NEW i \in 0..n PROVE h[i + 1] = Step[<<i, h[i]>>]
    <3>1. h[i] = g[i]
      BY <2>1
    <3>2. CASE i = n
      <4>1. n + 1 \in 0..(n + 1) /\ h[n + 1] = next
        BY <2>1
      <4> QED
        BY <3>1, <3>2, <4>1 DEF next
    <3>3. CASE i # n
      <4>1. i \in 0..(n - 1) /\ h[i + 1] = g[i + 1]
        BY <2>1, <3>3
      <4> QED
        BY <2>2, <3>1, <4>1 DEF Iterates
    <3> QED
      BY <3>2, <3>3
  <2>7. (n + 1) - 1 = n /\ n + 1 \in Nat
    BY <2>1
  <2>8. Iterates(h, n + 1, S, a, Step)
    <3> HIDE DEF h
    <3> QED
      BY <2>5, <2>6, <2>7 DEF Iterates
  <2> QED
    BY <2>7, <2>8
<1>3. T = Nat
  <2>1. T \in SUBSET Nat
    OBVIOUS
  <2> HIDE DEF T
  <2> QED
    BY <1>1, <1>2, <2>1, Everything
<1> QED
  BY <1>3

IteratesAll(f, S, a, Step) ==
  /\ f \in [Nat -> S] /\ f[0] = a
  /\ \A n \in Nat : f[n + 1] = Step[<<n, f[n]>>]

\* and for all of them.
LEMMA Iterate ==
  ASSUME NEW S, NEW a \in S, NEW Step \in [Nat \X S -> S]
  PROVE  \E f : IteratesAll(f, S, a, Step)
<1> DEFINE G == [n \in Nat |-> CHOOSE g : Iterates(g, n, S, a, Step)]
           f == [n \in Nat |-> G[n][n]]
<1>1. \A n \in Nat : Iterates(G[n], n, S, a, Step)
  <2>1. \A n \in Nat : \E g : Iterates(g, n, S, a, Step)
    BY IterateUpTo
  <2> QED
    BY <2>1
<1> HIDE DEF G
<1>2. ASSUME NEW n \in Nat
      PROVE  \A i \in Nat : i <= n => G[n + 1][i] = G[n][i]
  <2> DEFINE T == {i \in Nat : i <= n => G[n + 1][i] = G[n][i]}
  <2>1. 0 \in T
    BY <1>1 DEF Iterates
  <2>2. ASSUME NEW i \in T PROVE i + 1 \in T
    <3> SUFFICES ASSUME i + 1 <= n PROVE G[n + 1][i + 1] = G[n][i + 1]
      OBVIOUS
    <3>1. i \in 0..(n - 1) /\ i \in 0..((n + 1) - 1) /\ i <= n
      OBVIOUS
    <3>2. G[n + 1][i] = G[n][i]
      BY <3>1
    <3>3. G[n][i + 1] = Step[<<i, G[n][i]>>]
      BY <1>1, <3>1 DEF Iterates
    <3>4. G[n + 1][i + 1] = Step[<<i, G[n + 1][i]>>]
      BY <1>1, <3>1 DEF Iterates
    <3> QED
      BY <3>2, <3>3, <3>4
  <2>3. T = Nat
    <3>1. T \in SUBSET Nat
      OBVIOUS
    <3> HIDE DEF T
    <3> QED
      BY <2>1, <2>2, <3>1, Everything
  <2> QED
    BY <2>3
<1>3. f \in [Nat -> S] /\ f[0] = a
  BY <1>1 DEF Iterates
<1>4. ASSUME NEW n \in Nat PROVE f[n + 1] = Step[<<n, f[n]>>]
  <2>1. n \in 0..((n + 1) - 1) /\ n + 1 \in Nat
    OBVIOUS
  <2>2. G[n + 1][n + 1] = Step[<<n, G[n + 1][n]>>]
    BY <1>1, <2>1 DEF Iterates
  <2>3. G[n + 1][n] = G[n][n]
    BY <1>2
  <2> QED
    BY <2>1, <2>2, <2>3
<1>5. IteratesAll(f, S, a, Step)
  <2> HIDE DEF f
  <2> QED
    BY <1>3, <1>4 DEF IteratesAll
<1> QED
  BY <1>5

-----------------------------------------------------------------------------
(* The field.                                                                *)

\* The sizes that ReedSolomonAssumption leaves.
LEMMA Sizes ==
  /\ mm \in Nat /\ mm >= 1 /\ nn \in Nat /\ nn >= 2 /\ 2^mm = nn + 1
  /\ nroots \in Nat /\ nroots >= 1 /\ nroots < nn /\ nn - nroots \in Nat
<1>1. mm \in Nat /\ mm >= 1 /\ nroots \in 1..(nn - 1)
  BY ReedSolomonAssumption
<1>2. 2^mm \in Int
  BY <1>1, Z3
<1> DEFINE p == 2^mm
<1>3. nn = p - 1 /\ p \in Int
  BY <1>2 DEF nn
<1> HIDE DEF p
<1>4. p = nn + 1 /\ nn \in Int
  BY <1>3
<1> QED
  BY <1>1, <1>4 DEF p

\* Zero, one, and the sum of symbols are symbols.
LEMMA Zero == {} \in Symbol
BY DEF Symbol

\* The symbol one, which is not zero.
LEMMA One == {0} \in Symbol /\ {0} # {}
<1>1. 0 \in 0..(mm - 1)
  BY Sizes
<1> QED
  BY <1>1 DEF Symbol

\* Adding symbols gives a symbol.
LEMMA XorType == \A s, t \in Symbol : Xor(s, t) \in Symbol
BY DEF Symbol, Xor

\* Exclusive or is addition: commutative, associative, and every symbol is its own opposite.
LEMMA XorLaws ==
  /\ \A s, t : Xor(s, t) = Xor(t, s)
  /\ \A s, t, u : Xor(Xor(s, t), u) = Xor(s, Xor(t, u))
  /\ \A s : Xor(s, s) = {} /\ Xor(s, {}) = s /\ Xor({}, s) = s
BY DEF Xor

\* A quotient and a remainder are unique, and
LEMMA DivMod ==
  ASSUME NEW m \in Nat, NEW q \in Nat, NEW s \in Nat, s < m
  PROVE  (m * q + s) \div m = q /\ (m * q + s) % m = s
OBVIOUS

\* there are always such.
LEMMA DivModOf ==
  ASSUME NEW a \in Nat, NEW m \in Nat, m >= 1
  PROVE  /\ a \div m \in Nat /\ a % m \in Nat /\ a % m < m
         /\ a = m * (a \div m) + (a % m)
OBVIOUS

\* Remainders of sums.
LEMMA ModOfSum ==
  ASSUME NEW k \in Nat, NEW m \in Nat, m >= 1, NEW i \in Nat
  PROVE  (k + m * i) % m = k % m
<1> DEFINE q == k \div m   s == k % m
<1>1. q \in Nat /\ s \in Nat /\ s < m /\ k = m * q + s
  BY DivModOf
<1> HIDE DEF q, s
<1>2. k + m * i = m * (q + i) + s /\ q + i \in Nat
  BY <1>1
<1>3. (m * (q + i) + s) % m = s
  BY <1>1, <1>2, DivMod
<1>4. k % m = s
  BY DEF s
<1> QED
  BY <1>2, <1>3, <1>4

\* Adding to a remainder before or after taking it.
LEMMA ModOfRest ==
  ASSUME NEW x \in Nat, NEW m \in Nat, NEW p \in Nat, p >= 1
  PROVE  ((x % p) + m) % p = (x + m) % p
<1> DEFINE q == x \div p   s == x % p
<1>1. q \in Nat /\ s \in Nat /\ x = p * q + s
  BY DivModOf
<1> HIDE DEF q, s
<1>2. s + m \in Nat /\ x + m = (s + m) + p * q
  BY <1>1
<1>3. ((s + m) + p * q) % p = (s + m) % p
  BY <1>1, <1>2, ModOfSum
<1> QED
  BY <1>2, <1>3 DEF s

\* rs_modnn(): folding high bits onto low ones computes the remainder.
LEMMA FoldedOnce ==
  ASSUME NEW x \in Nat, x >= nn
  PROVE  ModnnStep(x) \in Nat /\ ModnnStep(x) < x /\ ModnnStep(x) % nn = x % nn
<1> DEFINE m == nn
           w == x - m
           q == w \div (m + 1)
           s == w % (m + 1)
<1>1. m \in Nat /\ m >= 2 /\ w \in Nat /\ x = m + w
  BY Sizes
<1>2. ModnnStep(x) = q + s
  BY Sizes DEF ModnnStep
<1> HIDE DEF m, w
<1>3. q \in Nat /\ s \in Nat /\ w = (m + 1) * q + s
  <2>1. m + 1 \in Nat /\ m + 1 >= 1
    BY <1>1
  <2> QED
    BY <1>1, <2>1, DivModOf
<1> HIDE DEF q, s
<1>4. w = m * q + q + s /\ m * q \in Nat
  BY <1>1, <1>3
<1>5. q + s < x
  BY <1>1, <1>3, <1>4
<1>6. x = (q + s) + m * (q + 1)
  BY <1>1, <1>3, <1>4
<1>7. ((q + s) + m * (q + 1)) % m = (q + s) % m
  <2>1. q + s \in Nat /\ q + 1 \in Nat /\ m >= 1
    BY <1>1, <1>3
  <2> QED
    BY <1>1, <2>1, ModOfSum
<1> QED
  BY <1>2, <1>3, <1>5, <1>6, <1>7 DEF m

\* rs_modnn() is the remainder modulo nn.
LEMMA ModnnIs == \A x \in Nat : rs_modnn[x] = x % nn
<1> DEFINE Rec(g) == [x \in Nat |-> IF x >= nn THEN g[ModnnStep(x)] ELSE x]
<1>1. rs_modnn = Rec(rs_modnn)
  <2> DEFINE g == [x \in Nat |-> x % nn]
  <2>1. ASSUME NEW x \in Nat PROVE g[x] = Rec(g)[x]
    <3>1. CASE x >= nn
      BY <3>1, FoldedOnce
    <3>2. CASE ~(x >= nn)
      BY <3>2, Sizes
    <3> QED
      BY <3>1, <3>2
  <2>2. g = Rec(g)
    BY <2>1
  <2> QED
    BY <2>2 DEF rs_modnn
<1>2. \A x \in Nat : rs_modnn[x] = IF x >= nn THEN rs_modnn[ModnnStep(x)] ELSE x
  BY <1>1
<1> DEFINE T == {x \in Nat : rs_modnn[x] # x % nn}
<1> SUFFICES ASSUME T # {} PROVE FALSE
  OBVIOUS
<1>3. PICK m \in T : \A x \in T : m <= x
  <2>1. T \in SUBSET Nat
    OBVIOUS
  <2> HIDE DEF T
  <2> QED
    BY <2>1, LeastNumber
<1>4. m \in Nat /\ rs_modnn[m] # m % nn
  BY <1>3
<1>5. CASE m >= nn
  <2>1. /\ ModnnStep(m) \in Nat /\ ~(m <= ModnnStep(m)) /\ ModnnStep(m) % nn = m % nn
    BY <1>4, <1>5, FoldedOnce
  <2>2. rs_modnn[ModnnStep(m)] = ModnnStep(m) % nn
    BY <1>3, <2>1
  <2> QED
    BY <1>2, <1>4, <1>5, <2>1, <2>2
<1>6. CASE ~(m >= nn)
  BY <1>2, <1>4, <1>6, Sizes
<1> QED
  BY <1>5, <1>6

\* The shift keeps to the bits of a symbol, and so do the powers of alpha it makes.
LEMMA ShiftType == \A s \in Symbol : ShiftLeft(s) \in Symbol
<1> TAKE s \in Symbol
<1>1. gfpoly \subseteq 0..mm /\ mm \in Nat
  BY ReedSolomonAssumption
<1> DEFINE d == {bit + 1 : bit \in s}
<1>2. d \subseteq 0..mm
  <2>1. \A bit \in 0..(mm - 1) : bit + 1 \in 0..mm
    BY <1>1
  <2> QED
    BY <2>1 DEF Symbol
<1>3. (0..mm) \ {mm} \subseteq 0..(mm - 1)
  BY <1>1
<1> HIDE DEF d
<1>4. ((IF mm \in d THEN Xor(d, gfpoly) ELSE d) \ {mm}) \subseteq 0..(mm - 1)
  BY <1>1, <1>2, <1>3 DEF Xor
<1> QED
  BY <1>4 DEF ShiftLeft, Symbol, d

\* The powers of alpha are symbols, each the last one shifted.
LEMMA PowersType ==
  /\ power \in [Nat -> Symbol] /\ power[0] = {0}
  /\ \A i \in Nat : power[i + 1] = ShiftLeft(power[i])
<1> DEFINE Rec(g) == [i \in Nat |-> IF i = 0 THEN {0} ELSE ShiftLeft(g[i - 1])]
           Step == [p \in Nat \X Symbol |-> ShiftLeft(p[2])]
<1>1. Step \in [Nat \X Symbol -> Symbol]
  BY ShiftType
<1>2. PICK f : IteratesAll(f, Symbol, {0}, Step)
  <2> HIDE DEF Step
  <2> QED
    BY <1>1, One, Iterate
<1>3. f = Rec(f)
  <2>1. ASSUME NEW i \in Nat PROVE f[i] = Rec(f)[i]
    <3>1. CASE i = 0
      BY <1>2, <3>1 DEF IteratesAll
    <3>2. CASE i # 0
      <4>1. i - 1 \in Nat /\ (i - 1) + 1 = i
        BY <3>2
      <4>2. f[(i - 1) + 1] = ShiftLeft(f[i - 1])
        BY <1>2, <4>1 DEF IteratesAll
      <4> QED
        BY <3>2, <4>1, <4>2
    <3> QED
      BY <3>1, <3>2
  <2>2. f = [i \in Nat |-> f[i]]
    BY <1>2 DEF IteratesAll
  <2> QED
    BY <2>1, <2>2
<1>4. power = Rec(power)
  BY <1>3 DEF power
<1>5. power[0] = {0}
  BY <1>4
<1>6. ASSUME NEW i \in Nat PROVE power[i + 1] = ShiftLeft(power[i])
  <2>1. i + 1 \in Nat /\ i + 1 # 0 /\ (i + 1) - 1 = i
    OBVIOUS
  <2> QED
    BY <1>4, <2>1
<1>7. power \in [Nat -> Symbol]
  <2> DEFINE T == {i \in Nat : power[i] \in Symbol}
  <2>1. 0 \in T
    BY <1>5, One
  <2>2. \A i \in T : i + 1 \in T
    BY <1>6, ShiftType
  <2>3. T = Nat
    <3>1. T \in SUBSET Nat
      OBVIOUS
    <3> HIDE DEF T
    <3> QED
      BY <2>1, <2>2, <3>1, Everything
  <2>4. power = [i \in Nat |-> power[i]]
    BY <1>4
  <2> QED
    BY <2>3, <2>4
<1> QED
  BY <1>5, <1>6, <1>7

\* The shift is linear.
LEMMA ShiftLinear ==
  /\ ShiftLeft({}) = {}
  /\ \A s, t \in Symbol : ShiftLeft(Xor(s, t)) = Xor(ShiftLeft(s), ShiftLeft(t))
<1>1. mm \in Nat
  BY Sizes
<1>2. ShiftLeft({}) = {}
  BY DEF ShiftLeft
<1>3. ASSUME NEW s \in Symbol, NEW t \in Symbol
      PROVE  ShiftLeft(Xor(s, t)) = Xor(ShiftLeft(s), ShiftLeft(t))
  <2> DEFINE D(x) == {bit + 1 : bit \in x}
             d == D(s)   e == D(t)   f == D(Xor(s, t))
  <2>1. f = Xor(d, e)
    BY DEF Symbol, Xor
  <2>2. /\ ShiftLeft(s) = (IF mm \in d THEN Xor(d, gfpoly) ELSE d) \ {mm}
        /\ ShiftLeft(t) = (IF mm \in e THEN Xor(e, gfpoly) ELSE e) \ {mm}
        /\ ShiftLeft(Xor(s, t)) = (IF mm \in f THEN Xor(f, gfpoly) ELSE f) \ {mm}
    BY DEF ShiftLeft
  <2> HIDE DEF d, e, f
  <2> QED
    BY <2>1, <2>2 DEF Xor
<1> QED
  BY <1>2, <1>3

\* The powers of alpha come back to one after nn steps, and none of them is zero.
LEMMA PowersReturn ==
  /\ power[nn] = {0}
  /\ \A i \in Nat : power[i + nn] = power[i]
  /\ \A i \in Nat : power[i % nn] = power[i]
  /\ \A i \in Nat : power[i] # {}
<1>1. nn \in Nat /\ nn >= 2
  BY Sizes
<1>2. power[nn] = {0}
  BY PowersType, EccAssumption DEF Primitive, PassesPrimitiveTest
<1>3. \A i \in Nat : power[i + nn] = power[i]
  <2> DEFINE T == {i \in Nat : power[i + nn] = power[i]}
  <2>1. 0 \in T
    BY <1>1, <1>2, PowersType
  <2>2. ASSUME NEW i \in T PROVE i + 1 \in T
    <3>1. i \in Nat /\ i + nn \in Nat /\ (i + 1) + nn = (i + nn) + 1
      BY <1>1
    <3>2. power[(i + nn) + 1] = ShiftLeft(power[i + nn]) /\ power[i + 1] = ShiftLeft(power[i])
      BY <3>1, PowersType
    <3> QED
      BY <3>1, <3>2
  <2>3. T = Nat
    <3>1. T \in SUBSET Nat
      OBVIOUS
    <3> HIDE DEF T
    <3> QED
      BY <2>1, <2>2, <3>1, Everything
  <2> QED
    BY <2>3
<1>4. \A i \in Nat : \A k \in Nat : power[i + nn * k] = power[i]
  <2> TAKE i \in Nat
  <2> DEFINE T == {k \in Nat : power[i + nn * k] = power[i]}
  <2>1. 0 \in T
    <3>1. i + nn * 0 = i
      BY <1>1
    <3> QED
      BY <3>1
  <2>2. ASSUME NEW k \in T PROVE k + 1 \in T
    <3>1. k \in Nat /\ i + nn * k \in Nat /\ i + nn * (k + 1) = (i + nn * k) + nn
      BY <1>1
    <3> QED
      BY <1>3, <3>1
  <2>3. T = Nat
    <3>1. T \in SUBSET Nat
      OBVIOUS
    <3> HIDE DEF T
    <3> QED
      BY <2>1, <2>2, <3>1, Everything
  <2> QED
    BY <2>3
<1>5. ASSUME NEW i \in Nat PROVE power[i % nn] = power[i]
  <2>1. i % nn \in Nat /\ i \div nn \in Nat /\ i = (i % nn) + nn * (i \div nn)
    <3> DEFINE m == nn
    <3>1. m \in Nat /\ m # 0
      BY <1>1
    <3> HIDE DEF m
    <3>2. i % m \in Nat /\ i \div m \in Nat /\ i = (i % m) + m * (i \div m)
      BY <3>1
    <3> QED
      BY <3>2 DEF m
  <2> QED
    BY <1>4, <2>1
<1>6. ASSUME NEW i \in Nat PROVE power[i] # {}
  <2> SUFFICES ASSUME power[i] = {} PROVE FALSE
    OBVIOUS
  <2> DEFINE T == {k \in Nat : power[i + k] = {}}
  <2>1. 0 \in T
    OBVIOUS
  <2>2. ASSUME NEW k \in T PROVE k + 1 \in T
    <3>1. i + k \in Nat /\ i + (k + 1) = (i + k) + 1
      OBVIOUS
    <3>2. power[(i + k) + 1] = ShiftLeft(power[i + k])
      BY <3>1, PowersType
    <3> QED
      BY <3>1, <3>2, ShiftLinear
  <2>3. T = Nat
    <3>1. T \in SUBSET Nat
      OBVIOUS
    <3> HIDE DEF T
    <3> QED
      BY <2>1, <2>2, <3>1, Everything
  <2> DEFINE k == nn * (i + 1) - i
  <2>4. k \in Nat /\ i + k = 0 + nn * (i + 1) /\ i + 1 \in Nat
    <3> DEFINE m == nn
    <3>1. m \in Nat /\ m >= 2
      BY <1>1
    <3> HIDE DEF m
    <3>2. m * (i + 1) \in Nat /\ m * (i + 1) >= i
      BY <3>1
    <3> QED
      BY <3>1, <3>2 DEF m
  <2> HIDE DEF k
  <2>5. power[i + k] = {}
    BY <2>3, <2>4
  <2>6. power[0 + nn * (i + 1)] = power[0]
    BY <1>4, <2>4
  <2> QED
    BY <2>4, <2>5, <2>6, PowersType
<1> QED
  BY <1>2, <1>3, <1>5, <1>6

\* The indices: nn is the index of zero.
Indices == 0..nn

\* Every symbol is zero or a power below the nn-th: the powers are all different, and there
\* are as many symbols as powers, and zero.
LEMMA IndexFacts ==
  /\ index_of \in [Symbol -> Indices]
  /\ \A s \in Symbol : alpha_to[index_of[s]] = s
  /\ \A s \in Symbol : index_of[s] = nn <=> s = {}
  /\ \A i \in Indices : alpha_to[i] \in Symbol /\ index_of[alpha_to[i]] = i
<1>1. nn \in Nat /\ nn >= 2 /\ nn \in Indices /\ \A i \in Indices : i \in Nat
  BY Sizes DEF Indices
<1> DEFINE Powers == {power[i] : i \in 0..nn-1}
<1>2. Cardinality(Powers) = nn
  BY EccAssumption DEF Primitive
<1>3. Powers \in SUBSET Symbol /\ {} \notin Powers
  BY <1>1, PowersType, PowersReturn
<1>4. IsFiniteSet(Symbol) /\ Cardinality(Symbol) = nn + 1
  <2>1. IsFiniteSet(0..(mm - 1)) /\ Cardinality(0..(mm - 1)) = mm
    <3>1. 0 \in Int /\ mm - 1 \in Int /\ mm \in Nat /\ mm >= 1
      BY Sizes
    <3>2. /\ IsFiniteSet(0..(mm - 1))
          /\ Cardinality(0..(mm - 1)) = IF 0 > mm - 1 THEN 0 ELSE (mm - 1) - 0 + 1
      BY <3>1, FS_Interval
    <3> QED
      BY <3>1, <3>2
  <2>2. IsFiniteSet(SUBSET (0..(mm - 1))) /\ Cardinality(SUBSET (0..(mm - 1))) = 2^mm
    BY <2>1, FS_SUBSET
  <2> QED
    BY <2>2, Sizes DEF Symbol
<1> DEFINE f == [i \in 0..nn-1 |-> power[i]]
<1>5. f \in Surjection(0..nn-1, Powers)
  BY DEF Surjection
<1>6. IsFiniteSet(0..nn-1) /\ Cardinality(0..nn-1) = nn
  <2>1. 0 \in Int /\ nn - 1 \in Int
    BY <1>1
  <2>2. /\ IsFiniteSet(0..nn-1)
        /\ Cardinality(0..nn-1) = IF 0 > nn - 1 THEN 0 ELSE (nn - 1) - 0 + 1
    BY <2>1, FS_Interval
  <2> QED
    BY <1>1, <2>2
<1>7. \A i, j \in 0..nn-1 : power[i] = power[j] => i = j
  <2> HIDE DEF f, Powers
  <2>1. f \in Injection(0..nn-1, Powers)
    BY <1>2, <1>5, <1>6, FS_Surjection
  <2> QED
    BY <2>1 DEF Injection, IsInjective, f
<1>8. Symbol = Powers \cup {{}}
  <2> DEFINE All == Powers \cup {{}}
  <2>1. IsFiniteSet(Powers)
    <3> HIDE DEF Powers
    <3> QED
      BY <1>3, <1>4, FS_Subset
  <2>2. IsFiniteSet(All) /\ Cardinality(All) = nn + 1
    <3> HIDE DEF Powers
    <3>1. IsFiniteSet(Powers \cup {{}}) /\ ({} \notin Powers =>
            Cardinality(Powers \cup {{}}) = Cardinality(Powers) + 1)
      BY <2>1, FS_AddElement
    <3> QED
      BY <1>2, <1>3, <3>1
  <2>3. All \in SUBSET Symbol
    BY <1>3, Zero
  <2> HIDE DEF All
  <2>4. All = Symbol
    BY <1>1, <1>4, <2>2, <2>3, FS_Subset
  <2> QED
    BY <2>4 DEF All
<1>9. ASSUME NEW s \in Symbol PROVE \E i \in Indices : alpha_to[i] = s
  <2>1. CASE s = {}
    BY <1>1, <2>1 DEF alpha_to, Indices
  <2>2. CASE s # {}
    <3>1. PICK i \in 0..nn-1 : s = power[i]
      BY <1>8, <2>2
    <3>2. i \in Indices /\ i # nn
      BY <1>1 DEF Indices
    <3> QED
      BY <3>1, <3>2 DEF alpha_to, Indices
  <2> QED
    BY <2>1, <2>2
<1>10. \A i \in Indices : alpha_to[i] = IF i = nn THEN {} ELSE power[i]
  BY DEF alpha_to, Indices
<1>11. \A i \in Indices : i # nn => i \in 0..nn-1 /\ power[i] # {}
  BY <1>1, PowersReturn DEF Indices
<1>12. ASSUME NEW i \in Indices, NEW j \in Indices, alpha_to[i] = alpha_to[j]
       PROVE  i = j
  BY <1>7, <1>10, <1>11, <1>12
<1>13. \A i \in Indices : alpha_to[i] \in Symbol
  BY <1>1, <1>10, PowersType, Zero
<1>14. \A s \in Symbol : index_of[s] \in Indices /\ alpha_to[index_of[s]] = s
  BY <1>9 DEF index_of, Indices
<1>15. index_of \in [Symbol -> Indices]
  <2>1. index_of = [s \in Symbol |-> index_of[s]]
    BY DEF index_of
  <2> QED
    BY <1>14, <2>1
<1>16. \A s \in Symbol : index_of[s] = nn <=> s = {}
  <2>1. alpha_to[nn] = {}
    BY <1>1, <1>10
  <2> QED
    BY <1>1, <1>12, <1>14, <2>1
<1>17. \A i \in Indices : index_of[alpha_to[i]] = i
  BY <1>12, <1>13, <1>14
<1> QED
  BY <1>13, <1>14, <1>15, <1>16, <1>17

\* Power() of any number is that power of alpha.
LEMMA PowerIs == \A i \in Nat : Power(i) = power[i] /\ Power(i) \in Symbol
<1> TAKE i \in Nat
<1>1. i % nn \in 0..(nn - 1)
  BY Sizes
<1>2. Power(i) = alpha_to[i % nn]
  BY ModnnIs DEF Power
<1>3. alpha_to[i % nn] = power[i % nn]
  BY <1>1, Sizes DEF alpha_to
<1> QED
  BY <1>2, <1>3, PowersReturn, PowersType

\* Products: of zero, of one, and of a power of alpha.
LEMMA ProductFacts ==
  /\ \A i, j \in Indices : Product(i, j) \in Symbol
  /\ \A i, j \in Indices : Product(i, j) = Product(j, i)
  /\ \A i \in Indices : Product(nn, i) = {} /\ Product(i, nn) = {}
  /\ \A i \in Indices : Product(0, i) = alpha_to[i]
  /\ \A i, j \in Indices : i # nn /\ j # nn => Product(i, j) = power[i + j]
<1>1. \A i \in Indices : i \in Nat
  BY Sizes DEF Indices
<1>2. \A i, j \in Indices : i # nn /\ j # nn => Product(i, j) = power[i + j] /\ i + j \in Nat
  BY <1>1, PowerIs DEF Product
<1>3. \A i \in Indices : Product(nn, i) = {} /\ Product(i, nn) = {}
  BY DEF Product
<1>4. \A i, j \in Indices : Product(i, j) \in Symbol
  BY <1>2, <1>3, Zero, PowersType
<1>5. \A i, j \in Indices : Product(i, j) = Product(j, i)
  <2> TAKE i \in Indices, j \in Indices
  <2>1. i + j = j + i
    BY <1>1
  <2> QED
    BY <1>2, <1>3, <2>1
<1>6. ASSUME NEW i \in Indices PROVE Product(0, i) = alpha_to[i]
  <2>1. 0 \in Indices /\ 0 # nn /\ 0 + i = i
    BY <1>1, Sizes DEF Indices
  <2>2. alpha_to[i] = IF i = nn THEN {} ELSE power[i]
    BY DEF alpha_to, Indices
  <2> QED
    BY <1>2, <1>3, <2>1, <2>2
<1> QED
  BY <1>2, <1>3, <1>4, <1>5, <1>6

\* Multiplication distributes over addition.
LEMMA Distributive ==
  ASSUME NEW s \in Symbol, NEW t \in Symbol, NEW k \in Indices
  PROVE  Product(k, index_of[Xor(s, t)]) = Xor(Product(k, index_of[s]), Product(k, index_of[t]))
<1>1. nn \in Nat /\ nn >= 2
  BY Sizes
<1>2. Xor(s, t) \in Symbol
  BY XorType
<1> DEFINE T == {n \in Nat : n < nn =>
                   Product(n, index_of[Xor(s, t)])
                     = Xor(Product(n, index_of[s]), Product(n, index_of[t]))}
<1>3. 0 \in T
  <2>1. \A u \in Symbol : Product(0, index_of[u]) = u
    BY IndexFacts, ProductFacts
  <2> QED
    BY <1>2, <2>1
<1>4. ASSUME NEW n \in T PROVE n + 1 \in T
  <2> SUFFICES ASSUME n + 1 < nn
               PROVE  Product(n + 1, index_of[Xor(s, t)])
                        = Xor(Product(n + 1, index_of[s]), Product(n + 1, index_of[t]))
    OBVIOUS
  <2>1. n \in Indices /\ n + 1 \in Indices /\ n # nn /\ n + 1 # nn /\ n < nn /\ n \in Nat
    BY <1>1 DEF Indices
  <2>2. ASSUME NEW u \in Symbol
        PROVE  Product(n + 1, index_of[u]) = ShiftLeft(Product(n, index_of[u]))
    <3> DEFINE j == index_of[u]
    <3>1. j \in Indices /\ j \in Nat
      BY IndexFacts, Sizes DEF Indices
    <3> HIDE DEF j
    <3>2. ASSUME j = nn
          PROVE  Product(n + 1, j) = ShiftLeft(Product(n, j))
      <4>1. Product(n + 1, j) = {} /\ Product(n, j) = {}
        BY <2>1, <3>2, ProductFacts
      <4> QED
        BY <4>1, ShiftLinear
    <3>3. ASSUME j # nn
          PROVE  Product(n + 1, j) = ShiftLeft(Product(n, j))
      <4>1. Product(n, j) = power[n + j] /\ Product(n + 1, j) = power[(n + 1) + j]
        BY <2>1, <3>1, <3>3, ProductFacts
      <4>2. (n + 1) + j = (n + j) + 1 /\ n + j \in Nat
        BY <2>1, <3>1
      <4> QED
        BY <4>1, <4>2, PowersType
    <3> QED
      BY <3>2, <3>3 DEF j
  <2> DEFINE a == Product(n, index_of[s])
             b == Product(n, index_of[t])
             c == Product(n, index_of[Xor(s, t)])
  <2>3. c = Xor(a, b)
    BY <2>1
  <2>4. a \in Symbol /\ b \in Symbol
    BY <2>1, IndexFacts, ProductFacts
  <2>5. /\ Product(n + 1, index_of[s]) = ShiftLeft(a)
        /\ Product(n + 1, index_of[t]) = ShiftLeft(b)
        /\ Product(n + 1, index_of[Xor(s, t)]) = ShiftLeft(c)
    BY <1>2, <2>2
  <2> HIDE DEF a, b, c
  <2> QED
    BY <2>3, <2>4, <2>5, ShiftLinear
<1>5. T = Nat
  <2>1. T \in SUBSET Nat
    OBVIOUS
  <2> HIDE DEF T
  <2> QED
    BY <1>3, <1>4, <2>1, Everything
<1>6. CASE k = nn
  <2>1. \A u \in Symbol : Product(k, index_of[u]) = {}
    BY <1>6, IndexFacts, ProductFacts
  <2> QED
    BY <1>2, <2>1, XorLaws
<1>7. CASE k # nn
  <2>1. k \in Nat /\ k < nn
    BY <1>1, <1>7 DEF Indices
  <2>2. k \in T
    BY <1>5, <2>1
  <2> QED
    BY <2>1, <2>2
<1> QED
  BY <1>6, <1>7

\* A power may be reduced before more is added to its exponent.
LEMMA PowersMod == \A x, m \in Nat : power[(x % nn) + m] = power[x + m]
<1> TAKE x \in Nat, m \in Nat
<1>1. nn \in Nat /\ nn >= 1
  BY Sizes
<1> DEFINE p == nn   s == x % p
<1>2. s \in Nat /\ (s + m) % p = (x + m) % p
  <2> HIDE DEF p
  <2>1. s \in Nat
    BY <1>1, DivModOf DEF p
  <2>2. p \in Nat /\ p >= 1
    BY <1>1 DEF p
  <2> QED
    BY <2>1, <2>2, ModOfRest
<1> HIDE DEF s
<1>3. power[(s + m) % nn] = power[s + m] /\ power[(x + m) % nn] = power[x + m]
  BY <1>2, PowersReturn
<1> QED
  BY <1>2, <1>3 DEF s

\* Multiplication is associative.
LEMMA Associative ==
  ASSUME NEW i \in Indices, NEW j \in Indices, NEW k \in Indices
  PROVE  Product(index_of[Product(i, j)], k) = Product(i, index_of[Product(j, k)])
<1>1. i \in Nat /\ j \in Nat /\ k \in Nat /\ nn \in Indices
  BY Sizes DEF Indices
<1>2. index_of[{}] = nn /\ \A u \in Symbol : index_of[u] = nn <=> u = {}
  BY IndexFacts, Zero
<1>3. CASE i = nn \/ j = nn \/ k = nn
  <2>1. \A m \in Indices : Product(nn, m) = {} /\ Product(m, nn) = {}
    BY ProductFacts
  <2>2. index_of[Product(i, j)] \in Indices /\ index_of[Product(j, k)] \in Indices
    BY IndexFacts, ProductFacts
  <2>3. CASE i = nn
    BY <1>2, <2>1, <2>2, <2>3
  <2>4. CASE j = nn
    BY <1>2, <2>1, <2>2, <2>4
  <2>5. CASE k = nn
    BY <1>2, <2>1, <2>2, <2>5
  <2> QED
    BY <1>3, <2>3, <2>4, <2>5
<1>4. CASE ~(i = nn \/ j = nn \/ k = nn)
  <2>1. \A x, m \in Nat : power[(x % nn) + m] = power[x + m]
    BY PowersMod
  <2>2. ASSUME NEW x \in Nat PROVE index_of[power[x]] = x % nn
    <3>1. x % nn \in 0..(nn - 1)
      BY Sizes
    <3>2. x % nn \in Indices /\ x % nn # nn
      BY <3>1, Sizes DEF Indices
    <3>3. alpha_to[x % nn] = power[x % nn]
      BY <3>2 DEF alpha_to, Indices
    <3> QED
      BY <3>2, <3>3, IndexFacts, PowersReturn
  <2>3. i + j \in Nat /\ j + k \in Nat /\ (i + j) + k = i + (j + k) /\ (j + k) + i = i + (j + k)
    BY <1>1
  <2>4. \A x \in Nat : x % nn \in Indices /\ x % nn # nn /\ x % nn \in Nat
    BY Sizes DEF Indices
  <2>5. Product(i, j) = power[i + j] /\ Product(j, k) = power[j + k]
    BY <1>4, ProductFacts
  <2>6. Product((i + j) % nn, k) = power[((i + j) % nn) + k]
    BY <1>4, <2>3, <2>4, ProductFacts
  <2>7. Product(i, (j + k) % nn) = power[((j + k) % nn) + i]
    <3>1. Product(i, (j + k) % nn) = Product((j + k) % nn, i)
      BY <2>3, <2>4, ProductFacts
    <3> QED
      BY <1>4, <2>3, <2>4, <3>1, ProductFacts
  <2>8. index_of[Product(i, j)] = (i + j) % nn /\ index_of[Product(j, k)] = (j + k) % nn
    BY <2>2, <2>3, <2>5
  <2>9. /\ power[((i + j) % nn) + k] = power[(i + j) + k]
        /\ power[((j + k) % nn) + i] = power[(j + k) + i]
    BY <1>1, <2>1, <2>3
  <2>10. Product((i + j) % nn, k) = Product(i, (j + k) % nn)
    BY <2>3, <2>6, <2>7, <2>9
  <2> QED
    BY <2>8, <2>10
<1> QED
  BY <1>3, <1>4

-----------------------------------------------------------------------------
(* Sums of symbols.                                                          *)

\* The sum of f[0] to f[n].
XorSum(n, f) == {bit \in 0..mm-1 : Cardinality({i \in 0..n : bit \in f[i]}) % 2 = 1}

\* A sum is a symbol, which depends on its terms only, and not on zeros at its end.
LEMMA SumType == ASSUME NEW n, NEW f PROVE XorSum(n, f) \in Symbol
BY DEF XorSum, Symbol

\* Equal terms have equal sums;
LEMMA SumSame ==
  ASSUME NEW n, NEW f, NEW g, \A i \in 0..n : f[i] = g[i]
  PROVE  XorSum(n, f) = XorSum(n, g)
<1>1. \A bit : {i \in 0..n : bit \in f[i]} = {i \in 0..n : bit \in g[i]}
  OBVIOUS
<1> QED
  BY <1>1 DEF XorSum

\* terms that are zero can be left out;
LEMMA SumTail ==
  ASSUME NEW n \in Nat, NEW m \in Nat, m <= n, NEW f, \A i \in (m + 1)..n : f[i] = {}
  PROVE  XorSum(n, f) = XorSum(m, f)
<1>1. \A bit : {i \in 0..n : bit \in f[i]} = {i \in 0..m : bit \in f[i]}
  OBVIOUS
<1> QED
  BY <1>1 DEF XorSum

\* A sum can be made term by term.
LEMMA SumFirst ==
  ASSUME NEW f, f[0] \in Symbol
  PROVE  XorSum(0, f) = f[0]
<1>1. ASSUME NEW bit \in 0..(mm - 1)
      PROVE  bit \in XorSum(0, f) <=> bit \in f[0]
  <2> DEFINE S == {i \in 0..0 : bit \in f[i]}
  <2>1. CASE bit \in f[0]
    <3>1. S = {0}
      BY <2>1
    <3>2. Cardinality(S) = 1
      BY <3>1, FS_Singleton
    <3> QED
      BY <2>1, <3>2 DEF XorSum
  <2>2. CASE bit \notin f[0]
    <3>1. S = {}
      BY <2>2
    <3>2. Cardinality(S) = 0
      BY <3>1, FS_EmptySet
    <3> QED
      BY <2>2, <3>2 DEF XorSum
  <2> QED
    BY <2>1, <2>2
<1> QED
  BY <1>1 DEF XorSum, Symbol

\* one more term is added to the sum.
LEMMA SumNext ==
  ASSUME NEW n \in Nat, NEW f, f[n + 1] \in Symbol
  PROVE  XorSum(n + 1, f) = Xor(XorSum(n, f), f[n + 1])
<1>1. ASSUME NEW bit \in 0..(mm - 1)
      PROVE  bit \in XorSum(n + 1, f) <=> bit \in Xor(XorSum(n, f), f[n + 1])
  <2> DEFINE S == {i \in 0..n : bit \in f[i]}
             T == {i \in 0..(n + 1) : bit \in f[i]}
             c == Cardinality(S)
             d == Cardinality(T)
  <2>1. IsFiniteSet(S) /\ c \in Nat
    <3>1. IsFiniteSet(0..n) /\ S \in SUBSET (0..n)
      BY FS_Interval
    <3> HIDE DEF S
    <3> QED
      BY <3>1, FS_Subset, FS_CardinalityType
  <2>2. n + 1 \notin S
    OBVIOUS
  <2>3. (bit \in XorSum(n, f) <=> c % 2 = 1) /\ (bit \in XorSum(n + 1, f) <=> d % 2 = 1)
    BY DEF XorSum
  <2>4. CASE bit \in f[n + 1]
    <3>1. T = S \cup {n + 1}
      BY <2>4
    <3> HIDE DEF S, T
    <3>2. d = c + 1
      BY <2>1, <2>2, <3>1, FS_AddElement
    <3> HIDE DEF c, d
    <3>3. d % 2 = 1 <=> ~(c % 2 = 1)
      BY <2>1, <3>2
    <3> QED
      BY <2>3, <2>4, <3>3 DEF Xor
  <2>5. CASE bit \notin f[n + 1]
    <3>1. T = S
      BY <2>5
    <3> QED
      BY <2>3, <2>5, <3>1 DEF Xor
  <2> QED
    BY <2>4, <2>5
<1>2. XorSum(n + 1, f) \subseteq 0..(mm - 1) /\ Xor(XorSum(n, f), f[n + 1]) \subseteq 0..(mm - 1)
  BY DEF XorSum, Xor, Symbol
<1> QED
  BY <1>1, <1>2

\* An additive function of a sum.
LEMMA SumImage ==
  ASSUME NEW M \in [Symbol -> Symbol],
         \A s, t \in Symbol : M[Xor(s, t)] = Xor(M[s], M[t]),
         NEW n \in Nat, NEW f, NEW g,
         \A i \in 0..n : f[i] \in Symbol /\ g[i] = M[f[i]]
  PROVE  M[XorSum(n, f)] = XorSum(n, g)
<1> DEFINE T == {k \in Nat : k <= n => M[XorSum(k, f)] = XorSum(k, g)}
<1>1. 0 \in T
  <2>1. f[0] \in Symbol /\ g[0] \in Symbol /\ g[0] = M[f[0]]
    OBVIOUS
  <2> QED
    BY <2>1, SumFirst
<1>2. ASSUME NEW k \in T PROVE k + 1 \in T
  <2> SUFFICES ASSUME k + 1 <= n PROVE M[XorSum(k + 1, f)] = XorSum(k + 1, g)
    OBVIOUS
  <2>1. k \in Nat /\ f[k + 1] \in Symbol /\ g[k + 1] \in Symbol /\ g[k + 1] = M[f[k + 1]]
    OBVIOUS
  <2>2. M[XorSum(k, f)] = XorSum(k, g)
    OBVIOUS
  <2>3. XorSum(k + 1, f) = Xor(XorSum(k, f), f[k + 1])
    BY <2>1, SumNext
  <2>4. XorSum(k + 1, g) = Xor(XorSum(k, g), g[k + 1])
    BY <2>1, SumNext
  <2> QED
    BY <2>1, <2>2, <2>3, <2>4, SumType
<1>3. T = Nat
  <2>1. T \in SUBSET Nat
    OBVIOUS
  <2> HIDE DEF T
  <2> QED
    BY <1>1, <1>2, <2>1, Everything
<1> QED
  BY <1>3

\* The sum of sums.
LEMMA SumOfSums ==
  ASSUME NEW n \in Nat, NEW f, NEW g, NEW h,
         \A i \in 0..n : f[i] \in Symbol /\ g[i] \in Symbol /\ h[i] = Xor(f[i], g[i])
  PROVE  XorSum(n, h) = Xor(XorSum(n, f), XorSum(n, g))
<1> DEFINE T == {k \in Nat : k <= n => XorSum(k, h) = Xor(XorSum(k, f), XorSum(k, g))}
<1>1. 0 \in T
  <2>1. f[0] \in Symbol /\ g[0] \in Symbol /\ h[0] = Xor(f[0], g[0])
    OBVIOUS
  <2>2. h[0] \in Symbol
    BY <2>1, XorType
  <2> QED
    BY <2>1, <2>2, SumFirst
<1>2. ASSUME NEW k \in T PROVE k + 1 \in T
  <2> SUFFICES ASSUME k + 1 <= n PROVE XorSum(k + 1, h) = Xor(XorSum(k + 1, f), XorSum(k + 1, g))
    OBVIOUS
  <2>1. k \in Nat /\ f[k + 1] \in Symbol /\ g[k + 1] \in Symbol
        /\ h[k + 1] = Xor(f[k + 1], g[k + 1])
    OBVIOUS
  <2>2. h[k + 1] \in Symbol
    BY <2>1, XorType
  <2>3. XorSum(k, h) = Xor(XorSum(k, f), XorSum(k, g))
    OBVIOUS
  <2>4. /\ XorSum(k + 1, f) = Xor(XorSum(k, f), f[k + 1])
        /\ XorSum(k + 1, g) = Xor(XorSum(k, g), g[k + 1])
        /\ XorSum(k + 1, h) = Xor(XorSum(k, h), h[k + 1])
    BY <2>1, <2>2, SumNext
  <2> HIDE DEF T
  <2> QED
    BY <2>1, <2>3, <2>4 DEF Xor
<1>3. T = Nat
  <2>1. T \in SUBSET Nat
    OBVIOUS
  <2> HIDE DEF T
  <2> QED
    BY <1>1, <1>2, <2>1, Everything
<1> QED
  BY <1>3

\* A sum whose first term is zero, with its terms moved by one.
LEMMA SumShifted ==
  ASSUME NEW n \in Nat, NEW f, NEW g, f[0] = {},
         \A i \in 0..n : g[i] \in Symbol /\ f[i + 1] = g[i]
  PROVE  XorSum(n + 1, f) = XorSum(n, g)
<1> DEFINE T == {k \in Nat : k <= n => XorSum(k + 1, f) = XorSum(k, g)}
<1>1. 0 \in T
  <2>1. g[0] \in Symbol /\ f[0 + 1] = g[0]
    OBVIOUS
  <2>2. XorSum(0, g) = g[0] /\ XorSum(0, f) = {}
    BY <2>1, SumFirst, Zero
  <2>3. XorSum(0 + 1, f) = Xor(XorSum(0, f), f[0 + 1])
    BY <2>1, SumNext
  <2> QED
    BY <2>1, <2>2, <2>3, XorLaws
<1>2. ASSUME NEW k \in T PROVE k + 1 \in T
  <2> SUFFICES ASSUME k + 1 <= n PROVE XorSum((k + 1) + 1, f) = XorSum(k + 1, g)
    OBVIOUS
  <2>1. k \in Nat /\ k + 1 \in Nat /\ g[k + 1] \in Symbol /\ f[(k + 1) + 1] = g[k + 1]
    OBVIOUS
  <2>2. XorSum(k + 1, f) = XorSum(k, g)
    OBVIOUS
  <2>3. XorSum((k + 1) + 1, f) = Xor(XorSum(k + 1, f), f[(k + 1) + 1])
    BY <2>1, SumNext
  <2>4. XorSum(k + 1, g) = Xor(XorSum(k, g), g[k + 1])
    BY <2>1, SumNext
  <2> QED
    BY <2>1, <2>2, <2>3, <2>4
<1>3. T = Nat
  <2>1. T \in SUBSET Nat
    OBVIOUS
  <2> HIDE DEF T
  <2> QED
    BY <1>1, <1>2, <2>1, Everything
<1> QED
  BY <1>3

-----------------------------------------------------------------------------
(* The arrays of the encoder and of the decoder.                             *)

\* The generator polynomial consists of symbols,
LEMMA PartialType ==
  /\ partial \in [0..nroots -> [0..nroots -> Symbol]]
  /\ genpoly \in [0..nroots -> Indices]
  /\ partial[0] = [j \in 0..nroots |-> IF j = 0 THEN {0} ELSE {}]
  /\ \A i \in 0..nroots-1, j \in 0..nroots :
       partial[i + 1][j] = Xor(IF j = 0 THEN {} ELSE partial[i][j - 1],
                               Product(index_of[partial[i][j]], i))
<1>1. nroots \in Nat /\ nroots < nn /\ nn \in Nat
  BY Sizes
<1> DEFINE P == [0..nroots -> Symbol]
           first == [j \in 0..nroots |-> IF j = 0 THEN {0} ELSE {}]
           next(p, i) == [j \in 0..nroots |->
                            Xor(IF j = 0 THEN {} ELSE p[j - 1], Product(index_of[p[j]], i))]
           Rec(g) == [i \in 0..nroots |-> IF i = 0 THEN first ELSE next(g[i - 1], i - 1)]
           Step == [p \in Nat \X P |-> IF p[1] < nn THEN next(p[2], p[1]) ELSE p[2]]
<1>2. first \in P
  BY Zero, One
<1>3. ASSUME NEW p \in P, NEW i \in Nat, i < nn PROVE next(p, i) \in P
  <2>1. i \in Indices
    BY <1>1, <1>3 DEF Indices
  <2>2. ASSUME NEW j \in 0..nroots
        PROVE  Xor(IF j = 0 THEN {} ELSE p[j - 1], Product(index_of[p[j]], i)) \in Symbol
    <3>1. (IF j = 0 THEN {} ELSE p[j - 1]) \in Symbol
      BY <1>1, Zero
    <3>2. Product(index_of[p[j]], i) \in Symbol
      BY <2>1, IndexFacts, ProductFacts
    <3> QED
      BY <3>1, <3>2, XorType
  <2> QED
    BY <2>2
<1> HIDE DEF first, next, P
<1>4. Step \in [Nat \X P -> P]
  BY <1>3
<1>5. PICK f : IteratesAll(f, P, first, Step)
  <2> HIDE DEF Step
  <2> QED
    BY <1>2, <1>4, Iterate
<1> DEFINE g == [i \in 0..nroots |-> f[i]]
<1>6. g = Rec(g)
  <2>1. ASSUME NEW i \in 0..nroots PROVE g[i] = Rec(g)[i]
    <3>1. CASE i = 0
      BY <1>5, <3>1 DEF IteratesAll
    <3>2. CASE i # 0
      <4>1. i - 1 \in Nat /\ (i - 1) + 1 = i /\ i - 1 < nn /\ i - 1 \in 0..nroots /\ i \in Nat
        BY <1>1, <3>2
      <4>2. f[(i - 1) + 1] = Step[<<i - 1, f[i - 1]>>] /\ f[i - 1] \in P
        BY <1>5, <4>1 DEF IteratesAll
      <4> QED
        BY <3>2, <4>1, <4>2
    <3> QED
      BY <3>1, <3>2
  <2> QED
    BY <2>1
<1>7. partial = Rec(partial)
  BY <1>6 DEF partial, first, next
<1>8. \A i \in 0..nroots : partial[i] = IF i = 0 THEN first ELSE next(partial[i - 1], i - 1)
  BY <1>7
<1> DEFINE T == {i \in Nat : i <= nroots => partial[i] \in P}
<1>9. T = Nat
  <2>1. 0 \in T
    BY <1>1, <1>2, <1>8
  <2>2. ASSUME NEW i \in T PROVE i + 1 \in T
    <3> SUFFICES ASSUME i + 1 <= nroots PROVE partial[i + 1] \in P
      OBVIOUS
    <3>1. i \in Nat /\ i < nn /\ i + 1 \in 0..nroots /\ i + 1 # 0 /\ (i + 1) - 1 = i
          /\ partial[i] \in P
      BY <1>1
    <3> QED
      BY <1>3, <1>8, <3>1
  <2>3. T \in SUBSET Nat
    OBVIOUS
  <2> HIDE DEF T
  <2> QED
    BY <2>1, <2>2, <2>3, Everything
<1>10. partial \in [0..nroots -> P]
  <2>1. partial = [i \in 0..nroots |-> partial[i]]
    BY <1>7
  <2>2. \A i \in 0..nroots : i \in T
    <3>1. \A i \in 0..nroots : i \in Nat
      BY <1>1
    <3> HIDE DEF T
    <3> QED
      BY <1>9, <3>1
  <2>3. \A i \in 0..nroots : partial[i] \in P
    BY <1>1, <2>2
  <2> HIDE DEF T, Rec
  <2> QED
    BY <2>1, <2>3
<1>11. genpoly \in [0..nroots -> Indices]
  <2>1. partial[nroots] \in [0..nroots -> Symbol]
    BY <1>1, <1>10 DEF P
  <2> QED
    BY <2>1, IndexFacts DEF genpoly
<1>12. partial[0] = first
  BY <1>1, <1>8
<1>13. ASSUME NEW i \in 0..nroots-1 PROVE partial[i + 1] = next(partial[i], i)
  <2>1. i + 1 \in 0..nroots /\ i + 1 # 0 /\ (i + 1) - 1 = i
    BY <1>1
  <2> QED
    BY <1>8, <2>1
<1> QED
  BY <1>10, <1>11, <1>12, <1>13 DEF P, first, next

\* and so does the parity, through every step of the encoder,
LEMMA EncodeStepType ==
  ASSUME NEW par \in Parity, NEW s \in Symbol
  PROVE  EncodeStep(par, s) \in Parity
<1>1. nroots \in Nat /\ nroots >= 1 /\ nn \in Nat
  BY Sizes
<1> DEFINE fb == index_of[Xor(s, par[0])]
<1>2. fb \in Nat
  <2>1. par[0] \in Symbol
    BY <1>1 DEF Parity
  <2>2. fb \in Indices
    BY <2>1, XorType, IndexFacts
  <2> QED
    BY <1>1, <2>2 DEF Indices
<1> HIDE DEF fb
<1>3. ASSUME NEW j \in 0..nroots-1
      PROVE  Xor(IF j = nroots - 1 THEN {} ELSE par[j + 1],
                 IF fb = nn THEN {} ELSE Power(fb + genpoly[nroots - 1 - j])) \in Symbol
  <2>1. (IF j = nroots - 1 THEN {} ELSE par[j + 1]) \in Symbol
    BY <1>1, Zero DEF Parity
  <2>2. fb + genpoly[nroots - 1 - j] \in Nat
    <3>1. nroots - 1 - j \in 0..nroots
      BY <1>1
    <3>2. genpoly[nroots - 1 - j] \in Nat
      BY <1>1, <3>1, PartialType DEF Indices
    <3> QED
      BY <1>2, <3>2
  <2>3. (IF fb = nn THEN {} ELSE Power(fb + genpoly[nroots - 1 - j])) \in Symbol
    BY <2>2, PowerIs, Zero
  <2> QED
    BY <2>1, <2>3, XorType
<1> QED
  BY <1>3 DEF EncodeStep, Parity, fb

\* The registers of encode_rs8(), after each symbol of data.
EncodeRuns(g, data, par) ==
  /\ g \in [0..(nn - nroots) -> Parity]
  /\ g[0] = par
  /\ \A i \in 0..(nn - nroots)-1 : g[i + 1] = EncodeStep(g[i], data[i])

\* encode_rs8()'s loop over the data runs through such parities.
LEMMA EncodeRun ==
  ASSUME NEW data \in Message, NEW par \in Parity
  PROVE  \E g : EncodeRuns(g, data, par) /\ encode_rs8(data, par) = g[nn - nroots]
<1>1. nn - nroots \in Nat /\ nn - nroots >= 1
  BY Sizes
<1> DEFINE n == nn - nroots
           Rec(g) == [i \in 0..n |-> IF i = 0 THEN par ELSE EncodeStep(g[i - 1], data[i - 1])]
           Step == [p \in Nat \X Parity |-> IF p[1] < n THEN EncodeStep(p[2], data[p[1]]) ELSE p[2]]
           reg == CHOOSE g : g = Rec(g)
<1>2. encode_rs8(data, par) = reg[n]
  BY DEF encode_rs8
<1>3. \A i \in Nat : i < n => data[i] \in Symbol
  BY <1>1 DEF Message, DataSymbol
<1>4. n \in Nat
  BY <1>1
<1> HIDE DEF n
<1>5. Step \in [Nat \X Parity -> Parity]
  BY <1>3, EncodeStepType
<1>6. PICK f : IteratesAll(f, Parity, par, Step)
  <2> HIDE DEF Step
  <2> QED
    BY <1>5, Iterate
<1> DEFINE h == [i \in 0..n |-> f[i]]
<1>7. h = Rec(h)
  <2>1. ASSUME NEW i \in 0..n PROVE h[i] = Rec(h)[i]
    <3>1. CASE i = 0
      BY <1>6, <3>1 DEF IteratesAll
    <3>2. CASE i # 0
      <4>1. i - 1 \in Nat /\ (i - 1) + 1 = i /\ i - 1 < n /\ i - 1 \in 0..n /\ i \in Nat
        BY <1>4, <3>2
      <4>2. f[(i - 1) + 1] = Step[<<i - 1, f[i - 1]>>] /\ f[i - 1] \in Parity
        BY <1>6, <4>1 DEF IteratesAll
      <4> QED
        BY <3>2, <4>1, <4>2
    <3> QED
      BY <3>1, <3>2
  <2> QED
    BY <2>1
<1>8. reg = Rec(reg)
  BY <1>7
<1> HIDE DEF reg
<1>9. \A i \in 0..n : reg[i] = IF i = 0 THEN par ELSE EncodeStep(reg[i - 1], data[i - 1])
  BY <1>8
<1> DEFINE T == {i \in Nat : i <= n => reg[i] \in Parity}
<1>10. T = Nat
  <2>1. 0 \in T
    BY <1>4, <1>9
  <2>2. ASSUME NEW i \in T PROVE i + 1 \in T
    <3> SUFFICES ASSUME i + 1 <= n PROVE reg[i + 1] \in Parity
      OBVIOUS
    <3>1. i \in Nat /\ i < n /\ i + 1 \in 0..n /\ i + 1 # 0 /\ (i + 1) - 1 = i /\ reg[i] \in Parity
      BY <1>4
    <3> QED
      BY <1>3, <1>9, <3>1, EncodeStepType
  <2>3. T \in SUBSET Nat
    OBVIOUS
  <2> HIDE DEF T
  <2> QED
    BY <2>1, <2>2, <2>3, Everything
<1>11. EncodeRuns(reg, data, par)
  <2>1. \A i \in 0..n : reg[i] \in Parity
    <3>1. \A i \in 0..n : i \in Nat /\ i <= n
      BY <1>4
    <3> QED
      BY <1>10, <3>1
  <2>2. reg = [i \in 0..n |-> reg[i]]
    BY <1>8
  <2>3. reg \in [0..n -> Parity]
    BY <2>1, <2>2
  <2>4. reg[0] = par
    BY <1>4, <1>9
  <2>5. ASSUME NEW i \in 0..n-1 PROVE reg[i + 1] = EncodeStep(reg[i], data[i])
    <3>1. i + 1 \in 0..n /\ i + 1 # 0 /\ (i + 1) - 1 = i
      BY <1>4
    <3> QED
      BY <1>9, <3>1
  <2> QED
    BY <2>3, <2>4, <2>5 DEF EncodeRuns, n
<1> QED
  BY <1>2, <1>11 DEF n

\* Its result is a parity.
LEMMA EncodeType ==
  ASSUME NEW data \in Message, NEW par \in Parity
  PROVE  encode_rs8(data, par) \in Parity
<1>1. PICK g : EncodeRuns(g, data, par) /\ encode_rs8(data, par) = g[nn - nroots]
  BY EncodeRun
<1>2. nn - nroots \in 0..(nn - nroots)
  BY Sizes
<1> QED
  BY <1>1, <1>2 DEF EncodeRuns

\* The values that Horner's rule goes through for the root of index i.
HornerRuns(g, word, i) ==
  /\ \A j \in 0..nn-1 : g[j] \in Symbol
  /\ g[0] = word[0]
  /\ \A j \in Nat : j + 1 < nn => g[j + 1] = Xor(word[j + 1], Product(index_of[g[j]], i))

\* decode_rs8()'s loop for one syndrome runs through such values.
LEMMA HornerRun ==
  ASSUME NEW word \in [0..nn-1 -> Symbol], NEW i \in 0..nroots-1
  PROVE  \E g : HornerRuns(g, word, i) /\ Syndromes(word)[i] = index_of[g[nn - 1]]
<1>0. nn \in Nat /\ nn >= 2 /\ nroots \in Nat /\ nroots < nn
  BY Sizes
<1> DEFINE Rec(g) == [j \in 0..nn-1 |-> IF j = 0 THEN word[0]
                        ELSE Xor(word[j], Product(index_of[g[j - 1]], i))]
           horner == CHOOSE g : g = Rec(g)
           Step == [p \in Nat \X Symbol |-> IF p[1] + 1 < nn
                      THEN Xor(word[p[1] + 1], Product(index_of[p[2]], i)) ELSE p[2]]
<1>1. Syndromes(word)[i] = index_of[horner[nn - 1]]
  BY DEF Syndromes
<1>2. i \in Indices
  BY <1>0 DEF Indices
<1>3. ASSUME NEW j \in Nat, NEW s \in Symbol, j < nn
      PROVE  Xor(word[j], Product(index_of[s], i)) \in Symbol
  <2>1. word[j] \in Symbol
    BY <1>0, <1>3
  <2>2. Product(index_of[s], i) \in Symbol
    BY <1>2, IndexFacts, ProductFacts
  <2> QED
    BY <2>1, <2>2, XorType
<1>4. Step \in [Nat \X Symbol -> Symbol]
  BY <1>3
<1>5. word[0] \in Symbol
  BY <1>0
<1>6. PICK f : IteratesAll(f, Symbol, word[0], Step)
  <2> HIDE DEF Step
  <2> QED
    BY <1>4, <1>5, Iterate
<1> DEFINE h == [j \in 0..nn-1 |-> f[j]]
<1>7. h = Rec(h)
  <2>1. ASSUME NEW j \in 0..nn-1 PROVE h[j] = Rec(h)[j]
    <3>1. CASE j = 0
      BY <1>6, <3>1 DEF IteratesAll
    <3>2. CASE j # 0
      <4>1. j - 1 \in Nat /\ (j - 1) + 1 = j /\ j < nn /\ j - 1 \in 0..nn-1 /\ j \in Nat
        BY <1>0, <3>2
      <4>2. f[(j - 1) + 1] = Step[<<j - 1, f[j - 1]>>] /\ f[j - 1] \in Symbol
        BY <1>6, <4>1 DEF IteratesAll
      <4> QED
        BY <3>2, <4>1, <4>2
    <3> QED
      BY <3>1, <3>2
  <2> QED
    BY <2>1
<1>8. horner = Rec(horner)
  BY <1>7
<1> HIDE DEF horner
<1>9. \A j \in 0..nn-1 : horner[j] = IF j = 0 THEN word[0]
                           ELSE Xor(word[j], Product(index_of[horner[j - 1]], i))
  BY <1>8
<1> DEFINE T == {j \in Nat : j < nn => horner[j] \in Symbol}
<1>10. T = Nat
  <2>1. 0 \in T
    BY <1>0, <1>5, <1>9
  <2>2. ASSUME NEW j \in T PROVE j + 1 \in T
    <3> SUFFICES ASSUME j + 1 < nn PROVE horner[j + 1] \in Symbol
      OBVIOUS
    <3>1. /\ j \in Nat /\ j + 1 \in 0..nn-1 /\ j + 1 # 0 /\ (j + 1) - 1 = j /\ j + 1 \in Nat
          /\ horner[j] \in Symbol
      BY <1>0
    <3> QED
      BY <1>3, <1>9, <3>1
  <2>3. T \in SUBSET Nat
    OBVIOUS
  <2> HIDE DEF T
  <2> QED
    BY <2>1, <2>2, <2>3, Everything
<1>11. HornerRuns(horner, word, i)
  <2>1. \A j \in 0..nn-1 : horner[j] \in Symbol
    <3>1. \A j \in 0..nn-1 : j \in Nat /\ j < nn
      BY <1>0
    <3> QED
      BY <1>10, <3>1
  <2>2. ASSUME NEW j \in Nat, j + 1 < nn
        PROVE  horner[j + 1] = Xor(word[j + 1], Product(index_of[horner[j]], i))
    <3>1. j + 1 \in 0..nn-1 /\ j + 1 # 0 /\ (j + 1) - 1 = j
      BY <1>0, <2>2
    <3> QED
      BY <1>9, <3>1
  <2>3. horner[0] = word[0]
    BY <1>0, <1>9
  <2> QED
    BY <2>1, <2>2, <2>3 DEF HornerRuns
<1> QED
  BY <1>1, <1>11

\* Syndromes are indices.
LEMMA SyndromesType ==
  ASSUME NEW word \in [0..nn-1 -> Symbol]
  PROVE  Syndromes(word) \in [0..nroots-1 -> Indices]
<1>1. ASSUME NEW i \in 0..nroots-1 PROVE Syndromes(word)[i] \in Indices
  <2>1. PICK g : HornerRuns(g, word, i) /\ Syndromes(word)[i] = index_of[g[nn - 1]]
    BY HornerRun
  <2>2. nn - 1 \in 0..nn-1
    BY Sizes
  <2> QED
    BY <2>1, <2>2, IndexFacts DEF HornerRuns
<1>2. Syndromes(word) = [i \in 0..nroots-1 |-> Syndromes(word)[i]]
  BY DEF Syndromes
<1> QED
  BY <1>1, <1>2

-----------------------------------------------------------------------------
(* The way of the bytes through an image.                                    *)

\* The bytes of a block, and the levels it is painted with.
Chunk(bytes, b) == [k \in 0..BlockBytes-1 |-> bytes[b * BlockBytes + k]]
Indexes(bytes, b) == ToInts(InitFromString(Chunk(bytes, b)))

Painted(bytes) == Fill([b \in Block |-> Indexes(bytes, b)], BlocksWide, BlocksHigh)

ReadBlock(pixels, b) ==
  ToString(InitFromInts([c \in Cell |-> FindClosest(Means(pixels, b)[c])]))

ReadBack(pixels) ==
  [k \in 0..2*nn-1 |-> ReadBlock(pixels, k \div BlockBytes)[k % BlockBytes]]

\* The sizes that EccAssumption and BlockMatrixAssumption leave.
LEMMA ImageSizes ==
  /\ BlocksWide \in Nat /\ BlocksWide >= 1 /\ BlocksHigh \in Nat /\ BlocksHigh >= 1
  /\ Side \in Nat /\ Side >= 1 /\ PixelDim \in Nat /\ PixelDim = 2 * Side
  /\ ByteBits = mm /\ ByteBits \in Nat /\ ByteBits >= 1
  /\ BlockBytes \in Nat /\ BlockBytes >= 1 /\ BlockBits = BlockBytes * ByteBits
  /\ (BlocksWide * BlocksHigh) * BlockBytes = 2 * nn
  /\ CellBits = 3 /\ nn \in Nat /\ nn >= 2
<1>1. /\ BlocksWide \in Nat /\ BlocksWide >= 1 /\ BlocksHigh \in Nat /\ BlocksHigh >= 1
      /\ ByteBits = mm /\ (BlocksWide * BlocksHigh) * BlockBytes = 2 * nn
  BY EccAssumption
<1>2. Side \in Nat /\ Side >= 1 /\ ByteBits \in Nat /\ ByteBits >= 1 /\ BlockBits % ByteBits = 0
  BY BlockMatrixAssumption
<1>3. PixelDim \in Nat /\ PixelDim = 2 * Side /\ CellBits = 3
  BY <1>2 DEF PixelDim, CellBits
<1>4. BlockBits \in Nat /\ BlockBits >= 1
  <2>1. Side * Side \in Nat /\ Side * Side >= 1
    BY <1>2
  <2> QED
    BY <2>1 DEF BlockBits, CellBits
<1>5. BlockBytes \in Nat /\ BlockBits = ByteBits * BlockBytes + 0
  <2> HIDE DEF BlockBits
  <2> QED
    BY <1>2, <1>4, DivModOf DEF BlockBytes
<1> HIDE DEF BlockBits, BlockBytes
<1>6. BlockBytes >= 1 /\ BlockBits = BlockBytes * ByteBits
  BY <1>2, <1>4, <1>5
<1> QED
  BY <1>1, <1>2, <1>3, <1>5, <1>6, Sizes

\* Pixel <<u, v>> of cell c of block b lies in the image, of w x h blocks of e x e cells, and
\* Fill() finds block and cell from it.
Found(w, h, e, b, c, u, v) ==
  LET i == 2 * (c \div e) + u
      j == 2 * (c % e) + v
      row == (b \div w) * (2 * e) + i
      col == (b % w) * (2 * e) + j
  IN  /\ i \in 0..(2 * e - 1) /\ j \in 0..(2 * e - 1)
      /\ row \in 0..(h * (2 * e) - 1) /\ col \in 0..(w * (2 * e) - 1)
      /\ (row \div (2 * e)) * w + col \div (2 * e) = b
      /\ ((row % (2 * e)) \div 2) * e + (col % (2 * e)) \div 2 = c

\* The pixel that a symbol's cell is painted on is the one it is read from.
LEMMA PixelPlace ==
  ASSUME NEW w \in Nat, w >= 1, NEW h \in Nat, NEW e \in Nat, e >= 1, NEW b \in 0..w*h-1,
         NEW c \in 0..e*e-1, NEW u \in 0..1, NEW v \in 0..1
  PROVE  Found(w, h, e, b, c, u, v)
<1> DEFINE q == b \div w   s == b % w   x == c \div e   y == c % e   d == 2 * e
<1>1. q \in Nat /\ s \in Nat /\ s < w /\ b = w * q + s /\ b \in Nat /\ b < w * h
  <2>1. b \in Nat /\ b < w * h
    <3> DEFINE p == w * h
    <3>1. p \in Nat /\ b \in 0..p-1
      OBVIOUS
    <3> HIDE DEF p
    <3>2. b \in Nat /\ b < p
      BY <3>1
    <3> QED
      BY <3>2 DEF p
  <2>2. q \in Nat /\ s \in Nat /\ s < w /\ b = w * q + s
    BY <2>1, DivModOf
  <2> QED
    BY <2>1, <2>2
<1>2. x \in Nat /\ y \in Nat /\ y < e /\ c = e * x + y /\ c \in Nat /\ c < e * e
  <2>1. c \in Nat /\ c < e * e
    <3> DEFINE p == e * e
    <3>1. p \in Nat /\ c \in 0..p-1
      OBVIOUS
    <3> HIDE DEF p
    <3>2. c \in Nat /\ c < p
      BY <3>1
    <3> QED
      BY <3>2 DEF p
  <2>2. x \in Nat /\ y \in Nat /\ y < e /\ c = e * x + y
    BY <2>1, DivModOf
  <2> QED
    BY <2>1, <2>2
<1> HIDE DEF q, s, x, y
<1>3. q < h
  <2> SUFFICES ASSUME q >= h PROVE FALSE
    BY <1>1
  <2>1. w * q >= w * h /\ w * q \in Nat /\ w * h \in Nat
    BY <1>1
  <2> QED
    BY <1>1, <2>1
<1>4. x < e
  <2> SUFFICES ASSUME x >= e PROVE FALSE
    BY <1>2
  <2>1. e * x >= e * e /\ e * x \in Nat /\ e * e \in Nat
    BY <1>2
  <2> QED
    BY <1>2, <2>1
<1> DEFINE i == 2 * x + u   j == 2 * y + v
<1>5. i \in Nat /\ j \in Nat /\ i < d /\ j < d /\ d \in Nat
  BY <1>2, <1>4
<1>6. (2 * x + u) \div 2 = x /\ (2 * y + v) \div 2 = y
  BY <1>2
<1>7. i \in 0..(d - 1) /\ j \in 0..(d - 1) /\ i \div 2 = x /\ j \div 2 = y
  BY <1>5, <1>6
<1> HIDE DEF i, j, d
<1>8. (d * q + i) \div d = q /\ (d * q + i) % d = i /\ (d * s + j) \div d = s /\ (d * s + j) % d = j
  BY <1>1, <1>5, DivMod
<1>9. q * d + i = d * q + i /\ s * d + j = d * s + j /\ q * w = w * q /\ x * e = e * x
  BY <1>1, <1>2, <1>5
<1>10. q * d + i \in 0..(h * d - 1) /\ s * d + j \in 0..(w * d - 1)
  <2>1. (q + 1) * d <= h * d /\ (q + 1) * d = q * d + d /\ q * d \in Nat /\ h * d \in Nat
    BY <1>1, <1>3, <1>5
  <2>2. (s + 1) * d <= w * d /\ (s + 1) * d = s * d + d /\ s * d \in Nat /\ w * d \in Nat
    BY <1>1, <1>5
  <2> QED
    BY <1>5, <2>1, <2>2
<1>11. ((q * d + i) \div d) * w + (s * d + j) \div d = b
  BY <1>1, <1>8, <1>9
<1>12. (((q * d + i) % d) \div 2) * e + ((s * d + j) % d) \div 2 = c
  BY <1>2, <1>7, <1>8, <1>9
<1> QED
  BY <1>7, <1>10, <1>11, <1>12 DEF Found, i, j, d, q, s, x, y

\* The other way round: every pixel of the image is in a cell of a block.
LEMMA PlaceOfPixel ==
  ASSUME NEW w \in Nat, w >= 1, NEW h \in Nat, NEW e \in Nat, e >= 1,
         NEW row \in 0..(h * (2 * e) - 1), NEW col \in 0..(w * (2 * e) - 1)
  PROVE  /\ (row \div (2 * e)) * w + col \div (2 * e) \in 0..w*h-1
         /\ ((row % (2 * e)) \div 2) * e + (col % (2 * e)) \div 2 \in 0..e*e-1
<1> DEFINE d == 2 * e   q == row \div d   i == row % d   s == col \div d   j == col % d
<1>1. d \in Nat /\ d >= 1
  OBVIOUS
<1>2. row \in Nat /\ row < h * d /\ col \in Nat /\ col < w * d
  <2> DEFINE m == h * d   n == w * d
  <2>1. m \in Nat /\ n \in Nat /\ row \in 0..(m - 1) /\ col \in 0..(n - 1)
    OBVIOUS
  <2> HIDE DEF m, n
  <2>2. row \in Nat /\ row < m /\ col \in Nat /\ col < n
    BY <2>1
  <2> QED
    BY <2>2 DEF m, n
<1>3. /\ q \in Nat /\ i \in Nat /\ i < d /\ row = d * q + i
      /\ s \in Nat /\ j \in Nat /\ j < d /\ col = d * s + j
  <2> HIDE DEF d
  <2> QED
    BY <1>1, <1>2, DivModOf
<1>4. i \div 2 \in Nat /\ i \div 2 < e /\ j \div 2 \in Nat /\ j \div 2 < e
  <2> HIDE DEF i, j
  <2>1. i \in Nat /\ j \in Nat /\ i < 2 * e /\ j < 2 * e
    BY <1>3
  <2> QED
    BY <2>1
<1> DEFINE x == i \div 2   y == j \div 2
<1> HIDE DEF q, i, s, j, d, x, y
<1>5. q < h
  <2> SUFFICES ASSUME q >= h PROVE FALSE
    BY <1>3
  <2>1. d * q >= h * d /\ d * q \in Nat /\ h * d \in Nat
    BY <1>1, <1>3
  <2> QED
    BY <1>2, <1>3, <2>1
<1>6. s < w
  <2> SUFFICES ASSUME s >= w PROVE FALSE
    BY <1>3
  <2>1. d * s >= w * d /\ d * s \in Nat /\ w * d \in Nat
    BY <1>1, <1>3
  <2> QED
    BY <1>2, <1>3, <2>1
<1>7. q * w + s \in 0..w*h-1
  <2>1. (q + 1) * w <= h * w /\ (q + 1) * w = q * w + w /\ h * w = w * h /\ w * h \in Nat
        /\ q * w \in Nat
    BY <1>3, <1>5
  <2> QED
    BY <1>3, <1>6, <2>1
<1>8. x \in Nat /\ x < e /\ y \in Nat /\ y < e
  BY <1>4 DEF x, y
<1>9. x * e + y \in 0..e*e-1
  <2>1. (x + 1) * e <= e * e /\ (x + 1) * e = x * e + e /\ e * e \in Nat /\ x * e \in Nat
    BY <1>8
  <2> QED
    BY <1>8, <2>1
<1> QED
  BY <1>7, <1>9 DEF q, s, x, y, i, j, d

\* What a block is painted with.
LEMMA ChunkType ==
  ASSUME NEW bytes \in [0..2*nn-1 -> Byte], NEW b \in Block
  PROVE  /\ Chunk(bytes, b) \in [0..BlockBytes-1 -> Byte]
         /\ Indexes(bytes, b) \in [Cell -> Index]
         /\ InitFromInts(Indexes(bytes, b)) = InitFromString(Chunk(bytes, b))
<1> DEFINE m == BlocksWide * BlocksHigh
<1>1. m \in Nat /\ b \in 0..m-1 /\ BlockBytes \in Nat /\ m * BlockBytes = 2 * nn /\ nn \in Nat
  BY ImageSizes DEF Block
<1> HIDE DEF m
<1>2. ASSUME NEW k \in 0..BlockBytes-1 PROVE b * BlockBytes + k \in 0..2*nn-1
  <2>1. (b + 1) * BlockBytes <= m * BlockBytes /\ b * BlockBytes \in Nat
        /\ (b + 1) * BlockBytes = b * BlockBytes + BlockBytes
    BY <1>1
  <2> QED
    BY <1>1, <2>1
<1>3. Chunk(bytes, b) \in [0..BlockBytes-1 -> Byte]
  BY <1>2 DEF Chunk
<1>4. InitFromString(Chunk(bytes, b)) \in SUBSET (0..BlockBits-1)
  BY <1>3, StringRoundTrip
<1> QED
  BY <1>3, <1>4, BitsRoundTrip DEF Indexes

\* A painted image has integers for pixels.
LEMMA PaintedType ==
  ASSUME NEW bytes \in [0..2*nn-1 -> Byte]
  PROVE  Painted(bytes) \in [Pixels -> Int]
<1> DEFINE block(p) == (p[1] \div PixelDim) * BlocksWide + p[2] \div PixelDim
           cell(p) == ((p[1] % PixelDim) \div 2) * Side + (p[2] % PixelDim) \div 2
<1>1. ASSUME NEW p \in Pixels
      PROVE  block(p) \in Block /\ cell(p) \in Cell
  <2>1. p[1] \in 0..(BlocksHigh * (2 * Side) - 1) /\ p[2] \in 0..(BlocksWide * (2 * Side) - 1)
    BY DEF Pixels, PixelDim
  <2> QED
    BY <2>1, ImageSizes, PlaceOfPixel DEF PixelDim, Block, Cell
<1>2. ASSUME NEW b \in Block, NEW c \in Cell PROVE Level(Indexes(bytes, b)[c]) \in Int
  <2>1. Indexes(bytes, b)[c] \in Index
    BY ChunkType
  <2> QED
    BY <2>1 DEF Level, Index
<1>3. Painted(bytes) = [p \in Pixels |-> Level(Indexes(bytes, block(p))[cell(p)])]
  <2> DEFINE I == [b \in Block |-> Indexes(bytes, b)]
  <2>1. Painted(bytes) = [p \in Pixels |-> Level(I[block(p)][cell(p)])]
    BY DEF Painted, Fill, Pixels
  <2>2. \A p \in Pixels : I[block(p)] = Indexes(bytes, block(p))
    BY <1>1
  <2> HIDE DEF I, block, cell
  <2> QED
    BY <2>1, <2>2
<1> QED
  BY <1>1, <1>2, <1>3

\* The mean of a painted cell is its level, and that of a photo's cell the mean of pixels.
LEMMA MeanOfCell ==
  ASSUME NEW b \in Block, NEW c \in Cell
  PROVE  /\ \A bytes \in [0..2*nn-1 -> Byte] :
              Means(Painted(bytes), b)[c] = 4 * Level(Indexes(bytes, b)[c])
         /\ \A pixels \in [Pixels -> 0..255] : Means(pixels, b)[c] \in FourPixels
<1> DEFINE i == 2 * (c \div Side)
           j == 2 * (c % Side)
           row(u) == (b \div BlocksWide) * PixelDim + (i + u)
           col(v) == (b % BlocksWide) * PixelDim + (j + v)
<1>1. ASSUME NEW u \in 0..1, NEW v \in 0..1
      PROVE  /\ i + u \in 0..PixelDim-1 /\ j + v \in 0..PixelDim-1
             /\ <<row(u), col(v)>> \in Pixels
             /\ (row(u) \div PixelDim) * BlocksWide + col(v) \div PixelDim = b
             /\ ((row(u) % PixelDim) \div 2) * Side + (col(v) % PixelDim) \div 2 = c
  <2>1. /\ b \in 0..BlocksWide*BlocksHigh-1 /\ c \in 0..Side*Side-1
        /\ BlocksWide \in Nat /\ BlocksWide >= 1 /\ BlocksHigh \in Nat /\ Side \in Nat /\ Side >= 1
    BY ImageSizes DEF Block, Cell
  <2> DEFINE d == 2 * Side
             y == (b \div BlocksWide) * d + (i + u)
             x == (b % BlocksWide) * d + (j + v)
  <2>2. /\ i + u \in 0..(d - 1) /\ j + v \in 0..(d - 1)
        /\ y \in 0..(BlocksHigh * d - 1) /\ x \in 0..(BlocksWide * d - 1)
        /\ (y \div d) * BlocksWide + x \div d = b
        /\ ((y % d) \div 2) * Side + (x % d) \div 2 = c
    <3>1. Found(BlocksWide, BlocksHigh, Side, b, c, u, v)
      BY <2>1, PixelPlace
    <3> QED
      BY <3>1 DEF Found
  <2>3. d = PixelDim
    BY DEF PixelDim
  <2> HIDE DEF d, i, j
  <2> QED
    BY <2>2, <2>3 DEF Pixels
<1>2. i + 0 = i /\ j + 0 = j
  <2>1. c % Side \in Nat /\ c \div Side \in Nat
    BY BlockCells, ImageSizes
  <2> QED
    BY <2>1
<1>3. ASSUME NEW pixels
      PROVE  Means(pixels, b)[c] = pixels[<<row(0), col(0)>>] + pixels[<<row(1), col(0)>>]
                                     + pixels[<<row(0), col(1)>>] + pixels[<<row(1), col(1)>>]
  <2> DEFINE B == BlockPixels(pixels, b \div BlocksWide, b % BlocksWide)
  <2>1. Means(pixels, b)[c] = B[<<i, j>>] + B[<<i + 1, j>>] + B[<<i, j + 1>>] + B[<<i + 1, j + 1>>]
    BY DEF Means, AverageAestheteBlocks
  <2>2. ASSUME NEW u \in 0..1, NEW v \in 0..1
        PROVE  B[<<i + u, j + v>>] = pixels[<<row(u), col(v)>>]
    BY <1>1 DEF BlockPixels
  <2> HIDE DEF B, row, col, i, j
  <2>3. 0 \in 0..1 /\ 1 \in 0..1
    OBVIOUS
  <2>4. /\ B[<<i + 0, j + 0>>] = pixels[<<row(0), col(0)>>]
        /\ B[<<i + 1, j + 0>>] = pixels[<<row(1), col(0)>>]
        /\ B[<<i + 0, j + 1>>] = pixels[<<row(0), col(1)>>]
        /\ B[<<i + 1, j + 1>>] = pixels[<<row(1), col(1)>>]
    BY <2>2, <2>3
  <2> QED
    BY <1>2, <2>1, <2>4
<1> HIDE DEF i, j, row, col
<1>4. ASSUME NEW bytes \in [0..2*nn-1 -> Byte]
      PROVE  Means(Painted(bytes), b)[c] = 4 * Level(Indexes(bytes, b)[c])
  <2> DEFINE I == [x \in Block |-> Indexes(bytes, x)]
             L == Level(Indexes(bytes, b)[c])
  <2>1. ASSUME NEW u \in 0..1, NEW v \in 0..1
        PROVE  Painted(bytes)[<<row(u), col(v)>>] = L
    <3> DEFINE p == <<row(u), col(v)>>
    <3>1. p \in Pixels /\ p[1] = row(u) /\ p[2] = col(v)
      BY <1>1
    <3>2. Painted(bytes)[p] = Level(I[(p[1] \div PixelDim) * BlocksWide + p[2] \div PixelDim]
                                     [((p[1] % PixelDim) \div 2) * Side + (p[2] % PixelDim) \div 2])
      <4> HIDE DEF p, I
      <4> QED
        BY <3>1 DEF Painted, Fill, Pixels, I
    <3>3. Painted(bytes)[p] = Level(I[b][c])
      BY <1>1, <3>1, <3>2
    <3> QED
      BY <3>3
  <2>2. L \in Int
    <3>1. Indexes(bytes, b)[c] \in Index
      BY ChunkType
    <3> QED
      BY <3>1 DEF Level, Index
  <2> HIDE DEF L
  <2>3. Means(Painted(bytes), b)[c] = L + L + L + L
    BY <1>3, <2>1
  <2> QED
    BY <2>2, <2>3 DEF L
<1>5. ASSUME NEW pixels \in [Pixels -> 0..255]
      PROVE  Means(pixels, b)[c] \in FourPixels
  <2>1. \A u, v \in 0..1 : pixels[<<row(u), col(v)>>] \in 0..255
    BY <1>1
  <2> DEFINE p == pixels[<<row(0), col(0)>>]
             q == pixels[<<row(1), col(0)>>]
             s == pixels[<<row(0), col(1)>>]
             t == pixels[<<row(1), col(1)>>]
  <2>2. p \in 0..255 /\ q \in 0..255 /\ s \in 0..255 /\ t \in 0..255
    BY <2>1
  <2>3. Means(pixels, b)[c] = p + q + s + t
    BY <1>3
  <2> HIDE DEF p, q, s, t
  <2> QED
    BY <2>2, <2>3 DEF FourPixels
<1> QED
  BY <1>4, <1>5

\* A symbol whose cells have stayed within reach of their levels is read as it was painted.
LEMMA SymbolIsRead ==
  ASSUME NEW bytes \in [0..2*nn-1 -> Byte], NEW pixels \in [Pixels -> 0..255],
         NEW k \in 0..2*nn-1,
         \A c \in CellsOf(k) :
           Means(pixels, c[1])[c[2]] - Means(Painted(bytes), c[1])[c[2]] \in -63..64
  PROVE  ReadBack(pixels)[k] = bytes[k]
<1> DEFINE b == k \div BlockBytes
           m == k % BlockBytes
           n == BlocksWide * BlocksHigh
           input == Chunk(bytes, b)
           values == Indexes(bytes, b)
           read == [c \in Cell |-> FindClosest(Means(pixels, b)[c])]
<1>1. k \in Nat /\ k < 2 * nn /\ n \in Nat /\ n * BlockBytes = 2 * nn
  BY ImageSizes
<1>2. b \in Nat /\ m \in Nat /\ m < BlockBytes /\ k = BlockBytes * b + m
  BY <1>1, ImageSizes, DivModOf
<1> HIDE DEF b, m, n
<1>3. b \in Block /\ m \in 0..BlockBytes-1 /\ k = b * BlockBytes + m
  <2>1. b < n
    <3> SUFFICES ASSUME b >= n PROVE FALSE
      BY <1>1, <1>2
    <3>1. BlockBytes * b >= n * BlockBytes /\ BlockBytes * b \in Nat
      BY <1>1, <1>2, ImageSizes
    <3> QED
      BY <1>1, <1>2, <3>1, ImageSizes
  <2>2. BlockBytes * b = b * BlockBytes /\ BlockBytes \in Nat
    BY <1>2, ImageSizes
  <2>3. b \in 0..n-1 /\ m \in 0..BlockBytes-1
    BY <1>1, <1>2, <2>1, <2>2
  <2> QED
    BY <1>2, <2>2, <2>3 DEF Block, n
<1>4. /\ input \in [0..BlockBytes-1 -> Byte] /\ values \in [Cell -> Index]
      /\ InitFromInts(values) = InitFromString(input)
  BY <1>3, ChunkType
<1>5. input[m] = bytes[k]
  BY <1>3 DEF Chunk
<1> HIDE DEF input, values, read
\* The bits of the symbol, in the block and in its cells.
<1>6. ASSUME NEW x \in 0..ByteBits-1
      PROVE  LET j == m * ByteBits + x
             IN  /\ j \in 0..BlockBits-1 /\ <<b, j \div 3>> \in CellsOf(k) /\ j \div 3 \in Cell
  <2> DEFINE j == m * ByteBits + x
             g == k * ByteBits + x
  <2>1. j \in Nat /\ j < BlockBits /\ x \in Nat /\ x < ByteBits
    <3>1. (m + 1) * ByteBits <= BlockBytes * ByteBits /\ (m + 1) * ByteBits = m * ByteBits + ByteBits
          /\ m * ByteBits \in Nat /\ BlockBits \in Nat
      BY <1>2, ImageSizes
    <3> QED
      BY <3>1, ImageSizes
  <2>2. g = BlockBits * b + j
    <3>1. (b * BlockBytes + m) * ByteBits = (BlockBytes * ByteBits) * b + m * ByteBits
      BY <1>2, ImageSizes
    <3> QED
      BY <1>2, <1>3, <2>1, <3>1, ImageSizes
  <2> HIDE DEF j
  <2>3. BlockBits \in Nat /\ b \in Nat
    BY <1>2, ImageSizes
  <2>4. g \div BlockBits = b /\ g % BlockBits = j
    <3>1. (BlockBits * b + j) \div BlockBits = b /\ (BlockBits * b + j) % BlockBits = j
      BY <2>1, <2>3, DivMod
    <3> HIDE DEF g
    <3> QED
      BY <2>2, <3>1
  <2>5. g \in (k * mm)..(k * mm + mm - 1)
    <3>1. k * mm \in Nat /\ mm \in Nat /\ ByteBits = mm
      BY <1>1, ImageSizes
    <3> QED
      BY <2>1, <3>1
  <2> HIDE DEF g
  <2>6. <<b, j \div 3>> \in CellsOf(k)
    BY <2>4, <2>5, ImageSizes DEF CellsOf
  <2>7. j \in 0..BlockBits-1
    BY <2>1, <2>3
  <2> QED
    BY <2>6, <2>7, BlockCells DEF j
<1>7. ASSUME NEW x \in 0..ByteBits-1
      PROVE  m * ByteBits + x \in InitFromInts(read) <=> m * ByteBits + x \in InitFromInts(values)
  <2> DEFINE j == m * ByteBits + x
             c == j \div 3
  <2>1. j \in 0..BlockBits-1 /\ c \in Cell /\ <<b, c>> \in CellsOf(k)
    BY <1>6
  <2> HIDE DEF j, c
  <2>2. Means(pixels, b)[c] - Means(Painted(bytes), b)[c] \in -63..64
    BY <2>1
  <2>3. Means(pixels, b)[c] \in FourPixels /\ Means(Painted(bytes), b)[c] = 4 * Level(values[c])
    BY <1>3, <2>1, MeanOfCell DEF values
  <2>4. values[c] \in 0..7 /\ WithinReach(values[c], Means(pixels, b)[c])
    BY <1>4, <2>1, <2>2, <2>3 DEF Index, WithinReach
  <2>5. FindClosest(Means(pixels, b)[c]) = values[c]
    BY <2>3, <2>4, NearestLevel
  <2>6. read[c] = values[c]
    BY <2>1, <2>5 DEF read
  <2>7. j \div CellBits = c
    BY ImageSizes DEF c
  <2> QED
    BY <2>1, <2>6, <2>7 DEF InitFromInts, j
<1>8. ReadBack(pixels)[k] = {x \in 0..ByteBits-1 : m * ByteBits + x \in InitFromInts(read)}
  <2>1. ReadBack(pixels)[k] = ReadBlock(pixels, b)[m]
    BY DEF ReadBack, b, m
  <2>2. ReadBlock(pixels, b) = ToString(InitFromInts(read))
    BY DEF ReadBlock, read
  <2> QED
    BY <1>3, <2>1, <2>2 DEF ToString
<1>9. input[m] = {x \in 0..ByteBits-1 : m * ByteBits + x \in InitFromInts(values)}
  <2>1. input = ToString(InitFromInts(values))
    BY <1>4, StringRoundTrip
  <2> QED
    BY <1>3, <2>1 DEF ToString
<1> QED
  BY <1>5, <1>7, <1>8, <1>9

\* What was put into the image is what the image shows until the next iteration, and what was
\* read is what the compressed image shows.
Carried ==
  /\ bytes_ \in [0..2*nn-1 -> Byte]
  /\ phase \in {"compress", "read", "decode", "locate"} => image = Painted(bytes_)
  /\ phase \in {"read", "decode", "locate"} => decoded \in [Pixels -> 0..255]
  /\ phase \in {"decode", "locate"} => full_message = ReadBack(decoded)

\* It holds at first, and every action keeps it.
LEMMA CarriedInit == Init => Carried
<1>1. {} \in Byte
  BY DEF Byte
<1> QED
  BY <1>1 DEF Init, Carried

\* Experiment::Run()'s steps keep what is carried: encoding,
LEMMA EncodeCarries == Carried /\ Encode => Carried'
<1> SUFFICES ASSUME Carried, Encode PROVE Carried'
  OBVIOUS
<1>1. Byte = Symbol /\ nn \in Nat /\ nn >= 2 /\ nroots \in Nat /\ nroots < nn
  BY ImageSizes, Sizes DEF Byte, Symbol
<1>2. \A h \in Half : message'[h] \in Message
  BY EccAssumption DEF Encode
<1>3. \A h \in Half : Reset[h] \in Parity
  BY Zero DEF Reset, ZeroParity, Parity
<1>4. \A h \in Half : parity'[h] \in Parity
  BY <1>2, <1>3, EncodeType DEF Encode
<1>5. ASSUME NEW k \in 0..2*nn-1
      PROVE  /\ k \div nn \in Half
             /\ (IF k % nn \in DataSymbol THEN message'[k \div nn][k % nn]
                 ELSE parity'[k \div nn][(k % nn) - (nn - nroots)]) \in Symbol
  <2> DEFINE h == k \div nn   i == k % nn
  <2>1. h \in Nat /\ i \in Nat /\ i < nn /\ k = nn * h + i /\ k \in Nat /\ k < 2 * nn
    <3>1. k \in Nat /\ k < 2 * nn /\ nn >= 1
      BY <1>1
    <3> QED
      BY <1>1, <3>1, DivModOf
  <2> HIDE DEF h, i
  <2>2. h \in Half
    <3>1. h < 2
      <4> SUFFICES ASSUME h >= 2 PROVE FALSE
        BY <2>1
      <4>1. nn * h >= 2 * nn /\ nn * h \in Nat
        BY <1>1, <2>1
      <4> QED
        BY <1>1, <2>1, <4>1
    <3> QED
      BY <2>1, <3>1 DEF Half
  <2>3. CASE i \in DataSymbol
    BY <1>2, <2>2, <2>3 DEF Message, h, i
  <2>4. CASE i \notin DataSymbol
    <3>1. i - (nn - nroots) \in 0..nroots-1
      BY <1>1, <2>1, <2>4 DEF DataSymbol
    <3>2. parity'[h][i - (nn - nroots)] \in Symbol
      BY <1>4, <2>2, <3>1 DEF Parity
    <3> QED
      BY <2>2, <2>4, <3>2 DEF h, i
  <2> QED
    BY <2>2, <2>3, <2>4 DEF h, i
<1>6. bytes_' \in [0..2*nn-1 -> Symbol]
  BY <1>5 DEF Encode
<1>7. phase' = "embed"
  BY DEF Encode
<1> QED
  BY <1>1, <1>6, <1>7 DEF Carried

\* painting,
LEMMA EmbedCarries == Carried /\ Embed => Carried'
<1> SUFFICES ASSUME Carried, Embed PROVE Carried'
  OBVIOUS
<1>1. image' = Painted(bytes_)
  BY DEF Embed, Painted, Indexes, Chunk
<1> QED
  BY <1>1 DEF Embed, Carried

\* compressing,
LEMMA CompressCarries == Carried /\ Compress => Carried'
<1> SUFFICES ASSUME Carried, Compress PROVE Carried'
  OBVIOUS
<1>1. image \in [Pixels -> Int]
  BY PaintedType DEF Carried, Compress
<1>2. PICK areas \in SUBSET NoisyAreas : \E pattern \in [areas -> Patterns] :
        decoded' = [p \in Pixels |->
                      Clamp(image[p] + IF \E a \in areas : CellOf(p) \in a
                                       THEN pattern[CHOOSE a \in areas : CellOf(p) \in a][Quarter(p)]
                                       ELSE 0)]
  BY DEF Compress, kSubset
<1>3. PICK pattern \in [areas -> Patterns] :
        decoded' = [p \in Pixels |->
                      Clamp(image[p] + IF \E a \in areas : CellOf(p) \in a
                                       THEN pattern[CHOOSE a \in areas : CellOf(p) \in a][Quarter(p)]
                                       ELSE 0)]
  BY <1>2
<1>4. ASSUME NEW p \in Pixels
      PROVE  decoded'[p] \in 0..255
  <2> DEFINE d == IF \E a \in areas : CellOf(p) \in a
                  THEN pattern[CHOOSE a \in areas : CellOf(p) \in a][Quarter(p)]
                  ELSE 0
  <2>1. Quarter(p) \in 0..3
    <3>1. p[1] \in Nat /\ p[2] \in Nat
      BY ImageSizes DEF Pixels
    <3>2. \A x \in Nat : x % 2 \in 0..1
      OBVIOUS
    <3> QED
      BY <3>1, <3>2 DEF Quarter
  <2>2. d \in Int
    <3>1. CASE \E a \in areas : CellOf(p) \in a
      <4> DEFINE a == CHOOSE a \in areas : CellOf(p) \in a
      <4>1. a \in areas
        BY <3>1
      <4> HIDE DEF a
      <4>2. pattern[a] \in [0..3 -> Int]
        BY <4>1, EccAssumption
      <4>3. d = pattern[a][Quarter(p)]
        BY <3>1 DEF a
      <4> QED
        BY <2>1, <4>2, <4>3
    <3>2. CASE ~\E a \in areas : CellOf(p) \in a
      BY <3>2
    <3> QED
      BY <3>1, <3>2
  <2>3. decoded'[p] = Clamp(image[p] + d)
    BY <1>3
  <2> HIDE DEF d
  <2>4. image[p] + d \in Int
    BY <1>1, <2>2
  <2> QED
    BY <2>3, <2>4 DEF Clamp
<1>5. decoded' \in [Pixels -> 0..255]
  <2>1. decoded' = [p \in Pixels |-> decoded'[p]]
    BY <1>3
  <2> QED
    BY <1>4, <2>1
<1> QED
  BY <1>5 DEF Compress, Carried

\* reading back
LEMMA ReadCarries == Carried /\ Read => Carried'
<1> SUFFICES ASSUME Carried, Read PROVE Carried'
  OBVIOUS
<1>1. full_message' = ReadBack(decoded)
  <2> DEFINE strings == [b \in Block |->
                           LET means == Means(decoded, b)
                           IN  ToString(InitFromInts([c \in Cell |-> FindClosest(means[c])]))]
  <2>1. full_message' = [k \in 0..2*nn-1 |-> strings[k \div BlockBytes][k % BlockBytes]]
    BY DEF Read
  <2>2. ASSUME NEW k \in 0..2*nn-1 PROVE k \div BlockBytes \in Block
    <3> DEFINE b == k \div BlockBytes   n == BlocksWide * BlocksHigh
    <3>1. k \in Nat /\ k < 2 * nn /\ n \in Nat /\ n * BlockBytes = 2 * nn
      BY ImageSizes
    <3>2. b \in Nat /\ k % BlockBytes \in Nat /\ k = BlockBytes * b + (k % BlockBytes)
      BY <3>1, ImageSizes, DivModOf
    <3> HIDE DEF b, n
    <3>3. b < n
      <4> SUFFICES ASSUME b >= n PROVE FALSE
        BY <3>1, <3>2
      <4>1. BlockBytes * b >= n * BlockBytes /\ BlockBytes * b \in Nat
        BY <3>1, <3>2, ImageSizes
      <4> QED
        BY <3>1, <3>2, <4>1, ImageSizes
    <3>4. b \in 0..n-1
      BY <3>1, <3>2, <3>3
    <3> QED
      BY <3>4 DEF b, n, Block
  <2>3. \A b \in Block : strings[b] = ReadBlock(decoded, b)
    BY DEF ReadBlock
  <2> HIDE DEF strings
  <2> QED
    BY <2>1, <2>2, <2>3 DEF ReadBack
<1> QED
  BY <1>1 DEF Read, Carried

\* and the rest of them.
LEMMA CarriedStep == Carried /\ [Next]_vars => Carried'
<1> SUFFICES ASSUME Carried, [Next]_vars PROVE Carried'
  OBVIOUS
<1>1. CASE Decode
  BY <1>1 DEF Decode, Written, Carried
<1>2. CASE Locate
  BY <1>2 DEF Locate, Carried
<1>3. CASE Finish
  BY <1>3 DEF Finish, Written, Carried
<1>4. CASE UNCHANGED vars
  BY <1>4 DEF vars, Carried
<1> QED
  BY <1>1, <1>2, <1>3, <1>4, EncodeCarries, EmbedCarries, CompressCarries, ReadCarries DEF Next

\* In every state the experiment has carried what Carried says.
LEMMA CarriedHolds == Spec => []Carried
BY CarriedInit, CarriedStep, PTL DEF Spec

\* EccExperiment::Run(): a symbol all of whose cells have kept, but for -63 to 64, the sum of
\* their four pixels is read back as it was painted, for every size of block and of symbol,
\* wherever its bits lie, whatever happens to other cells.
THEOREM ToleratedIsReadHolds == Spec => []ToleratedIsRead
<1>1. Carried => ToleratedIsRead
  <2> SUFFICES ASSUME Carried, phase = "decode",
                      NEW k \in 0..2*nn-1,
                      \A c \in CellsOf(k) :
                        Means(decoded, c[1])[c[2]] - Means(image, c[1])[c[2]] \in -63..64
               PROVE  full_message[k] = bytes_[k]
    BY DEF ToleratedIsRead
  <2>1. /\ bytes_ \in [0..2*nn-1 -> Byte] /\ image = Painted(bytes_)
        /\ decoded \in [Pixels -> 0..255] /\ full_message = ReadBack(decoded)
    BY DEF Carried
  <2> QED
    BY <2>1, SymbolIsRead
<1> QED
  BY <1>1, CarriedHolds, PTL

-----------------------------------------------------------------------------
(* Berlekamp-Massey.                                                         *)

\* One is the power with index zero.
LEMMA IndexOfOne == 0 \in Indices /\ 0 # nn /\ alpha_to[0] = {0} /\ index_of[{0}] = 0
<1>1. 0 \in Indices /\ 0 # nn
  BY Sizes DEF Indices
<1>2. alpha_to[0] = {0}
  BY <1>1, PowersType DEF alpha_to, Indices
<1> QED
  BY <1>1, <1>2, IndexFacts

\* What is not zero can be divided by.
LEMMA Cancel ==
  ASSUME NEW d \in Indices, d # nn, NEW x \in Indices, NEW y \in Indices,
         Product(d, x) = Product(d, y)
  PROVE  x = y
<1> DEFINE e == IF d = 0 THEN 0 ELSE nn - d
<1>1. e \in Indices /\ e # nn /\ (e + d = 0 \/ e + d = nn)
  BY Sizes DEF Indices
<1> HIDE DEF e
<1>2. Product(e, d) = {0}
  BY <1>1, ProductFacts, PowersReturn, PowersType
<1>3. ASSUME NEW z \in Indices
      PROVE  alpha_to[z] = Product(e, index_of[Product(d, z)])
  <2>1. Product(index_of[Product(e, d)], z) = Product(e, index_of[Product(d, z)])
    BY <1>1, Associative
  <2> QED
    BY <1>2, <2>1, IndexOfOne, ProductFacts
<1>4. alpha_to[x] = alpha_to[y]
  BY <1>3
<1> QED
  BY <1>4, IndexFacts

\* The coefficient of the syndrome before k in the product of a polynomial, in index form, with
\* the syndromes.
Conv(f, s, k) == XorSum(k, [i \in 0..k |-> Product(f[i], s[k - i])])

Polynomial == [0..nroots -> Symbol]
PolynomialIndices == [0..nroots -> Indices]
SyndromeIndices == [0..nroots-1 -> Indices]

\* A polynomial in symbols and its index form.
LEMMA IndexFormType ==
  \A lambda \in Polynomial : /\ IndexForm(lambda) \in PolynomialIndices
                             /\ \A i \in 0..nroots : IndexForm(lambda)[i] = index_of[lambda[i]]
BY IndexFacts DEF Polynomial, PolynomialIndices, IndexForm

\* What is summed up is there, and is a symbol.
LEMMA TermType ==
  ASSUME NEW f \in PolynomialIndices, NEW s \in SyndromeIndices, NEW k \in 0..nroots-1, NEW i \in 0..k
  PROVE  i \in 0..nroots /\ f[i] \in Indices /\ s[k - i] \in Indices /\ Product(f[i], s[k - i]) \in Symbol
<1>1. i \in 0..nroots /\ k - i \in 0..nroots-1
  BY Sizes
<1>2. f[i] \in Indices /\ s[k - i] \in Indices
  BY <1>1 DEF PolynomialIndices, SyndromeIndices
<1> QED
  BY <1>1, <1>2, ProductFacts

\* To multiply by a constant, and
LEMMA ConvOfMultiple ==
  ASSUME NEW f \in PolynomialIndices, NEW d \in Indices, NEW g \in PolynomialIndices,
         \A i \in 0..nroots : g[i] = index_of[Product(d, f[i])],
         NEW s \in SyndromeIndices, NEW k \in 0..nroots-1
  PROVE  Conv(g, s, k) = Product(d, index_of[Conv(f, s, k)])
<1> DEFINE M == [u \in Symbol |-> Product(d, index_of[u])]
           x == [i \in 0..k |-> Product(f[i], s[k - i])]
           y == [i \in 0..k |-> Product(g[i], s[k - i])]
<1>1. M \in [Symbol -> Symbol]
  BY IndexFacts, ProductFacts
<1>2. \A u, v \in Symbol : M[Xor(u, v)] = Xor(M[u], M[v])
  BY Distributive, XorType
<1>3. ASSUME NEW i \in 0..k PROVE x[i] \in Symbol /\ y[i] = M[x[i]]
  <2>1. /\ i \in 0..nroots /\ f[i] \in Indices /\ s[k - i] \in Indices
        /\ Product(f[i], s[k - i]) \in Symbol
    BY TermType
  <2>2. Product(index_of[Product(d, f[i])], s[k - i]) = Product(d, index_of[Product(f[i], s[k - i])])
    BY <2>1, Associative
  <2> QED
    BY <2>1, <2>2
<1>4. k \in Nat
  BY Sizes
<1>5. XorSum(k, x) \in Symbol
  BY SumType
<1>6. M[XorSum(k, x)] = XorSum(k, y)
  <2> HIDE DEF M, x, y
  <2> QED
    BY <1>1, <1>2, <1>3, <1>4, SumImage
<1> QED
  BY <1>5, <1>6 DEF Conv

\* to add a multiple of a polynomial.
LEMMA ConvOfSum ==
  ASSUME NEW p \in Polynomial, NEW f \in PolynomialIndices, NEW d \in Indices, NEW q \in Polynomial,
         \A i \in 0..nroots : q[i] = Xor(p[i], Product(d, f[i])),
         NEW s \in SyndromeIndices, NEW k \in 0..nroots-1
  PROVE  Conv(IndexForm(q), s, k)
           = Xor(Conv(IndexForm(p), s, k), Product(d, index_of[Conv(f, s, k)]))
<1> DEFINE g == [i \in 0..nroots |-> index_of[Product(d, f[i])]]
           x == [i \in 0..k |-> Product(IndexForm(p)[i], s[k - i])]
           y == [i \in 0..k |-> Product(g[i], s[k - i])]
           z == [i \in 0..k |-> Product(IndexForm(q)[i], s[k - i])]
<1>1. g \in PolynomialIndices /\ \A i \in 0..nroots : Product(d, f[i]) \in Symbol
  BY IndexFacts, ProductFacts DEF PolynomialIndices
<1>2. k \in Nat
  BY Sizes
<1>3. Conv(g, s, k) = Product(d, index_of[Conv(f, s, k)])
  BY <1>1, ConvOfMultiple
<1>4. ASSUME NEW i \in 0..k
      PROVE  x[i] \in Symbol /\ y[i] \in Symbol /\ z[i] = Xor(x[i], y[i])
  <2>1. i \in 0..nroots /\ s[k - i] \in Indices /\ x[i] \in Symbol /\ y[i] \in Symbol
    BY <1>1, IndexFormType, TermType
  <2>2. p[i] \in Symbol /\ q[i] \in Symbol /\ Product(d, f[i]) \in Symbol
    BY <1>1, <2>1 DEF Polynomial
  <2>3. Product(s[k - i], index_of[Xor(p[i], Product(d, f[i]))])
          = Xor(Product(s[k - i], index_of[p[i]]), Product(s[k - i], index_of[Product(d, f[i])]))
    BY <2>1, <2>2, Distributive
  <2>4. \A u \in Symbol : Product(s[k - i], index_of[u]) = Product(index_of[u], s[k - i])
    BY <2>1, IndexFacts, ProductFacts
  <2>5. /\ IndexForm(p)[i] = index_of[p[i]] /\ IndexForm(q)[i] = index_of[q[i]]
        /\ g[i] = index_of[Product(d, f[i])] /\ q[i] = Xor(p[i], Product(d, f[i]))
    BY <2>1, IndexFormType
  <2> QED
    BY <2>1, <2>2, <2>3, <2>4, <2>5
<1>5. XorSum(k, z) = Xor(XorSum(k, x), XorSum(k, y))
  <2> HIDE DEF x, y, z
  <2> QED
    BY <1>2, <1>4, SumOfSums
<1> QED
  BY <1>3, <1>5 DEF Conv

\* A polynomial times x takes part one syndrome later.
LEMMA ConvOfShift ==
  ASSUME NEW b \in PolynomialIndices, NEW s \in SyndromeIndices, NEW k \in 1..nroots-1
  PROVE  TimesX(b) \in PolynomialIndices /\ Conv(TimesX(b), s, k) = Conv(b, s, k - 1)
<1>1. nroots \in Nat /\ k \in Nat /\ k - 1 \in Nat /\ (k - 1) + 1 = k /\ nn \in Indices
      /\ k \in 0..nroots-1 /\ k - 1 \in 0..nroots-1
  BY Sizes DEF Indices
<1>2. TimesX(b) \in PolynomialIndices
  BY <1>1 DEF TimesX, PolynomialIndices
<1> DEFINE f == [i \in 0..k |-> Product(TimesX(b)[i], s[k - i])]
           g == [i \in 0..(k - 1) |-> Product(b[i], s[(k - 1) - i])]
<1>3. f[0] = {}
  <2>1. 0 \in 0..k /\ 0 \in 0..nroots /\ s[k - 0] \in Indices /\ TimesX(b)[0] = nn
    BY <1>1 DEF SyndromeIndices, TimesX
  <2> QED
    BY <2>1, ProductFacts
<1>4. ASSUME NEW i \in 0..(k - 1)
      PROVE  g[i] \in Symbol /\ f[i + 1] = g[i]
  <2>1. i + 1 \in 0..k /\ k - (i + 1) = (k - 1) - i
    BY <1>1
  <2>2. TimesX(b)[i + 1] = b[i]
    <3>1. i + 1 \in 0..nroots /\ i + 1 # 0 /\ (i + 1) - 1 = i
      BY <1>1
    <3> QED
      BY <3>1 DEF TimesX
  <2>3. Product(b[i], s[(k - 1) - i]) \in Symbol
    BY <1>1, TermType
  <2> QED
    BY <2>1, <2>2, <2>3
<1>5. XorSum((k - 1) + 1, f) = XorSum(k - 1, g)
  <2> HIDE DEF f, g
  <2> QED
    BY <1>1, <1>3, <1>4, SumShifted
<1> QED
  BY <1>1, <1>2, <1>5 DEF Conv

\* The invariant of the register after n steps.  The locator, of the register's length el,
\* predicts the syndromes from el on,
Predicts(lambda, el, n, s) ==
  /\ lambda \in Polynomial /\ el \in 0..n
  /\ lambda[0] = {0} /\ \A i \in 0..nroots : i > el => lambda[i] = {}
  /\ \A k \in el..n-1 : Conv(IndexForm(lambda), s, k) = {}

\* and the correction polynomial is a locator of before the last change of the length,
\* shifted and scaled so that it is off by one at the last syndrome.
Corrects(b, el, n, s) ==
  /\ b \in PolynomialIndices
  /\ \A i \in 0..nroots : i > n - el => b[i] = nn
  /\ el > 0 => /\ \A k \in (n - el)..(n - 2) : Conv(b, s, k) = {}
               /\ Conv(b, s, n - 1) = {0}

Locates(st, n, s) ==
  /\ st = [lambda |-> st.lambda, b |-> st.b, el |-> st.el]
  /\ Predicts(st.lambda, st.el, n, s)
  /\ Corrects(st.b, st.el, n, s)

\* The register before any syndrome.
LEMMA EmptyLocates == ASSUME NEW s PROVE Locates(EmptyRegister, 0, s)
<1>1. nn \in Indices /\ 0 \in Indices /\ nroots \in Nat
  BY Sizes DEF Indices
<1>2. Predicts(EmptyRegister.lambda, EmptyRegister.el, 0, s)
  BY <1>1, Zero, One DEF EmptyRegister, Predicts, Polynomial
<1>3. Corrects(EmptyRegister.b, EmptyRegister.el, 0, s)
  BY <1>1 DEF EmptyRegister, Corrects, PolynomialIndices
<1> QED
  BY <1>2, <1>3 DEF Locates, EmptyRegister

\* The prediction holds: the locator stays.
LEMMA PredictedStep ==
  ASSUME NEW n \in Nat, NEW lambda, NEW el, NEW s, Predicts(lambda, el, n, s),
         Conv(IndexForm(lambda), s, n) = {}
  PROVE  Predicts(lambda, el, n + 1, s)
<1>1. el \in 0..(n + 1) /\ \A k \in el..(n + 1) - 1 : k = n \/ k \in el..n-1
  BY DEF Predicts
<1> QED
  BY <1>1 DEF Predicts

\* As long as the length stays, the correction polynomial is shifted.
LEMMA ShiftedStep ==
  ASSUME NEW n \in Nat, n < nroots, NEW b, NEW el \in 0..n, NEW s \in SyndromeIndices,
         Corrects(b, el, n, s)
  PROVE  Corrects(TimesX(b), el, n + 1, s)
<1>1. nroots \in Nat /\ b \in PolynomialIndices /\ nn \in Indices
  BY Sizes DEF Corrects, Indices
<1>2. TimesX(b) \in PolynomialIndices
  BY <1>1 DEF TimesX, PolynomialIndices
<1>3. ASSUME NEW i \in 0..nroots, i > (n + 1) - el
      PROVE  TimesX(b)[i] = nn
  <2>1. i # 0 /\ i - 1 \in 0..nroots /\ i - 1 > n - el
    BY <1>1, <1>3
  <2> QED
    BY <2>1 DEF TimesX, Corrects
<1>4. ASSUME el > 0, NEW k \in ((n + 1) - el)..((n + 1) - 2)
      PROVE  Conv(TimesX(b), s, k) = {}
  <2>1. k \in 1..nroots-1 /\ k - 1 \in (n - el)..(n - 2)
    BY <1>1, <1>4
  <2> QED
    BY <1>1, <1>4, <2>1, ConvOfShift DEF Corrects
<1>5. ASSUME el > 0
      PROVE  Conv(TimesX(b), s, (n + 1) - 1) = {0}
  <2>1. n \in 1..nroots-1 /\ (n + 1) - 1 = n
    BY <1>1, <1>5
  <2> QED
    BY <1>1, <1>5, <2>1, ConvOfShift DEF Corrects
<1> QED
  BY <1>2, <1>3, <1>4, <1>5 DEF Corrects

\* The prediction fails: the locator less the correction polynomial, times the discrepancy,
\* predicts that syndrome as well.
LEMMA CorrectedStep ==
  ASSUME NEW n \in Nat, n < nroots, NEW lambda, NEW xb, NEW el \in 0..n, NEW s \in SyndromeIndices,
         Predicts(lambda, el, n, s), Corrects(xb, el, n + 1, s), xb[0] = nn,
         NEW d \in Indices, alpha_to[d] = Conv(IndexForm(lambda), s, n),
         NEW t \in Polynomial,
         \A i \in 0..nroots : t[i] = Xor(lambda[i], Product(d, xb[i])),
         NEW length \in 0..(n + 1), length >= el, length >= (n + 1) - el
  PROVE  Predicts(t, length, n + 1, s)
<1>1. /\ nroots \in Nat /\ lambda \in Polynomial /\ el \in Nat /\ length \in Nat
      /\ xb \in PolynomialIndices /\ n \in 0..nroots-1
  BY Sizes DEF Predicts, Corrects
<1>2. t[0] = {0}
  <2>1. Product(d, xb[0]) = {}
    BY ProductFacts
  <2>2. 0 \in 0..nroots /\ lambda[0] = {0}
    BY <1>1 DEF Predicts
  <2>3. t[0] = Xor({0}, {})
    BY <2>1, <2>2
  <2> QED
    BY <2>3, XorLaws
<1>3. ASSUME NEW i \in 0..nroots, i > length PROVE t[i] = {}
  <2>1. i > el /\ i > (n + 1) - el
    BY <1>1, <1>3
  <2>2. lambda[i] = {} /\ xb[i] = nn
    BY <2>1 DEF Predicts, Corrects
  <2>3. Product(d, nn) = {}
    BY ProductFacts
  <2> QED
    BY <2>2, <2>3, XorLaws
<1>4. ASSUME NEW k \in length..(n + 1)-1
      PROVE  Conv(IndexForm(t), s, k) = {}
  <2>1. k \in 0..nroots-1 /\ k \in Nat /\ k <= n /\ k >= length
    BY <1>1
  <2>2. el > 0
    BY <1>1, <2>1
  <2>3. Conv(IndexForm(t), s, k)
          = Xor(Conv(IndexForm(lambda), s, k), Product(d, index_of[Conv(xb, s, k)]))
    BY <1>1, <2>1, ConvOfSum
  <2>4. ASSUME k = n PROVE Conv(IndexForm(t), s, k) = {}
    <3>1. Conv(xb, s, n) = {0}
      <4>1. (n + 1) - 1 = n
        OBVIOUS
      <4> QED
        BY <2>2, <4>1 DEF Corrects
    <3>2. Product(d, 0) = alpha_to[d]
      BY IndexOfOne, ProductFacts
    <3>3. Product(d, index_of[Conv(xb, s, k)]) = Conv(IndexForm(lambda), s, k)
      BY <2>4, <3>1, <3>2, IndexOfOne
    <3> QED
      BY <2>3, <3>3, XorLaws
  <2>5. ASSUME k # n PROVE Conv(IndexForm(t), s, k) = {}
    <3>1. k \in el..n-1 /\ k \in ((n + 1) - el)..((n + 1) - 2)
      BY <1>1, <2>1, <2>5
    <3>2. Conv(IndexForm(lambda), s, k) = {} /\ Conv(xb, s, k) = {}
      BY <2>2, <3>1 DEF Predicts, Corrects
    <3>3. Product(d, index_of[{}]) = {}
      BY Zero, IndexFacts, ProductFacts
    <3> QED
      BY <2>3, <3>2, <3>3, XorLaws
  <2> QED
    BY <2>4, <2>5
<1> QED
  BY <1>2, <1>3, <1>4 DEF Predicts

\* The quotient of two symbols, as the code has it.
LEMMA Quotient ==
  ASSUME NEW j \in Indices, j # nn, NEW d \in Indices, d # nn
  PROVE  /\ rs_modnn[j - d + nn] \in Indices
         /\ Product(d, rs_modnn[j - d + nn]) = alpha_to[j]
<1> DEFINE x == j - d + nn
           e == rs_modnn[x]
<1>1. nn \in Nat /\ nn >= 2 /\ j \in Nat /\ d \in Nat /\ x \in Nat /\ x + d = j + nn
  BY Sizes DEF Indices
<1> HIDE DEF x
<1>2. e = x % nn
  BY <1>1, ModnnIs
<1>3. x % nn \in 0..(nn - 1)
  BY <1>1
<1>4. e \in Indices /\ e # nn
  BY <1>1, <1>2, <1>3 DEF Indices
<1>5. Product(d, e) = Product(e, d) /\ Product(e, d) = power[e + d]
  <2> HIDE DEF e
  <2> QED
    BY <1>4, ProductFacts
<1>6. power[e + d] = power[x + d]
  BY <1>1, <1>2, PowersMod
<1>7. power[j + nn] = power[j]
  BY <1>1, PowersReturn
<1>8. alpha_to[j] = power[j]
  BY DEF alpha_to, Indices
<1> HIDE DEF e
<1>9. e \in Indices /\ Product(d, e) = alpha_to[j]
  BY <1>1, <1>4, <1>5, <1>6, <1>7, <1>8
<1> QED
  BY <1>9 DEF e, x

\* When the length changes, the old locator, divided by the discrepancy, becomes the
\* correction polynomial.
LEMMA ScaledStep ==
  ASSUME NEW n \in Nat, n < nroots, NEW lambda, NEW el \in 0..n, NEW s \in SyndromeIndices,
         Predicts(lambda, el, n, s),
         NEW d \in Indices, d # nn, alpha_to[d] = Conv(IndexForm(lambda), s, n),
         NEW scaled \in PolynomialIndices,
         \A i \in 0..nroots : Product(d, scaled[i]) = lambda[i],
         \A i \in 0..nroots : lambda[i] = {} => scaled[i] = nn
  PROVE  Corrects(scaled, (n + 1) - el, n + 1, s)
<1>1. nroots \in Nat /\ lambda \in Polynomial /\ el \in Nat /\ n \in 0..nroots-1 /\ nn \in Indices
  BY Sizes DEF Predicts, Indices
<1>2. ASSUME NEW i \in 0..nroots, i > (n + 1) - ((n + 1) - el)
      PROVE  scaled[i] = nn
  <2>1. i > el
    BY <1>1, <1>2
  <2> QED
    BY <2>1 DEF Predicts
<1>3. ASSUME NEW k \in 0..nroots-1
      PROVE  /\ index_of[Conv(scaled, s, k)] \in Indices
             /\ alpha_to[index_of[Conv(scaled, s, k)]] = Conv(scaled, s, k)
             /\ Conv(IndexForm(lambda), s, k) = Product(d, index_of[Conv(scaled, s, k)])
  <2> DEFINE g == IndexForm(lambda)
  <2>1. g \in PolynomialIndices /\ \A i \in 0..nroots : g[i] = index_of[Product(d, scaled[i])]
    BY <1>1, IndexFormType
  <2> HIDE DEF g
  <2>2. Conv(g, s, k) = Product(d, index_of[Conv(scaled, s, k)])
    BY <2>1, ConvOfMultiple
  <2>3. Conv(scaled, s, k) \in Symbol
    BY SumType DEF Conv
  <2> QED
    BY <2>2, <2>3, IndexFacts DEF g
<1>4. ASSUME NEW k \in ((n + 1) - ((n + 1) - el))..((n + 1) - 2)
      PROVE  Conv(scaled, s, k) = {}
  <2> DEFINE y == index_of[Conv(scaled, s, k)]
  <2>1. k \in el..n-1 /\ k \in 0..nroots-1
    BY <1>1
  <2>2. y \in Indices /\ alpha_to[y] = Conv(scaled, s, k) /\ Product(d, y) = {}
    BY <1>3, <2>1 DEF Predicts
  <2>3. Product(d, nn) = {} /\ alpha_to[nn] = {}
    BY <1>1, ProductFacts, IndexFacts, Zero
  <2> HIDE DEF y
  <2>4. y = nn
    BY <1>1, <2>2, <2>3, Cancel
  <2> QED
    BY <2>2, <2>3, <2>4
<1>5. Conv(scaled, s, (n + 1) - 1) = {0}
  <2> DEFINE y == index_of[Conv(scaled, s, n)]
  <2>1. (n + 1) - 1 = n
    OBVIOUS
  <2>2. y \in Indices /\ alpha_to[y] = Conv(scaled, s, n) /\ Product(d, y) = alpha_to[d]
    BY <1>1, <1>3
  <2>3. Product(d, 0) = alpha_to[d]
    BY IndexOfOne, ProductFacts
  <2> HIDE DEF y
  <2>4. y = 0
    BY <2>2, <2>3, Cancel, IndexOfOne
  <2> QED
    BY <2>1, <2>2, <2>4, IndexOfOne
<1> QED
  BY <1>2, <1>4, <1>5 DEF Corrects

\* The quotients of a locator's coefficients, and its difference with a multiple of another.
LEMMA ScaledType ==
  ASSUME NEW lambda \in Polynomial, NEW d \in Indices, d # nn, NEW scaled,
         scaled = [i \in 0..nroots |-> IF lambda[i] = {} THEN nn
                                       ELSE rs_modnn[index_of[lambda[i]] - d + nn]]
  PROVE  /\ scaled \in PolynomialIndices
         /\ \A i \in 0..nroots : Product(d, scaled[i]) = lambda[i]
         /\ \A i \in 0..nroots : lambda[i] = {} => scaled[i] = nn
<1>1. nn \in Indices
  BY Sizes DEF Indices
<1>2. ASSUME NEW i \in 0..nroots
      PROVE  scaled[i] \in Indices /\ Product(d, scaled[i]) = lambda[i]
  <2>1. lambda[i] \in Symbol
    BY DEF Polynomial
  <2>2. CASE lambda[i] = {}
    BY <1>1, <2>2, ProductFacts
  <2>3. CASE lambda[i] # {}
    <3> DEFINE j == index_of[lambda[i]]
    <3>1. j \in Indices /\ j # nn /\ alpha_to[j] = lambda[i]
      BY <2>1, <2>3, IndexFacts
    <3>2. scaled[i] = rs_modnn[j - d + nn]
      BY <2>3
    <3> HIDE DEF j
    <3>3. rs_modnn[j - d + nn] \in Indices /\ Product(d, rs_modnn[j - d + nn]) = alpha_to[j]
      BY <3>1, Quotient
    <3> QED
      BY <3>1, <3>2, <3>3
  <2> QED
    BY <2>2, <2>3
<1> QED
  BY <1>2 DEF PolynomialIndices

\* A step of Berlekamp-Massey leaves a polynomial.
LEMMA DifferenceType ==
  ASSUME NEW lambda \in Polynomial, NEW d \in Indices, NEW xb \in PolynomialIndices
  PROVE  [i \in 0..nroots |-> Xor(lambda[i], Product(d, xb[i]))] \in Polynomial
<1>1. \A i \in 0..nroots : lambda[i] \in Symbol /\ Product(d, xb[i]) \in Symbol
  BY ProductFacts DEF Polynomial, PolynomialIndices
<1> QED
  BY <1>1, XorType DEF Polynomial

\* The discrepancy is the coefficient of the next syndrome.
LEMMA DiscrepancyIs ==
  ASSUME NEW n \in Nat, n < nroots, NEW lambda \in Polynomial, NEW s
  PROVE  Discrepancy(lambda, n + 1, s) = Conv(IndexForm(lambda), s, n)
<1>1. nroots \in Nat /\ (n + 1) - 1 = n
  BY Sizes
<1> DEFINE f == [i \in 0..n |-> Product(index_of[lambda[i]], s[(n + 1) - i - 1])]
           g == [i \in 0..n |-> Product(IndexForm(lambda)[i], s[n - i])]
<1>2. Discrepancy(lambda, n + 1, s) = XorSum(n, f)
  BY <1>1 DEF Discrepancy, XorAll, XorSum
<1>3. ASSUME NEW i \in 0..n PROVE f[i] = g[i]
  <2>1. i \in 0..nroots /\ (n + 1) - i - 1 = n - i
    BY <1>1
  <2> QED
    BY <2>1 DEF IndexForm
<1>4. XorSum(n, f) = XorSum(n, g)
  <2> HIDE DEF f, g
  <2> QED
    BY <1>3, SumSame
<1> QED
  BY <1>2, <1>4 DEF Conv

\* A step of Berlekamp-Massey.
LEMMA StepLocates ==
  ASSUME NEW n \in Nat, n < nroots, NEW s \in SyndromeIndices, NEW st, Locates(st, n, s)
  PROVE  Locates(BerlekampMasseyStep(st, n + 1, s), n + 1, s)
<1> DEFINE lambda == st.lambda
           b == st.b
           el == st.el
           xb == TimesX(b)
           d == index_of[Discrepancy(lambda, n + 1, s)]
           t == [i \in 0..nroots |-> Xor(lambda[i], Product(d, xb[i]))]
           scaled == [i \in 0..nroots |-> IF lambda[i] = {} THEN nn
                                          ELSE rs_modnn[index_of[lambda[i]] - d + nn]]
           next == BerlekampMasseyStep(st, n + 1, s)
<1>1. /\ st = [lambda |-> lambda, b |-> b, el |-> el]
      /\ Predicts(lambda, el, n, s) /\ Corrects(b, el, n, s)
  BY DEF Locates
<1>2. next = IF d = nn THEN [st EXCEPT !.b = xb]
             ELSE IF 2 * el <= (n + 1) - 1
                  THEN [lambda |-> t, b |-> scaled, el |-> (n + 1) - el]
                  ELSE [st EXCEPT !.lambda = t, !.b = xb]
  BY DEF BerlekampMasseyStep
<1> HIDE DEF lambda, b, el, xb, t, next
<1>fields. /\ [st EXCEPT !.b = xb] = [lambda |-> lambda, b |-> xb, el |-> el]
       /\ [st EXCEPT !.lambda = t, !.b = xb] = [lambda |-> t, b |-> xb, el |-> el]
  <2>0. st = [lambda |-> lambda, b |-> b, el |-> el]
    BY <1>1
  <2>1. [[lambda |-> lambda, b |-> b, el |-> el] EXCEPT !.b = xb] = [lambda |-> lambda, b |-> xb, el |-> el]
    OBVIOUS
  <2>2. [[lambda |-> lambda, b |-> b, el |-> el] EXCEPT !.lambda = t] = [lambda |-> t, b |-> b, el |-> el]
    OBVIOUS
  <2>3. [[lambda |-> t, b |-> b, el |-> el] EXCEPT !.b = xb] = [lambda |-> t, b |-> xb, el |-> el]
    OBVIOUS
  <2>4. [st EXCEPT !.lambda = t] = [lambda |-> t, b |-> b, el |-> el]
    BY <2>0, <2>2, Zenon
  <2>5. [[st EXCEPT !.lambda = t] EXCEPT !.b = xb] = [st EXCEPT !.lambda = t, !.b = xb]
    BY Zenon
  <2>6. [st EXCEPT !.b = xb] = [lambda |-> lambda, b |-> xb, el |-> el]
    BY <2>0, <2>1, Zenon
  <2>7. [st EXCEPT !.lambda = t, !.b = xb] = [lambda |-> t, b |-> xb, el |-> el]
    BY <2>3, <2>4, <2>5, Zenon
  <2> QED
    BY <2>6, <2>7, Zenon
<1>3. /\ nroots \in Nat /\ lambda \in Polynomial /\ b \in PolynomialIndices /\ el \in 0..n
      /\ el \in Nat /\ nn \in Indices
  BY <1>1, Sizes DEF Predicts, Corrects, Indices
<1>4. d \in Indices /\ alpha_to[d] = Conv(IndexForm(lambda), s, n)
      /\ (d = nn => Conv(IndexForm(lambda), s, n) = {})
  <2>1. Discrepancy(lambda, n + 1, s) = Conv(IndexForm(lambda), s, n)
    BY <1>3, DiscrepancyIs
  <2>2. Conv(IndexForm(lambda), s, n) \in Symbol
    BY SumType DEF Conv
  <2> QED
    BY <2>1, <2>2, IndexFacts
<1>5. Corrects(xb, el, n + 1, s) /\ xb \in PolynomialIndices /\ xb[0] = nn
  <2>1. Corrects(xb, el, n + 1, s)
    BY <1>1, <1>3, ShiftedStep DEF xb
  <2>2. xb[0] = nn
    BY <1>3 DEF TimesX, xb
  <2> QED
    BY <2>1, <2>2 DEF Corrects
<1> HIDE DEF d
<1>6. t \in Polynomial /\ \A i \in 0..nroots : t[i] = Xor(lambda[i], Product(d, xb[i]))
  BY <1>3, <1>4, <1>5, DifferenceType DEF t
<1>7. CASE d = nn
  <2>1. Predicts(lambda, el, n + 1, s)
    BY <1>1, <1>4, <1>7, PredictedStep
  <2>2. next = [lambda |-> lambda, b |-> xb, el |-> el]
    BY <1>2, <1>7, <1>fields
  <2> QED
    BY <1>5, <2>1, <2>2 DEF Locates, next
<1>8. CASE d # nn /\ 2 * el <= (n + 1) - 1
  <2>1. /\ (n + 1) - el \in 0..(n + 1) /\ (n + 1) - el >= el /\ (n + 1) - el >= (n + 1) - el
    BY <1>3, <1>8
  <2>2. Predicts(t, (n + 1) - el, n + 1, s)
    BY <1>1, <1>3, <1>4, <1>5, <1>6, <2>1, CorrectedStep
  <2>3. /\ scaled \in PolynomialIndices
        /\ \A i \in 0..nroots : Product(d, scaled[i]) = lambda[i]
        /\ \A i \in 0..nroots : lambda[i] = {} => scaled[i] = nn
    BY <1>3, <1>4, <1>8, ScaledType
  <2> HIDE DEF scaled
  <2>4. Corrects(scaled, (n + 1) - el, n + 1, s)
    BY <1>1, <1>3, <1>4, <1>8, <2>3, ScaledStep
  <2>5. next = [lambda |-> t, b |-> scaled, el |-> (n + 1) - el]
    BY <1>2, <1>8
  <2> QED
    BY <2>2, <2>4, <2>5 DEF Locates, next
<1>9. CASE d # nn /\ ~(2 * el <= (n + 1) - 1)
  <2>1. el \in 0..(n + 1) /\ el >= el /\ el >= (n + 1) - el
    BY <1>3, <1>9
  <2>2. Predicts(t, el, n + 1, s)
    BY <1>1, <1>3, <1>4, <1>5, <1>6, <2>1, CorrectedStep
  <2>3. next = [lambda |-> t, b |-> xb, el |-> el]
    BY <1>2, <1>9, <1>fields
  <2> QED
    BY <1>5, <2>2, <2>3 DEF Locates, next
<1> QED
  BY <1>7, <1>8, <1>9

\* The degree of a locator is at most the register's length, as zeros follow.
LEMMA DegreeIs ==
  ASSUME NEW lambda \in Polynomial, NEW el \in Nat, lambda[0] # {},
         \A i \in 0..nroots : i > el => lambda[i] = {}
  PROVE  Degree(IndexForm(lambda)) <= el
<1> DEFINE S == {i \in 0..nroots : IndexForm(lambda)[i] # nn}
           T == {nroots - i : i \in S}
<1>1. nroots \in Nat /\ 0 \in 0..nroots
  BY Sizes
<1>2. ASSUME NEW i \in 0..nroots
      PROVE  IndexForm(lambda)[i] = nn <=> lambda[i] = {}
  <2>1. lambda[i] \in Symbol
    BY DEF Polynomial
  <2> QED
    BY <2>1, IndexFormType, IndexFacts
<1>3. 0 \in S /\ S \subseteq 0..nroots /\ \A i \in S : i <= el
  BY <1>1, <1>2
<1> HIDE DEF S
<1>4. T \in SUBSET Nat /\ T # {}
  BY <1>1, <1>3
<1>5. PICK m \in T : \A x \in T : m <= x
  <2> HIDE DEF T
  <2> QED
    BY <1>4, LeastNumber
<1>6. PICK i \in S : m = nroots - i
  OBVIOUS
<1>7. \A j \in S : i >= j
  <2> TAKE j \in S
  <2>1. m <= nroots - j
    BY <1>5
  <2> QED
    BY <1>1, <1>3, <1>6, <2>1
<1>8. Max(S) \in S
  BY <1>7 DEF Max
<1> QED
  BY <1>3, <1>8 DEF Degree, S

\* The invariant of the decoder: the register has been run over the first r syndromes.
Locating ==
  /\ half \in Half
  /\ phase = "locate" => /\ r \in 0..nroots
                         /\ syn \in SyndromeIndices
                         /\ Locates(register, r, syn)

\* It holds at first, as nothing is decoded.
LEMMA LocatingInit == Init => Locating
BY DEF Init, Locating, Half

\* What is read are symbols.
LEMMA WordType ==
  ASSUME NEW pixels, full_message = ReadBack(pixels), NEW h \in Half
  PROVE  Word(h) \in [0..nn-1 -> Symbol]
<1>1. nn \in Nat /\ nn >= 2
  BY ImageSizes
<1>2. ASSUME NEW i \in 0..nn-1
      PROVE  full_message[h * nn + i] \in Symbol
  <2> DEFINE k == h * nn + i
  <2>1. k \in 0..2*nn-1
    BY <1>1 DEF Half
  <2> HIDE DEF k
  <2>2. k % BlockBytes \in 0..BlockBytes-1
    <3>1. k \in Nat
      BY <1>1, <2>1
    <3>2. k % BlockBytes \in Nat /\ k % BlockBytes < BlockBytes
      BY <3>1, ImageSizes, DivModOf
    <3> QED
      BY <3>2, ImageSizes
  <2>3. full_message[k] = ReadBlock(pixels, k \div BlockBytes)[k % BlockBytes]
    BY <2>1 DEF ReadBack
  <2>4. full_message[k] \subseteq 0..ByteBits-1
    BY <2>2, <2>3 DEF ReadBlock, ToString
  <2> QED
    BY <2>4, ImageSizes DEF Symbol, k
<1> QED
  BY <1>2 DEF Word

\* decode_rs8() starts with an empty register, on the syndromes of a word of symbols,
LEMMA DecodeLocates == Carried /\ Locating /\ Decode => Locating'
<1> SUFFICES ASSUME Carried, Locating, Decode PROVE Locating'
  OBVIOUS
<1>1. half \in Half /\ full_message = ReadBack(decoded)
  BY DEF Carried, Locating, Decode
<1>2. syn' \in SyndromeIndices
  <2>1. Word(half) \in [0..nn-1 -> Symbol]
    BY <1>1, WordType
  <2> QED
    BY <2>1, SyndromesType DEF SyndromeIndices, Decode
<1>3. r' = 0 /\ r' \in 0..nroots /\ register' = EmptyRegister
  BY Sizes DEF Decode
<1>4. Locates(register', r', syn')
  BY <1>3, EmptyLocates
<1>5. half' \in Half
  BY <1>1 DEF Decode, Written, Half
<1> QED
  BY <1>2, <1>3, <1>4, <1>5 DEF Locating

\* each of its steps keeps the invariant,
LEMMA LocateLocates == Locating /\ Locate => Locating'
<1> SUFFICES ASSUME Locating, Locate PROVE Locating'
  OBVIOUS
<1>1. /\ half \in Half /\ r \in Nat /\ r < nroots /\ syn \in SyndromeIndices
      /\ Locates(register, r, syn) /\ nroots \in Nat
  BY Sizes DEF Locating, Locate
<1>2. Locates(BerlekampMasseyStep(register, r + 1, syn), r + 1, syn)
  BY <1>1, StepLocates
<1>3. /\ r' = r + 1 /\ r' \in 0..nroots /\ syn' = syn /\ half' = half
      /\ register' = BerlekampMasseyStep(register, r + 1, syn)
  BY <1>1 DEF Locate
<1> QED
  BY <1>1, <1>2, <1>3 DEF Locating

\* and nothing else touches the register.
LEMMA LocatingStep == Carried /\ Locating /\ [Next]_vars => Locating'
<1> SUFFICES ASSUME Carried, Locating, [Next]_vars PROVE Locating'
  OBVIOUS
<1>1. CASE Encode
  BY <1>1 DEF Encode, Locating
<1>2. CASE Embed
  BY <1>2 DEF Embed, Locating
<1>3. CASE Compress
  BY <1>3 DEF Compress, Locating
<1>4. CASE Read
  BY <1>4 DEF Read, Locating, Half
<1>5. CASE Finish
  BY <1>5 DEF Finish, Written, Locating, Half
<1>6. CASE UNCHANGED vars
  BY <1>6 DEF vars, Locating
<1> QED
  BY <1>1, <1>2, <1>3, <1>4, <1>5, <1>6, DecodeLocates, LocateLocates DEF Next

\* In every state the locator is as far as Locating says.
LEMMA LocatingHolds == Spec => []Locating
BY LocatingInit, LocatingStep, CarriedHolds, PTL DEF Spec

\* decode_rs8(), "Begin Berlekamp-Massey algorithm": after every step, for every field and
\* number of parity symbols and for whatever was read, the register with the constant
\* coefficient one, of length el, generates the syndromes so far from the first el of them, and
\* its polynomial has at most that degree.
THEOREM RegisterPredictsHolds == Spec => []RegisterPredicts
<1>1. Locating => RegisterPredicts
  <2> SUFFICES ASSUME Locating, phase = "locate" PROVE RegisterPredicts
    BY DEF RegisterPredicts
  <2> DEFINE lambda == register.lambda
             el == register.el
  <2>1. /\ r \in 0..nroots /\ syn \in SyndromeIndices /\ Predicts(lambda, el, r, syn)
        /\ nroots \in Nat /\ lambda \in Polynomial /\ el \in 0..r /\ r \in Nat /\ el \in Nat
    BY Sizes DEF Locating, Locates, Predicts
  <2> HIDE DEF lambda, el
  <2>2. lambda[0] = {0} /\ Degree(IndexForm(lambda)) <= el
    BY <2>1, One, DegreeIs DEF Predicts
  <2>3. ASSUME NEW k \in el..r-1
        PROVE  XorAll(0..el, LAMBDA i : Product(index_of[lambda[i]], syn[k - i])) = {}
    <3> DEFINE f == [i \in 0..k |-> Product(IndexForm(lambda)[i], syn[k - i])]
               g == [i \in 0..el |-> Product(index_of[lambda[i]], syn[k - i])]
    <3>1. k \in Nat /\ k >= el /\ k < nroots
      BY <2>1
    <3>2. XorSum(k, f) = {}
      BY <2>1 DEF Predicts, Conv
    <3>3. ASSUME NEW i \in (el + 1)..k PROVE f[i] = {}
      <4>1. i \in 0..nroots /\ i > el /\ i \in 0..k /\ k - i \in 0..nroots-1
        BY <2>1, <3>1
      <4>2. lambda[i] = {} /\ index_of[{}] = nn
        BY <2>1, <4>1, Zero, IndexFacts DEF Predicts
      <4>3. syn[k - i] \in Indices
        BY <2>1, <4>1 DEF SyndromeIndices
      <4> QED
        BY <4>1, <4>2, <4>3, ProductFacts DEF IndexForm
    <3>4. XorSum(k, f) = XorSum(el, f)
      <4> HIDE DEF f
      <4> QED
        BY <2>1, <3>1, <3>3, SumTail
    <3>5. ASSUME NEW i \in 0..el PROVE f[i] = g[i]
      BY <2>1, <3>1 DEF IndexForm
    <3>6. XorSum(el, f) = XorSum(el, g)
      <4> HIDE DEF f, g
      <4> QED
        BY <3>5, SumSame
    <3>7. XorAll(0..el, LAMBDA i : Product(index_of[lambda[i]], syn[k - i])) = XorSum(el, g)
      BY DEF XorAll, XorSum
    <3> QED
      BY <3>2, <3>4, <3>6, <3>7
  <2> QED
    BY <2>2, <2>3 DEF RegisterPredicts, lambda, el
<1> QED
  BY <1>1, LocatingHolds, PTL

-----------------------------------------------------------------------------
(* Products of symbols.                                                      *)

\* The product of two symbols, as the code computes it: through their indices.
Times(s, t) == Product(index_of[s], index_of[t])

\* It is a symbol,
LEMMA TimesType == \A s, t \in Symbol : Times(s, t) \in Symbol
BY IndexFacts, ProductFacts DEF Times

\* commutative, with a one and a zero,
LEMMA TimesLaws ==
  /\ \A s, t \in Symbol : Times(s, t) = Times(t, s)
  /\ \A s \in Symbol : Times({}, s) = {} /\ Times(s, {}) = {}
  /\ \A s \in Symbol : Times({0}, s) = s /\ Times(s, {0}) = s
<1>1. \A s, t \in Symbol : Times(s, t) = Times(t, s)
  BY IndexFacts, ProductFacts DEF Times
<1>2. \A s \in Symbol : Times({}, s) = {}
  BY Zero, IndexFacts, ProductFacts DEF Times
<1>3. \A s \in Symbol : Times({0}, s) = s
  BY IndexOfOne, IndexFacts, ProductFacts DEF Times
<1> QED
  BY <1>1, <1>2, <1>3, Zero, One

\* associative,
LEMMA TimesAssociative ==
  \A s, t, u \in Symbol : Times(Times(s, t), u) = Times(s, Times(t, u))
<1> TAKE s \in Symbol, t \in Symbol, u \in Symbol
<1>1. index_of[s] \in Indices /\ index_of[t] \in Indices /\ index_of[u] \in Indices
  BY IndexFacts
<1> QED
  BY <1>1, Associative DEF Times

\* and distributive over exclusive or.
LEMMA TimesDistributive ==
  \A s, t, u \in Symbol : /\ Times(s, Xor(t, u)) = Xor(Times(s, t), Times(s, u))
                          /\ Times(Xor(t, u), s) = Xor(Times(t, s), Times(u, s))
<1> TAKE s \in Symbol, t \in Symbol, u \in Symbol
<1>1. index_of[s] \in Indices
  BY IndexFacts
<1>2. Times(s, Xor(t, u)) = Xor(Times(s, t), Times(s, u))
  BY <1>1, Distributive DEF Times
<1> QED
  BY <1>2, XorType, TimesLaws

\* The exponents of powers add up.
LEMMA PowerFacts ==
  /\ \A i \in Nat : power[i] \in Symbol /\ power[i] # {}
  /\ power[0] = {0} /\ power[nn] = {0}
  /\ \A i, j \in Nat : power[i + j] = Times(power[i], power[j])
<1>1. \A i \in Nat : power[i] \in Symbol /\ power[i] # {}
  BY PowersType, PowersReturn
<1>2. ASSUME NEW i \in Nat PROVE index_of[power[i]] = i % nn /\ i % nn \in Nat
  <2>1. i % nn \in 0..(nn - 1)
    BY Sizes
  <2>2. i % nn \in Indices /\ i % nn # nn
    BY <2>1, Sizes DEF Indices
  <2>3. alpha_to[i % nn] = power[i % nn]
    BY <2>2 DEF alpha_to, Indices
  <2> QED
    BY <2>1, <2>2, <2>3, IndexFacts, PowersReturn
<1>3. ASSUME NEW i \in Nat, NEW j \in Nat
      PROVE  power[i + j] = Times(power[i], power[j])
  <2> DEFINE x == i % nn   y == j % nn
  <2>1. x \in Indices /\ y \in Indices /\ x # nn /\ y # nn /\ x \in Nat /\ y \in Nat
    <3>1. x \in 0..(nn - 1) /\ y \in 0..(nn - 1)
      BY Sizes
    <3> QED
      BY <3>1, Sizes DEF Indices
  <2>2. Times(power[i], power[j]) = Product(x, y)
    BY <1>2 DEF Times
  <2> HIDE DEF x, y
  <2>3. Product(x, y) = power[x + y]
    BY <2>1, ProductFacts
  <2>4. power[x + y] = power[i + y]
    BY <2>1, PowersMod DEF x
  <2>5. power[y + i] = power[j + i]
    BY <2>1, PowersMod DEF y
  <2>6. i + y = y + i /\ j + i = i + j
    BY <2>1
  <2> QED
    BY <2>2, <2>3, <2>4, <2>5, <2>6
<1> QED
  BY <1>1, <1>3, PowersReturn, PowersType

\* There are no divisors of zero.
LEMMA TimesZero ==
  \A s, t \in Symbol : Times(s, t) = {} => s = {} \/ t = {}
<1> TAKE s \in Symbol, t \in Symbol
<1> SUFFICES ASSUME s # {}, t # {} PROVE Times(s, t) # {}
  OBVIOUS
<1> DEFINE x == index_of[s]   y == index_of[t]
<1>1. x \in Indices /\ y \in Indices /\ x # nn /\ y # nn
  BY IndexFacts
<1>2. Times(s, t) = Product(x, y)
  BY DEF Times
<1> HIDE DEF x, y
<1>3. Product(x, y) = power[x + y] /\ x + y \in Nat
  BY <1>1, ProductFacts, Sizes DEF Indices
<1> QED
  BY <1>2, <1>3, PowersReturn

\* The difference of two symbols is zero only when they are the same.
LEMMA XorZero == \A s, t : Xor(s, t) = {} => s = t
BY DEF Xor

\* A factor that is not zero cancels.
LEMMA TimesCancel ==
  \A s, t, u \in Symbol : u # {} /\ Times(s, u) = Times(t, u) => s = t
<1> TAKE s \in Symbol, t \in Symbol, u \in Symbol
<1> SUFFICES ASSUME u # {}, Times(s, u) = Times(t, u) PROVE s = t
  OBVIOUS
<1>1. Times(Xor(s, t), u) = Xor(Times(s, u), Times(t, u))
  BY TimesDistributive
<1>2. Times(Xor(s, t), u) = {} /\ Xor(s, t) \in Symbol
  BY <1>1, XorLaws, XorType
<1> QED
  BY <1>2, TimesZero, XorZero

\* Different exponents below nn give different powers.
LEMMA PowersDiffer ==
  \A i, j \in 0..nn-1 : power[i] = power[j] => i = j
<1> TAKE i \in 0..nn-1, j \in 0..nn-1
<1>1. i \in Indices /\ j \in Indices /\ i # nn /\ j # nn
  BY Sizes DEF Indices
<1>2. alpha_to[i] = power[i] /\ alpha_to[j] = power[j]
  BY <1>1 DEF alpha_to, Indices
<1> QED
  BY <1>1, <1>2, IndexFacts

\* The powers return after nn of them.
LEMMA PowersPeriod == \A i, m \in Nat : power[i + nn * m] = power[i]
<1> TAKE i \in Nat, m \in Nat
<1> DEFINE p == nn   x == i + p * m
<1>1. p \in Nat /\ p >= 1
  BY Sizes
<1> HIDE DEF p
<1>2. x \in Nat /\ x % p = i % p
  <2>1. (i + p * m) % p = i % p
    BY <1>1, ModOfSum
  <2>2. p * m \in Nat
    BY <1>1
  <2> QED
    BY <2>1, <2>2
<1> HIDE DEF x
<1>3. power[x % p] = power[x] /\ power[i % p] = power[i]
  BY <1>2, PowersReturn DEF p
<1> QED
  BY <1>2, <1>3 DEF p, x

\* Times a constant is additive.
LEMMA SumTimes ==
  ASSUME NEW c \in Symbol, NEW n \in Nat, NEW f, NEW g,
         \A i \in 0..n : f[i] \in Symbol /\ g[i] = Times(c, f[i])
  PROVE  XorSum(n, g) = Times(c, XorSum(n, f))
<1> DEFINE M == [u \in Symbol |-> Times(c, u)]
<1>1. M \in [Symbol -> Symbol]
  BY TimesType
<1>2. \A u, v \in Symbol : M[Xor(u, v)] = Xor(M[u], M[v])
  BY TimesDistributive, XorType
<1>3. \A i \in 0..n : f[i] \in Symbol /\ g[i] = M[f[i]]
  OBVIOUS
<1>4. XorSum(n, f) \in Symbol
  BY SumType
<1>5. M[XorSum(n, f)] = XorSum(n, g)
  <2> HIDE DEF M
  <2> QED
    BY <1>1, <1>2, <1>3, SumImage
<1> QED
  BY <1>4, <1>5

\* A sum with one term that is not zero.
LEMMA SumAlone ==
  ASSUME NEW n \in Nat, NEW f, NEW a \in 0..n, f[a] \in Symbol, \A i \in 0..n : i # a => f[i] = {}
  PROVE  XorSum(n, f) = f[a]
<1>1. ASSUME NEW bit \in 0..(mm - 1)
      PROVE  bit \in XorSum(n, f) <=> bit \in f[a]
  <2> DEFINE S == {i \in 0..n : bit \in f[i]}
  <2>1. CASE bit \in f[a]
    <3>1. S = {a}
      BY <2>1
    <3>2. Cardinality(S) = 1
      BY <3>1, FS_Singleton
    <3> QED
      BY <2>1, <3>2 DEF XorSum
  <2>2. CASE bit \notin f[a]
    <3>1. S = {}
      BY <2>2
    <3>2. Cardinality(S) = 0
      BY <3>1, FS_EmptySet
    <3> QED
      BY <2>2, <3>2 DEF XorSum
  <2> QED
    BY <2>1, <2>2
<1> QED
  BY <1>1 DEF XorSum, Symbol

\* A sum of zeros.
LEMMA SumOfZeros ==
  ASSUME NEW n \in Nat, NEW f, \A i \in 0..n : f[i] = {}
  PROVE  XorSum(n, f) = {}
<1>1. f[0] = {} /\ 0 \in 0..n
  OBVIOUS
<1>2. XorSum(n, f) = f[0]
  BY <1>1, Zero, SumAlone
<1> QED
  BY <1>1, <1>2

\* A sum in two parts.
LEMMA SumSplit ==
  ASSUME NEW n \in Nat, NEW m \in Nat, NEW f, NEW g,
         \A i \in 0..(n + 1 + m) : f[i] \in Symbol,
         \A i \in 0..m : g[i] = f[n + 1 + i]
  PROVE  XorSum(n + 1 + m, f) = Xor(XorSum(n, f), XorSum(m, g))
<1> DEFINE T == {k \in Nat : k <= m => XorSum(n + 1 + k, f) = Xor(XorSum(n, f), XorSum(k, g))}
<1>1. 0 \in T
  <2>1. n + 1 + 0 = n + 1 /\ f[n + 1] \in Symbol /\ g[0] = f[n + 1]
    OBVIOUS
  <2>2. XorSum(n + 1, f) = Xor(XorSum(n, f), f[n + 1])
    BY <2>1, SumNext
  <2>3. XorSum(0, g) = g[0]
    BY <2>1, SumFirst
  <2> QED
    BY <2>1, <2>2, <2>3
<1>2. ASSUME NEW k \in T PROVE k + 1 \in T
  <2> SUFFICES ASSUME k + 1 <= m
               PROVE  XorSum(n + 1 + (k + 1), f) = Xor(XorSum(n, f), XorSum(k + 1, g))
    OBVIOUS
  <2>1. /\ k \in Nat /\ n + 1 + (k + 1) = (n + 1 + k) + 1 /\ n + 1 + k \in Nat
        /\ f[(n + 1 + k) + 1] \in Symbol /\ g[k + 1] = f[(n + 1 + k) + 1]
    OBVIOUS
  <2>2. XorSum(n + 1 + k, f) = Xor(XorSum(n, f), XorSum(k, g))
    OBVIOUS
  <2>3. XorSum((n + 1 + k) + 1, f) = Xor(XorSum(n + 1 + k, f), f[(n + 1 + k) + 1])
    BY <2>1, SumNext
  <2>4. XorSum(k + 1, g) = Xor(XorSum(k, g), g[k + 1])
    BY <2>1, SumNext
  <2> QED
    BY <2>1, <2>2, <2>3, <2>4, XorLaws
<1>3. T = Nat
  <2>1. T \in SUBSET Nat
    OBVIOUS
  <2> HIDE DEF T
  <2> QED
    BY <1>1, <1>2, <2>1, Everything
<1> QED
  BY <1>3

\* The order of two sums.
LEMMA SumSwap ==
  ASSUME NEW n \in Nat, NEW m \in Nat, NEW t \in [0..n -> [0..m -> Symbol]]
  PROVE  XorSum(n, [i \in 0..n |-> XorSum(m, t[i])])
           = XorSum(m, [j \in 0..m |-> XorSum(n, [i \in 0..n |-> t[i][j]])])
<1> DEFINE A == [i \in 0..n |-> XorSum(m, t[i])]
           B(k) == [j \in 0..m |-> XorSum(k, [i \in 0..n |-> t[i][j]])]
           T == {k \in Nat : k <= n => XorSum(k, A) = XorSum(m, B(k))}
<1>1. 0 \in T
  <2>1. 0 \in 0..n /\ A[0] = XorSum(m, t[0]) /\ A[0] \in Symbol
    BY SumType
  <2>2. XorSum(0, A) = A[0]
    BY <2>1, SumFirst
  <2>3. ASSUME NEW j \in 0..m PROVE B(0)[j] = t[0][j]
    <3> DEFINE f == [i \in 0..n |-> t[i][j]]
    <3>1. f[0] = t[0][j] /\ f[0] \in Symbol
      BY <2>1
    <3>2. XorSum(0, f) = f[0]
      <4> HIDE DEF f
      <4> QED
        BY <3>1, SumFirst
    <3> QED
      BY <3>1, <3>2
  <2>4. XorSum(m, B(0)) = XorSum(m, t[0])
    <3> HIDE DEF B
    <3> QED
      BY <2>3, SumSame
  <2> QED
    BY <2>1, <2>2, <2>4
<1>2. ASSUME NEW k \in T PROVE k + 1 \in T
  <2> SUFFICES ASSUME k + 1 <= n PROVE XorSum(k + 1, A) = XorSum(m, B(k + 1))
    OBVIOUS
  <2>1. k \in Nat /\ k + 1 \in 0..n /\ A[k + 1] = XorSum(m, t[k + 1]) /\ A[k + 1] \in Symbol
    BY SumType
  <2>2. XorSum(k, A) = XorSum(m, B(k))
    OBVIOUS
  <2>3. XorSum(k + 1, A) = Xor(XorSum(k, A), A[k + 1])
    <3> HIDE DEF A
    <3> QED
      BY <2>1, SumNext
  <2>4. ASSUME NEW j \in 0..m
        PROVE  /\ B(k)[j] \in Symbol /\ t[k + 1][j] \in Symbol
               /\ B(k + 1)[j] = Xor(B(k)[j], t[k + 1][j])
    <3> DEFINE f == [i \in 0..n |-> t[i][j]]
    <3>1. f[k + 1] = t[k + 1][j] /\ f[k + 1] \in Symbol
      BY <2>1
    <3>2. XorSum(k + 1, f) = Xor(XorSum(k, f), f[k + 1]) /\ XorSum(k, f) \in Symbol
      <4> HIDE DEF f
      <4> QED
        BY <2>1, <3>1, SumNext, SumType
    <3> QED
      BY <3>1, <3>2
  <2>5. XorSum(m, B(k + 1)) = Xor(XorSum(m, B(k)), XorSum(m, t[k + 1]))
    <3> DEFINE P == B(k)   Q == B(k + 1)   U == t[k + 1]
    <3>1. \A j \in 0..m : P[j] \in Symbol /\ U[j] \in Symbol /\ Q[j] = Xor(P[j], U[j])
      BY <2>4
    <3> HIDE DEF P, Q, U
    <3>2. XorSum(m, Q) = Xor(XorSum(m, P), XorSum(m, U))
      BY <3>1, SumOfSums
    <3> QED
      BY <3>2 DEF P, Q, U
  <2> HIDE DEF T, A, B
  <2> QED
    BY <2>1, <2>2, <2>3, <2>5
<1>3. T = Nat
  <2>1. T \in SUBSET Nat
    OBVIOUS
  <2> HIDE DEF T
  <2> QED
    BY <1>1, <1>2, <2>1, Everything
<1>4. XorSum(n, A) = XorSum(m, B(n))
  <2>1. n \in T
    BY <1>3
  <2> HIDE DEF A, B
  <2> QED
    BY <2>1
<1> QED
  BY <1>4

-----------------------------------------------------------------------------
(* Few errors leave a trace in the syndromes.                                *)

\* A word, by the exponents of its coefficients, and its value at the k-th power of alpha.
Vector == [0..nn-1 -> Symbol]
At(e, k) == XorSum(nn - 1, [a \in 0..nn-1 |-> Times(e[a], power[a * k])])
Support(e) == {a \in 0..nn-1 : e[a] # {}}

\* Exponents are numbers, and powers symbols.
LEMMA Exponents ==
  \A a, k \in Nat : a * k \in Nat /\ a * (k + 1) = a * k + a
OBVIOUS

\* The terms of a value are symbols.
LEMMA AtTerm ==
  \A e \in Vector, a \in 0..nn-1, k \in Nat :
    /\ a \in Nat /\ a * k \in Nat /\ e[a] \in Symbol /\ power[a * k] \in Symbol
    /\ Times(e[a], power[a * k]) \in Symbol
<1> TAKE e \in Vector, a \in 0..nn-1, k \in Nat
<1>1. a \in Nat /\ e[a] \in Symbol
  BY Sizes DEF Vector
<1>2. power[a * k] \in Symbol /\ a * k \in Nat
  BY <1>1, Exponents, PowerFacts
<1> QED
  BY <1>1, <1>2, TimesType

\* To take one coefficient out, at the cost of one syndrome.
Without(e, p) == [a \in 0..nn-1 |-> Times(e[a], Xor(power[a], power[p]))]

\* The values of what is left are two values of the word, combined.
LEMMA WithoutAt ==
  ASSUME NEW e \in Vector, NEW p \in 0..nn-1, NEW k \in Nat
  PROVE  /\ Without(e, p) \in Vector
         /\ At(Without(e, p), k) = Xor(At(e, k + 1), Times(power[p], At(e, k)))
<1> DEFINE f == [a \in 0..nn-1 |-> Times(Without(e, p)[a], power[a * k])]
           g == [a \in 0..nn-1 |-> Times(e[a], power[a * (k + 1)])]
           h == [a \in 0..nn-1 |-> Times(e[a], power[a * k])]
           x == [a \in 0..nn-1 |-> Times(power[p], h[a])]
<1>1. nn - 1 \in Nat /\ p \in Nat /\ power[p] \in Symbol
  <2>1. nn - 1 \in Nat /\ p \in Nat
    BY Sizes
  <2> QED
    BY <2>1, PowerFacts
<1>2. ASSUME NEW a \in 0..nn-1
      PROVE  /\ Times(e[a], Xor(power[a], power[p])) \in Symbol
             /\ g[a] \in Symbol /\ h[a] \in Symbol /\ x[a] = Times(power[p], h[a])
             /\ x[a] \in Symbol /\ f[a] = Xor(g[a], x[a])
  <2> DEFINE c == e[a]   s == power[a * k]   t == power[a]   u == power[p]
  <2>1. c \in Symbol /\ s \in Symbol /\ t \in Symbol /\ u \in Symbol
    BY <1>1, AtTerm, PowerFacts
  <2>2. g[a] = Times(c, Times(s, t))
    <3>1. a \in Nat /\ a * k \in Nat /\ a * (k + 1) = a * k + a
      BY AtTerm, Exponents
    <3>2. power[a * k + a] = Times(power[a * k], power[a])
      BY <3>1, PowerFacts
    <3> QED
      BY <3>1, <3>2
  <2>3. f[a] = Times(Times(c, Xor(t, u)), s)
    BY DEF Without
  <2>4. h[a] = Times(c, s) /\ x[a] = Times(u, Times(c, s))
    OBVIOUS
  <2>5. Times(c, Xor(t, u)) \in Symbol
    BY <2>1, XorType, TimesType
  <2> HIDE DEF c, s, t, u, f, g, h, x
  <2>6. Times(Times(c, Xor(t, u)), s) = Xor(Times(c, Times(s, t)), Times(u, Times(c, s)))
    <3>1. Times(c, Xor(t, u)) = Xor(Times(c, t), Times(c, u)) /\ Times(c, t) \in Symbol
          /\ Times(c, u) \in Symbol
      BY <2>1, TimesDistributive, TimesType
    <3>2. Times(Times(c, Xor(t, u)), s) = Xor(Times(Times(c, t), s), Times(Times(c, u), s))
      BY <2>1, <3>1, TimesDistributive
    <3>3. Times(Times(c, t), s) = Times(c, Times(s, t))
      BY <2>1, TimesLaws, TimesAssociative
    <3>4. Times(Times(c, u), s) = Times(u, Times(c, s))
      BY <2>1, TimesLaws, TimesAssociative
    <3> QED
      BY <3>2, <3>3, <3>4
  <2>7. Times(c, Times(s, t)) \in Symbol /\ Times(c, s) \in Symbol /\ Times(u, Times(c, s)) \in Symbol
    BY <2>1, TimesType
  <2> QED
    BY <2>2, <2>3, <2>4, <2>5, <2>6, <2>7 DEF c, t, u
<1>3. Without(e, p) \in Vector
  BY <1>2 DEF Without, Vector
<1>4. XorSum(nn - 1, f) = Xor(XorSum(nn - 1, g), XorSum(nn - 1, x))
  <2> HIDE DEF f, g, x, h
  <2> QED
    BY <1>1, <1>2, SumOfSums
<1>5. XorSum(nn - 1, x) = Times(power[p], XorSum(nn - 1, h))
  <2> DEFINE c == power[p]
  <2>1. c \in Symbol /\ \A i \in 0..nn-1 : h[i] \in Symbol /\ x[i] = Times(c, h[i])
    BY <1>1, <1>2
  <2> HIDE DEF x, h, c
  <2>2. XorSum(nn - 1, x) = Times(c, XorSum(nn - 1, h))
    BY <1>1, <2>1, SumTimes
  <2> QED
    BY <2>2 DEF c
<1> QED
  BY <1>3, <1>4, <1>5 DEF At

\* A word has finitely many coefficients that are not zero.
LEMMA SupportFinite ==
  ASSUME NEW e
  PROVE  IsFiniteSet(Support(e)) /\ Cardinality(Support(e)) \in Nat /\ Support(e) \subseteq 0..nn-1
<1>1. nn - 1 \in Int /\ 0 \in Int
  BY Sizes
<1>2. IsFiniteSet(0..(nn - 1))
  BY <1>1, FS_Interval
<1>3. Support(e) \in SUBSET (0..nn-1)
  BY DEF Support
<1> QED
  BY <1>2, <1>3, FS_Subset, FS_CardinalityType

\* As many syndromes in a row as there may be coefficients are not all zero, unless all
\* coefficients are.
Traced(v) ==
  \A e \in Vector, n \in Nat :
    Cardinality(Support(e)) <= v /\ (\A k \in Nat : n <= k /\ k < n + v => At(e, k) = {})
      => Support(e) = {}

\* By induction over their number: each coefficient taken out costs one value.
LEMMA Trace == \A v \in Nat : Traced(v)
<1> DEFINE T == {v \in Nat : Traced(v)}
<1>1. 0 \in T
  <2> SUFFICES ASSUME NEW e \in Vector, Cardinality(Support(e)) <= 0 PROVE Support(e) = {}
    BY DEF Traced
  <2> QED
    BY SupportFinite, FS_EmptySet
<1>2. ASSUME NEW v \in T PROVE v + 1 \in T
  <2> SUFFICES ASSUME NEW e \in Vector, NEW n \in Nat, Cardinality(Support(e)) <= v + 1,
                      \A k \in Nat : n <= k /\ k < n + (v + 1) => At(e, k) = {},
                      NEW p \in Support(e)
               PROVE  FALSE
    BY DEF Traced
  <2> DEFINE f == Without(e, p)
  <2>1. v \in Nat /\ Traced(v) /\ p \in 0..nn-1 /\ p \in Nat /\ power[p] \in Symbol
    BY Sizes, PowerFacts DEF Support
  <2>2. f \in Vector
    BY <2>1, WithoutAt
  <2>3. \A k \in Nat : n <= k /\ k < n + v => At(f, k) = {}
    <3> SUFFICES ASSUME NEW k \in Nat, n <= k, k < n + v PROVE At(f, k) = {}
      OBVIOUS
    <3>1. At(e, k + 1) = {} /\ At(e, k) = {}
      BY <2>1
    <3>2. At(f, k) = Xor(At(e, k + 1), Times(power[p], At(e, k)))
      BY <2>1, WithoutAt
    <3> QED
      BY <2>1, <3>1, <3>2, TimesLaws, XorLaws
  <2>4. ASSUME NEW a \in 0..nn-1 PROVE f[a] = {} <=> e[a] = {} \/ a = p
    <3>1. a \in Nat /\ e[a] \in Symbol /\ power[a] \in Symbol /\ f[a] = Times(e[a], Xor(power[a], power[p]))
      <4>1. a \in Nat
        BY Sizes
      <4>2. power[a] \in Symbol
        BY <4>1, PowerFacts
      <4>3. e[a] \in Symbol
        BY DEF Vector
      <4>4. f[a] = Times(e[a], Xor(power[a], power[p]))
        BY DEF Without
      <4> QED
        BY <4>1, <4>2, <4>3, <4>4
    <3>2. Xor(power[a], power[p]) = {} <=> a = p
      BY <2>1, XorLaws, XorZero, PowersDiffer
    <3>3. Xor(power[a], power[p]) \in Symbol
      BY <2>1, <3>1, XorType
    <3> DEFINE d == Xor(power[a], power[p])
    <3> HIDE DEF d, f
    <3>4. Times(e[a], d) = {} <=> e[a] = {} \/ d = {}
      BY <3>1, <3>3, TimesZero, TimesLaws DEF d
    <3> QED
      BY <3>1, <3>2, <3>4 DEF d
  <2>5. Support(f) = Support(e) \ {p}
    BY <2>4 DEF Support
  <2>6. Cardinality(Support(f)) <= v
    <3>1. Cardinality(Support(e) \ {p}) = Cardinality(Support(e)) - 1
      BY SupportFinite, FS_RemoveElement
    <3> QED
      BY <2>1, <2>5, <3>1, SupportFinite
  <2>7. Support(f) = {}
    <3> HIDE DEF f
    <3> QED
      BY <2>1, <2>2, <2>3, <2>6 DEF Traced
  <2> DEFINE g == [a \in 0..nn-1 |-> Times(e[a], power[a * n])]
  <2>8. XorSum(nn - 1, g) = g[p]
    <3>1. nn - 1 \in Nat
      BY Sizes
    <3>2. \A a \in 0..nn-1 : g[a] \in Symbol /\ (a # p => g[a] = {})
      <4> TAKE a \in 0..nn-1
      <4>1. Times(e[a], power[a * n]) \in Symbol /\ power[a * n] \in Symbol
        BY AtTerm
      <4>2. a # p => e[a] = {}
        BY <2>5, <2>7 DEF Support
      <4> QED
        BY <4>1, <4>2, TimesLaws
    <3> HIDE DEF g
    <3> QED
      BY <2>1, <3>1, <3>2, SumAlone
  <2>9. At(e, n) = {}
    BY <2>1
  <2>10. Times(e[p], power[p * n]) = {}
    BY <2>1, <2>8, <2>9 DEF At
  <2>11. e[p] \in Symbol /\ e[p] # {} /\ power[p * n] \in Symbol /\ power[p * n] # {}
    BY <2>1, AtTerm, PowerFacts DEF Support
  <2> QED
    BY <2>10, <2>11, TimesZero
<1>3. T = Nat
  <2>1. T \in SUBSET Nat
    OBVIOUS
  <2> HIDE DEF T
  <2> QED
    BY <1>1, <1>2, <2>1, Everything
<1> QED
  BY <1>3

-----------------------------------------------------------------------------
(* What the encoder makes has no syndromes.                                  *)

\* The value of a polynomial at the k-th power of alpha.
Value(f, k) == XorSum(nroots, [i \in 0..nroots |-> Times(f[i], power[i * k])])

\* Its terms are symbols.
LEMMA ValueTerm ==
  \A f \in Polynomial, i \in 0..nroots, k \in Nat :
    /\ i \in Nat /\ i * k \in Nat /\ f[i] \in Symbol /\ power[i * k] \in Symbol
    /\ Times(f[i], power[i * k]) \in Symbol
<1> TAKE f \in Polynomial, i \in 0..nroots, k \in Nat
<1>1. i \in Nat /\ f[i] \in Symbol
  BY Sizes DEF Polynomial
<1>2. power[i * k] \in Symbol /\ i * k \in Nat
  BY <1>1, Exponents, PowerFacts
<1> QED
  BY <1>1, <1>2, TimesType

\* The index of a power is its exponent.
LEMMA IndexOfPower == \A i \in 0..nn-1 : i \in Indices /\ power[i] \in Symbol /\ index_of[power[i]] = i
<1> TAKE i \in 0..nn-1
<1>1. i \in Indices /\ i # nn /\ i \in Nat
  BY Sizes DEF Indices
<1>2. alpha_to[i] = power[i]
  BY <1>1 DEF alpha_to, Indices
<1> QED
  BY <1>1, <1>2, IndexFacts

\* Two factors, exchanged.
LEMMA TimesTurned ==
  \A s, t, u \in Symbol : /\ Times(s, Times(t, u)) = Times(u, Times(s, t))
                          /\ Times(s, Times(t, u)) \in Symbol
<1> TAKE s \in Symbol, t \in Symbol, u \in Symbol
<1>1. Times(Times(s, t), u) = Times(s, Times(t, u))
  BY TimesAssociative
<1>2. Times(s, t) \in Symbol /\ Times(t, u) \in Symbol
  BY TimesType
<1>3. Times(Times(s, t), u) = Times(u, Times(s, t))
  BY <1>2, TimesLaws
<1>4. Times(s, Times(t, u)) \in Symbol
  BY <1>2, TimesType
<1> QED
  BY <1>1, <1>3, <1>4

\* A polynomial times x, and
LEMMA ValueShifted ==
  ASSUME NEW f \in Polynomial, f[nroots] = {}, NEW g \in Polynomial, g[0] = {},
         \A i \in 0..nroots-1 : g[i + 1] = f[i],
         NEW k \in Nat
  PROVE  Value(g, k) = Times(power[k], Value(f, k))
<1> DEFINE m == nroots - 1
           c == power[k]
           F == [i \in 0..nroots |-> Times(f[i], power[i * k])]
           G == [i \in 0..nroots |-> Times(g[i], power[i * k])]
           H == [i \in 0..m |-> Times(c, F[i])]
<1>1. m \in Nat /\ m + 1 = nroots /\ nroots \in Nat /\ 0 \in 0..nroots
  BY Sizes
<1>2. c \in Symbol
  BY PowerFacts
<1>3. G[0] = {}
  BY <1>1, ValueTerm, TimesLaws
<1>4. ASSUME NEW i \in 0..m
      PROVE  F[i] \in Symbol /\ H[i] = Times(c, F[i]) /\ H[i] \in Symbol /\ G[i + 1] = H[i]
  <2>1. i \in 0..nroots /\ i + 1 \in 0..nroots /\ i \in Nat
    BY <1>1
  <2>2. F[i] \in Symbol /\ f[i] \in Symbol /\ power[i * k] \in Symbol /\ i * k \in Nat
    BY <2>1, ValueTerm
  <2>3. power[(i + 1) * k] = Times(power[i * k], c)
    <3>1. (i + 1) * k = i * k + k
      BY <2>1
    <3> QED
      BY <2>2, <3>1, PowerFacts
  <2>4. G[i + 1] = Times(f[i], Times(power[i * k], c))
    BY <2>1, <2>3
  <2>5. H[i] = Times(c, Times(f[i], power[i * k]))
    BY <2>1
  <2> DEFINE s == power[i * k]   u == f[i]
  <2>8. s \in Symbol /\ u \in Symbol
    BY <2>2
  <2> HIDE DEF c, F, G, H, s, u
  <2>9. Times(u, Times(s, c)) = Times(c, Times(u, s))
    BY <1>2, <2>8, TimesTurned
  <2>6. Times(f[i], Times(power[i * k], c)) = Times(c, Times(f[i], power[i * k]))
    BY <2>9 DEF s, u
  <2>7. Times(c, F[i]) \in Symbol
    BY <1>2, <2>2, TimesType
  <2> QED
    BY <2>2, <2>4, <2>5, <2>6, <2>7 DEF H, F
<1>5. F[nroots] = {}
  <2>1. ASSUME NEW i \in 0..nroots, f[i] = {} PROVE F[i] = {}
    BY <2>1, ValueTerm, TimesLaws
  <2>2. nroots \in 0..nroots
    BY <1>1
  <2> HIDE DEF F
  <2> QED
    BY <2>1, <2>2
<1> HIDE DEF m, c, F, G, H
<1>9. \A i \in 0..m : F[i] \in Symbol /\ H[i] = Times(c, F[i])
  BY <1>4
<1>6. XorSum(m + 1, G) = XorSum(m, H)
  BY <1>1, <1>3, <1>4, SumShifted
<1>7. XorSum(m, H) = Times(c, XorSum(m, F))
  BY <1>1, <1>2, <1>9, SumTimes
<1>8. XorSum(nroots, F) = XorSum(m, F)
  <2>1. \A i \in (m + 1)..nroots : F[i] = {}
    BY <1>1, <1>5
  <2>2. m <= nroots
    BY <1>1
  <2> QED
    BY <1>1, <2>1, <2>2, SumTail
<1> QED
  BY <1>1, <1>6, <1>7, <1>8 DEF Value, F, G, c

\* the sum of a polynomial and a multiple of another.
LEMMA ValueSum ==
  ASSUME NEW f \in Polynomial, NEW g \in Polynomial, NEW c \in Symbol, NEW h,
         \A i \in 0..nroots : h[i] = Xor(f[i], Times(c, g[i])),
         NEW k \in Nat
  PROVE  Value(h, k) = Xor(Value(f, k), Times(c, Value(g, k)))
<1> DEFINE F == [i \in 0..nroots |-> Times(f[i], power[i * k])]
           G == [i \in 0..nroots |-> Times(g[i], power[i * k])]
           X == [i \in 0..nroots |-> Times(c, G[i])]
           H == [i \in 0..nroots |-> Times(h[i], power[i * k])]
<1>1. nroots \in Nat
  BY Sizes
<1>2. ASSUME NEW i \in 0..nroots
      PROVE  /\ F[i] \in Symbol /\ G[i] \in Symbol /\ X[i] = Times(c, G[i]) /\ X[i] \in Symbol
             /\ H[i] = Xor(F[i], X[i])
  <2> DEFINE s == power[i * k]   x == f[i]   y == g[i]
  <2>1. s \in Symbol /\ x \in Symbol /\ y \in Symbol
    BY ValueTerm
  <2>2. F[i] = Times(x, s) /\ X[i] = Times(c, Times(y, s)) /\ H[i] = Times(Xor(x, Times(c, y)), s)
        /\ G[i] = Times(y, s)
    OBVIOUS
  <2> HIDE DEF s, x, y, F, G, X, H
  <2>3. Times(Xor(x, Times(c, y)), s) = Xor(Times(x, s), Times(c, Times(y, s)))
    <3>1. Times(c, y) \in Symbol
      BY <2>1, TimesType
    <3> QED
      BY <2>1, <3>1, TimesDistributive, TimesAssociative
  <2>4. Times(x, s) \in Symbol /\ Times(y, s) \in Symbol /\ Times(c, Times(y, s)) \in Symbol
    BY <2>1, TimesType
  <2> QED
    BY <2>2, <2>3, <2>4
<1> HIDE DEF F, G, X, H
<1>3. XorSum(nroots, H) = Xor(XorSum(nroots, F), XorSum(nroots, X))
  BY <1>1, <1>2, SumOfSums
<1>4. XorSum(nroots, X) = Times(c, XorSum(nroots, G))
  BY <1>1, <1>2, SumTimes
<1> QED
  BY <1>3, <1>4 DEF Value, F, G, H

\* A value is a symbol.
LEMMA ValueType == \A f, k : Value(f, k) \in Symbol
BY SumType DEF Value

\* The product of the first i factors has the degree i,
LEMMA PartialDegree ==
  \A i \in Nat : i <= nroots =>
    /\ partial[i] \in Polynomial /\ partial[i][i] = {0}
    /\ \A j \in 0..nroots : j > i => partial[i][j] = {}
<1> DEFINE Good(i) == partial[i][i] = {0} /\ \A j \in 0..nroots : j > i => partial[i][j] = {}
           T == {i \in Nat : i <= nroots => Good(i)}
<1>1. nroots \in Nat /\ nroots < nn /\ nn \in Nat
  BY Sizes
<1>2. 0 \in T
  BY <1>1, PartialType
<1>3. ASSUME NEW i \in T PROVE i + 1 \in T
  <2> SUFFICES ASSUME i + 1 <= nroots PROVE Good(i + 1)
    OBVIOUS
  <2>1. i \in Nat /\ i \in 0..nroots-1 /\ i \in 0..nroots /\ i + 1 \in 0..nroots /\ Good(i) /\ i \in Indices
    BY <1>1 DEF Indices
  <2>2. \A j \in 0..nroots : partial[i][j] \in Symbol
    <3>1. partial[i] \in [0..nroots -> Symbol]
      BY <2>1, PartialType
    <3> QED
      BY <3>1
  <2>3. Product(index_of[{}], i) = {}
    BY <2>1, Zero, IndexFacts, ProductFacts
  <2>4. ASSUME NEW j \in 0..nroots, j > i
        PROVE  partial[i + 1][j] = partial[i][j - 1] /\ j - 1 \in 0..nroots
    <3>1. partial[i][j] = {} /\ j # 0 /\ j - 1 \in 0..nroots
      BY <1>1, <2>1, <2>4
    <3>2. partial[i + 1][j] = Xor(IF j = 0 THEN {} ELSE partial[i][j - 1],
                                  Product(index_of[partial[i][j]], i))
      BY <2>1, PartialType
    <3> QED
      BY <2>3, <3>1, <3>2, XorLaws
  <2>5. partial[i + 1][i + 1] = {0}
    <3>1. i + 1 > i /\ (i + 1) - 1 = i
      BY <2>1
    <3> QED
      BY <2>1, <2>4, <3>1
  <2>6. ASSUME NEW j \in 0..nroots, j > i + 1 PROVE partial[i + 1][j] = {}
    <3>1. j > i /\ j - 1 > i
      BY <2>1, <2>6
    <3> QED
      BY <2>1, <2>4, <3>1
  <2> QED
    BY <2>5, <2>6
<1>4. T = Nat
  <2>1. T \in SUBSET Nat
    OBVIOUS
  <2> HIDE DEF T
  <2> QED
    BY <1>2, <1>3, <2>1, Everything
<1> QED
  <2> SUFFICES ASSUME NEW i \in Nat, i <= nroots
               PROVE  /\ partial[i] \in Polynomial /\ partial[i][i] = {0}
                      /\ \A j \in 0..nroots : j > i => partial[i][j] = {}
    OBVIOUS
  <2>1. i \in T
    BY <1>4
  <2>2. partial[i] \in Polynomial
    BY <1>1, PartialType DEF Polynomial
  <2> QED
    BY <2>1, <2>2

\* and the first i powers of alpha for roots.
LEMMA PartialRoots ==
  \A i, k \in Nat : i <= nroots /\ k < i => Value(partial[i], k) = {}
<1> TAKE i \in Nat, k \in Nat
<1> DEFINE T == {n \in Nat : n <= nroots /\ k < n => Value(partial[n], k) = {}}
<1>1. nroots \in Nat /\ nroots < nn /\ nn \in Nat
  BY Sizes
<1>2. 0 \in T
  OBVIOUS
<1>3. ASSUME NEW n \in T PROVE n + 1 \in T
  <2> SUFFICES ASSUME n + 1 <= nroots, k < n + 1 PROVE Value(partial[n + 1], k) = {}
    OBVIOUS
  <2> DEFINE f == partial[n]
             g == [j \in 0..nroots |-> IF j = 0 THEN {} ELSE f[j - 1]]
             h == partial[n + 1]
             c == power[n]
  <2>1. n \in Nat /\ n \in 0..nroots-1 /\ n <= nroots /\ n < nroots /\ n \in 0..nn-1
    BY <1>1
  <2>2. f \in Polynomial /\ f[nroots] = {}
    BY <1>1, <2>1, PartialDegree
  <2>3. g \in Polynomial /\ g[0] = {} /\ \A j \in 0..nroots-1 : g[j + 1] = f[j]
    <3>1. \A j \in 0..nroots : j # 0 => j - 1 \in 0..nroots
      BY <1>1
    <3>2. g \in Polynomial
      BY <2>2, <3>1, Zero DEF Polynomial
    <3>3. \A j \in 0..nroots-1 : j + 1 \in 0..nroots /\ j + 1 # 0 /\ (j + 1) - 1 = j
      BY <1>1
    <3> HIDE DEF f
    <3> QED
      BY <1>1, <3>2, <3>3
  <2>4. c \in Symbol /\ index_of[c] = n
    BY <2>1, IndexOfPower
  <2>5. ASSUME NEW j \in 0..nroots PROVE h[j] = Xor(g[j], Times(c, f[j]))
    <3>1. f[j] \in Symbol /\ index_of[f[j]] \in Indices /\ n \in Indices
      BY <1>1, <2>1, <2>2, IndexFacts DEF Polynomial, Indices
    <3>2. Product(index_of[f[j]], n) = Times(c, f[j])
      BY <2>4, <3>1, ProductFacts DEF Times
    <3>3. h[j] = Xor(IF j = 0 THEN {} ELSE f[j - 1], Product(index_of[f[j]], n))
      BY <2>1, PartialType
    <3> QED
      BY <3>2, <3>3
  <2>6. n < n + 1 /\ (k = n \/ Value(f, k) = {})
    BY <2>1
  <2> HIDE DEF f, g, h, c
  <2>7. Value(g, k) = Times(power[k], Value(f, k))
    BY <2>2, <2>3, ValueShifted
  <2>8. Value(h, k) = Xor(Value(g, k), Times(c, Value(f, k)))
    BY <2>2, <2>3, <2>4, <2>5, ValueSum
  <2>9. Value(f, k) \in Symbol /\ power[k] \in Symbol
    BY ValueType, PowerFacts
  <2>10. ASSUME k = n PROVE Value(h, k) = {}
    <3>1. power[k] = c
      BY <2>10 DEF c
    <3> QED
      BY <2>7, <2>8, <3>1, XorLaws
  <2>11. ASSUME Value(f, k) = {} PROVE Value(h, k) = {}
    <3>1. Times(c, Value(f, k)) = {} /\ Value(g, k) = {}
      BY <2>4, <2>7, <2>9, <2>11, TimesLaws
    <3> QED
      BY <2>8, <3>1, XorLaws
  <2> QED
    BY <2>6, <2>10, <2>11 DEF h
<1>4. T = Nat
  <2>1. T \in SUBSET Nat
    OBVIOUS
  <2> HIDE DEF T
  <2> QED
    BY <1>2, <1>3, <2>1, Everything
<1>5. i \in T
  BY <1>4
<1> QED
  BY <1>5

\* No coefficient of the generator polynomial is zero, which encode_rs8() relies on when it
\* adds indices.
LEMMA GeneratorFull ==
  /\ partial[nroots] \in Polynomial /\ partial[nroots][nroots] = {0}
  /\ \A j \in 0..nroots : partial[nroots][j] # {}
<1> DEFINE f == partial[nroots]
           e == [a \in 0..nn-1 |-> IF a <= nroots THEN f[a] ELSE {}]
<1>1. nroots \in Nat /\ nroots >= 1 /\ nroots < nn /\ nn \in Nat /\ nn - 1 \in Nat /\ nroots <= nn - 1
      /\ nroots \in 0..nroots /\ nroots \in 0..nn-1
  BY Sizes
<1>2. f \in Polynomial /\ f[nroots] = {0}
  BY <1>1, PartialDegree
<1>3. ASSUME NEW k \in Nat, k < nroots PROVE Value(f, k) = {}
  BY <1>1, <1>3, PartialRoots
<1> HIDE DEF f
<1>4. SUFFICES ASSUME NEW p \in 0..nroots, f[p] = {} PROVE FALSE
  BY <1>2 DEF f
<1>5. \A a \in 0..nn-1 : a \in Nat /\ (a <= nroots => a \in 0..nroots)
  BY <1>1
<1>6. e \in Vector
  BY <1>2, <1>5, Zero DEF Vector, Polynomial
<1>7. Cardinality(Support(e)) <= nroots
  <2> DEFINE I == 0..nroots
  <2>1. IsFiniteSet(I) /\ Cardinality(I) = nroots + 1
    <3>1. 0 \in Int /\ nroots \in Int /\ 0 <= nroots
      BY <1>1
    <3>2. Cardinality(I) = nroots - 0 + 1
      BY <3>1, FS_Interval
    <3> QED
      BY <1>1, <3>1, <3>2, FS_Interval
  <2>2. Support(e) \subseteq I \ {p}
    BY <1>4, <1>5 DEF Support
  <2> HIDE DEF I
  <2>3. p \in I
    BY DEF I
  <2>4. IsFiniteSet(I \ {p}) /\ Cardinality(I \ {p}) = nroots
    BY <1>1, <2>1, <2>3, FS_RemoveElement
  <2> HIDE DEF e
  <2> QED
    BY <1>1, <2>2, <2>4, FS_Subset
<1>8. ASSUME NEW k \in Nat, k < nroots PROVE At(e, k) = {}
  <2> DEFINE F == [i \in 0..nroots |-> Times(f[i], power[i * k])]
             E == [a \in 0..nn-1 |-> Times(e[a], power[a * k])]
  <2>1. \A i \in 0..nroots : E[i] = F[i]
    BY <1>1
  <2>2. ASSUME NEW a \in (nroots + 1)..(nn - 1) PROVE E[a] = {}
    <3>1. a \in 0..nn-1 /\ ~(a <= nroots)
      BY <1>1
    <3>2. power[a * k] \in Symbol
      BY <1>6, <3>1, AtTerm
    <3> QED
      BY <3>1, <3>2, TimesLaws
  <2>3. XorSum(nroots, F) = {}
    BY <1>3, <1>8 DEF Value
  <2> HIDE DEF E, F
  <2>4. XorSum(nn - 1, E) = XorSum(nroots, E)
    BY <1>1, <2>2, SumTail
  <2>5. XorSum(nroots, E) = XorSum(nroots, F)
    BY <2>1, SumSame
  <2> QED
    BY <2>3, <2>4, <2>5 DEF At, E
<1>9. Support(e) = {}
  <2>1. Traced(nroots)
    BY <1>1, Trace
  <2>2. \A k \in Nat : 0 <= k /\ k < 0 + nroots => At(e, k) = {}
    BY <1>1, <1>8
  <2> HIDE DEF e
  <2> QED
    BY <1>6, <1>7, <2>1, <2>2 DEF Traced
<1>10. e[nroots] = {0} /\ {0} # {}
  BY <1>1, <1>2, One
<1> HIDE DEF e
<1> QED
  BY <1>1, <1>9, <1>10 DEF Support

\* The value of the first symbols of a word, the last of them the constant coefficient.
Leading(w, t, k) == XorSum(t, [i \in 0..t |-> Times(w[t - i], power[i * k])])
Symbols(w, n) == \A i \in 0..n : w[i] \in Symbol

\* Its terms are symbols.
LEMMA LeadingTerm ==
  ASSUME NEW n \in Nat, NEW w, Symbols(w, n), NEW i \in 0..n, NEW k \in Nat
  PROVE  /\ i \in Nat /\ i * k \in Nat /\ n - i \in 0..n /\ w[n - i] \in Symbol
         /\ power[i * k] \in Symbol /\ Times(w[n - i], power[i * k]) \in Symbol
<1>1. i \in Nat /\ n - i \in 0..n
  OBVIOUS
<1>2. w[n - i] \in Symbol
  BY <1>1 DEF Symbols
<1>3. i * k \in Nat
  BY <1>1, Exponents
<1>4. power[i * k] \in Symbol
  BY <1>3, PowerFacts
<1> QED
  BY <1>1, <1>2, <1>3, <1>4, TimesType

\* It begins with the first symbol,
LEMMA LeadingFirst ==
  ASSUME NEW w, Symbols(w, 0), NEW k \in Nat
  PROVE  Leading(w, 0, k) = w[0]
<1> DEFINE f == [i \in 0..0 |-> Times(w[0 - i], power[i * k])]
<1>1. f[0] = w[0] /\ f[0] \in Symbol
  <2>1. w[0] \in Symbol /\ 0 - 0 = 0 /\ 0 * k = 0 /\ 0 \in 0..0
    BY DEF Symbols
  <2> QED
    BY <2>1, PowerFacts, TimesLaws
<1>2. XorSum(0, f) = f[0]
  <2> HIDE DEF f
  <2> QED
    BY <1>1, SumFirst
<1> QED
  BY <1>1, <1>2 DEF Leading

\* and goes on as in Horner's rule.
LEMMA LeadingNext ==
  ASSUME NEW t \in Nat, NEW w, Symbols(w, t + 1), NEW k \in Nat
  PROVE  Leading(w, t + 1, k) = Xor(w[t + 1], Times(power[k], Leading(w, t, k)))
<1> DEFINE f == [i \in 0..(t + 1) |-> Times(w[(t + 1) - i], power[i * k])]
           h == [i \in 0..t |-> Times(w[t - i], power[i * k])]
           c == power[k]
           g == [i \in 0..t |-> Times(c, h[i])]
<1>1. t + 1 \in Nat /\ Symbols(w, t) /\ c \in Symbol
  BY PowerFacts DEF Symbols
<1>2. \A i \in 0..(t + 1) : f[i] \in Symbol
  BY <1>1, LeadingTerm
<1>3. f[0] = w[t + 1]
  <2>1. 0 \in 0..(t + 1) /\ (t + 1) - 0 = t + 1 /\ 0 * k = 0 /\ t + 1 \in 0..(t + 1)
    OBVIOUS
  <2> QED
    BY <2>1, PowerFacts, TimesLaws DEF Symbols
<1>4. ASSUME NEW i \in 0..t
      PROVE  h[i] \in Symbol /\ g[i] = Times(c, h[i]) /\ g[i] = f[i + 1]
  <2> DEFINE x == w[t - i]   s == power[i * k]
  <2>1. i \in Nat /\ i * k \in Nat /\ x \in Symbol /\ s \in Symbol
    BY <1>1, LeadingTerm
  <2>2. h[i] \in Symbol /\ h[i] = Times(x, s)
    BY <2>1, TimesType
  <2>3. power[(i + 1) * k] = Times(s, c)
    <3>1. (i + 1) * k = i * k + k
      BY <2>1
    <3> QED
      BY <2>1, <3>1, PowerFacts
  <2>4. f[i + 1] = Times(x, Times(s, c))
    <3>1. i + 1 \in 0..(t + 1) /\ (t + 1) - (i + 1) = t - i
      BY <2>1
    <3> QED
      BY <2>3, <3>1
  <2>5. g[i] = Times(c, Times(x, s))
    OBVIOUS
  <2> HIDE DEF x, s, c, f, g, h
  <2>6. Times(x, Times(s, c)) = Times(c, Times(x, s))
    BY <1>1, <2>1, TimesTurned
  <2> QED
    BY <2>2, <2>4, <2>5, <2>6
<1> HIDE DEF f, g, h, c
<1>5. XorSum(0 + 1 + t, f) = Xor(XorSum(0, f), XorSum(t, g))
  <2>1. \A i \in 0..(0 + 1 + t) : f[i] \in Symbol
    BY <1>2
  <2>2. \A i \in 0..t : g[i] = f[0 + 1 + i]
    BY <1>4
  <2> QED
    BY <2>1, <2>2, SumSplit
<1>6. XorSum(0, f) = f[0]
  <2>1. f[0] \in Symbol
    BY <1>2
  <2> QED
    BY <2>1, SumFirst
<1>7. XorSum(t, g) = Times(c, XorSum(t, h))
  <2>1. \A i \in 0..t : h[i] \in Symbol /\ g[i] = Times(c, h[i])
    BY <1>4
  <2> QED
    BY <1>1, <2>1, SumTimes
<1>8. 0 + 1 + t = t + 1
  OBVIOUS
<1> QED
  BY <1>3, <1>5, <1>6, <1>7, <1>8 DEF Leading, f, h, c

\* The coefficients of a word, by their exponents: decode_rs8() has the highest first.
Reversed(w) == [a \in 0..nn-1 |-> w[nn - 1 - a]]

\* Horner's rule gives the value of the word.
LEMMA SyndromeIsValue ==
  ASSUME NEW w \in [0..nn-1 -> Symbol], NEW i \in 0..nroots-1
  PROVE  /\ Syndromes(w)[i] = index_of[At(Reversed(w), i)]
         /\ Leading(w, nn - 1, i) = At(Reversed(w), i)
<1>1. /\ nn \in Nat /\ nn - 1 \in Nat /\ nn - 1 \in 0..nn-1 /\ i \in Nat /\ i \in 0..nn-1
      /\ 0 \in 0..nn-1
  BY Sizes
<1>2. PICK g : HornerRuns(g, w, i) /\ Syndromes(w)[i] = index_of[g[nn - 1]]
  BY HornerRun
<1>3. \A n \in Nat : n < nn => Symbols(w, n)
  BY <1>1 DEF Symbols
<1> DEFINE T == {n \in Nat : n < nn => g[n] = Leading(w, n, i)}
<1>4. 0 \in T
  BY <1>1, <1>2, <1>3, LeadingFirst DEF HornerRuns
<1>5. ASSUME NEW n \in T PROVE n + 1 \in T
  <2> SUFFICES ASSUME n + 1 < nn PROVE g[n + 1] = Leading(w, n + 1, i)
    OBVIOUS
  <2>1. n \in Nat /\ n \in 0..nn-1 /\ g[n] = Leading(w, n, i) /\ Symbols(w, n + 1)
    BY <1>1, <1>3
  <2>2. g[n + 1] = Xor(w[n + 1], Product(index_of[g[n]], i))
    BY <1>2, <2>1 DEF HornerRuns
  <2>3. g[n] \in Symbol /\ power[i] \in Symbol /\ i \in Indices /\ index_of[power[i]] = i
    BY <1>1, <1>2, <2>1, IndexOfPower DEF HornerRuns
  <2>4. Product(index_of[g[n]], i) = Times(power[i], g[n])
    BY <2>3, TimesLaws DEF Times
  <2>5. Leading(w, n + 1, i) = Xor(w[n + 1], Times(power[i], Leading(w, n, i)))
    BY <1>1, <2>1, LeadingNext
  <2> QED
    BY <2>1, <2>2, <2>4, <2>5
<1>6. T = Nat
  <2>1. T \in SUBSET Nat
    OBVIOUS
  <2> HIDE DEF T
  <2> QED
    BY <1>4, <1>5, <2>1, Everything
<1>7. g[nn - 1] = Leading(w, nn - 1, i)
  <2>1. nn - 1 \in T /\ nn - 1 < nn
    BY <1>1, <1>6
  <2> QED
    BY <2>1
<1>8. Leading(w, nn - 1, i) = At(Reversed(w), i)
  BY DEF Leading, At, Reversed
<1> QED
  BY <1>2, <1>7, <1>8

\* Exclusive or undoes itself.
LEMMA XorBack == \A s, t : Xor(t, Xor(s, t)) = s /\ Xor(Xor(s, t), t) = s
BY DEF Xor

\* One step of the encoder, with symbols.
LEMMA EncodeStepIs ==
  ASSUME NEW par \in Parity, NEW s \in Symbol, NEW j \in 0..nroots-1
  PROVE  EncodeStep(par, s)[j]
           = Xor(IF j = nroots - 1 THEN {} ELSE par[j + 1],
                 Times(Xor(s, par[0]), partial[nroots][nroots - 1 - j]))
<1> DEFINE x == Xor(s, par[0])
           q == nroots - 1 - j
           u == partial[nroots][q]
<1>1. nroots \in Nat /\ nroots >= 1 /\ q \in 0..nroots /\ 0 \in 0..nroots-1 /\ nn \in Nat
  BY Sizes
<1>2. x \in Symbol /\ u \in Symbol /\ u # {}
  BY <1>1, XorType, GeneratorFull DEF Parity, Polynomial
<1>3. genpoly[q] = index_of[u]
  BY <1>1 DEF genpoly
<1> HIDE DEF u
<1>4. index_of[x] \in Indices /\ index_of[u] \in Indices /\ index_of[u] # nn
  BY <1>2, IndexFacts
<1>5. (IF index_of[x] = nn THEN {} ELSE Power(index_of[x] + genpoly[q])) = Times(x, u)
  BY <1>3, <1>4 DEF Times, Product
<1> QED
  BY <1>5 DEF EncodeStep, u

\* The register as a polynomial: its first symbol has the highest exponent.
Remainder(par) == [a \in 0..nroots |-> IF a = nroots THEN {} ELSE par[nroots - 1 - a]]

\* It is a polynomial with as many symbols as the register.
LEMMA RemainderType ==
  \A par \in Parity : Remainder(par) \in Polynomial /\ Remainder(par)[nroots] = {}
<1> TAKE par \in Parity
<1>1. nroots \in Nat /\ nroots >= 1
  BY Sizes
<1>2. ASSUME NEW a \in 0..nroots PROVE (IF a = nroots THEN {} ELSE par[nroots - 1 - a]) \in Symbol
  BY <1>1, Zero DEF Parity
<1> QED
  BY <1>1, <1>2 DEF Remainder, Polynomial

\* At a root of the generator polynomial, a step multiplies the remainder by x and adds the
\* symbol times the highest power.
LEMMA RemainderStep ==
  ASSUME NEW par \in Parity, NEW s \in Symbol, NEW k \in Nat, k < nroots
  PROVE  Value(Remainder(EncodeStep(par, s)), k)
           = Xor(Times(power[k], Value(Remainder(par), k)), Times(s, power[nroots * k]))
<1> DEFINE P == Remainder(par)
           R == Remainder(EncodeStep(par, s))
           G == partial[nroots]
           x == Xor(s, par[0])
           Q == [a \in 0..nroots |-> IF a = 0 THEN {} ELSE P[a - 1]]
           M == [a \in 0..nroots |-> IF a = nroots THEN {0} ELSE {}]
           h == [a \in 0..nroots |-> Xor(Q[a], Times(x, G[a]))]
<1>1. nroots \in Nat /\ nroots >= 1 /\ 0 \in 0..nroots-1 /\ nroots \in 0..nroots
  BY Sizes
<1>2. P \in Polynomial /\ P[nroots] = {} /\ R \in Polynomial /\ R[nroots] = {}
  BY EncodeStepType, RemainderType
<1>3. G \in Polynomial /\ G[nroots] = {0} /\ Value(G, k) = {}
  BY <1>1, GeneratorFull, PartialRoots
<1>4. x \in Symbol /\ par[0] \in Symbol
  BY <1>1, XorType DEF Parity
<1>5. Q \in Polynomial /\ Q[0] = {} /\ \A a \in 0..nroots-1 : Q[a + 1] = P[a]
  <2>1. \A a \in 0..nroots : a # 0 => a - 1 \in 0..nroots
    BY <1>1
  <2>2. Q \in Polynomial
    BY <1>2, <2>1, Zero DEF Polynomial
  <2>3. \A a \in 0..nroots-1 : a + 1 \in 0..nroots /\ a + 1 # 0 /\ (a + 1) - 1 = a
    BY <1>1
  <2> HIDE DEF P
  <2> QED
    BY <1>1, <2>2, <2>3
<1>6. M \in Polynomial
  BY Zero, One DEF Polynomial
<1>7. ASSUME NEW a \in 0..nroots PROVE h[a] = Xor(R[a], Times(s, M[a]))
  <2>1. CASE a = nroots
    <3>1. Q[a] = par[0]
      <4>1. a # 0 /\ a - 1 \in 0..nroots /\ a - 1 # nroots /\ nroots - 1 - (a - 1) = 0
        BY <1>1, <2>1
      <4> QED
        BY <4>1 DEF Remainder
    <3>2. h[a] = Xor(par[0], x)
      <4> HIDE DEF Q, x, G
      <4> QED
        BY <1>3, <1>4, <2>1, <3>1, TimesLaws
    <3>3. Xor(par[0], x) = s
      BY XorBack
    <3>4. Xor(R[a], Times(s, M[a])) = s
      <4>1. R[a] = {} /\ Times(s, M[a]) = s
        BY <1>2, <2>1, TimesLaws
      <4> QED
        BY <4>1, XorLaws
    <3> QED
      BY <3>2, <3>3, <3>4
  <2>2. CASE a # nroots
    <3> DEFINE j == nroots - 1 - a
    <3>1. j \in 0..nroots-1 /\ nroots - 1 - j = a /\ (j = nroots - 1 <=> a = 0)
      BY <1>1, <2>2
    <3>2. R[a] = EncodeStep(par, s)[j]
      BY <2>2 DEF Remainder
    <3>3. EncodeStep(par, s)[j] = Xor(IF j = nroots - 1 THEN {} ELSE par[j + 1], Times(x, G[a]))
      <4> HIDE DEF j
      <4> QED
        BY <3>1, EncodeStepIs
    <3>4. Q[a] = IF j = nroots - 1 THEN {} ELSE par[j + 1]
      <4>1. ASSUME a # 0 PROVE P[a - 1] = par[j + 1]
        <5>1. a - 1 \in 0..nroots /\ a - 1 # nroots /\ nroots - 1 - (a - 1) = j + 1
          BY <1>1, <2>2, <4>1
        <5> QED
          BY <5>1 DEF Remainder
      <4> HIDE DEF P, j
      <4> QED
        BY <3>1, <4>1
    <3>5. Xor(R[a], Times(s, M[a])) = R[a]
      <4>1. Times(s, M[a]) = {}
        BY <2>2, TimesLaws
      <4> QED
        BY <4>1, XorLaws
    <3>6. h[a] = Xor(Q[a], Times(x, G[a]))
      OBVIOUS
    <3> HIDE DEF h, Q, x, G, R, M, j
    <3> QED
      BY <3>2, <3>3, <3>4, <3>5, <3>6
  <2> QED
    BY <2>1, <2>2
<1>8. Value(M, k) = power[nroots * k]
  <2> DEFINE F == [i \in 0..nroots |-> Times(M[i], power[i * k])]
  <2>1. ASSUME NEW i \in 0..nroots PROVE power[i * k] \in Symbol
    BY <1>6, ValueTerm
  <2>2. ASSUME NEW i \in 0..nroots, i # nroots PROVE F[i] = {}
    BY <2>1, <2>2, TimesLaws
  <2>3. F[nroots] = power[nroots * k] /\ F[nroots] \in Symbol
    BY <1>1, <2>1, TimesLaws
  <2>4. XorSum(nroots, F) = F[nroots]
    <3> HIDE DEF F
    <3> QED
      BY <1>1, <2>2, <2>3, SumAlone
  <2> QED
    BY <2>3, <2>4 DEF Value
<1>9. \A a \in 0..nroots : h[a] = Xor(Q[a], Times(x, G[a]))
  OBVIOUS
<1> HIDE DEF P, R, G, x, Q, M, h
<1>10. Value(Q, k) = Times(power[k], Value(P, k))
  BY <1>2, <1>5, ValueShifted
<1>11. Value(h, k) = Xor(Value(Q, k), Times(x, Value(G, k)))
  <2>1. Q \in Polynomial /\ G \in Polynomial /\ x \in Symbol
    BY <1>3, <1>4, <1>5
  <2> QED
    BY <1>9, <2>1, ValueSum
<1>12. Value(h, k) = Xor(Value(R, k), Times(s, Value(M, k)))
  BY <1>2, <1>6, <1>7, ValueSum
<1>13. Times(x, Value(G, k)) = {}
  BY <1>3, <1>4, TimesLaws
<1> DEFINE y == Times(s, Value(M, k))
<1>14. Xor(Xor(Value(R, k), y), y) = Value(R, k)
  BY XorBack
<1> QED
  BY <1>8, <1>10, <1>11, <1>12, <1>13, <1>14, XorLaws DEF P, R

\* What encode_rs8() leaves is the remainder of the data, at every root of the generator.
LEMMA RemainderIs ==
  ASSUME NEW data \in Message, NEW k \in Nat, k < nroots
  PROVE  Value(Remainder(encode_rs8(data, ZeroParity)), k)
           = Times(power[nroots * k], Leading(data, nn - nroots - 1, k))
<1> DEFINE D == nn - nroots
           c == power[nroots * k]
<1>1. D \in Nat /\ D >= 1 /\ nroots \in Nat /\ ZeroParity \in Parity
  BY Sizes, Zero DEF ZeroParity, Parity
<1>2. PICK g : EncodeRuns(g, data, ZeroParity) /\ encode_rs8(data, ZeroParity) = g[D]
  BY <1>1, EncodeRun
<1>3. c \in Symbol /\ power[k] \in Symbol
  <2>1. nroots * k \in Nat
    BY <1>1, Exponents
  <2> QED
    BY <2>1, PowerFacts
<1>4. \A n \in Nat : n < D => data[n] \in Symbol /\ Symbols(data, n)
  BY <1>1 DEF Message, DataSymbol, Symbols
<1>5. ASSUME NEW n \in Nat, n < D
      PROVE  Value(Remainder(g[n + 1]), k)
               = Xor(Times(power[k], Value(Remainder(g[n]), k)), Times(data[n], c))
  <2>1. n \in 0..D /\ n \in 0..D-1
    BY <1>1, <1>5
  <2>2. g[n] \in Parity /\ g[n + 1] = EncodeStep(g[n], data[n])
    BY <1>2, <2>1 DEF EncodeRuns
  <2> QED
    BY <1>4, <1>5, <2>2, RemainderStep
<1> HIDE DEF c
<1> DEFINE T == {n \in Nat : n < D => Value(Remainder(g[n + 1]), k) = Times(c, Leading(data, n, k))}
<1>6. 0 \in T
  <2>1. Value(Remainder(g[0]), k) = {}
    <3> DEFINE F == [i \in 0..nroots |-> Times(Remainder(g[0])[i], power[i * k])]
    <3>1. ASSUME NEW i \in 0..nroots PROVE F[i] = {}
      <4>1. g[0] = ZeroParity
        BY <1>2 DEF EncodeRuns
      <4>2. Remainder(g[0])[i] = {}
        BY <1>1, <4>1 DEF Remainder, ZeroParity
      <4>3. power[i * k] \in Symbol
        BY <1>1, RemainderType, ValueTerm
      <4> QED
        BY <4>2, <4>3, TimesLaws
    <3> HIDE DEF F
    <3>2. XorSum(nroots, F) = {}
      BY <1>1, <3>1, SumOfZeros
    <3> QED
      BY <3>2 DEF Value, F
  <2>2. 0 < D /\ data[0] \in Symbol /\ Leading(data, 0, k) = data[0]
    BY <1>1, <1>4, LeadingFirst
  <2>3. Value(Remainder(g[0 + 1]), k) = Xor(Times(power[k], {}), Times(data[0], c))
    BY <1>5, <2>1, <2>2
  <2>4. Xor(Times(power[k], {}), Times(data[0], c)) = Times(c, data[0])
    BY <1>3, <2>2, TimesLaws, XorLaws
  <2> QED
    BY <2>2, <2>3, <2>4
<1>7. ASSUME NEW n \in T PROVE n + 1 \in T
  <2> SUFFICES ASSUME n + 1 < D
               PROVE  Value(Remainder(g[(n + 1) + 1]), k) = Times(c, Leading(data, n + 1, k))
    OBVIOUS
  <2> DEFINE u == Leading(data, n, k)   s == data[n + 1]   x == power[k]
  <2>1. n \in Nat /\ n < D /\ Symbols(data, n + 1) /\ s \in Symbol
    BY <1>1, <1>4
  <2>2. Value(Remainder(g[n + 1]), k) = Times(c, u)
    BY <2>1
  <2>3. Value(Remainder(g[(n + 1) + 1]), k) = Xor(Times(x, Times(c, u)), Times(s, c))
    BY <1>5, <2>1, <2>2
  <2>4. Leading(data, n + 1, k) = Xor(s, Times(x, u))
    BY <2>1, LeadingNext
  <2>5. u \in Symbol /\ x \in Symbol
    BY <1>3, SumType DEF Leading
  <2> HIDE DEF u, s, x
  <2>6. Xor(Times(x, Times(c, u)), Times(s, c)) = Times(c, Xor(s, Times(x, u)))
    <3>1. Times(x, Times(c, u)) = Times(c, Times(x, u))
      <4>1. Times(x, Times(c, u)) = Times(u, Times(x, c)) /\ Times(c, Times(x, u)) = Times(u, Times(c, x))
        BY <1>3, <2>5, TimesTurned
      <4>2. Times(x, c) = Times(c, x)
        BY <1>3, <2>5, TimesLaws
      <4> QED
        BY <4>1, <4>2
    <3>2. Times(x, u) \in Symbol
      BY <2>5, TimesType
    <3>3. Times(c, Xor(s, Times(x, u))) = Xor(Times(c, s), Times(c, Times(x, u)))
      BY <1>3, <2>1, <3>2, TimesDistributive
    <3>4. Times(s, c) = Times(c, s)
      BY <1>3, <2>1, TimesLaws
    <3> QED
      BY <3>1, <3>3, <3>4, XorLaws
  <2> QED
    BY <2>3, <2>4, <2>6
<1>8. T = Nat
  <2>1. T \in SUBSET Nat
    OBVIOUS
  <2> HIDE DEF T
  <2> QED
    BY <1>6, <1>7, <2>1, Everything
<1>9. Value(Remainder(g[D]), k) = Times(c, Leading(data, D - 1, k))
  <2>1. D - 1 \in T /\ D - 1 < D /\ (D - 1) + 1 = D
    BY <1>1, <1>8
  <2> HIDE DEF D
  <2> QED
    BY <2>1
<1> QED
  BY <1>2, <1>9 DEF c

\* A codeword: data with the parity that encode_rs8() adds to them.
Codeword(w, data) ==
  /\ w \in [0..nn-1 -> Symbol]
  /\ \A i \in DataSymbol : w[i] = data[i]
  /\ \A j \in 0..nroots-1 : w[nn - nroots + j] = encode_rs8(data, ZeroParity)[j]

\* It has the roots of the generator polynomial.
LEMMA CodewordRoots ==
  ASSUME NEW data \in Message, NEW w, Codeword(w, data), NEW k \in Nat, k < nroots
  PROVE  At(Reversed(w), k) = {}
<1> DEFINE D == nn - nroots
           c == power[nroots * k]
           par == encode_rs8(data, ZeroParity)
           P == Remainder(par)
           f == [a \in 0..nn-1 |-> Times(Reversed(w)[a], power[a * k])]
           F == [i \in 0..nroots |-> Times(P[i], power[i * k])]
           h == [i \in 0..(D - 1) |-> Times(data[(D - 1) - i], power[i * k])]
           g == [i \in 0..(D - 1) |-> Times(c, h[i])]
<1>1. /\ D \in Nat /\ D >= 1 /\ nroots \in Nat /\ nroots >= 1 /\ nn = D + nroots /\ nroots - 1 \in Nat
      /\ D - 1 \in Nat /\ nroots * k \in Nat
  BY Sizes, Exponents
<1>2. par \in Parity /\ c \in Symbol /\ P \in Polynomial /\ P[nroots] = {}
  <2>1. ZeroParity \in Parity
    BY Zero DEF ZeroParity, Parity
  <2>2. par \in Parity
    BY <2>1, EncodeType
  <2> QED
    BY <1>1, <2>2, PowerFacts, RemainderType
<1>3. Symbols(data, D - 1)
  BY <1>1 DEF Message, DataSymbol, Symbols
<1>4. ASSUME NEW a \in 0..nn-1 PROVE f[a] \in Symbol
  <2>1. Reversed(w) \in Vector
    <3>1. \A i \in 0..nn-1 : nn - 1 - i \in 0..nn-1
      BY <1>1
    <3> QED
      BY <3>1 DEF Reversed, Codeword, Vector
  <2> QED
    BY <2>1, AtTerm
<1>5. ASSUME NEW i \in 0..nroots-1 PROVE f[i] = F[i]
  <2>1. /\ i \in 0..nn-1 /\ i \in 0..nroots /\ i # nroots /\ nroots - 1 - i \in 0..nroots-1
        /\ nn - 1 - i = nn - nroots + (nroots - 1 - i)
    BY <1>1
  <2>2. w[nn - nroots + (nroots - 1 - i)] = par[nroots - 1 - i]
    BY <2>1 DEF Codeword
  <2>3. Reversed(w)[i] = par[nroots - 1 - i]
    BY <2>1, <2>2 DEF Reversed
  <2>4. P[i] = par[nroots - 1 - i]
    BY <2>1 DEF Remainder
  <2> HIDE DEF P, par
  <2> QED
    BY <2>1, <2>3, <2>4
<1>6. ASSUME NEW i \in 0..(D - 1)
      PROVE  h[i] \in Symbol /\ g[i] = Times(c, h[i]) /\ g[i] = f[(nroots - 1) + 1 + i]
  <2> DEFINE x == data[(D - 1) - i]   s == power[i * k]
  <2>1. i \in Nat /\ i * k \in Nat /\ x \in Symbol /\ s \in Symbol
    BY <1>1, <1>3, LeadingTerm
  <2>2. h[i] \in Symbol /\ h[i] = Times(x, s)
    BY <2>1, TimesType
  <2>3. power[((nroots - 1) + 1 + i) * k] = Times(c, s)
    <3>1. ((nroots - 1) + 1 + i) * k = nroots * k + i * k
      BY <1>1, <2>1
    <3> QED
      BY <1>1, <2>1, <3>1, PowerFacts
  <2>4. f[(nroots - 1) + 1 + i] = Times(x, Times(c, s))
    <3>1. /\ (nroots - 1) + 1 + i \in 0..nn-1 /\ nn - 1 - ((nroots - 1) + 1 + i) = (D - 1) - i
          /\ (D - 1) - i \in DataSymbol
      BY <1>1 DEF DataSymbol
    <3>2. Reversed(w)[(nroots - 1) + 1 + i] = x
      BY <3>1 DEF Reversed, Codeword
    <3> HIDE DEF x, s, c
    <3> QED
      BY <2>3, <3>1, <3>2
  <2>5. g[i] = Times(c, Times(x, s))
    OBVIOUS
  <2> HIDE DEF x, s, c, f, g, h, F, par, P
  <2>6. Times(x, Times(c, s)) = Times(c, Times(x, s))
    <3>1. Times(x, Times(c, s)) = Times(s, Times(x, c)) /\ Times(c, Times(x, s)) = Times(s, Times(c, x))
      BY <1>2, <2>1, TimesTurned
    <3>2. Times(x, c) = Times(c, x)
      BY <1>2, <2>1, TimesLaws
    <3> QED
      BY <3>1, <3>2
  <2> QED
    BY <2>2, <2>4, <2>5, <2>6
<1>7. F[nroots] = {}
  <2>1. ASSUME NEW i \in 0..nroots, P[i] = {} PROVE F[i] = {}
    BY <1>2, <2>1, ValueTerm, TimesLaws
  <2>2. nroots \in 0..nroots
    BY <1>1
  <2> HIDE DEF F, P
  <2> QED
    BY <1>2, <2>1, <2>2
<1>8. XorSum(nroots, F) = Times(c, XorSum(D - 1, h))
  BY RemainderIs DEF Value, Leading
<1> HIDE DEF D, c, par, P, f, F, h, g
<1>9. XorSum((nroots - 1) + 1 + (D - 1), f) = Xor(XorSum(nroots - 1, f), XorSum(D - 1, g))
  <2>1. (nroots - 1) + 1 + (D - 1) = nn - 1
    BY <1>1
  <2>2. \A i \in 0..((nroots - 1) + 1 + (D - 1)) : f[i] \in Symbol
    BY <1>4, <2>1
  <2>3. \A i \in 0..(D - 1) : g[i] = f[(nroots - 1) + 1 + i]
    BY <1>6
  <2> QED
    BY <1>1, <2>2, <2>3, SumSplit
<1>10. XorSum(nroots - 1, f) = XorSum(nroots - 1, F)
  BY <1>5, SumSame
<1>11. XorSum(nroots, F) = XorSum(nroots - 1, F)
  <2>1. \A i \in ((nroots - 1) + 1)..nroots : F[i] = {}
    BY <1>1, <1>7
  <2>2. nroots - 1 <= nroots
    BY <1>1
  <2> QED
    BY <1>1, <2>1, <2>2, SumTail
<1>12. XorSum(D - 1, g) = Times(c, XorSum(D - 1, h))
  <2>1. \A i \in 0..(D - 1) : h[i] \in Symbol /\ g[i] = Times(c, h[i])
    BY <1>6
  <2> QED
    BY <1>1, <1>2, <2>1, SumTimes
<1>13. (nroots - 1) + 1 + (D - 1) = nn - 1
  BY <1>1
<1>14. XorSum(nn - 1, f) = {}
  BY <1>8, <1>9, <1>10, <1>11, <1>12, <1>13, XorLaws
<1> QED
  BY <1>14 DEF At, f

-----------------------------------------------------------------------------
(* The errors of a word, and what they make of the syndromes.                *)

\* A set of numbers, counted backwards.
LEMMA Reflected ==
  ASSUME NEW n \in Int, NEW S \in SUBSET Int, IsFiniteSet(S), NEW T, T = {n - i : i \in S}
  PROVE  IsFiniteSet(T) /\ Cardinality(T) = Cardinality(S)
<1> DEFINE f == [i \in S |-> n - i]
<1>1. f \in [S -> T] /\ \A y \in T : \E i \in S : f[i] = y
  OBVIOUS
<1>2. \A i, j \in S : f[i] = f[j] => i = j
  OBVIOUS
<1> HIDE DEF f
<1>3. f \in Surjection(S, T)
  BY <1>1 DEF Surjection
<1>4. f \in Injection(S, T)
  BY <1>1, <1>2 DEF Injection, IsInjective
<1> QED
  BY <1>3, <1>4, FS_Surjection

\* A sum, counted backwards.
LEMMA SumReversed ==
  ASSUME NEW n \in Nat, NEW f, NEW g, \A i \in 0..n : g[i] = f[n - i]
  PROVE  XorSum(n, g) = XorSum(n, f)
<1>1. ASSUME NEW bit
      PROVE  Cardinality({i \in 0..n : bit \in f[i]}) = Cardinality({i \in 0..n : bit \in g[i]})
  <2> DEFINE S == {i \in 0..n : bit \in f[i]}
             T == {i \in 0..n : bit \in g[i]}
  <2>1. S \in SUBSET (0..n) /\ S \in SUBSET Int
    OBVIOUS
  <2>2. IsFiniteSet(S)
    <3>1. IsFiniteSet(0..n)
      BY FS_Interval
    <3> HIDE DEF S
    <3> QED
      BY <2>1, <3>1, FS_Subset
  <2>3. T = {n - i : i \in S}
    <3>1. ASSUME NEW i \in T PROVE i \in {n - j : j \in S}
      <4>1. n - i \in S /\ n - (n - i) = i
        OBVIOUS
      <4> HIDE DEF S, T
      <4> QED
        BY <4>1
    <3>2. ASSUME NEW i \in S PROVE n - i \in T
      <4>1. n - i \in 0..n /\ n - (n - i) = i
        OBVIOUS
      <4> QED
        BY <4>1
    <3> HIDE DEF S, T
    <3> QED
      BY <3>1, <3>2
  <2> HIDE DEF S, T
  <2>4. Cardinality(T) = Cardinality(S)
    <3>1. n \in Int /\ S \in SUBSET Int
      BY <2>1
    <3> QED
      BY <2>2, <2>3, <3>1, Reflected
  <2> QED
    BY <2>4 DEF S, T
<1>2. ASSUME NEW bit \in 0..(mm - 1) PROVE bit \in XorSum(n, g) <=> bit \in XorSum(n, f)
  BY <1>1 DEF XorSum
<1>3. XorSum(n, g) \subseteq 0..(mm - 1) /\ XorSum(n, f) \subseteq 0..(mm - 1)
  BY DEF XorSum
<1> HIDE DEF XorSum
<1> QED
  BY <1>2, <1>3

\* The syndromes, in index form, of the errors e.
SyndromesOf(e, s) ==
  /\ e \in Vector /\ s \in SyndromeIndices
  /\ \A k \in 0..nroots-1 : s[k] = index_of[At(e, k)]

\* A coefficient of the product of a polynomial and the syndromes, error by error.
LEMMA ConvIs ==
  ASSUME NEW e, NEW s, SyndromesOf(e, s), NEW f \in Polynomial, NEW k \in 0..nroots-1
  PROVE  Conv(IndexForm(f), s, k)
           = XorSum(nn - 1, [a \in 0..nn-1 |-> Times(e[a], Leading(f, k, a))])
<1> DEFINE t == [i \in 0..k |-> [a \in 0..nn-1 |-> Times(f[k - i], Times(e[a], power[a * i]))]]
           A == [i \in 0..k |-> XorSum(nn - 1, t[i])]
           B == [a \in 0..nn-1 |-> XorSum(k, [i \in 0..k |-> t[i][a]])]
           C == [a \in 0..nn-1 |-> Times(e[a], Leading(f, k, a))]
           g == [i \in 0..k |-> Product(IndexForm(f)[i], s[k - i])]
<1>1. nroots \in Nat /\ nn \in Nat /\ nn - 1 \in Nat /\ k \in Nat /\ k < nroots /\ e \in Vector
  BY Sizes DEF SyndromesOf
<1>2. ASSUME NEW i \in 0..k
      PROVE  i \in Nat /\ i \in 0..nroots-1 /\ k - i \in 0..nroots /\ f[k - i] \in Symbol
  BY <1>1 DEF Polynomial
<1>3. ASSUME NEW i \in 0..k, NEW a \in 0..nn-1
      PROVE  /\ power[a * i] \in Symbol /\ e[a] \in Symbol /\ Times(e[a], power[a * i]) \in Symbol
             /\ Times(f[k - i], Times(e[a], power[a * i])) \in Symbol
  BY <1>1, <1>2, AtTerm, TimesType
<1>4. t \in [0..k -> [0..nn-1 -> Symbol]]
  BY <1>3
<1>5. ASSUME NEW i \in 0..k PROVE A[i] = g[k - i]
  <2> DEFINE x == f[k - i]
             h == [a \in 0..nn-1 |-> Times(e[a], power[a * i])]
             y == [a \in 0..nn-1 |-> Times(x, h[a])]
  <2>1. \A a \in 0..nn-1 : h[a] \in Symbol /\ y[a] = Times(x, h[a])
    BY <1>3
  <2>2. XorSum(nn - 1, y) = Times(x, XorSum(nn - 1, h))
    <3>1. x \in Symbol
      BY <1>2
    <3> HIDE DEF x, y, h
    <3> QED
      BY <1>1, <2>1, <3>1, SumTimes
  <2>3. A[i] = Times(x, At(e, i))
    BY <2>2 DEF At
  <2>4. g[k - i] = Product(index_of[x], s[i])
    <3>1. k - i \in 0..k /\ k - (k - i) = i
      BY <1>1
    <3> QED
      BY <1>2, <3>1 DEF IndexForm
  <2>5. s[i] = index_of[At(e, i)]
    BY <1>2 DEF SyndromesOf
  <2> HIDE DEF A, g, x
  <2> QED
    BY <2>3, <2>4, <2>5 DEF Times
<1>6. ASSUME NEW a \in 0..nn-1 PROVE B[a] = C[a]
  <2> DEFINE u == e[a]
             h == [i \in 0..k |-> Times(f[k - i], power[i * a])]
             y == [i \in 0..k |-> t[i][a]]
  <2>1. u \in Symbol /\ a \in Nat
    BY <1>1, Sizes DEF Vector
  <2>2. ASSUME NEW i \in 0..k PROVE h[i] \in Symbol /\ y[i] = Times(u, h[i])
    <3> DEFINE p == power[a * i]   x == f[k - i]
    <3>1. i * a = a * i
      BY <1>2, <2>1
    <3>2. p \in Symbol /\ x \in Symbol
      BY <1>2, <1>3
    <3>3. h[i] = Times(x, p) /\ y[i] = Times(x, Times(u, p))
      BY <3>1
    <3> HIDE DEF p, x, u, h, y
    <3>4. Times(x, Times(u, p)) = Times(u, Times(x, p))
      <4>1. Times(x, Times(u, p)) = Times(p, Times(x, u)) /\ Times(u, Times(x, p)) = Times(p, Times(u, x))
        BY <2>1, <3>2, TimesTurned
      <4>2. Times(x, u) = Times(u, x)
        BY <2>1, <3>2, TimesLaws
      <4> QED
        BY <4>1, <4>2
    <3>5. Times(x, p) \in Symbol
      BY <3>2, TimesType
    <3> QED
      BY <3>3, <3>4, <3>5
  <2>3. XorSum(k, y) = Times(u, XorSum(k, h))
    <3>1. \A i \in 0..k : h[i] \in Symbol /\ y[i] = Times(u, h[i])
      BY <2>2
    <3> HIDE DEF u, h, y
    <3> QED
      BY <1>1, <2>1, <3>1, SumTimes
  <2> QED
    BY <2>3 DEF Leading
<1>7. XorSum(k, A) = XorSum(nn - 1, B)
  <2> HIDE DEF t
  <2> QED
    BY <1>1, <1>4, SumSwap
<1> HIDE DEF A, B, C, g, t
<1>8. XorSum(k, A) = XorSum(k, g)
  BY <1>1, <1>5, SumReversed
<1>9. XorSum(nn - 1, B) = XorSum(nn - 1, C)
  BY <1>6, SumSame
<1> QED
  BY <1>7, <1>8, <1>9 DEF Conv, g, C

\* From its degree on, a polynomial's tail is its value, shifted.
LEMMA LeadingAbove ==
  ASSUME NEW f \in Polynomial, NEW k \in 0..nroots, \A i \in 0..nroots : i > k => f[i] = {},
         NEW a \in 0..nn-1
  PROVE  Leading(f, k, a) = Times(power[a * k], Value(f, nn - a))
<1> DEFINE y == nn - a
           c == power[a * k]
           L == [i \in 0..nroots |-> Times(f[i], power[i * y])]
           M == [i \in 0..k |-> Times(c, L[i])]
           N == [i \in 0..k |-> Times(f[k - i], power[i * a])]
<1>1. nroots \in Nat /\ nn \in Nat /\ a \in Nat /\ y \in Nat /\ k \in Nat /\ k <= nroots
  BY Sizes
<1>2. c \in Symbol /\ a * k \in Nat
  BY <1>1, Exponents, PowerFacts
<1>3. ASSUME NEW i \in 0..nroots
      PROVE  /\ i \in Nat /\ f[i] \in Symbol /\ power[i * y] \in Symbol /\ i * y \in Nat
             /\ L[i] = Times(f[i], power[i * y]) /\ L[i] \in Symbol
  BY <1>1, ValueTerm
<1>4. ASSUME NEW i \in (k + 1)..nroots PROVE L[i] = {}
  <2>1. i \in 0..nroots /\ f[i] = {}
    BY <1>1
  <2> QED
    BY <1>3, <2>1, TimesLaws
<1>5. ASSUME NEW i \in 0..k PROVE M[i] = N[k - i]
  <2> DEFINE x == f[i]   s == power[i * y]
  <2>1. i \in 0..nroots /\ i \in Nat /\ k - i \in 0..k /\ k - (k - i) = i /\ k - i \in Nat
    BY <1>1
  <2>2. x \in Symbol /\ s \in Symbol
    BY <1>3, <2>1
  <2>3. Times(c, s) = power[(k - i) * a]
    <3> DEFINE z == (k - i) * a
    <3>1. a * k + i * y = z + nn * i
      BY <1>1, <2>1
    <3>2. z \in Nat
      BY <1>1, <2>1, Exponents
    <3>3. power[z + nn * i] = power[z]
      <4> HIDE DEF z
      <4> QED
        BY <2>1, <3>2, PowersPeriod
    <3>4. power[a * k + i * y] = Times(power[a * k], power[i * y])
      BY <1>2, <1>3, <2>1, PowerFacts
    <3> QED
      BY <3>1, <3>3, <3>4
  <2>4. M[i] = Times(c, Times(x, s)) /\ N[k - i] = Times(x, power[(k - i) * a])
    BY <2>1
  <2> HIDE DEF x, s, c, M, N
  <2>5. Times(c, Times(x, s)) = Times(x, Times(c, s))
    <3>1. Times(c, Times(x, s)) = Times(s, Times(c, x)) /\ Times(x, Times(c, s)) = Times(s, Times(x, c))
      BY <1>2, <2>2, TimesTurned
    <3>2. Times(x, c) = Times(c, x)
      BY <1>2, <2>2, TimesLaws
    <3> QED
      BY <3>1, <3>2
  <2> QED
    BY <2>3, <2>4, <2>5
<1>6. \A i \in 0..k : L[i] \in Symbol /\ M[i] = Times(c, L[i])
  BY <1>1, <1>3
<1> HIDE DEF L, M, N, c, y
<1>7. XorSum(k, M) = Times(c, XorSum(k, L))
  BY <1>1, <1>2, <1>6, SumTimes
<1>8. XorSum(k, M) = XorSum(k, N)
  BY <1>1, <1>5, SumReversed
<1>9. XorSum(nroots, L) = XorSum(k, L)
  BY <1>1, <1>4, SumTail
<1> QED
  BY <1>7, <1>8, <1>9 DEF Leading, Value, L, N, c, y

\* The errors, each times the value of a polynomial at the inverse of its place.
Filtered(e, f) == [a \in 0..nn-1 |-> Times(e[a], Value(f, nn - a))]

\* From its degree on, the coefficients of the product are syndromes of those.
LEMMA ConvFiltered ==
  ASSUME NEW e, NEW s, SyndromesOf(e, s), NEW f \in Polynomial, NEW k \in 0..nroots-1,
         \A i \in 0..nroots : i > k => f[i] = {}
  PROVE  Conv(IndexForm(f), s, k) = At(Filtered(e, f), k)
<1> DEFINE A == [a \in 0..nn-1 |-> Times(e[a], Leading(f, k, a))]
           B == [a \in 0..nn-1 |-> Times(Filtered(e, f)[a], power[a * k])]
<1>1. k \in 0..nroots /\ k \in Nat /\ e \in Vector
  BY Sizes DEF SyndromesOf
<1>2. ASSUME NEW a \in 0..nn-1 PROVE A[a] = B[a]
  <2> DEFINE c == power[a * k]   u == e[a]   v == Value(f, nn - a)
  <2>1. c \in Symbol /\ u \in Symbol /\ v \in Symbol
    BY <1>1, AtTerm, ValueType
  <2>2. Leading(f, k, a) = Times(c, v)
    BY <1>1, LeadingAbove
  <2>3. B[a] = Times(Times(u, v), c)
    BY DEF Filtered
  <2>4. A[a] = Times(u, Times(c, v))
    BY <2>2
  <2> HIDE DEF c, u, v, A, B
  <2>5. Times(Times(u, v), c) = Times(u, Times(c, v))
    <3>1. Times(Times(u, v), c) = Times(u, Times(v, c))
      BY <2>1, TimesAssociative
    <3>2. Times(v, c) = Times(c, v)
      BY <2>1, TimesLaws
    <3> QED
      BY <3>1, <3>2
  <2> QED
    BY <2>3, <2>4, <2>5
<1>3. XorSum(nn - 1, A) = XorSum(nn - 1, B)
  <2> HIDE DEF A, B
  <2> QED
    BY <1>2, SumSame
<1>4. Conv(IndexForm(f), s, k) = XorSum(nn - 1, A)
  BY ConvIs
<1> QED
  BY <1>3, <1>4 DEF At

\* They are a word that is zero where the errors are.
LEMMA FilteredType ==
  ASSUME NEW e \in Vector, NEW f
  PROVE  Filtered(e, f) \in Vector /\ Support(Filtered(e, f)) \subseteq Support(e)
<1>1. ASSUME NEW a \in 0..nn-1
      PROVE  Times(e[a], Value(f, nn - a)) \in Symbol /\ (e[a] = {} => Times(e[a], Value(f, nn - a)) = {})
  <2>1. e[a] \in Symbol /\ Value(f, nn - a) \in Symbol
    BY ValueType DEF Vector
  <2> QED
    BY <2>1, TimesType, TimesLaws
<1> QED
  BY <1>1 DEF Filtered, Vector, Support

\* A register that has predicted as many syndromes as there are errors has the places of all
\* errors for roots, and predicts whatever follows.
LEMMA AllFiltered ==
  ASSUME NEW e, NEW s, SyndromesOf(e, s), NEW n \in Nat, n <= nroots,
         NEW f, NEW el, Predicts(f, el, n, s), Cardinality(Support(e)) <= n - el
  PROVE  /\ Support(Filtered(e, f)) = {}
         /\ n < nroots => Conv(IndexForm(f), s, n) = {}
<1> DEFINE F == Filtered(e, f)
           v == Cardinality(Support(e))
<1>1. /\ e \in Vector /\ f \in Polynomial /\ el \in Nat /\ el <= n /\ nroots \in Nat
      /\ \A i \in 0..nroots : i > el => f[i] = {}
  BY Sizes DEF SyndromesOf, Predicts
<1>2. F \in Vector /\ Support(F) \subseteq Support(e)
  BY <1>1, FilteredType
<1>3. v \in Nat /\ Cardinality(Support(F)) <= v
  <2> HIDE DEF F
  <2> QED
    BY <1>2, SupportFinite, FS_Subset
<1>4. ASSUME NEW k \in Nat, el <= k, k < nroots
      PROVE  Conv(IndexForm(f), s, k) = At(F, k)
  <2>1. k \in 0..nroots-1 /\ \A i \in 0..nroots : i > k => f[i] = {}
    BY <1>1, <1>4
  <2> QED
    BY <1>1, <2>1, ConvFiltered
<1>5. \A k \in Nat : el <= k /\ k < el + v => At(F, k) = {}
  <2> SUFFICES ASSUME NEW k \in Nat, el <= k, k < el + v PROVE At(F, k) = {}
    OBVIOUS
  <2>1. k < nroots /\ k \in el..n-1
    BY <1>1, <1>3
  <2>2. Conv(IndexForm(f), s, k) = {}
    BY <2>1 DEF Predicts
  <2> QED
    BY <1>4, <2>1, <2>2
<1>6. Support(F) = {}
  <2>1. Traced(v)
    BY <1>3, Trace
  <2> HIDE DEF F, v
  <2> QED
    BY <1>1, <1>2, <1>3, <1>5, <2>1 DEF Traced
<1>7. ASSUME n < nroots PROVE Conv(IndexForm(f), s, n) = {}
  <2>1. Conv(IndexForm(f), s, n) = At(F, n)
    BY <1>1, <1>4, <1>7
  <2> DEFINE G == [a \in 0..nn-1 |-> Times(F[a], power[a * n])]
  <2>2. ASSUME NEW a \in 0..nn-1 PROVE G[a] = {}
    <3>1. F[a] = {} /\ power[a * n] \in Symbol
      BY <1>2, <1>6, AtTerm DEF Support
    <3> HIDE DEF F
    <3> QED
      BY <3>1, TimesLaws
  <2>3. nn - 1 \in Nat
    BY Sizes
  <2>4. XorSum(nn - 1, G) = {}
    <3> HIDE DEF G
    <3> QED
      BY <2>2, <2>3, SumOfZeros
  <2> QED
    BY <2>1, <2>4 DEF At
<1> QED
  BY <1>6, <1>7

\* The register is never longer than the errors are many.
LEMMA StepShort ==
  ASSUME NEW e, NEW s, SyndromesOf(e, s), NEW n \in Nat, n < nroots,
         NEW st, Locates(st, n, s), st.el <= Cardinality(Support(e))
  PROVE  BerlekampMasseyStep(st, n + 1, s).el <= Cardinality(Support(e))
<1> DEFINE lambda == st.lambda
           el == st.el
           xb == TimesX(st.b)
           d == index_of[Discrepancy(lambda, n + 1, s)]
           t == [i \in 0..nroots |-> Xor(lambda[i], Product(d, xb[i]))]
           scaled == [i \in 0..nroots |-> IF lambda[i] = {} THEN nn
                                          ELSE rs_modnn[index_of[lambda[i]] - d + nn]]
           v == Cardinality(Support(e))
           next == BerlekampMasseyStep(st, n + 1, s)
<1>1. /\ st = [lambda |-> lambda, b |-> st.b, el |-> el] /\ Predicts(lambda, el, n, s)
      /\ lambda \in Polynomial /\ el \in Nat /\ v \in Nat /\ el <= v
  BY SupportFinite DEF Locates, Predicts
<1>2. next = IF d = nn THEN [st EXCEPT !.b = xb]
             ELSE IF 2 * el <= (n + 1) - 1
                  THEN [lambda |-> t, b |-> scaled, el |-> (n + 1) - el]
                  ELSE [st EXCEPT !.lambda = t, !.b = xb]
  BY DEF BerlekampMasseyStep
<1>3. d # nn => (n + 1) - el <= v
  <2> SUFFICES ASSUME ~((n + 1) - el <= v) PROVE d = nn
    OBVIOUS
  <2>1. v <= n - el /\ n <= nroots
    BY <1>1, Sizes
  <2>2. Conv(IndexForm(lambda), s, n) = {}
    BY <1>1, <2>1, AllFiltered
  <2>3. Discrepancy(lambda, n + 1, s) = {}
    BY <1>1, <2>2, DiscrepancyIs
  <2> QED
    BY <2>3, Zero, IndexFacts
<1>4. [st EXCEPT !.b = xb].el = el /\ [st EXCEPT !.lambda = t, !.b = xb].el = el
  <2> HIDE DEF t, xb
  <2>1. [st EXCEPT !.b = xb].el = st.el /\ [st EXCEPT !.lambda = t, !.b = xb].el = st.el
    <3>1. [[lambda |-> lambda, b |-> st.b, el |-> el] EXCEPT !.b = xb].el = el
      OBVIOUS
    <3>2. [[lambda |-> lambda, b |-> st.b, el |-> el] EXCEPT !.lambda = t, !.b = xb].el = el
      OBVIOUS
    <3> QED
      BY <1>1, <3>1, <3>2, Zenon
  <2> QED
    BY <2>1
<1> DEFINE long == [lambda |-> t, b |-> scaled, el |-> (n + 1) - el]
<1>5. long.el = (n + 1) - el
  OBVIOUS
<1> HIDE DEF d, t, xb, scaled, v, el, lambda, next, long
<1>6. next = IF d = nn THEN [st EXCEPT !.b = xb]
             ELSE IF 2 * el <= (n + 1) - 1 THEN long
                  ELSE [st EXCEPT !.lambda = t, !.b = xb]
  BY <1>2 DEF long
<1>7. next.el <= v
  <2>1. ASSUME d = nn PROVE next.el = el
    BY <1>4, <1>6, <2>1
  <2>2. ASSUME d # nn, 2 * el <= (n + 1) - 1 PROVE next.el = (n + 1) - el
    BY <1>5, <1>6, <2>2
  <2>3. ASSUME d # nn, ~(2 * el <= (n + 1) - 1) PROVE next.el = el
    BY <1>4, <1>6, <2>3
  <2> QED
    BY <1>1, <1>3, <2>1, <2>2, <2>3
<1> QED
  BY <1>7 DEF next, v

-----------------------------------------------------------------------------
(* The roots of a locator.                                                   *)

\* The quotient of a polynomial by x minus the root that belongs to the place a.
Quot(f, a) == [k \in 0..nroots |-> Leading(f, k, a)]

\* Its coefficients are those of the division, from the lowest on.
LEMMA QuotType ==
  ASSUME NEW f \in Polynomial, NEW a \in 0..nn-1
  PROVE  /\ Quot(f, a) \in Polynomial /\ Quot(f, a)[0] = f[0]
         /\ \A k \in 0..nroots : Quot(f, a)[k] = Leading(f, k, a)
         /\ \A k \in 0..nroots-1 :
              f[k + 1] = Xor(Quot(f, a)[k + 1], Times(power[a], Quot(f, a)[k]))
<1>1. nroots \in Nat /\ nroots >= 1 /\ a \in Nat /\ 0 \in 0..nroots
  BY Sizes
<1>2. \A k \in 0..nroots : Quot(f, a)[k] = Leading(f, k, a) /\ Leading(f, k, a) \in Symbol
  BY SumType DEF Quot, Leading
<1>3. Quot(f, a) \in Polynomial
  BY <1>2 DEF Quot, Polynomial
<1>4. \A k \in 0..nroots : Symbols(f, k)
  BY <1>1 DEF Symbols, Polynomial
<1>5. Quot(f, a)[0] = f[0]
  BY <1>1, <1>2, <1>4, LeadingFirst
<1>6. ASSUME NEW k \in 0..nroots-1
      PROVE  f[k + 1] = Xor(Quot(f, a)[k + 1], Times(power[a], Quot(f, a)[k]))
  <2>1. k \in Nat /\ k \in 0..nroots /\ k + 1 \in 0..nroots
    BY <1>1
  <2>2. Leading(f, k + 1, a) = Xor(f[k + 1], Times(power[a], Leading(f, k, a)))
    BY <1>1, <1>4, <2>1, LeadingNext
  <2> QED
    BY <1>2, <2>1, <2>2, XorBack
<1> QED
  BY <1>2, <1>3, <1>5, <1>6

\* It is of a lower degree,
LEMMA QuotDegree ==
  ASSUME NEW f \in Polynomial, NEW a \in 0..nn-1, Value(f, nn - a) = {},
         NEW k \in 0..nroots, \A i \in 0..nroots : i > k => f[i] = {}
  PROVE  Quot(f, a)[k] = {}
<1>1. Leading(f, k, a) = Times(power[a * k], Value(f, nn - a))
  BY LeadingAbove
<1>2. power[a * k] \in Symbol
  <2>1. a \in Nat /\ k \in Nat
    BY Sizes
  <2> QED
    BY <2>1, Exponents, PowerFacts
<1>3. Quot(f, a)[k] = Leading(f, k, a)
  BY QuotType
<1> QED
  BY <1>1, <1>2, <1>3, TimesLaws

\* and it has the other roots.
LEMMA QuotValue ==
  ASSUME NEW f \in Polynomial, NEW a \in 0..nn-1, Value(f, nn - a) = {}, NEW y \in Nat
  PROVE  Value(f, y) = Times(Xor({0}, power[a + y]), Value(Quot(f, a), y))
<1> DEFINE Q == Quot(f, a)
           S == [k \in 0..nroots |-> IF k = 0 THEN {} ELSE Q[k - 1]]
           c == power[a]
           s == power[y]
           v == Value(Q, y)
<1>1. nroots \in Nat /\ nroots >= 1 /\ a \in Nat /\ nroots \in 0..nroots /\ 0 \in 0..nroots
  BY Sizes
<1>2. Q \in Polynomial /\ Q[nroots] = {} /\ c \in Symbol /\ s \in Symbol /\ v \in Symbol
  <2>1. \A i \in 0..nroots : i > nroots => f[i] = {}
    BY <1>1
  <2>2. Q[nroots] = {}
    BY <1>1, <2>1, QuotDegree
  <2> QED
    BY <1>1, <2>2, QuotType, PowerFacts, ValueType
<1>3. S \in Polynomial /\ S[0] = {} /\ \A k \in 0..nroots-1 : S[k + 1] = Q[k]
  <2>1. \A k \in 0..nroots : k # 0 => k - 1 \in 0..nroots
    BY <1>1
  <2>2. S \in Polynomial
    BY <1>2, <2>1, Zero DEF Polynomial
  <2>3. \A k \in 0..nroots-1 : k + 1 \in 0..nroots /\ k + 1 # 0 /\ (k + 1) - 1 = k
    BY <1>1
  <2> HIDE DEF Q
  <2> QED
    BY <1>1, <2>2, <2>3
<1>4. ASSUME NEW k \in 0..nroots PROVE f[k] = Xor(Q[k], Times(c, S[k]))
  <2>1. CASE k = 0
    <3>1. Q[0] = f[0]
      BY QuotType
    <3> HIDE DEF Q, S, c
    <3>2. Times(c, S[0]) = {}
      BY <1>2, <1>3, TimesLaws
    <3> QED
      BY <2>1, <3>1, <3>2, XorLaws
  <2>2. CASE k # 0
    <3>1. k - 1 \in 0..nroots-1 /\ (k - 1) + 1 = k
      BY <1>1, <2>2
    <3>2. f[(k - 1) + 1] = Xor(Q[(k - 1) + 1], Times(c, Q[k - 1]))
      BY <3>1, QuotType
    <3>3. S[k] = Q[k - 1]
      BY <2>2
    <3> HIDE DEF Q, S, c
    <3> QED
      BY <3>1, <3>2, <3>3
  <2> QED
    BY <2>1, <2>2
<1>5. power[a + y] = Times(c, s)
  BY <1>1, PowerFacts
<1> HIDE DEF Q, S, c, s, v
<1>6. Value(S, y) = Times(power[y], Value(Q, y))
  BY <1>2, <1>3, ValueShifted
<1>7. Value(f, y) = Xor(Value(Q, y), Times(c, Value(S, y)))
  <2>1. \A k \in 0..nroots : f[k] = Xor(Q[k], Times(c, S[k]))
    BY <1>4
  <2>2. S \in Polynomial /\ Q \in Polynomial
    BY <1>2, <1>3
  <2> QED
    BY <1>2, <2>1, <2>2, ValueSum
<1>8. Times(Xor({0}, Times(c, s)), v) = Xor(v, Times(c, Times(s, v)))
  <2>1. Times(c, s) \in Symbol /\ {0} \in Symbol
    BY <1>2, TimesType, One
  <2>2. Times(Xor({0}, Times(c, s)), v) = Xor(Times({0}, v), Times(Times(c, s), v))
    BY <1>2, <2>1, TimesDistributive
  <2>3. Times(Times(c, s), v) = Times(c, Times(s, v))
    BY <1>2, TimesAssociative
  <2>4. Times({0}, v) = v
    BY <1>2, TimesLaws
  <2> QED
    BY <2>2, <2>3, <2>4
<1> QED
  BY <1>5, <1>6, <1>7, <1>8 DEF v, s, Q

\* Only a place and its own root make one.
LEMMA OwnRoot ==
  ASSUME NEW a \in 0..nn-1, NEW y \in 1..nn
  PROVE  /\ Xor({0}, power[a + y]) \in Symbol
         /\ Xor({0}, power[a + y]) = {} <=> y = nn - a
<1>1. nn \in Nat /\ nn >= 2 /\ a \in Nat /\ y \in Nat /\ a + y \in Nat /\ nn - 1 \in Nat
  BY Sizes
<1>2. power[a + y] \in Symbol /\ {0} \in Symbol
  BY <1>1, PowerFacts, One
<1>3. Xor({0}, power[a + y]) = {} <=> power[a + y] = {0}
  BY XorZero, XorLaws
<1>4. y = nn - a => power[a + y] = {0}
  <2>1. y = nn - a => a + y = nn
    BY <1>1
  <2> QED
    BY <2>1, PowerFacts
<1>5. ASSUME power[a + y] = {0} PROVE y = nn - a
  <2>1. \A x \in 0..nn-1 : power[x] = {0} => x = 0
    <3>1. 0 \in 0..nn-1 /\ power[0] = {0}
      BY <1>1, PowerFacts
    <3> QED
      BY <3>1, PowersDiffer
  <2>2. ASSUME a + y < nn PROVE FALSE
    <3>1. a + y \in 0..nn-1 /\ a + y # 0
      BY <1>1, <2>2
    <3> QED
      BY <1>5, <2>1, <3>1
  <2>3. ASSUME a + y > nn PROVE FALSE
    <3> DEFINE x == a + y - nn
    <3>1. x \in 0..nn-1 /\ x \in Nat /\ x # 0 /\ a + y = x + nn * 1
      BY <1>1, <2>3
    <3> HIDE DEF x
    <3>2. power[x + nn * 1] = power[x]
      BY <3>1, PowersPeriod
    <3> QED
      BY <1>5, <2>1, <3>1, <3>2
  <2> QED
    BY <1>1, <2>2, <2>3
<1> QED
  BY <1>2, <1>3, <1>4, <1>5, XorType

\* The places where a polynomial is zero are not more than its degree.
RootsOf(f) == {y \in 1..nn : Value(f, y) = {}}

\* The roots are finitely many.
LEMMA RootsFinite ==
  ASSUME NEW f
  PROVE  IsFiniteSet(RootsOf(f)) /\ Cardinality(RootsOf(f)) \in Nat /\ RootsOf(f) \subseteq 1..nn
<1>1. nn \in Int /\ 1 \in Int
  BY Sizes
<1>2. IsFiniteSet(1..nn)
  BY <1>1, FS_Interval
<1>3. RootsOf(f) \in SUBSET (1..nn)
  BY DEF RootsOf
<1> QED
  BY <1>2, <1>3, FS_Subset, FS_CardinalityType

\* A polynomial of degree d with more than d roots is zero.
FewRoots(d) ==
  \A f \in Polynomial :
    (\A i \in 0..nroots : i > d => f[i] = {}) /\ Cardinality(RootsOf(f)) > d
      => \A i \in 0..nroots : f[i] = {}

\* By induction: a quotient by a root has one degree and one root less.
LEMMA RootBound == \A d \in Nat : d <= nroots => FewRoots(d)
<1> DEFINE T == {d \in Nat : d <= nroots => FewRoots(d)}
<1>0. nroots \in Nat /\ nroots >= 1 /\ nn \in Nat /\ 0 \in 0..nroots
  BY Sizes
<1>1. 0 \in T
  <2> SUFFICES ASSUME NEW f \in Polynomial, \A i \in 0..nroots : i > 0 => f[i] = {},
                      Cardinality(RootsOf(f)) > 0
               PROVE  f[0] = {}
    BY <1>0 DEF FewRoots
  <2>1. RootsOf(f) # {}
    BY FS_EmptySet
  <2>2. PICK y \in 1..nn : Value(f, y) = {}
    BY <2>1 DEF RootsOf
  <2> DEFINE F == [i \in 0..nroots |-> Times(f[i], power[i * y])]
  <2>3. ASSUME NEW i \in 0..nroots PROVE F[i] \in Symbol /\ (i # 0 => F[i] = {})
    <3>1. power[i * y] \in Symbol /\ Times(f[i], power[i * y]) \in Symbol
      <4>1. y \in Nat
        OBVIOUS
      <4> QED
        BY <4>1, ValueTerm
    <3>2. i # 0 => f[i] = {}
      BY <1>0
    <3> QED
      BY <3>1, <3>2, TimesLaws
  <2>4. F[0] = f[0]
    <3>1. 0 * y = 0 /\ f[0] \in Symbol
      BY <1>0 DEF Polynomial
    <3> QED
      BY <1>0, <3>1, PowerFacts, TimesLaws
  <2>5. XorSum(nroots, F) = F[0]
    <3> HIDE DEF F
    <3> QED
      BY <1>0, <2>3, SumAlone
  <2> QED
    BY <2>2, <2>4, <2>5 DEF Value
<1>2. ASSUME NEW d \in T PROVE d + 1 \in T
  <2> SUFFICES ASSUME d + 1 <= nroots, NEW f \in Polynomial,
                      \A i \in 0..nroots : i > d + 1 => f[i] = {},
                      Cardinality(RootsOf(f)) > d + 1
               PROVE  \A i \in 0..nroots : f[i] = {}
    BY DEF FewRoots
  <2>1. d \in Nat /\ FewRoots(d)
    BY <1>0
  <2>2. PICK y \in 1..nn : Value(f, y) = {}
    <3>1. ASSUME RootsOf(f) = {} PROVE FALSE
      <4>1. Cardinality(RootsOf(f)) = 0
        BY <3>1, FS_EmptySet
      <4> QED
        BY <2>1, <4>1
    <3> QED
      BY <3>1 DEF RootsOf
  <2> DEFINE a == nn - y
             Q == Quot(f, a)
  <2>3. a \in 0..nn-1 /\ nn - a = y /\ y \in RootsOf(f)
    BY <1>0, <2>2 DEF RootsOf
  <2> HIDE DEF a
  <2>4. Q \in Polynomial
    BY <2>3, QuotType
  <2>5. ASSUME NEW i \in 0..nroots, i > d PROVE Q[i] = {}
    <3>1. \A k \in 0..nroots : k > i => f[k] = {}
      BY <2>1, <2>5
    <3> QED
      BY <2>2, <2>3, <3>1, QuotDegree
  <2>6. RootsOf(f) \ {y} \subseteq RootsOf(Q)
    <3> SUFFICES ASSUME NEW x \in 1..nn, x # y, Value(f, x) = {} PROVE Value(Q, x) = {}
      BY DEF RootsOf
    <3> DEFINE m == Xor({0}, power[a + x])
    <3>1. m \in Symbol /\ m # {}
      BY <2>3, OwnRoot
    <3>2. x \in Nat
      OBVIOUS
    <3>3. Value(f, x) = Times(m, Value(Q, x))
      BY <2>2, <2>3, <3>2, QuotValue
    <3> HIDE DEF m, Q
    <3> QED
      BY <3>1, <3>3, ValueType, TimesZero
  <2>7. Cardinality(RootsOf(Q)) > d
    <3> DEFINE R == RootsOf(f)   S == RootsOf(f) \ {y}
    <3>1. IsFiniteSet(R) /\ Cardinality(R) \in Nat /\ IsFiniteSet(RootsOf(Q)) /\ Cardinality(RootsOf(Q)) \in Nat
      BY RootsFinite
    <3>2. IsFiniteSet(S) /\ Cardinality(S) = Cardinality(R) - 1
      BY <2>3, <3>1, FS_RemoveElement
    <3>3. Cardinality(S) <= Cardinality(RootsOf(Q))
      <4> HIDE DEF Q, R
      <4> QED
        BY <2>6, <3>1, FS_Subset
    <3> HIDE DEF S, Q
    <3> QED
      BY <2>1, <3>1, <3>2, <3>3
  <2>8. \A i \in 0..nroots : Q[i] = {}
    <3>1. \A i \in 0..nroots : i > d => Q[i] = {}
      BY <2>5
    <3> HIDE DEF Q
    <3> QED
      BY <2>1, <2>4, <2>7, <3>1 DEF FewRoots
  <2>9. ASSUME NEW k \in 0..nroots PROVE f[k] = {}
    <3>1. CASE k = 0
      BY <1>0, <2>3, <2>8, <3>1, QuotType
    <3>2. CASE k # 0
      <4>1. k - 1 \in 0..nroots-1 /\ (k - 1) + 1 = k /\ k - 1 \in 0..nroots
        BY <1>0, <3>2
      <4>2. f[(k - 1) + 1] = Xor(Q[(k - 1) + 1], Times(power[a], Q[k - 1]))
        BY <2>3, <4>1, QuotType
      <4>3. power[a] \in Symbol
        BY <1>0, <2>3, PowerFacts
      <4> HIDE DEF Q
      <4>4. Q[(k - 1) + 1] = {} /\ Q[k - 1] = {} /\ Times(power[a], {}) = {}
        BY <2>8, <4>1, <4>3, TimesLaws
      <4>5. f[k] = Xor({}, {})
        BY <4>1, <4>2, <4>4
      <4> QED
        BY <4>5, XorLaws
    <3> QED
      BY <3>1, <3>2
  <2> QED
    BY <2>9
<1>3. T = Nat
  <2>1. T \in SUBSET Nat
    OBVIOUS
  <2> HIDE DEF T
  <2> QED
    BY <1>1, <1>2, <2>1, Everything
<1> QED
  BY <1>3

\* A term of a polynomial in index form.
LEMMA TermAt ==
  \A s \in Symbol, j \in Nat :
    (IF index_of[s] = nn THEN {} ELSE Power(index_of[s] + j)) = Times(s, power[j])
<1> TAKE s \in Symbol, j \in Nat
<1> DEFINE i == index_of[s]
<1>1. i \in Indices /\ i \in Nat /\ (i = nn <=> s = {}) /\ alpha_to[i] = s /\ power[j] \in Symbol
  <2>1. i \in Indices
    BY IndexFacts
  <2> QED
    BY <2>1, Sizes, IndexFacts, PowerFacts DEF Indices
<1>2. CASE s = {}
  BY <1>1, <1>2, TimesLaws
<1>3. CASE s # {}
  <2>1. power[i] = s
    BY <1>1, <1>3 DEF alpha_to, Indices
  <2> HIDE DEF i
  <2>2. Power(i + j) = power[i + j] /\ power[i + j] = Times(power[i], power[j])
    BY <1>1, PowerIs, PowerFacts
  <2> QED
    BY <1>1, <1>3, <2>1, <2>2 DEF i
<1> QED
  BY <1>2, <1>3

\* The degree of a polynomial.
LEMMA DegreeFacts ==
  ASSUME NEW lambda \in Polynomial, NEW d, d = Degree(IndexForm(lambda)), lambda[0] # {}
  PROVE  d \in 0..nroots /\ lambda[d] # {} /\ \A i \in 0..nroots : i > d => lambda[i] = {}
<1> DEFINE S == {i \in 0..nroots : IndexForm(lambda)[i] # nn}
           T == {nroots - i : i \in S}
<1>1. nroots \in Nat /\ 0 \in 0..nroots
  BY Sizes
<1>2. ASSUME NEW i \in 0..nroots
      PROVE  IndexForm(lambda)[i] = nn <=> lambda[i] = {}
  <2>1. lambda[i] \in Symbol
    BY DEF Polynomial
  <2> QED
    BY <2>1, IndexFormType, IndexFacts
<1>3. 0 \in S /\ S \subseteq 0..nroots /\ \A i \in 0..nroots : i \in S <=> lambda[i] # {}
  BY <1>1, <1>2
<1> HIDE DEF S
<1>4. T \in SUBSET Nat /\ T # {}
  BY <1>1, <1>3
<1>5. PICK m \in T : \A x \in T : m <= x
  <2> HIDE DEF T
  <2> QED
    BY <1>4, LeastNumber
<1>6. PICK i \in S : m = nroots - i
  OBVIOUS
<1>7. \A j \in S : i >= j
  <2> TAKE j \in S
  <2>1. m <= nroots - j
    BY <1>5
  <2> QED
    BY <1>1, <1>3, <1>6, <2>1
<1>8. Max(S) \in S /\ \A j \in S : Max(S) >= j
  BY <1>7 DEF Max
<1>9. d = Max(S)
  BY DEF Degree, S
<1>10. ASSUME NEW j \in 0..nroots, j > d PROVE lambda[j] = {}
  <2>1. d \in S /\ d \in 0..nroots
    BY <1>3, <1>8, <1>9
  <2>2. ~(d >= j)
    BY <1>1, <1>10, <2>1
  <2> QED
    BY <1>3, <1>8, <1>9, <2>2
<1> QED
  BY <1>3, <1>8, <1>9, <1>10

\* Chien search finds the roots of a polynomial.
LEMMA ValueAtIs ==
  ASSUME NEW f \in Polynomial, NEW d \in 0..nroots, \A i \in 0..nroots : i > d => f[i] = {},
         NEW x \in Nat
  PROVE  ValueAt(IndexForm(f), 0..d, x) = Value(f, x)
<1> DEFINE F == [i \in 0..nroots |-> Times(f[i], power[i * x])]
           G == [i \in 0..d |-> IF IndexForm(f)[i] = nn THEN {} ELSE Power(IndexForm(f)[i] + i * x)]
<1>1. nroots \in Nat /\ d \in Nat /\ d <= nroots
  BY Sizes
<1>2. ValueAt(IndexForm(f), 0..d, x) = XorSum(d, G)
  BY DEF ValueAt, XorAll, XorSum
<1>3. ASSUME NEW i \in 0..d PROVE G[i] = F[i]
  <2>1. i \in 0..nroots
    BY <1>1
  <2>2. f[i] \in Symbol /\ i * x \in Nat /\ IndexForm(f)[i] = index_of[f[i]]
    BY <2>1, ValueTerm DEF IndexForm
  <2>3. (IF index_of[f[i]] = nn THEN {} ELSE Power(index_of[f[i]] + i * x)) = Times(f[i], power[i * x])
    <3> DEFINE j == i * x
    <3>1. j \in Nat
      BY <2>2
    <3> HIDE DEF j
    <3>2. (IF index_of[f[i]] = nn THEN {} ELSE Power(index_of[f[i]] + j)) = Times(f[i], power[j])
      BY <2>2, <3>1, TermAt
    <3> QED
      BY <3>2 DEF j
  <2> QED
    BY <2>1, <2>2, <2>3
<1>4. ASSUME NEW i \in (d + 1)..nroots PROVE F[i] = {}
  <2>1. i \in 0..nroots /\ f[i] = {}
    BY <1>1
  <2>2. power[i * x] \in Symbol
    BY <2>1, ValueTerm
  <2> QED
    BY <2>1, <2>2, TimesLaws
<1> HIDE DEF F, G
<1>5. XorSum(d, G) = XorSum(d, F)
  BY <1>3, SumSame
<1>6. XorSum(nroots, F) = XorSum(d, F)
  BY <1>1, <1>4, SumTail
<1> QED
  BY <1>2, <1>5, <1>6 DEF Value, F

\* The roots of the errors' places.
PlacesOf(e) == {nn - a : a \in Support(e)}

\* They are as many as the errors.
LEMMA PlacesFacts ==
  ASSUME NEW e
  PROVE  /\ PlacesOf(e) \subseteq 1..nn /\ IsFiniteSet(PlacesOf(e))
         /\ Cardinality(PlacesOf(e)) = Cardinality(Support(e))
<1>1. nn \in Int /\ Support(e) \in SUBSET Int /\ Support(e) \subseteq 0..nn-1
  BY Sizes, SupportFinite
<1>2. PlacesOf(e) \subseteq 1..nn
  <2> SUFFICES ASSUME NEW a \in 0..nn-1 PROVE nn - a \in 1..nn
    BY <1>1 DEF PlacesOf
  <2> QED
    BY <1>1
<1>3. IsFiniteSet(PlacesOf(e)) /\ Cardinality(PlacesOf(e)) = Cardinality(Support(e))
  BY <1>1, SupportFinite, Reflected DEF PlacesOf
<1> QED
  BY <1>2, <1>3

\* A register that is not longer than the errors are many, and has predicted as many syndromes
\* again, has the places of the errors for its roots, and no others.
LEMMA Places ==
  ASSUME NEW e, NEW s, SyndromesOf(e, s), NEW f, NEW el, Predicts(f, el, nroots, s),
         el <= Cardinality(Support(e)), 2 * Cardinality(Support(e)) <= nroots
  PROVE  /\ f \in Polynomial /\ f[0] # {}
         /\ Degree(IndexForm(f)) = Cardinality(Support(e))
         /\ \A i \in 0..nroots : i > Cardinality(Support(e)) => f[i] = {}
         /\ RootsOf(f) = PlacesOf(e) /\ Roots(IndexForm(f)) = PlacesOf(e)
<1> DEFINE v == Cardinality(Support(e))
           d == Degree(IndexForm(f))
<1>1. /\ nroots \in Nat /\ v \in Nat /\ f \in Polynomial /\ el \in Nat /\ f[0] = {0} /\ {0} # {}
      /\ \A i \in 0..nroots : i > el => f[i] = {}
  BY Sizes, SupportFinite, One DEF Predicts
<1>2. d \in 0..nroots /\ f[d] # {} /\ \A i \in 0..nroots : i > d => f[i] = {}
  BY <1>1, DegreeFacts
<1>3. d <= v
  <2> HIDE DEF d
  <2> QED
    BY <1>1, <1>2
<1>4. Support(Filtered(e, f)) = {}
  <2>1. v <= nroots - el /\ nroots <= nroots
    BY <1>1
  <2> QED
    BY <1>1, <2>1, AllFiltered
<1>5. PlacesOf(e) \subseteq RootsOf(f)
  <2> SUFFICES ASSUME NEW a \in Support(e) PROVE nn - a \in 1..nn /\ Value(f, nn - a) = {}
    BY DEF PlacesOf, RootsOf
  <2>1. a \in 0..nn-1 /\ e[a] # {} /\ e \in Vector /\ nn \in Nat
    BY Sizes DEF Support, SyndromesOf
  <2>2. nn - a \in 1..nn
    BY <2>1
  <2>3. Times(e[a], Value(f, nn - a)) = {}
    BY <1>4, <2>1 DEF Support, Filtered
  <2>4. e[a] \in Symbol /\ Value(f, nn - a) \in Symbol
    BY <2>1, ValueType DEF Vector
  <2> QED
    BY <2>1, <2>2, <2>3, <2>4, TimesZero
<1> HIDE DEF d
<1>6. Cardinality(RootsOf(f)) <= d
  <2>1. FewRoots(d) /\ d \in Nat
    BY <1>1, <1>2, RootBound
  <2>2. d \in 0..nroots
    BY <1>2
  <2>3. ~(Cardinality(RootsOf(f)) > d)
    BY <1>1, <1>2, <2>1, <2>2 DEF FewRoots
  <2> QED
    BY <2>1, <2>3, RootsFinite
<1>7. /\ IsFiniteSet(RootsOf(f)) /\ Cardinality(RootsOf(f)) \in Nat
      /\ Cardinality(PlacesOf(e)) = v /\ d \in Nat
  BY <1>1, <1>2, RootsFinite, PlacesFacts
<1>8. v <= Cardinality(RootsOf(f))
  BY <1>5, <1>7, FS_Subset
<1>9. d = v /\ Cardinality(RootsOf(f)) = v
  <2> HIDE DEF v
  <2> QED
    BY <1>1, <1>3, <1>6, <1>7, <1>8
<1>10. RootsOf(f) = PlacesOf(e)
  BY <1>5, <1>7, <1>9, FS_Subset
<1>11. Roots(IndexForm(f)) = RootsOf(f)
  <2>1. ASSUME NEW x \in 1..nn PROVE ValueAt(IndexForm(f), 0..d, x) = Value(f, x)
    <3>1. x \in Nat
      OBVIOUS
    <3> QED
      BY <1>1, <1>2, <3>1, ValueAtIs
  <2> QED
    BY <2>1 DEF Roots, RootsOf, d
<1>12. \A i \in 0..nroots : i > v => f[i] = {}
  BY <1>2, <1>9
<1> QED
  BY <1>1, <1>9, <1>10, <1>11, <1>12 DEF d


-----------------------------------------------------------------------------
(* Forney's formula.                                                         *)

\* The quotient by one place's root is zero at the roots of the other places,
LEMMA OtherPlaces ==
  ASSUME NEW f \in Polynomial, NEW a \in 0..nn-1, NEW b \in 0..nn-1, a # b,
         Value(f, nn - a) = {}, Value(f, nn - b) = {}
  PROVE  Value(Quot(f, a), nn - b) = {}
<1> DEFINE y == nn - b
           m == Xor({0}, power[a + y])
           v == Value(Quot(f, a), y)
<1>1. y \in 1..nn /\ y \in Nat /\ y # nn - a /\ v \in Symbol
  BY Sizes, ValueType
<1>2. m \in Symbol /\ m # {}
  BY <1>1, OwnRoot
<1>3. Value(f, y) = Times(m, v)
  BY <1>1, QuotValue
<1> HIDE DEF m, v
<1>4. m = {} \/ v = {}
  BY <1>1, <1>2, <1>3, TimesZero
<1> QED
  BY <1>2, <1>4 DEF v

\* and not at its own, as there would be too many.
LEMMA OwnPlace ==
  ASSUME NEW f \in Polynomial, f[0] # {}, NEW d \in 1..nroots,
         \A i \in 0..nroots : i > d => f[i] = {}, Cardinality(RootsOf(f)) = d,
         NEW b \in 0..nn-1, Value(f, nn - b) = {}
  PROVE  Value(Quot(f, b), nn - b) # {}
<1> SUFFICES ASSUME Value(Quot(f, b), nn - b) = {} PROVE FALSE
  OBVIOUS
<1> DEFINE Q == Quot(f, b)
<1>1. nroots \in Nat /\ nn \in Nat /\ d \in Nat
  BY Sizes
<1>2. Q \in Polynomial /\ Q[0] = f[0]
  BY QuotType
<1>3. ASSUME NEW i \in 0..nroots, i > d - 1 PROVE Q[i] = {}
  <2>1. \A k \in 0..nroots : k > i => f[k] = {}
    BY <1>1, <1>3
  <2> QED
    BY <2>1, QuotDegree
<1>4. RootsOf(f) \subseteq RootsOf(Q)
  <2> SUFFICES ASSUME NEW y \in 1..nn, Value(f, y) = {} PROVE Value(Q, y) = {}
    BY DEF RootsOf
  <2> DEFINE a == nn - y
  <2>1. a \in 0..nn-1 /\ nn - a = y
    BY <1>1
  <2> HIDE DEF a
  <2>2. Value(f, nn - a) = {}
    BY <2>1
  <2>3. a # b => Value(Q, nn - a) = {}
    BY <2>1, <2>2, OtherPlaces
  <2> QED
    BY <2>1, <2>3
<1>5. Cardinality(RootsOf(Q)) > d - 1
  <2> HIDE DEF Q
  <2>1. IsFiniteSet(RootsOf(Q)) /\ Cardinality(RootsOf(Q)) \in Nat
    BY RootsFinite
  <2>2. Cardinality(RootsOf(f)) <= Cardinality(RootsOf(Q))
    BY <1>4, <2>1, FS_Subset
  <2> QED
    BY <1>1, <2>1, <2>2
<1>6. FewRoots(d - 1)
  <2>1. d - 1 \in Nat /\ d - 1 <= nroots
    BY <1>1
  <2> QED
    BY <2>1, RootBound
<1>7. \A i \in 0..nroots : Q[i] = {}
  <2>1. \A i \in 0..nroots : i > d - 1 => Q[i] = {}
    BY <1>3
  <2> HIDE DEF Q
  <2> QED
    BY <1>2, <1>5, <1>6, <2>1 DEF FewRoots
<1>8. 0 \in 0..nroots
  BY <1>1
<1> QED
  BY <1>2, <1>7, <1>8

\* The coefficients of the error evaluator,
LEMMA OmegaIs ==
  ASSUME NEW f \in Polynomial, NEW s \in SyndromeIndices, NEW i \in 0..nroots-1
  PROVE  /\ XorAll(0..i, LAMBDA j : Product(s[i - j], IndexForm(f)[j])) = Conv(IndexForm(f), s, i)
         /\ Conv(IndexForm(f), s, i) \in Symbol
<1> DEFINE F == [j \in 0..i |-> Product(s[i - j], IndexForm(f)[j])]
           G == [j \in 0..i |-> Product(IndexForm(f)[j], s[i - j])]
<1>1. ASSUME NEW j \in 0..i PROVE F[j] = G[j]
  <2>1. IndexForm(f)[j] \in Indices /\ s[i - j] \in Indices
    BY IndexFormType, TermType
  <2> QED
    BY <2>1, ProductFacts
<1>2. XorSum(i, F) = XorSum(i, G)
  <2> HIDE DEF F, G
  <2> QED
    BY <1>1, SumSame
<1>3. XorAll(0..i, LAMBDA j : Product(s[i - j], IndexForm(f)[j])) = XorSum(i, F)
  BY DEF XorAll, XorSum
<1> QED
  BY <1>2, <1>3, SumType DEF Conv

\* whose value at a place's root has a part from that place only.
LEMMA EvaluatorIs ==
  ASSUME NEW e, NEW s, SyndromesOf(e, s), NEW f \in Polynomial, NEW d \in 1..nroots,
         \A i \in 0..nroots : i > d => f[i] = {},
         \A a \in Support(e) : Value(f, nn - a) = {}, NEW b \in 0..nn-1, Value(f, nn - b) = {}
  PROVE  XorSum(d - 1, [i \in 0..(d - 1) |-> Times(Conv(IndexForm(f), s, i), power[i * (nn - b)])])
           = Times(e[b], Value(Quot(f, b), nn - b))
<1> DEFINE y == nn - b
           n == d - 1
           C(i) == Conv(IndexForm(f), s, i)
           t == [i \in 0..n |-> [a \in 0..nn-1 |-> Times(power[i * y], Times(e[a], Leading(f, i, a)))]]
           A == [i \in 0..n |-> XorSum(nn - 1, t[i])]
           B == [a \in 0..nn-1 |-> XorSum(n, [i \in 0..n |-> t[i][a]])]
           G == [i \in 0..n |-> Times(C(i), power[i * y])]
<1>1. /\ nroots \in Nat /\ nn \in Nat /\ nn - 1 \in Nat /\ n \in Nat /\ b \in 0..nn-1 /\ y \in Nat
      /\ e \in Vector /\ n < nroots /\ n + 1 = d
  BY Sizes DEF Support, SyndromesOf
<1>2. ASSUME NEW i \in 0..n
      PROVE  i \in Nat /\ i \in 0..nroots /\ i \in 0..nroots-1 /\ power[i * y] \in Symbol /\ C(i) \in Symbol
  <2>1. i \in Nat /\ i \in 0..nroots /\ i \in 0..nroots-1
    BY <1>1
  <2>2. power[i * y] \in Symbol
    BY <1>1, <2>1, Exponents, PowerFacts
  <2>3. C(i) \in Symbol
    BY SumType DEF Conv
  <2> QED
    BY <2>1, <2>2, <2>3
<1>3. ASSUME NEW i \in 0..n, NEW a \in 0..nn-1
      PROVE  /\ e[a] \in Symbol /\ Leading(f, i, a) \in Symbol /\ Times(e[a], Leading(f, i, a)) \in Symbol
             /\ Times(power[i * y], Times(e[a], Leading(f, i, a))) \in Symbol
  <2>1. e[a] \in Symbol /\ Leading(f, i, a) \in Symbol
    BY <1>1, SumType DEF Vector, Leading
  <2> QED
    BY <1>2, <2>1, TimesType
<1>4. t \in [0..n -> [0..nn-1 -> Symbol]]
  BY <1>3
<1>5. ASSUME NEW i \in 0..n PROVE A[i] = G[i]
  <2> DEFINE x == power[i * y]
             h == [a \in 0..nn-1 |-> Times(e[a], Leading(f, i, a))]
             z == [a \in 0..nn-1 |-> Times(x, h[a])]
  <2>1. \A a \in 0..nn-1 : h[a] \in Symbol /\ z[a] = Times(x, h[a])
    BY <1>3
  <2>2. x \in Symbol
    BY <1>2
  <2>3. XorSum(nn - 1, z) = Times(x, XorSum(nn - 1, h))
    <3> HIDE DEF x, h, z
    <3> QED
      BY <1>1, <2>1, <2>2, SumTimes
  <2>4. C(i) = XorSum(nn - 1, h)
    BY <1>2, ConvIs
  <2>5. A[i] = XorSum(nn - 1, z)
    OBVIOUS
  <2>6. G[i] = Times(C(i), x)
    OBVIOUS
  <2>7. C(i) \in Symbol
    BY <1>2
  <2> HIDE DEF A, G, x, h, z, C
  <2> QED
    BY <2>2, <2>3, <2>4, <2>5, <2>6, <2>7, TimesLaws
<1>6. ASSUME NEW a \in 0..nn-1
      PROVE  B[a] = Times(e[a], XorSum(n, [i \in 0..n |-> Times(Leading(f, i, a), power[i * y])]))
  <2> DEFINE u == e[a]
             h == [i \in 0..n |-> Times(Leading(f, i, a), power[i * y])]
             z == [i \in 0..n |-> t[i][a]]
  <2>1. u \in Symbol
    BY <1>1 DEF Vector
  <2>2. ASSUME NEW i \in 0..n PROVE h[i] \in Symbol /\ z[i] = Times(u, h[i])
    <3> DEFINE p == power[i * y]   x == Leading(f, i, a)
    <3>1. p \in Symbol /\ x \in Symbol
      BY <1>2, <1>3
    <3>2. h[i] = Times(x, p) /\ z[i] = Times(p, Times(u, x))
      OBVIOUS
    <3> HIDE DEF p, x, u, h, z
    <3>3. Times(p, Times(u, x)) = Times(u, Times(x, p))
      BY <2>1, <3>1, TimesTurned
    <3>4. Times(x, p) \in Symbol
      BY <3>1, TimesType
    <3> QED
      BY <3>2, <3>3, <3>4
  <2>3. XorSum(n, z) = Times(u, XorSum(n, h))
    <3>1. \A i \in 0..n : h[i] \in Symbol /\ z[i] = Times(u, h[i])
      BY <2>2
    <3> HIDE DEF u, h, z
    <3> QED
      BY <1>1, <2>1, <3>1, SumTimes
  <2> QED
    BY <2>3
<1>7. ASSUME NEW a \in 0..nn-1, Value(f, nn - a) = {}
      PROVE  XorSum(n, [i \in 0..n |-> Times(Leading(f, i, a), power[i * y])]) = Value(Quot(f, a), y)
  <2> DEFINE h == [i \in 0..n |-> Times(Leading(f, i, a), power[i * y])]
             L == [i \in 0..nroots |-> Times(Quot(f, a)[i], power[i * y])]
  <2>2. ASSUME NEW i \in 0..n PROVE h[i] = L[i]
    <3>1. i \in 0..nroots
      BY <1>2
    <3> QED
      BY <3>1, QuotType
  <2>3. ASSUME NEW i \in (n + 1)..nroots PROVE L[i] = {}
    <3>1. i \in 0..nroots /\ i \in Nat /\ \A k \in 0..nroots : k > i => f[k] = {}
      BY <1>1
    <3>2. Quot(f, a)[i] = {}
      BY <1>7, <3>1, QuotDegree
    <3>3. power[i * y] \in Symbol
      BY <1>1, <3>1, Exponents, PowerFacts
    <3> QED
      BY <3>1, <3>2, <3>3, TimesLaws
  <2> HIDE DEF h, L, n, y
  <2>4. XorSum(n, h) = XorSum(n, L)
    BY <2>2, SumSame
  <2>5. XorSum(nroots, L) = XorSum(n, L)
    <3>1. n <= nroots
      BY <1>1
    <3> QED
      BY <1>1, <2>3, <3>1, SumTail
  <2> QED
    BY <2>4, <2>5 DEF Value, h, L
<1>8. ASSUME NEW a \in 0..nn-1, a # b PROVE B[a] = {}
  <2>1. CASE a \in Support(e)
    <3>1. Value(Quot(f, a), y) = {}
      BY <1>1, <1>8, <2>1, OtherPlaces
    <3>2. B[a] = Times(e[a], {})
      <4> HIDE DEF B, n, y
      <4> QED
        BY <1>6, <1>7, <2>1, <3>1
    <3>3. e[a] \in Symbol
      BY <1>1 DEF Vector
    <3> HIDE DEF B
    <3> QED
      BY <3>2, <3>3, TimesLaws
  <2>2. CASE a \notin Support(e)
    <3>1. e[a] = {}
      BY <2>2 DEF Support
    <3>2. XorSum(n, [i \in 0..n |-> Times(Leading(f, i, a), power[i * y])]) \in Symbol
      BY SumType
    <3> HIDE DEF B, n, y
    <3> QED
      BY <1>6, <3>1, <3>2, TimesLaws
  <2> QED
    BY <2>1, <2>2
<1>9. B[b] = Times(e[b], Value(Quot(f, b), y)) /\ B[b] \in Symbol
  <2>1. B[b] \in Symbol
    BY <1>1, SumType
  <2> HIDE DEF B, n, y
  <2> QED
    BY <1>1, <1>6, <1>7, <2>1
<1>10. XorSum(n, A) = XorSum(nn - 1, B)
  <2> HIDE DEF t, n
  <2> QED
    BY <1>1, <1>4, SumSwap
<1> HIDE DEF A, B, G, t
<1>11. XorSum(nn - 1, B) = B[b]
  BY <1>1, <1>8, <1>9, SumAlone
<1>12. XorSum(n, A) = XorSum(n, G)
  <2> HIDE DEF n
  <2> QED
    BY <1>5, SumSame
<1> QED
  BY <1>9, <1>10, <1>11, <1>12 DEF G

\* The formal derivative of the locator, at a place's root: the locator's odd coefficients are
\* each the quotient's two around it.
LEMMA DerivativeIs ==
  ASSUME NEW f \in Polynomial, NEW b \in 0..nn-1, Value(f, nn - b) = {}, NEW d \in 0..nroots,
         \A i \in 0..nroots : i > d => f[i] = {},
         NEW even, even = {i \in 0..(IF d <= nroots - 1 THEN d ELSE nroots - 1) : i % 2 = 0}
  PROVE  ValueAt([i \in even |-> IndexForm(f)[i + 1]], even, nn - b)
           = Times(power[b], Value(Quot(f, b), nn - b))
<1> DEFINE y == nn - b
           c == power[b]
           Q == Quot(f, b)
           q == [j \in 0..nroots |-> Times(Q[j], power[j * y])]
           D == [i \in 0..nroots-1 |-> IF i % 2 = 0 THEN Times(f[i + 1], power[i * y]) ELSE {}]
           poly == [i \in even |-> IndexForm(f)[i + 1]]
           E(i) == IF poly[i] = nn THEN {} ELSE Power(poly[i] + i * y)
           m == nroots - 1
<1>1. /\ nroots \in Nat /\ nroots >= 1 /\ nn \in Nat /\ b \in Nat /\ y \in Nat /\ b + y = nn
      /\ d \in Nat /\ m \in Nat /\ m + 1 = nroots
  BY Sizes
<1>2. c \in Symbol /\ Q \in Polynomial
  BY <1>1, PowerFacts, QuotType
<1>3. ASSUME NEW j \in 0..nroots
      PROVE  /\ j \in Nat /\ j * y \in Nat /\ power[j * y] \in Symbol /\ f[j] \in Symbol
             /\ Q[j] \in Symbol /\ q[j] \in Symbol
  <2>1. Q[j] \in Symbol /\ q[j] \in Symbol
    <3> HIDE DEF Q
    <3> QED
      BY <1>1, <1>2, ValueTerm
  <2> QED
    BY <1>1, <2>1, ValueTerm
<1>4. \A i \in 0..m : i \in 0..nroots /\ i + 1 \in 0..nroots /\ i \in Nat
  BY <1>1
<1>5. ASSUME NEW i \in 0..m, i % 2 = 0 PROVE D[i] = Times(c, Xor(q[i], q[i + 1]))
  <2> DEFINE p == power[i * y]
             u == Q[i]
             w == Q[i + 1]
             z == power[(i + 1) * y]
  <2>1. /\ i \in 0..nroots /\ i + 1 \in 0..nroots /\ i \in Nat /\ p \in Symbol /\ u \in Symbol
        /\ w \in Symbol /\ z \in Symbol /\ i * y \in Nat /\ (i + 1) * y \in Nat
    BY <1>3, <1>4
  <2>2. Times(c, z) = p
    <3>1. b + (i + 1) * y = i * y + nn * 1
      <4>1. (i + 1) * y = i * y + y
        BY <1>1, <2>1
      <4> DEFINE x == i * y
      <4>2. x \in Nat
        BY <2>1
      <4> HIDE DEF x, y
      <4>3. b + (x + y) = x + nn * 1
        BY <1>1, <4>2
      <4> QED
        BY <4>1, <4>3 DEF x
    <3>2. power[i * y + nn * 1] = p
      BY <2>1, PowersPeriod
    <3>3. power[b + (i + 1) * y] = Times(power[b], power[(i + 1) * y])
      BY <1>1, <2>1, PowerFacts
    <3> QED
      BY <3>1, <3>2, <3>3
  <2>3. f[i + 1] = Xor(w, Times(c, u))
    <3>1. i \in 0..nroots-1
      OBVIOUS
    <3> QED
      BY <3>1, QuotType
  <2>4. D[i] = Times(Xor(w, Times(c, u)), p)
    BY <1>5, <2>3
  <2>5. q[i] = Times(u, p) /\ q[i + 1] = Times(w, z)
    BY <2>1
  <2> HIDE DEF p, u, w, z, c, Q, q, D
  <2>6. Times(Xor(w, Times(c, u)), p) = Times(c, Xor(Times(u, p), Times(w, z)))
    <3>1. Times(c, u) \in Symbol /\ Times(u, p) \in Symbol /\ Times(w, z) \in Symbol
      BY <1>2, <2>1, TimesType
    <3>2. Times(Xor(w, Times(c, u)), p) = Xor(Times(w, p), Times(Times(c, u), p))
      BY <2>1, <3>1, TimesDistributive
    <3>3. Times(c, Xor(Times(u, p), Times(w, z))) = Xor(Times(c, Times(u, p)), Times(c, Times(w, z)))
      BY <1>2, <3>1, TimesDistributive
    <3>4. Times(Times(c, u), p) = Times(c, Times(u, p))
      BY <1>2, <2>1, TimesAssociative
    <3>5. Times(c, Times(w, z)) = Times(w, p)
      <4>1. Times(c, Times(w, z)) = Times(z, Times(c, w)) /\ Times(w, Times(c, z)) = Times(z, Times(w, c))
        BY <1>2, <2>1, TimesTurned
      <4>2. Times(c, w) = Times(w, c)
        BY <1>2, <2>1, TimesLaws
      <4> QED
        BY <2>2, <4>1, <4>2
    <3> QED
      BY <3>2, <3>3, <3>4, <3>5, XorLaws
  <2> QED
    BY <2>4, <2>5, <2>6
<1>6. ASSUME NEW i \in 0..m, i % 2 # 0 PROVE D[i] = {}
  BY <1>6
<1>7. ASSUME NEW i \in 0..m PROVE D[i] \in Symbol
  <2>1. i % 2 = 0 => D[i] \in Symbol
    <3>1. f[i + 1] \in Symbol /\ power[i * y] \in Symbol
      BY <1>3, <1>4
    <3> QED
      BY <3>1, TimesType
  <2> QED
    BY <1>6, <2>1, Zero
<1>8. ValueAt(poly, even, y) = XorSum(m, D)
  <2>1. \A i \in even : i \in 0..m /\ i % 2 = 0 /\ i <= d
    BY <1>1
  <2>2. ASSUME NEW i \in even PROVE E(i) = D[i]
    <3>1. i \in 0..m /\ i + 1 \in 0..nroots /\ i % 2 = 0
      BY <1>4, <2>1
    <3>2. f[i + 1] \in Symbol /\ i * y \in Nat /\ poly[i] = index_of[f[i + 1]]
      BY <1>3, <1>4, <3>1 DEF IndexForm
    <3>3. (IF index_of[f[i + 1]] = nn THEN {} ELSE Power(index_of[f[i + 1]] + i * y))
            = Times(f[i + 1], power[i * y])
      <4> DEFINE j == i * y   x == f[i + 1]
      <4>1. j \in Nat /\ x \in Symbol
        BY <3>2
      <4> HIDE DEF j, x
      <4>2. (IF index_of[x] = nn THEN {} ELSE Power(index_of[x] + j)) = Times(x, power[j])
        BY <4>1, TermAt
      <4> QED
        BY <4>2 DEF j, x
    <3>4. E(i) = Times(f[i + 1], power[i * y])
      BY <3>2, <3>3
    <3> QED
      BY <3>1, <3>4
  <2>3. ASSUME NEW i \in 0..m, i \notin even PROVE D[i] = {}
    <3>1. CASE i % 2 # 0
      BY <1>6, <3>1
    <3>2. CASE i % 2 = 0
      <4>1. i > d
        BY <1>1, <2>3, <3>2
      <4>2. f[i + 1] = {} /\ power[i * y] \in Symbol
        BY <1>1, <1>3, <1>4, <4>1
      <4> QED
        BY <3>2, <4>2, TimesLaws
    <3> QED
      BY <3>1, <3>2
  <2> DEFINE F(i) == E(i)
  <2>4. ValueAt(poly, even, y) = XorAll(even, LAMBDA i : E(i))
    BY DEF ValueAt
  <2> HIDE DEF E, D
  <2>5. ASSUME NEW bit PROVE {i \in even : bit \in E(i)} = {i \in 0..m : bit \in D[i]}
    BY <2>1, <2>2, <2>3
  <2> QED
    BY <2>4, <2>5 DEF XorAll, XorSum
<1> DEFINE next(n) == IF n % 2 = 0 THEN n + 1 ELSE n
           T == {n \in Nat : n <= m => XorSum(n, D) = Times(c, XorSum(next(n), q))}
<1> HIDE DEF c, q, D, m, poly, E, Q, y
<1>9. ASSUME NEW n \in Nat, n <= m
      PROVE  /\ n \in 0..m /\ n \in 0..nroots /\ n + 1 \in 0..nroots
             /\ XorSum(n + 1, q) = Xor(XorSum(n, q), q[n + 1]) /\ XorSum(n, q) \in Symbol
             /\ q[n] \in Symbol /\ q[n + 1] \in Symbol
  <2>1. n \in 0..m /\ n \in 0..nroots /\ n + 1 \in 0..nroots
    BY <1>1, <1>9
  <2>2. q[n] \in Symbol /\ q[n + 1] \in Symbol
    BY <1>3, <2>1
  <2>3. XorSum(n + 1, q) = Xor(XorSum(n, q), q[n + 1])
    BY <2>2, SumNext
  <2> QED
    BY <2>1, <2>2, <2>3, SumType
<1>10. 0 \in T
  <2> SUFFICES XorSum(0, D) = Times(c, XorSum(next(0), q))
    OBVIOUS
  <2>1. 0 <= m /\ 0 \in 0..m /\ 0 % 2 = 0 /\ next(0) = 0 + 1
    BY <1>1
  <2>2. XorSum(0 + 1, q) = Xor(XorSum(0, q), q[0 + 1]) /\ q[0] \in Symbol
    BY <1>9, <2>1
  <2>3. XorSum(0, q) = q[0]
    BY <2>2, SumFirst
  <2>4. XorSum(0, D) = D[0]
    BY <1>7, <2>1, SumFirst
  <2>5. D[0] = Times(c, Xor(q[0], q[0 + 1]))
    BY <1>5, <2>1
  <2> QED
    BY <2>1, <2>2, <2>3, <2>4, <2>5
<1>11. ASSUME NEW n \in T PROVE n + 1 \in T
  <2> SUFFICES ASSUME n + 1 <= m
               PROVE  XorSum(n + 1, D) = Times(c, XorSum(next(n + 1), q))
    OBVIOUS
  <2>1. n \in Nat /\ n <= m /\ n + 1 \in Nat /\ n + 1 \in 0..m
    BY <1>1
  <2>2. XorSum(n, D) = Times(c, XorSum(next(n), q))
    BY <2>1
  <2>3. XorSum(n + 1, D) = Xor(XorSum(n, D), D[n + 1])
    BY <1>7, <2>1, SumNext
  <2>4. ASSUME n % 2 = 0 PROVE XorSum(n + 1, D) = Times(c, XorSum(next(n + 1), q))
    <3>1. (n + 1) % 2 # 0 /\ next(n + 1) = n + 1 /\ next(n) = n + 1
      BY <2>1, <2>4
    <3>2. D[n + 1] = {}
      BY <1>6, <2>1, <3>1
    <3> QED
      BY <2>2, <2>3, <3>1, <3>2, XorLaws
  <2>5. ASSUME n % 2 # 0 PROVE XorSum(n + 1, D) = Times(c, XorSum(next(n + 1), q))
    <3>1. (n + 1) % 2 = 0 /\ next(n + 1) = (n + 1) + 1 /\ next(n) = n
      BY <2>1, <2>5
    <3>2. D[n + 1] = Times(c, Xor(q[n + 1], q[(n + 1) + 1]))
      BY <1>5, <2>1, <3>1
    <3> DEFINE x == XorSum(n, q)   g == q[n + 1]   h == q[(n + 1) + 1]
    <3>3. x \in Symbol /\ g \in Symbol /\ h \in Symbol
      BY <1>9, <2>1
    <3>4. XorSum((n + 1) + 1, q) = Xor(Xor(x, g), h)
      BY <1>9, <2>1
    <3>5. XorSum(n + 1, D) = Xor(Times(c, x), Times(c, Xor(g, h)))
      BY <2>2, <2>3, <3>1, <3>2
    <3> HIDE DEF x, g, h
    <3>6. Xor(Times(c, x), Times(c, Xor(g, h))) = Times(c, Xor(Xor(x, g), h))
      <4>1. Xor(g, h) \in Symbol
        BY <3>3, XorType
      <4>2. Times(c, Xor(x, Xor(g, h))) = Xor(Times(c, x), Times(c, Xor(g, h)))
        BY <1>2, <3>3, <4>1, TimesDistributive
      <4> QED
        BY <4>2, XorLaws
    <3> QED
      BY <3>1, <3>4, <3>5, <3>6
  <2> QED
    BY <2>4, <2>5
<1>12. T = Nat
  <2>1. T \in SUBSET Nat
    OBVIOUS
  <2> HIDE DEF T
  <2> QED
    BY <1>10, <1>11, <2>1, Everything
<1>13. XorSum(m, D) = Times(c, XorSum(next(m), q))
  <2>1. m \in T /\ m <= m
    BY <1>1, <1>12
  <2> HIDE DEF next
  <2> QED
    BY <2>1
<1>14. XorSum(nroots, q) = XorSum(next(m), q)
  <2>1. ASSUME m % 2 = 0 PROVE XorSum(nroots, q) = XorSum(next(m), q)
    BY <1>1, <2>1
  <2>2. ASSUME m % 2 # 0 PROVE XorSum(nroots, q) = XorSum(next(m), q)
    <3>1. q[m + 1] = {}
      <4>1. nroots \in 0..nroots /\ \A i \in 0..nroots : i > nroots => f[i] = {}
        BY <1>1
      <4>2. Q[nroots] = {}
        BY <4>1, QuotDegree DEF Q
      <4>3. power[nroots * y] \in Symbol
        BY <1>3, <4>1
      <4>4. q[nroots] = Times(Q[nroots], power[nroots * y])
        BY <4>1 DEF q
      <4> QED
        BY <1>1, <4>2, <4>3, <4>4, TimesLaws
    <3>2. XorSum(m + 1, q) = Xor(XorSum(m, q), q[m + 1])
      <4>1. m <= m
        BY <1>1
      <4> QED
        BY <1>1, <1>9, <4>1
    <3>3. next(m) = m
      BY <2>2
    <3> QED
      BY <1>1, <3>1, <3>2, <3>3, XorLaws
  <2> QED
    BY <2>1, <2>2
<1> QED
  BY <1>8, <1>13, <1>14 DEF Value, q, c, Q, y, poly

\* Forney's formula divides by the derivative: if v times the quotient's value is the evaluator's,
\* its value is v.
LEMMA ForneyIs ==
  ASSUME NEW s \in SyndromeIndices, NEW f \in Polynomial, f[0] # {},
         NEW d \in 1..nroots, d = Degree(IndexForm(f)), Cardinality(RootsOf(f)) = d,
         NEW b \in 0..nn-1, Value(f, nn - b) = {}, NEW v \in Symbol,
         XorSum(d - 1, [i \in 0..(d - 1) |-> Times(Conv(IndexForm(f), s, i), power[i * (nn - b)])])
           = Times(v, Value(Quot(f, b), nn - b))
  PROVE  ErrorValue(IndexForm(f), s, nn - b) = v
<1> DEFINE root == nn - b
           lambda == IndexForm(f)
           deg == Degree(lambda)
           omega == [i \in 0..deg-1 |-> index_of[XorAll(0..i, LAMBDA j : Product(s[i - j], lambda[j]))]]
           num1 == ValueAt(omega, 0..deg-1, root)
           num2 == Power(nn - root)
           even == {i \in 0..(IF deg <= nroots - 1 THEN deg ELSE nroots - 1) : i % 2 = 0}
           den == ValueAt([i \in even |-> lambda[i + 1]], even, root)
           W == Value(Quot(f, b), root)
<1>1. /\ nroots \in Nat /\ nn \in Nat /\ b \in Nat /\ root \in Nat /\ nn - root = b
  BY Sizes
<1>2. deg \in 1..nroots /\ \A i \in 0..nroots : i > deg => f[i] = {}
  BY DegreeFacts
<1>3. W # {} /\ W \in Symbol
  <2> HIDE DEF deg
  <2>1. Value(Quot(f, b), nn - b) # {}
    BY <1>2, OwnPlace DEF deg
  <2> QED
    BY <2>1, ValueType
<1>4. ErrorValue(lambda, s, root)
        = IF num1 = {} THEN {} ELSE Power(index_of[num1] + index_of[num2] + nn - index_of[den])
  BY DEF ErrorValue
<1>5. num1 = Times(v, W)
  <2> DEFINE G == [i \in 0..(deg - 1) |-> Times(Conv(lambda, s, i), power[i * root])]
             H == [i \in 0..(deg - 1) |-> IF omega[i] = nn THEN {} ELSE Power(omega[i] + i * root)]
  <2>1. num1 = XorSum(deg - 1, H)
    BY DEF ValueAt, XorAll, XorSum
  <2>2. ASSUME NEW i \in 0..(deg - 1) PROVE H[i] = G[i]
    <3> DEFINE x == Conv(lambda, s, i)   j == i * root
    <3>1. i \in 0..nroots-1 /\ i \in Nat
      BY <1>1, <1>2
    <3>2. omega[i] = index_of[x] /\ x \in Symbol
      BY <1>1, <3>1, OmegaIs
    <3>3. j \in Nat
      BY <1>1, <3>1, Exponents
    <3> HIDE DEF omega, x, j
    <3>4. (IF index_of[x] = nn THEN {} ELSE Power(index_of[x] + j)) = Times(x, power[j])
      BY <3>2, <3>3, TermAt
    <3> QED
      BY <3>2, <3>4 DEF x, j
  <2>3. XorSum(deg - 1, H) = XorSum(deg - 1, G)
    <3> HIDE DEF H, G
    <3> QED
      BY <2>2, SumSame
  <2>4. XorSum(deg - 1, G) = Times(v, W)
    OBVIOUS
  <2> QED
    BY <2>1, <2>3, <2>4
<1>6. num2 = power[b] /\ power[b] \in Symbol /\ power[b] # {}
  BY <1>1, PowerIs, PowerFacts
<1>7. den = Times(power[b], W)
  <2>1. deg \in 0..nroots
    BY <1>1, <1>2
  <2> HIDE DEF deg, even
  <2>2. even = {i \in 0..(IF deg <= nroots - 1 THEN deg ELSE nroots - 1) : i % 2 = 0}
    BY DEF even
  <2> QED
    BY <1>1, <1>2, <2>1, <2>2, DerivativeIs
<1> HIDE DEF num1, num2, den, W, root, lambda
<1>8. CASE v = {}
  BY <1>3, <1>4, <1>5, <1>8, TimesLaws DEF lambda, root
<1> SUFFICES ASSUME v # {} PROVE ErrorValue(lambda, s, root) = v
  BY <1>8 DEF lambda, root
<1>9. num1 \in Symbol /\ num1 # {} /\ den \in Symbol /\ den # {}
  BY <1>3, <1>5, <1>6, <1>7, TimesType, TimesZero
<1> DEFINE x == index_of[num1]   y == index_of[num2]   z == index_of[den]
<1>10. /\ x \in 0..nn-1 /\ y \in 0..nn-1 /\ z \in 0..nn-1
       /\ power[x] = num1 /\ power[y] = num2 /\ power[z] = den
  <2>1. ASSUME NEW u \in Symbol, u # {} PROVE index_of[u] \in 0..nn-1 /\ power[index_of[u]] = u
    <3> DEFINE i == index_of[u]
    <3>1. i \in Indices /\ i # nn /\ alpha_to[i] = u
      BY <2>1, IndexFacts
    <3> HIDE DEF i
    <3>2. i \in 0..nn-1 /\ i \in 0..nn
      BY <1>1, <3>1 DEF Indices
    <3>3. alpha_to[i] = power[i]
      BY <3>1, <3>2 DEF alpha_to
    <3> QED
      BY <3>1, <3>2, <3>3 DEF i
  <2>2. num2 \in Symbol /\ num2 # {}
    BY <1>6
  <2> QED
    BY <1>9, <2>1, <2>2
<1> HIDE DEF x, y, z
<1>11. Power(x + y + nn - z) = v
  <2> DEFINE w == x + y + nn - z
  <2>1. x \in Nat /\ y \in Nat /\ z \in Nat /\ w \in Nat /\ w + z = (x + y) + nn * 1 /\ x + y \in Nat
    BY <1>1, <1>10
  <2> HIDE DEF w
  <2>2. Power(w) = power[w] /\ power[w] \in Symbol
    BY <2>1, PowerIs, PowerFacts
  <2>3. power[w + z] = Times(power[w], power[z]) /\ power[x + y] = Times(power[x], power[y])
    BY <2>1, PowerFacts
  <2>4. power[(x + y) + nn * 1] = power[x + y]
    BY <2>1, PowersPeriod
  <2>5. Times(power[w], den) = Times(num1, num2)
    BY <1>10, <2>1, <2>3, <2>4
  <2>6. Times(num1, num2) = Times(v, den)
    <3>1. Times(Times(v, W), power[b]) = Times(v, Times(W, power[b]))
      BY <1>1, <1>3, <1>6, TimesAssociative
    <3>2. Times(W, power[b]) = Times(power[b], W)
      BY <1>3, <1>6, TimesLaws
    <3> QED
      BY <1>5, <1>6, <1>7, <3>1, <3>2
  <2>7. power[w] = v
    BY <1>1, <1>9, <2>2, <2>5, <2>6, TimesCancel
  <2> QED
    BY <2>2, <2>7 DEF w
<1> QED
  BY <1>4, <1>9, <1>11 DEF x, y, z, lambda, root

\* With the places of the errors, as a locator that is as short as can be has them, it is the
\* errors.
LEMMA ErrorIs ==
  ASSUME NEW e, NEW s, SyndromesOf(e, s), NEW f \in Polynomial, f[0] # {},
         Degree(IndexForm(f)) = Cardinality(Support(e)), Cardinality(Support(e)) <= nroots,
         RootsOf(f) = PlacesOf(e), NEW b \in Support(e)
  PROVE  ErrorValue(IndexForm(f), s, nn - b) = e[b]
<1> DEFINE d == Degree(IndexForm(f))
<1>1. d \in 1..nroots /\ \A i \in 0..nroots : i > d => f[i] = {}
  <2>1. Cardinality(Support(e)) # 0 /\ Cardinality(Support(e)) \in Nat /\ nroots \in Nat
    BY Sizes, SupportFinite, FS_EmptySet
  <2>2. \A i \in 0..nroots : i > d => f[i] = {}
    BY DegreeFacts
  <2> QED
    BY <2>1, <2>2
<1>2. Cardinality(RootsOf(f)) = d
  BY PlacesFacts
<1>3. \A a \in Support(e) : Value(f, nn - a) = {}
  BY DEF RootsOf, PlacesOf
<1>4. b \in 0..nn-1 /\ s \in SyndromeIndices /\ e[b] \in Symbol
  BY DEF Support, SyndromesOf, Vector
<1> HIDE DEF d
<1>5. XorSum(d - 1, [i \in 0..(d - 1) |-> Times(Conv(IndexForm(f), s, i), power[i * (nn - b)])])
        = Times(e[b], Value(Quot(f, b), nn - b))
  BY <1>1, <1>3, <1>4, EvaluatorIs
<1>6. d = Degree(IndexForm(f))
  BY DEF d
<1> QED
  BY <1>1, <1>2, <1>3, <1>4, <1>5, <1>6, ForneyIs


-----------------------------------------------------------------------------
(* The decoder as a whole.                                                   *)

\* How a word differs from another, by exponents.
Difference(w, u) == [a \in 0..nn-1 |-> Xor(w[nn - 1 - a], u[nn - 1 - a])]

\* Where it differs, by position in the word.
Differing(w, u) == {i \in 0..nn-1 : w[i] # u[i]}

\* Position i has the exponent nn - 1 - i.
LEMMA DifferenceFacts ==
  ASSUME NEW w \in [0..nn-1 -> Symbol], NEW u \in [0..nn-1 -> Symbol]
  PROVE  /\ Difference(w, u) \in Vector
         /\ \A i \in 0..nn-1 : /\ nn - 1 - i \in 0..nn-1
                               /\ Difference(w, u)[nn - 1 - i] = Xor(w[i], u[i])
                               /\ nn - 1 - i \in Support(Difference(w, u)) <=> i \in Differing(w, u)
         /\ Cardinality(Support(Difference(w, u))) = Cardinality(Differing(w, u))
<1> DEFINE e == Difference(w, u)
           S == Support(e)
           D == Differing(w, u)
<1>1. nn \in Nat /\ nn - 1 \in Int
  BY Sizes
<1>2. \A i \in 0..nn-1 : nn - 1 - i \in 0..nn-1 /\ nn - 1 - (nn - 1 - i) = i
  BY <1>1
<1>3. e \in Vector
  <2>1. \A a \in 0..nn-1 : Xor(w[nn - 1 - a], u[nn - 1 - a]) \in Symbol
    BY <1>2, XorType
  <2> QED
    BY <2>1 DEF Difference, Vector
<1>4. ASSUME NEW i \in 0..nn-1 PROVE e[nn - 1 - i] = Xor(w[i], u[i])
  BY <1>2 DEF Difference
<1>5. ASSUME NEW i \in 0..nn-1 PROVE nn - 1 - i \in S <=> i \in D
  <2>1. e[nn - 1 - i] = {} <=> w[i] = u[i]
    BY <1>4, XorZero, XorLaws
  <2> QED
    BY <1>2, <2>1 DEF Support, Differing
<1> HIDE DEF e, S, D
<1>6. S \subseteq 0..nn-1 /\ IsFiniteSet(S) /\ D \subseteq 0..nn-1
  BY SupportFinite DEF S, D, Differing
<1>7. D = {(nn - 1) - a : a \in S}
  <2>1. ASSUME NEW i \in D PROVE i \in {(nn - 1) - a : a \in S}
    <3>1. i \in 0..nn-1 /\ nn - 1 - i \in S /\ (nn - 1) - (nn - 1 - i) = i
      BY <1>2, <1>5, <1>6
    <3> QED
      BY <3>1
  <2>2. ASSUME NEW a \in S PROVE (nn - 1) - a \in D
    <3>1. a \in 0..nn-1 /\ (nn - 1) - a \in 0..nn-1 /\ nn - 1 - ((nn - 1) - a) = a
      BY <1>2, <1>6
    <3> QED
      BY <1>5, <3>1
  <2> QED
    BY <2>1, <2>2
<1>8. Cardinality(D) = Cardinality(S)
  <2>1. S \in SUBSET Int
    BY <1>6
  <2> QED
    BY <1>1, <1>6, <1>7, <2>1, Reflected
<1> QED
  BY <1>2, <1>3, <1>4, <1>5, <1>8 DEF e, S, D

\* The syndromes of a received word are those of its errors.
LEMMA SyndromesAre ==
  ASSUME NEW data \in Message, NEW u, Codeword(u, data), NEW w \in [0..nn-1 -> Symbol]
  PROVE  SyndromesOf(Difference(w, u), Syndromes(w))
<1> DEFINE e == Difference(w, u)
<1>1. u \in [0..nn-1 -> Symbol] /\ e \in Vector /\ nn - 1 \in Nat
  BY Sizes, DifferenceFacts DEF Codeword
<1>2. ASSUME NEW v \in [0..nn-1 -> Symbol] PROVE Reversed(v) \in Vector
  <2>1. \A a \in 0..nn-1 : nn - 1 - a \in 0..nn-1
    BY Sizes
  <2> QED
    BY <2>1 DEF Reversed, Vector
<1>3. ASSUME NEW k \in 0..nroots-1 PROVE Syndromes(w)[k] = index_of[At(e, k)]
  <2> DEFINE F == [a \in 0..nn-1 |-> Times(Reversed(w)[a], power[a * k])]
             G == [a \in 0..nn-1 |-> Times(Reversed(u)[a], power[a * k])]
             H == [a \in 0..nn-1 |-> Times(e[a], power[a * k])]
  <2>1. k \in Nat /\ k < nroots
    BY Sizes
  <2>2. ASSUME NEW a \in 0..nn-1
        PROVE  F[a] \in Symbol /\ G[a] \in Symbol /\ H[a] = Xor(F[a], G[a])
    <3> DEFINE x == Reversed(w)[a]   y == Reversed(u)[a]   p == power[a * k]
    <3>1. x \in Symbol /\ y \in Symbol /\ p \in Symbol /\ Times(x, p) \in Symbol /\ Times(y, p) \in Symbol
      <4>1. Reversed(w) \in Vector /\ Reversed(u) \in Vector
        BY <1>1, <1>2
      <4> QED
        BY <2>1, <4>1, AtTerm
    <3>2. e[a] = Xor(x, y)
      BY DEF Difference, Reversed
    <3>3. F[a] = Times(x, p) /\ G[a] = Times(y, p) /\ H[a] = Times(e[a], p)
      OBVIOUS
    <3> HIDE DEF x, y, p, F, G, H, e
    <3> QED
      BY <3>1, <3>2, <3>3, TimesDistributive
  <2> HIDE DEF F, G, H, e
  <2>3. XorSum(nn - 1, H) = Xor(XorSum(nn - 1, F), XorSum(nn - 1, G))
    BY <1>1, <2>2, SumOfSums
  <2>4. At(Reversed(u), k) = {}
    BY <2>1, CodewordRoots
  <2>5. At(e, k) = At(Reversed(w), k)
    BY <2>3, <2>4, XorLaws DEF At, F, G, H
  <2> QED
    BY <2>5, SyndromeIsValue
<1>4. Syndromes(w) \in SyndromeIndices
  BY SyndromesType DEF SyndromeIndices
<1> QED
  BY <1>1, <1>3, <1>4 DEF SyndromesOf

\* When all syndromes are zero, so few errors are none.
LEMMA NoErrors ==
  ASSUME NEW data \in Message, NEW u, Codeword(u, data), NEW w \in [0..nn-1 -> Symbol],
         2 * Cardinality(Differing(w, u)) <= nroots, \A i \in 0..nroots-1 : Syndromes(w)[i] = nn
  PROVE  Cardinality(Differing(w, u)) = 0 /\ [i \in DataSymbol |-> w[i]] = data
<1> DEFINE e == Difference(w, u)
           v == Cardinality(Support(e))
<1>1. /\ SyndromesOf(e, Syndromes(w)) /\ e \in Vector /\ u \in [0..nn-1 -> Symbol]
      /\ v = Cardinality(Differing(w, u)) /\ v \in Nat /\ nroots \in Nat /\ nn \in Nat
  <2>1. u \in [0..nn-1 -> Symbol]
    BY DEF Codeword
  <2>2. SyndromesOf(e, Syndromes(w))
    BY SyndromesAre
  <2>3. e \in Vector /\ v = Cardinality(Differing(w, u))
    BY <2>1, DifferenceFacts
  <2> QED
    BY <2>1, <2>2, <2>3, SupportFinite, Sizes
<1>2. \A k \in Nat : 0 <= k /\ k < 0 + v => At(e, k) = {}
  <2> SUFFICES ASSUME NEW k \in Nat, k < 0 + v PROVE At(e, k) = {}
    OBVIOUS
  <2> HIDE DEF e, v
  <2>1. k \in 0..nroots-1
    BY <1>1
  <2>2. index_of[At(e, k)] = nn
    BY <1>1, <2>1 DEF SyndromesOf
  <2>3. At(e, k) \in Symbol
    BY SumType DEF At
  <2> QED
    BY <2>2, <2>3, IndexFacts
<1>3. Support(e) = {}
  <2>1. Traced(v) /\ v <= v
    BY <1>1, Trace
  <2> HIDE DEF e
  <2>2. Cardinality(Support(e)) <= v
    BY <2>1
  <2> HIDE DEF v
  <2> QED
    BY <1>1, <1>2, <2>1, <2>2 DEF Traced
<1>4. v = 0
  BY <1>3, FS_EmptySet
<1>5. ASSUME NEW i \in DataSymbol PROVE w[i] = data[i]
  <2>1. i \in 0..nn-1
    BY <1>1 DEF DataSymbol
  <2>2. i \notin Differing(w, u)
    BY <1>1, <1>3, <2>1, DifferenceFacts
  <2> QED
    BY <2>1, <2>2 DEF Differing, Codeword
<1>6. data = [i \in DataSymbol |-> data[i]]
  BY DEF Message
<1> QED
  BY <1>1, <1>4, <1>5, <1>6

\* The data of a word, without some errors.
Cleared(w, e) == [i \in DataSymbol |-> Xor(w[i], e[nn - 1 - i])]

\* When the roots are the places of some errors, and Forney's formula has their values, the
\* decoder takes them away from the data.
LEMMA CorrectedIs ==
  ASSUME NEW w, NEW s, NEW st, NEW e \in Vector,
         Degree(IndexForm(st.lambda)) = Cardinality(Support(e)),
         Roots(IndexForm(st.lambda)) = PlacesOf(e),
         \A b \in Support(e) : ErrorValue(IndexForm(st.lambda), s, nn - b) = e[b]
  PROVE  /\ Correct(w, s, st).count = Cardinality(Support(e))
         /\ Correct(w, s, st).data = Cleared(w, e)
<1> DEFINE v == Cardinality(Support(e))
           lambda == IndexForm(st.lambda)
           errors == [root \in Roots(lambda) |-> ErrorValue(lambda, s, root)]
           cor(i) == UNION {errors[root] : root \in {x \in DOMAIN errors : Location(x) = i}}
           word == [i \in DataSymbol |-> w[i]]
           fixed == [i \in DataSymbol |-> Xor(word[i], cor(i))]
           good == [count |-> Cardinality(DOMAIN errors), data |-> fixed]
<1>1. nn \in Nat /\ nroots \in Nat
  BY Sizes
<1>2. Correct(w, s, st) = IF Located(lambda) THEN good ELSE [count |-> -EBADMSG, data |-> word]
  BY DEF Correct
<1>3. Cardinality(Roots(lambda)) = v
  BY PlacesFacts
<1>4. Located(lambda)
  BY <1>3 DEF Located
<1>5. ASSUME NEW i \in DataSymbol PROVE cor(i) = e[nn - 1 - i]
  <2> DEFINE a == nn - 1 - i
  <2>1. a \in 0..nn-1 /\ nn - a = i + 1 /\ i \in Nat
    BY <1>1, Sizes DEF DataSymbol
  <2>2. {x \in DOMAIN errors : Location(x) = i} = IF a \in Support(e) THEN {i + 1} ELSE {}
    <3>1. DOMAIN errors = PlacesOf(e)
      OBVIOUS
    <3>2. PlacesOf(e) \subseteq 1..nn
      BY PlacesFacts
    <3>3. \A x \in PlacesOf(e) : x - 1 = i <=> x = i + 1
      BY <2>1, <3>2
    <3>4. i + 1 \in PlacesOf(e) <=> a \in Support(e)
      <4>1. \A b \in Support(e) : nn - b = i + 1 => b = a
        BY <1>1, <2>1, SupportFinite
      <4> HIDE DEF a
      <4> QED
        BY <2>1, <4>1 DEF PlacesOf
    <3> HIDE DEF a, errors
    <3> QED
      BY <3>1, <3>3, <3>4 DEF Location
  <2>3. ASSUME a \in Support(e) PROVE cor(i) = e[a]
    <3>1. cor(i) = UNION {errors[root] : root \in {i + 1}}
      <4> HIDE DEF errors, a
      <4> QED
        BY <2>2, <2>3
    <3>2. errors[i + 1] = e[a]
      <4>1. i + 1 \in Roots(lambda)
        BY <2>1, <2>3 DEF PlacesOf
      <4>2. ErrorValue(lambda, s, nn - a) = e[a]
        BY <2>3
      <4> HIDE DEF lambda, a
      <4> QED
        BY <2>1, <4>1, <4>2
    <3> HIDE DEF errors, a
    <3> QED
      BY <3>1, <3>2
  <2>4. ASSUME a \notin Support(e) PROVE cor(i) = e[a]
    <3>1. e[a] = {}
      BY <2>1, <2>4 DEF Support
    <3>2. cor(i) = {}
      <4> HIDE DEF errors, a
      <4> QED
        BY <2>2, <2>4
    <3> QED
      BY <3>1, <3>2
  <2> QED
    BY <2>3, <2>4
<1>6. fixed = Cleared(w, e)
  <2>1. \A i \in DataSymbol : word[i] = w[i] /\ cor(i) = e[nn - 1 - i]
    BY <1>5
  <2> HIDE DEF cor, word
  <2> QED
    BY <2>1 DEF Cleared
<1>7. good.count = v /\ good.data = fixed
  <2>1. Cardinality(DOMAIN errors) = v
    BY <1>3
  <2> HIDE DEF errors, fixed, v
  <2> QED
    BY <2>1
<1> QED
  BY <1>2, <1>4, <1>6, <1>7

\* With few errors, the register at the end gives these.
LEMMA CorrectIs ==
  ASSUME NEW data \in Message, NEW u, Codeword(u, data), NEW w \in [0..nn-1 -> Symbol],
         2 * Cardinality(Differing(w, u)) <= nroots,
         NEW st, Locates(st, nroots, Syndromes(w)), st.el <= Cardinality(Differing(w, u))
  PROVE  /\ Correct(w, Syndromes(w), st).count = Cardinality(Differing(w, u))
         /\ Correct(w, Syndromes(w), st).data = data
<1> DEFINE e == Difference(w, u)
           s == Syndromes(w)
           f == st.lambda
           v == Cardinality(Support(e))
<1>1. /\ SyndromesOf(e, s) /\ e \in Vector /\ u \in [0..nn-1 -> Symbol]
      /\ v = Cardinality(Differing(w, u)) /\ v \in Nat /\ nroots \in Nat /\ nn \in Nat /\ v <= nroots
  <2>1. u \in [0..nn-1 -> Symbol]
    BY DEF Codeword
  <2>2. SyndromesOf(e, s)
    BY SyndromesAre
  <2>3. e \in Vector /\ v = Cardinality(Differing(w, u))
    BY <2>1, DifferenceFacts
  <2>4. v \in Nat /\ nroots \in Nat /\ nn \in Nat
    BY SupportFinite, Sizes
  <2> HIDE DEF v, e, s
  <2>5. v <= nroots
    BY <2>3, <2>4
  <2> QED
    BY <2>1, <2>2, <2>3, <2>4, <2>5
<1>2. /\ f \in Polynomial /\ f[0] # {} /\ Degree(IndexForm(f)) = v
      /\ RootsOf(f) = PlacesOf(e) /\ Roots(IndexForm(f)) = PlacesOf(e)
  <2>1. Predicts(f, st.el, nroots, s) /\ st.el <= v /\ 2 * v <= nroots
    BY <1>1 DEF Locates
  <2> HIDE DEF s, e
  <2> QED
    BY <1>1, <2>1, Places
<1>3. \A b \in Support(e) : ErrorValue(IndexForm(f), s, nn - b) = e[b]
  <2> HIDE DEF s, e, f
  <2> QED
    BY <1>1, <1>2, ErrorIs
<1>4. /\ Correct(w, s, st).count = v
      /\ Correct(w, s, st).data = Cleared(w, e)
  <2> HIDE DEF s, e
  <2>1. /\ e \in Vector /\ Degree(IndexForm(st.lambda)) = Cardinality(Support(e))
        /\ Roots(IndexForm(st.lambda)) = PlacesOf(e)
    BY <1>1, <1>2
  <2>2. \A b \in Support(e) : ErrorValue(IndexForm(st.lambda), s, nn - b) = e[b]
    BY <1>3
  <2> HIDE DEF f, v
  <2>3. /\ Correct(w, s, st).count = Cardinality(Support(e))
        /\ Correct(w, s, st).data = Cleared(w, e)
    BY <2>1, <2>2, CorrectedIs
  <2> QED
    BY <2>3 DEF v
<1>5. Cleared(w, e) = data
  <2>1. ASSUME NEW i \in DataSymbol PROVE Xor(w[i], e[nn - 1 - i]) = data[i]
    <3>1. i \in 0..nn-1
      BY <1>1, Sizes DEF DataSymbol
    <3>2. e[nn - 1 - i] = Xor(w[i], u[i])
      BY <1>1, <3>1, DifferenceFacts
    <3>3. u[i] = data[i]
      BY DEF Codeword
    <3>4. Xor(w[i], Xor(w[i], u[i])) = u[i]
      BY DEF Xor
    <3> HIDE DEF e
    <3> QED
      BY <3>2, <3>3, <3>4
  <2>2. data = [i \in DataSymbol |-> data[i]]
    BY DEF Message
  <2> HIDE DEF e
  <2> QED
    BY <2>1, <2>2 DEF Cleared
<1> QED
  BY <1>1, <1>4, <1>5

\* No register is longer than any errors are many that have these syndromes.
Shortest(st, s) == \A e \in Vector : SyndromesOf(e, s) => st.el <= Cardinality(Support(e))

\* The invariant of the results.  What was sent is a codeword, as long as it is on its way;
\* there is a result for each half that was decoded; the register of the half that is being
\* decoded is as short as can be.
Deciding ==
  /\ phase # "encode" => \A h \in Half : message[h] \in Message /\ Codeword(SentWord(h), message[h])
  /\ phase \in {"embed", "compress", "read"} => results = <<>>
  /\ phase \in {"decode", "locate"} => results = IF half = 0 THEN <<>> ELSE <<results[1]>>
  /\ phase = "locate" => \A h \in Half : half = h => syn = Syndromes(Word(h))
  /\ phase = "locate" => Shortest(register, syn)
  /\ CorrectsUpToHalf

\* It holds at first, as there is no result.
LEMMA DecidingInit == Init => Deciding
<1> SUFFICES ASSUME Init PROVE Deciding
  OBVIOUS
<1>1. phase = "encode" /\ results = <<>> /\ Len(results) = 0
  BY DEF Init
<1>2. CorrectsUpToHalf
  BY <1>1 DEF CorrectsUpToHalf, Half
<1> QED
  BY <1>1, <1>2 DEF Deciding

\* Both halves go out as codewords, whatever the parity of the last iteration was.
LEMMA EncodeDecides == Carried /\ Encode => Deciding'
<1> SUFFICES ASSUME Carried, Encode PROVE Deciding'
  OBVIOUS
<1>1. Byte = Symbol /\ nn \in Nat /\ nn >= 2 /\ nroots \in Nat /\ nroots < nn
  BY ImageSizes, Sizes DEF Byte, Symbol
<1>2. Carried'
  BY EncodeCarries
<1>3. bytes_' \in [0..2*nn-1 -> Symbol]
  BY <1>1, <1>2 DEF Carried
<1>4. /\ message' \in [Half -> Message]
      /\ parity' = [h \in Half |-> encode_rs8(message'[h], Reset[h])]
      /\ bytes_' = [k \in 0..2*nn-1 |->
                      LET h == k \div nn  i == k % nn
                      IN  IF i \in DataSymbol THEN message'[h][i]
                          ELSE parity'[h][i - (nn - nroots)]]
      /\ phase' = "embed" /\ results' = <<>>
  BY EccAssumption DEF Encode
<1>5. ASSUME NEW h \in Half
      PROVE  message'[h] \in Message /\ Codeword(SentWord(h)', message'[h])
  <2>1. h \in Nat /\ (h = 0 \/ h = 1)
    BY DEF Half
  <2>2. ASSUME NEW i \in 0..nn-1
        PROVE  /\ h * nn + i \in 0..2*nn-1
               /\ bytes_'[h * nn + i] = IF i \in DataSymbol THEN message'[h][i]
                                        ELSE parity'[h][i - (nn - nroots)]
    <3> DEFINE k == h * nn + i
    <3>1. k \in 0..2*nn-1 /\ k = nn * h + i /\ i \in Nat /\ i < nn
      BY <1>1, <2>1
    <3>2. k \div nn = h /\ k % nn = i
      <4>1. (nn * h + i) \div nn = h /\ (nn * h + i) % nn = i
        BY <1>1, <2>1, <3>1, DivMod
      <4> QED
        BY <3>1, <4>1
    <3> HIDE DEF k
    <3>3. bytes_'[k] = IF k % nn \in DataSymbol THEN message'[k \div nn][k % nn]
                       ELSE parity'[k \div nn][(k % nn) - (nn - nroots)]
      BY <1>4, <3>1
    <3> QED
      BY <3>1, <3>2, <3>3 DEF k
  <2>3. \A i \in 0..nn-1 : SentWord(h)'[i] = bytes_'[h * nn + i]
    BY DEF SentWord
  <2>4. SentWord(h)' \in [0..nn-1 -> Symbol]
    <3>1. \A i \in 0..nn-1 : bytes_'[h * nn + i] \in Symbol
      BY <1>3, <2>2
    <3> QED
      BY <3>1 DEF SentWord
  <2>5. ASSUME NEW i \in DataSymbol PROVE SentWord(h)'[i] = message'[h][i]
    <3>1. i \in 0..nn-1
      BY <1>1 DEF DataSymbol
    <3> QED
      BY <2>2, <2>3, <3>1
  <2>6. ASSUME NEW j \in 0..nroots-1
        PROVE  SentWord(h)'[nn - nroots + j] = encode_rs8(message'[h], ZeroParity)[j]
    <3> DEFINE i == nn - nroots + j
    <3>1. i \in 0..nn-1 /\ i \notin DataSymbol /\ i - (nn - nroots) = j
      BY <1>1 DEF DataSymbol
    <3> HIDE DEF i
    <3>2. SentWord(h)'[i] = parity'[h][j]
      BY <2>2, <2>3, <3>1
    <3>3. parity'[h] = encode_rs8(message'[h], ZeroParity)
      BY <1>4 DEF Reset
    <3> QED
      BY <3>2, <3>3 DEF i
  <2>7. message'[h] \in Message
    BY <1>4
  <2> QED
    BY <2>4, <2>5, <2>6, <2>7 DEF Codeword
<1>6. CorrectsUpToHalf'
  <2>1. Len(results') = 0
    BY <1>4
  <2> QED
    BY <2>1 DEF CorrectsUpToHalf, Half
<1> QED
  BY <1>4, <1>5, <1>6 DEF Deciding

\* Where the words stay, so do their differences.
LEMMA WrongSame ==
  full_message' = full_message /\ bytes_' = bytes_ =>
    \A h : /\ WrongSymbols(h)' = WrongSymbols(h) /\ SentWord(h)' = SentWord(h)
           /\ Word(h)' = Word(h)
BY DEF WrongSymbols, Word, SentWord

\* Embedding, compressing and reading come before any result.
LEMMA WayDecides == Deciding /\ (Embed \/ Compress \/ Read) => Deciding'
<1> SUFFICES ASSUME Deciding, Embed \/ Compress \/ Read PROVE Deciding'
  OBVIOUS
<1>1. /\ results = <<>> /\ results' = <<>> /\ message' = message /\ bytes_' = bytes_
      /\ phase # "encode" /\ phase' # "locate"
      /\ phase' = "decode" => half' = 0
  BY DEF Deciding, Embed, Compress, Read
<1>2. \A h \in Half : message[h] \in Message /\ Codeword(SentWord(h), message[h])
  BY <1>1 DEF Deciding
<1>3. \A h : SentWord(h)' = SentWord(h)
  BY <1>1 DEF SentWord
<1>4. \A h \in Half : message'[h] \in Message /\ Codeword(SentWord(h)', message'[h])
  BY <1>1, <1>2, <1>3
<1>5. CorrectsUpToHalf'
  <2>1. Len(results') = 0
    BY <1>1
  <2> QED
    BY <2>1 DEF CorrectsUpToHalf, Half
<1> QED
  BY <1>1, <1>4, <1>5 DEF Deciding

\* A result is good that has the message and counts the wrong symbols, if they are few.
GoodResult(result, h) ==
  2 * Cardinality(WrongSymbols(h)) <= nroots =>
    result.count = Cardinality(WrongSymbols(h)) /\ result.data = message[h]

\* Two results.
LEMMA AppendToOne ==
  ASSUME NEW a, NEW b, NEW q, q = Append(<<a>>, b)
  PROVE  q[1] = a /\ q[2] = b
OBVIOUS

\* decode_rs8() returns a good result.
LEMMA WrittenDecides ==
  ASSUME Deciding, half \in Half, phase \in {"decode", "locate"}, NEW result,
         GoodResult(result, half), Written(result),
         UNCHANGED <<message, bytes_, full_message>>
  PROVE  Deciding'
<1>1. /\ message' = message /\ bytes_' = bytes_ /\ full_message' = full_message
      /\ results' = Append(results, result) /\ phase' # "locate"
      /\ phase' \in {"decode", "encode"} /\ (half = 0 => half' = 1) /\ (half = 1 => phase' = "encode")
  BY DEF Written, Half
<1>2. \A h : WrongSymbols(h)' = WrongSymbols(h) /\ SentWord(h)' = SentWord(h)
  BY <1>1, WrongSame
<1>3. \A h \in Half : message'[h] \in Message /\ Codeword(SentWord(h)', message'[h])
  <2>1. \A h \in Half : message[h] \in Message /\ Codeword(SentWord(h), message[h])
    BY DEF Deciding
  <2> QED
    BY <1>1, <1>2, <2>1
<1>4. CASE half = 0
  <2>1. results = <<>>
    BY <1>4 DEF Deciding
  <2>2. results' = <<result>> /\ Len(results') = 1 /\ results'[1] = result
    BY <1>1, <2>1
  <2>3. CorrectsUpToHalf'
    <3> SUFFICES ASSUME NEW h \in Half, Len(results') > h, 2 * Cardinality(WrongSymbols(h)') <= nroots
                 PROVE  /\ results'[h + 1].count = Cardinality(WrongSymbols(h)')
                        /\ results'[h + 1].data = message'[h]
      BY DEF CorrectsUpToHalf
    <3>1. h = half /\ h + 1 = 1
      BY <1>4, <2>2 DEF Half
    <3>2. WrongSymbols(h)' = WrongSymbols(h)
      BY <1>2
    <3> QED
      BY <1>1, <2>2, <3>1, <3>2 DEF GoodResult
  <2>4. half' = 1 /\ results' = <<results'[1]>>
    BY <1>1, <1>4, <2>2
  <2> QED
    BY <1>1, <1>3, <2>3, <2>4 DEF Deciding
<1>5. CASE half = 1
  <2>1. results = <<results[1]>> /\ CorrectsUpToHalf
    BY <1>5 DEF Deciding
  <2> DEFINE first == results[1]
  <2>2. results = <<first>>
    BY <2>1
  <2> HIDE DEF first
  <2>3. Len(results) = 1 /\ results[1] = first
    BY <2>2
  <2>4. results'[1] = first /\ results'[2] = result
    BY <1>1, <2>2, AppendToOne
  <2>5. CorrectsUpToHalf'
    <3> SUFFICES ASSUME NEW h \in Half, Len(results') > h, 2 * Cardinality(WrongSymbols(h)') <= nroots
                 PROVE  /\ results'[h + 1].count = Cardinality(WrongSymbols(h)')
                        /\ results'[h + 1].data = message'[h]
      BY DEF CorrectsUpToHalf
    <3>1. WrongSymbols(h)' = WrongSymbols(h)
      BY <1>2
    <3>2. CASE h = 0
      <4>1. Len(results) > 0 /\ 0 \in Half /\ 0 + 1 = 1 /\ h + 1 = 1
        BY <2>3, <3>2 DEF Half
      <4>2. /\ results[0 + 1].count = Cardinality(WrongSymbols(0))
            /\ results[0 + 1].data = message[0]
        BY <2>1, <3>1, <3>2, <4>1 DEF CorrectsUpToHalf
      <4> QED
        BY <1>1, <2>4, <3>1, <3>2, <4>1, <4>2
    <3>3. CASE h = 1
      <4>1. h + 1 = 2 /\ h = half
        BY <1>5, <3>3
      <4> QED
        BY <1>1, <2>4, <3>1, <4>1 DEF GoodResult
    <3> QED
      BY <3>2, <3>3 DEF Half
  <2> QED
    BY <1>1, <1>5, <2>5 DEF Deciding
<1> QED
  BY <1>4, <1>5 DEF Half

\* Without a syndrome there is a result at once; else the register starts empty.
LEMMA DecodeDecides == Carried /\ Locating /\ Deciding /\ Decode => Deciding'
<1> SUFFICES ASSUME Carried, Locating, Deciding, Decode PROVE Deciding'
  OBVIOUS
<1>1. /\ half \in Half /\ phase = "decode" /\ full_message = ReadBack(decoded)
      /\ message' = message /\ bytes_' = bytes_ /\ full_message' = full_message
      /\ syn' = Syndromes(Word(half)) /\ register' = EmptyRegister
  BY DEF Carried, Locating, Decode
<1>2. Word(half) \in [0..nn-1 -> Symbol]
  BY <1>1, WordType
<1>3. message[half] \in Message /\ Codeword(SentWord(half), message[half])
  BY <1>1 DEF Deciding
<1>4. WrongSymbols(half) = Differing(Word(half), SentWord(half))
  BY DEF WrongSymbols, Differing
<1>5. CASE \A i \in 0..nroots-1 : syn'[i] = nn
  <2> DEFINE result == [count |-> 0, data |-> [i \in DataSymbol |-> Word(half)[i]]]
  <2>1. Written(result)
    BY <1>5 DEF Decode
  <2>2. GoodResult(result, half)
    <3> SUFFICES ASSUME 2 * Cardinality(WrongSymbols(half)) <= nroots
                 PROVE  0 = Cardinality(WrongSymbols(half))
                        /\ [i \in DataSymbol |-> Word(half)[i]] = message[half]
      BY DEF GoodResult
    <3>1. \A i \in 0..nroots-1 : Syndromes(Word(half))[i] = nn
      BY <1>1, <1>5
    <3> DEFINE w == Word(half)   u == SentWord(half)   data == message[half]
    <3>2. /\ w \in [0..nn-1 -> Symbol] /\ Codeword(u, data) /\ data \in Message
          /\ 2 * Cardinality(Differing(w, u)) <= nroots
          /\ \A i \in 0..nroots-1 : Syndromes(w)[i] = nn
      BY <1>2, <1>3, <1>4, <3>1
    <3> HIDE DEF w, u, data
    <3>3. Cardinality(Differing(w, u)) = 0 /\ [i \in DataSymbol |-> w[i]] = data
      BY <3>2, NoErrors
    <3> QED
      BY <1>4, <3>3 DEF w, u, data
  <2> HIDE DEF result
  <2> QED
    BY <1>1, <2>1, <2>2, WrittenDecides
<1>6. CASE ~(\A i \in 0..nroots-1 : syn'[i] = nn)
  <2>1. phase' = "locate" /\ half' = half /\ results' = results
    BY <1>6 DEF Decode
  <2>2. \A h : /\ WrongSymbols(h)' = WrongSymbols(h) /\ SentWord(h)' = SentWord(h)
               /\ Word(h)' = Word(h)
    BY <1>1, WrongSame
  <2>3. \A h \in Half : message'[h] \in Message /\ Codeword(SentWord(h)', message'[h])
    <3>1. \A h \in Half : message[h] \in Message /\ Codeword(SentWord(h), message[h])
      BY <1>1 DEF Deciding
    <3> QED
      BY <1>1, <2>2, <3>1
  <2>4. results' = IF half' = 0 THEN <<>> ELSE <<results'[1]>>
    BY <1>1, <2>1 DEF Deciding
  <2>5. \A h \in Half : half' = h => syn' = Syndromes(Word(h)')
    BY <1>1, <2>1, <2>2
  <2>6. Shortest(register', syn')
    <3>1. register'.el = 0
      BY <1>1 DEF EmptyRegister
    <3>2. \A e \in Vector : 0 <= Cardinality(Support(e))
      BY SupportFinite
    <3> QED
      BY <3>1, <3>2 DEF Shortest
  <2>7. CorrectsUpToHalf'
    <3>1. CorrectsUpToHalf
      BY DEF Deciding
    <3> QED
      BY <1>1, <2>1, <2>2, <3>1 DEF CorrectsUpToHalf
  <2> QED
    BY <2>1, <2>3, <2>4, <2>5, <2>6, <2>7 DEF Deciding
<1> QED
  BY <1>5, <1>6

\* A step of Berlekamp-Massey leaves the register as short as can be.
LEMMA LocateDecides == Carried /\ Locating /\ Deciding /\ Locate => Deciding'
<1> SUFFICES ASSUME Carried, Locating, Deciding, Locate PROVE Deciding'
  OBVIOUS
<1>1. /\ half \in Half /\ phase = "locate" /\ phase' = "locate" /\ half' = half
      /\ full_message = ReadBack(decoded) /\ r \in Nat /\ r < nroots
      /\ register' = BerlekampMasseyStep(register, r + 1, syn) /\ results' = results
      /\ message' = message /\ bytes_' = bytes_ /\ full_message' = full_message /\ syn' = syn
      /\ Locates(register, r, syn)
  BY DEF Carried, Locating, Locate
<1>2. \A h : /\ WrongSymbols(h)' = WrongSymbols(h) /\ SentWord(h)' = SentWord(h)
             /\ Word(h)' = Word(h)
  BY <1>1, WrongSame
<1>3. \A h \in Half : message[h] \in Message /\ Codeword(SentWord(h), message[h])
  BY <1>1 DEF Deciding
<1>4. \A h \in Half : message'[h] \in Message /\ Codeword(SentWord(h)', message'[h])
  BY <1>1, <1>2, <1>3
<1>5. \A h \in Half : half' = h => syn' = Syndromes(Word(h)')
  <2>1. \A h \in Half : half = h => syn = Syndromes(Word(h))
    BY <1>1 DEF Deciding
  <2> QED
    BY <1>1, <1>2, <2>1
<1>6. Shortest(register', syn')
  <2> SUFFICES ASSUME NEW e \in Vector, SyndromesOf(e, syn)
               PROVE  register'.el <= Cardinality(Support(e))
    BY <1>1 DEF Shortest
  <2>1. register.el <= Cardinality(Support(e))
    BY <1>1 DEF Deciding, Shortest
  <2> QED
    BY <1>1, <2>1, StepShort
<1>7. CorrectsUpToHalf'
  <2>1. CorrectsUpToHalf
    BY DEF Deciding
  <2> QED
    BY <1>1, <1>2, <2>1 DEF CorrectsUpToHalf
<1>8. results' = IF half' = 0 THEN <<>> ELSE <<results'[1]>>
  BY <1>1 DEF Deciding
<1> QED
  BY <1>1, <1>4, <1>5, <1>6, <1>7, <1>8 DEF Deciding

\* A register that has run over all syndromes gives a good result.
LEMMA FinishDecides == Carried /\ Locating /\ Deciding /\ Finish => Deciding'
<1> SUFFICES ASSUME Carried, Locating, Deciding, Finish PROVE Deciding'
  OBVIOUS
<1> DEFINE result == Correct(Word(half), syn, register)
<1>1. /\ half \in Half /\ phase = "locate" /\ full_message = ReadBack(decoded)
      /\ Locates(register, nroots, syn) /\ Written(result)
      /\ UNCHANGED <<message, bytes_, full_message>>
  BY DEF Carried, Locating, Finish
<1>2. GoodResult(result, half)
  <2> SUFFICES ASSUME 2 * Cardinality(WrongSymbols(half)) <= nroots
               PROVE  /\ result.count = Cardinality(WrongSymbols(half))
                      /\ result.data = message[half]
    BY DEF GoodResult
  <2> DEFINE w == Word(half)   u == SentWord(half)   data == message[half]
  <2>1. w \in [0..nn-1 -> Symbol]
    BY <1>1, WordType
  <2>2. data \in Message /\ Codeword(u, data)
    BY <1>1 DEF Deciding
  <2>3. WrongSymbols(half) = Differing(w, u)
    BY DEF WrongSymbols, Differing
  <2>4. syn = Syndromes(w)
    BY <1>1 DEF Deciding
  <2>5. result = Correct(w, Syndromes(w), register)
    BY <2>4
  <2>6. register.el <= Cardinality(Differing(w, u))
    <3> DEFINE e == Difference(w, u)
    <3>1. Shortest(register, Syndromes(w))
      BY <1>1, <2>4 DEF Deciding
    <3> HIDE DEF w, u, data
    <3>2. u \in [0..nn-1 -> Symbol]
      BY <2>2 DEF Codeword
    <3>3. e \in Vector /\ Cardinality(Support(e)) = Cardinality(Differing(w, u))
      BY <2>1, <3>2, DifferenceFacts
    <3>4. SyndromesOf(e, Syndromes(w))
      BY <2>1, <2>2, SyndromesAre
    <3> HIDE DEF e
    <3> QED
      BY <3>1, <3>3, <3>4 DEF Shortest
  <2> HIDE DEF w, u, data
  <2>7. /\ Locates(register, nroots, Syndromes(w)) /\ register.el <= Cardinality(Differing(w, u))
        /\ 2 * Cardinality(Differing(w, u)) <= nroots
    BY <1>1, <2>3, <2>4, <2>6
  <2>8. /\ Correct(w, Syndromes(w), register).count = Cardinality(Differing(w, u))
        /\ Correct(w, Syndromes(w), register).data = data
    BY <2>1, <2>2, <2>7, CorrectIs
  <2> QED
    BY <2>3, <2>5, <2>8 DEF data
<1> HIDE DEF result
<1> QED
  BY <1>1, <1>2, WrittenDecides

\* Every action keeps the invariant.
LEMMA DecidingStep == Carried /\ Locating /\ Deciding /\ [Next]_vars => Deciding'
<1> SUFFICES ASSUME Carried, Locating, Deciding, UNCHANGED vars PROVE Deciding'
  BY EncodeDecides, WayDecides, DecodeDecides, LocateDecides, FinishDecides DEF Next
<1> QED
  BY DEF vars, Deciding, CorrectsUpToHalf, WrongSymbols, Word, SentWord, Shortest

\* So it always holds.
LEMMA DecidingHolds == Spec => []Deciding
BY DecidingInit, DecidingStep, CarriedHolds, LocatingHolds, PTL DEF Spec

\* decode_rs8() corrects and counts all wrong symbols of a half, in the data or in the parity,
\* as long as they are no more than nroots/2, in every iteration of the object: for every
\* symbol size and primitive polynomial, every number of parity symbols, and every image and
\* noise.
THEOREM CorrectsUpToHalfHolds == Spec => []CorrectsUpToHalf
<1>1. Deciding => CorrectsUpToHalf
  BY DEF Deciding
<1> QED
  BY <1>1, DecidingHolds, PTL



-----------------------------------------------------------------------------
(* However many symbols are wrong.                                           *)

\* A symbol can be divided by another that is not zero.
LEMMA Divided ==
  ASSUME NEW s \in Symbol, NEW t \in Symbol, t # {}
  PROVE  \E v \in Symbol : s = Times(v, t)
<1> DEFINE i == index_of[t]
<1>1. i \in Indices /\ i # nn /\ alpha_to[i] = t
  BY IndexFacts
<1> HIDE DEF i
<1>2. i \in 0..nn /\ nn \in Nat
  BY <1>1, Sizes DEF Indices
<1>3. i \in Nat /\ nn - i \in Nat /\ (nn - i) + i = nn
  BY <1>2
<1>4. power[i] = t
  BY <1>1, <1>2 DEF alpha_to
<1> DEFINE p == power[nn - i]
<1>5. p \in Symbol
  BY <1>3, PowerFacts
<1>6. Times(p, t) = {0}
  BY <1>3, <1>4, PowerFacts
<1> HIDE DEF p
<1>7. Times(s, p) \in Symbol
  BY <1>5, TimesType
<1>8. Times(Times(s, p), t) = Times(s, Times(p, t))
  BY <1>5, TimesAssociative
<1>9. Times(s, {0}) = s
  BY TimesLaws
<1> QED
  BY <1>6, <1>7, <1>8, <1>9

\* What Forney's formula has at a root divides the evaluator there.
LEMMA ForneyValue ==
  ASSUME NEW s \in SyndromeIndices, NEW f \in Polynomial, f[0] # {},
         NEW d \in 1..nroots, d = Degree(IndexForm(f)), Cardinality(RootsOf(f)) = d,
         NEW b \in 0..nn-1, Value(f, nn - b) = {}
  PROVE  /\ ErrorValue(IndexForm(f), s, nn - b) \in Symbol
         /\ XorSum(d - 1, [i \in 0..(d - 1) |-> Times(Conv(IndexForm(f), s, i), power[i * (nn - b)])])
              = Times(ErrorValue(IndexForm(f), s, nn - b), Value(Quot(f, b), nn - b))
<1> DEFINE W == Value(Quot(f, b), nn - b)
           N == XorSum(d - 1, [i \in 0..(d - 1) |-> Times(Conv(IndexForm(f), s, i), power[i * (nn - b)])])
<1>1. \A i \in 0..nroots : i > d => f[i] = {}
  BY DegreeFacts
<1>2. W \in Symbol /\ W # {}
  BY <1>1, OwnPlace, ValueType
<1>3. N \in Symbol
  BY SumType
<1>4. PICK v \in Symbol : N = Times(v, W)
  <2> HIDE DEF N, W
  <2> QED
    BY <1>2, <1>3, Divided
<1>5. ErrorValue(IndexForm(f), s, nn - b) = v
  BY <1>4, ForneyIs
<1> QED
  BY <1>4, <1>5

\* The evaluator as a polynomial.
Omega(f, s, d) == [i \in 0..nroots |-> IF i < d THEN Conv(IndexForm(f), s, i) ELSE {}]

\* It has its value.
LEMMA OmegaValue ==
  ASSUME NEW f, NEW s, NEW d \in 1..nroots, NEW y \in Nat
  PROVE  /\ Omega(f, s, d) \in Polynomial
         /\ Value(Omega(f, s, d), y)
              = XorSum(d - 1, [i \in 0..(d - 1) |-> Times(Conv(IndexForm(f), s, i), power[i * y])])
<1> DEFINE O == Omega(f, s, d)
           n == d - 1
           L == [i \in 0..nroots |-> Times(O[i], power[i * y])]
           h == [i \in 0..n |-> Times(Conv(IndexForm(f), s, i), power[i * y])]
<1>1. nroots \in Nat /\ n \in Nat /\ n <= nroots
  BY Sizes
<1>2. O \in Polynomial
  <2>1. \A i : Conv(IndexForm(f), s, i) \in Symbol
    BY SumType DEF Conv
  <2> QED
    BY <2>1, Zero DEF Omega, Polynomial
<1>3. ASSUME NEW i \in 0..n PROVE L[i] = h[i]
  <2>1. i \in 0..nroots /\ i < d
    BY <1>1
  <2> QED
    BY <2>1 DEF Omega
<1>4. ASSUME NEW i \in (n + 1)..nroots PROVE L[i] = {}
  <2>1. i \in 0..nroots /\ ~(i < d) /\ i \in Nat
    BY <1>1
  <2>2. O[i] = {}
    BY <2>1 DEF Omega
  <2>3. power[i * y] \in Symbol
    BY <2>1, Exponents, PowerFacts
  <2> QED
    BY <2>1, <2>2, <2>3, TimesLaws
<1> HIDE DEF L, h, n, O
<1>5. XorSum(nroots, L) = XorSum(n, L)
  BY <1>1, <1>4, SumTail
<1>6. XorSum(n, L) = XorSum(n, h)
  BY <1>3, SumSame
<1> QED
  BY <1>2, <1>5, <1>6 DEF Value, L, h, n, O

\* A register predicts one sequence of syndromes only.
LEMMA SameRegister ==
  ASSUME NEW f \in Polynomial, f[0] = {0}, NEW s \in SyndromeIndices, NEW z \in SyndromeIndices,
         \A k \in 0..nroots-1 : Conv(IndexForm(f), s, k) = Conv(IndexForm(f), z, k)
  PROVE  \A k \in 0..nroots-1 : s[k] = z[k]
<1> DEFINE T == {k \in 0..nroots-1 : s[k] # z[k]}
<1> SUFFICES ASSUME T # {} PROVE FALSE
  OBVIOUS
<1>1. nroots \in Nat /\ T \in SUBSET Nat
  BY Sizes
<1>2. PICK m \in T : \A n \in T : m <= n
  BY <1>1, LeastNumber
<1> DEFINE lambda == IndexForm(f)
           A == [i \in 0..m |-> Product(lambda[i], s[m - i])]
           B == [i \in 0..m |-> Product(lambda[i], z[m - i])]
           H == [i \in 0..m |-> Xor(A[i], B[i])]
<1>3. m \in Nat /\ m \in 0..nroots-1 /\ 0 \in 0..m /\ lambda \in PolynomialIndices
  BY <1>1, IndexFormType
<1>4. ASSUME NEW i \in 0..m PROVE A[i] \in Symbol /\ B[i] \in Symbol /\ H[i] = Xor(A[i], B[i])
  BY <1>3, TermType
<1>5. ASSUME NEW i \in 0..m, i # 0 PROVE H[i] = {}
  <2>1. m - i \in 0..nroots-1 /\ ~(m <= m - i)
    BY <1>1, <1>3, <1>5
  <2>2. s[m - i] = z[m - i]
    BY <1>2, <2>1
  <2> QED
    BY <2>2, XorLaws
<1>6. H[0] = {}
  <2>1. XorSum(m, A) = XorSum(m, B) /\ XorSum(m, A) \in Symbol
    BY <1>3, SumType DEF Conv
  <2>2. H[0] \in Symbol
    BY <1>3, <1>4, XorType
  <2> HIDE DEF A, B, H
  <2>3. XorSum(m, H) = Xor(XorSum(m, A), XorSum(m, B))
    BY <1>3, <1>4, SumOfSums
  <2>4. XorSum(m, H) = H[0]
    BY <1>3, <1>5, <2>2, SumAlone
  <2> QED
    BY <2>1, <2>3, <2>4, XorLaws
<1>7. A[0] = B[0]
  BY <1>3, <1>4, <1>6, XorZero
<1>8. lambda[0] = 0
  <2>1. 0 \in 0..nroots
    BY <1>1
  <2> QED
    BY <2>1, IndexOfOne, IndexFormType
<1>9. A[0] = alpha_to[s[m]] /\ B[0] = alpha_to[z[m]] /\ s[m] \in Indices /\ z[m] \in Indices
  <2>1. s[m] \in Indices /\ z[m] \in Indices
    BY <1>3 DEF SyndromeIndices
  <2>2. m - 0 = m
    BY <1>3
  <2>3. A[0] = Product(lambda[0], s[m]) /\ B[0] = Product(lambda[0], z[m])
    BY <1>3, <2>2
  <2> HIDE DEF A, B, lambda
  <2> QED
    BY <1>8, <2>1, <2>3, ProductFacts
<1>10. s[m] = z[m]
  <2>1. alpha_to[s[m]] = alpha_to[z[m]]
    BY <1>7, <1>9
  <2>2. index_of[alpha_to[s[m]]] = s[m] /\ index_of[alpha_to[z[m]]] = z[m]
    BY <1>9, IndexFacts
  <2> QED
    BY <2>1, <2>2
<1> QED
  BY <1>10


\* The errors that Forney's formula has at the roots of a locator.
Forney(f, s) ==
  [a \in 0..nn-1 |-> IF nn - a \in RootsOf(f) THEN ErrorValue(IndexForm(f), s, nn - a) ELSE {}]

\* They are symbols, and Forney's formula's at the roots.
LEMMA ForneyType ==
  ASSUME NEW s \in SyndromeIndices, NEW f \in Polynomial, f[0] # {},
         NEW d \in 0..nroots, d = Degree(IndexForm(f)), Cardinality(RootsOf(f)) = d
  PROVE  /\ Forney(f, s) \in Vector
         /\ \A y \in RootsOf(f) : /\ nn - y \in 0..nn-1 /\ nn - (nn - y) = y /\ d \in 1..nroots
                                  /\ Forney(f, s)[nn - y] = ErrorValue(IndexForm(f), s, y)
         /\ \A a \in Support(Forney(f, s)) : a \in 0..nn-1 /\ nn - a \in RootsOf(f) /\ Value(f, nn - a) = {}
<1> DEFINE e == Forney(f, s)
<1>1. nn \in Nat /\ nroots \in Nat
  BY Sizes
<1>2. ASSUME NEW y \in RootsOf(f)
      PROVE  /\ nn - y \in 0..nn-1 /\ nn - (nn - y) = y /\ d \in 1..nroots /\ Value(f, y) = {}
             /\ e[nn - y] = ErrorValue(IndexForm(f), s, y)
  <2>1. y \in 1..nn /\ Value(f, y) = {}
    BY DEF RootsOf
  <2>2. nn - y \in 0..nn-1 /\ nn - (nn - y) = y
    BY <1>1, <2>1
  <2>3. d # 0
    BY RootsFinite, FS_EmptySet
  <2>4. e[nn - y] = ErrorValue(IndexForm(f), s, y)
    BY <2>2 DEF Forney
  <2>5. d \in 1..nroots
    BY <1>1, <2>3
  <2> QED
    BY <2>1, <2>2, <2>4, <2>5
<1>3. ASSUME NEW a \in 0..nn-1 PROVE e[a] \in Symbol
  <2>1. CASE nn - a \in RootsOf(f)
    <3>1. d \in 1..nroots /\ Value(f, nn - a) = {}
      BY <1>2, <2>1
    <3>2. ErrorValue(IndexForm(f), s, nn - a) \in Symbol
      BY <3>1, ForneyValue
    <3> QED
      BY <2>1, <3>2 DEF Forney
  <2>2. CASE nn - a \notin RootsOf(f)
    BY <2>2, Zero DEF Forney
  <2> QED
    BY <2>1, <2>2
<1>4. e \in Vector
  BY <1>3 DEF Forney, Vector
<1>5. ASSUME NEW a \in Support(e) PROVE a \in 0..nn-1 /\ nn - a \in RootsOf(f) /\ Value(f, nn - a) = {}
  BY DEF Support, Forney, RootsOf
<1> QED
  BY <1>2, <1>4, <1>5

\* They have the syndromes that the register was run over, if the locator has the degree of the
\* register's length, and as many roots: both evaluators have the same values at the roots, and
\* so they are the same.
LEMMA FullErrors ==
  ASSUME NEW s \in SyndromeIndices, NEW f, NEW d, Predicts(f, d, nroots, s),
         d = Degree(IndexForm(f)), Cardinality(RootsOf(f)) = d
  PROVE  SyndromesOf(Forney(f, s), s)
<1> DEFINE e == Forney(f, s)
           z == [k \in 0..nroots-1 |-> index_of[At(e, k)]]
<1>1. /\ nroots \in Nat /\ nn \in Nat /\ f \in Polynomial /\ d \in 0..nroots /\ d \in Nat
      /\ f[0] = {0} /\ f[0] # {}
      /\ \A i \in 0..nroots : i > d => f[i] = {}
      /\ \A k \in d..nroots-1 : Conv(IndexForm(f), s, k) = {}
  BY Sizes, One DEF Predicts
<1>2. /\ e \in Vector
      /\ \A y \in RootsOf(f) : /\ nn - y \in 0..nn-1 /\ nn - (nn - y) = y /\ d \in 1..nroots
                               /\ e[nn - y] = ErrorValue(IndexForm(f), s, y)
      /\ \A a \in Support(e) : a \in 0..nn-1 /\ nn - a \in RootsOf(f) /\ Value(f, nn - a) = {}
  BY <1>1, ForneyType
<1> HIDE DEF e
<1>3. z \in SyndromeIndices /\ SyndromesOf(e, z)
  <2>1. \A k : At(e, k) \in Symbol
    BY SumType DEF At
  <2>2. z \in SyndromeIndices
    BY <2>1, IndexFacts DEF SyndromeIndices
  <2> QED
    BY <1>2, <2>2 DEF SyndromesOf
<1> HIDE DEF z
<1>4. ASSUME NEW k \in d..nroots-1 PROVE Conv(IndexForm(f), s, k) = Conv(IndexForm(f), z, k)
  <2>1. k \in 0..nroots-1 /\ k \in Nat /\ \A i \in 0..nroots : i > k => f[i] = {}
    BY <1>1
  <2>2. Conv(IndexForm(f), z, k) = At(Filtered(e, f), k)
    BY <1>1, <1>3, <2>1, ConvFiltered
  <2> DEFINE G == [a \in 0..nn-1 |-> Times(Filtered(e, f)[a], power[a * k])]
  <2>3. ASSUME NEW a \in 0..nn-1 PROVE G[a] = {}
    <3> DEFINE p == power[a * k]   x == e[a]   y == Value(f, nn - a)
    <3>1. x \in Symbol /\ y \in Symbol /\ p \in Symbol
      BY <1>2, <2>1, AtTerm, ValueType
    <3>2. x = {} \/ y = {}
      BY <1>2 DEF Support
    <3>3. G[a] = Times(Times(x, y), p)
      BY DEF Filtered
    <3> HIDE DEF p, x, y, G
    <3>4. Times(x, y) = {}
      BY <3>1, <3>2, TimesLaws
    <3> QED
      BY <3>1, <3>3, <3>4, TimesLaws
  <2>4. nn - 1 \in Nat
    BY Sizes
  <2>5. XorSum(nn - 1, G) = {}
    <3> HIDE DEF G
    <3> QED
      BY <2>3, <2>4, SumOfZeros
  <2>6. At(Filtered(e, f), k) = {}
    BY <2>5 DEF At
  <2> QED
    BY <1>1, <2>2, <2>6
<1>5. ASSUME d # 0, NEW k \in 0..d-1 PROVE Conv(IndexForm(f), s, k) = Conv(IndexForm(f), z, k)
  <2>1. d \in 1..nroots /\ k \in 0..nroots /\ k < d /\ d - 1 \in Nat /\ d - 1 <= nroots
    BY <1>1, <1>5
  <2> DEFINE O == Omega(f, s, d)
             P == Omega(f, z, d)
             D == [i \in 0..nroots |-> Xor(O[i], Times({0}, P[i]))]
  <2>2. ASSUME NEW y \in RootsOf(f) PROVE Value(D, y) = {}
    <3> DEFINE b == nn - y
               W == Value(Quot(f, b), nn - b)
    <3>1. /\ b \in 0..nn-1 /\ nn - b = y /\ Value(f, nn - b) = {} /\ y \in Nat
          /\ e[b] = ErrorValue(IndexForm(f), s, nn - b)
      BY <1>1, <1>2 DEF RootsOf
    <3> HIDE DEF b
    <3>2. Value(O, y) = Times(e[b], W)
      <4>1. XorSum(d - 1, [i \in 0..(d - 1) |-> Times(Conv(IndexForm(f), s, i), power[i * (nn - b)])])
              = Times(ErrorValue(IndexForm(f), s, nn - b), Value(Quot(f, b), nn - b))
        BY <1>1, <2>1, <3>1, ForneyValue
      <4>2. Value(O, y)
              = XorSum(d - 1, [i \in 0..(d - 1) |-> Times(Conv(IndexForm(f), s, i), power[i * y])])
        BY <2>1, <3>1, OmegaValue
      <4> QED
        BY <3>1, <4>1, <4>2
    <3>3. Value(P, y) = Times(e[b], W)
      <4>1. XorSum(d - 1, [i \in 0..(d - 1) |-> Times(Conv(IndexForm(f), z, i), power[i * (nn - b)])])
              = Times(e[b], Value(Quot(f, b), nn - b))
        <5>1. \A a \in Support(e) : Value(f, nn - a) = {}
          BY <1>2
        <5>2. SyndromesOf(e, z) /\ f \in Polynomial /\ d \in 1..nroots
              /\ \A i \in 0..nroots : i > d => f[i] = {}
          BY <1>1, <1>3, <2>1
        <5>3. b \in 0..nn-1 /\ Value(f, nn - b) = {}
          BY <3>1
        <5> HIDE DEF O, P, D, W
        <5> QED
          BY <5>1, <5>2, <5>3, EvaluatorIs
      <4>2. Value(P, y)
              = XorSum(d - 1, [i \in 0..(d - 1) |-> Times(Conv(IndexForm(f), z, i), power[i * y])])
        BY <2>1, <3>1, OmegaValue
      <4> QED
        BY <3>1, <4>1, <4>2
    <3>4. O \in Polynomial /\ P \in Polynomial
      BY <2>1, <3>1, OmegaValue
    <3>5. {0} \in Symbol /\ \A i \in 0..nroots : D[i] = Xor(O[i], Times({0}, P[i]))
      BY One
    <3> HIDE DEF O, P, D, W
    <3>6. Value(D, y) = Xor(Value(O, y), Times({0}, Value(P, y)))
      BY <3>1, <3>4, <3>5, ValueSum
    <3>7. Value(P, y) \in Symbol
      BY ValueType
    <3> QED
      BY <3>2, <3>3, <3>6, <3>7, TimesLaws, XorLaws
  <2>3. O \in Polynomial /\ P \in Polynomial /\ D \in Polynomial
    <3>1. O \in Polynomial /\ P \in Polynomial
      BY <2>1, OmegaValue
    <3>2. \A i \in 0..nroots : D[i] = Xor(O[i], P[i]) /\ D[i] \in Symbol
      <4> TAKE i \in 0..nroots
      <4>1. O[i] \in Symbol /\ P[i] \in Symbol
        BY <3>1 DEF Polynomial
      <4> HIDE DEF O, P
      <4> QED
        BY <4>1, TimesLaws, XorType
    <3> QED
      BY <3>1, <3>2 DEF Polynomial
  <2>4. \A i \in 0..nroots : i > d - 1 => D[i] = {}
    <3> TAKE i \in 0..nroots
    <3> SUFFICES ASSUME i > d - 1 PROVE D[i] = {}
      OBVIOUS
    <3>1. ~(i < d)
      BY <1>1
    <3>2. O[i] = {} /\ P[i] = {}
      BY <3>1 DEF Omega
    <3>3. Times({0}, {}) = {}
      BY One, TimesLaws
    <3> HIDE DEF O, P
    <3> QED
      BY <3>2, <3>3, XorLaws
  <2>5. Cardinality(RootsOf(D)) > d - 1
    <3>1. RootsOf(f) \subseteq RootsOf(D)
      BY <2>2 DEF RootsOf
    <3> HIDE DEF D
    <3>2. IsFiniteSet(RootsOf(D)) /\ Cardinality(RootsOf(D)) \in Nat
      BY RootsFinite
    <3>3. Cardinality(RootsOf(f)) <= Cardinality(RootsOf(D))
      BY <3>1, <3>2, FS_Subset
    <3> QED
      BY <1>1, <3>2, <3>3
  <2>6. D[k] = {}
    <3> HIDE DEF D
    <3>1. FewRoots(d - 1)
      BY <2>1, RootBound
    <3> QED
      BY <2>1, <2>3, <2>4, <2>5, <3>1 DEF FewRoots
  <2>7. O[k] = Conv(IndexForm(f), s, k) /\ P[k] = Conv(IndexForm(f), z, k)
    BY <2>1 DEF Omega
  <2>8. O[k] = P[k]
    <3>1. O[k] \in Symbol /\ P[k] \in Symbol
      BY <2>1, <2>3 DEF Polynomial
    <3>2. D[k] = Xor(O[k], Times({0}, P[k]))
      BY <2>1
    <3> HIDE DEF O, P, D
    <3>3. Times({0}, P[k]) = P[k]
      BY <3>1, TimesLaws
    <3> QED
      BY <2>6, <3>2, <3>3, XorZero
  <2> QED
    BY <2>7, <2>8
<1>6. ASSUME NEW k \in 0..nroots-1 PROVE Conv(IndexForm(f), s, k) = Conv(IndexForm(f), z, k)
  <2>1. k \in d..nroots-1 \/ (d # 0 /\ k \in 0..d-1)
    BY <1>1
  <2> QED
    BY <1>4, <1>5, <2>1
<1>7. \A k \in 0..nroots-1 : s[k] = z[k]
  BY <1>1, <1>3, <1>6, SameRegister
<1> QED
  BY <1>2, <1>3, <1>7 DEF SyndromesOf, e

\* If the register is as short as can be, none of them is zero.
LEMMA FullPlaces ==
  ASSUME NEW s \in SyndromeIndices, NEW st, Predicts(st.lambda, st.el, nroots, s), Shortest(st, s),
         st.el = Degree(IndexForm(st.lambda)), Cardinality(RootsOf(st.lambda)) = st.el
  PROVE  /\ SyndromesOf(Forney(st.lambda, s), s)
         /\ PlacesOf(Forney(st.lambda, s)) = RootsOf(st.lambda)
         /\ Cardinality(Support(Forney(st.lambda, s))) = st.el
         /\ \A b \in Support(Forney(st.lambda, s)) :
              ErrorValue(IndexForm(st.lambda), s, nn - b) = Forney(st.lambda, s)[b]
<1> DEFINE f == st.lambda
           d == st.el
           e == Forney(f, s)
<1>1. SyndromesOf(e, s)
  BY FullErrors
<1>2. e \in Vector /\ d <= Cardinality(Support(e))
  BY <1>1 DEF SyndromesOf, Shortest
<1>3. PlacesOf(e) \subseteq RootsOf(f)
  BY DEF PlacesOf, Support, Forney
<1>4. \A b \in Support(e) : ErrorValue(IndexForm(f), s, nn - b) = e[b]
  BY DEF Support, Forney
<1> HIDE DEF e, f
<1>5. IsFiniteSet(RootsOf(f)) /\ Cardinality(PlacesOf(e)) = Cardinality(Support(e))
  BY RootsFinite, PlacesFacts
<1>6. Cardinality(PlacesOf(e)) <= Cardinality(RootsOf(f)) /\ Cardinality(RootsOf(f)) \in Nat
      /\ Cardinality(Support(e)) \in Nat
  BY <1>3, <1>5, FS_Subset, RootsFinite, SupportFinite
<1>7. Cardinality(PlacesOf(e)) = Cardinality(RootsOf(f))
  BY <1>2, <1>5, <1>6 DEF f
<1>8. PlacesOf(e) = RootsOf(f)
  BY <1>3, <1>5, <1>7, FS_Subset
<1> QED
  BY <1>1, <1>4, <1>5, <1>7, <1>8 DEF e, f


\* A word without syndromes is the codeword of its data.
LEMMA OnlyCodeword ==
  ASSUME NEW c \in [0..nn-1 -> Symbol], \A k \in 0..nroots-1 : Syndromes(c)[k] = nn,
         NEW data \in Message, \A i \in DataSymbol : data[i] = c[i]
  PROVE  Codeword(c, data)
<1> DEFINE par == encode_rs8(data, ZeroParity)
           u == [i \in 0..nn-1 |-> IF i \in DataSymbol THEN data[i] ELSE par[i - (nn - nroots)]]
           e == Difference(c, u)
<1>1. nn \in Nat /\ nroots \in Nat /\ nroots < nn
  BY Sizes
<1>2. par \in Parity
  <2>1. ZeroParity \in Parity
    BY Zero DEF ZeroParity, Parity
  <2> QED
    BY <2>1, EncodeType
<1> HIDE DEF par
<1>3. ASSUME NEW i \in 0..nn-1
      PROVE  u[i] \in Symbol /\ (i \in DataSymbol => u[i] = data[i])
             /\ (i \notin DataSymbol => u[i] = par[i - (nn - nroots)] /\ i - (nn - nroots) \in 0..nroots-1)
  <2>1. i \in DataSymbol => data[i] \in Symbol
    BY DEF Message
  <2>2. i \notin DataSymbol => i - (nn - nroots) \in 0..nroots-1
    BY <1>1 DEF DataSymbol
  <2>3. i \notin DataSymbol => par[i - (nn - nroots)] \in Symbol
    BY <1>2, <2>2 DEF Parity
  <2> QED
    BY <2>1, <2>2, <2>3
<1>4. u \in [0..nn-1 -> Symbol]
  <2>1. \A i \in 0..nn-1 : (IF i \in DataSymbol THEN data[i] ELSE par[i - (nn - nroots)]) \in Symbol
    BY <1>3
  <2> QED
    BY <2>1
<1>5. Codeword(u, data)
  <2>1. ASSUME NEW i \in DataSymbol PROVE u[i] = data[i]
    <3>1. i \in 0..nn-1
      BY <1>1 DEF DataSymbol
    <3> QED
      BY <3>1
  <2>2. ASSUME NEW j \in 0..nroots-1 PROVE u[nn - nroots + j] = par[j]
    <3> DEFINE i == nn - nroots + j
    <3>1. i \in 0..nn-1 /\ i \notin DataSymbol /\ i - (nn - nroots) = j
      BY <1>1 DEF DataSymbol
    <3> HIDE DEF i, u
    <3>2. u[i] = par[i - (nn - nroots)]
      BY <1>3, <3>1
    <3> QED
      BY <3>1, <3>2 DEF i
  <2> HIDE DEF u
  <2> QED
    BY <1>4, <2>1, <2>2 DEF Codeword, par
<1> HIDE DEF u
<1>6. e \in Vector /\ SyndromesOf(e, Syndromes(c))
  BY <1>4, <1>5, DifferenceFacts, SyndromesAre
<1>7. \A k \in Nat : 0 <= k /\ k < 0 + nroots => At(e, k) = {}
  <2> SUFFICES ASSUME NEW k \in Nat, k < 0 + nroots PROVE At(e, k) = {}
    OBVIOUS
  <2> HIDE DEF e
  <2>1. k \in 0..nroots-1
    BY <1>1
  <2>2. index_of[At(e, k)] = nn
    BY <1>6, <2>1 DEF SyndromesOf
  <2>3. At(e, k) \in Symbol
    BY SumType DEF At
  <2> QED
    BY <2>2, <2>3, IndexFacts
<1>8. Cardinality(Support(e)) <= nroots
  <2>1. ASSUME NEW a \in Support(e) PROVE a \in 0..(nroots - 1)
    <3> DEFINE i == nn - 1 - a
    <3>1. a \in 0..nn-1 /\ i \in 0..nn-1 /\ nn - 1 - i = a
      BY <1>1 DEF Support
    <3> HIDE DEF i
    <3>2. i \in Differing(c, u)
      BY <1>4, <3>1, DifferenceFacts
    <3>3. c[i] # u[i]
      BY <3>2 DEF Differing
    <3>4. i \notin DataSymbol
      BY <1>3, <3>1, <3>3
    <3> QED
      BY <1>1, <3>1, <3>4 DEF DataSymbol
  <2>3. IsFiniteSet(0..(nroots - 1)) /\ Cardinality(0..(nroots - 1)) = nroots
    <3> DEFINE n == nroots - 1
    <3>1. n \in Int /\ n - 0 + 1 = nroots /\ (0 > n => nroots = 0)
      BY <1>1
    <3> HIDE DEF n
    <3>2. IsFiniteSet(0..n) /\ Cardinality(0..n) = nroots
      BY <3>1, FS_Interval
    <3> QED
      BY <3>2 DEF n
  <2>4. Support(e) \in SUBSET (0..(nroots - 1))
    BY <2>1
  <2> HIDE DEF e
  <2> QED
    BY <2>3, <2>4, FS_Subset
<1>9. Support(e) = {}
  <2>1. Traced(nroots) /\ 0 \in Nat
    BY <1>1, Trace
  <2> HIDE DEF e
  <2> QED
    BY <1>6, <1>7, <1>8, <2>1 DEF Traced
<1>10. ASSUME NEW i \in 0..nn-1 PROVE c[i] = u[i]
  <2>1. i \notin Differing(c, u)
    BY <1>4, <1>9, DifferenceFacts
  <2> QED
    BY <2>1 DEF Differing
<1>11. ASSUME NEW j \in 0..nroots-1 PROVE c[nn - nroots + j] = encode_rs8(data, ZeroParity)[j]
  <2>1. nn - nroots + j \in 0..nn-1
    BY <1>1
  <2> QED
    BY <1>5, <1>10, <2>1 DEF Codeword
<1> QED
  BY <1>11 DEF Codeword

\* The symbols in which a word differs from the codeword of some data.
Changes(w, data) ==
  {i \in 0..nn-1 : w[i] # IF i \in DataSymbol THEN data[i]
                          ELSE encode_rs8(data, ZeroParity)[i - (nn - nroots)]}

\* A word's changes against its data are where it differs from their codeword.
LEMMA ChangesAre ==
  ASSUME NEW w, NEW c, NEW data, Codeword(c, data)
  PROVE  Changes(w, data) = Differing(w, c)
<1> DEFINE par == encode_rs8(data, ZeroParity)
<1>1. ASSUME NEW i \in 0..nn-1
      PROVE  c[i] = IF i \in DataSymbol THEN data[i] ELSE par[i - (nn - nroots)]
  <2>1. CASE i \in DataSymbol
    BY <2>1 DEF Codeword
  <2>2. CASE i \notin DataSymbol
    <3> DEFINE j == i - (nn - nroots)
    <3>1. j \in 0..nroots-1 /\ nn - nroots + j = i
      BY <2>2, Sizes DEF DataSymbol
    <3> HIDE DEF j
    <3>2. c[nn - nroots + j] = par[j]
      BY <3>1 DEF Codeword
    <3> QED
      BY <2>2, <3>1, <3>2 DEF j
  <2> QED
    BY <2>1, <2>2
<1> HIDE DEF par
<1> QED
  BY <1>1 DEF Changes, Differing, par

\* Without these errors a word is a codeword.
LEMMA ClearedWord ==
  ASSUME NEW w \in [0..nn-1 -> Symbol], NEW e, SyndromesOf(e, Syndromes(w))
  PROVE  Cardinality(Changes(w, Cleared(w, e))) = Cardinality(Support(e))
<1> DEFINE c == [i \in 0..nn-1 |-> Xor(w[i], e[nn - 1 - i])]
<1>1. nn \in Nat /\ nroots \in Nat /\ nroots < nn /\ e \in Vector /\ nn - 1 \in Nat
  BY Sizes DEF SyndromesOf
<1>2. ASSUME NEW i \in 0..nn-1
      PROVE  /\ w[i] \in Symbol /\ e[nn - 1 - i] \in Symbol /\ c[i] \in Symbol
             /\ nn - 1 - i \in 0..nn-1 /\ nn - 1 - (nn - 1 - i) = i
             /\ Xor(w[i], c[i]) = e[nn - 1 - i]
  <2>1. nn - 1 - i \in 0..nn-1 /\ nn - 1 - (nn - 1 - i) = i
    BY <1>1
  <2>2. e[nn - 1 - i] \in Symbol
    BY <1>1, <2>1 DEF Vector
  <2>3. Xor(w[i], e[nn - 1 - i]) \in Symbol
    BY <2>2, XorType
  <2>4. Xor(w[i], Xor(w[i], e[nn - 1 - i])) = e[nn - 1 - i]
    BY DEF Xor
  <2> QED
    BY <2>1, <2>2, <2>3, <2>4
<1>3. c \in [0..nn-1 -> Symbol]
  BY <1>2
<1>4. Difference(w, c) = e
  <2>1. ASSUME NEW a \in 0..nn-1 PROVE Xor(w[nn - 1 - a], c[nn - 1 - a]) = e[a]
    <3> DEFINE i == nn - 1 - a
    <3>1. i \in 0..nn-1 /\ nn - 1 - i = a
      BY <1>1
    <3> HIDE DEF i, c
    <3> QED
      BY <1>2, <3>1 DEF i
  <2>2. e = [a \in 0..nn-1 |-> e[a]]
    BY <1>1 DEF Vector
  <2> HIDE DEF c
  <2> QED
    BY <2>1, <2>2 DEF Difference
<1>5. ASSUME NEW k \in 0..nroots-1 PROVE Syndromes(c)[k] = nn
  <2> DEFINE F == [a \in 0..nn-1 |-> Times(Reversed(w)[a], power[a * k])]
             G == [a \in 0..nn-1 |-> Times(e[a], power[a * k])]
             H == [a \in 0..nn-1 |-> Times(Reversed(c)[a], power[a * k])]
  <2>1. k \in Nat
    BY <1>1
  <2>2. ASSUME NEW a \in 0..nn-1
        PROVE  F[a] \in Symbol /\ G[a] \in Symbol /\ H[a] = Xor(F[a], G[a])
    <3> DEFINE x == w[nn - 1 - a]   y == e[a]   p == power[a * k]
    <3>1. nn - 1 - a \in 0..nn-1 /\ nn - 1 - (nn - 1 - a) = a
      BY <1>1
    <3>2. x \in Symbol /\ y \in Symbol /\ p \in Symbol
      BY <1>1, <2>1, <3>1, AtTerm
    <3>3. c[nn - 1 - a] = Xor(x, y)
      BY <3>1
    <3>4. F[a] = Times(x, p) /\ G[a] = Times(y, p) /\ H[a] = Times(c[nn - 1 - a], p)
      BY DEF Reversed
    <3> HIDE DEF x, y, p, F, G, H, c
    <3> QED
      BY <3>2, <3>3, <3>4, TimesType, TimesDistributive
  <2> HIDE DEF F, G, H, c
  <2>3. XorSum(nn - 1, H) = Xor(XorSum(nn - 1, F), XorSum(nn - 1, G))
    BY <1>1, <2>2, SumOfSums
  <2>4. At(Reversed(c), k) = Xor(At(Reversed(w), k), At(e, k))
    BY <2>3 DEF At, F, G, H
  <2>5. index_of[At(e, k)] = index_of[At(Reversed(w), k)]
    BY SyndromeIsValue DEF SyndromesOf
  <2>6. At(e, k) \in Symbol /\ At(Reversed(w), k) \in Symbol
    BY SumType DEF At
  <2>7. At(e, k) = At(Reversed(w), k)
    <3>1. alpha_to[index_of[At(e, k)]] = At(e, k)
      BY <2>6, IndexFacts
    <3>2. alpha_to[index_of[At(Reversed(w), k)]] = At(Reversed(w), k)
      BY <2>6, IndexFacts
    <3> QED
      BY <2>5, <3>1, <3>2
  <2>8. At(Reversed(c), k) = {}
    BY <2>4, <2>7, XorLaws
  <2>9. Syndromes(c)[k] = index_of[At(Reversed(c), k)]
    BY <1>3, SyndromeIsValue
  <2> QED
    BY <2>8, <2>9, Zero, IndexFacts
<1>6. Cleared(w, e) \in Message /\ \A i \in DataSymbol : Cleared(w, e)[i] = c[i]
  <2>1. ASSUME NEW i \in DataSymbol PROVE Xor(w[i], e[nn - 1 - i]) \in Symbol /\ Xor(w[i], e[nn - 1 - i]) = c[i]
    <3>1. i \in 0..nn-1
      BY <1>1 DEF DataSymbol
    <3> QED
      BY <1>2, <3>1
  <2> HIDE DEF c
  <2> QED
    BY <2>1 DEF Cleared, Message
<1> HIDE DEF c
<1>7. Codeword(c, Cleared(w, e))
  BY <1>3, <1>5, <1>6, OnlyCodeword
<1>8. Changes(w, Cleared(w, e)) = Differing(w, c)
  BY <1>7, ChangesAre
<1>9. Cardinality(Support(e)) = Cardinality(Differing(w, c))
  BY <1>3, <1>4, DifferenceFacts
<1> QED
  BY <1>8, <1>9

\* An answer with a locator of full degree is a codeword, as far away as it says.
LEMMA FullIs ==
  ASSUME NEW w \in [0..nn-1 -> Symbol], NEW st, Locates(st, nroots, Syndromes(w)),
         Shortest(st, Syndromes(w)), Degree(IndexForm(st.lambda)) = st.el,
         NEW result, result = Correct(w, Syndromes(w), st), result.count >= 0
  PROVE  Cardinality(Changes(w, result.data)) = result.count
<1> DEFINE s == Syndromes(w)
           f == st.lambda
           lambda == IndexForm(f)
           d == st.el
           e == Forney(f, s)
<1>1. s \in SyndromeIndices /\ Predicts(f, d, nroots, s) /\ nroots \in Nat
  BY SyndromesType, Sizes DEF SyndromeIndices, Locates
<1>2. /\ f \in Polynomial /\ f[0] # {} /\ d \in 0..nroots /\ d = Degree(lambda)
      /\ \A i \in 0..nroots : i > d => f[i] = {}
  BY <1>1, One DEF Predicts
<1>3. Located(lambda)
  <2> SUFFICES ASSUME ~Located(lambda) PROVE FALSE
    OBVIOUS
  <2>1. result.count = -EBADMSG
    BY DEF Correct
  <2> QED
    BY <2>1 DEF EBADMSG
<1>4. Roots(lambda) = RootsOf(f)
  <2>1. ASSUME NEW x \in 1..nn PROVE ValueAt(lambda, 0..Degree(lambda), x) = Value(f, x)
    <3>1. x \in Nat
      OBVIOUS
    <3>2. ValueAt(lambda, 0..d, x) = Value(f, x)
      BY <1>2, <3>1, ValueAtIs
    <3> QED
      BY <1>2, <3>2
  <2> HIDE DEF lambda, f
  <2> QED
    BY <2>1 DEF Roots, RootsOf
<1>5. Cardinality(RootsOf(f)) = d
  BY <1>2, <1>3, <1>4 DEF Located
<1>6. /\ SyndromesOf(e, s) /\ PlacesOf(e) = RootsOf(f) /\ Cardinality(Support(e)) = d
      /\ \A b \in Support(e) : ErrorValue(lambda, s, nn - b) = e[b]
  <2>1. /\ Predicts(st.lambda, st.el, nroots, s) /\ Shortest(st, s) /\ s \in SyndromeIndices
        /\ st.el = Degree(IndexForm(st.lambda)) /\ Cardinality(RootsOf(st.lambda)) = st.el
    BY <1>1, <1>2, <1>5
  <2> HIDE DEF s
  <2>2. /\ SyndromesOf(Forney(st.lambda, s), s)
        /\ PlacesOf(Forney(st.lambda, s)) = RootsOf(st.lambda)
        /\ Cardinality(Support(Forney(st.lambda, s))) = st.el
        /\ \A b \in Support(Forney(st.lambda, s)) :
             ErrorValue(IndexForm(st.lambda), s, nn - b) = Forney(st.lambda, s)[b]
    BY <2>1, FullPlaces
  <2> QED
    BY <2>2
<1>7. result.count = Cardinality(Support(e)) /\ result.data = Cleared(w, e)
  <2>1. e \in Vector
    BY <1>6 DEF SyndromesOf
  <2> HIDE DEF s, e
  <2>2. /\ Degree(IndexForm(st.lambda)) = Cardinality(Support(e))
        /\ Roots(IndexForm(st.lambda)) = PlacesOf(e)
        /\ \A b \in Support(e) : ErrorValue(IndexForm(st.lambda), s, nn - b) = e[b]
    BY <1>4, <1>6
  <2>3. result = Correct(w, s, st)
    BY DEF s
  <2> HIDE DEF f, lambda, d
  <2> QED
    BY <2>1, <2>2, <2>3, CorrectedIs
<1> HIDE DEF e
<1>8. Cardinality(Changes(w, Cleared(w, e))) = Cardinality(Support(e))
  BY <1>6, ClearedWord
<1> QED
  BY <1>7, <1>8


\* The decoder's answer to a half is one, whatever was sent.
LEMMA FinishFull ==
  Carried /\ Locating /\ Deciding /\ Finish => FullDegreeIsCodeword'
<1> SUFFICES ASSUME Carried, Locating, Deciding, Finish,
                    NEW h \in Half, JustCorrected(h)',
                    Degree(IndexForm(register'.lambda)) = register'.el
             PROVE  Cardinality(Corrections(h)') = results'[h + 1].count
  BY DEF FullDegreeIsCodeword
<1> DEFINE result == Correct(Word(half), syn, register)
<1>1. /\ half \in Half /\ phase = "locate" /\ full_message = ReadBack(decoded)
      /\ Locates(register, nroots, syn) /\ results' = Append(results, result)
      /\ full_message' = full_message /\ register' = register
  BY DEF Carried, Locating, Finish, Written
<1>2. syn = Syndromes(Word(half)) /\ Shortest(register, syn)
  BY <1>1 DEF Deciding
<1> HIDE DEF result
<1>3. half = h /\ results'[h + 1] = result
  <2>1. Len(results') = h + 1
    BY DEF JustCorrected
  <2>2. CASE half = 0
    <3>1. results = <<>>
      BY <1>1, <2>2 DEF Deciding
    <3>2. results' = <<result>> /\ Len(results') = 1 /\ results'[1] = result
      BY <1>1, <3>1
    <3>3. h = 0 /\ h + 1 = 1
      BY <2>1, <3>2 DEF Half
    <3> QED
      BY <2>2, <3>2, <3>3
  <2>3. CASE half = 1
    <3>1. results = <<results[1]>>
      BY <1>1, <2>3 DEF Deciding
    <3> DEFINE first == results[1]
    <3>2. results = <<first>>
      BY <3>1
    <3> HIDE DEF first
    <3>3. Len(results') = 2 /\ results'[2] = result
      BY <1>1, <3>2, AppendToOne
    <3>4. h = 1 /\ h + 1 = 2
      BY <2>1, <3>3 DEF Half
    <3> QED
      BY <2>3, <3>3, <3>4
  <2> QED
    BY <1>1, <2>2, <2>3 DEF Half
<1> DEFINE w == Word(h)
<1>4. w \in [0..nn-1 -> Symbol]
  BY <1>1, WordType
<1>5. result = Correct(w, Syndromes(w), register)
  BY <1>2, <1>3 DEF result
<1>6. /\ Locates(register, nroots, Syndromes(w)) /\ Shortest(register, Syndromes(w))
      /\ Degree(IndexForm(register.lambda)) = register.el /\ result.count >= 0
  BY <1>1, <1>2, <1>3 DEF JustCorrected
<1>7. Corrections(h)' = Changes(w, result.data)
  <2>1. Word(h)' = w
    BY <1>1 DEF Word
  <2> HIDE DEF w
  <2> QED
    BY <1>3, <2>1 DEF Corrections, Changes
<1> HIDE DEF w
<1>8. Cardinality(Changes(w, result.data)) = result.count
  BY <1>4, <1>5, <1>6, FullIs
<1> QED
  BY <1>3, <1>7, <1>8

\* Every other step leaves the answers alone, or comes before any.
LEMMA FullStep ==
  Carried /\ Locating /\ Deciding /\ FullDegreeIsCodeword /\ [Next]_vars => FullDegreeIsCodeword'
<1> SUFFICES ASSUME Carried, Locating, Deciding, FullDegreeIsCodeword, [Next]_vars
             PROVE  FullDegreeIsCodeword'
  OBVIOUS
<1>1. CASE Encode
  <2>1. Len(results') = 0
    BY <1>1 DEF Encode
  <2> QED
    BY <2>1 DEF FullDegreeIsCodeword, JustCorrected, Half
<1>2. CASE Embed \/ Compress \/ Read
  <2>1. Len(results') = 0
    BY <1>2 DEF Embed, Compress, Read, Deciding
  <2> QED
    BY <2>1 DEF FullDegreeIsCodeword, JustCorrected, Half
<1>3. CASE Decode
  <2>1. r' # nroots
    BY <1>3, Sizes DEF Decode
  <2> QED
    BY <2>1 DEF FullDegreeIsCodeword, JustCorrected
<1>4. CASE Locate
  <2>1. phase' = "locate"
    BY <1>4 DEF Locate
  <2> QED
    BY <2>1 DEF FullDegreeIsCodeword, JustCorrected
<1>5. CASE Finish
  BY <1>5, FinishFull
<1>6. CASE UNCHANGED vars
  BY <1>6 DEF vars, FullDegreeIsCodeword, JustCorrected, Corrections, Word
<1> QED
  BY <1>1, <1>2, <1>3, <1>4, <1>5, <1>6 DEF Next

\* decode_rs8() compares the number of roots with the degree, and nothing else: when the locator
\* has the degree of the register's length, an answer that is no -EBADMSG is a codeword all the
\* same, and its distance from what was received is the number returned, however many symbols
\* were wrong.
THEOREM FullDegreeIsCodewordHolds == Spec => []FullDegreeIsCodeword
<1>1. Init => FullDegreeIsCodeword
  <2> SUFFICES ASSUME Init PROVE FullDegreeIsCodeword
    OBVIOUS
  <2>1. Len(results) = 0
    BY DEF Init
  <2> QED
    BY <2>1 DEF FullDegreeIsCodeword, JustCorrected, Half
<1> QED
  BY <1>1, FullStep, CarriedHolds, LocatingHolds, DecidingHolds, PTL DEF Spec

=============================================================================
