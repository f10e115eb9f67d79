---------------------------- MODULE BacchantProofs ----------------------------
(***************************************************************************)
(* Proofs about Bacchant, for payloads of any length, images of any shape   *)
(* and chunks of any number of rows: what a block may suffer before it is   *)
(* read as another symbol; that the picture has room for the message and    *)
(* puts it where the decoders look; and that they read it when it goes on   *)
(* below the header.                                                        *)
(*                                                                         *)
(* The argument: Index inverts Pos, so the character that is read in a pair *)
(* of blocks is the one that was painted there, and row r begins with       *)
(* character Start(cols, r).  The incremental decoder then keeps            *)
(* count + 8 = Start(cols, y) until the length is reached (Collected).      *)
(*                                                                         *)
(* Induction over numbers is done by taking the least counterexample.       *)
(***************************************************************************)
EXTENDS Bacchant, SequenceTheorems, FiniteSetTheorems, WellFoundedInduction, TLAPS

\* The luminance of a block stands for its symbol as long as the sum over its four
\* pixels is within 68 steps (in thousandths: 68000) of the painted one.
LEMMA BinOfLevel ==
  ASSUME NEW v \in 0..7, NEW d \in Int, -68000 <= d, d <= 68000
  PROVE  Bin(4000 * Level[v + 1] + d) = v
<1>1. v \in {0, 1, 2, 3, 4, 5, 6, 7}
  OBVIOUS
<1>2. CASE v = 0
  BY <1>2 DEF Bin, Level, MinOf
<1>3. CASE v = 1
  BY <1>3 DEF Bin, Level, MinOf
<1>4. CASE v = 2
  BY <1>4 DEF Bin, Level, MinOf
<1>5. CASE v = 3
  BY <1>5 DEF Bin, Level, MinOf
<1>6. CASE v = 4
  BY <1>6 DEF Bin, Level, MinOf
<1>7. CASE v = 5
  BY <1>7 DEF Bin, Level, MinOf
<1>8. CASE v = 6
  BY <1>8 DEF Bin, Level, MinOf
<1>9. CASE v = 7
  BY <1>9 DEF Bin, Level, MinOf
<1> QED
  BY <1>1, <1>2, <1>3, <1>4, <1>5, <1>6, <1>7, <1>8, <1>9

\* While a recognised image is being read, getBase8Value() recovers every level of
\* a block all of whose pixels have changed by up to 17 gray steps: the invariant
\* that TLC checks.
THEOREM NoiseHolds == Spec => []NoiseTolerated
<1>1. NoiseTolerated
  <2> SUFFICES ASSUME NEW v \in 0..7, NEW e \in -17..17
               PROVE  Bin(BlockLum(Level[v + 1], e)) = v
    BY DEF NoiseTolerated
  <2>1. 4000 * e \in Int /\ -68000 <= 4000 * e /\ 4000 * e <= 68000
    OBVIOUS
  <2>2. Level[v + 1] \in Int
    BY DEF Level
  <2>3. BlockLum(Level[v + 1], e) = 4000 * Level[v + 1] + 4000 * e
    BY <2>2 DEF BlockLum, Lum
  <2> QED
    BY <2>1, <2>3, BinOfLevel
<1> QED
  BY <1>1, PTL

\* The weighted sum of a colour that is within 17 steps of a gray level in each
\* channel.
LEMMA LumWithin ==
  ASSUME NEW g \in Int, NEW p \in Int \X Int \X Int,
         \A k \in 1..3 : p[k] - g \in -17..17
  PROVE  -17000 <= Lum(p) - 1000 * g /\ Lum(p) - 1000 * g <= 17000
<1>1. p[1] - g \in -17..17 /\ p[2] - g \in -17..17 /\ p[3] - g \in -17..17
  OBVIOUS
<1>2. p[1] \in Int /\ p[2] \in Int /\ p[3] \in Int
  OBVIOUS
<1> QED
  BY <1>1, <1>2 DEF Lum

\* The same for the pixels JPEG really produces: the four pixels of a block may
\* change independently and in colour, each channel by up to 17 steps, and the
\* block is still read as the symbol that set_block() painted.
THEOREM ColourNoise ==
  ASSUME NEW v \in 0..7, NEW block \in [1..4 -> Int \X Int \X Int],
         \A i \in 1..4, k \in 1..3 : block[i][k] - Level[v + 1] \in -17..17
  PROVE  Bin(Lum(block[1]) + Lum(block[2]) + Lum(block[3]) + Lum(block[4])) = v
<1> DEFINE g == Level[v + 1]
<1>1. g \in Int
  BY DEF Level
<1>2. \A i \in 1..4 : -17000 <= Lum(block[i]) - 1000 * g /\ Lum(block[i]) - 1000 * g <= 17000
  <2> SUFFICES ASSUME NEW i \in 1..4
               PROVE  -17000 <= Lum(block[i]) - 1000 * g /\ Lum(block[i]) - 1000 * g <= 17000
    OBVIOUS
  <2> DEFINE p == block[i]
  <2>1. p \in Int \X Int \X Int
    OBVIOUS
  <2>2. \A k \in 1..3 : p[k] - g \in -17..17
    OBVIOUS
  <2> HIDE DEF p, g
  <2>3. -17000 <= Lum(p) - 1000 * g /\ Lum(p) - 1000 * g <= 17000
    BY <1>1, <2>1, <2>2, LumWithin
  <2> QED
    BY <2>3 DEF p
<1>3. \A i \in 1..4 : Lum(block[i]) \in Int
  <2> SUFFICES ASSUME NEW i \in 1..4 PROVE Lum(block[i]) \in Int
    OBVIOUS
  <2>1. block[i] \in Int \X Int \X Int
    OBVIOUS
  <2> QED
    BY <2>1 DEF Lum
<1> DEFINE sum == Lum(block[1]) + Lum(block[2]) + Lum(block[3]) + Lum(block[4])
           d == sum - 4000 * g
<1>4. d \in Int /\ -68000 <= d /\ d <= 68000 /\ sum = 4000 * g + d
  <2> HIDE DEF g
  <2>1. /\ -17000 <= Lum(block[1]) - 1000 * g /\ Lum(block[1]) - 1000 * g <= 17000
        /\ -17000 <= Lum(block[2]) - 1000 * g /\ Lum(block[2]) - 1000 * g <= 17000
        /\ -17000 <= Lum(block[3]) - 1000 * g /\ Lum(block[3]) - 1000 * g <= 17000
        /\ -17000 <= Lum(block[4]) - 1000 * g /\ Lum(block[4]) - 1000 * g <= 17000
    BY <1>2
  <2>2. /\ Lum(block[1]) \in Int /\ Lum(block[2]) \in Int
        /\ Lum(block[3]) \in Int /\ Lum(block[4]) \in Int
    BY <1>3
  <2> QED
    BY <1>1, <2>1, <2>2
<1>5. Bin(4000 * g + d) = v
  <2> HIDE DEF d
  <2> QED
    BY <1>4, BinOfLevel
<1> QED
  BY <1>4, <1>5
-------------------------------------------------------------------------------
(* Numbers.                                                                 *)

Less == {p \in Nat \X Nat : p[1] < p[2]}

\* Every set of natural numbers that is not empty has a least element.
LEMMA LeastNumber ==
  ASSUME NEW T \in SUBSET Nat, T # {}
  PROVE  \E m \in T : \A n \in T : m <= n
<1>1. IsWellFoundedOn(Less, Nat)
  BY NatLessThanWellFounded DEF Less, OpToRel
<1>2. PICK m \in T : \A n \in T : <<n, m>> \notin Less
  BY <1>1, WFMin
<1>3. m \in Nat /\ \A n \in T : n \in Nat /\ ~(n < m)
  BY <1>2 DEF Less
<1>4. \A n \in T : m <= n
  BY <1>3
<1> QED
  BY <1>4

\* Division with remainder: it exists,
LEMMA DivMod ==
  ASSUME NEW i \in Nat, NEW w \in Nat, w # 0
  PROVE  i \div w \in Nat /\ i % w \in 0..(w - 1) /\ i = w * (i \div w) + (i % w)
OBVIOUS

\* and it is unique.
LEMMA DivModOf ==
  ASSUME NEW w \in Nat, NEW d \in Nat, NEW m \in Nat, m < w
  PROVE  (w * d + m) \div w = d /\ (w * d + m) % w = m
OBVIOUS

\* A rounded-up quotient is enough.
LEMMA CeilDivFacts ==
  ASSUME NEW a \in Nat, NEW b \in Nat, b # 0
  PROVE  CeilDiv(a, b) \in Nat /\ a <= b * CeilDiv(a, b)
<1> DEFINE c == a + b - 1
           d == c \div b
           m == c % b
<1>1. c \in Nat
  OBVIOUS
<1>2. d \in Nat /\ m \in 0..(b - 1) /\ c = b * d + m
  <2> HIDE DEF c
  <2> QED
    BY <1>1, DivMod
<1>3. b * d \in Nat
  <2> HIDE DEF d
  <2> QED
    BY <1>2
<1>4. a <= b * d
  <2> DEFINE bd == b * d
  <2>1. bd \in Nat /\ m \in 0..(b - 1) /\ a + b - 1 = bd + m
    BY <1>2, <1>3
  <2> HIDE DEF bd, m
  <2> QED
    BY <2>1 DEF bd
<1> QED
  BY <1>2, <1>4 DEF CeilDiv

\* CeilSqrt finds a root that is large enough.
LEMMA CeilSqrtFacts ==
  ASSUME NEW p \in Nat, NEW q \in Nat, q # 0
  PROVE  CeilSqrt(p, q) \in Nat /\ p <= CeilSqrt(p, q) * CeilSqrt(p, q) * q
<1> DEFINE T == {k \in 0..p : p <= k * k * q}
<1>1. p \in T
  <2>1. p <= p * p
    OBVIOUS
  <2>2. \A a \in Nat : a <= a * q
    OBVIOUS
  <2>3. p * p \in Nat
    OBVIOUS
  <2>4. p * p <= p * p * q
    BY <2>2, <2>3
  <2>5. \A a, b, c \in Nat : a <= b /\ b <= c => a <= c
    OBVIOUS
  <2>6. p * p * q \in Nat
    BY <2>3
  <2>7. p <= p * p * q
    BY <2>1, <2>3, <2>4, <2>5, <2>6
  <2> QED
    BY <2>7
<1>2. PICK m \in T : \A k \in T : m <= k
  <2>1. T \in SUBSET Nat /\ T # {}
    BY <1>1
  <2> HIDE DEF T
  <2> QED
    BY <2>1, LeastNumber
<1>3. \E k \in 0..p : k * k * q >= p /\ \A j \in 0..(k - 1) : j * j * q < p
  <2>1. m \in 0..p /\ m * m * q >= p
    BY <1>2
  <2>2. ASSUME NEW j \in 0..(m - 1) PROVE j * j * q < p
    <3>1. j \in 0..p /\ ~(m <= j)
      BY <2>1
    <3>2. j \notin T
      <4> HIDE DEF T
      <4> QED
        BY <1>2, <3>1
    <3>3. j * j * q \in Nat
      BY <3>1
    <3> QED
      BY <3>1, <3>2, <3>3
  <2> QED
    BY <2>1, <2>2
<1>4. CeilSqrt(p, q) \in 0..p /\ CeilSqrt(p, q) * CeilSqrt(p, q) * q >= p
  BY <1>3 DEF CeilSqrt
<1> HIDE DEF T
<1> QED
  BY <1>4

\* The product of two roots whose arguments' shapes cancel out.
LEMMA ProductOfRoots ==
  ASSUME NEW c \in Nat, NEW d \in Nat, NEW P \in Nat, NEW a \in Nat, NEW b \in Nat,
         a # 0, b # 0, P * a <= c * c * b, P * b <= d * d * a
  PROVE  P <= c * d
<1> DEFINE k == c * d
           ab == a * b
<1>1. k \in Nat /\ ab \in Nat /\ ab # 0
  OBVIOUS
<1>2. (P * a) * (P * b) <= (c * c * b) * (d * d * a)
  <2> DEFINE u == P * a  v == P * b  x == c * c * b  z == d * d * a
  <2>1. u \in Nat /\ v \in Nat /\ x \in Nat /\ z \in Nat /\ u <= x /\ v <= z
    OBVIOUS
  <2> HIDE DEF u, v, x, z
  <2>2. u * v <= x * v /\ x * v <= x * z
    BY <2>1
  <2>3. u * v <= x * z
    BY <2>1, <2>2
  <2> QED
    BY <2>3 DEF u, v, x, z
<1>3. (P * a) * (P * b) = P * P * ab /\ (c * c * b) * (d * d * a) = k * k * ab
  OBVIOUS
<1>4. P * P * ab <= k * k * ab
  BY <1>2, <1>3
<1> HIDE DEF k, ab
<1>5. P * P <= k * k
  <2> DEFINE pp == P * P  kk == k * k
  <2>1. pp \in Nat /\ kk \in Nat /\ pp * ab <= kk * ab
    BY <1>1, <1>4
  <2> HIDE DEF pp, kk
  <2>2. pp <= kk
    <3> SUFFICES ASSUME kk < pp PROVE FALSE
      BY <2>1
    <3>1. kk * ab < pp * ab
      BY <1>1, <2>1
    <3> QED
      BY <1>1, <2>1, <3>1
  <2> QED
    BY <2>2 DEF pp, kk
<1>6. P <= k
  <2> SUFFICES ASSUME k < P PROVE FALSE
    BY <1>1
  <2>1. k * k < P * P
    BY <1>1
  <2> QED
    BY <1>1, <1>5, <2>1
<1> QED
  BY <1>6 DEF k

\* The picture has room for the header and the message.
LEMMA RoomForAll ==
  ASSUME NEW n \in Nat, NEW r \in (Nat \ {0}) \X (Nat \ {0})
  PROVE  /\ Columns(n, r) \in Nat /\ Rows(n, r) \in Nat
         /\ Columns(n, r) % 2 = 0
         /\ Symbols(n) + 16 <= Rows(n, r) * Columns(n, r)
<1> DEFINE P == Pixels(n)
           a == r[1]
           b == r[2]
           c == CeilSqrt(P * a, b)
           d == CeilSqrt(P * b, a)
           C == CeilDiv(c, 4)
           R == CeilDiv(d, 2)
<1>1. a \in Nat /\ b \in Nat /\ a # 0 /\ b # 0
  OBVIOUS
<1>2. P \in Nat /\ P = 4 * Symbols(n) + 64 /\ Symbols(n) \in Nat
  BY DEF Pixels, Symbols, Digits
<1> HIDE DEF P, a, b
<1>3. P * a \in Nat /\ P * b \in Nat
  BY <1>1, <1>2
<1>4. c \in Nat /\ P * a <= c * c * b /\ d \in Nat /\ P * b <= d * d * a
  BY <1>1, <1>3, CeilSqrtFacts
<1>5. P <= c * d
  <2> HIDE DEF c, d
  <2> QED
    BY <1>1, <1>2, <1>4, ProductOfRoots
<1>6. C \in Nat /\ c <= 4 * C /\ R \in Nat /\ d <= 2 * R
  <2> HIDE DEF c, d
  <2> QED
    BY <1>4, CeilDivFacts
<1>7. Columns(n, r) = 2 * C /\ Rows(n, r) = R
  BY DEF Columns, Rows, P, a, b
<1> HIDE DEF c, d, C, R
<1>8. c * d <= (4 * C) * (2 * R)
  <2> DEFINE x == 4 * C  z == 2 * R
  <2>1. x \in Nat /\ z \in Nat /\ c <= x /\ d <= z
    BY <1>6
  <2> HIDE DEF x, z
  <2>2. c * d <= x * d /\ x * d <= x * z
    BY <1>4, <2>1
  <2>3. c * d \in Nat /\ x * d \in Nat /\ x * z \in Nat
    BY <1>4, <2>1
  <2>4. c * d <= x * z
    BY <2>2, <2>3
  <2> QED
    BY <2>4 DEF x, z
<1>9. (4 * C) * (2 * R) = 4 * (R * (2 * C))
  BY <1>6
<1>10. Symbols(n) + 16 <= R * (2 * C)
  <2> DEFINE room == R * (2 * C)
             cd == c * d
             s == Symbols(n)
  <2>1. room \in Nat /\ cd \in Nat /\ s \in Nat
    BY <1>2, <1>4, <1>6
  <2>2. 4 * s + 64 <= cd /\ cd <= 4 * room
    BY <1>2, <1>5, <1>8, <1>9
  <2> HIDE DEF room, cd, s
  <2>3. s + 16 <= room
    BY <2>1, <2>2
  <2> QED
    BY <2>3 DEF room, s
<1>11. (2 * C) % 2 = 0 /\ 2 * C \in Nat
  BY <1>6
<1> QED
  BY <1>6, <1>7, <1>10, <1>11

-------------------------------------------------------------------------------
(* The layout.                                                              *)

\* What encode() makes sure of: the width is even, and there is room for all of the message.
Fits(n, cols, rows) ==
  /\ n \in 1..MaxLength /\ cols \in Nat /\ rows \in Nat /\ cols % 2 = 0
  /\ HeaderSide < cols /\ Symbols(n) + 16 <= rows * cols

\* The number of the symbol in a block.
Index(cols, row, col) ==
  IF row < HeaderSide THEN (cols - HeaderSide) * row + (col - HeaderSide)
  ELSE cols * row + col - HeaderSide * HeaderSide

\* The picture of a message of Lengths in a shape of Ratios.
LEMMA ShapeFits ==
  ASSUME NEW n \in Lengths, NEW r \in Ratios
  PROVE  Fits(n, Columns(n, r), Rows(n, r))
<1>1. n \in 1..MaxLength /\ n \in Nat /\ r \in (Nat \ {0}) \X (Nat \ {0})
  BY BacchantAssumption
<1>2. /\ Columns(n, r) \in Nat /\ Rows(n, r) \in Nat /\ Columns(n, r) % 2 = 0
      /\ Symbols(n) + 16 <= Rows(n, r) * Columns(n, r)
  BY <1>1, RoomForAll
<1>3. HeaderSide < Columns(n, r)
  BY ShapeAssumption
<1> QED
  BY <1>1, <1>2, <1>3 DEF Fits

\* The same in numbers.
LEMMA Numbers ==
  ASSUME NEW n, NEW cols, NEW rows, Fits(n, cols, rows)
  PROVE  /\ n \in Nat /\ 1 <= n /\ n <= MaxLength /\ cols \in Nat /\ rows \in Nat
         /\ cols % 2 = 0 /\ 4 < cols
         /\ cols - 4 \in Nat /\ cols - 4 # 0 /\ (cols - 4) % 2 = 0
         /\ Symbols(n) \in Nat /\ Symbols(n) = 2 * n + 16
         /\ Symbols(n) + 16 <= rows * cols
         /\ rows * cols \in Nat /\ 0 < rows /\ HeaderSide = 4
<1>1. /\ n \in Nat /\ 1 <= n /\ n <= MaxLength /\ cols \in Nat /\ rows \in Nat
      /\ cols % 2 = 0 /\ 4 < cols
      /\ Symbols(n) \in Nat /\ Symbols(n) = 2 * n + 16
      /\ Symbols(n) + 16 <= rows * cols /\ HeaderSide = 4
  BY DEF Fits, HeaderSide, Symbols, Digits
<1>2. cols - 4 \in Nat /\ cols - 4 # 0 /\ (cols - 4) % 2 = 0
  BY <1>1
<1>3. rows * cols \in Nat
  BY <1>1
<1>4. 0 < rows
  <2> SUFFICES ASSUME rows = 0 PROVE FALSE
    BY <1>1
  <2>1. rows * cols = 0
    BY <1>1
  <2> QED
    BY <1>1, <2>1
<1> QED
  BY <1>1, <1>2, <1>3, <1>4

\* A message that goes on below the header: the image goes on as well.
LEMMA BelowNumbers ==
  ASSUME NEW n, NEW cols, NEW rows, Fits(n, cols, rows), BelowHeader(n, cols)
  PROVE  4 * (cols - 4) < Symbols(n) /\ 4 < rows
<1>1. /\ cols \in Nat /\ rows \in Nat /\ rows * cols \in Nat /\ Symbols(n) \in Nat
      /\ 4 < cols /\ Symbols(n) + 16 <= rows * cols /\ HeaderSide = 4
  BY Numbers
<1>2. 4 * (cols - 4) < Symbols(n)
  BY <1>1 DEF BelowHeader
<1>3. 4 < rows
  <2> SUFFICES ASSUME rows <= 4 PROVE FALSE
    BY <1>1
  <2>1. rows * cols <= 4 * cols
    BY <1>1
  <2> DEFINE room == rows * cols
             s == Symbols(n)
  <2>2. room \in Nat /\ s \in Nat /\ 4 * (cols - 4) < s /\ s + 16 <= room /\ room <= 4 * cols
    BY <1>1, <1>2, <2>1
  <2> HIDE DEF room, s
  <2> QED
    BY <1>1, <2>2
<1> QED
  BY <1>2, <1>3

\* Every symbol lies inside the picture, beside or below the header, and Index gives its
\* number back.
LEMMA PosFacts ==
  ASSUME NEW n, NEW cols, NEW rows, Fits(n, cols, rows), NEW i \in 0..(Symbols(n) - 1)
  PROVE  /\ Pos(cols, i) = <<Pos(cols, i)[1], Pos(cols, i)[2]>>
         /\ Pos(cols, i)[1] \in 0..(rows - 1) /\ Pos(cols, i)[2] \in 0..(cols - 1)
         /\ Pos(cols, i)[1] < 4 => 4 <= Pos(cols, i)[2]
         /\ Pos(cols, i)[1] < 4 <=> i < 4 * (cols - 4)
         /\ Index(cols, Pos(cols, i)[1], Pos(cols, i)[2]) = i
<1> DEFINE w == cols - 4
           s == Symbols(n)
<1>1. /\ cols \in Nat /\ rows \in Nat /\ 0 < rows /\ 4 < cols /\ s \in Nat
      /\ w \in Nat /\ w # 0 /\ s + 16 <= rows * cols /\ i \in Nat /\ i < s /\ HeaderSide = 4
      /\ cols = w + 4
  BY Numbers
<1> HIDE DEF w, s
<1>2. CASE i < 4 * w
  <2> DEFINE d == i \div w
             m == i % w
  <2>1. d \in Nat /\ m \in 0..(w - 1) /\ i = w * d + m
    BY <1>1, DivMod
  <2>2. Pos(cols, i) = <<d, 4 + m>>
    BY <1>1, <1>2 DEF Pos, w
  <2> HIDE DEF d, m
  <2>3. d < 4
    <3> SUFFICES ASSUME 4 <= d PROVE FALSE
      BY <2>1
    <3>1. w * 4 <= w * d
      BY <1>1, <2>1
    <3>2. w * d \in Nat
      BY <1>1, <2>1
    <3> DEFINE wd == w * d
    <3>3. wd \in Nat /\ w * 4 <= wd /\ i = wd + m
      BY <2>1, <3>1, <3>2
    <3> HIDE DEF wd
    <3> QED
      BY <1>1, <1>2, <2>1, <3>3
  <2>4. Index(cols, d, 4 + m) = i
    <3>1. (4 + m) - 4 = m
      BY <2>1
    <3> QED
      BY <1>1, <2>1, <2>3, <3>1 DEF Index, w
  <2>5. d < rows
    <3> SUFFICES ASSUME rows <= d PROVE FALSE
      BY <1>1, <2>1
    <3> DEFINE wd == w * d
               wr == w * rows
    <3>1. wr <= wd /\ wd \in Nat /\ wr \in Nat /\ i = wd + m
      BY <1>1, <2>1
    <3>2. rows * cols = wr + 4 * rows
      BY <1>1
    <3> HIDE DEF wd, wr
    <3>3. s + 16 <= wr + 4 * rows
      BY <1>1, <3>2
    <3> QED
      BY <1>1, <2>1, <2>3, <3>1, <3>3
  <2> QED
    BY <1>1, <1>2, <2>1, <2>2, <2>3, <2>4, <2>5 DEF w
<1>3. CASE ~(i < 4 * w)
  <2> DEFINE j == i + 16
             d == j \div cols
             m == j % cols
  <2>1. d \in Nat /\ m \in 0..(cols - 1) /\ j = cols * d + m
    <3>1. j \in Nat /\ cols \in Nat /\ cols # 0
      BY <1>1
    <3> HIDE DEF j
    <3> QED
      BY <3>1, DivMod
  <2>2. Pos(cols, i) = <<d, m>>
    BY <1>1, <1>3 DEF Pos, w
  <2>3. j \in Nat /\ j < rows * cols /\ 4 * cols <= j /\ rows * cols \in Nat
    <3> DEFINE room == rows * cols
    <3>1. room \in Nat /\ s + 16 <= room
      BY <1>1
    <3> HIDE DEF room
    <3>2. j < room
      BY <1>1, <3>1
    <3> QED
      BY <1>1, <1>3, <3>1, <3>2 DEF room
  <2> HIDE DEF d, m, j
  <2>4. d < rows
    <3> SUFFICES ASSUME rows <= d PROVE FALSE
      BY <1>1, <2>1
    <3> DEFINE cd == cols * d
               room == rows * cols
    <3>1. room <= cd
      BY <1>1, <2>1
    <3>2. cd \in Nat /\ room \in Nat /\ j = cd + m /\ j < room
      BY <1>1, <2>1, <2>3
    <3> HIDE DEF cd, room
    <3> QED
      BY <2>1, <3>1, <3>2
  <2>5. 4 <= d
    <3> SUFFICES ASSUME d < 4 PROVE FALSE
      BY <2>1
    <3> DEFINE cd == cols * d
    <3>1. cd <= cols * 3
      BY <1>1, <2>1
    <3>2. cd \in Nat /\ j = cd + m
      BY <1>1, <2>1
    <3> HIDE DEF cd
    <3> QED
      BY <1>1, <2>1, <2>3, <3>1, <3>2
  <2>6. Index(cols, d, m) = i
    <3> DEFINE cd == cols * d
    <3>1. cd \in Nat /\ i + 16 = cd + m
      BY <1>1, <2>1 DEF j
    <3>2. Index(cols, d, m) = cd + m - 16
      BY <1>1, <2>1, <2>5 DEF Index
    <3> HIDE DEF cd
    <3> QED
      BY <1>1, <2>1, <3>1, <3>2
  <2> QED
    BY <1>1, <1>3, <2>1, <2>2, <2>4, <2>5, <2>6 DEF w
<1> QED
  BY <1>2, <1>3

\* The other way around: a block beside or below the header is the place of its number.
LEMMA PosOfIndex ==
  ASSUME NEW n, NEW cols, NEW rows, Fits(n, cols, rows),
         NEW row \in Nat, NEW col \in 0..(cols - 1), row < 4 => 4 <= col
  PROVE  /\ Index(cols, row, col) \in Nat
         /\ Pos(cols, Index(cols, row, col)) = <<row, col>>
<1> DEFINE w == cols - 4
<1>1. cols \in Nat /\ 4 < cols /\ w \in Nat /\ w # 0 /\ HeaderSide = 4 /\ cols = w + 4
  BY Numbers
<1> HIDE DEF w
<1>2. CASE row < 4
  <2> DEFINE m == col - 4
             i == w * row + m
  <2>1. m \in Nat /\ m < w /\ col = m + 4
    BY <1>1, <1>2
  <2> HIDE DEF m
  <2>2. w * row \in Nat /\ w * row <= w * 3
    BY <1>1, <1>2
  <2>3. i \in Nat /\ i < 4 * w
    <3> DEFINE wr == w * row
    <3>1. wr \in Nat /\ wr <= w * 3
      BY <2>2
    <3> HIDE DEF wr
    <3>2. wr + m \in Nat /\ wr + m < 4 * w
      BY <1>1, <2>1, <3>1
    <3> QED
      BY <3>2 DEF wr
  <2>4. i \div w = row /\ i % w = m
    BY <1>1, <2>1, DivModOf
  <2>5. Index(cols, row, col) = i
    BY <1>1, <1>2 DEF Index, w, m
  <2> HIDE DEF i
  <2>6. Pos(cols, i) = <<row, 4 + m>>
    BY <1>1, <2>3, <2>4 DEF Pos, w
  <2> QED
    BY <1>1, <2>1, <2>3, <2>5, <2>6
<1>3. CASE ~(row < 4)
  <2> DEFINE cr == cols * row
             i == cr + col - 16
  <2>1. cr \in Nat /\ 4 * cols <= cr
    BY <1>1, <1>3
  <2>2. (cr + col) \div cols = row /\ (cr + col) % cols = col
    <3>1. col \in Nat /\ col < cols
      BY <1>1
    <3> QED
      BY <1>1, <3>1, DivModOf
  <2>3. Index(cols, row, col) = i
    BY <1>1, <1>3 DEF Index
  <2> HIDE DEF cr
  <2>4. i \in Nat /\ ~(i < 4 * w) /\ i + 16 = cr + col
    BY <1>1, <2>1
  <2> HIDE DEF i
  <2>5. Pos(cols, i) = <<(i + 16) \div cols, (i + 16) % cols>>
    BY <1>1, <2>4 DEF Pos, w
  <2> QED
    BY <2>2, <2>3, <2>4, <2>5
<1> QED
  BY <1>2, <1>3

\* Below the header the random blocks at the end cover neither the header nor a symbol.
LEMMA NotFilled ==
  ASSUME NEW n, NEW cols, NEW rows, Fits(n, cols, rows), BelowHeader(n, cols),
         NEW row \in Nat, NEW col \in 0..(cols - 1),
         row < 4 \/ Index(cols, row, col) <= Symbols(n) - 1
  PROVE  ~Filled(n, cols, row, col)
<1> DEFINE last == Symbols(n) - 1
           p == Pos(cols, last)
<1>1. cols \in Nat /\ last \in Nat /\ 4 * (cols - 4) <= last /\ cols - 4 \in Nat /\ HeaderSide = 4
  BY Numbers, BelowNumbers
<1>2. /\ p[1] \in Nat /\ p[2] \in 0..(cols - 1) /\ ~(p[1] < 4)
      /\ Index(cols, p[1], p[2]) = last
  <2>1. last \in 0..(Symbols(n) - 1) /\ ~(last < 4 * (cols - 4))
    BY <1>1
  <2> HIDE DEF last
  <2> QED
    BY <2>1, PosFacts, Numbers
<1>3. Filled(n, cols, row, col) <=> (row > p[1] \/ (row = p[1] /\ col > p[2]))
  <2>1. ~(last < 4 * (cols - 4))
    BY <1>1
  <2> HIDE DEF p
  <2> QED
    BY <1>1, <2>1 DEF Filled, p
<1> HIDE DEF p, last
<1>4. CASE row < 4
  BY <1>2, <1>3, <1>4
<1>5. CASE ~(row < 4) /\ Index(cols, row, col) <= last
  <2> DEFINE a == cols * row
             b == cols * p[1]
  <2>1. a \in Nat /\ b \in Nat
    BY <1>1, <1>2
  <2>2. Index(cols, row, col) = a + col - 16 /\ Index(cols, p[1], p[2]) = b + p[2] - 16
    BY <1>1, <1>2, <1>5 DEF Index
  <2>3. row > p[1] => b + cols <= a
    BY <1>1, <1>2
  <2>4. row = p[1] => a = b
    OBVIOUS
  <2> HIDE DEF a, b
  <2>5. a + col - 16 <= b + p[2] - 16
    BY <1>2, <1>5, <2>2
  <2>6. ~(row > p[1])
    BY <1>1, <1>2, <2>1, <2>3, <2>5
  <2>7. ~(row = p[1] /\ col > p[2])
    BY <1>1, <1>2, <2>1, <2>4, <2>5
  <2> QED
    BY <1>3, <2>6, <2>7
<1> QED
  BY <1>4, <1>5 DEF last

\* When the message ends beside the header they cover the last symbols of its last row.
LEMMA FilledBeside ==
  ASSUME NEW n, NEW cols, NEW rows, Fits(n, cols, rows), ~BelowHeader(n, cols),
         NEW i \in 0..(Symbols(n) - 1)
  PROVE  LET last == Symbols(n) - 1
         IN  Filled(n, cols, Pos(cols, i)[1], Pos(cols, i)[2])
               <=> Pos(cols, i)[1] = Pos(cols, last)[1] /\ last - i < 4
<1> DEFINE w == cols - 4
           last == Symbols(n) - 1
           p == Pos(cols, i)
           q == Pos(cols, last)
<1>1. /\ w \in Nat /\ w # 0 /\ last \in Nat /\ i \in Nat /\ i <= last /\ HeaderSide = 4
      /\ last < 4 * w /\ i < 4 * w
  <2>1. /\ cols \in Nat /\ cols - 4 \in Nat /\ cols - 4 # 0 /\ HeaderSide = 4
        /\ Symbols(n) \in Nat /\ Symbols(n) = 2 * n + 16 /\ n \in Nat
    BY Numbers
  <2>2. ~(4 * (cols - 4) < Symbols(n))
    BY <2>1 DEF BelowHeader
  <2> QED
    BY <2>1, <2>2
<1>2. p = <<i \div w, 4 + (i % w)>> /\ q = <<last \div w, 4 + (last % w)>>
  BY <1>1 DEF Pos
<1>3. Filled(n, cols, p[1], p[2]) <=> (p[1] > q[1] \/ (p[1] = q[1] /\ p[2] > q[2] - 4))
  <2> HIDE DEF p
  <2> QED
    BY <1>1 DEF Filled
<1> HIDE DEF p, q, w, last
<1> DEFINE a == i \div w   b == i % w   c == last \div w   d == last % w
<1>4. a \in Nat /\ b \in 0..(w - 1) /\ i = w * a + b /\ c \in Nat /\ d \in 0..(w - 1)
      /\ last = w * c + d
  BY <1>1, DivMod
<1>5. p[1] = a /\ p[2] = 4 + b /\ q[1] = c /\ q[2] = 4 + d
  BY <1>2
<1> HIDE DEF a, b, c, d
<1>6. ~(a > c)
  <2> SUFFICES ASSUME a > c PROVE FALSE
    OBVIOUS
  <2> DEFINE wa == w * a   wc == w * c
  <2>1. wc + w <= wa /\ wa \in Nat /\ wc \in Nat /\ i = wa + b /\ last = wc + d
    BY <1>1, <1>4
  <2> HIDE DEF wa, wc
  <2> QED
    BY <1>1, <1>4, <2>1
<1>7. a = c => last - i = d - b
  <2> DEFINE wa == w * a
  <2>1. a = c => i = wa + b /\ last = wa + d
    BY <1>4
  <2>2. wa \in Nat
    BY <1>1, <1>4
  <2> HIDE DEF wa
  <2> QED
    BY <1>4, <2>1, <2>2
<1>8. Filled(n, cols, p[1], p[2]) <=> a = c /\ 4 + b > d
  BY <1>3, <1>4, <1>5, <1>6
<1>9. a = c => (4 + b > d <=> last - i < 4)
  BY <1>1, <1>4, <1>7
<1> QED
  BY <1>5, <1>8, <1>9 DEF p, q, last

\* No two symbols share a block.
LEMMA PosInjective ==
  ASSUME NEW n, NEW cols, NEW rows, Fits(n, cols, rows),
         NEW i \in 0..(Symbols(n) - 1), NEW j \in 0..(Symbols(n) - 1), Pos(cols, i) = Pos(cols, j)
  PROVE  i = j
<1>1. Index(cols, Pos(cols, i)[1], Pos(cols, i)[2]) = i
  BY PosFacts
<1>2. Index(cols, Pos(cols, j)[1], Pos(cols, j)[2]) = j
  BY PosFacts
<1> QED
  BY <1>1, <1>2

\* The two symbols of a character are neighbours.
LEMMA Neighbours ==
  ASSUME NEW n, NEW cols, NEW rows, Fits(n, cols, rows),
         NEW i \in 0..(Symbols(n) - 1), i % 2 = 0
  PROVE  /\ i + 1 \in 0..(Symbols(n) - 1)
         /\ Pos(cols, i)[2] + 1 \in 0..(cols - 1) /\ Pos(cols, i)[2] % 2 = 0
         /\ Pos(cols, i + 1) = <<Pos(cols, i)[1], Pos(cols, i)[2] + 1>>
<1> DEFINE p == Pos(cols, i)
<1>1. /\ cols \in Nat /\ cols % 2 = 0 /\ Symbols(n) = 2 * n + 16 /\ n \in Nat
      /\ cols - 4 \in Nat /\ cols - 4 # 0 /\ (cols - 4) % 2 = 0 /\ HeaderSide = 4
  BY Numbers
<1>2. /\ p[1] \in Nat /\ p[2] \in 0..(cols - 1) /\ (p[1] < 4 => 4 <= p[2])
      /\ Index(cols, p[1], p[2]) = i
  <2>1. rows \in Nat
    BY Numbers
  <2> QED
    BY <2>1, PosFacts
<1> HIDE DEF p
<1>3. i + 1 \in 0..(Symbols(n) - 1)
  BY <1>1
<1>4. p[2] % 2 = 0
  <2>1. CASE p[1] < 4
    <3> DEFINE h == (cols - 4) \div 2
               x == (cols - 4) * p[1]
    <3>1. h \in Nat /\ cols - 4 = 2 * h
      BY <1>1
    <3>2. x = 2 * (h * p[1]) /\ h * p[1] \in Nat
      <4> HIDE DEF h
      <4> QED
        BY <1>2, <3>1
    <3>3. i = x + (p[2] - 4)
      BY <1>1, <1>2, <2>1 DEF Index
    <3> DEFINE z == h * p[1]
    <3>4. z \in Nat /\ i = 2 * z + (p[2] - 4)
      BY <3>2, <3>3
    <3> HIDE DEF h, x, z
    <3> QED
      BY <1>2, <3>4
  <2>2. CASE ~(p[1] < 4)
    <3> DEFINE h == cols \div 2
               x == cols * p[1]
    <3>1. h \in Nat /\ cols = 2 * h
      BY <1>1
    <3>2. x = 2 * (h * p[1]) /\ h * p[1] \in Nat
      <4> HIDE DEF h
      <4> QED
        BY <1>2, <3>1
    <3>3. i = x + p[2] - 16
      BY <1>1, <1>2, <2>2 DEF Index
    <3> DEFINE z == h * p[1]
    <3>4. z \in Nat /\ i = 2 * z + p[2] - 16
      BY <3>2, <3>3
    <3> HIDE DEF h, x, z
    <3> QED
      BY <1>2, <3>4
  <2> QED
    BY <2>1, <2>2
<1>5. p[2] + 1 \in 0..(cols - 1)
  BY <1>1, <1>2, <1>4
<1>6. Index(cols, p[1], p[2] + 1) = i + 1
  <2> DEFINE x == (cols - 4) * p[1]
             z == cols * p[1]
  <2>1. x \in Nat /\ z \in Nat
    BY <1>1, <1>2
  <2>2. CASE p[1] < 4
    <3>1. /\ Index(cols, p[1], p[2]) = x + (p[2] - 4)
          /\ Index(cols, p[1], p[2] + 1) = x + (p[2] + 1 - 4)
      BY <1>1, <1>2, <2>2 DEF Index
    <3> HIDE DEF x, z
    <3> QED
      BY <1>2, <2>1, <3>1
  <2>3. CASE ~(p[1] < 4)
    <3>1. /\ Index(cols, p[1], p[2]) = z + p[2] - 16
          /\ Index(cols, p[1], p[2] + 1) = z + (p[2] + 1) - 16
      BY <1>1, <1>2, <2>3 DEF Index
    <3> HIDE DEF x, z
    <3> QED
      BY <1>2, <2>1, <3>1
  <2> QED
    BY <2>2, <2>3
<1>7. p[1] < 4 => 4 <= p[2] + 1
  BY <1>2
<1>8. Pos(cols, Index(cols, p[1], p[2] + 1)) = <<p[1], p[2] + 1>>
  <2> DEFINE c == p[2] + 1
  <2>1. c \in 0..(cols - 1) /\ (p[1] < 4 => 4 <= c)
    BY <1>5, <1>7
  <2> HIDE DEF c
  <2>2. Pos(cols, Index(cols, p[1], c)) = <<p[1], c>>
    BY <1>2, <2>1, PosOfIndex
  <2> QED
    BY <2>2 DEF c
<1> QED
  BY <1>3, <1>4, <1>5, <1>6, <1>8 DEF p

\* What LayoutSound says, of every image that an encoder makes.
LEMMA Layout ==
  ASSUME NEW n, NEW cols, NEW rows, Fits(n, cols, rows)
  PROVE  LET S == 0..(Symbols(n) - 1)
             P == [i \in S |-> Pos(cols, i)]
             last == Symbols(n) - 1
             inEnd == {i \in S : P[i][1] = P[last][1] /\ last - i < HeaderSide}
         IN  /\ \A i \in S : /\ P[i][1] \in 0..(rows - 1) /\ P[i][2] \in 0..(cols - 1)
                             /\ P[i][1] < HeaderSide => P[i][2] >= HeaderSide
                             /\ i % 2 = 0 => P[i + 1] = <<P[i][1], P[i][2] + 1>>
             /\ Cardinality({P[i] : i \in S}) = Cardinality(S)
             /\ \A i \in S : Filled(n, cols, P[i][1], P[i][2])
                               <=> i \in inEnd /\ ~BelowHeader(n, cols)
<1> DEFINE S == 0..(Symbols(n) - 1)
           P == [i \in S |-> Pos(cols, i)]
           last == Symbols(n) - 1
           inEnd == {i \in S : P[i][1] = P[last][1] /\ last - i < HeaderSide}
           covered(i) == Filled(n, cols, P[i][1], P[i][2])
<1>1. ASSUME NEW i \in S
      PROVE  /\ P[i][1] \in 0..(rows - 1) /\ P[i][2] \in 0..(cols - 1)
             /\ P[i][1] < HeaderSide => P[i][2] >= HeaderSide
             /\ i % 2 = 0 => P[i + 1] = <<P[i][1], P[i][2] + 1>>
             /\ covered(i) <=> i \in inEnd /\ ~BelowHeader(n, cols)
  <2> DEFINE p == Pos(cols, i)
  <2>1. /\ p[1] \in 0..(rows - 1) /\ p[2] \in 0..(cols - 1) /\ (p[1] < 4 => 4 <= p[2])
        /\ Index(cols, p[1], p[2]) = i /\ HeaderSide = 4 /\ i <= Symbols(n) - 1
        /\ cols \in Nat /\ rows \in Nat /\ Symbols(n) \in Nat
    BY PosFacts, Numbers
  <2>2. i % 2 = 0 => i + 1 \in S /\ Pos(cols, i + 1) = <<p[1], p[2] + 1>>
    BY Neighbours
  <2>6. P[i] = p /\ P[last] = Pos(cols, last) /\ last - i \in Int
    <3>1. last \in S /\ last - i \in Int
      BY <2>1, Numbers
    <3> HIDE DEF S, last, p
    <3>2. P[i] = Pos(cols, i) /\ P[last] = Pos(cols, last)
      BY <3>1
    <3> QED
      BY <3>1, <3>2 DEF p
  <2>7. ~BelowHeader(n, cols) =>
          (Filled(n, cols, p[1], p[2]) <=> p[1] = Pos(cols, last)[1] /\ last - i < 4)
    BY FilledBeside
  <2> HIDE DEF p
  <2>8. BelowHeader(n, cols) => ~Filled(n, cols, p[1], p[2])
    BY <2>1, NotFilled
  <2> HIDE DEF last
  <2>9. i \in inEnd <=> p[1] = Pos(cols, last)[1] /\ last - i < 4
    BY <2>1, <2>6
  <2>3. covered(i) <=> i \in inEnd /\ ~BelowHeader(n, cols)
    <3>1. covered(i) <=> Filled(n, cols, p[1], p[2])
      BY <2>6
    <3> HIDE DEF covered, inEnd
    <3> QED
      BY <2>7, <2>8, <2>9, <3>1
  <2>4. P[i] = p /\ (i % 2 = 0 => P[i + 1] = <<p[1], p[2] + 1>>)
    <3> HIDE DEF S
    <3> QED
      BY <2>2 DEF p
  <2>5. p[1] < HeaderSide => p[2] >= HeaderSide
    BY <2>1
  <2> HIDE DEF P, S, inEnd, covered
  <2> QED
    BY <2>1, <2>3, <2>4, <2>5
<1>2. Cardinality({P[i] : i \in S}) = Cardinality(S)
  <2> DEFINE T == {P[i] : i \in S}
  <2>1. Symbols(n) - 1 \in Int
    BY Numbers
  <2>2. IsFiniteSet(S)
    <3> DEFINE top == Symbols(n) - 1
    <3> HIDE DEF top
    <3>1. IsFiniteSet(0..top)
      BY <2>1, FS_Interval DEF top
    <3> QED
      BY <3>1 DEF top
  <2>3. \A i, j \in S : P[i] = P[j] => i = j
    BY PosInjective
  <2> HIDE DEF P, S
  <2>4. DOMAIN P = S /\ P \in [S -> T]
    BY DEF P
  <2>5. P \in Bijection(S, T)
    BY <2>3, <2>4 DEF Bijection, Injection, Surjection, IsInjective
  <2> HIDE DEF T
  <2>6. Cardinality(T) = Cardinality(S)
    BY <2>2, <2>5, FS_Bijection DEF ExistsBijection
  <2> QED
    BY <2>6 DEF T
<1> HIDE DEF P, S, inEnd, last, covered
<1>3. /\ \A i \in S : /\ P[i][1] \in 0..(rows - 1) /\ P[i][2] \in 0..(cols - 1)
                      /\ P[i][1] < HeaderSide => P[i][2] >= HeaderSide
                      /\ i % 2 = 0 => P[i + 1] = <<P[i][1], P[i][2] + 1>>
      /\ Cardinality({P[i] : i \in S}) = Cardinality(S)
      /\ \A i \in S : covered(i) <=> i \in inEnd /\ ~BelowHeader(n, cols)
  BY <1>1, <1>2
<1> QED
  BY <1>3 DEF P, S, inEnd, last, covered

-------------------------------------------------------------------------------
(* What is in the blocks.                                                   *)

\* test() finds the name of the codec in every image of the closure encoder whose message
\* goes on below the header.
LEMMA HeaderFound ==
  ASSUME NEW im, im.encoder = "closure", Fits(im.n, im.cols, im.rows),
         BelowHeader(im.n, im.cols)
  PROVE  HeaderReads(im)
<1>1. im.cols \in Nat /\ im.rows \in Nat /\ 4 < im.cols /\ 4 < im.rows /\ HeaderSide = 4
  BY Numbers, BelowNumbers
<1>2. \A j \in 0..15 : PaintHeader(im.encoder, j) = HeaderPos(j)
  BY DEF PaintHeader
<1>3. ASSUME NEW k \in 0..15
      PROVE  LET p == HeaderPos(k)
             IN  /\ {j \in 0..15 : PaintHeader(im.encoder, j) = p} = {k}
                 /\ p[1] < im.rows /\ ~Filled(im.n, im.cols, p[1], p[2])
  <2> DEFINE p == HeaderPos(k)
  <2>1. p[1] \in 0..3 /\ p[2] \in 0..3
    BY <1>1 DEF HeaderPos
  <2>2. \A j \in 0..15 : HeaderPos(j) = p => j = k
    <3> SUFFICES ASSUME NEW j \in 0..15, HeaderPos(j) = HeaderPos(k) PROVE j = k
      OBVIOUS
    <3>1. j \div 4 = k \div 4 /\ j % 4 = k % 4
      BY <1>1 DEF HeaderPos
    <3> QED
      BY <3>1
  <2>3. {j \in 0..15 : PaintHeader(im.encoder, j) = p} = {k}
    BY <1>2, <2>2
  <2> HIDE DEF p
  <2>4. p[1] \in Nat /\ p[1] < 4 /\ p[2] \in 0..(im.cols - 1) /\ p[1] < im.rows
    BY <1>1, <2>1
  <2>5. ~Filled(im.n, im.cols, p[1], p[2])
    BY <2>4, NotFilled
  <2> QED
    BY <2>3, <2>4, <2>5 DEF p
<1>4. HeaderSide * HeaderSide - 1 = 15
  BY <1>1
<1> QED
  BY <1>3, <1>4 DEF HeaderReads

\* It never finds it in an image of core-rust, where the third symbol of the header is not
\* in its place.
LEMMA HeaderOfRust ==
  ASSUME NEW im, im.encoder = "core-rust"
  PROVE  ~HeaderReads(im)
<1>1. 2 \in 0..(HeaderSide * HeaderSide - 1) /\ HeaderPos(2) = <<0, 2>>
  BY DEF HeaderSide, HeaderPos
<1>2. PaintHeader(im.encoder, 2) # HeaderPos(2)
  BY <1>1 DEF PaintHeader, RustHeaderPos, HeaderSide
<1>3. {j \in 0..15 : PaintHeader(im.encoder, j) = HeaderPos(2)} # {2}
  BY <1>2
<1> QED
  BY <1>1, <1>3 DEF HeaderReads

\* Pairs of blocks beside the header, and in a full row; the number of the first
\* character of a row.
FirstPair(row) == IF row < HeaderSide THEN HeaderSide \div 2 ELSE 0
Start(cols, row) ==
  IF row < HeaderSide THEN (cols \div 2 - 2) * row ELSE (cols \div 2) * row - 8

\* A row's first character follows the last one of the row above.
LEMMA StartFacts ==
  ASSUME NEW n, NEW cols, NEW rows, Fits(n, cols, rows), NEW row \in Nat
  PROVE  /\ Start(cols, row) \in Nat /\ Start(cols, 0) = 0
         /\ cols \div 2 - FirstPair(row) \in Nat /\ 1 <= cols \div 2 - FirstPair(row)
         /\ Start(cols, row + 1) = Start(cols, row) + (cols \div 2 - FirstPair(row))
         /\ FirstPair(row) = IF row < 4 THEN 2 ELSE 0
<1> DEFINE h == cols \div 2
           a == h * row
           b == (h - 2) * row
<1>1. h \in Nat /\ 3 <= h /\ HeaderSide = 4
  BY Numbers
<1>2. FirstPair(row) = IF row < 4 THEN 2 ELSE 0
  BY <1>1 DEF FirstPair
<1> HIDE DEF h
<1>3. a \in Nat /\ b \in Nat /\ a = b + 2 * row /\ h * (row + 1) = a + h
      /\ (h - 2) * (row + 1) = b + (h - 2)
  BY <1>1
<1>4. 4 <= row => 8 <= a
  BY <1>1
<1>5. /\ Start(cols, row) = IF row < 4 THEN b ELSE a - 8
      /\ Start(cols, row + 1) = IF row + 1 < 4 THEN b + (h - 2) ELSE a + h - 8
      /\ Start(cols, 0) = 0
  BY <1>1, <1>3 DEF Start, h
<1> HIDE DEF a, b
<1>6. Start(cols, row) \in Nat
  BY <1>1, <1>3, <1>4, <1>5
<1>7. h - FirstPair(row) \in Nat /\ 1 <= h - FirstPair(row)
  BY <1>1, <1>2
<1>8. Start(cols, row + 1) = Start(cols, row) + (h - FirstPair(row))
  <2>1. CASE row + 1 < 4
    BY <1>1, <1>2, <1>3, <1>5, <2>1
  <2>2. CASE row = 3
    BY <1>1, <1>2, <1>3, <1>5, <2>2
  <2>3. CASE 4 <= row
    BY <1>1, <1>2, <1>3, <1>5, <2>3
  <2> QED
    BY <2>1, <2>2, <2>3
<1> QED
  BY <1>2, <1>5, <1>6, <1>7, <1>8 DEF h

\* A character that nothing covers.
Legible(n, cols, c) == BelowHeader(n, cols) /\ c < Digits + n

\* The k-th pair of a row holds the character that comes k-1 after the row's first.
LEMMA CharHere ==
  ASSUME NEW n, NEW cols, NEW rows, Fits(n, cols, rows), NEW row \in 0..(rows - 1),
         NEW k \in 1..(cols \div 2 - FirstPair(row)),
         Legible(n, cols, Start(cols, row) + k - 1)
  PROVE  CharAt(n, cols, rows, row, 2 * (FirstPair(row) + k - 1)) = Start(cols, row) + k - 1
<1> DEFINE h == cols \div 2
           from == FirstPair(row)
           col == 2 * (from + k - 1)
           c == Start(cols, row) + k - 1
           last == Symbols(n) - 1
<1>1. /\ cols \in Nat /\ rows \in Nat /\ row \in Nat /\ row < rows /\ cols = 2 * h /\ h \in Nat
      /\ 3 <= h /\ n \in Nat /\ Symbols(n) = 2 * n + 16 /\ last = 2 * n + 15 /\ HeaderSide = 4
  BY Numbers
<1>2. from = (IF row < 4 THEN 2 ELSE 0) /\ Start(cols, row) \in Nat
  BY <1>1, StartFacts
<1>3. k \in 1..(h - from)
  OBVIOUS
<1>4. c \in Nat /\ c < 8 + n /\ BelowHeader(n, cols)
  BY <1>2, <1>3 DEF Legible, Digits
<1>5. Start(cols, row) = IF row < 4 THEN (h - 2) * row ELSE h * row - 8
  BY <1>1 DEF Start
<1> HIDE DEF h, from
<1>6. col \in 0..(cols - 2) /\ (row < 4 => 4 <= col) /\ col \in 0..(cols - 1)
  BY <1>1, <1>2, <1>3
<1>7. Index(cols, row, col) = 2 * c
  <2> DEFINE a == h * row
             b == (h - 2) * row
  <2>1. a \in Nat /\ b \in Nat /\ (cols - 4) * row = 2 * b /\ cols * row = 2 * a
    BY <1>1
  <2>2. Index(cols, row, col) =
          IF row < 4 THEN (cols - 4) * row + (col - 4) ELSE cols * row + col - 16
    BY <1>1 DEF Index
  <2>3. Index(cols, row, col) = IF row < 4 THEN 2 * b + (col - 4) ELSE 2 * a + col - 16
    BY <2>1, <2>2
  <2>4. c = IF row < 4 THEN b + k - 1 ELSE a - 8 + k - 1
    BY <1>5
  <2> HIDE DEF a, b, c
  <2>5. CASE row < 4
    <3>1. col - 4 = 2 * (k - 1)
      BY <1>2, <1>3, <2>5
    <3> QED
      BY <1>3, <2>1, <2>3, <2>4, <2>5, <3>1
  <2>6. CASE ~(row < 4)
    <3>1. col = 2 * (k - 1)
      BY <1>2, <1>3, <2>6
    <3> QED
      BY <1>3, <2>1, <2>3, <2>4, <2>6, <3>1
  <2> QED
    BY <2>5, <2>6
<1> HIDE DEF c, col, last
<1>8. 2 * c \in 0..last /\ 2 * c \in 0..(Symbols(n) - 2) /\ (2 * c) % 2 = 0 /\ (2 * c) \div 2 = c
  BY <1>1, <1>4 DEF last
<1>9. Pos(cols, 2 * c) = <<row, col>>
  BY <1>1, <1>6, <1>7, PosOfIndex
<1>10. /\ 2 * c + 1 \in 0..last /\ col + 1 \in 0..(cols - 1)
       /\ Pos(cols, 2 * c + 1) = <<row, col + 1>>
  <2> DEFINE i == 2 * c
  <2>1. i \in 0..last /\ i % 2 = 0 /\ Pos(cols, i) = <<row, col>>
    BY <1>8, <1>9
  <2> HIDE DEF i
  <2>2. /\ i + 1 \in 0..last /\ Pos(cols, i)[2] + 1 \in 0..(cols - 1)
        /\ Pos(cols, i + 1) = <<Pos(cols, i)[1], Pos(cols, i)[2] + 1>>
    BY <2>1, Neighbours DEF last
  <2> QED
    BY <2>1, <2>2 DEF i
<1>11. Index(cols, row, col + 1) = 2 * c + 1
  <2> DEFINE i == 2 * c + 1
  <2>1. i \in 0..last /\ Pos(cols, i) = <<row, col + 1>>
    BY <1>10
  <2> HIDE DEF i
  <2>2. Index(cols, Pos(cols, i)[1], Pos(cols, i)[2]) = i
    BY <2>1, PosFacts DEF last
  <2> QED
    BY <2>1, <2>2 DEF i
<1>12. ~Filled(n, cols, row, col) /\ ~Filled(n, cols, row, col + 1)
  <2> DEFINE col2 == col + 1
  <2>1. Index(cols, row, col) <= last /\ Index(cols, row, col2) <= last /\ col2 \in 0..(cols - 1)
    BY <1>1, <1>4, <1>7, <1>8, <1>10, <1>11
  <2> HIDE DEF col2
  <2> QED
    BY <1>1, <1>4, <1>6, <2>1, NotFilled DEF last, col2
<1> DEFINE S == {i \in 0..(Symbols(n) - 2) : Pos(cols, i) = <<row, col>>}
<1>13. S = {2 * c}
  <2>1. 2 * c \in S
    BY <1>8, <1>9
  <2>2. ASSUME NEW i \in S PROVE i = 2 * c
    <3> DEFINE j == 2 * c
    <3>1. /\ i \in 0..(Symbols(n) - 1) /\ j \in 0..(Symbols(n) - 1)
          /\ Pos(cols, i) = Pos(cols, j)
      BY <1>1, <1>8, <1>9 DEF last
    <3> HIDE DEF j
    <3>2. i = j
      BY <3>1, PosInjective
    <3> QED
      BY <3>2 DEF j
  <2> QED
    BY <2>1, <2>2
<1> HIDE DEF S
<1>14. (CHOOSE i \in S : TRUE) = 2 * c
  BY <1>13
<1>15. CharAt(n, cols, rows, row, col) = (CHOOSE i \in S : TRUE) \div 2
  <2>1. \E i \in S : i % 2 = 0 /\ Pos(cols, i + 1) = <<row, col + 1>>
    BY <1>8, <1>10, <1>13
  <2> QED
    BY <1>1, <1>12, <2>1 DEF CharAt, S
<1>16. CharAt(n, cols, rows, row, col) = c
  BY <1>8, <1>14, <1>15
<1> QED
  BY <1>16 DEF col, c, from

\* What is read in a pair of blocks is a number.
LEMMA CharAtType ==
  ASSUME NEW n, NEW cols, NEW rows, NEW row, NEW col
  PROVE  CharAt(n, cols, rows, row, col) \in Int
<1> DEFINE S == {i \in 0..(Symbols(n) - 2) : Pos(cols, i) = <<row, col>>}
<1>1. CASE S = {}
  BY <1>1 DEF CharAt, Garbage
<1>2. CASE S # {}
  <2>1. (CHOOSE i \in S : TRUE) \in S
    BY <1>2
  <2>2. (CHOOSE i \in S : TRUE) \in Nat
    BY <2>1
  <2> HIDE DEF S
  <2>3. (CHOOSE i \in S : TRUE) \div 2 \in Int
    BY <2>2
  <2> QED
    BY <2>3 DEF CharAt, Garbage, S
<1> QED
  BY <1>1, <1>2

\* All characters are above the row below the image.
LEMMA EnoughRows ==
  ASSUME NEW n, NEW cols, NEW rows, Fits(n, cols, rows), BelowHeader(n, cols)
  PROVE  8 + n <= Start(cols, rows)
<1> DEFINE h == cols \div 2
           a == h * rows
<1>1. /\ rows \in Nat /\ ~(rows < 4) /\ h \in Nat /\ cols = 2 * h /\ HeaderSide = 4 /\ n \in Nat
      /\ 2 * n + 32 <= rows * cols
  BY Numbers, BelowNumbers
<1>2. Start(cols, rows) = a - 8
  BY <1>1 DEF Start
<1> HIDE DEF h
<1>3. a \in Nat /\ rows * cols = 2 * a
  BY <1>1
<1>4. 2 * n + 32 <= 2 * a
  BY <1>1, <1>3
<1> HIDE DEF a
<1> QED
  BY <1>1, <1>2, <1>3, <1>4

\* A row, from left to right.
LEMMA RowFacts ==
  ASSUME NEW n, NEW cols, NEW rows, Fits(n, cols, rows), NEW row \in 0..rows
  PROVE  /\ RowChars(n, cols, rows, row) \in Seq(Int)
         /\ Start(cols, row + 1) = Start(cols, row) + Len(RowChars(n, cols, rows, row))
         /\ \A k \in 1..Len(RowChars(n, cols, rows, row)) :
              Legible(n, cols, Start(cols, row) + k - 1) =>
                RowChars(n, cols, rows, row)[k] = Start(cols, row) + k - 1
<1> DEFINE from == FirstPair(row)
           w == cols \div 2 - from
           chars == [k \in 1..w |-> CharAt(n, cols, rows, row, 2 * (from + k - 1))]
<1>1. row \in Nat /\ rows \in Nat
  BY Numbers
<1>2. w \in Nat /\ Start(cols, row + 1) = Start(cols, row) + w
  BY <1>1, StartFacts
<1>3. RowChars(n, cols, rows, row) = chars
  BY DEF RowChars, FirstPair
<1>4. ASSUME NEW k \in 1..w, Legible(n, cols, Start(cols, row) + k - 1)
      PROVE  chars[k] = Start(cols, row) + k - 1
  <2>1. row \in 0..(rows - 1)
    <3> SUFFICES ASSUME row = rows PROVE FALSE
      BY <1>1
    <3>1. Start(cols, row) \in Nat /\ 8 + n <= Start(cols, row) /\ n \in Nat
      BY <1>1, <1>4, StartFacts, EnoughRows, Numbers DEF Legible
    <3> QED
      BY <1>2, <1>4, <3>1 DEF Legible, Digits
  <2> QED
    BY <1>4, <2>1, CharHere
<1>5. \A k \in 1..w : chars[k] \in Int
  BY CharAtType
<1> HIDE DEF w
<1>6. chars \in Seq(Int) /\ Len(chars) = w
  BY <1>2, <1>5
<1> QED
  BY <1>2, <1>3, <1>4, <1>6

-------------------------------------------------------------------------------
(* The rows of an image, one after the other.                               *)

\* An image as Init makes it, but for its length.
Encoded(im) ==
  /\ Fits(im.n, im.cols, im.rows)
  /\ im.text = [row \in 0..im.rows |-> RowChars(im.n, im.cols, im.rows, row)]

\* The characters of a text that begins with the first character of row first.
Reads(im, first, t) ==
  \A k \in 1..Len(t) :
    Legible(im.n, im.cols, Start(im.cols, first) + k - 1) =>
      t[k] = Start(im.cols, first) + k - 1

\* The recursion in Text defines what it says.
LEMMA TextExists ==
  ASSUME NEW im, NEW first \in Nat, NEW m \in Nat
  PROVE  \E g : g = [r \in (first - 1)..(first - 1 + m) |->
                       IF r < first THEN <<>> ELSE g[r - 1] \o im.text[r]]
<1> DEFINE Is(g, k) == g = [r \in (first - 1)..(first - 1 + k) |->
                              IF r < first THEN <<>> ELSE g[r - 1] \o im.text[r]]
           T == {k \in Nat : ~\E g : Is(g, k)}
<1>1. SUFFICES ASSUME T # {} PROVE FALSE
  OBVIOUS
<1>2. PICK k \in T : \A j \in T : k <= j
  <2>1. T \in SUBSET Nat
    OBVIOUS
  <2> HIDE DEF T
  <2> QED
    BY <1>1, <2>1, LeastNumber
<1>3. k # 0
  <2> DEFINE g == [r \in (first - 1)..(first - 1 + 0) |-> <<>>]
  <2>1. \A r \in (first - 1)..(first - 1 + 0) : r < first
    OBVIOUS
  <2>2. Is(g, 0)
    BY <2>1
  <2>3. 0 \notin T
    BY <2>2
  <2> QED
    BY <1>2, <2>3
<1>4. k - 1 \in Nat /\ k - 1 \notin T
  <2>1. k \in Nat
    BY <1>2
  <2>2. k - 1 \in Nat /\ ~(k <= k - 1)
    BY <1>3, <2>1
  <2> HIDE DEF T
  <2> QED
    BY <1>2, <2>2
<1>5. PICK g : Is(g, k - 1)
  BY <1>4
<1> DEFINE top == first - 1 + k
           h == [r \in (first - 1)..top |->
                   IF r = top THEN g[r - 1] \o im.text[r] ELSE g[r]]
<1>6. Is(h, k)
  <2>1. /\ top \in Nat /\ ~(top < first) /\ top - 1 = first - 1 + (k - 1)
        /\ \A r \in (first - 1)..top : r # top => r \in (first - 1)..(top - 1)
        /\ \A r \in (first - 1)..top : ~(r < first) => r - 1 \in (first - 1)..top /\ r - 1 # top
    BY <1>4
  <2>2. ASSUME NEW r \in (first - 1)..top
        PROVE  h[r] = IF r < first THEN <<>> ELSE h[r - 1] \o im.text[r]
    <3>1. CASE r = top
      BY <2>1, <3>1
    <3>2. CASE r # top
      <4>1. r \in (first - 1)..(top - 1)
        BY <2>1, <3>2
      <4>2. h[r] = g[r]
        BY <3>2
      <4>3. g[r] = IF r < first THEN <<>> ELSE g[r - 1] \o im.text[r]
        BY <1>5, <2>1, <4>1
      <4>4. ~(r < first) => h[r - 1] = g[r - 1]
        BY <2>1
      <4> QED
        BY <4>2, <4>3, <4>4
    <3> QED
      BY <3>1, <3>2
  <2>3. h = [r \in (first - 1)..top |-> h[r]]
    OBVIOUS
  <2> HIDE DEF h
  <2> QED
    BY <2>2, <2>3
<1> HIDE DEF h
<1> QED
  BY <1>2, <1>6

\* The text of some rows holds the message from the first of their characters on.
LEMMA TextFacts ==
  ASSUME NEW im, Encoded(im), NEW first \in 0..im.rows, NEW last \in first..im.rows
  PROVE  /\ Text(im, first, last) \in Seq(Int)
         /\ Start(im.cols, last + 1) = Start(im.cols, first) + Len(Text(im, first, last))
         /\ Reads(im, first, Text(im, first, last))
<1> DEFINE Step(g) == [r \in (first - 1)..last |->
                         IF r < first THEN <<>> ELSE g[r - 1] \o im.text[r]]
           f == CHOOSE g : g = Step(g)
           begin == Start(im.cols, first)
           Good(t, r) == /\ t \in Seq(Int)
                         /\ Start(im.cols, r + 1) = begin + Len(t)
                         /\ Reads(im, first, t)
<1>1. im.rows \in Nat /\ first \in Nat /\ last \in Nat /\ first <= last /\ last <= im.rows
  <2>1. Fits(im.n, im.cols, im.rows)
    BY DEF Encoded
  <2>2. im.rows \in Nat
    BY <2>1, Numbers
  <2> QED
    BY <2>2
<1>2. f = Step(f)
  <2> DEFINE m == last - first + 1
  <2>1. m \in Nat /\ first - 1 + m = last
    BY <1>1
  <2> HIDE DEF m
  <2>2. \E g : g = Step(g)
    <3>1. \E g : g = [r \in (first - 1)..(first - 1 + m) |->
                        IF r < first THEN <<>> ELSE g[r - 1] \o im.text[r]]
      BY <1>1, <2>1, TextExists
    <3> QED
      BY <2>1, <3>1
  <2> HIDE DEF Step
  <2> QED
    BY <2>2
<1> HIDE DEF f
<1>3. \A r \in (first - 1)..last : f[r] = IF r < first THEN <<>> ELSE f[r - 1] \o im.text[r]
  BY <1>2
<1> HIDE DEF Step
<1>4. begin \in Nat
  BY <1>1, StartFacts DEF Encoded
<1> DEFINE T == {m \in Nat : m <= last - first + 1 /\ ~Good(f[first - 1 + m], first - 1 + m)}
<1>5. T = {}
  <2> SUFFICES ASSUME T # {} PROVE FALSE
    OBVIOUS
  <2>1. PICK m \in T : \A j \in T : m <= j
    <3>1. T \in SUBSET Nat
      OBVIOUS
    <3> HIDE DEF T
    <3> QED
      BY <3>1, LeastNumber
  <2> DEFINE r == first - 1 + m
  <2>2. m \in Nat /\ m <= last - first + 1 /\ ~Good(f[r], r)
    BY <2>1
  <2> HIDE DEF Good
  <2>3. m # 0
    <3> SUFFICES ASSUME m = 0 PROVE FALSE
      OBVIOUS
    <3>1. first - 1 + 0 = first - 1 /\ first - 1 \in (first - 1)..last /\ (first - 1) + 1 = first
      BY <1>1
    <3>2. f[first - 1] = <<>>
      BY <1>1, <1>3, <3>1
    <3>3. 1..0 = {} /\ Len(<<>>) = 0 /\ <<>> \in Seq(Int)
      BY EmptySeq
    <3>4. Good(<<>>, first - 1)
      BY <1>4, <3>1, <3>3 DEF Good, Reads
    <3> QED
      BY <2>2, <3>1, <3>2, <3>4
  <2>4. /\ r \in first..last /\ r \in 0..im.rows /\ r - 1 \in (first - 1)..last /\ m - 1 \in Nat
        /\ m - 1 <= last - first + 1 /\ first - 1 + (m - 1) = r - 1 /\ ~(m <= m - 1)
        /\ r \in (first - 1)..last /\ ~(r < first)
    BY <1>1, <2>2, <2>3
  <2>5. Good(f[r - 1], r - 1)
    <3>1. m - 1 \notin T
      <4> HIDE DEF T
      <4> QED
        BY <2>1, <2>4
    <3> QED
      BY <2>4, <3>1
  <2> DEFINE t == f[r - 1]
             u == im.text[r]
  <2>6. f[r] = t \o u
    <3> HIDE DEF r
    <3> QED
      BY <1>3, <2>4
  <2>7. /\ u \in Seq(Int) /\ Start(im.cols, r + 1) = Start(im.cols, r) + Len(u)
        /\ \A k \in 1..Len(u) : Legible(im.n, im.cols, Start(im.cols, r) + k - 1) =>
                                  u[k] = Start(im.cols, r) + k - 1
    <3>1. u = RowChars(im.n, im.cols, im.rows, r)
      BY <2>4 DEF Encoded
    <3>2. Fits(im.n, im.cols, im.rows)
      BY DEF Encoded
    <3> HIDE DEF r, u, T
    <3> DEFINE v == RowChars(im.n, im.cols, im.rows, r)
    <3>3. r \in 0..im.rows
      BY <2>4
    <3>4. v \in Seq(Int)
      BY <3>2, <3>3, RowFacts
    <3>5. Start(im.cols, r + 1) = Start(im.cols, r) + Len(v)
      BY <3>2, <3>3, RowFacts
    <3>6. \A k \in 1..Len(v) : Legible(im.n, im.cols, Start(im.cols, r) + k - 1) =>
                                 v[k] = Start(im.cols, r) + k - 1
      BY <3>2, <3>3, RowFacts
    <3> QED
      BY <3>1, <3>4, <3>5, <3>6
  <2>8. /\ t \in Seq(Int) /\ Start(im.cols, r) = begin + Len(t)
        /\ \A k \in 1..Len(t) : Legible(im.n, im.cols, begin + k - 1) => t[k] = begin + k - 1
    <3>1. (r - 1) + 1 = r
      BY <2>4
    <3> QED
      BY <2>5, <3>1 DEF Good, Reads
  <2> HIDE DEF t, u, r, begin
  <2>9. t \o u \in Seq(Int) /\ Len(t \o u) = Len(t) + Len(u)
    BY <2>7, <2>8, ConcatProperties, Zenon
  <2> DEFINE p == Len(t)
             q == Len(u)
             R == Start(im.cols, r)
  <2>10. p \in Nat /\ q \in Nat /\ R = begin + p
    BY <2>7, <2>8
  <2>11. ASSUME NEW k \in 1..(p + q), Legible(im.n, im.cols, begin + k - 1)
         PROVE  (t \o u)[k] = begin + k - 1
    <3>1. CASE k <= p
      <4>1. (t \o u)[k] = t[k] /\ k \in 1..p
        BY <2>7, <2>8, <2>10, <3>1
      <4> QED
        BY <2>8, <2>11, <4>1
    <3>2. CASE ~(k <= p)
      <4>1. (t \o u)[k] = u[k - p] /\ k - p \in 1..q
        BY <2>7, <2>8, <2>10, <3>2
      <4> HIDE DEF p, q, R
      <4>2. R + (k - p) - 1 = begin + k - 1
        BY <1>4, <2>10, <3>2
      <4>3. u[k - p] = R + (k - p) - 1
        BY <2>7, <2>11, <4>1, <4>2 DEF q, R
      <4> QED
        BY <4>1, <4>2, <4>3
    <3> QED
      BY <3>1, <3>2
  <2>12. Start(im.cols, r + 1) = begin + Len(t \o u)
    <3>1. Start(im.cols, r + 1) = R + q /\ Len(t \o u) = p + q
      BY <2>7, <2>9
    <3> HIDE DEF p, q, R
    <3> QED
      BY <1>4, <2>10, <3>1
  <2>13. Good(f[r], r)
    BY <2>6, <2>9, <2>11, <2>12 DEF Good, Reads, begin
  <2> QED
    BY <2>2, <2>13 DEF r
<1>6. Good(f[last], last)
  <2> DEFINE m == last - first + 1
  <2>1. m \in Nat /\ m <= last - first + 1 /\ first - 1 + m = last
    BY <1>1
  <2>2. m \notin T
    BY <1>5
  <2> HIDE DEF Good, m
  <2> QED
    BY <2>1, <2>2
<1>7. Text(im, first, last) = f[last]
  BY DEF Text, f, Step
<1> QED
  BY <1>6, <1>7

-------------------------------------------------------------------------------
(* The inductive invariant.                                                 *)

\* The image, and what is read of its length.
Picture ==
  /\ Encoded(img) /\ img.n \in Lengths /\ img.encoder \in Encoders
  /\ img.said \in 0..MaxLength /\ img.letter \in 1..(Digits + 1)

\* The fields of the codec.
Fields ==
  /\ y \in 0..img.rows
  /\ decodeData \in Seq(Int) /\ count = Len(decodeData)
  /\ length \in Nat \cup {Null, NaN}
  /\ lengthString \in Seq(Int) /\ Len(lengthString) <= Digits
  /\ codecFound \in {"untested", "yes", "no"} /\ done \in BOOLEAN
  /\ y = 0 => lengthString = <<>> /\ count = 0 /\ length = Null

\* getChunk() goes on until NoMore, and does nothing without a codec.
Stopping ==
  /\ codecFound = "no" => img.encoder = "core-rust" \/ ~BelowHeader(img.n, img.cols)
  /\ done /\ codecFound = "yes" => NoMore

\* A message that the decoder can read from its beginning to its end.
Readable(im) == Wide(im) /\ BelowHeader(im.n, im.cols)

LengthReached == length \in Nat /\ count >= length

\* In an image that is wide enough all digits are read before the payload, which is
\* collected from its first character on: row by row, until the length is reached, and
\* no further.
Collected ==
  /\ length \in {Null, ParseInt(img, Digits)}
  /\ length = Null <=> count = 0
  /\ y > 0 => Len(lengthString) = Digits
  /\ \A k \in 1..count : k <= img.n => decodeData[k] = Digits + k - 1
  /\ y > 0 => LengthReached \/ count + Digits >= Start(img.cols, y)
  /\ y > 0 /\ y < img.rows => LengthReached \/ count + Digits = Start(img.cols, y)
  /\ length \in Nat => count <= MaxOf(1, length)

Inv == Picture /\ Fields /\ Stopping /\ (Readable(img) => Collected)

\* An image that was just encoded, and a decoder that has not begun.
LEMMA InvInit == Init => Inv
<1> SUFFICES ASSUME Init
             PROVE  Inv
  OBVIOUS
<1>1. PICK n \in Lengths, ratio \in Ratios, encoder \in Encoders :
        \E read \in Misreads \cup {<<n, Digits + 1>>} :
          img = Image(Painted(n, ratio), encoder, read)
  <2>1. PICK painted \in {Painted(n, ratio) : n \in Lengths, ratio \in Ratios}, encoder \in Encoders :
          \E read \in Misreads \cup {<<painted.n, Digits + 1>>} : img = Image(painted, encoder, read)
    BY DEF Init
  <2>2. PICK n \in Lengths, ratio \in Ratios : painted = Painted(n, ratio)
    OBVIOUS
  <2>3. painted.n = n
    BY <2>2 DEF Painted
  <2> QED
    BY <2>1, <2>2, <2>3
<1>9. PICK read \in Misreads \cup {<<n, Digits + 1>>} :
        img = Image(Painted(n, ratio), encoder, read)
  BY <1>1
<1> DEFINE cols == Columns(n, ratio)
           rows == Rows(n, ratio)
<1>2. Fits(n, cols, rows)
  BY ShapeFits
<1>3. /\ img.n = n /\ img.cols = cols /\ img.rows = rows /\ img.encoder = encoder
      /\ img.said = read[1] /\ img.letter = read[2]
      /\ img.text = [row \in 0..rows |-> RowChars(n, cols, rows, row)]
  BY <1>9 DEF Image, Painted
<1>10. read[1] \in 0..MaxLength /\ read[2] \in 1..(Digits + 1)
  <2>1. n \in 0..MaxLength /\ Digits + 1 \in 1..(Digits + 1)
    BY BacchantAssumption DEF Digits
  <2> QED
    BY <2>1, BacchantAssumption
<1> HIDE DEF cols, rows
<1>4. Picture
  BY <1>2, <1>3, <1>10 DEF Picture, Encoded
<1>5. /\ y = 0 /\ count = 0 /\ length = Null /\ lengthString = <<>> /\ decodeData = <<>>
      /\ codecFound = "untested" /\ done = FALSE
  BY DEF Init
<1>6. Fields
  <2>1. <<>> \in Seq(Int) /\ Len(<<>>) = 0
    BY EmptySeq
  <2>2. rows \in Nat
    BY <1>2, Numbers
  <2>3. y \in 0..img.rows
    BY <1>3, <1>5, <2>2
  <2>4. /\ decodeData \in Seq(Int) /\ count = Len(decodeData)
        /\ lengthString \in Seq(Int) /\ Len(lengthString) <= Digits
    <3>1. lengthString \in Seq(Int) /\ decodeData \in Seq(Int)
      BY <1>5, <2>1
    <3>2. Len(lengthString) = 0 /\ Len(decodeData) = 0
      BY <1>5, <2>1
    <3> QED
      BY <1>5, <3>1, <3>2 DEF Digits
  <2> QED
    BY <1>5, <2>3, <2>4 DEF Fields
<1>7. Stopping
  BY <1>5 DEF Stopping
<1>8. Collected
  <2>1. img.n \in Nat
    BY <1>4, Numbers DEF Picture, Encoded
  <2> QED
    BY <1>5, <2>1 DEF Collected, Null
<1> QED
  BY <1>4, <1>6, <1>7, <1>8 DEF Inv

-------------------------------------------------------------------------------
(* One call of getChunk().                                                  *)

\* The numbers of a piece of a sequence.
LEMMA Piece ==
  ASSUME NEW t \in Seq(Int), NEW a \in Nat, NEW b \in Nat, a + b <= Len(t)
  PROVE  /\ SubSeq(t, a + 1, a + b) \in Seq(Int) /\ Len(SubSeq(t, a + 1, a + b)) = b
         /\ \A k \in 1..b : SubSeq(t, a + 1, a + b)[k] = t[a + k]
<1> DEFINE m == a + 1
           n == a + b
<1>1. m \in Int /\ n \in Int /\ n - m + 1 = b /\ (IF m <= n THEN n - m + 1 ELSE 0) = b
  OBVIOUS
<1>2. \A i \in m..n : t[i] \in Int
  OBVIOUS
<1>3. \A k \in 1..b : m + k - 1 = a + k
  OBVIOUS
<1> HIDE DEF m, n
<1>4. /\ SubSeq(t, m, n) \in Seq(Int)
      /\ Len(SubSeq(t, m, n)) = IF m <= n THEN n - m + 1 ELSE 0
      /\ \A i \in 1..(n - m + 1) : SubSeq(t, m, n)[i] = t[m + i - 1]
  BY <1>1, <1>2, SubSeqProperties
<1>5. \A k \in 1..b : SubSeq(t, m, n)[k] = t[a + k]
  BY <1>1, <1>3, <1>4
<1> QED
  BY <1>1, <1>4, <1>5 DEF m, n

\* Later rows begin with later characters.
LEMMA StartMonotonic ==
  ASSUME NEW n, NEW cols, NEW rows, Fits(n, cols, rows), NEW a \in Nat, NEW b \in Nat, a <= b
  PROVE  Start(cols, a) <= Start(cols, b)
<1> DEFINE T == {d \in Nat : ~(Start(cols, a) <= Start(cols, a + d))}
<1>1. T = {}
  <2> SUFFICES ASSUME T # {} PROVE FALSE
    OBVIOUS
  <2>1. PICK d \in T : \A e \in T : d <= e
    <3>1. T \in SUBSET Nat
      OBVIOUS
    <3> HIDE DEF T
    <3> QED
      BY <3>1, LeastNumber
  <2>2. d \in Nat /\ ~(Start(cols, a) <= Start(cols, a + d))
    BY <2>1
  <2>3. Start(cols, a) \in Nat
    BY StartFacts
  <2>4. d # 0
    BY <2>2, <2>3
  <2>5. d - 1 \in Nat /\ a + (d - 1) \in Nat /\ a + d = (a + (d - 1)) + 1 /\ ~(d <= d - 1)
    BY <2>2, <2>4
  <2>6. Start(cols, a) <= Start(cols, a + (d - 1))
    <3>1. d - 1 \notin T
      <4> HIDE DEF T
      <4> QED
        BY <2>1, <2>5
    <3> QED
      BY <2>5, <3>1
  <2> DEFINE r == a + (d - 1)
             w == cols \div 2 - FirstPair(r)
  <2>7. Start(cols, r + 1) = Start(cols, r) + w /\ w \in Nat /\ Start(cols, r) \in Nat
    <3> HIDE DEF r
    <3> QED
      BY <2>5, StartFacts DEF r
  <2>8. Start(cols, a + d) = Start(cols, r + 1)
    BY <2>5
  <2> HIDE DEF r, w, T
  <2>9. Start(cols, a) <= Start(cols, r)
    BY <2>6 DEF r
  <2> QED
    BY <2>2, <2>3, <2>7, <2>8, <2>9
<1>2. b - a \in Nat /\ a + (b - a) = b
  OBVIOUS
<1>3. b - a \notin T
  BY <1>1
<1> QED
  BY <1>2, <1>3

\* What is read in up to eight characters: a number, unless the first is a letter.
LEMMA ParsedLength ==
  ASSUME NEW im, im.said \in 0..MaxLength, im.letter \in 1..(Digits + 1), NEW k \in 0..Digits
  PROVE  ParseInt(im, k) \in Nat \cup {NaN}
<1> DEFINE d == MinOf(k, im.letter - 1)
<1>1. d \in 0..8
  BY DEF MinOf, Digits
<1>2. ParseInt(im, k) = IF d = 0 THEN NaN ELSE im.said \div Weight[d]
  BY DEF ParseInt
<1> HIDE DEF d
<1>3. CASE d = 0
  BY <1>2, <1>3
<1>4. CASE d # 0
  <2>1. d \in 1..8
    BY <1>1, <1>4
  <2> DEFINE w == Weight[d]
             n == im.said
  <2>2. w \in Nat /\ w # 0
    BY <2>1, SMT DEF Weight
  <2>3. n \in Nat
    OBVIOUS
  <2> HIDE DEF w, n
  <2>4. n \div w \in Nat
    BY <2>2, <2>3, DivMod
  <2> QED
    BY <1>2, <1>4, <2>4 DEF w, n
<1> QED
  BY <1>3, <1>4

\* When noise has left the length what it was, both parsers find it.
LEMMA ExactLength ==
  ASSUME NEW im, im.n \in Nat, im.letter \in 1..(Digits + 1), Exact(im)
  PROVE  /\ ParseInt(im, Digits) = im.n /\ ParseUsize(im, Digits) = im.n
         /\ im.n # NaN
<1>1. im.said = im.n /\ im.letter = 9 /\ Digits = 8
  BY DEF Exact, Digits
<1>2. MinOf(Digits, im.letter - 1) = 8
  BY <1>1 DEF MinOf
<1>3. Weight[8] = 1
  BY SMT DEF Weight
<1>4. im.n \div 1 = im.n
  OBVIOUS
<1>5. ParseInt(im, Digits) = im.n
  BY <1>1, <1>2, <1>3, <1>4 DEF ParseInt
<1>6. ParseUsize(im, Digits) = im.n
  BY <1>1, <1>3, <1>4 DEF ParseUsize
<1> QED
  BY <1>5, <1>6 DEF NaN

\* The parts of ReadChunk.
Chars == Text(img, y, LastRow(img, codec))
DigitsRead == IF y = 0 THEN MinOf(Digits, Len(img.text[0])) ELSE 0
Lens == lengthString \o SubSeq(Chars, 1, DigitsRead)
Avail == Len(Chars) - DigitsRead
LengthRead == IF length = Null /\ Avail > 0 THEN ParseInt(img, Len(Lens)) ELSE length
Taken == IF Avail = 0 THEN 0 ELSE Take(codec, Avail, LengthRead)

\* What a call reads: Chars begins with the first character of row y and ends with row
\* LastRow; Taken of them come after the digits.
LEMMA ChunkFacts ==
  ASSUME Picture, Fields, y < img.rows
  PROVE  LET last == LastRow(img, codec)
         IN  /\ last \in y..img.rows
             /\ NextRow(img, codec) \in 1..img.rows
             /\ NextRow(img, codec) # img.rows => NextRow(img, codec) = last + 1
             /\ NextRow(img, codec) <= last + 1
             /\ Chars \in Seq(Int) /\ Reads(img, y, Chars)
             /\ Start(img.cols, last + 1) = Start(img.cols, y) + Len(Chars)
             /\ DigitsRead \in 0..Digits /\ Avail \in Nat
             /\ y = 0 /\ Wide(img) => DigitsRead = Digits
             /\ y # 0 => DigitsRead = 0
             /\ Lens \in Seq(Int) /\ Len(Lens) = Len(lengthString) + DigitsRead
             /\ Len(Lens) <= Digits
<1> DEFINE last == LastRow(img, codec)
<1>1. /\ Fits(img.n, img.cols, img.rows) /\ img.rows \in Nat /\ y \in Nat
      /\ ChunkSize \in Nat /\ 1 <= ChunkSize
  <2>1. Fits(img.n, img.cols, img.rows)
    BY DEF Picture, Encoded
  <2>2. img.rows \in Nat
    BY <2>1, Numbers
  <2>3. ChunkSize \in Nat /\ 1 <= ChunkSize
    BY BacchantAssumption
  <2> QED
    BY <2>1, <2>2, <2>3 DEF Fields
<1>2. /\ last = (IF y + ChunkSize - 1 < img.rows THEN y + ChunkSize - 1 ELSE img.rows)
      /\ NextRow(img, codec) = IF y + ChunkSize < img.rows THEN y + ChunkSize ELSE img.rows
  BY DEF LastRow, NextRow, MinOf, codec
<1>3. last \in y..img.rows /\ y \in 0..img.rows
  BY <1>1, <1>2
<1>4. /\ NextRow(img, codec) \in 1..img.rows
      /\ NextRow(img, codec) # img.rows => NextRow(img, codec) = last + 1
      /\ NextRow(img, codec) <= last + 1
  BY <1>1, <1>2
<1> HIDE DEF last
<1>5. /\ Chars \in Seq(Int) /\ Reads(img, y, Chars)
      /\ Start(img.cols, last + 1) = Start(img.cols, y) + Len(Chars)
  <2>1. Encoded(img)
    BY DEF Picture
  <2>2. Chars = Text(img, y, last)
    BY DEF Chars, last
  <2> QED
    BY <1>3, <2>1, <2>2, TextFacts
<1>6. /\ DigitsRead \in 0..Digits /\ DigitsRead <= Len(Chars)
      /\ y = 0 /\ Wide(img) => DigitsRead = Digits
      /\ y # 0 => DigitsRead = 0
  <2>1. CASE y # 0
    BY <1>5, <2>1 DEF DigitsRead, Digits
  <2>2. CASE y = 0
    <3> DEFINE first == Len(img.text[0])
    <3>1. /\ img.text[0] = RowChars(img.n, img.cols, img.rows, 0)
          /\ 0 \in 0..img.rows
      BY <1>1 DEF Picture, Encoded
    <3>2. img.text[0] \in Seq(Int) /\ Start(img.cols, 0 + 1) = Start(img.cols, 0) + first
      BY <1>1, <3>1, RowFacts
    <3>3. /\ Start(img.cols, 0) = 0 /\ FirstPair(0) = 2
          /\ Start(img.cols, 0 + 1) = Start(img.cols, 0) + (img.cols \div 2 - FirstPair(0))
      BY <1>1, StartFacts
    <3> DEFINE half == img.cols \div 2
    <3>4. first \in Nat /\ first = half - 2 /\ half \in Nat /\ (Wide(img) => 10 <= half)
      <4>1. img.cols \in Nat
        BY <1>1, Numbers
      <4>2. half \in Nat /\ (Wide(img) => 10 <= half)
        BY <4>1 DEF Wide, HeaderSide, Digits
      <4>3. first \in Nat
        BY <3>2
      <4>4. 0 + first = 0 + (half - 2)
        BY <3>2, <3>3
      <4> HIDE DEF first, half
      <4> QED
        BY <4>2, <4>3, <4>4
    <3> HIDE DEF half
    <3>5. Start(img.cols, 1) <= Start(img.cols, last + 1)
      <4>1. last + 1 \in Nat /\ 1 <= last + 1
        BY <1>1, <1>3
      <4> QED
        BY <1>1, <4>1, StartMonotonic
    <3>6. first <= Len(Chars)
      <4>1. Start(img.cols, 0 + 1) = Start(img.cols, 1)
        OBVIOUS
      <4>2. Start(img.cols, 1) = first /\ Start(img.cols, last + 1) = Len(Chars)
        BY <1>5, <2>2, <3>2, <3>3, <3>4, <4>1
      <4> HIDE DEF first
      <4> QED
        BY <3>5, <4>2
    <3>7. DigitsRead = IF 8 < first THEN 8 ELSE first
      BY <2>2 DEF DigitsRead, MinOf, Digits
    <3>8. Wide(img) => 8 <= first
      <4> HIDE DEF first
      <4> QED
        BY <3>4
    <3>9. Len(Chars) \in Nat
      BY <1>5
    <3> HIDE DEF first
    <3>10. DigitsRead \in 0..8 /\ DigitsRead <= Len(Chars)
      BY <3>4, <3>6, <3>7, <3>9
    <3>11. Wide(img) => DigitsRead = 8
      BY <3>4, <3>7, <3>8
    <3> QED
      BY <2>2, <3>10, <3>11 DEF Digits
  <2> QED
    BY <2>1, <2>2
<1>7. Avail \in Nat
  <2>1. Len(Chars) \in Nat
    BY <1>5
  <2> QED
    BY <1>6, <2>1 DEF Avail, Digits
<1>8. Lens \in Seq(Int) /\ Len(Lens) = Len(lengthString) + DigitsRead /\ Len(Lens) <= Digits
  <2> DEFINE t == SubSeq(Chars, 1, DigitsRead)
  <2>1. t \in Seq(Int) /\ Len(t) = DigitsRead
    <3>1. DigitsRead \in Nat /\ 0 + DigitsRead = DigitsRead /\ 0 + 1 = 1
      BY <1>6 DEF Digits
    <3>2. SubSeq(Chars, 0 + 1, 0 + DigitsRead) \in Seq(Int)
          /\ Len(SubSeq(Chars, 0 + 1, 0 + DigitsRead)) = DigitsRead
      BY <1>5, <1>6, <3>1, Piece
    <3> QED
      BY <3>1, <3>2
  <2> HIDE DEF t
  <2>2. lengthString \in Seq(Int) /\ Len(lengthString) <= Digits
    BY DEF Fields
  <2>3. lengthString \o t \in Seq(Int) /\ Len(lengthString \o t) = Len(lengthString) + Len(t)
    BY <2>1, <2>2, ConcatProperties, Zenon
  <2>4. y = 0 => Len(lengthString) = 0
    BY EmptySeq DEF Fields
  <2>5. Len(lengthString) \in Nat
    BY <2>2
  <2>6. Len(lengthString) + DigitsRead <= Digits
    BY <1>6, <2>2, <2>4, <2>5 DEF Digits
  <2> QED
    BY <2>1, <2>3, <2>6 DEF Lens, t
<1> QED
  BY <1>3, <1>4, <1>5, <1>6, <1>7, <1>8 DEF last

\* How many of them are taken for the payload: all, unless the length is reached.
LEMMA ChunkTaken ==
  ASSUME Picture, Fields, y < img.rows
  PROVE  /\ LengthRead \in Nat \cup {Null, NaN}
         /\ length # Null => LengthRead = length
         /\ length = Null /\ Avail = 0 => LengthRead = Null
         /\ length = Null /\ Avail # 0 => LengthRead = ParseInt(img, Len(Lens)) /\ LengthRead # Null
         /\ Taken \in 0..Avail
         /\ Taken < Avail => LengthRead \in Nat /\ LengthRead <= count + Taken
         /\ length = Null /\ Avail # 0 => Taken # 0
         /\ LengthRead \in Nat /\ length = Null => Taken <= MaxOf(1, LengthRead - count)
         /\ LengthRead \in Nat /\ length # Null => Taken <= MaxOf(0, LengthRead - count)
<1>1. Avail \in Nat /\ Len(Lens) \in 0..Digits
  <2>1. Lens \in Seq(Int) /\ Len(Lens) <= Digits
    BY ChunkFacts
  <2>2. Avail \in Nat
    BY ChunkFacts
  <2>3. Len(Lens) \in Nat
    BY <2>1
  <2> DEFINE l == Len(Lens)
  <2>4. l \in Nat /\ l <= 8
    BY <2>1, <2>3 DEF Digits
  <2> HIDE DEF l
  <2>5. l \in 0..Digits
    BY <2>4 DEF Digits
  <2> QED
    BY <2>2, <2>5 DEF l
<1>2. length \in Nat \cup {Null, NaN} /\ count \in Nat
  <2>1. decodeData \in Seq(Int) /\ count = Len(decodeData)
    BY DEF Fields
  <2> QED
    BY <2>1 DEF Fields
<1>3. ParseInt(img, Len(Lens)) \in Nat \cup {NaN}
  <2>1. img.said \in 0..MaxLength /\ img.letter \in 1..(Digits + 1)
    BY DEF Picture
  <2> QED
    BY <1>1, <2>1, ParsedLength
<1>4. /\ LengthRead \in Nat \cup {Null, NaN}
      /\ length # Null => LengthRead = length
      /\ length = Null /\ Avail = 0 => LengthRead = Null
      /\ length = Null /\ Avail # 0 => LengthRead = ParseInt(img, Len(Lens)) /\ LengthRead # Null
  BY <1>1, <1>2, <1>3 DEF LengthRead, Null, NaN
<1>5. /\ Taken \in 0..Avail
      /\ Taken < Avail => LengthRead \in Nat /\ LengthRead <= count + Taken
      /\ length = Null /\ Avail # 0 => Taken # 0
      /\ LengthRead \in Nat /\ length = Null => Taken <= MaxOf(1, LengthRead - count)
      /\ LengthRead \in Nat /\ length # Null => Taken <= MaxOf(0, LengthRead - count)
  <2>1. CASE Avail = 0
    BY <1>2, <2>1 DEF Taken, MaxOf
  <2>2. CASE Avail # 0 /\ LengthRead = NaN
    BY <1>1, <1>2, <2>2 DEF Taken, Take, NaN
  <2>3. CASE Avail # 0 /\ LengthRead # NaN
    <3>1. LengthRead \in Nat
      BY <1>4, <2>3
    <3>2. Taken = MinOf(Avail, MaxOf(IF length = Null THEN 1 ELSE 0, LengthRead - count))
      BY <2>3 DEF Taken, Take, codec
    <3> QED
      BY <1>1, <1>2, <3>1, <3>2 DEF MinOf, MaxOf
  <2> QED
    BY <2>1, <2>2, <2>3
<1> QED
  BY <1>4, <1>5

\* The step, in these parts.
LEMMA ChunkStep ==
  ASSUME GetChunk
  PROVE  /\ y' = NextRow(img, codec) /\ count' = count + Taken /\ length' = LengthRead
         /\ lengthString' = Lens
         /\ decodeData' = decodeData \o SubSeq(Chars, DigitsRead + 1, DigitsRead + Taken)
         /\ img' = img /\ codecFound' = codecFound /\ done' = done
         /\ codecFound = "yes" /\ ~done /\ ~NoMore
<1>1. ReadChunk(img, codec) =
        [y |-> NextRow(img, codec), count |-> count + Taken, length |-> LengthRead,
         lengthString |-> Lens,
         decodeData |-> decodeData \o SubSeq(Chars, DigitsRead + 1, DigitsRead + Taken)]
  BY DEF ReadChunk, codec, Chars, DigitsRead, Lens, Avail, LengthRead, Taken
<1> DEFINE s == ReadChunk(img, codec)
<1>2. /\ y' = s.y /\ count' = s.count /\ length' = s.length
      /\ lengthString' = s.lengthString /\ decodeData' = s.decodeData
      /\ img' = img /\ codecFound' = codecFound /\ done' = done
      /\ codecFound = "yes" /\ ~done /\ ~NoMore
  BY DEF GetChunk
<1> HIDE DEF s
<1>3. /\ s.y = NextRow(img, codec) /\ s.count = count + Taken /\ s.length = LengthRead
      /\ s.lengthString = Lens
      /\ s.decodeData = decodeData \o SubSeq(Chars, DigitsRead + 1, DigitsRead + Taken)
  <2> DEFINE a == NextRow(img, codec)
             b == count + Taken
             c == LengthRead
             d == Lens
             e == decodeData \o SubSeq(Chars, DigitsRead + 1, DigitsRead + Taken)
  <2>1. s = [y |-> a, count |-> b, length |-> c, lengthString |-> d, decodeData |-> e]
    BY <1>1 DEF s
  <2> HIDE DEF a, b, c, d, e
  <2>2. s.y = a /\ s.count = b /\ s.length = c /\ s.lengthString = d /\ s.decodeData = e
    BY <2>1
  <2> QED
    BY <2>2 DEF a, b, c, d, e
<1> QED
  BY <1>2, <1>3

\* One call of getChunk() preserves the invariant.
LEMMA GetChunkPreserves ==
  ASSUME Inv, GetChunk
  PROVE  Inv'
<1> DEFINE cols == img.cols
           last == LastRow(img, codec)
           piece == SubSeq(Chars, DigitsRead + 1, DigitsRead + Taken)
           begin == Start(cols, y)
           p == Len(Chars)
<1>1. Picture /\ Fields
  BY DEF Inv
<1>2. /\ y' = NextRow(img, codec) /\ count' = count + Taken /\ length' = LengthRead
      /\ lengthString' = Lens /\ decodeData' = decodeData \o piece
      /\ img' = img /\ codecFound' = codecFound /\ done' = done
      /\ codecFound = "yes" /\ ~done /\ ~NoMore
  BY ChunkStep
<1>3. Fits(img.n, cols, img.rows) /\ Encoded(img)
  BY <1>1 DEF Picture, Encoded
<1>4. img.rows \in Nat /\ img.n \in Nat /\ 1 <= img.n
  BY <1>3, Numbers
<1>5. y < img.rows /\ y \in Nat /\ ~LengthReached
  BY <1>1, <1>2, <1>4 DEF NoMore, Fields, LengthReached
<1>6. /\ last \in y..img.rows
      /\ NextRow(img, codec) \in 1..img.rows
      /\ NextRow(img, codec) # img.rows => NextRow(img, codec) = last + 1
      /\ NextRow(img, codec) <= last + 1
  BY <1>1, <1>5, ChunkFacts
<1>7. /\ Chars \in Seq(Int) /\ Reads(img, y, Chars)
      /\ Start(cols, last + 1) = begin + p
  BY <1>1, <1>5, ChunkFacts
<1>8. /\ DigitsRead \in 0..Digits /\ Avail \in Nat
      /\ y = 0 /\ Wide(img) => DigitsRead = Digits
      /\ y # 0 => DigitsRead = 0
      /\ Lens \in Seq(Int) /\ Len(Lens) = Len(lengthString) + DigitsRead
      /\ Len(Lens) <= Digits
  BY <1>1, <1>5, ChunkFacts
<1>9. /\ LengthRead \in Nat \cup {Null, NaN}
      /\ length # Null => LengthRead = length
      /\ length = Null /\ Avail = 0 => LengthRead = Null
      /\ length = Null /\ Avail # 0 => LengthRead = ParseInt(img, Len(Lens)) /\ LengthRead # Null
  BY <1>1, <1>5, ChunkTaken
<1>10. /\ Taken \in 0..Avail
       /\ Taken < Avail => LengthRead \in Nat /\ LengthRead <= count + Taken
       /\ length = Null /\ Avail # 0 => Taken # 0
       /\ LengthRead \in Nat /\ length = Null => Taken <= MaxOf(1, LengthRead - count)
       /\ LengthRead \in Nat /\ length # Null => Taken <= MaxOf(0, LengthRead - count)
  BY <1>1, <1>5, ChunkTaken
<1>11. p \in Nat /\ Avail = p - DigitsRead /\ DigitsRead \in Nat /\ Taken \in Nat
  BY <1>7, <1>8, <1>10 DEF Avail, Digits
<1> HIDE DEF cols, last, p, begin
<1>12. piece \in Seq(Int) /\ Len(piece) = Taken
       /\ \A k \in 1..Taken : piece[k] = Chars[DigitsRead + k]
  <2>1. DigitsRead + Taken <= Len(Chars)
    BY <1>8, <1>10, <1>11 DEF p
  <2> QED
    BY <1>7, <1>11, <2>1, Piece
<1> HIDE DEF piece
<1>13. decodeData \in Seq(Int) /\ count = Len(decodeData) /\ count \in Nat
  <2>1. decodeData \in Seq(Int) /\ count = Len(decodeData)
    BY <1>1 DEF Fields
  <2> QED
    BY <2>1
<1>14. decodeData \o piece \in Seq(Int) /\ Len(decodeData \o piece) = Len(decodeData) + Len(piece)
  BY <1>12, <1>13, ConcatProperties, Zenon
<1>15. Picture'
  BY <1>1, <1>2 DEF Picture
<1>16. Fields'
  <2>1. y' \in 0..img'.rows /\ y' # 0
    BY <1>2, <1>4, <1>6
  <2>2. decodeData' \in Seq(Int) /\ count' = Len(decodeData')
    BY <1>2, <1>12, <1>13, <1>14
  <2> QED
    BY <1>1, <1>2, <1>8, <1>9, <2>1, <2>2 DEF Fields
<1>17. Stopping'
  <2>1. Stopping
    BY DEF Inv
  <2> QED
    BY <1>2, <2>1 DEF Stopping
<1>18. ASSUME Readable(img)
       PROVE  Collected'
  <2>1. Collected /\ Wide(img) /\ BelowHeader(img.n, cols)
    BY <1>18 DEF Inv, Readable, cols
  <2>2. begin \in Nat /\ Start(cols, 0) = 0
    BY <1>3, <1>5, StartFacts DEF begin
  <2>3. begin + DigitsRead = count + 8
    <3>1. CASE y = 0
      BY <1>1, <1>8, <2>1, <2>2, <3>1 DEF Fields, begin, Digits
    <3>2. CASE y # 0
      <4>1. count + Digits = begin /\ DigitsRead = 0
        BY <1>5, <1>8, <2>1, <3>2 DEF Collected, begin, cols
      <4> QED
        BY <2>2, <4>1 DEF Digits
    <3> QED
      BY <3>1, <3>2
  <2>4. Len(Lens) = Digits
    <3>1. CASE y = 0
      <4>1. Len(lengthString) = 0
        BY <1>1, <3>1, EmptySeq DEF Fields
      <4> QED
        BY <1>8, <2>1, <3>1, <4>1 DEF Digits
    <3>2. CASE y # 0
      BY <1>5, <1>8, <2>1, <3>2 DEF Collected, Digits
    <3> QED
      BY <3>1, <3>2
  <2>5. LengthRead \in {Null, ParseInt(img, Digits)}
    BY <1>9, <2>1, <2>4 DEF Collected
  <2>6. LengthRead = Null <=> count + Taken = 0
    BY <1>9, <1>10, <1>11, <1>13, <2>1 DEF Collected
  <2>7. ASSUME NEW k \in 1..(count + Taken), k <= img.n
        PROVE  (decodeData \o piece)[k] = 8 + k - 1
    <3>1. CASE k <= count
      <4>1. (decodeData \o piece)[k] = decodeData[k] /\ k \in 1..count
        BY <1>12, <1>13, <3>1
      <4> QED
        BY <2>1, <2>7, <4>1 DEF Collected, Digits
    <3>2. CASE ~(k <= count)
      <4> DEFINE i == k - count
                 j == DigitsRead + i
      <4>1. (decodeData \o piece)[k] = piece[i] /\ i \in 1..Taken
        BY <1>11, <1>12, <1>13, <3>2
      <4>2. j \in 1..p /\ begin + j - 1 = 8 + k - 1 /\ begin + j - 1 < 8 + img.n
        <5>1. k \in Nat /\ k <= count + Taken /\ count < k /\ k <= img.n
          BY <1>11, <1>13, <2>7, <3>2
        <5>2. Taken <= Avail
          BY <1>8, <1>10
        <5>3. 1 <= i /\ i <= Taken /\ i \in Nat /\ k = count + i
          BY <1>11, <1>13, <5>1
        <5> HIDE DEF i
        <5>4. j \in Nat /\ 1 <= j /\ j <= p
          BY <1>8, <1>11, <5>2, <5>3
        <5>5. begin + j = 8 + k
          BY <1>11, <1>13, <2>2, <2>3, <5>3
        <5> HIDE DEF j
        <5> QED
          BY <1>4, <1>11, <2>2, <5>1, <5>4, <5>5
      <4>3. piece[i] = Chars[j]
        BY <1>12, <4>1
      <4> HIDE DEF i, j
      <4>5. Legible(img.n, cols, begin + j - 1)
        BY <2>1, <4>2 DEF Legible, Digits
      <4>4. Chars[j] = begin + j - 1
        BY <1>7, <4>2, <4>5 DEF Reads, begin, p, cols
      <4> QED
        BY <4>1, <4>2, <4>3, <4>4
    <3> QED
      BY <3>1, <3>2
  <2>8. \/ LengthRead \in Nat /\ count + Taken >= LengthRead
        \/ count + Taken + Digits = Start(cols, last + 1)
    <3>1. CASE Taken < Avail
      BY <1>10, <1>11, <1>13, <3>1
    <3>2. CASE ~(Taken < Avail)
      <4>1. Taken = Avail
        BY <1>8, <1>10, <3>2
      <4> QED
        BY <1>7, <1>11, <1>13, <2>2, <2>3, <4>1 DEF Digits
    <3> QED
      BY <3>1, <3>2
  <2>9. Start(cols, y') <= Start(cols, last + 1) /\ (y' < img.rows => y' = last + 1)
    <3>1. y' \in Nat /\ last + 1 \in Nat /\ y' <= last + 1
      BY <1>2, <1>4, <1>5, <1>6
    <3>2. Start(cols, y') <= Start(cols, last + 1)
      <4> DEFINE a == NextRow(img, codec)
      <4>1. a \in Nat /\ a <= last + 1
        BY <1>2, <3>1
      <4> HIDE DEF a
      <4>2. Start(cols, a) <= Start(cols, last + 1)
        BY <1>3, <3>1, <4>1, StartMonotonic
      <4> QED
        BY <1>2, <4>2 DEF a
    <3> QED
      BY <1>2, <1>4, <1>6, <3>2
  <2>10. LengthRead \in Nat => count + Taken <= MaxOf(1, LengthRead)
    <3> SUFFICES ASSUME LengthRead \in Nat PROVE count + Taken <= MaxOf(1, LengthRead)
      OBVIOUS
    <3>1. CASE length = Null
      <4>1. count = 0 /\ Taken <= MaxOf(1, LengthRead - count)
        BY <1>10, <2>1, <3>1 DEF Collected
      <4> QED
        BY <1>11, <4>1 DEF MaxOf
    <3>2. CASE length # Null
      <4>1. /\ LengthRead = length /\ count <= MaxOf(1, length)
            /\ Taken <= MaxOf(0, LengthRead - count)
        BY <1>9, <1>10, <2>1, <3>2 DEF Collected
      <4> QED
        BY <1>11, <1>13, <4>1 DEF MaxOf
    <3> QED
      BY <3>1, <3>2
  <2>11. LengthReached' <=> LengthRead \in Nat /\ count + Taken >= LengthRead
    BY <1>2 DEF LengthReached
  <2>12. Start(cols, last + 1) \in Nat /\ Start(cols, y') \in Int /\ count + Taken \in Nat
    <3>1. last + 1 \in Nat
      BY <1>4, <1>5, <1>6
    <3>2. y' \in Nat
      BY <1>2, <1>4, <1>6
    <3>3. Start(cols, last + 1) \in Nat
      BY <1>3, <3>1, StartFacts
    <3>4. \A a \in Nat : Start(cols, a) \in Nat
      BY <1>3, StartFacts
    <3> QED
      BY <1>11, <1>13, <3>2, <3>3, <3>4
  <2>13. y' > 0 => Len(lengthString') = Digits
    BY <1>2, <2>4
  <2>14. \/ LengthReached'
         \/ /\ count' + Digits >= Start(cols, y')
            /\ y' < img.rows => count' + Digits = Start(cols, y')
    <3>1. CASE count + Taken + Digits = Start(cols, last + 1)
      BY <1>2, <2>9, <2>12, <3>1
    <3> QED
      BY <2>8, <2>11, <3>1
  <2>15. \A k \in 1..count' : k <= img'.n => decodeData'[k] = Digits + k - 1
    BY <1>2, <2>7 DEF Digits
  <2>16. length' \in {Null, ParseInt(img', Digits)} /\ (length' = Null <=> count' = 0)
    BY <1>2, <2>5, <2>6
  <2>17. length' \in Nat => count' <= MaxOf(1, length')
    BY <1>2, <2>10
  <2>18. img'.cols = cols /\ img'.rows = img.rows
    BY <1>2 DEF cols
  <2> QED
    BY <2>13, <2>14, <2>15, <2>16, <2>17, <2>18 DEF Collected
<1>19. Readable(img)' => Collected'
  <2>1. Readable(img)' <=> Readable(img)
    BY <1>2 DEF Readable, Wide
  <2> QED
    BY <1>18, <2>1
<1> QED
  BY <1>15, <1>16, <1>17, <1>19 DEF Inv

\* getCodec() preserves it: only images of core-rust, and those whose message ends beside
\* the header, may be refused.
LEMMA TestPreserves ==
  ASSUME Inv, Test
  PROVE  Inv'
<1>1. /\ UNCHANGED <<img, y, count, length, lengthString, decodeData>>
      /\ codecFound' = (IF HeaderReads(img) THEN "yes" ELSE "no")
      /\ done' = ~HeaderReads(img)
  BY DEF Test
<1>2. Picture' /\ Fields' /\ (Readable(img)' => Collected')
  <2>1. Picture' /\ (Readable(img)' => Collected')
    BY <1>1 DEF Inv, Picture, Readable, Wide, Collected, LengthReached
  <2>2. codecFound' \in {"untested", "yes", "no"} /\ done' \in BOOLEAN
    BY <1>1
  <2> QED
    BY <1>1, <2>1, <2>2 DEF Inv, Fields
<1>3. Stopping'
  <2>1. Fits(img.n, img.cols, img.rows) /\ img.encoder \in {"closure", "core-rust"}
    BY BacchantAssumption DEF Inv, Picture, Encoded
  <2>2. HeaderReads(img) \/ img.encoder = "core-rust" \/ ~BelowHeader(img.n, img.cols)
    BY <2>1, HeaderFound
  <2> QED
    BY <1>1, <2>2 DEF Stopping
<1> QED
  BY <1>2, <1>3 DEF Inv

\* So does the call of the callback.
LEMMA FinishPreserves ==
  ASSUME Inv, Finish
  PROVE  Inv'
<1>1. /\ UNCHANGED <<img, y, count, length, lengthString, decodeData, codecFound>>
      /\ NoMore /\ done' = TRUE
  BY DEF Finish
<1>2. Picture' /\ Fields' /\ (Readable(img)' => Collected')
  BY <1>1 DEF Inv, Picture, Readable, Wide, Collected, LengthReached, Fields
<1>3. NoMore' /\ Stopping'
  BY <1>1 DEF Inv, Stopping, NoMore
<1> QED
  BY <1>2, <1>3 DEF Inv

\* The invariant is inductive.
LEMMA InvStep == Inv /\ [Next]_vars => Inv'
<1> SUFFICES ASSUME Inv, [Next]_vars
             PROVE  Inv'
  OBVIOUS
<1>1. CASE Test
  BY <1>1, TestPreserves
<1>2. CASE GetChunk
  BY <1>2, GetChunkPreserves
<1>3. CASE Finish
  BY <1>3, FinishPreserves
<1>4. CASE UNCHANGED vars
  <2>1. NoMore' <=> NoMore
    BY <1>4 DEF vars, NoMore
  <2> QED
    BY <1>4, <2>1
       DEF vars, Inv, Picture, Fields, Stopping, Readable, Wide, Collected, LengthReached
<1> QED
  BY <1>1, <1>2, <1>3, <1>4 DEF Next

\* It holds in every state.
LEMMA InvHolds == Spec => []Inv
  BY InvInit, InvStep, PTL DEF Spec

-------------------------------------------------------------------------------
(* What the decoders return.                                                *)

\* The only sequence of the payload's length with these elements is the payload.
LEMMA IsPayload ==
  ASSUME NEW im, im.n \in Nat, NEW t \in Seq(Int), Len(t) = im.n,
         \A k \in 1..im.n : t[k] = Digits + k - 1
  PROVE  t = Payload(im)
<1>1. Payload(im) \in Seq(Int) /\ Len(Payload(im)) = im.n
  BY DEF Payload, Digits
<1>2. \A k \in 1..im.n : Payload(im)[k] = Digits + k - 1
  BY DEF Payload
<1> QED
  BY <1>1, <1>2, SeqEqual

\* So much of the payload is there when decoding stops.
Kept(im) ==
  LET len == ParseInt(im, Digits)
  IN  IF len = NaN THEN im.n ELSE MinOf(im.n, MaxOf(1, len))

\* Whatever the length was read as, decoding stops after that much of the payload, and it
\* is cut off there when the length was read as less than there is.
LEMMA AllCollected ==
  ASSUME Inv, Readable(img), NoMore
  PROVE  /\ Kept(img) \in Nat /\ Kept(img) <= img.n /\ count >= Kept(img)
         /\ ParseInt(img, Digits) # NaN /\ ParseInt(img, Digits) < img.n => count = Kept(img)
<1> DEFINE len == ParseInt(img, Digits)
<1>1. Fits(img.n, img.cols, img.rows) /\ BelowHeader(img.n, img.cols)
  BY DEF Inv, Picture, Encoded, Readable
<1>2. img.n \in Nat /\ 1 <= img.n /\ img.rows \in Nat /\ img.rows > 0
  BY <1>1, Numbers
<1>3. y \in 0..img.rows /\ count \in Nat
  <2>1. decodeData \in Seq(Int) /\ count = Len(decodeData) /\ y \in 0..img.rows
    BY DEF Inv, Fields
  <2> QED
    BY <2>1
<1>4. Collected
  BY DEF Inv
<1>5. LengthReached \/ y >= img.rows
  BY DEF NoMore, LengthReached
<1>6. len \in Nat \cup {NaN}
  <2>1. img.said \in 0..MaxLength /\ img.letter \in 1..(Digits + 1) /\ Digits \in 0..Digits
    BY DEF Inv, Picture, Digits
  <2> QED
    BY <2>1, ParsedLength
<1>7. length \in {Null, len} /\ (length \in Nat => count <= MaxOf(1, length))
      /\ (length = Null <=> count = 0)
  BY <1>4 DEF Collected
<1>8. Kept(img) = IF len = NaN THEN img.n ELSE MinOf(img.n, MaxOf(1, len))
  BY DEF Kept
<1> HIDE DEF len
<1>9. Kept(img) \in Nat /\ Kept(img) <= img.n
  BY <1>2, <1>6, <1>8 DEF MinOf, MaxOf
<1>10. ~LengthReached => count >= img.n
  <2> SUFFICES ASSUME ~LengthReached PROVE count >= img.n
    OBVIOUS
  <2>1. y = img.rows /\ y > 0
    BY <1>2, <1>3, <1>5
  <2>2. count + Digits >= Start(img.cols, img.rows)
    BY <1>4, <2>1 DEF Collected
  <2>3. 8 + img.n <= Start(img.cols, img.rows)
    BY <1>1, EnoughRows
  <2>4. Start(img.cols, img.rows) \in Nat
    BY <1>1, <1>2, StartFacts
  <2> QED
    BY <1>2, <1>3, <2>2, <2>3, <2>4 DEF Digits
<1>11. CASE LengthReached
  <2>1. length \in Nat /\ count >= length
    BY <1>11 DEF LengthReached
  <2>2. length = len /\ len # NaN
    BY <1>6, <1>7, <2>1 DEF Null, NaN
  <2>3. count # 0
    BY <1>7, <2>1 DEF Null
  <2> QED
    BY <1>2, <1>3, <1>6, <1>7, <1>8, <2>1, <2>2, <2>3 DEF MinOf, MaxOf, len
<1>12. CASE ~LengthReached
  <2>1. count >= img.n
    BY <1>10, <1>12
  <2>2. len # NaN /\ len < img.n => count = Kept(img)
    <3> SUFFICES ASSUME len # NaN, len < img.n PROVE count = Kept(img)
      OBVIOUS
    <3>1. len \in Nat
      BY <1>6
    <3>2. length # len
      BY <1>2, <1>3, <1>12, <2>1, <3>1 DEF LengthReached
    <3>3. count = 0
      BY <1>7, <3>2
    <3> QED
      BY <1>2, <2>1, <3>3
  <2> QED
    BY <1>2, <1>3, <1>9, <2>1, <2>2 DEF len
<1> QED
  BY <1>9, <1>11, <1>12

\* The fields of the decoder keep their types, and count is the number of characters
\* that were collected.
THEOREM TypeCorrect == Spec => []TypeOK
<1>1. Inv => TypeOK
  BY DEF Inv, Picture, Fields, TypeOK
<1> QED
  BY <1>1, InvHolds, PTL

\* The picture the encoder makes has room for everything: no two symbols share a block,
\* none lies on the header, none outside, and both halves of a character are neighbours.
\* The random blocks at the end cover no symbol painted before, unless the message ends
\* beside the header: then the last four, as far as they are in one row.
THEOREM LayoutSoundHolds == Spec => []LayoutSound
<1>1. Inv => LayoutSound
  <2> SUFFICES ASSUME Inv PROVE LayoutSound
    OBVIOUS
  <2>1. Fits(img.n, img.cols, img.rows)
    BY DEF Inv, Picture, Encoded
  <2> QED
    BY <2>1, Layout DEF LayoutSound
<1> QED
  BY <1>1, InvHolds, PTL

\* An image that the closure encoder made is recognised by its header, and at every timer
\* of its decoding getChunk() has collected a prefix of the payload, in the end all of it,
\* when the image is at least 40 pixels wide, its message goes on below the header, and
\* its length is read correctly.
THEOREM ReadsPrefixHolds == Spec => []ReadsPrefix
<1>1. Inv => ReadsPrefix
  <2> SUFFICES ASSUME Inv, BelowHeader(img.n, img.cols)
               PROVE  /\ codecFound = "no" => img.encoder = "core-rust"
                      /\ Wide(img) /\ Exact(img) =>
                           /\ count <= img.n /\ decodeData = SubSeq(Payload(img), 1, count)
                           /\ done /\ codecFound = "yes" => decodeData = Payload(img)
    BY DEF ReadsPrefix
  <2>1. codecFound = "no" => img.encoder = "core-rust"
    BY DEF Inv, Stopping
  <2>2. ASSUME Wide(img), Exact(img)
        PROVE  /\ count <= img.n /\ decodeData = SubSeq(Payload(img), 1, count)
               /\ done /\ codecFound = "yes" => decodeData = Payload(img)
    <3>1. Collected /\ Readable(img)
      BY <2>2 DEF Inv, Readable
    <3>7. img.n \in Nat /\ 1 <= img.n /\ ParseInt(img, Digits) = img.n
      <4>1. Fits(img.n, img.cols, img.rows) /\ img.letter \in 1..(Digits + 1)
        BY DEF Inv, Picture, Encoded
      <4>2. img.n \in Nat /\ 1 <= img.n
        BY <4>1, Numbers
      <4> QED
        BY <2>2, <4>1, <4>2, ExactLength
    <3>2. count <= img.n /\ \A k \in 1..count : k <= img.n => decodeData[k] = Digits + k - 1
      <4>1. /\ length \in {Null, img.n} /\ (length = Null <=> count = 0)
            /\ length \in Nat => count <= MaxOf(1, length)
            /\ \A k \in 1..count : k <= img.n => decodeData[k] = Digits + k - 1
        BY <3>1, <3>7 DEF Collected
      <4> QED
        BY <3>7, <4>1 DEF MaxOf
    <3>3. decodeData \in Seq(Int) /\ count = Len(decodeData) /\ count \in Nat
      <4>1. decodeData \in Seq(Int) /\ count = Len(decodeData)
        BY DEF Inv, Fields
      <4> QED
        BY <4>1
    <3>4. img.n \in Nat
      <4>1. Fits(img.n, img.cols, img.rows)
        BY DEF Inv, Picture, Encoded
      <4> QED
        BY <4>1, Numbers
    <3>5. decodeData = SubSeq(Payload(img), 1, count)
      <4> DEFINE t == Payload(img)
                 u == SubSeq(t, 0 + 1, 0 + count)
      <4>1. t \in Seq(Int) /\ Len(t) = img.n /\ \A k \in 1..img.n : t[k] = Digits + k - 1
        BY <3>4 DEF Payload, Digits
      <4> HIDE DEF t
      <4>2. u \in Seq(Int) /\ Len(u) = count /\ \A k \in 1..count : u[k] = t[0 + k]
        BY <3>2, <3>3, <3>4, <4>1, Piece
      <4>3. 0 + 1 = 1 /\ 0 + count = count
        BY <3>3
      <4>4. u = SubSeq(t, 1, count)
        BY <4>3
      <4> HIDE DEF u
      <4>5. \A k \in 1..count : decodeData[k] = u[k]
        <5>1. \A k \in 1..count : k \in 1..img.n /\ k <= img.n /\ 0 + k = k
          BY <3>2, <3>3, <3>4
        <5> QED
          BY <3>2, <4>1, <4>2, <5>1
      <4>6. decodeData = u
        BY <3>3, <4>2, <4>5, SeqEqual
      <4> QED
        BY <4>4, <4>6 DEF t
    <3>6. done /\ codecFound = "yes" => decodeData = Payload(img)
      <4> SUFFICES ASSUME done, codecFound = "yes" PROVE decodeData = Payload(img)
        OBVIOUS
      <4>1. NoMore
        BY DEF Inv, Stopping
      <4>2. count = img.n
        <5>1. count >= Kept(img)
          BY <3>1, <4>1, AllCollected
        <5>2. Kept(img) = img.n
          BY <3>7 DEF Kept, MinOf, MaxOf, NaN
        <5> QED
          BY <3>2, <3>3, <3>4, <5>1, <5>2
      <4>3. \A k \in 1..img.n : decodeData[k] = Digits + k - 1
        BY <3>2, <3>4, <4>2
      <4> QED
        BY <3>3, <3>4, <4>2, <4>3, IsPayload
    <3> QED
      BY <3>2, <3>5, <3>6
  <2> QED
    BY <2>1, <2>2 DEF ReadsPrefix
<1> QED
  BY <1>1, InvHolds, PTL

\* Whatever noise makes of the length, so much of the payload is collected as it then
\* says: all of it when it says more than there is, or nothing because its first character
\* is a letter; a cut off one when it says less, or a later character is a letter.
THEOREM KeepsUpToLengthHolds == Spec => []KeepsUpToLength
<1>1. Inv => KeepsUpToLength
  <2> DEFINE kept == Kept(img)
  <2> SUFFICES ASSUME Inv, Readable(img), done, codecFound = "yes"
               PROVE  /\ count >= kept
                      /\ SubSeq(decodeData, 1, kept) = SubSeq(Payload(img), 1, kept)
                      /\ ParseInt(img, Digits) # NaN /\ ParseInt(img, Digits) < img.n => count = kept
    BY DEF KeepsUpToLength, Kept, Readable
  <2>1. Collected /\ NoMore
    BY DEF Inv, Stopping
  <2>2. /\ kept \in Nat /\ kept <= img.n /\ count >= kept
        /\ ParseInt(img, Digits) # NaN /\ ParseInt(img, Digits) < img.n => count = kept
    BY <2>1, AllCollected
  <2>3. img.n \in Nat
    <3>1. Fits(img.n, img.cols, img.rows)
      BY DEF Inv, Picture, Encoded
    <3> QED
      BY <3>1, Numbers
  <2>4. decodeData \in Seq(Int) /\ count = Len(decodeData) /\ count \in Nat
    <3>1. decodeData \in Seq(Int) /\ count = Len(decodeData)
      BY DEF Inv, Fields
    <3> QED
      BY <3>1
  <2> HIDE DEF kept
  <2> DEFINE t == Payload(img)
             u == SubSeq(decodeData, 0 + 1, 0 + kept)
             v == SubSeq(t, 0 + 1, 0 + kept)
  <2>5. u \in Seq(Int) /\ Len(u) = kept /\ \A k \in 1..kept : u[k] = decodeData[0 + k]
    BY <2>2, <2>4, Piece
  <2>6. t \in Seq(Int) /\ Len(t) = img.n /\ \A k \in 1..img.n : t[k] = Digits + k - 1
    BY <2>3 DEF Payload, Digits
  <2> HIDE DEF t
  <2>7. v \in Seq(Int) /\ Len(v) = kept /\ \A k \in 1..kept : v[k] = t[0 + k]
    BY <2>2, <2>6, Piece
  <2>8. u = SubSeq(decodeData, 1, kept) /\ v = SubSeq(t, 1, kept)
    BY <2>2
  <2> HIDE DEF u, v
  <2>9. \A k \in 1..kept : u[k] = v[k]
    <3>1. \A k \in 1..kept : k \in 1..count /\ k \in 1..img.n /\ k <= img.n /\ 0 + k = k
      BY <2>2, <2>3, <2>4
    <3>2. \A k \in 1..count : k <= img.n => decodeData[k] = Digits + k - 1
      BY <2>1 DEF Collected
    <3> QED
      BY <2>5, <2>6, <2>7, <3>1, <3>2
  <2>10. u = v
    BY <2>5, <2>7, <2>9, SeqEqual
  <2> QED
    BY <2>2, <2>8, <2>10 DEF t
<1> QED
  BY <1>1, InvHolds, PTL

\* The decoders that read an image in one go agree with the closure encoder when the
\* length is read correctly and the message goes on below the header: packages/core on
\* images of every width, core-rust from 40 pixels of width on.  Neither reads what
\* core-rust paints.
THEOREM OneShotReadsHolds == Spec => []OneShotReads
<1>1. img.encoder = "core-rust" => TypeScriptDecode(img) = NoPayload /\ RustDecode(img) = NoPayload
  <2> SUFFICES ASSUME img.encoder = "core-rust"
               PROVE  TypeScriptDecode(img) = NoPayload /\ RustDecode(img) = NoPayload
    OBVIOUS
  <2>1. ~HeaderReads(img)
    BY HeaderOfRust
  <2> QED
    BY <2>1 DEF TypeScriptDecode, RustDecode
<1>2. Inv => OneShotReads
  <2> SUFFICES ASSUME Inv, img.encoder = "closure", BelowHeader(img.n, img.cols), Exact(img)
               PROVE  /\ TypeScriptDecode(img) = Payload(img)
                      /\ Wide(img) => RustDecode(img) = Payload(img)
    BY <1>1 DEF OneShotReads
  <2> DEFINE t == AllChars(img)
             n == img.n
  <2>1. Fits(n, img.cols, img.rows) /\ Encoded(img) /\ img.letter \in 1..(Digits + 1)
    BY DEF Inv, Picture, Encoded
  <2>8. HeaderReads(img)
    BY <2>1, HeaderFound
  <2>2. /\ n \in Nat /\ 1 <= n /\ img.rows \in Nat /\ 4 < img.rows /\ img.cols \in Nat
    BY <2>1, Numbers, BelowNumbers
  <2>3. t \in Seq(Int) /\ 8 + n <= Len(t) /\ \A k \in 1..Len(t) : k - 1 < 8 + n => t[k] = k - 1
    <3> DEFINE top == img.rows - 1
    <3>1. 0 \in 0..img.rows /\ top \in 0..img.rows /\ top + 1 = img.rows
      BY <2>2
    <3>2. t = Text(img, 0, top)
      BY DEF AllChars
    <3> HIDE DEF top, t
    <3>3. Text(img, 0, top) \in Seq(Int) /\ Reads(img, 0, Text(img, 0, top))
      BY <2>1, <3>1, TextFacts
    <3>4. Start(img.cols, top + 1) = Start(img.cols, 0) + Len(Text(img, 0, top))
      BY <2>1, <3>1, TextFacts
    <3>5. Start(img.cols, 0) = 0 /\ 8 + n <= Start(img.cols, img.rows)
      BY <2>1, StartFacts, EnoughRows
    <3>6. 8 + n <= Len(t)
      <4>1. Len(t) \in Nat
        BY <3>2, <3>3
      <4> QED
        BY <3>1, <3>2, <3>4, <3>5, <4>1
    <3>7. \A k \in 1..Len(t) : Legible(n, img.cols, 0 + k - 1) => t[k] = 0 + k - 1
      BY <3>2, <3>3, <3>5 DEF Reads
    <3>8. \A k \in 1..Len(t) : /\ 0 + k - 1 = k - 1
                                /\ k - 1 < 8 + n => Legible(n, img.cols, 0 + k - 1)
      BY DEF Legible, Digits
    <3> QED
      BY <3>2, <3>3, <3>6, <3>7, <3>8
  <2> HIDE DEF t
  <2>4. DecodeFrom(img, 8, n) = Payload(img)
    <3> DEFINE u == SubSeq(t, 8 + 1, 8 + n)
    <3>1. DecodeFrom(img, 8, n) = SubSeq(AllChars(img), 8 + 1, MinOf(8 + n, Len(AllChars(img))))
      BY DEF DecodeFrom
    <3>2. MinOf(8 + n, Len(t)) = 8 + n
      <4>1. Len(t) \in Nat
        BY <2>3
      <4> QED
        BY <2>2, <2>3, <4>1 DEF MinOf
    <3>3. u \in Seq(Int) /\ Len(u) = n /\ \A k \in 1..n : u[k] = t[8 + k]
      BY <2>2, <2>3, Piece
    <3>4. DecodeFrom(img, 8, n) = u
      BY <3>1, <3>2 DEF t
    <3> HIDE DEF u
    <3>5. \A k \in 1..n : u[k] = Digits + k - 1
      <4>1. Len(t) \in Nat
        BY <2>3
      <4>2. \A k \in 1..n : /\ 8 + k \in 1..Len(t) /\ (8 + k) - 1 < 8 + n
                             /\ (8 + k) - 1 = Digits + k - 1
        BY <2>2, <2>3, <4>1 DEF Digits
      <4> QED
        BY <2>3, <3>3, <4>2
    <3> QED
      BY <2>2, <3>3, <3>4, <3>5, IsPayload
  <2>5. ParseInt(img, Digits) = n /\ ParseUsize(img, Digits) = n /\ n # NaN
    BY <2>1, <2>2, ExactLength
  <2>6. TypeScriptDecode(img) = Payload(img)
    BY <2>4, <2>5, <2>8 DEF TypeScriptDecode, Digits
  <2>7. ASSUME Wide(img) PROVE RustDecode(img) = Payload(img)
    <3>1. MinOf(Digits, (img.cols - HeaderSide) \div 2) = Digits
      <4> DEFINE c == img.cols
      <4>1. c \in Nat /\ 20 <= c
        BY <2>2, <2>7 DEF Wide, HeaderSide, Digits
      <4> HIDE DEF c
      <4>2. (c - 4) \div 2 \in Nat /\ 8 <= (c - 4) \div 2
        BY <4>1
      <4> QED
        BY <4>2 DEF MinOf, HeaderSide, Digits, c
    <3>2. MaxOf(1, n) = n
      BY <2>2 DEF MaxOf
    <3> QED
      BY <2>4, <2>5, <2>8, <3>1, <3>2 DEF RustDecode, Digits
  <2> QED
    BY <2>6, <2>7
<1> QED
  BY <1>2, InvHolds, PTL
===============================================================================
