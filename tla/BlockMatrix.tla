---------------------------- MODULE BlockMatrix ----------------------------
(***************************************************************************)
(* How the experiments of experimental/lib/src put bits into the pixels of *)
(* an image and read them back: MatrixRepresentation packs the cells of a  *)
(* block (three bits each), an array of pixels holds gray levels, each     *)
(* cell a square of two by two pixels, and FindClosest() names the level   *)
(* that is nearest to the mean of a cell.                                  *)
(*                                                                         *)
(* The code has blocks of 4 x 4 cells and bytes of 8 bits; here both are   *)
(* parameters.  A byte is the set of its bits that are one, and a block's  *)
(* bitset the set of its positions that are one.  Means are kept as sums   *)
(* of four pixels, so that they stay integers.                             *)
(***************************************************************************)
EXTENDS Integers, FiniteSets, FiniteSetsExt

CONSTANTS Side,      \* cells along one side of a block
          ByteBits   \* bits of a byte

CellBits == 3
Cell == 0..Side*Side - 1
BlockBits == Side * Side * CellBits
BlockBytes == BlockBits \div ByteBits
PixelDim == 2 * Side

ASSUME BlockMatrixAssumption ==
  /\ Side \in Nat \ {0}
  /\ ByteBits \in Nat \ {0}
  /\ BlockBits % ByteBits = 0

Byte == SUBSET (0..ByteBits-1)
Index == 0..7

(***************************************************************************)
(* MatrixRepresentation                                                    *)
(***************************************************************************)

InitFromString(input) == {j \in 0..BlockBits-1 : j % ByteBits \in input[j \div ByteBits]}

\* bitset_to_bytes() of the whole block
ToString(bits) ==
  [k \in 0..BlockBytes-1 |-> {b \in 0..ByteBits-1 : k * ByteBits + b \in bits}]

BitValue == <<1, 2, 4>>
HasBit(value, b) == (value \div BitValue[b + 1]) % 2 = 1

\* Plausible bug: the bits of a value in the opposite order.
InitFromIntsReversed(values) ==
  {j \in 0..BlockBits-1 : HasBit(values[j \div CellBits], CellBits - 1 - (j % CellBits))}
InitFromInts(values) ==
  {j \in 0..BlockBits-1 : HasBit(values[j \div CellBits], j % CellBits)}

\* operator()(x, y): the three bits of a cell as a number
Entry(bits, x, y) ==
  LET start_idx == y * (Side * CellBits) + x * CellBits
      bit(b) == IF start_idx + b \in bits THEN BitValue[b + 1] ELSE 0
  IN  bit(0) + bit(1) + bit(2)

ToInts(bits) == [i \in Cell |-> Entry(bits, i % Side, i \div Side)]

(***************************************************************************)
(* Levels of gray                                                          *)
(***************************************************************************)

\* discretizations_, in descending order
Level(index) == 240 - 32 * index

\* set::upper_bound in the descending set: the first level below the mean, or the end.
UpperBound(sum) == Min({k \in 0..8 : k = 8 \/ 4 * Level(k) < sum})

\* The test upper->data == searchkey.data can only be true at the end, whose node holds the
\* set's size where a level would be: as a double it is no mean of pixels.
\* Plausible bug: at the middle between two levels the lighter one is taken.
FindClosestLighter(sum) ==
  LET upper == UpperBound(sum)
  IN  IF upper = 0 THEN 0
      ELSE IF upper = 8 \/ sum - 4 * Level(upper - 1) >= 4 * Level(upper) - sum
           THEN upper - 1
           ELSE upper
FindClosest(sum) ==
  LET upper == UpperBound(sum)
  IN  IF upper = 0 THEN 0
      ELSE IF upper = 8 \/ sum - 4 * Level(upper - 1) > 4 * Level(upper) - sum
           THEN upper - 1
           ELSE upper

(***************************************************************************)
(* Pixels.  An image is a function of <<row, column>>; the three channels  *)
(* of a pixel are equal, and only the first one is read.                   *)
(***************************************************************************)

\* array::FillBlockFromInts() for a whole image: indices[b] are the indices of block b,
\* blocks counted along the rows.
Fill(indices, wide, high) ==
  [p \in (0..high*PixelDim-1) \X (0..wide*PixelDim-1) |->
     LET block == (p[1] \div PixelDim) * wide + p[2] \div PixelDim
         cell == ((p[1] % PixelDim) \div 2) * Side + (p[2] % PixelDim) \div 2
     IN  Level(indices[block][cell])]

\* The copy of a block by EccExperiment::Run().
BlockPixels(image, block_h, block_w) ==
  [p \in (0..PixelDim-1) \X (0..PixelDim-1) |->
     image[<<block_h * PixelDim + p[1], block_w * PixelDim + p[2]>>]]

\* AverageAestheteBlocks(), four times the mean of each cell of a block of pixels.
AverageAestheteBlocks(input) ==
  [cell \in Cell |->
     LET i == 2 * (cell \div Side)
         j == 2 * (cell % Side)
     IN  input[<<i, j>>] + input[<<i + 1, j>>] + input[<<i, j + 1>>] + input[<<i + 1, j + 1>>]]

(***************************************************************************)
(* Experiment::Run() counts a cell as an error when the difference of its  *)
(* means, cut to a whole number and kept in a byte that is then read as a  *)
(* signed char, is 16 or more.                                             *)
(***************************************************************************)

Truncated(x) == IF x >= 0 THEN x \div 4 ELSE -((-x) \div 4)
AsChar(x) == ((x + 128) % 256) - 128
AbsoluteOf(x) == IF x >= 0 THEN x ELSE -x

CountedError(original, sum) == AbsoluteOf(AsChar(Truncated(original - sum))) >= 16
=============================================================================
