------------------------------- MODULE Bacchant -------------------------------
(***************************************************************************)
(* The bacchant image format: where the encoder puts the symbols of a       *)
(* message and how three decoders read them back.  The closure library      *)
(* (closure/src/cryptagram/protocols/bacchant/codec.js) encodes, and decodes *)
(* in chunks of rows driven by a timer; packages/core (TypeScript) and      *)
(* core-rust read an image in one go.                                       *)
(*                                                                          *)
(* Units are symbols: a symbol is an octal digit, painted as a gray block   *)
(* of 2 x 2 pixels; two neighbours make a base64 character.  A message is   *)
(* its length in eight decimal digits and its payload.  Characters are      *)
(* known by their number: 0..7 are the digits, 8.. the payload; what else a  *)
(* decoder may read (random fill, a block outside the image) is Garbage.    *)
(***************************************************************************)
EXTENDS Integers, Sequences, FiniteSets

CONSTANTS Lengths,    \* payload lengths, in characters
          Ratios,     \* width to height, as pairs <<a, b>> for a/b
          Encoders,   \* who painted the images: "closure", "core-rust"
          Misreads,   \* what JPEG noise may make of the length, see Image
          ChunkSize   \* this.chunkSize: rows read by one call of getChunk()

Digits == 8            \* characters of the length
MaxLength == 99999999  \* what they can say

ASSUME BacchantAssumption ==
  /\ Lengths \subseteq 1..MaxLength
  /\ Ratios \subseteq (Nat \ {0}) \X (Nat \ {0})
  /\ Encoders \subseteq {"closure", "core-rust"}
  /\ Misreads \subseteq (0..MaxLength) \X (1..(Digits + 1))
  /\ ChunkSize \in Nat \ {0}

HeaderSide == 4     \* the header is a square of 4 x 4 symbols
Garbage == -1
Null == -1          \* this.length before it is known
NaN == -2

CeilDiv(a, b) == (a + b - 1) \div b
MinOf(a, b) == IF a < b THEN a ELSE b
MaxOf(a, b) == IF a < b THEN b ELSE a
-------------------------------------------------------------------------------
(* Gray levels.                                                             *)

\* symbol_thresholds
Level == <<0, 36, 72, 109, 145, 182, 218, 255>>

\* Plausible bug: the bins are eight equal parts of the gray scale.
BinOfEighths(lum) == MinOf(7, (8 * lum) \div (4000 * 255))

\* The luminance of a pixel <<r, g, b>>, in thousandths.
Lum(p) == 299 * p[1] + 587 * p[2] + 114 * p[3]

\* getBase8Value: lum is the sum over the four pixels of a block; the mean is
\* divided by 255/7 and rounded.
Bin(lum) == MinOf(7, (14 * lum + 4000 * 255) \div (8000 * 255))

\* The luminance of a block all of whose pixels are within e of a gray level.
BlockLum(level, e) == 4 * Lum(<<level + e, level + e, level + e>>)
-------------------------------------------------------------------------------
(* The encoder.                                                             *)

\* The least k with k >= Sqrt(p/q).
CeilSqrt(p, q) == CHOOSE k \in 0..p : k * k * q >= p /\ \A j \in 0..(k - 1) : j * j * q < p

Symbols(n) == 2 * (Digits + n)
Pixels(n) == 4 * Symbols(n) + 64

\* Plausible bug: the width is rounded down.
ColumnsRoundedDown(n, r) == 2 * (CeilSqrt(Pixels(n) * r[1], r[2]) \div 4)

\* Width and height in symbols.  The width is a multiple of two symbols, so that a
\* character is never split between rows.
Columns(n, r) == 2 * CeilDiv(CeilSqrt(Pixels(n) * r[1], r[2]), 4)
Rows(n, r) == CeilDiv(CeilSqrt(Pixels(n) * r[2], r[1]), 2)

\* Row and column of the i-th symbol: beside the header, then in full rows.
Pos(cols, i) ==
  IF i < HeaderSide * (cols - HeaderSide)
  THEN <<i \div (cols - HeaderSide), HeaderSide + (i % (cols - HeaderSide))>>
  ELSE <<(i + HeaderSide * HeaderSide) \div cols, (i + HeaderSide * HeaderSide) % cols>>

\* The image is at least as wide as the header and one character beside it.  With 65
\* characters, the least that a cipher makes, this is so of images up to ten times as
\* high as wide.
ASSUME ShapeAssumption ==
  \A n \in Lengths, r \in Ratios : HeaderSide < Columns(n, r)

\* Whether the message goes on below the header.  With 65 characters it does in images up
\* to nine times as wide as high, with more of them in flatter ones.
BelowHeader(n, cols) == HeaderSide * (cols - HeaderSide) < Symbols(n)

\* The place of the k-th symbol of the header, the name of the codec.
HeaderPos(k) == <<k \div HeaderSide, k % HeaderSide>>

\* core-rust puts character i at (i % 4, i / 4), as if it were one symbol wide.
RustHeaderPos(k) == <<(k \div 2) \div HeaderSide, ((k \div 2) % HeaderSide) + (k % 2)>>

PaintHeader(encoder, k) == IF encoder = "core-rust" THEN RustHeaderPos(k) ELSE HeaderPos(k)

\* The random blocks from the last symbol to the end of the image.  They start after
\* x_coord, which beside the header does not count the header's columns: there they
\* cover what was painted before.
Filled(n, cols, row, col) ==
  LET last == Symbols(n) - 1
      p == Pos(cols, last)
      x_coord == IF last < HeaderSide * (cols - HeaderSide) THEN p[2] - HeaderSide ELSE p[2]
  IN  row > p[1] \/ (row = p[1] /\ col > x_coord)

\* Whether a decoder that looks for the k-th symbol at HeaderPos(k) finds the name
\* of the codec: test().
HeaderReads(im) ==
  \A k \in 0..(HeaderSide * HeaderSide - 1) :
    LET p == HeaderPos(k)
    IN  /\ {j \in 0..15 : PaintHeader(im.encoder, j) = p} = {k}
        /\ p[1] < im.rows /\ ~Filled(im.n, im.cols, p[1], p[2])

\* The character in a pair of blocks, if it is there and its two symbols belong
\* together.  There is only Garbage below the image.
CharAt(n, cols, rows, row, col) ==
  LET S == {i \in 0..(Symbols(n) - 2) : Pos(cols, i) = <<row, col>>}
  IN  IF /\ row < rows /\ ~Filled(n, cols, row, col) /\ ~Filled(n, cols, row, col + 1)
         /\ \E i \in S : i % 2 = 0 /\ Pos(cols, i + 1) = <<row, col + 1>>
      THEN (CHOOSE i \in S : TRUE) \div 2 ELSE Garbage

\* What the decoders' loops find in a row, from left to right, past the header.
RowChars(n, cols, rows, row) ==
  LET from == IF row < HeaderSide THEN HeaderSide \div 2 ELSE 0
  IN  [k \in 1..(cols \div 2 - from) |-> CharAt(n, cols, rows, row, 2 * (from + k - 1))]

\* What encode() paints beside and below the header: the payload's length, the size in
\* symbols, the text in its rows.
Painted(n, ratio) ==
  LET cols == Columns(n, ratio)
      rows == Rows(n, ratio)
  IN  [n |-> n, cols |-> cols, rows |-> rows,
       text |-> [row \in 0..rows |-> RowChars(n, cols, rows, row)]]

\* The image, with who painted it and what will be read of its length: the number that
\* the eight characters say, and the place of the first that is no digit, 9 if all are.
Image(painted, encoder, read) ==
  [n |-> painted.n, cols |-> painted.cols, rows |-> painted.rows, text |-> painted.text,
   encoder |-> encoder, said |-> read[1], letter |-> read[2]]

\* The text of the rows from first to last.
Text(im, first, last) ==
  LET f[r \in (first - 1)..last] == IF r < first THEN <<>> ELSE f[r - 1] \o im.text[r]
  IN  f[last]

Payload(im) == [k \in 1..im.n |-> Digits + k - 1]
-------------------------------------------------------------------------------
(* The incremental decoder of the closure library.                          *)

VARIABLES img,      \* the image
          y, count, length, lengthString, decodeData,  \* the codec's fields
          codecFound,  \* what getCodec() says: "untested", "yes", "no"
          done         \* nothing is left to do: the callback has been called

vars == <<img, y, count, length, lengthString, decodeData, codecFound, done>>
codec == [y |-> y, count |-> count, length |-> length, lengthString |-> lengthString,
          decodeData |-> decodeData]

\* What the k-th of the eight digits counts.
Weight == <<10000000, 1000000, 100000, 10000, 1000, 100, 10, 1>>

\* parseInt of the first k characters of the length, which is padded with zeros: the
\* number before the first letter, NaN when there is no digit before it.
ParseInt(im, k) ==
  LET d == MinOf(k, im.letter - 1)
  IN  IF d = 0 THEN NaN ELSE im.said \div Weight[d]

\* Plausible bug: this.length is read before all digits are there.
TakeOneMore(s, avail, len) ==
  IF len = NaN THEN avail
  ELSE MinOf(avail, MaxOf(0, len - s.count) + 1)

\* How many payload characters are taken.  The first one is taken before the
\* length is known.
Take(s, avail, len) ==
  IF len = NaN THEN avail
  ELSE MinOf(avail, MaxOf(IF s.length = Null THEN 1 ELSE 0, len - s.count))

\* The last row that one call of getChunk() reads.  The test for the end of the
\* image comes after the row was read, so a row below the image is read too.
LastRow(im, s) == MinOf(s.y + ChunkSize - 1, im.rows)

\* Plausible bug: the end of the image is not tested.
NextRowUnbounded(im, s) == s.y + ChunkSize

\* this.y after the call: it stops at the first row below the image.
NextRow(im, s) == MinOf(s.y + ChunkSize, im.rows)

\* The codec after getChunk(): digits are looked for in the first row only, up to
\* column 20.
ReadChunk(im, s) ==
  LET chars == Text(im, s.y, LastRow(im, s))
      digits == IF s.y = 0 THEN MinOf(Digits, Len(im.text[0])) ELSE 0
      lens == s.lengthString \o SubSeq(chars, 1, digits)
      avail == Len(chars) - digits
      len == IF s.length = Null /\ avail > 0 THEN ParseInt(im, Len(lens)) ELSE s.length
      take == IF avail = 0 THEN 0 ELSE Take(s, avail, len)
  IN  [y |-> NextRow(im, s), count |-> s.count + take, length |-> len,
       lengthString |-> lens, decodeData |-> s.decodeData \o SubSeq(chars, digits + 1, digits + take)]

Init ==
  /\ \E painted \in {Painted(n, ratio) : n \in Lengths, ratio \in Ratios}, encoder \in Encoders :
       \E read \in Misreads \cup {<<painted.n, Digits + 1>>} :
         img = Image(painted, encoder, read)
  /\ y = 0 /\ count = 0 /\ length = Null
  /\ lengthString = <<>> /\ decodeData = <<>>
  /\ codecFound = "untested" /\ done = FALSE

\* Plausible bug: a length that is not a number counts as reached.
NoMoreOnNaN == (length # Null /\ count >= length) \/ y >= img.rows

\* What makes getChunk() return false.  this.count >= this.length is false when
\* this.length is undefined or NaN.
NoMore == (length \in Nat /\ count >= length) \/ y >= img.rows

\* getCodec() tests the header.  Without a codec nothing more happens.
Test ==
  /\ codecFound = "untested"
  /\ codecFound' = IF HeaderReads(img) THEN "yes" ELSE "no"
  /\ done' = ~HeaderReads(img)
  /\ UNCHANGED <<img, y, count, length, lengthString, decodeData>>

\* processImage() calls getChunk() and sets a timer to go on.
GetChunk ==
  /\ codecFound = "yes" /\ ~done
  /\ ~NoMore
  /\ LET s == ReadChunk(img, codec)
     IN  /\ y' = s.y /\ count' = s.count /\ length' = s.length
         /\ lengthString' = s.lengthString /\ decodeData' = s.decodeData
  /\ UNCHANGED <<img, codecFound, done>>

\* Plausible bug: the callback is only called when a length was read.
FinishWithLength ==
  /\ codecFound = "yes" /\ ~done /\ NoMore /\ length \in Nat
  /\ done' = TRUE
  /\ UNCHANGED <<img, y, count, length, lengthString, decodeData, codecFound>>

\* getChunk() returns false: what was read goes to the cipher.
Finish ==
  /\ codecFound = "yes" /\ ~done /\ NoMore
  /\ done' = TRUE
  /\ UNCHANGED <<img, y, count, length, lengthString, decodeData, codecFound>>

Next == Test \/ GetChunk \/ Finish

Spec == Init /\ [][Next]_vars /\ WF_vars(Next)
-------------------------------------------------------------------------------
(* The decoders that read an image in one go.                               *)

AllChars(im) == Text(im, 0, im.rows - 1)

\* What stands for null, when a decoder gives no payload.
NoPayload == <<NaN>>

\* Plausible bug: the first character of the payload counts as a digit.
DecodeFromNine(im, k, len) == SubSeq(AllChars(im), k + 2, k + 1 + len)

\* The payload of a given length when the first k characters are digits.  An image
\* that ends before gives what it has.
DecodeFrom(im, k, len) == SubSeq(AllChars(im), k + 1, MinOf(k + len, Len(AllChars(im))))

\* packages/core: 'invalid header', 'invalid length', or the payload.  The length is in
\* the first eight characters, wherever they are.
TypeScriptDecode(im) ==
  LET len == ParseInt(im, Digits)
  IN  IF ~HeaderReads(im) \/ len = NaN THEN NoPayload ELSE DecodeFrom(im, Digits, len)

\* parse::<usize>() of the first k characters: all of them must be digits.
ParseUsize(im, k) == IF k = 0 \/ im.letter <= k THEN NaN ELSE im.said \div Weight[k]

\* core-rust: the same, but the digits are those characters of the first row that are
\* left of column 20, and one of the payload is read before the length is looked at.
RustDecode(im) ==
  LET k == MinOf(Digits, (im.cols - HeaderSide) \div 2)
      len == ParseUsize(im, k)
  IN  IF ~HeaderReads(im) \/ len = NaN THEN NoPayload ELSE DecodeFrom(im, k, MaxOf(1, len))
-------------------------------------------------------------------------------
\* Wide enough for the eight digits to stand beside the header: 40 pixels.
Wide(im) == im.cols >= HeaderSide + 2 * Digits

\* Noise has left the length what it was.
Exact(im) == im.said = im.n /\ im.letter > Digits

TypeOK ==
  /\ img.n \in Lengths /\ img.encoder \in Encoders
  /\ y \in 0..img.rows /\ count = Len(decodeData)
  /\ length \in Nat \cup {Null, NaN}
  /\ Len(lengthString) <= Digits
  /\ codecFound \in {"untested", "yes", "no"} /\ done \in BOOLEAN

\* The picture the encoder makes has room for everything: no two symbols share a block,
\* none lies on the header, none outside, and both halves of a character are neighbours.
\* The random blocks at the end cover no symbol painted before, unless the message ends
\* beside the header: then the last four, as far as they are in one row.
LayoutSound ==
  LET S == 0..(Symbols(img.n) - 1)
      P == [i \in S |-> Pos(img.cols, i)]
      last == Symbols(img.n) - 1
      inEnd == {i \in S : P[i][1] = P[last][1] /\ last - i < HeaderSide}
  IN  /\ \A i \in S : /\ P[i][1] \in 0..(img.rows - 1) /\ P[i][2] \in 0..(img.cols - 1)
                      /\ P[i][1] < HeaderSide => P[i][2] >= HeaderSide
                      /\ i % 2 = 0 => P[i + 1] = <<P[i][1], P[i][2] + 1>>
      /\ Cardinality({P[i] : i \in S}) = Cardinality(S)
      /\ \A i \in S : Filled(img.n, img.cols, P[i][1], P[i][2])
                        <=> i \in inEnd /\ ~BelowHeader(img.n, img.cols)

\* An image that the closure encoder made is recognised by its header, and at every timer
\* of its decoding getChunk() has collected a prefix of the payload, in the end all of it,
\* when the image is at least 40 pixels wide, its message goes on below the header, and
\* its length is read correctly.
ReadsPrefix ==
  BelowHeader(img.n, img.cols) =>
    /\ codecFound = "no" => img.encoder = "core-rust"
    /\ Wide(img) /\ Exact(img) =>
         /\ count <= img.n /\ decodeData = SubSeq(Payload(img), 1, count)
         /\ done /\ codecFound = "yes" => decodeData = Payload(img)

\* Whatever noise makes of the length, so much of the payload is collected as it then
\* says: all of it when it says more than there is, or nothing because its first character
\* is a letter; a cut off one when it says less, or a later character is a letter.
KeepsUpToLength ==
  BelowHeader(img.n, img.cols) /\ Wide(img) /\ done /\ codecFound = "yes" =>
    LET len == ParseInt(img, Digits)
        kept == IF len = NaN THEN img.n ELSE MinOf(img.n, MaxOf(1, len))
    IN  /\ count >= kept /\ SubSeq(decodeData, 1, kept) = SubSeq(Payload(img), 1, kept)
        /\ len # NaN /\ len < img.n => count = kept

\* processImage() comes to its end for every image, also when no length, or one
\* that is too large, was read.
Ends == <>done

\* The decoders that read an image in one go agree with the closure encoder when the
\* length is read correctly and the message goes on below the header: packages/core on
\* images of every width, core-rust from 40 pixels of width on.  Neither reads what
\* core-rust paints.
OneShotReads ==
  /\ img.encoder = "closure" /\ BelowHeader(img.n, img.cols) /\ Exact(img) =>
       /\ TypeScriptDecode(img) = Payload(img)
       /\ Wide(img) => RustDecode(img) = Payload(img)
  /\ img.encoder = "core-rust" =>
       TypeScriptDecode(img) = NoPayload /\ RustDecode(img) = NoPayload

\* While a recognised image is being read, getBase8Value() recovers every level of
\* a block all of whose pixels have changed by up to 17 gray steps.
NoiseTolerated ==
  codecFound = "yes" => \A v \in 0..7, e \in -17..17 : Bin(BlockLum(Level[v + 1], e)) = v

\* The closure decoder reads every image the closure encoder makes.
RoundTrip == done /\ codecFound = "yes" => decodeData = Payload(img)
===============================================================================
