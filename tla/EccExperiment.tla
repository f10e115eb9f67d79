--------------------------- MODULE EccExperiment ---------------------------
(***************************************************************************)
(* EccExperiment (experimental/lib/src): a thread's experiment with error  *)
(* correction.  An iteration fills two messages with random symbols, adds  *)
(* the parity, puts all symbols into the blocks of an image, compresses    *)
(* it, reads the symbols back, decodes both halves, and writes down how    *)
(* many errors the decoder says it corrected.  The same object serves all  *)
(* iterations.                                                             *)
(*                                                                         *)
(* The program's halves have 255 bytes in 17 x 5 blocks.  What the image's *)
(* compression does to a cell (jpeg_codec.cc, external) is one of the      *)
(* changes of four pixels in Patterns, in all cells of an area, and in at  *)
(* most MaxNoisy areas of an experiment.                                   *)
(***************************************************************************)
EXTENDS ReedSolomon, BlockMatrix, Sequences

CONSTANTS BlocksWide, BlocksHigh,  \* kBlocksWide, kBlocksHigh
          Iterations,
          Messages,   \* the pairs of messages that InitWithRandomData() may draw
          NoisyAreas, \* disjoint sets of cells, as <<block, cell>>, that may change
          Patterns,   \* the changes of the four pixels of a cell
          MaxNoisy

Block == 0..BlocksWide*BlocksHigh - 1
Half == {0, 1}

ASSUME EccAssumption ==
  /\ ByteBits = mm
  /\ BlocksWide \in Nat \ {0} /\ BlocksHigh \in Nat \ {0}
  /\ BlocksWide * BlocksHigh * BlockBytes = 2 * nn
  /\ Primitive
  /\ Messages \subseteq [Half -> Message]
  /\ NoisyAreas \subseteq SUBSET (Block \X Cell)
  /\ \A a1, a2 \in NoisyAreas : a1 = a2 \/ a1 \intersect a2 = {}
  /\ Patterns \subseteq [0..3 -> Int]
  /\ Iterations \in Nat /\ MaxNoisy \in Nat

VARIABLES
  phase,         \* what Run() does next
  half,          \* the half that is decoded
  iteration,
  message,       \* first_message_, second_message_
  parity,        \* first_parity_, second_parity_
  bytes_,        \* both halves, as they are put into the image
  image,         \* levels of the pixels
  decoded,       \* pixels after compression
  full_message,  \* the symbols that were read back
  syn,           \* the syndromes of the half, in index form
  register,      \* Berlekamp-Massey's, after step r
  r,
  results,       \* what decode_rs8() returned and left in data, per half
  noisy          \* how many areas were changed so far, bounded by MaxNoisy

vars == <<phase, half, iteration, message, parity, bytes_, image, decoded,
          full_message, syn, register, r, results, noisy>>

BlockOf(h, w) == h * BlocksWide + w
Pixels == (0..BlocksHigh*PixelDim-1) \X (0..BlocksWide*PixelDim-1)

ZeroParity == [j \in 0..nroots-1 |-> {}]
Word(h) == [i \in 0..nn-1 |-> full_message[h * nn + i]]
SentWord(h) == [i \in 0..nn-1 |-> bytes_[h * nn + i]]

Init ==
  /\ phase = "encode" /\ half = 0 /\ iteration = 0
  /\ message = [h \in Half |-> [i \in DataSymbol |-> {}]]
  /\ parity = [h \in Half |-> ZeroParity]
  /\ bytes_ = [i \in 0..2*nn-1 |-> {}]
  /\ image = <<>> /\ decoded = <<>> /\ full_message = <<>>
  /\ syn = <<>> /\ register = EmptyRegister /\ r = 0
  /\ results = <<>> /\ noisy = 0

\* EccMessage::Reset().  encode_rs8(): "must be initialized by caller (usually all 0)"
\* Plausible bug: the parity of the last iteration stays in the registers.
ResetKeepsParity == parity
Reset == [h \in Half |-> ZeroParity]

\* Run(), lines 62 to 68: Reset(), InitWithRandomData(), both codes, flatten().
Encode ==
  /\ phase = "encode" /\ iteration < Iterations
  /\ message' \in Messages
  /\ parity' = [h \in Half |-> encode_rs8(message'[h], Reset[h])]
  /\ bytes_' = [k \in 0..2*nn-1 |->
                  LET h == k \div nn  i == k % nn
                  IN  IF i \in DataSymbol THEN message'[h][i]
                      ELSE parity'[h][i - (nn - nroots)]]
  /\ phase' = "embed" /\ results' = <<>>
  /\ UNCHANGED <<half, iteration, image, decoded, full_message, syn, register,
                 r, noisy>>

\* Lines 71 to 93: the blocks of the image.  The means that are computed here as well are
\* never read.
Embed ==
  /\ phase = "embed"
  /\ LET indices == [b \in Block |->
                       ToInts(InitFromString([k \in 0..BlockBytes-1 |->
                                                bytes_[b * BlockBytes + k]]))]
     IN  image' = Fill(indices, BlocksWide, BlocksHigh)
  /\ phase' = "compress"
  /\ UNCHANGED <<half, iteration, message, parity, bytes_, decoded, full_message, syn,
                 register, r, results, noisy>>

\* The pixel of a cell that p is, and a value after compression.
CellOf(p) ==
  <<BlockOf(p[1] \div PixelDim, p[2] \div PixelDim),
    ((p[1] % PixelDim) \div 2) * Side + (p[2] % PixelDim) \div 2>>
Quarter(p) == 2 * (p[1] % 2) + (p[2] % 2)
Clamp(v) == IF v < 0 THEN 0 ELSE IF v > 255 THEN 255 ELSE v

\* JPEGCodec::Encode() and Decode().  At most one of the areas has the pixel.
Compress ==
  /\ phase = "compress"
  /\ \E k \in 0..(MaxNoisy - noisy) : \E areas \in kSubset(k, NoisyAreas) :
       \E pattern \in [areas -> Patterns] :
         /\ LET change(p) == IF \E a \in areas : CellOf(p) \in a
                             THEN pattern[CHOOSE a \in areas : CellOf(p) \in a][Quarter(p)]
                             ELSE 0
            IN  decoded' = [p \in Pixels |-> Clamp(image[p] + change(p))]
         /\ noisy' = noisy + k
  /\ phase' = "read"
  /\ UNCHANGED <<half, iteration, message, parity, bytes_, image, full_message,
                 syn, register, r, results>>

\* Four times the mean of each cell of a block, before and after compression.
Means(pixels, b) ==
  AverageAestheteBlocks(BlockPixels(pixels, b \div BlocksWide, b % BlocksWide))

\* Lines 112 to 158
Read ==
  /\ phase = "read"
  /\ LET strings == [b \in Block |->
                       LET means == Means(decoded, b)
                       IN  ToString(InitFromInts([c \in Cell |-> FindClosest(means[c])]))]
     IN  full_message' = [k \in 0..2*nn-1 |-> strings[k \div BlockBytes][k % BlockBytes]]
  /\ phase' = "decode" /\ half' = 0
  /\ UNCHANGED <<iteration, message, parity, bytes_, image, decoded, syn,
                 register, r, results, noisy>>

\* decode_rs8() has returned for this half; Run() goes on with the other one, or returns.
Written(result) ==
  /\ results' = Append(results, result)
  /\ IF half = 0 THEN half' = 1 /\ phase' = "decode" /\ iteration' = iteration
     ELSE half' = 0 /\ phase' = "encode" /\ iteration' = iteration + 1

\* Lines 160 to 176 and the start of decode_rs8(): the syndromes.
Decode ==
  /\ phase = "decode"
  /\ syn' = Syndromes(Word(half))
  /\ register' = EmptyRegister /\ r' = 0
  /\ IF \A i \in 0..nroots-1 : syn'[i] = nn
     THEN Written([count |-> 0, data |-> [i \in DataSymbol |-> Word(half)[i]]])
     ELSE phase' = "locate" /\ UNCHANGED <<half, iteration, results>>
  /\ UNCHANGED <<message, parity, bytes_, image, decoded, full_message, noisy>>

\* One step of Berlekamp-Massey
Locate ==
  /\ phase = "locate" /\ r < nroots
  /\ r' = r + 1
  /\ register' = BerlekampMasseyStep(register, r', syn)
  /\ UNCHANGED <<phase, half, iteration, message, parity, bytes_, image,
                 decoded, full_message, syn, results, noisy>>

\* Chien search, Forney's formula and the correction of the data
Finish ==
  /\ phase = "locate" /\ r = nroots
  /\ Written(Correct(Word(half), syn, register))
  /\ UNCHANGED <<message, parity, bytes_, image, decoded, full_message, syn,
                 register, r, noisy>>

Next == Encode \/ Embed \/ Compress \/ Read \/ Decode \/ Locate \/ Finish

Spec == Init /\ [][Next]_vars

-----------------------------------------------------------------------------

\* The cells that a symbol's bits are in.
CellsOf(k) ==
  {<<bit \div BlockBits, (bit % BlockBits) \div CellBits>> : bit \in (k * mm)..(k * mm + mm - 1)}

\* A cell whose four pixels together change by less than 64, or by 64 upwards, is read
\* back: what comes out of the packing, the pixels, the means, the nearest level and the
\* unpacking is what went in, wherever the bits of a symbol are spread over cells.
ToleratedIsRead ==
  phase = "decode" /\ half = 0 =>
    \A k \in 0..2*nn-1 :
      (\A c \in CellsOf(k) : Means(decoded, c[1])[c[2]] - Means(image, c[1])[c[2]] \in -63..64)
      => full_message[k] = bytes_[k]

WrongSymbols(h) == {i \in 0..nn-1 : Word(h)[i] # SentWord(h)[i]}

\* Up to nroots/2 wrong symbols, in the data or in the parity, are all corrected and all
\* counted, in every iteration of the object.
CorrectsUpToHalf ==
  \A h \in Half :
    Len(results) > h /\ 2 * Cardinality(WrongSymbols(h)) <= nroots =>
      /\ results[h + 1].count = Cardinality(WrongSymbols(h))
      /\ results[h + 1].data = message[h]

\* Berlekamp-Massey: after step r the register, of length el and with the constant
\* coefficient one, generates the first r syndromes from the first el of them.
RegisterPredicts ==
  phase = "locate" =>
    /\ register.lambda[0] = {0}
    /\ Degree(IndexForm(register.lambda)) <= register.el
    /\ \A k \in register.el..r-1 :
         XorAll(0..register.el,
                LAMBDA i : Product(index_of[register.lambda[i]], syn[k - i])) = {}

\* The symbols in which the received word differs from the codeword of the data returned.
Corrections(h) ==
  LET par == encode_rs8(results[h + 1].data, ZeroParity)
  IN  {i \in 0..nn-1 : Word(h)[i] # IF i \in DataSymbol THEN results[h + 1].data[i]
                                    ELSE par[i - (nn - nroots)]}

\* The decoder has just run its register for half h and did not give up.
JustCorrected(h) ==
  phase # "locate" /\ r = nroots /\ Len(results) = h + 1 /\ results[h + 1].count >= 0

\* However many symbols were wrong: when the locator has the degree of the register's length
\* and the decoder does not give up, what it returns is a codeword, at the distance it says.
FullDegreeIsCodeword ==
  \A h \in Half :
    JustCorrected(h) /\ Degree(IndexForm(register.lambda)) = register.el =>
      Cardinality(Corrections(h)) = results[h + 1].count

=============================================================================
