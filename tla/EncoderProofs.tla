---------------------------- MODULE EncoderProofs ----------------------------
(***************************************************************************)
(* Theorems about Encoder for every set of files, names and sizes, every   *)
(* maxZipSize, every set of selections and any number of batches.  Until   *)
(* OK the encoder of the open dialog holds its images in two parts         *)
(* (Loading); after OK the list and the zip file hold the first images and *)
(* the encoder the others (Collecting), as long as no earlier encoder has  *)
(* added to the zip file; so a download accounts for all of them and holds *)
(* what it lists (Offered).                                                *)
(*                                                                         *)
(* What the recursion in ImagesOf computes is shown with LeastNumber: a    *)
(* least number for which a claim is false would have a predecessor for    *)
(* which it is true.                                                       *)
(***************************************************************************)
EXTENDS Encoder, SequenceTheorems, WellFoundedInduction, TLAPS

Less == {p \in Nat \X Nat : p[1] < p[2]}

\* Every set of natural numbers that is not empty has a least element.
LEMMA LeastNumber ==
  ASSUME NEW T \in SUBSET Nat, T # {}
  PROVE  \E m \in T : \A n \in T : m <= n
<1>1. IsWellFoundedOn(Less, Nat)
  BY NatLessThanWellFounded DEF Less, OpToRel
<1>2. PICK m \in T : \A n \in T : <<n, m>> \notin Less
  BY <1>1, WFMin
<1>3. m \in Nat /\ \A n \in T : n \in Nat /\ ~(n < m)
  BY <1>2 DEF Less
<1>4. \A n \in T : m <= n
  BY <1>3
<1> QED
  BY <1>4

\* The recursion of ImagesOf defines what it says, on every sequence of files.
LEMMA KeptExists ==
  ASSUME NEW s \in Seq(File),
         NEW n \in Nat, n <= Len(s)
  PROVE  \E g \in [0..n -> Seq(Images)] :
           /\ g[0] = <<>>
           /\ \A i \in 1..n : g[i] = IF s[i] \in Images THEN Append(g[i - 1], s[i]) ELSE g[i - 1]
<1> DEFINE Keeps(g, k) ==
             /\ g \in [0..k -> Seq(Images)] /\ g[0] = <<>>
             /\ \A i \in 1..k :
                  g[i] = IF s[i] \in Images THEN Append(g[i - 1], s[i]) ELSE g[i - 1]
           T == {k \in Nat : k <= Len(s) /\ ~\E g : Keeps(g, k)}
<1>1. SUFFICES T = {}
  BY <1>1
<1>2. SUFFICES ASSUME T # {} PROVE FALSE
  OBVIOUS
<1>3. PICK m \in T : \A k \in T : m <= k
  <2> HIDE DEF T
  <2>1. T \subseteq Nat
    BY DEF T
  <2> QED
    BY <1>2, <2>1, LeastNumber
<1>4. m # 0
  <2>1. Keeps([i \in 0..0 |-> <<>>], 0)
    BY EmptySeq
  <2>2. 0 \notin T
    BY <2>1
  <2> QED
    BY <1>3, <2>2
<1>5. m - 1 \in Nat /\ m - 1 \notin T /\ m - 1 <= Len(s) /\ Len(s) \in Nat /\ m \in 1..Len(s)
  <2>1. m \in Nat /\ m <= Len(s) /\ Len(s) \in Nat
    BY <1>3
  <2>2. m - 1 \in Nat /\ m - 1 <= Len(s) /\ m \in 1..Len(s) /\ ~(m <= m - 1)
    BY <1>4, <2>1
  <2>3. m - 1 \notin T
    <3> HIDE DEF T
    <3> QED
      BY <1>3, <2>2
  <2> QED
    BY <2>1, <2>2, <2>3
<1>6. PICK g : Keeps(g, m - 1)
  BY <1>5
<1> DEFINE last == IF s[m] \in Images THEN Append(g[m - 1], s[m]) ELSE g[m - 1]
           h == [i \in 0..m |-> IF i = m THEN last ELSE g[i]]
<1>7. last \in Seq(Images)
  <2>1. m - 1 \in 0..(m - 1)
    BY <1>5
  <2>2. g[m - 1] \in Seq(Images)
    BY <1>6, <2>1
  <2> QED
    BY <2>2, AppendProperties
<1>8. Keeps(h, m)
  <2> HIDE DEF last
  <2>1. \A i \in 0..m : i # m => i \in 0..(m - 1)
    BY <1>5
  <2>2. h \in [0..m -> Seq(Images)]
    BY <1>6, <1>7, <2>1
  <2>3. h[0] = <<>>
    BY <1>4, <1>5, <1>6
  <2>4. ASSUME NEW i \in 1..m
        PROVE  h[i] = IF s[i] \in Images THEN Append(h[i - 1], s[i]) ELSE h[i - 1]
    <3>1. CASE i = m
      <4>1. h[i] = last /\ h[i - 1] = g[m - 1]
        BY <1>5, <3>1
      <4> QED
        BY <3>1, <4>1 DEF last
    <3>2. CASE i # m
      <4>1. i \in 1..(m - 1) /\ i \in 0..m /\ i - 1 \in 0..m /\ i - 1 # m
        BY <1>5, <3>2
      <4>2. h[i] = g[i] /\ h[i - 1] = g[i - 1]
        BY <3>2, <4>1
      <4> QED
        BY <1>6, <4>1, <4>2
    <3> QED
      BY <3>1, <3>2
  <2> QED
    BY <2>2, <2>3, <2>4
<1> QED
  BY <1>3, <1>8

\* queueFiles() makes a sequence of images of what was selected.
LEMMA ImagesOfType ==
  ASSUME NEW s \in Seq(File)
  PROVE  ImagesOf(s) \in Seq(Images)
<1> DEFINE n == Len(s)
           Step(g) == [i \in 0..n |-> IF i = 0 THEN <<>>
                                      ELSE IF s[i] \in Images THEN Append(g[i - 1], s[i])
                                      ELSE g[i - 1]]
           kept == CHOOSE g : g = Step(g)
<1>1. n \in Nat /\ n <= n
  OBVIOUS
<1>2. PICK g \in [0..n -> Seq(Images)] :
           /\ g[0] = <<>>
           /\ \A i \in 1..n : g[i] = IF s[i] \in Images THEN Append(g[i - 1], s[i]) ELSE g[i - 1]
  BY <1>1, KeptExists
<1>3. g = Step(g)
  <2>1. \A i \in 0..n : i # 0 => i \in 1..n
    BY <1>1
  <2>2. \A i \in 0..n : g[i] = Step(g)[i]
    BY <1>2, <2>1
  <2>3. g = [i \in 0..n |-> g[i]] /\ Step(g) = [i \in 0..n |-> Step(g)[i]]
    BY <1>2
  <2> HIDE DEF Step, n
  <2> QED
    BY <2>2, <2>3
<1>4. kept = Step(kept)
  <2> HIDE DEF Step
  <2> QED
    BY <1>3
<1> HIDE DEF kept
<1> DEFINE T == {k \in 0..n : kept[k] \notin Seq(Images)}
<1>5. T = {}
  <2> SUFFICES ASSUME T # {} PROVE FALSE
    OBVIOUS
  <2>1. T \in SUBSET Nat
    BY <1>1
  <2>2. PICK m \in T : \A k \in T : m <= k
    <3> HIDE DEF T
    <3> QED
      BY <2>1, LeastNumber
  <2>3. m \in 0..n /\ kept[m] \notin Seq(Images)
    OBVIOUS
  <2>4. m # 0
    BY <1>4, <2>3
  <2>5. m - 1 \in 0..n /\ m - 1 \notin T
    BY <1>1, <2>2, <2>3, <2>4
  <2>6. kept[m - 1] \in Seq(Images)
    BY <2>5
  <2>7. kept[m] = IF s[m] \in Images THEN Append(kept[m - 1], s[m]) ELSE kept[m - 1]
    BY <1>4, <2>3, <2>4
  <2> QED
    BY <2>3, <2>6, <2>7, AppendProperties
<1>6. ImagesOf(s) = kept[n]
  BY DEF ImagesOf, kept
<1> QED
  BY <1>1, <1>5, <1>6

-----------------------------------------------------------------------------
(* The inductive invariant.                                                  *)

\* The stage of an encoder says what its fields hold.
Stages ==
  /\ \A e \in Batch : stage[e] # "idle" => e <= encoder
  /\ \A e \in Batch : encoder < e => images[e] = <<>>
  /\ \A e \in Batch : stage[e] = "loading" => files[e] # <<>> /\ e \notin started
  /\ \A e \in Batch : stage[e] \in {"reducing", "encoding"} =>
                        e \in started /\ current[e] \in Images
  /\ \A e \in started : e <= encoder
  /\ zip = [name \in DOMAIN zip |-> zip[name]]

\* Until OK the dialog's encoder holds its images in two parts, the loaded ones, which the
\* frames show, and the others.
Loading ==
  /\ dialog # NoBatch /\ dialog \notin started =>
       /\ "IMAGE_LOADED" \in listening[dialog]
       /\ Len(images[dialog]) + Len(files[dialog]) = Len(selected[dialog])
       /\ \A i \in 1..Len(images[dialog]) :
            images[dialog][i] = selected[dialog][i] /\ images[dialog][i] \in frames
       /\ \A i \in 1..Len(files[dialog]) :
            files[dialog][i] = selected[dialog][Len(images[dialog]) + i]
  /\ okEnabled => /\ dialog # NoBatch /\ dialog \notin started
                  /\ files[dialog] = <<>> /\ images[dialog] # <<>>

\* After OK the list and the zip file hold the first images of the batch, the encoder the
\* others, until the download, or until another encoder adds to the zip file.
Collecting ==
  /\ encoder # NoBatch /\ "IMAGE_DONE" \in listening[encoder] /\ ~intruded
  /\ stage[encoder] \in {"reducing", "encoding"}
  =>
  /\ images[encoder] # <<>> /\ current[encoder] = Head(images[encoder])
  /\ Len(imageList) + Len(images[encoder]) = Len(selected[encoder])
  /\ \A i \in 1..Len(images[encoder]) :
       /\ images[encoder][i] = selected[encoder][Len(imageList) + i]
       /\ images[encoder][i] \in frames
  /\ \A i \in 1..Len(imageList) : imageList[i] = NewName[selected[encoder][i]]
  /\ remaining = IF imageList = <<>> THEN <<>> ELSE images[encoder]
  /\ DOMAIN zip = Range(imageList)
  /\ Distinct(encoder) =>
       \A i \in 1..Len(imageList) : zip[NewName[selected[encoder][i]]] = selected[encoder][i]

Accounted(d) ==
  ~d.intruded /\ d.list # <<>> => d.list \o Names(d.skipped) = Names(selected[d.batch])

Held(d) ==
  ~d.intruded /\ Distinct(d.batch) /\ ~(Len(d.list) = 1 /\ d.skipped # <<>>) =>
    d.data = [name \in Range(d.list) |->
                CHOOSE f \in Range(selected[d.batch]) : NewName[f] = name]

Offered == \A d \in downloads : d.batch \in 1..encoder /\ Accounted(d) /\ Held(d)

Inv == TypeOK /\ Stages /\ Loading /\ Collecting /\ Offered

LEMMA InvInit == Init => Inv
<1> SUFFICES ASSUME Init
             PROVE  Inv
  OBVIOUS
<1>1. TypeOK
  <2>1. <<>> \in Seq(Images) /\ <<>> \in Seq(Range(NewName))
    BY EmptySeq
  <2>2. MaxBatches \in Nat /\ maxZipSize \in Nat
    BY EncoderAssumption
  <2>3. 0 \in 0..maxZipSize
    BY <2>2
  <2>4. DOMAIN zip = {} /\ Range(zip) = {}
    BY DEF Init, Range
  <2> QED
    BY <2>1, <2>3, <2>4 DEF Init, TypeOK
<1>2. Stages
  BY DEF Init, Stages
<1>3. Loading /\ Collecting /\ Offered
  BY DEF Init, Loading, Collecting, Offered
<1> QED
  BY <1>1, <1>2, <1>3 DEF Inv

-----------------------------------------------------------------------------
(* What the values that the steps compute are.                               *)

\* Names of a sequence of images, and of its parts.
LEMMA NamesFacts ==
  ASSUME NEW fs \in Seq(Images)
  PROVE  /\ Names(fs) \in Seq(Range(NewName))
         /\ Len(Names(fs)) = Len(fs)
         /\ \A i \in 1..Len(fs) : Names(fs)[i] = NewName[fs[i]]
<1>1. DOMAIN fs = 1..Len(fs) /\ Len(fs) \in Nat
  BY LenProperties
<1>2. \A i \in 1..Len(fs) : NewName[fs[i]] \in Range(NewName)
  <2>1. \A f \in Images : f \in DOMAIN NewName
    BY EncoderAssumption
  <2> QED
    BY <2>1, ElementOfSeq DEF Range
<1>3. Names(fs) \in [1..Len(fs) -> Range(NewName)]
  BY <1>1, <1>2 DEF Names
<1> QED
  BY <1>1, <1>3 DEF Names

LEMMA NameInRange ==
  ASSUME NEW f \in Images
  PROVE  NewName[f] \in Range(NewName)
<1>1. f \in DOMAIN NewName
  BY EncoderAssumption
<1> QED
  BY <1>1 DEF Range

\* The list of a download and what it skips are what was selected.
LEMMA AccountedFrom ==
  ASSUME NEW sel \in Seq(Images), NEW list \in Seq(Range(NewName)), NEW left \in Seq(Images),
         Len(list) + Len(left) = Len(sel),
         \A i \in 1..Len(list) : list[i] = NewName[sel[i]],
         \A i \in 1..Len(left) : left[i] = sel[Len(list) + i]
  PROVE  list \o Names(left) = Names(sel)
<1> DEFINE both == list \o Names(left)
<1>1. /\ both \in Seq(Range(NewName))
      /\ Len(both) = Len(list) + Len(left)
      /\ \A i \in 1..(Len(list) + Len(left)) :
           both[i] = IF i <= Len(list) THEN list[i] ELSE Names(left)[i - Len(list)]
  <2> DEFINE names == Names(left)
             S == Range(NewName)
  <2>1. names \in Seq(S) /\ Len(names) = Len(left) /\ list \in Seq(S)
    BY NamesFacts
  <2> HIDE DEF names, S
  <2>2. /\ list \o names \in Seq(S)
        /\ Len(list \o names) = Len(list) + Len(names)
        /\ \A i \in 1..(Len(list) + Len(names)) :
             (list \o names)[i] = IF i <= Len(list) THEN list[i] ELSE names[i - Len(list)]
    <3>1. list \o names \in Seq(S)
      BY <2>1
    <3>2. Len(list \o names) = Len(list) + Len(names)
      BY <2>1, ConcatProperties, Zenon
    <3>3. ASSUME NEW i \in 1..(Len(list) + Len(names))
          PROVE  (list \o names)[i] = IF i <= Len(list) THEN list[i] ELSE names[i - Len(list)]
      <4>1. Len(list) \in Nat /\ Len(names) \in Nat
        BY <2>1
      <4>2. CASE i <= Len(list)
        BY <2>1, <4>1, <4>2
      <4>3. CASE ~(i <= Len(list))
        BY <2>1, <4>1, <4>3
      <4> QED
        BY <4>2, <4>3
    <3> QED
      BY <3>1, <3>2, <3>3
  <2> QED
    BY <2>1, <2>2 DEF names, S
<1>2. Names(sel) \in Seq(Range(NewName)) /\ Len(Names(sel)) = Len(sel)
  BY NamesFacts
<1>3. Len(list) \in Nat /\ Len(left) \in Nat /\ Len(sel) \in Nat
  OBVIOUS
<1>4. ASSUME NEW i \in 1..Len(both)
      PROVE  both[i] = Names(sel)[i]
  <2>1. i \in 1..Len(sel) /\ i \in 1..(Len(list) + Len(left))
    BY <1>1
  <2>2. Names(sel)[i] = NewName[sel[i]]
    BY <2>1, NamesFacts
  <2>3. CASE i <= Len(list)
    BY <1>1, <1>3, <2>1, <2>2, <2>3
  <2>4. CASE ~(i <= Len(list))
    <3>1. i - Len(list) \in 1..Len(left) /\ Len(list) + (i - Len(list)) = i
      BY <1>3, <2>1, <2>4
    <3>2. left[i - Len(list)] = sel[i]
      BY <3>1
    <3>3. Names(left)[i - Len(list)] = NewName[left[i - Len(list)]]
      BY <3>1, NamesFacts
    <3> QED
      BY <1>1, <2>1, <2>2, <2>4, <3>2, <3>3
  <2> QED
    BY <2>3, <2>4
<1> HIDE DEF both
<1>5. both = Names(sel)
  BY <1>1, <1>2, <1>4, SeqEqual
<1> QED
  BY <1>5 DEF both

\* When no two names are equal, each name that is listed is that of one image.
LEMMA ImageOfName ==
  ASSUME NEW sel \in Seq(Images), IsInjective(Names(sel)), NEW i \in 1..Len(sel)
  PROVE  (CHOOSE f \in Range(sel) : NewName[f] = NewName[sel[i]]) = sel[i]
<1>1. sel[i] \in Range(sel)
  BY DEF Range
<1>2. ASSUME NEW f \in Range(sel), NewName[f] = NewName[sel[i]]
      PROVE  f = sel[i]
  <2>1. PICK j \in 1..Len(sel) : sel[j] = f
    BY RangeEquality
  <2>2. Names(sel)[j] = Names(sel)[i] /\ DOMAIN Names(sel) = 1..Len(sel)
    BY <1>2, <2>1, NamesFacts DEF Names
  <2>3. j = i
    BY <2>2 DEF IsInjective
  <2> QED
    BY <2>1, <2>3
<1> QED
  BY <1>1, <1>2

\* The data of a download are then the images it lists.
LEMMA HeldFrom ==
  ASSUME NEW sel \in Seq(Images), IsInjective(Names(sel)),
         NEW list \in Seq(Range(NewName)), Len(list) <= Len(sel),
         \A i \in 1..Len(list) : list[i] = NewName[sel[i]]
  PROVE  \A data :
           (\A i \in 1..Len(list) : data[list[i]] = sel[i]) =>
             [name \in Range(list) |-> data[name]] =
               [name \in Range(list) |-> CHOOSE f \in Range(sel) : NewName[f] = name]
<1> SUFFICES ASSUME NEW data, \A i \in 1..Len(list) : data[list[i]] = sel[i],
                    NEW name \in Range(list)
             PROVE  data[name] = CHOOSE f \in Range(sel) : NewName[f] = name
  OBVIOUS
<1>1. PICK i \in 1..Len(list) : list[i] = name
  BY RangeEquality
<1>2. i \in 1..Len(sel)
  <2>1. Len(list) \in Nat /\ Len(sel) \in Nat
    OBVIOUS
  <2> QED
    BY <2>1
<1> QED
  BY <1>1, <1>2, ImageOfName

\* A download that was in order stays so, when the batches it may be of keep their images.
LEMMA OfferedKept ==
  ASSUME Offered, TypeOK, encoder' \in Nat, encoder <= encoder',
         \A b \in 1..encoder : selected'[b] = selected[b],
         \A d \in downloads' : \/ d \in downloads
                               \/ d.batch \in 1..encoder' /\ Accounted(d)' /\ Held(d)'
  PROVE  Offered'
<1> SUFFICES ASSUME NEW d \in downloads'
             PROVE  d.batch \in 1..encoder' /\ Accounted(d)' /\ Held(d)'
  BY DEF Offered
<1>1. CASE d \in downloads
  <2>1. d.batch \in 1..encoder /\ Accounted(d) /\ Held(d)
    BY <1>1 DEF Offered
  <2>2. selected'[d.batch] = selected[d.batch]
    BY <2>1
  <2>3. d.batch \in 1..encoder'
    <3>1. encoder \in Nat
      BY EncoderAssumption DEF TypeOK, Batch, NoBatch
    <3> QED
      BY <2>1, <3>1
  <2>4. Accounted(d)'
    BY <2>1, <2>2 DEF Accounted
  <2>5. Held(d)'
    BY <2>1, <2>2 DEF Held, Distinct
  <2> QED
    BY <2>3, <2>4, <2>5
<1> QED
  BY <1>1

LEMMA OfferedUnchanged ==
  ASSUME Offered, TypeOK, UNCHANGED <<downloads, selected, encoder>>
  PROVE  Offered'
<1>1. encoder' \in Nat /\ encoder <= encoder'
  BY EncoderAssumption DEF TypeOK, Batch, NoBatch
<1> QED
  BY <1>1, OfferedKept

-----------------------------------------------------------------------------
(* The steps.                                                                *)

LEMMA Types ==
  ASSUME TypeOK
  PROVE  /\ MaxBatches \in Nat /\ encoder \in Nat /\ NoBatch = 0
         /\ Batch = 1..MaxBatches /\ dialog \in {0, encoder}
         /\ encoder # 0 => encoder \in Batch
         /\ \A e \in Batch : /\ files[e] \in Seq(Images) /\ images[e] \in Seq(Images)
                             /\ selected[e] \in Seq(Images)
BY EncoderAssumption DEF TypeOK, Batch, NoBatch

LEMMA SelectStep ==
  ASSUME Inv, Select
  PROVE  Inv'
<1> USE DEF Inv
<1> DEFINE e == encoder + 1
<1>1. PICK selection \in Selections :
        LET fs == ImagesOf(selection)
        IN  /\ encoder' = e /\ dialog' = e /\ okEnabled' = FALSE /\ progress' = FALSE
            /\ frames' = {}
            /\ files' = [files EXCEPT ![e] = fs]
            /\ stage' = [stage EXCEPT ![e] = LoadStage(fs)]
            /\ listening' = [listening EXCEPT ![e] = {"IMAGE_LOADED"}]
            /\ selected' = [selected EXCEPT ![e] = fs]
  BY DEF Select
<1> DEFINE fs == ImagesOf(selection)
<1>2. fs \in Seq(Images)
  BY EncoderAssumption, ImagesOfType
<1>3. UNCHANGED <<images, current, previewed, zip, zipSize, imageList, remaining,
                  lastData, started, closed, intruded, downloads>>
  BY DEF Select
<1>4. /\ e \in Batch /\ encoder \in Nat /\ MaxBatches \in Nat /\ e \in Nat
      /\ encoder < e /\ encoder <= e
  BY Types DEF Select, Batch
<1> HIDE DEF e, fs
<1>5. LoadStage(fs) \in {"idle", "loading"} /\ (LoadStage(fs) = "loading" => fs # <<>>)
  BY DEF LoadStage
<1>6. e \notin started /\ images[e] = <<>> /\ \A b \in Batch : b <= encoder => b <= e
  <2>1. \A b \in started : b <= encoder
    BY DEF Stages
  <2>2. images[e] = <<>>
    BY <1>4 DEF Stages
  <2> QED
    BY <1>4, <2>1, <2>2, Types
<1>7. TypeOK'
  BY <1>1, <1>2, <1>3, <1>4, <1>5 DEF TypeOK, fs
<1>8. Stages'
  <2>1. zip' = [name \in DOMAIN zip' |-> zip'[name]]
    BY <1>3 DEF Stages
  <2>2. \A b \in Batch : b # e => stage'[b] = stage[b] /\ files'[b] = files[b]
    BY <1>1
  <2>3. stage'[e] = LoadStage(fs) /\ files'[e] = fs
    BY <1>1, <1>4 DEF TypeOK, fs
  <2>4. ASSUME NEW b \in Batch
        PROVE  /\ stage'[b] # "idle" => b <= encoder'
               /\ encoder' < b => images'[b] = <<>>
               /\ stage'[b] = "loading" => files'[b] # <<>> /\ b \notin started'
               /\ stage'[b] \in {"reducing", "encoding"} => b \in started' /\ current'[b] \in Images
    <3>1. CASE b = e
      BY <1>1, <1>3, <1>4, <1>5, <1>6, <2>3, <3>1
    <3>2. CASE b # e
      <4>1. encoder' < b => encoder < b
        BY <1>1, <1>4, Types
      <4> QED
        BY <1>1, <1>3, <1>6, <2>2, <3>2, <4>1 DEF Stages
    <3> QED
      BY <3>1, <3>2
  <2>5. \A b \in started' : b <= encoder'
    <3>1. started' \subseteq Batch
      BY <1>7 DEF TypeOK
    <3> QED
      BY <1>1, <1>3, <1>6, <3>1 DEF Stages
  <2> QED
    BY <2>1, <2>4, <2>5 DEF Stages
<1>9. Loading'
  <2>1. dialog' = e /\ files'[e] = fs /\ selected'[e] = fs /\ images'[e] = <<>>
    BY <1>1, <1>3, <1>4, <1>6 DEF TypeOK, fs
  <2>2. listening'[e] = {"IMAGE_LOADED"}
    BY <1>1, <1>4 DEF TypeOK
  <2>3. Len(<<>>) = 0 /\ Len(fs) \in Nat
    BY <1>2
  <2>4. /\ Len(<<>>) + Len(fs) = Len(fs)
        /\ \A i \in 1..Len(fs) : fs[i] = fs[Len(<<>>) + i]
        /\ \A i \in 1..Len(<<>>) : FALSE
    BY <2>3
  <2> QED
    BY <1>1, <2>1, <2>2, <2>4 DEF Loading
<1>10. Collecting'
  <2>1. encoder' = e /\ listening'[e] = {"IMAGE_LOADED"}
    BY <1>1, <1>4 DEF TypeOK
  <2> QED
    BY <2>1 DEF Collecting
<1>11. Offered'
  <2>1. \A b \in 1..encoder : selected'[b] = selected[b]
    BY <1>1, <1>4
  <2> QED
    BY <1>1, <1>3, <1>4, <2>1, OfferedKept
<1> QED
  BY <1>7, <1>8, <1>9, <1>10, <1>11

LEMMA CloseStep ==
  ASSUME Inv, Close
  PROVE  Inv'
<1> USE DEF Inv
<1>1. /\ dialog' = NoBatch /\ progress' = FALSE /\ okEnabled' = FALSE
      /\ closed' = closed \union {dialog}
      /\ UNCHANGED <<files, images, stage, current, listening, previewed, encoder, frames, zip,
                     zipSize, imageList, remaining, lastData, selected, started, intruded,
                     downloads>>
  BY DEF Close, enc, collected
<1>2. dialog \in Batch
  BY Types DEF Close
<1>3. TypeOK'
  BY <1>1, <1>2 DEF TypeOK
<1>4. Stages'
  BY <1>1 DEF Stages
<1>5. Loading'
  BY <1>1 DEF Loading
<1>6. Collecting'
  BY <1>1 DEF Collecting, Distinct
<1>7. Offered'
  BY <1>1, OfferedUnchanged
<1> QED
  BY <1>3, <1>4, <1>5, <1>6, <1>7

LEMMA ImageLoadedStep ==
  ASSUME Inv, NEW e \in Batch, ImageLoaded(e)
  PROVE  Inv'
<1> USE DEF Inv
<1> DEFINE f == Head(files[e])
           rest == Tail(files[e])
           heard == "IMAGE_LOADED" \in listening[e]
<1>1. /\ stage[e] = "loading"
      /\ images' = [images EXCEPT ![e] = Append(images[e], f)]
      /\ files' = [files EXCEPT ![e] = rest]
      /\ stage' = [stage EXCEPT ![e] = IF heard THEN LoadStage(rest) ELSE "idle"]
      /\ UNCHANGED <<current, listening, previewed, encoder, dialog, progress, zip, zipSize,
                     imageList, remaining, lastData, selected, started, closed, intruded,
                     downloads>>
  <2>1. files'[e] = Tail(files[e])
    BY DEF ImageLoaded, TypeOK
  <2> QED
    BY <2>1 DEF ImageLoaded, history
<1>2. /\ frames' = IF heard /\ dialog # NoBatch THEN frames \union {f} ELSE frames
      /\ okEnabled' = (okEnabled \/ (heard /\ dialog = e /\ rest = <<>>))
  <2>1. files'[e] = rest
    BY DEF ImageLoaded, TypeOK
  <2>2. okEnabled \in BOOLEAN
    BY DEF TypeOK
  <2> QED
    BY <2>1, <2>2 DEF ImageLoaded
<1>3. e \notin started /\ files[e] # <<>> /\ e <= encoder
  BY <1>1 DEF Stages
<1>4. /\ f \in Images /\ f = files[e][1] /\ rest \in Seq(Images)
      /\ Len(files[e]) \in Nat \ {0}
      /\ Len(rest) = Len(files[e]) - 1 /\ \A i \in 1..Len(rest) : rest[i] = files[e][i + 1]
  BY <1>3, Types, HeadTailProperties, EmptySeq
<1>5. /\ Append(images[e], f) \in Seq(Images) /\ Len(images[e]) \in Nat
      /\ Append(images[e], f) # <<>>
      /\ Len(Append(images[e], f)) = Len(images[e]) + 1
      /\ \A i \in 1..Len(images[e]) : Append(images[e], f)[i] = images[e][i]
      /\ Append(images[e], f)[Len(images[e]) + 1] = f
  BY <1>4, Types, AppendProperties
<1> DEFINE more == Append(images[e], f)
<1> HIDE DEF f, rest, more, heard
<1>6. /\ files' \in [Batch -> Seq(Images)] /\ files'[e] = rest
      /\ images' \in [Batch -> Seq(Images)] /\ images'[e] = more
      /\ \A b \in Batch : b # e => images'[b] = images[b] /\ files'[b] = files[b]
  BY <1>1, <1>4, <1>5 DEF TypeOK, more
<1>7. LoadStage(rest) \in {"idle", "loading"} /\ (LoadStage(rest) = "loading" => rest # <<>>)
  BY DEF LoadStage
<1>8. TypeOK'
  <2>1. stage' \in [Batch -> {"idle", "loading", "reducing", "encoding"}]
    BY <1>1, <1>7 DEF TypeOK
  <2>2. frames' \subseteq Images /\ okEnabled' \in BOOLEAN
    BY <1>2, <1>4 DEF TypeOK
  <2> QED
    BY <1>1, <1>6, <2>1, <2>2 DEF TypeOK
<1>9. Stages'
  <2>1. stage'[e] \in {"idle", "loading"} /\ (stage'[e] = "loading" => rest # <<>>)
    BY <1>1, <1>7 DEF TypeOK
  <2>2. \A b \in Batch : b # e => stage'[b] = stage[b]
    BY <1>1
  <2>3. ~(encoder < e)
    BY <1>3, Types DEF Batch
  <2>4. ASSUME NEW b \in Batch
        PROVE  /\ stage'[b] # "idle" => b <= encoder'
               /\ encoder' < b => images'[b] = <<>>
               /\ stage'[b] = "loading" => files'[b] # <<>> /\ b \notin started'
               /\ stage'[b] \in {"reducing", "encoding"} => b \in started' /\ current'[b] \in Images
    <3>1. CASE b = e
      BY <1>1, <1>3, <1>6, <2>1, <2>3, <3>1
    <3>2. CASE b # e
      BY <1>1, <1>6, <2>2, <3>2 DEF Stages
    <3> QED
      BY <3>1, <3>2
  <2> QED
    BY <1>1, <2>4 DEF Stages
<1>10. Loading'
  <2>1. CASE dialog = e
    <3> DEFINE sel == selected[e]
               k == Len(images[e])
    <3>1. dialog # NoBatch /\ dialog \notin started
      BY <1>3, <2>1 DEF Batch, NoBatch
    <3>2. /\ heard
          /\ k + Len(files[e]) = Len(sel)
          /\ \A i \in 1..k : images[e][i] = sel[i] /\ images[e][i] \in frames
          /\ \A i \in 1..Len(files[e]) : files[e][i] = sel[k + i]
      BY <2>1, <3>1 DEF Loading, heard
    <3>3. frames' = frames \union {f}
      BY <1>2, <2>1, <3>1, <3>2
    <3>0. k \in Nat /\ Len(more) = k + 1
      BY <1>5 DEF more
    <3>4. Len(more) = k + 1 /\ Len(more) + Len(rest) = Len(sel)
      <4> DEFINE nf == Len(files[e])
                 nr == Len(rest)
                 ns == Len(sel)
      <4>1. nf \in Nat /\ nr = nf - 1 /\ k + nf = ns
        BY <1>4, <3>2
      <4> HIDE DEF nf, nr, ns, k
      <4>2. (k + 1) + nr = ns
        BY <3>0, <4>1
      <4> QED
        BY <3>0, <4>2 DEF nr, ns
    <3>5. ASSUME NEW i \in 1..Len(more)
          PROVE  more[i] = sel[i] /\ more[i] \in frames'
      <4>1. k \in Nat
        BY <1>5
      <4>2. CASE i = k + 1
        <5>1. more[i] = f
          BY <1>5, <4>2 DEF more
        <5>2. sel[i] = f
          <6>1. 1 \in 1..Len(files[e])
            BY <1>4
          <6> QED
            BY <1>4, <3>2, <4>2, <6>1
        <5> QED
          BY <3>3, <5>1, <5>2
      <4>3. CASE i # k + 1
        <5>1. i \in 1..k
          BY <3>4, <4>1, <4>3
        <5> QED
          BY <1>5, <3>2, <3>3, <5>1 DEF more
      <4> QED
        BY <4>2, <4>3
    <3>6. ASSUME NEW i \in 1..Len(rest)
          PROVE  rest[i] = sel[Len(more) + i]
      <4>1. i + 1 \in 1..Len(files[e]) /\ k + (i + 1) = Len(more) + i
        <5> DEFINE nf == Len(files[e])
                   nr == Len(rest)
                   nm == Len(more)
        <5>1. nf \in Nat /\ nr = nf - 1 /\ nm = k + 1 /\ k \in Nat /\ i \in 1..nr
          BY <1>4, <3>0
        <5> HIDE DEF nf, nr, nm, k
        <5>2. i + 1 \in 1..nf /\ k + (i + 1) = nm + i
          BY <5>1
        <5> QED
          BY <5>2 DEF nf, nm
      <4> QED
        BY <1>4, <3>2, <4>1
    <3>7. dialog' = e /\ started' = started /\ selected'[e] = sel /\ heard' = heard
      BY <1>1, <2>1 DEF heard
    <3>8. okEnabled' => rest = <<>>
      <4>1. okEnabled => files[e] = <<>>
        BY <2>1 DEF Loading
      <4> QED
        BY <1>2, <1>3, <4>1
    <3>9. /\ images'[dialog'] = more /\ files'[dialog'] = rest /\ selected'[dialog'] = sel
          /\ dialog' # NoBatch /\ dialog' \notin started' /\ more # <<>>
          /\ "IMAGE_LOADED" \in listening'[dialog']
      BY <1>1, <1>5, <1>6, <2>1, <3>1, <3>2, <3>7 DEF heard, more
    <3> HIDE DEF sel
    <3> QED
      BY <3>4, <3>5, <3>6, <3>8, <3>9 DEF Loading
  <2>2. CASE dialog # e
    <3>1. dialog = NoBatch \/ dialog \in Batch
      BY Types
    <3>2. frames \subseteq frames' /\ okEnabled' = okEnabled
      BY <1>2, <2>2 DEF TypeOK
    <3>3. dialog # NoBatch => images'[dialog] = images[dialog] /\ files'[dialog] = files[dialog]
      BY <1>6, <2>2, <3>1
    <3> QED
      BY <1>1, <3>2, <3>3 DEF Loading
  <2> QED
    BY <2>1, <2>2
<1>11. Collecting'
  <2>1. stage'[e] \in {"idle", "loading"}
    BY <1>1, <1>7 DEF TypeOK
  <2>2. CASE encoder = e
    BY <1>1, <2>1, <2>2 DEF Collecting
  <2>3. CASE encoder # e
    <3>1. encoder # NoBatch =>
            images'[encoder] = images[encoder] /\ stage'[encoder] = stage[encoder]
      BY <1>1, <1>6, <2>3, Types
    <3>2. frames \subseteq frames'
      BY <1>2
    <3> QED
      BY <1>1, <3>1, <3>2 DEF Collecting, Distinct
  <2> QED
    BY <2>2, <2>3
<1>12. Offered'
  BY <1>1, OfferedUnchanged
<1> QED
  BY <1>8, <1>9, <1>10, <1>11, <1>12

\* A step of an encoder that ends or changes its stage and nothing that others look at.
LEMMA StageStep ==
  ASSUME Inv, NEW e \in Batch, NEW s \in {"idle", "encoding"}, stage[e] # "idle",
         stage' = [stage EXCEPT ![e] = s],
         previewed' \in [Batch -> Batch \union {NoBatch}],
         s = "encoding" => stage[e] = "reducing",
         UNCHANGED <<files, images, current, listening, view, collected, history>>
  PROVE  Inv'
<1> USE DEF Inv
<1>1. UNCHANGED <<files, images, current, listening, encoder, dialog, okEnabled, progress,
                  frames, zip, zipSize, imageList, remaining, lastData, selected, started,
                  closed, intruded, downloads>>
  BY DEF view, collected, history
<1>2. TypeOK'
  BY <1>1 DEF TypeOK
<1>3. \A b \in Batch : stage'[b] = IF b = e THEN s ELSE stage[b]
  BY DEF TypeOK
<1>4. Stages'
  BY <1>1, <1>3 DEF Stages
<1>5. Loading'
  BY <1>1 DEF Loading
<1>6. Collecting'
  <2>1. encoder # NoBatch /\ stage'[encoder] \in {"reducing", "encoding"}
          => stage[encoder] \in {"reducing", "encoding"}
    BY <1>3, Types
  <2> QED
    BY <1>1, <2>1 DEF Collecting, Distinct
<1>7. Offered'
  BY <1>1, OfferedUnchanged
<1> QED
  BY <1>2, <1>4, <1>5, <1>6, <1>7

LEMMA LoadFailsStep ==
  ASSUME Inv, NEW e \in Batch, LoadFails(e)
  PROVE  Inv'
<1>1. previewed' \in [Batch -> Batch \union {NoBatch}]
  BY DEF Inv, TypeOK, LoadFails
<1> QED
  BY <1>1, StageStep DEF LoadFails

LEMMA ReducedStep ==
  ASSUME Inv, NEW e \in Batch, Reduced(e)
  PROVE  Inv'
<1>1. UNCHANGED <<files, images, current, listening, view, collected, history>>
  BY DEF Reduced
<1>2. CASE stage' = [stage EXCEPT ![e] = "idle"] /\ UNCHANGED previewed
  <2>1. previewed' \in [Batch -> Batch \union {NoBatch}]
    BY <1>2 DEF Inv, TypeOK
  <2> QED
    BY <1>1, <1>2, <2>1, StageStep DEF Reduced
<1>3. CASE /\ stage' = [stage EXCEPT ![e] = "encoding"]
           /\ previewed' = IF "ENCODE_START" \in listening[e]
                           THEN [previewed EXCEPT ![e] = dialog] ELSE previewed
  <2>1. previewed' \in [Batch -> Batch \union {NoBatch}]
    <3>1. dialog \in Batch \union {NoBatch}
      BY Types DEF Inv
    <3> QED
      BY <1>3, <3>1 DEF Inv, TypeOK
  <2> QED
    BY <1>1, <1>3, <2>1, StageStep DEF Reduced
<1> QED
  BY <1>2, <1>3 DEF Reduced

LEMMA OkStep ==
  ASSUME Inv, Ok
  PROVE  Inv'
<1> USE DEF Inv
<1>1. /\ okEnabled' = FALSE /\ progress' = TRUE
      /\ zip' = <<>> /\ zipSize' = 0 /\ imageList' = <<>>
      /\ remaining' = <<>> /\ lastData' = NoFile
      /\ listening' = [listening EXCEPT ![encoder] = @ \union {"ENCODE_START", "IMAGE_DONE"}]
      /\ stage' = [stage EXCEPT ![encoder] = "reducing"]
      /\ current' = [current EXCEPT ![encoder] = Head(images[encoder])]
      /\ started' = started \union {dialog}
      /\ intruded' = FALSE
      /\ UNCHANGED <<files, images, previewed, encoder, dialog, frames, selected, closed,
                     downloads>>
  BY DEF Ok, NewZip
<1>2. /\ dialog = encoder /\ encoder \in Batch /\ encoder # NoBatch
      /\ encoder \notin started /\ files[encoder] = <<>> /\ images[encoder] # <<>>
  BY Types DEF Ok, Loading, NoBatch
<1> DEFINE left == images[encoder]
           sel == selected[encoder]
<1>3. /\ Len(left) = Len(sel)
      /\ \A i \in 1..Len(left) : left[i] = sel[i] /\ left[i] \in frames
  <2>1. Len(left) + Len(files[encoder]) = Len(sel)
    BY <1>2 DEF Loading
  <2>2. Len(files[encoder]) = 0 /\ Len(left) \in Nat
    BY <1>2, Types
  <2>3. Len(left) = Len(sel)
    BY <2>1, <2>2
  <2> QED
    BY <1>2, <2>3 DEF Loading
<1>4. Head(left) \in Images
  BY <1>2, Types, HeadTailProperties
<1>5. stage'[encoder] = "reducing" /\ current'[encoder] = Head(left)
  BY <1>1, <1>2 DEF TypeOK
<1>6. DOMAIN zip' = {} /\ Range(zip') = {} /\ Range(imageList') = {} /\ Len(imageList') = 0
  BY <1>1 DEF Range
<1>7. TypeOK'
  <2>1. zipSize' \in 0..maxZipSize
    BY <1>1, EncoderAssumption
  <2>2. imageList' \in Seq(Range(NewName)) /\ remaining' \in Seq(Images)
    BY <1>1, EmptySeq
  <2>3. current' \in [Batch -> Images \union {NoFile}]
    BY <1>1, <1>4 DEF TypeOK
  <2> HIDE DEF left
  <2> QED
    BY <1>1, <1>2, <1>6, <2>1, <2>2, <2>3 DEF TypeOK
<1>8. Stages'
  <2>1. zip' = [name \in DOMAIN zip' |-> zip'[name]]
    BY <1>1
  <2>2. ASSUME NEW b \in Batch
        PROVE  /\ stage'[b] # "idle" => b <= encoder'
               /\ encoder' < b => images'[b] = <<>>
               /\ stage'[b] = "loading" => files'[b] # <<>> /\ b \notin started'
               /\ stage'[b] \in {"reducing", "encoding"} => b \in started' /\ current'[b] \in Images
    <3>1. CASE b = encoder
      <4>1. encoder <= encoder
        BY Types
      <4> QED
        BY <1>1, <1>2, <1>4, <1>5, <3>1, <4>1 DEF Stages
    <3>2. CASE b # encoder
      <4>1. stage'[b] = stage[b] /\ current'[b] = current[b]
        BY <1>1, <3>2 DEF TypeOK
      <4> QED
        BY <1>1, <1>2, <3>2, <4>1 DEF Stages
    <3> QED
      BY <3>1, <3>2
  <2>3. \A b \in started' : b <= encoder'
    <3>1. encoder <= encoder
      BY Types
    <3> QED
      BY <1>1, <1>2, <3>1 DEF Stages
  <2> QED
    BY <2>1, <2>2, <2>3 DEF Stages
<1>9. Loading'
  BY <1>1 DEF Loading
<1>10. Collecting'
  <2>1. Len(left) \in Nat /\ 0 + Len(left) = Len(left) /\ \A i \in 1..Len(left) : 0 + i = i
    BY <1>2, Types
  <2>2. 1..0 = {}
    OBVIOUS
  <2>3. imageList' = <<>> /\ remaining' = <<>> /\ encoder' = encoder
        /\ images' = images /\ selected' = selected /\ frames' = frames
    BY <1>1
  <2>4. \A i \in 1..Len(left) : left[i] = sel[Len(imageList') + i] /\ left[i] \in frames
    BY <1>3, <1>6, <2>1
  <2>5. Len(imageList') + Len(left) = Len(sel)
    BY <1>3, <1>6, <2>1
  <2>6. \A i \in 1..Len(imageList') : FALSE
    BY <1>6, <2>2
  <2> QED
    BY <1>2, <1>5, <1>6, <2>3, <2>4, <2>5, <2>6 DEF Collecting
<1>11. Offered'
  BY <1>1, OfferedUnchanged
<1> QED
  BY <1>7, <1>8, <1>9, <1>10, <1>11

-----------------------------------------------------------------------------
(* Encoded(e), in the five cases that it has.                                *)

EncodedFrame == UNCHANGED <<files, previewed, selected, started, closed, encoder, frames>>

\* Nobody is told.
Quiet(e) ==
  /\ stage' = [stage EXCEPT ![e] = "idle"]
  /\ images' = [images EXCEPT ![e] = IF images[e] = <<>> THEN <<>> ELSE Tail(images[e])]
  /\ UNCHANGED <<current, listening, dialog, okEnabled, progress, zip, zipSize, imageList,
                 remaining, lastData, intruded, downloads>>

Told(e) ==
  /\ images[e] # <<>> /\ "IMAGE_DONE" \in listening[e]
  /\ stage' = [stage EXCEPT ![e] = NextStage(Tail(images[e]))]
  /\ current' = [current EXCEPT ![e] = IF Tail(images[e]) = <<>> THEN current[e]
                                       ELSE Head(Tail(images[e]))]
  /\ intruded' = (intruded \/ e # encoder)
  /\ lastData' = current[e]

Offers(list, skipped, data) ==
  /\ downloads' = downloads \union
       {[batch |-> encoder, list |-> list, skipped |-> skipped, data |-> data,
         intruded |-> intruded']}
  /\ listening' = [listening EXCEPT ![encoder] = {}]
  /\ dialog' = NoBatch /\ progress' = FALSE /\ okEnabled' = FALSE

DataOf(list, z, f) == IF Len(list) = 1 THEN [name \in {list[1]} |-> f] ELSE z

\* The zip file is full.
Full(e) ==
  /\ images' = [images EXCEPT ![e] = Tail(images[e]), ![encoder] = <<>>]
  /\ Offers(imageList, remaining, DataOf(imageList, zip, current[e]))
  /\ UNCHANGED <<zip, zipSize, imageList, remaining>>

Adds(e) ==
  /\ images' = [images EXCEPT ![e] = Tail(images[e])]
  /\ zipSize' = zipSize + Size[current[e]] /\ ~(zipSize' > maxZipSize)
  /\ imageList' = Append(imageList, NewName[current[e]])

\* The page has no frame for the image.
Unframed(e) ==
  /\ Adds(e)
  /\ current[e] \notin frames
  /\ UNCHANGED <<zip, remaining, listening, dialog, okEnabled, progress, downloads>>

Zips(e) ==
  /\ Adds(e)
  /\ current[e] \in frames
  /\ zip' = ZipFile(NewName[current[e]], current[e])
  /\ remaining' = Tail(images[e])

More(e) ==
  /\ Zips(e)
  /\ Tail(images[e]) # <<>>
  /\ UNCHANGED <<listening, dialog, okEnabled, progress, downloads>>

Last(e) ==
  /\ Zips(e)
  /\ Tail(images[e]) = <<>>
  /\ Offers(imageList', remaining', DataOf(imageList', zip', current[e]))

LEMMA EncodedCases ==
  ASSUME NEW e \in Batch, Encoded(e)
  PROVE  /\ stage[e] = "encoding" /\ EncodedFrame
         /\ Quiet(e) \/ (Told(e) /\ (Full(e) \/ Unframed(e) \/ More(e) \/ Last(e)))
<1> DEFINE f == current[e]
           left == Tail(images[e])
<1>1. stage[e] = "encoding" /\ UNCHANGED <<files, previewed, selected, started, closed>>
  BY DEF Encoded
<1>2. CASE images[e] = <<>> \/ "IMAGE_DONE" \notin listening[e]
  BY <1>1, <1>2 DEF Encoded, view, collected, Quiet, EncodedFrame
<1>3. CASE ~(images[e] = <<>> \/ "IMAGE_DONE" \notin listening[e])
  <2>1. Told(e) /\ UNCHANGED frames
    BY <1>3 DEF Encoded, Told
  <2>2. CASE Exceeds(f)
    BY <1>1, <1>3, <2>1, <2>2 DEF Encoded, Download, Full, Offers, DataOf, EncodedFrame
  <2>3. CASE ~Exceeds(f)
    <3>1. images' = [images EXCEPT ![e] = left] /\ CollectImage(e, f, left)
      BY <1>3, <2>3 DEF Encoded
    <3>2. Adds(e)
      BY <2>3, <3>1 DEF CollectImage, Adds, Exceeds
    <3>3. CASE f \notin frames
      BY <1>1, <2>1, <3>1, <3>2, <3>3 DEF CollectImage, Unframed, EncodedFrame, view
    <3>4. CASE f \in frames /\ left # <<>>
      BY <1>1, <2>1, <3>1, <3>2, <3>4 DEF CollectImage, Zips, More, Skipped, EncodedFrame, view
    <3>5. CASE f \in frames /\ left = <<>>
      BY <1>1, <2>1, <3>1, <3>2, <3>5 DEF CollectImage, Zips, Last, Skipped, Download, Offers,
                                          DataOf, EncodedFrame
    <3> QED
      BY <1>1, <2>1, <3>3, <3>4, <3>5
  <2> QED
    BY <2>2, <2>3
<1> QED
  BY <1>2, <1>3

LEMMA QuietStep ==
  ASSUME Inv, NEW e \in Batch, stage[e] = "encoding", EncodedFrame, Quiet(e)
  PROVE  Inv'
<1> USE DEF Inv
<1>1. UNCHANGED <<files, previewed, selected, started, closed, encoder, frames, current, listening,
                  dialog, okEnabled, progress, zip, zipSize, imageList, remaining, lastData,
                  intruded, downloads>>
  BY DEF EncodedFrame, Quiet
<1>2. e \in started /\ e <= encoder
  BY DEF Stages
<1>3. \A b \in Batch : /\ stage'[b] = IF b = e THEN "idle" ELSE stage[b]
                       /\ b # e => images'[b] = images[b]
  BY DEF Quiet, TypeOK
<1>4. TypeOK'
  <2>1. (IF images[e] = <<>> THEN <<>> ELSE Tail(images[e])) \in Seq(Images)
    BY Types, HeadTailProperties, EmptySeq
  <2>2. images' \in [Batch -> Seq(Images)]
    BY <2>1 DEF Quiet, TypeOK
  <2>3. stage' \in [Batch -> {"idle", "loading", "reducing", "encoding"}]
    BY DEF Quiet, TypeOK
  <2> QED
    BY <1>1, <2>2, <2>3 DEF TypeOK
<1>5. Stages'
  <2>1. ~(encoder < e)
    BY <1>2, Types
  <2> QED
    BY <1>1, <1>2, <1>3, <2>1 DEF Stages
<1>6. Loading'
  <2>1. dialog # NoBatch /\ dialog \notin started => images'[dialog] = images[dialog]
    BY <1>2, <1>3, Types DEF NoBatch
  <2> QED
    BY <1>1, <2>1 DEF Loading
<1>7. Collecting'
  <2>1. encoder # NoBatch /\ stage'[encoder] \in {"reducing", "encoding"}
          => stage[encoder] = stage'[encoder] /\ images'[encoder] = images[encoder]
    BY <1>3, Types DEF NoBatch
  <2> QED
    BY <1>1, <2>1 DEF Collecting, Distinct
<1>8. Offered'
  BY <1>1, OfferedUnchanged
<1> QED
  BY <1>4, <1>5, <1>6, <1>7, <1>8

\* Types and stages in the other four cases.
LEMMA ToldStages ==
  ASSUME Inv, NEW e \in Batch, stage[e] = "encoding", EncodedFrame, Told(e),
         Full(e) \/ Unframed(e) \/ More(e) \/ Last(e)
  PROVE  TypeOK' /\ Stages'
<1> USE DEF Inv
<1> DEFINE left == Tail(images[e])
           f == current[e]
<1>1. /\ e \in started /\ e <= encoder /\ encoder \in Batch /\ f \in Images
      /\ f \in File /\ Size[f] \in Nat /\ NewName[f] \in Range(NewName)
  <2>1. e \in started /\ e <= encoder /\ f \in Images
    BY DEF Stages
  <2>2. encoder \in Batch
    BY <2>1, Types
  <2> QED
    BY <2>1, <2>2, EncoderAssumption, NameInRange
<1>2. left \in Seq(Images) /\ (left # <<>> => Head(left) \in Images)
  <2>1. left \in Seq(Images)
    BY Types, HeadTailProperties DEF Told
  <2> QED
    BY <2>1, HeadTailProperties
<1> HIDE DEF left
<1>3. /\ NextStage(left) \in {"idle", "reducing"}
      /\ NextStage(left) = "reducing" => left # <<>>
  BY DEF NextStage
<1>4. /\ \A b \in Batch : /\ stage'[b] = IF b = e THEN NextStage(left) ELSE stage[b]
                          /\ b # e => current'[b] = current[b]
      /\ current'[e] = IF left = <<>> THEN f ELSE Head(left)
      /\ stage' \in [Batch -> {"idle", "loading", "reducing", "encoding"}]
      /\ current' \in [Batch -> Images \union {NoFile}]
      /\ lastData' \in Images \union {NoFile} /\ intruded' \in BOOLEAN
  BY <1>1, <1>2, <1>3 DEF Told, TypeOK, left
<1>5. /\ images' \in [Batch -> Seq(Images)]
      /\ \A b \in Batch : encoder < b => images'[b] = images[b]
  <2>1. <<>> \in Seq(Images) /\ ~(encoder < e) /\ ~(encoder < encoder)
    BY <1>1, EmptySeq, Types
  <2>2. CASE images' = [images EXCEPT ![e] = left]
    BY <1>2, <2>1, <2>2 DEF TypeOK
  <2>3. CASE images' = [images EXCEPT ![e] = left, ![encoder] = <<>>]
    BY <1>2, <2>1, <2>3 DEF TypeOK
  <2> QED
    BY <2>2, <2>3 DEF Full, Unframed, More, Last, Zips, Adds, left
<1>6. /\ listening' \in [Batch -> SUBSET {"IMAGE_LOADED", "ENCODE_START", "IMAGE_DONE"}]
      /\ dialog' \in {NoBatch, encoder} /\ okEnabled' \in BOOLEAN /\ progress' \in BOOLEAN
  BY DEF Full, Unframed, More, Last, Offers, TypeOK
<1>7. zipSize' \in 0..maxZipSize
  <2>1. CASE zipSize' = zipSize
    BY <2>1 DEF TypeOK
  <2>2. CASE Adds(e)
    <3>1. zipSize \in Nat /\ maxZipSize \in Nat
      BY EncoderAssumption DEF TypeOK
    <3>2. zipSize' \in Nat /\ ~(zipSize' > maxZipSize)
      BY <1>1, <2>2, <3>1 DEF Adds
    <3> QED
      BY <3>1, <3>2
  <2> QED
    BY <2>1, <2>2 DEF Full, Unframed, More, Last, Zips
<1>8. imageList' \in Seq(Range(NewName)) /\ remaining' \in Seq(Images)
  <2>1. CASE UNCHANGED <<imageList, remaining>>
    BY <2>1 DEF TypeOK
  <2>2. CASE Adds(e) /\ (remaining' = remaining \/ remaining' = left)
    <3>1. imageList' \in Seq(Range(NewName))
      BY <1>1, <2>2, AppendProperties DEF Adds, TypeOK
    <3> QED
      BY <1>2, <2>2, <3>1 DEF TypeOK
  <2> QED
    BY <2>1, <2>2 DEF Full, Unframed, More, Last, Zips, left
<1>9. /\ DOMAIN zip' \subseteq Range(NewName) /\ Range(zip') \subseteq Images
      /\ zip' = [name \in DOMAIN zip' |-> zip'[name]]
  <2>1. CASE zip' = zip
    BY <2>1 DEF TypeOK, Stages
  <2>2. CASE zip' = ZipFile(NewName[f], f)
    <3>1. zip' = [n \in DOMAIN zip \union {NewName[f]} |-> IF n = NewName[f] THEN f ELSE zip[n]]
      BY <2>2 DEF ZipFile
    <3>2. \A n \in DOMAIN zip : zip[n] \in Images
      BY DEF TypeOK, Range
    <3> QED
      BY <1>1, <3>1, <3>2 DEF TypeOK, Range
  <2> QED
    BY <2>1, <2>2 DEF Full, Unframed, More, Last, Zips
<1>10. TypeOK'
  BY <1>4, <1>5, <1>6, <1>7, <1>8, <1>9 DEF TypeOK, EncodedFrame
<1>11. Stages'
  <2>1. ~(encoder < e)
    BY <1>1, Types
  <2>2. ASSUME NEW b \in Batch
        PROVE  /\ stage'[b] # "idle" => b <= encoder'
               /\ encoder' < b => images'[b] = <<>>
               /\ stage'[b] = "loading" => files'[b] # <<>> /\ b \notin started'
               /\ stage'[b] \in {"reducing", "encoding"} => b \in started' /\ current'[b] \in Images
    <3>1. CASE b = e
      BY <1>1, <1>2, <1>3, <1>4, <2>1, <3>1 DEF EncodedFrame
    <3>2. CASE b # e
      BY <1>4, <1>5, <3>2 DEF Stages, EncodedFrame
    <3> QED
      BY <3>1, <3>2
  <2> QED
    BY <1>9, <2>2 DEF Stages, EncodedFrame
<1> QED
  BY <1>10, <1>11

\* Loading after the four cases: the dialog's encoder is not the one that went on.
LEMMA ToldLoading ==
  ASSUME Inv, NEW e \in Batch, stage[e] = "encoding", EncodedFrame, Told(e),
         Full(e) \/ Unframed(e) \/ More(e) \/ Last(e)
  PROVE  Loading'
<1> USE DEF Inv
<1>1. e \in started
  BY DEF Stages
<1>2. CASE dialog' = NoBatch /\ okEnabled' = FALSE
  BY <1>2 DEF Loading
<1>3. CASE Adds(e) /\ UNCHANGED <<listening, dialog, okEnabled>>
  <2>1. dialog # NoBatch /\ dialog \notin started => images'[dialog] = images[dialog]
    BY <1>1, <1>3, Types DEF Adds, NoBatch
  <2> QED
    BY <1>3, <2>1 DEF Loading, EncodedFrame
<1> QED
  BY <1>2, <1>3 DEF Full, Unframed, More, Last, Zips, Offers

\* What is left after an image.
LEMMA LeftFacts ==
  ASSUME NEW sel \in Seq(Images), NEW rest \in Seq(Images), NEW k \in Nat,
         rest # <<>>, k + Len(rest) = Len(sel),
         \A i \in 1..Len(rest) : rest[i] = sel[k + i]
  PROVE  /\ Head(rest) \in Images /\ Head(rest) = rest[1] /\ Head(rest) = sel[k + 1]
         /\ k + 1 \in 1..Len(sel)
         /\ Tail(rest) \in Seq(Images)
         /\ k + 1 + Len(Tail(rest)) = Len(sel)
         /\ \A i \in 1..Len(Tail(rest)) : /\ Tail(rest)[i] = sel[k + 1 + i]
                                          /\ i + 1 \in 1..Len(rest)
                                          /\ Tail(rest)[i] = rest[i + 1]
<1> DEFINE r == Len(rest)
           t == Len(Tail(rest))
           n == Len(sel)
<1>1. /\ Head(rest) \in Images /\ Head(rest) = rest[1] /\ Tail(rest) \in Seq(Images)
      /\ t = r - 1 /\ r \in Nat /\ n \in Nat /\ r # 0
      /\ \A i \in 1..t : Tail(rest)[i] = rest[i + 1]
  BY HeadTailProperties, EmptySeq
<1>2. k + r = n
  OBVIOUS
<1> HIDE DEF r, t, n
<1>3. /\ 1 \in 1..r /\ k + 1 \in 1..n /\ k + 1 + t = n
      /\ \A i \in 1..t : i + 1 \in 1..r /\ k + (i + 1) = k + 1 + i
  BY <1>1, <1>2
<1>4. \A i \in 1..r : rest[i] = sel[k + i]
  BY DEF r
<1>5. Head(rest) = sel[k + 1]
  BY <1>1, <1>3, <1>4
<1>6. \A i \in 1..t : Tail(rest)[i] = sel[k + 1 + i]
  BY <1>1, <1>3, <1>4
<1> QED
  BY <1>1, <1>3, <1>5, <1>6 DEF r, t, n

\* What Collecting says of the encoder that goes on, and of the image that it has encoded.
LEMMA ToldFacts ==
  ASSUME Inv, NEW e \in Batch, stage[e] = "encoding", Told(e), e = encoder, ~intruded
  PROVE  LET k == Len(imageList)
             sel == selected[encoder]
             f == current[encoder]
             left == Tail(images[encoder])
         IN  /\ k \in Nat /\ k + Len(images[encoder]) = Len(sel)
             /\ \A i \in 1..k : imageList[i] = NewName[sel[i]]
             /\ \A i \in 1..Len(images[encoder]) : images[encoder][i] = sel[k + i]
             /\ remaining = IF imageList = <<>> THEN <<>> ELSE images[encoder]
             /\ DOMAIN zip = Range(imageList)
             /\ IsInjective(Names(sel)) =>
                  \A i \in 1..k : zip[NewName[sel[i]]] = sel[i]
             /\ f \in Images /\ f \in frames /\ f = sel[k + 1] /\ k + 1 \in 1..Len(sel)
             /\ left \in Seq(Images) /\ k + 1 + Len(left) = Len(sel)
             /\ \A i \in 1..Len(left) : left[i] = sel[k + 1 + i] /\ left[i] \in frames
<1> USE DEF Inv
<1> DEFINE k == Len(imageList)
           sel == selected[encoder]
           f == current[encoder]
           rest == images[encoder]
           left == Tail(rest)
<1>1. encoder # NoBatch
  BY EncoderAssumption DEF Batch, NoBatch
<1>2. /\ rest # <<>> /\ f = Head(rest) /\ k + Len(rest) = Len(sel)
      /\ \A i \in 1..Len(rest) : rest[i] = sel[k + i] /\ rest[i] \in frames
      /\ \A i \in 1..k : imageList[i] = NewName[sel[i]]
      /\ remaining = IF imageList = <<>> THEN <<>> ELSE rest
      /\ DOMAIN zip = Range(imageList)
      /\ IsInjective(Names(sel)) => \A i \in 1..k : zip[NewName[sel[i]]] = sel[i]
  BY <1>1 DEF Told, Collecting, Distinct
<1>3. k \in Nat /\ sel \in Seq(Images) /\ rest \in Seq(Images)
  BY Types DEF TypeOK
<1>4. /\ f \in Images /\ f = rest[1] /\ f = sel[k + 1] /\ k + 1 \in 1..Len(sel)
      /\ left \in Seq(Images) /\ k + 1 + Len(left) = Len(sel)
      /\ \A i \in 1..Len(left) : /\ left[i] = sel[k + 1 + i]
                                 /\ i + 1 \in 1..Len(rest) /\ left[i] = rest[i + 1]
  <2> HIDE DEF k, sel, rest
  <2> QED
    BY <1>2, <1>3, LeftFacts
<1>5. f \in frames
  <2>1. 1 \in 1..Len(rest)
    BY <1>2, <1>3, EmptySeq
  <2> QED
    BY <1>2, <1>4, <2>1
<1>6. \A i \in 1..Len(left) : left[i] \in frames
  <2> HIDE DEF rest, left
  <2> QED
    BY <1>2, <1>4
<1> QED
  BY <1>2, <1>3, <1>4, <1>5, <1>6

\* What the page has collected once the image is in the zip file.
LEMMA ZippedFacts ==
  ASSUME Inv, NEW e \in Batch, stage[e] = "encoding", Told(e), Zips(e), e = encoder, ~intruded
  PROVE  LET sel == selected[encoder]
             left == Tail(images[encoder])
         IN  /\ imageList' \in Seq(Range(NewName)) /\ imageList' # <<>>
             /\ Len(imageList') = Len(imageList) + 1
             /\ Len(imageList') \in 1..Len(sel)
             /\ Len(imageList') + Len(left) = Len(sel)
             /\ \A i \in 1..Len(imageList') : imageList'[i] = NewName[sel[i]]
             /\ \A i \in 1..Len(left) :
                  left[i] = sel[Len(imageList') + i] /\ left[i] \in frames
             /\ DOMAIN zip' = Range(imageList')
             /\ IsInjective(Names(sel)) =>
                  \A i \in 1..Len(imageList') : zip'[NewName[sel[i]]] = sel[i]
             /\ current[encoder] = sel[Len(imageList')]
<1> DEFINE sel == selected[encoder]
           f == current[encoder]
           left == Tail(images[encoder])
           list == imageList
           k == Len(list)
           longer == Append(list, NewName[f])
<1>1. /\ sel \in Seq(Images) /\ list \in Seq(Range(NewName)) /\ k \in Nat /\ Len(sel) \in Nat
      /\ imageList' = longer /\ zip' = ZipFile(NewName[f], f)
  <2>1. sel \in Seq(Images) /\ list \in Seq(Range(NewName))
    BY Types DEF Inv, TypeOK
  <2>2. imageList' = longer /\ zip' = ZipFile(NewName[f], f)
    BY DEF Zips, Adds
  <2> HIDE DEF sel, list
  <2> QED
    BY <2>1, <2>2
<1>2. /\ \A i \in 1..k : list[i] = NewName[sel[i]]
      /\ DOMAIN zip = Range(list)
      /\ IsInjective(Names(sel)) => \A i \in 1..k : zip[NewName[sel[i]]] = sel[i]
      /\ f \in Images /\ f = sel[k + 1] /\ k + 1 \in 1..Len(sel)
      /\ k + 1 + Len(left) = Len(sel)
      /\ \A i \in 1..Len(left) : left[i] = sel[k + 1 + i] /\ left[i] \in frames
  BY ToldFacts
<1> HIDE DEF sel, f, left, list
<1>3. /\ longer \in Seq(Range(NewName)) /\ Len(longer) = k + 1
      /\ longer[k + 1] = NewName[f] /\ \A i \in 1..k : longer[i] = list[i]
  BY <1>1, <1>2, NameInRange, AppendProperties
<1>4. \A i \in 1..(k + 1) : i = k + 1 \/ i \in 1..k
  BY <1>1
<1>5. \A i \in 1..(k + 1) : longer[i] = NewName[sel[i]]
  BY <1>2, <1>3, <1>4
<1>6. zip' = [n \in DOMAIN zip \union {NewName[f]} |-> IF n = NewName[f] THEN f ELSE zip[n]]
  BY <1>1 DEF ZipFile
<1>7. Range(longer) = Range(list) \union {NewName[f]}
  <2> DEFINE at == k + 1
  <2> HIDE DEF k, longer
  <2>1. Range(longer) = {longer[i] : i \in 1..at} /\ Range(list) = {list[i] : i \in 1..k}
    BY <1>1, <1>3, RangeEquality DEF k
  <2>2. 1..at = 1..k \union {at}
    BY <1>1
  <2>3. {longer[i] : i \in 1..k} = {list[i] : i \in 1..k}
    BY <1>3
  <2> HIDE DEF at
  <2>4. {longer[i] : i \in 1..at} = {longer[i] : i \in 1..k} \union {longer[at]}
    BY <2>2
  <2> QED
    BY <1>3, <2>1, <2>3, <2>4 DEF at
<1>8. DOMAIN zip' = Range(longer)
  BY <1>2, <1>6, <1>7
<1>9. ASSUME IsInjective(Names(sel)), NEW i \in 1..(k + 1)
      PROVE  zip'[NewName[sel[i]]] = sel[i]
  <2>1. CASE i = k + 1
    BY <1>2, <1>6, <2>1
  <2>2. CASE i \in 1..k
    <3>1. i \in 1..Len(sel) /\ k + 1 \in 1..Len(sel) /\ i # k + 1
      BY <1>1, <1>2, <2>2
    <3>2. /\ DOMAIN Names(sel) = 1..Len(sel)
          /\ Names(sel)[i] = NewName[sel[i]] /\ Names(sel)[k + 1] = NewName[f]
      BY <1>1, <1>2, <3>1, NamesFacts DEF Names
    <3>3. NewName[sel[i]] # NewName[f]
      BY <1>9, <3>1, <3>2 DEF IsInjective
    <3>4. NewName[sel[i]] \in Range(list)
      <4>1. DOMAIN list = 1..k /\ list[i] = NewName[sel[i]]
        BY <1>1, <1>2, <2>2
      <4> QED
        BY <2>2, <4>1 DEF Range
    <3>5. zip'[NewName[sel[i]]] = zip[NewName[sel[i]]]
      BY <1>2, <1>6, <3>3, <3>4
    <3> QED
      BY <1>2, <1>9, <2>2, <3>5
  <2> QED
    BY <1>4, <2>1, <2>2
<1>10. longer # <<>>
  BY <1>1, <1>3, EmptySeq
<1> HIDE DEF k, longer
<1>11. Len(imageList') = k + 1
  BY <1>1, <1>3
<1> QED
  BY <1>1, <1>2, <1>3, <1>5, <1>8, <1>9, <1>10, <1>11 DEF sel, f, left, list, k

LEMMA ToldCollecting ==
  ASSUME Inv, NEW e \in Batch, stage[e] = "encoding", EncodedFrame, Told(e),
         Full(e) \/ Unframed(e) \/ More(e) \/ Last(e)
  PROVE  Collecting'
<1>1. encoder' = encoder /\ selected' = selected /\ frames' = frames
  BY DEF EncodedFrame
<1>2. CASE encoder = NoBatch
  BY <1>1, <1>2 DEF Collecting
<1>3. CASE encoder # NoBatch /\ listening' = [listening EXCEPT ![encoder] = {}]
  <2>1. listening'[encoder] = {}
    BY <1>3, Types DEF Inv, TypeOK, NoBatch
  <2> QED
    BY <1>1, <2>1 DEF Collecting
<1>4. CASE e # encoder \/ intruded
  BY <1>4 DEF Told, Collecting
<1>5. CASE e = encoder /\ ~intruded /\ Unframed(e)
  BY <1>5, ToldFacts DEF Unframed
<1>6. CASE e = encoder /\ ~intruded /\ More(e)
  <2> DEFINE sel == selected[encoder]
             left == Tail(images[encoder])
  <2>1. /\ images'[encoder] = left /\ left # <<>> /\ remaining' = left
        /\ current'[encoder] = Head(left)
    BY <1>6, Types DEF Told, More, Zips, Adds, Inv, TypeOK
  <2>2. /\ imageList' # <<>>
        /\ Len(imageList') + Len(left) = Len(sel)
        /\ \A i \in 1..Len(imageList') : imageList'[i] = NewName[sel[i]]
        /\ \A i \in 1..Len(left) : left[i] = sel[Len(imageList') + i] /\ left[i] \in frames
        /\ DOMAIN zip' = Range(imageList')
        /\ IsInjective(Names(sel)) =>
             \A i \in 1..Len(imageList') : zip'[NewName[sel[i]]] = sel[i]
    BY <1>6, ZippedFacts DEF More
  <2> HIDE DEF left
  <2> QED
    BY <1>1, <2>1, <2>2 DEF Collecting, Distinct
<1> QED
  BY <1>2, <1>3, <1>4, <1>5, <1>6 DEF Full, Last, Offers

\* The zip file is full: the list, and what was to come with the image that is too large.
LEMMA FullOffer ==
  ASSUME Inv, NEW e \in Batch, stage[e] = "encoding", Told(e), e = encoder, ~intruded
  PROVE  LET sel == selected[encoder]
             data == DataOf(imageList, zip, current[e])
         IN  /\ imageList # <<>> => imageList \o Names(remaining) = Names(sel)
             /\ IsInjective(Names(sel)) /\ ~(Len(imageList) = 1 /\ remaining # <<>>) =>
                  data = [name \in Range(imageList) |-> CHOOSE f \in Range(sel) : NewName[f] = name]
<1> DEFINE sel == selected[encoder]
           rest == images[encoder]
           k == Len(imageList)
<1>1. /\ sel \in Seq(Images) /\ rest \in Seq(Images) /\ imageList \in Seq(Range(NewName))
      /\ rest # <<>> /\ zip = [name \in DOMAIN zip |-> zip[name]]
  BY Types DEF Inv, TypeOK, Stages, Told
<1>2. /\ k \in Nat /\ k + Len(rest) = Len(sel)
      /\ \A i \in 1..k : imageList[i] = NewName[sel[i]]
      /\ \A i \in 1..Len(rest) : rest[i] = sel[k + i]
      /\ remaining = IF imageList = <<>> THEN <<>> ELSE rest
      /\ DOMAIN zip = Range(imageList)
      /\ IsInjective(Names(sel)) => \A i \in 1..k : zip[NewName[sel[i]]] = sel[i]
  BY ToldFacts
<1> HIDE DEF sel, rest
<1>3. ASSUME imageList # <<>>
      PROVE  imageList \o Names(remaining) = Names(sel)
  BY <1>1, <1>2, <1>3, AccountedFrom
<1>4. ASSUME IsInjective(Names(sel)), ~(Len(imageList) = 1 /\ remaining # <<>>)
      PROVE  DataOf(imageList, zip, current[e]) =
               [name \in Range(imageList) |-> CHOOSE f \in Range(sel) : NewName[f] = name]
  <2>1. k # 1
    <3> SUFFICES ASSUME k = 1 PROVE FALSE
      OBVIOUS
    <3>1. imageList # <<>>
      BY EmptySeq
    <3> QED
      BY <1>1, <1>2, <1>4, <3>1
  <2>2. DataOf(imageList, zip, current[e]) = zip
    BY <2>1 DEF DataOf
  <2>3. k <= Len(sel)
    <3>1. Len(rest) \in Nat /\ Len(sel) \in Nat
      BY <1>1
    <3> HIDE DEF k
    <3> QED
      BY <1>2, <3>1
  <2>4. \A i \in 1..k : zip[imageList[i]] = sel[i]
    BY <1>2, <1>4
  <2>5. zip = [name \in Range(imageList) |-> zip[name]]
    BY <1>1, <1>2
  <2>6. zip = [name \in Range(imageList) |-> CHOOSE f \in Range(sel) : NewName[f] = name]
    <3>1. \A data :
            (\A i \in 1..k : data[imageList[i]] = sel[i]) =>
              [name \in Range(imageList) |-> data[name]] =
                [name \in Range(imageList) |-> CHOOSE f \in Range(sel) : NewName[f] = name]
      BY <1>1, <1>2, <1>4, <2>3, HeldFrom
    <3>2. [name \in Range(imageList) |-> zip[name]] =
            [name \in Range(imageList) |-> CHOOSE f \in Range(sel) : NewName[f] = name]
      BY <2>4, <3>1
    <3> QED
      BY <2>5, <3>2
  <2> QED
    BY <2>2, <2>6
<1> QED
  BY <1>3, <1>4 DEF sel

\* The last image: the whole list, and nothing is skipped.
LEMMA LastOffer ==
  ASSUME Inv, NEW e \in Batch, stage[e] = "encoding", EncodedFrame, Told(e), Last(e),
         e = encoder, ~intruded
  PROVE  LET sel == selected[encoder]
             data == DataOf(imageList', zip', current[e])
         IN  /\ imageList' \o Names(remaining') = Names(sel)
             /\ IsInjective(Names(sel)) =>
                  data = [name \in Range(imageList') |->
                            CHOOSE f \in Range(sel) : NewName[f] = name]
<1> DEFINE sel == selected[encoder]
           f0 == current[encoder]
           list == imageList'
           k == Len(list)
           data == DataOf(list, zip', f0)
<1>1. /\ sel \in Seq(Images) /\ remaining' = <<>> /\ remaining' \in Seq(Images)
      /\ zip' = [name \in DOMAIN zip' |-> zip'[name]]
  <2>1. Stages'
    BY ToldStages
  <2>2. remaining' = <<>>
    BY DEF Last, Zips
  <2> QED
    BY <2>1, <2>2, Types, EmptySeq DEF Inv, Stages
<1>2. /\ list \in Seq(Range(NewName)) /\ k \in 1..Len(sel)
      /\ k + Len(remaining') = Len(sel)
      /\ \A i \in 1..k : list[i] = NewName[sel[i]]
      /\ DOMAIN zip' = Range(list)
      /\ IsInjective(Names(sel)) => \A i \in 1..k : zip'[NewName[sel[i]]] = sel[i]
      /\ f0 = sel[k]
  BY <1>1, ZippedFacts DEF Last, Zips
<1> HIDE DEF sel, f0, list, data
<1>3. list \o Names(remaining') = Names(sel)
  <2>1. \A i \in 1..Len(remaining') : remaining'[i] = sel[k + i]
    BY <1>1
  <2> QED
    BY <1>1, <1>2, <2>1, AccountedFrom
<1>4. ASSUME IsInjective(Names(sel))
      PROVE  data = [name \in Range(list) |-> CHOOSE f \in Range(sel) : NewName[f] = name]
  <2>1. /\ data = [name \in Range(list) |-> data[name]]
        /\ \A i \in 1..k : data[list[i]] = sel[i]
    <3>1. CASE k = 1
      <4>1. data = [name \in {list[1]} |-> f0]
        BY <3>1 DEF data, DataOf
      <4>2. Range(list) = {list[1]}
        BY <1>2, <3>1, RangeEquality
      <4>3. \A i \in 1..k : i = 1
        BY <3>1
      <4> QED
        BY <1>2, <3>1, <4>1, <4>2, <4>3
    <3>2. CASE k # 1
      <4>1. data = zip'
        BY <3>2 DEF data, DataOf
      <4> QED
        BY <1>1, <1>2, <1>4, <4>1
    <3> QED
      BY <3>1, <3>2
  <2>2. k <= Len(sel)
    BY <1>2
  <2> QED
    <3>1. \A any :
            (\A i \in 1..k : any[list[i]] = sel[i]) =>
              [name \in Range(list) |-> any[name]] =
                [name \in Range(list) |-> CHOOSE f \in Range(sel) : NewName[f] = name]
      BY <1>1, <1>2, <1>4, <2>2, HeldFrom
    <3>2. [name \in Range(list) |-> data[name]] =
            [name \in Range(list) |-> CHOOSE f \in Range(sel) : NewName[f] = name]
      BY <2>1, <3>1
    <3> QED
      BY <2>1, <3>2
<1> QED
  BY <1>3, <1>4 DEF sel, f0, list, data

LEMMA ToldOffered ==
  ASSUME Inv, NEW e \in Batch, stage[e] = "encoding", EncodedFrame, Told(e),
         Full(e) \/ Unframed(e) \/ More(e) \/ Last(e)
  PROVE  Offered'
<1> USE DEF Inv
<1>1. encoder' = encoder /\ selected' = selected /\ encoder \in 1..encoder' /\ encoder' \in Nat
  <2>1. encoder \in Batch
    BY Types DEF Stages
  <2> QED
    BY <2>1, Types DEF EncodedFrame
<1>2. CASE downloads' = downloads
  BY <1>1, <1>2, OfferedUnchanged
<1>3. ASSUME NEW list, NEW skipped, NEW data, Offers(list, skipped, data),
             ~intruded' =>
               LET sel == selected[encoder]
               IN  /\ list # <<>> => list \o Names(skipped) = Names(sel)
                   /\ IsInjective(Names(sel)) /\ ~(Len(list) = 1 /\ skipped # <<>>) =>
                        data = [name \in Range(list) |->
                                  CHOOSE f \in Range(sel) : NewName[f] = name]
      PROVE  Offered'
  <2>1. ASSUME NEW d \in downloads', d \notin downloads
        PROVE  d.batch \in 1..encoder' /\ Accounted(d)' /\ Held(d)'
    <3>1. /\ d.batch = encoder /\ d.list = list /\ d.skipped = skipped /\ d.data = data
          /\ d.intruded = intruded'
      BY <1>3, <2>1 DEF Offers
    <3>2. Accounted(d)'
      BY <1>1, <1>3, <3>1 DEF Accounted
    <3>3. Held(d)'
      BY <1>1, <1>3, <3>1 DEF Held, Distinct
    <3> QED
      BY <1>1, <3>1, <3>2, <3>3
  <2> QED
    BY <1>1, <2>1, OfferedKept
<1>4. ~intruded' => ~intruded /\ e = encoder
  BY DEF Told
<1>5. CASE Full(e)
  <2>1. Offers(imageList, remaining, DataOf(imageList, zip, current[e]))
    BY <1>5 DEF Full
  <2> QED
    BY <1>3, <1>4, <2>1, FullOffer
<1>6. CASE Last(e)
  <2>1. Offers(imageList', remaining', DataOf(imageList', zip', current[e]))
    BY <1>6 DEF Last
  <2> QED
    BY <1>3, <1>4, <1>6, <2>1, LastOffer
<1> QED
  BY <1>2, <1>5, <1>6 DEF Unframed, More

LEMMA EncodedStep ==
  ASSUME Inv, NEW e \in Batch, Encoded(e)
  PROVE  Inv'
<1>1. CASE Quiet(e)
  BY <1>1, EncodedCases, QuietStep
<1>2. CASE Told(e) /\ (Full(e) \/ Unframed(e) \/ More(e) \/ Last(e))
  <2>1. stage[e] = "encoding" /\ EncodedFrame
    BY EncodedCases
  <2> QED
    BY <1>2, <2>1, ToldStages, ToldLoading, ToldCollecting, ToldOffered DEF Inv
<1> QED
  BY <1>1, <1>2, EncodedCases

LEMMA InvStep == Inv /\ [Next]_vars => Inv'
<1> SUFFICES ASSUME Inv, [Next]_vars
             PROVE  Inv'
  OBVIOUS
<1>1. CASE Select
  BY <1>1, SelectStep
<1>2. CASE Close
  BY <1>2, CloseStep
<1>3. CASE Ok
  BY <1>3, OkStep
<1>4. ASSUME NEW e \in Batch, Callback(e)
      PROVE  Inv'
  BY <1>4, ImageLoadedStep, LoadFailsStep, ReducedStep, EncodedStep DEF Callback
<1>5. CASE UNCHANGED vars
  <2>1. /\ UNCHANGED <<files, images, stage, current, listening, previewed>>
        /\ UNCHANGED <<encoder, dialog, okEnabled, progress>>
        /\ UNCHANGED <<frames, zip, zipSize, imageList, remaining, lastData>>
        /\ UNCHANGED <<selected, started, closed, intruded, downloads>>
    BY <1>5 DEF vars, enc, view, collected, history
  <2>2. TypeOK' /\ Stages' /\ Loading' /\ Collecting'
    BY <2>1 DEF Inv, TypeOK, Stages, Loading, Collecting, Distinct
  <2>3. Offered'
    BY <2>1, OfferedUnchanged DEF Inv
  <2> QED
    BY <2>2, <2>3 DEF Inv
<1> QED
  BY <1>1, <1>2, <1>3, <1>4, <1>5 DEF Next

LEMMA InvHolds == SafeSpec => []Inv
<1> QED
  BY InvInit, InvStep, PTL DEF SafeSpec

-----------------------------------------------------------------------------
(* The theorems.                                                             *)

\* Every field of the page and of its encoders keeps its type; the zip file never outgrows
\* maxZipSize, whichever encoders add to it.
THEOREM TypeCorrect == SafeSpec => []TypeOK
<1>1. Inv => TypeOK
  BY DEF Inv
<1> QED
  BY <1>1, InvHolds, PTL

\* What the download dialog lists and what it says was skipped are together the images that
\* were selected, in their order, unless another encoder had added to the zip file.
THEOREM AccountsForAllHolds == SafeSpec => []AccountsForAll
<1>1. Inv => AccountsForAll
  BY DEF Inv, Offered, Accounted, AccountsForAll
<1> QED
  BY <1>1, InvHolds, PTL

\* What is downloaded holds every image that the dialog lists under the image's own name,
\* when the names differ and no other encoder had added to the zip file.
THEOREM HoldsWhatIsListedHolds == SafeSpec => []HoldsWhatIsListed
<1>1. Inv => HoldsWhatIsListed
  BY DEF Inv, Offered, Held, HoldsWhatIsListed
<1> QED
  BY <1>1, InvHolds, PTL
=============================================================================
