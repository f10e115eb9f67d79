------------------------------ MODULE Encoder ------------------------------
(***************************************************************************)
(* The encoder page of the closure client: demo.js (the dialogs, the zip   *)
(* file, the download) with encoder.js (loading, reducing and encoding     *)
(* images one after the other).  A selection of files opens a dialog and   *)
(* makes a new encoder, a batch; the page keeps one zip file, one list and *)
(* one set of frames for all batches, and an earlier batch whose dialog    *)
(* was closed goes on running.                                             *)
(*                                                                         *)
(* An event handler is a step.  Images are files here, an encoded image    *)
(* has the name NewName and the size Size.  goog.events calls the          *)
(* encoder's own listener, which captures, before the page's.  An          *)
(* exception ends its handler: the state keeps what was assigned before.   *)
(* Selections begin with a file that is not named cryptagram.jpg, which    *)
(* would open the decoder instead.                                         *)
(***************************************************************************)
EXTENDS Integers, Sequences, Functions

CONSTANTS File,
          Images,      \* the files whose type begins with image/
          Unreadable,  \* the files that cannot be read or decoded
          NewName,     \* newFilename() of a file
          Size,        \* the size of an encoded file
          maxZipSize,
          Selections,  \* what the user may select: sequences of files
          MaxBatches,  \* bounds the selections
          NoFile

Batch == 1..MaxBatches
NoBatch == 0

ASSUME EncoderAssumption ==
  /\ Images \subseteq File /\ Unreadable \subseteq File
  /\ DOMAIN NewName = File /\ Size \in [File -> Nat]
  /\ Selections \subseteq Seq(File) /\ <<>> \notin Selections
  /\ MaxBatches \in Nat /\ maxZipSize \in Nat /\ NoFile \notin File

VARIABLES
  \* of an encoder
  files, images,   \* this.files, this.images
  stage,           \* the callback it waits for
  current,         \* the image that createValidImage() was called with
  listening,       \* the events that it and the page listen to
  previewed,       \* the dialog that shows previousImage
  \* of the page
  encoder,         \* this.encoder, the last one
  dialog,          \* the encode dialog that is open
  okEnabled, progress,
  frames, zip, zipSize,
  imageList,       \* its length is imageCount
  remaining, lastData,
  \* history
  selected,        \* the images of each batch
  started,         \* batches whose dialog was left with OK
  closed,          \* batches whose dialog the user closed
  intruded,        \* an encoder changed the zip while another one was this.encoder
  downloads        \* what showDownloadDialog() offered

enc == <<files, images, stage, current, listening, previewed>>
collected == <<frames, zip, zipSize, imageList, remaining, lastData>>
view == <<encoder, dialog, okEnabled, progress>>
history == <<selected, started, closed, intruded, downloads>>
vars == <<enc, view, collected, history>>

Init ==
  /\ files = [e \in Batch |-> <<>>] /\ images = [e \in Batch |-> <<>>]
  /\ stage = [e \in Batch |-> "idle"] /\ current = [e \in Batch |-> NoFile]
  /\ listening = [e \in Batch |-> {}] /\ previewed = [e \in Batch |-> NoBatch]
  /\ encoder = NoBatch /\ dialog = NoBatch /\ okEnabled = FALSE /\ progress = FALSE
  /\ frames = {} /\ zip = <<>> /\ zipSize = 0
  /\ imageList = <<>> /\ remaining = <<>> /\ lastData = NoFile
  /\ selected = [e \in Batch |-> <<>>] /\ started = {} /\ closed = {}
  /\ intruded = FALSE /\ downloads = {}

\* queueFiles() keeps the files whose type begins with image/, in their order.
ImagesOf(selection) ==
  LET kept[i \in 0..Len(selection)] ==
        IF i = 0 THEN <<>>
        ELSE IF selection[i] \in Images THEN Append(kept[i - 1], selection[i])
        ELSE kept[i - 1]
  IN  kept[Len(selection)]

LoadStage(fs) == IF fs = <<>> THEN "idle" ELSE "loading"

\* encryptFiles(), showEncodeDialog(), queueFiles().  The dialog is modal: no other
\* selection is made while it is open.
Select ==
  /\ dialog = NoBatch /\ encoder < MaxBatches
  /\ \E selection \in Selections :
       LET e == encoder + 1
           fs == ImagesOf(selection)
       IN  /\ encoder' = e /\ dialog' = e /\ okEnabled' = FALSE /\ progress' = FALSE
           /\ frames' = {}
           /\ files' = [files EXCEPT ![e] = fs]
           /\ stage' = [stage EXCEPT ![e] = LoadStage(fs)]
           /\ listening' = [listening EXCEPT ![e] = {"IMAGE_LOADED"}]
           /\ selected' = [selected EXCEPT ![e] = fs]
  /\ UNCHANGED <<images, current, previewed, zip, zipSize, imageList, remaining,
                 lastData, started, closed, intruded, downloads>>

\* The user closes the dialog (Cancel, Escape, the cross), whatever its encoder does.
Close ==
  /\ dialog # NoBatch
  /\ dialog' = NoBatch /\ progress' = FALSE /\ okEnabled' = FALSE
  /\ closed' = closed \union {dialog}
  /\ UNCHANGED <<enc, encoder, collected, selected, started, intruded, downloads>>

\* An image is loaded: IMAGE_LOADED.  The encoder loads the next one; the page puts the
\* image into the thumbs of the dialog that is open, and fails if there is none.
ImageLoaded(e) ==
  /\ stage[e] = "loading" /\ Head(files[e]) \notin Unreadable
  /\ images' = [images EXCEPT ![e] = Append(@, Head(files[e]))]
  /\ files' = [files EXCEPT ![e] = Tail(@)]
  /\ IF "IMAGE_LOADED" \notin listening[e]
     THEN stage' = [stage EXCEPT ![e] = "idle"] /\ UNCHANGED <<frames, okEnabled>>
     ELSE /\ stage' = [stage EXCEPT ![e] = LoadStage(files'[e])]
          /\ frames' = IF dialog = NoBatch THEN frames ELSE frames \union {Head(files[e])}
          /\ okEnabled' = (okEnabled \/ (dialog = e /\ files'[e] = <<>>))
  /\ UNCHANGED <<current, listening, previewed, encoder, dialog, progress, zip, zipSize,
                 imageList, remaining, lastData, history>>

\* reader.onerror only writes to the console; an image that cannot be decoded has no handler.
LoadFails(e) ==
  /\ stage[e] = "loading" /\ Head(files[e]) \in Unreadable
  /\ stage' = [stage EXCEPT ![e] = "idle"]
  /\ UNCHANGED <<files, images, current, listening, previewed, view, collected, history>>

\* The zip file that showProgress() begins with.
\* Plausible bug: the zip file is made once, not for each batch.
OldZip == zip
NewZip == <<>>

\* OK with a password: showProgress(), startEncoding().
Ok ==
  /\ dialog # NoBatch /\ okEnabled
  /\ okEnabled' = FALSE /\ progress' = TRUE
  /\ zip' = NewZip /\ zipSize' = 0 /\ imageList' = <<>>
  /\ remaining' = <<>> /\ lastData' = NoFile
  /\ listening' = [listening EXCEPT ![encoder] = @ \union {"ENCODE_START", "IMAGE_DONE"}]
  /\ stage' = [stage EXCEPT ![encoder] = "reducing"]
  /\ current' = [current EXCEPT ![encoder] = Head(images[encoder])]
  /\ started' = started \union {dialog}
  /\ intruded' = FALSE
  /\ UNCHANGED <<files, images, previewed, encoder, dialog, frames, selected, closed, downloads>>

\* The page's ENCODE_START handler needs the preview of an open dialog, and removes
\* previousImage from it, which must be there.
PreviewFails(e) ==
  \/ ~progress
  \/ previewed[e] \notin {NoBatch, dialog}

\* SIZE_REDUCER_DONE: encodeImage().  The encoded image is loaded even when there is no
\* images[0] to put the reduced image into.
Reduced(e) ==
  /\ stage[e] = "reducing"
  /\ IF "ENCODE_START" \in listening[e] /\ PreviewFails(e)
     THEN stage' = [stage EXCEPT ![e] = "idle"] /\ UNCHANGED previewed
     ELSE /\ stage' = [stage EXCEPT ![e] = "encoding"]
          /\ previewed' = IF "ENCODE_START" \in listening[e]
                          THEN [previewed EXCEPT ![e] = dialog] ELSE previewed
  /\ UNCHANGED <<files, images, current, listening, view, collected, history>>

\* zip.file(name, data): a new entry, or another image under an old name.
ZipFile(name, f) == [n \in DOMAIN zip \union {name} |-> IF n = name THEN f ELSE zip[n]]

\* What the page does when a batch is over: no listeners to this.encoder, a dialog to
\* download the zip file or the only image, and no encode dialog.
Download(list, skipped, z, last) ==
  /\ downloads' = downloads \union
       {[batch |-> encoder, list |-> list, skipped |-> skipped,
         data |-> IF Len(list) = 1 THEN [name \in {list[1]} |-> last] ELSE z,
         intruded |-> intruded']}
  /\ dialog' = NoBatch /\ progress' = FALSE /\ okEnabled' = FALSE

\* The page's IMAGE_DONE handler for image f of encoder e, with left still to be encoded.
\* Plausible bug: the size of the image that comes in is not counted.
ExceedsLate(f) == zipSize > maxZipSize
Exceeds(f) == zipSize + Size[f] > maxZipSize

\* Plausible bug: the list of what was skipped is kept when nothing is left.
SkippedStale(left) == IF left = <<>> THEN remaining ELSE left
Skipped(left) == left

CollectImage(e, f, left) ==
  /\ zipSize' = zipSize + Size[f]
  /\ imageList' = Append(imageList, NewName[f])
  /\ IF f \notin frames
     THEN UNCHANGED <<zip, remaining, listening, view, downloads>>
     ELSE /\ zip' = ZipFile(NewName[f], f)
          /\ remaining' = Skipped(left)
          /\ IF left # <<>> THEN UNCHANGED <<listening, view, downloads>>
             ELSE /\ listening' = [listening EXCEPT ![encoder] = {}]
                  /\ Download(imageList', remaining', zip', f)
                  /\ UNCHANGED encoder

\* What the encoder's own listener to IMAGE_DONE begins.
\* Plausible bug: the last image is left out.
NextStageBut1(left) == IF Len(left) <= 1 THEN "idle" ELSE "reducing"
NextStage(left) == IF left = <<>> THEN "idle" ELSE "reducing"

\* encodedOnload() and IMAGE_DONE.  When images is empty, the handler ends before it has
\* told anybody.
Encoded(e) ==
  /\ stage[e] = "encoding"
  /\ LET f == current[e]
         left == Tail(images[e])
     IN  IF images[e] = <<>> \/ "IMAGE_DONE" \notin listening[e]
         THEN /\ stage' = [stage EXCEPT ![e] = "idle"]
              /\ images' = [images EXCEPT ![e] = IF @ = <<>> THEN @ ELSE Tail(@)]
              /\ UNCHANGED <<current, listening, view, collected, intruded, downloads>>
         ELSE /\ stage' = [stage EXCEPT ![e] = NextStage(left)]
              /\ current' = [current EXCEPT ![e] = IF left = <<>> THEN @ ELSE Head(left)]
              /\ intruded' = (intruded \/ e # encoder)
              /\ lastData' = f
              /\ UNCHANGED frames
              /\ IF Exceeds(f)
                 THEN /\ images' = [images EXCEPT ![e] = left, ![encoder] = <<>>]
                      /\ listening' = [listening EXCEPT ![encoder] = {}]
                      /\ Download(imageList, remaining, zip, f)
                      /\ UNCHANGED <<encoder, zip, zipSize, imageList, remaining>>
                 ELSE /\ images' = [images EXCEPT ![e] = left]
                      /\ CollectImage(e, f, left)
  /\ UNCHANGED <<files, previewed, selected, started, closed>>

Callback(e) == ImageLoaded(e) \/ LoadFails(e) \/ Reduced(e) \/ Encoded(e)

Next == Select \/ Close \/ Ok \/ \E e \in Batch : Callback(e)

SafeSpec == Init /\ [][Next]_vars

\* The browser calls back: files are read, images load.  Nothing is assumed of the user.
Fairness == \A e \in Batch : WF_vars(Callback(e))

Spec == SafeSpec /\ Fairness

-----------------------------------------------------------------------------

TypeOK ==
  /\ files \in [Batch -> Seq(Images)] /\ images \in [Batch -> Seq(Images)]
  /\ stage \in [Batch -> {"idle", "loading", "reducing", "encoding"}]
  /\ current \in [Batch -> Images \union {NoFile}]
  /\ listening \in [Batch -> SUBSET {"IMAGE_LOADED", "ENCODE_START", "IMAGE_DONE"}]
  /\ previewed \in [Batch -> Batch \union {NoBatch}]
  /\ encoder \in Batch \union {NoBatch} /\ dialog \in {NoBatch, encoder}
  /\ okEnabled \in BOOLEAN /\ progress \in BOOLEAN
  /\ frames \subseteq Images /\ remaining \in Seq(Images) /\ imageList \in Seq(Range(NewName))
  /\ DOMAIN zip \subseteq Range(NewName) /\ Range(zip) \subseteq Images
  /\ zipSize \in 0..maxZipSize /\ lastData \in Images \union {NoFile}
  /\ selected \in [Batch -> Seq(Images)] /\ started \subseteq Batch /\ closed \subseteq Batch
  /\ intruded \in BOOLEAN

Names(fs) == [i \in DOMAIN fs |-> NewName[fs[i]]]
Distinct(e) == IsInjective(Names(selected[e]))

\* What a download says was saved and skipped is, in this order, what was selected: no image
\* is forgotten and none is there twice, when the zip file is full as well.  Not so when the
\* first image alone is too large, then nothing is said to be skipped.
AccountsForAll ==
  \A d \in downloads :
    ~d.intruded /\ d.list # <<>> =>
      d.list \o Names(d.skipped) = Names(selected[d.batch])

\* A download holds the images it lists, each under its own name, when the names differ.
\* Not so when one image is listed and the next one was too large: then the data are the
\* next one's.
HoldsWhatIsListed ==
  \A d \in downloads :
    ~d.intruded /\ Distinct(d.batch) /\ ~(Len(d.list) = 1 /\ d.skipped # <<>>) =>
      d.data = [name \in Range(d.list) |->
                  CHOOSE f \in Range(selected[d.batch]) : NewName[f] = name]

\* A batch that was started is offered for download unless the user closes its dialog, also
\* when an earlier batch, whose dialog was closed, adds images or stops the encoding.
BatchEnds ==
  \A e \in Batch : e \in started ~> (e \in closed \/ \E d \in downloads : d.batch = e)
=============================================================================
