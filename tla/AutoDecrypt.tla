----------------------------- MODULE AutoDecrypt ------------------------------
(***************************************************************************)
(* Automatic decryption in the injected content script: the autoDecrypt     *)
(* request of closure/src/cryptagram/content.js, the wait until the site    *)
(* has built its page (media/facebook.js, media/googleplus.js), the queue   *)
(* of downloads with its progress dialog, and the life of one loader        *)
(* (loader.js) and its decoder (decoder.js).                                *)
(*                                                                          *)
(* JavaScript runs one event handler at a time, so an action is a whole     *)
(* handler: a message, a timer, a network event, a click.  The tab shows a  *)
(* page of a site that changes pages without reloading the script.          *)
(*                                                                          *)
(* A photo is a page and a number; a loader is the batch that made it (the  *)
(* n-th run of autoDecrypt that queued something) and its photo.  Bytes,    *)
(* codecs and ciphers are left out: a download arrives or fails; a decoder  *)
(* reveals the photo, finds the password wrong, or finds no codec.          *)
(***************************************************************************)
EXTENDS Integers, Sequences, FiniteSets, Functions

CONSTANTS Pages,        \* page addresses the tab shows
          Kind,         \* Kind[p]: "album", "photo" or "other"
          Size,         \* Size[p]: how many images page p has
          Known,        \* Known[p]: those with a stored password
          Sticky,       \* whether supportsAutodecrypt, once true, stays so: on
                        \* Google+ it does, on Facebook each page decides anew
          MaxLoading,   \* var maxLoading
          MaxTries,     \* maxTries of the site
          MaxRequests,  \* bound: autoDecrypt requests in a behaviour
          MaxFailures,  \* bound: downloads that fail
          NoPage        \* the initial value '' of lastAutoDecrypt

\* Below this many images autoDecrypt downloads without a queue.
QueueThreshold == 3

ASSUME AutoDecryptAssumption ==
  /\ IsFiniteSet(Pages) /\ NoPage \notin Pages
  /\ Kind \in [Pages -> {"album", "photo", "other"}]
  /\ Size \in [Pages -> Nat]
  /\ \A p \in Pages : Known[p] \subseteq 1..Size[p]
  /\ Sticky \in BOOLEAN
  /\ MaxLoading \in Nat \ {0}
  /\ MaxTries \in Nat \ {0}
  /\ MaxRequests \in Nat
  /\ MaxFailures \in Nat

PhotosOf(p) == {<<p, i>> : i \in 1..Size[p]}
Photos == UNION {PhotosOf(p) : p \in Pages}
Loaders == (1..MaxRequests) \X Photos

VARIABLES
  document,         \* the page the tab shows
  ready,            \* whether parseMedia() would find the page complete
  supportsAutodecrypt,  \* of the site
  lastAutoDecrypt,  \* this.lastAutoDecrypt
  polls, tries,     \* pending checkIfReady timers; this.tries, shared by them
  loaders,          \* this.loaders
  state,            \* loader.state
  transfer,         \* what the browser does for a loader
  progressBar,      \* this.progressBar is set, its dialog is open
  cancelable,       \* the Cancel button has not been clicked yet
  bar,              \* what the bar shows: <<done, total>>
  timers,           \* pending setTimeout(checkQueue)
  direct,           \* photos downloaded without a queue, in flight
  revealed,         \* photos whose container shows the decrypted data
  batch, requests, failures   \* counters for the bounds

pageVars == <<document, ready>>
requestVars == <<supportsAutodecrypt, lastAutoDecrypt, polls, tries, requests>>
queueVars == <<loaders, state, transfer, progressBar, bar, timers>>
batchVars == <<cancelable, direct, batch>>
vars == <<pageVars, requestVars, queueVars, batchVars, revealed, failures>>

LoaderStates == {"none", "WAITING", "LOADING", "LOADED", "CANCELED", "DONE"}
Transfers == {"none", "unsent", "sent", "failed", "decoding", "settled"}

\* What determineState() leaves to parseMedia(): only the page of a single photo
\* has to be waited for.
Readiness(p) == IF Kind[p] = "photo" THEN BOOLEAN ELSE {TRUE}

\* supportsAutodecrypt, of which was, after determineState() has looked at page p.
Supports(p, was) == Kind[p] # "other" \/ (Sticky /\ was)

Init ==
  /\ document \in Pages
  /\ supportsAutodecrypt = Supports(document, FALSE)
  /\ ready \in Readiness(document)
  /\ lastAutoDecrypt = NoPage
  /\ polls = 0 /\ tries = 0
  /\ loaders = <<>>
  /\ state = [l \in Loaders |-> "none"]
  /\ transfer = [l \in Loaders |-> "none"]
  /\ progressBar = FALSE /\ cancelable = FALSE /\ bar = <<0, 1>>
  /\ timers = 0
  /\ direct = {} /\ revealed = {}
  /\ batch = 0 /\ requests = 0 /\ failures = 0
-------------------------------------------------------------------------------
(* checkQueue(), as a function of the queue, the loader states and whether  *)
(* the progress dialog is open, because autoDecrypt() ends by calling it.   *)

Count(ls, st, s) == Cardinality({i \in DOMAIN ls : st[ls[i]] = s})

\* Plausible bug: a download in progress does not count.
TotalWithoutLoading(ls, st) == Count(ls, st, "WAITING") + Count(ls, st, "DONE")
\* Plausible bug: a canceled loader still counts as work to be done.
TotalWithCanceled(ls, st) ==
  Count(ls, st, "WAITING") + Count(ls, st, "LOADING") + Count(ls, st, "DONE")
    + Count(ls, st, "CANCELED")

\* totalCount: loaders that are LOADED or CANCELED are not in it.
Total(ls, st) ==
  Count(ls, st, "WAITING") + Count(ls, st, "LOADING") + Count(ls, st, "DONE")

\* Plausible bug: a photo that is only downloaded counts as done.
ShownWithLoaded(ls, st) ==
  <<Count(ls, st, "DONE") + Count(ls, st, "LOADED"), Total(ls, st)>>

\* What setValue(percent) makes the bar show.
Shown(ls, st) == <<Count(ls, st, "DONE"), Total(ls, st)>>

\* percent == 100
Complete(ls, st) ==
  Total(ls, st) = 0 \/ Count(ls, st, "DONE") = Total(ls, st)

\* Plausible bug: the downloads that are already running are not counted.
StartedTooMany(ls, st) ==
  {ls[i] : i \in {k \in DOMAIN ls :
     /\ st[ls[k]] = "WAITING"
     /\ Cardinality({j \in 1..(k - 1) : st[ls[j]] = "WAITING"}) < MaxLoading}}

\* The waiting loaders that the second loop starts: the first ones in the queue,
\* as many as there are free places.
Started(ls, st) ==
  {ls[i] : i \in {k \in DOMAIN ls :
     /\ st[ls[k]] = "WAITING"
     /\ Cardinality({j \in 1..(k - 1) : st[ls[j]] = "WAITING"})
          + Count(ls, st, "LOADING") < MaxLoading}}

BarAfter(open, finish) == open /\ ~finish

\* Plausible bug: the timer is set again although there is nothing to watch.
AlwaysRearm(ls) == 1
Rearm(ls) == IF ls = <<>> THEN 0 ELSE 1

\* The timer is set again even when this call has just emptied the queue.  fired
\* is 1 when a timer made the call and 0 when autoDecrypt() did.
CheckQueue(ls, st, tr, open, fired) ==
  LET finish == ls # <<>> /\ open /\ Complete(ls, st)
      start == IF finish THEN {} ELSE Started(ls, st)
  IN  /\ loaders' = IF finish THEN <<>> ELSE ls
      /\ progressBar' = BarAfter(open, finish)
      /\ bar' = IF ls # <<>> /\ open THEN Shown(ls, st) ELSE bar
      /\ state' = [l \in Loaders |-> IF l \in start THEN "LOADING" ELSE st[l]]
      /\ transfer' = [l \in Loaders |-> IF l \in start THEN "sent" ELSE tr[l]]
      /\ timers' = timers - fired + Rearm(ls)

CheckQueueTimer ==
  /\ timers > 0
  /\ CheckQueue(loaders, state, transfer, progressBar, 1)
  /\ UNCHANGED <<pageVars, requestVars, batchVars, revealed, failures>>
-------------------------------------------------------------------------------
(* autoDecrypt() works on the page the tab shows now, whatever page the     *)
(* request was for.  Images that show decrypted data are skipped.           *)

\* The loaders of one batch, one after the other: there is one such sequence.
InPageOrder(S) ==
  {q \in [1..Cardinality(S) -> S] :
     Range(q) = S /\ \A j, k \in DOMAIN q : j < k => q[j][2][2] < q[k][2][2]}

AutoDecryptNow ==
  LET images == PhotosOf(document) \ revealed
      todo == {f \in images : f[2] \in Known[document]}
      new == {<<batch + 1, f>> : f \in todo}
      needsQueue == Cardinality(images) >= QueueThreshold
  IN  \/ /\ needsQueue
         /\ loaders # <<>>                        \* 'Queue is in use.'
         /\ UNCHANGED <<queueVars, batchVars>>
      \/ /\ needsQueue
         /\ loaders = <<>>
         /\ \E queue \in InPageOrder(new) :
              CheckQueue(queue,
                         [l \in Loaders |-> IF l \in new THEN "WAITING" ELSE state[l]],
                         [l \in Loaders |-> IF l \in new THEN "unsent" ELSE transfer[l]],
                         new # {}, 0)
         /\ cancelable' = (new # {})
         /\ batch' = batch + 1
         /\ UNCHANGED direct
      \/ /\ ~needsQueue
         /\ direct' = direct \cup todo
         /\ CheckQueue(loaders, state, transfer, progressBar, 0)
         /\ UNCHANGED <<cancelable, batch>>

\* Plausible bug: maxTries is not looked at.
CheckIfReadyForever(soFar, pending) ==
  /\ IF ready THEN AutoDecryptNow ELSE UNCHANGED <<queueVars, batchVars>>
  /\ tries' = IF ready THEN soFar ELSE soFar + 1
  /\ polls' = IF ready THEN pending ELSE pending + 1

\* checkIfReady(): run autoDecrypt, or try again later, or give up silently.
\* soFar is this.tries, pending the number of timers without this one.
CheckIfReady(soFar, pending) ==
  \/ /\ ready
     /\ AutoDecryptNow
     /\ tries' = soFar
     /\ polls' = pending
  \/ /\ ~ready
     /\ tries' = soFar + 1
     /\ polls' = pending + IF soFar + 1 < MaxTries THEN 1 ELSE 0
     /\ UNCHANGED <<queueVars, batchVars>>

\* handleRequest() for an autoDecrypt message: sent by the extension whenever the
\* tab completes a load, and with force by the "Decode Photos" button.
AutoDecryptRequest(force) ==
  /\ requests < MaxRequests
  /\ requests' = requests + 1
  /\ supportsAutodecrypt' = Supports(document, supportsAutodecrypt)
  /\ \/ /\ ~supportsAutodecrypt'
        /\ UNCHANGED <<lastAutoDecrypt, polls, tries, queueVars, batchVars>>
     \/ /\ supportsAutodecrypt'
        /\ document = lastAutoDecrypt /\ ~force   \* 'Ignoring redundant ...'
        /\ UNCHANGED <<lastAutoDecrypt, polls, tries, queueVars, batchVars>>
     \/ /\ supportsAutodecrypt'
        /\ document # lastAutoDecrypt \/ force
        /\ lastAutoDecrypt' = document
        /\ CheckIfReady(0, polls)
  /\ UNCHANGED <<pageVars, revealed, failures>>

ReadyTimer ==
  /\ polls > 0
  /\ supportsAutodecrypt' = Supports(document, supportsAutodecrypt)
  /\ CheckIfReady(tries, polls - 1)
  /\ UNCHANGED <<pageVars, lastAutoDecrypt, requests, revealed, failures>>
-------------------------------------------------------------------------------
(* One loader: the network answers, the decoder runs.                       *)

loaderFrame == <<pageVars, requestVars, batchVars, loaders, progressBar, bar, timers>>

\* Status 200 or 206: the callback starts the decoder, then the state is LOADED,
\* also for a loader that was canceled meanwhile.
Downloaded(l) ==
  /\ transfer[l] = "sent"
  /\ transfer' = [transfer EXCEPT ![l] = "decoding"]
  /\ state' = [state EXCEPT ![l] = "LOADED"]
  /\ UNCHANGED <<loaderFrame, revealed, failures>>

\* Any other status is logged and nothing else happens.
DownloadFailed(l) ==
  /\ transfer[l] = "sent"
  /\ failures < MaxFailures
  /\ failures' = failures + 1
  /\ transfer' = [transfer EXCEPT ![l] = "failed"]
  /\ UNCHANGED <<loaderFrame, state, revealed>>

\* getCodec() knows no codec for the image: the callback is never called.
NoCodec(l) ==
  /\ transfer[l] = "decoding"
  /\ transfer' = [transfer EXCEPT ![l] = "settled"]
  /\ UNCHANGED <<loaderFrame, state, revealed, failures>>

\* The decoder is through: result is whether the password opened the image and
\* its element is still in the page.
Decoded(l, result) ==
  /\ transfer[l] = "decoding"
  /\ transfer' = [transfer EXCEPT ![l] = "settled"]
  /\ state' = [state EXCEPT ![l] = "DONE"]
  /\ revealed' = IF result THEN revealed \cup {l[2]} ELSE revealed
  /\ UNCHANGED <<loaderFrame, failures>>

\* A photo loaded without a queue is revealed, or its download or its decoding
\* comes to nothing.
DirectSettled(f, result) ==
  /\ f \in direct
  /\ direct' = direct \ {f}
  /\ revealed' = IF result THEN revealed \cup {f} ELSE revealed
  /\ UNCHANGED <<pageVars, requestVars, queueVars, cancelable, batch, failures>>

\* The Cancel button, which listens for one click: cancel() on every loader.  The
\* requests are not aborted.
Cancel ==
  /\ progressBar
  /\ cancelable
  /\ cancelable' = FALSE
  /\ state' = [l \in Loaders |->
                 IF l \in Range(loaders) /\ state[l] # "DONE" THEN "CANCELED" ELSE state[l]]
  /\ UNCHANGED <<pageVars, requestVars, loaders, transfer, progressBar, bar, timers,
                 direct, batch, revealed, failures>>
-------------------------------------------------------------------------------
(* The tab moves to another page of the site, and the site builds it from   *)
(* new elements, which show the encrypted photos.                           *)

Navigate(p) ==
  /\ p # document
  /\ document' = p
  /\ ready' \in Readiness(p)
  /\ revealed' = revealed \ PhotosOf(p)
  /\ UNCHANGED <<requestVars, queueVars, batchVars, failures>>

PageBuilt ==
  /\ ~ready
  /\ ready' = TRUE
  /\ UNCHANGED <<document, requestVars, queueVars, batchVars, revealed, failures>>

LoaderStep(l) ==
  \/ Downloaded(l)
  \/ DownloadFailed(l)
  \/ NoCodec(l)
  \/ \E result \in BOOLEAN : Decoded(l, result)

Next ==
  \/ \E force \in BOOLEAN : AutoDecryptRequest(force)
  \/ ReadyTimer
  \/ CheckQueueTimer
  \/ \E l \in Loaders : LoaderStep(l)
  \/ \E f \in Photos, result \in BOOLEAN : DirectSettled(f, result)
  \/ Cancel
  \/ \E p \in Pages : Navigate(p)
  \/ PageBuilt

\* The timer of checkQueue() fires, and some download or decoding, which is a chain of
\* timers, goes on while there is one; a loader has three steps at most, so none is
\* passed over for ever.  Nothing is said of the user, the site, or the wait for a page.
Fairness ==
  /\ WF_vars(CheckQueueTimer)
  /\ WF_vars(\E l \in Loaders : LoaderStep(l))

SafeSpec == Init /\ [][Next]_vars
Spec == SafeSpec /\ Fairness
-------------------------------------------------------------------------------
TypeOK ==
  /\ document \in Pages /\ ready \in BOOLEAN /\ supportsAutodecrypt \in BOOLEAN
  /\ lastAutoDecrypt \in Pages \cup {NoPage}
  /\ polls \in 0..requests /\ tries \in 0..(MaxTries + requests)
  /\ loaders \in Seq(Loaders)
  /\ state \in [Loaders -> LoaderStates]
  /\ transfer \in [Loaders -> Transfers]
  /\ progressBar \in BOOLEAN /\ cancelable \in BOOLEAN
  /\ bar \in Nat \X Nat
  /\ timers \in 0..requests
  /\ direct \subseteq Photos /\ revealed \subseteq Photos
  /\ batch \in 0..requests /\ requests \in 0..MaxRequests
  /\ failures \in 0..MaxFailures

\* Of no batch do more than maxLoading requests run at a time, those of canceled loaders
\* included, which are not aborted, although several timer chains may run checkQueue().
\* Together the batches may have more: the next one does not count the canceled ones.
DownloadsBounded ==
  \A b \in 1..MaxRequests :
    Cardinality({l \in Loaders : l[1] = b /\ transfer[l] = "sent"}) <= MaxLoading

\* The queue is emptied only when nothing in it waits or downloads.
NothingForgotten ==
  [][loaders # <<>> /\ loaders' = <<>>
       => \A i \in DOMAIN loaders : state[loaders[i]] \notin {"WAITING", "LOADING"}]_vars

\* While one batch lasts the bar never goes back, although finished downloads
\* leave the total and cancellation shrinks it.
BarNeverGoesBack ==
  [][progressBar /\ progressBar' /\ batch' = batch
       => bar[1] * bar'[2] <= bar'[1] * bar[2]]_vars

\* The queue becomes free again: until then every request of an album page is turned away.
\* Only a loader in it whose download has failed can hold it up, and only as long as it is
\* LOADING, that is until Cancel is clicked.
QueueFreed ==
  (loaders # <<>>) ~>
    \/ loaders = <<>>
    \/ \E i \in DOMAIN loaders :
         transfer[loaders[i]] = "failed" /\ state[loaders[i]] = "LOADING"

\* Once the queue is empty the polling stops.
PollingStops == (loaders = <<>>) ~> (timers = 0 \/ loaders # <<>>)
===============================================================================
