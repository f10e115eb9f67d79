-------------------------------- MODULE Reveal --------------------------------
(***************************************************************************)
(* Decrypting one image on request, in closure/src/cryptagram: the context  *)
(* menu's decryptURL message, the password dialog, the decryption, the      *)
(* answer that makes the extension keep the password, and reverting         *)
(* (content.js, extension.js, storage.js, media/media.js, container/).      *)
(*                                                                          *)
(* The content script keeps ONE callback, ONE copy of the extension's       *)
(* storage and ONE pair of override flags.  Every message replaces the      *)
(* first two and every dialog the flags; a decryption reads all of them     *)
(* when it ends, which may be much later.  So does it ask the page for the  *)
(* album's name, by then perhaps another page: these sites move between     *)
(* their pages without loading them, and without a word to the script.  The *)
(* wait for the site and the download queue are in module AutoDecrypt; here *)
(* a message is handled in one step, and a decryption is an entry of        *)
(* decodes that ends one way or the other.                                  *)
(***************************************************************************)
EXTENDS Integers, Sequences, FiniteSets

CONSTANTS Pages,
          Photos,
          OnPage,       \* OnPage[p]: the images of page p
          Albums,
          AlbumOf,      \* AlbumOf[p]: what getAlbumName makes of page p
          Throws,       \* an exception, as for Facebook pages without a link to an album
          Passwords,
          Key,          \* Key[f]: the password that opens f
          None,         \* null
          MaxRequests,  \* bound: messages in a behaviour
          Overlaps      \* the values of overlap to consider

ASSUME RevealAssumption ==
  /\ IsFiniteSet(Photos) /\ IsFiniteSet(Albums)
  /\ None \notin Photos \cup Albums \cup Passwords
  /\ None \notin BOOLEAN /\ None \notin {"enc", "dec", "gone"}
  /\ Throws \notin Albums \cup {None}
  /\ Photos \cap Albums = {}    \* ids begin with fb_photo:// or fb_album://, and so on
  /\ Pages # {} /\ OnPage \in [Pages -> SUBSET Photos]
  /\ AlbumOf \in [Pages -> Albums \cup {None, Throws}]
  /\ Key \in [Photos -> Passwords]
  /\ MaxRequests \in Nat
  /\ Overlaps \subseteq BOOLEAN

Names == Photos \cup Albums
Settings == [save : BOOLEAN, album : BOOLEAN, auto : BOOLEAN]
Storages == [passwords : [Names -> Passwords \cup {None}], settings : Settings]
NoRequest == 0    \* a message whose sender passed null as its callback

VARIABLES
  localStorage,           \* the extension's
  lookup,                 \* storage.lookup: the copy that came with a message
  callback,               \* this.callback: the request it answers
  answered,               \* requests that have had their one answer
  overrideSavePassword,   \* TRUE, FALSE or None
  overrideAlbumPassword,
  dialog,                 \* the password dialog, or None
  decodes,                \* decryptions under way
  responses,              \* answers on their way to the extension
  page,                   \* what the tab shows
  shows,                  \* shows[f]: the src of f, "enc" or "dec"
  previousSrc,            \* of the container registered for f's decrypted data;
                          \* "gone" when its image is no longer in the page
  requests,               \* messages so far
  overlap,                \* whether, in this behaviour, messages and other pages come
                          \* while a dialog is open or a decryption is under way
  left                    \* history, for the properties: a page was left while an
                          \* image of it was being decrypted

messageVars == <<lookup, callback, requests>>
overrides == <<overrideSavePassword, overrideAlbumPassword>>
pageVars == <<page, shows, previousSrc, overlap, left>>
vars == <<localStorage, messageVars, answered, overrides, dialog, decodes, responses, pageVars>>

Init ==
  /\ localStorage \in {[passwords |-> [n \in Names |-> None], settings |-> s] : s \in Settings}
  /\ lookup = localStorage
  /\ callback = NoRequest
  /\ answered = {}
  /\ overrideSavePassword = None /\ overrideAlbumPassword = None
  /\ dialog = None
  /\ decodes = {}
  /\ responses = <<>>
  /\ page \in Pages
  /\ shows = [f \in Photos |-> "enc"]
  /\ previousSrc = [f \in Photos |-> None]
  /\ requests = 0
  /\ overlap \in Overlaps
  /\ left = FALSE
-------------------------------------------------------------------------------
\* storage.getPasswordForURL, where getAlbumName returns: the photo's password before
\* the one of the page's album.
PasswordFor(store, f) ==
  IF store.passwords[f] # None THEN store.passwords[f]
  ELSE IF AlbumOf[page] \in Albums THEN store.passwords[AlbumOf[page]] ELSE None

\* A modal dialog keeps the page's images out of reach of the mouse.
Quiet == dialog = None /\ (overlap \/ decodes = {})

\* The start of handleRequest().  listens says whether the sender waits for an
\* answer.
Message(listens) ==
  /\ requests < MaxRequests
  /\ requests' = requests + 1
  /\ callback' = IF listens THEN requests + 1 ELSE NoRequest
  /\ lookup' = localStorage

\* decryptByURL()/decryptImage() for an image of the page.  attached says whether it is
\* still there; save, album and from, the page, record for the properties what the
\* user asked for, and where.
Decode(f, password, save, album, auto, req) ==
  [photo |-> f, password |-> password, save |-> save, album |-> album,
   auto |-> auto, req |-> req, from |-> page, attached |-> TRUE]

\* "Decrypt Image" on an encrypted image: getPassword().  A stored password is used
\* at once when auto_decrypt is on, and is then not stored again.
ClickDecrypt(f) ==
  /\ Quiet
  /\ f \in OnPage[page] /\ shows[f] = "enc"
  /\ AlbumOf[page] # Throws
  /\ Message(TRUE)
  /\ LET password == PasswordFor(localStorage, f)
         settings == localStorage.settings
     IN  \/ /\ password # None /\ settings.auto
            /\ overrideSavePassword' = FALSE /\ overrideAlbumPassword' = FALSE
            /\ decodes' = decodes \cup {Decode(f, password, FALSE, FALSE, FALSE, requests + 1)}
            /\ UNCHANGED dialog
         \/ /\ password = None \/ ~settings.auto
            /\ overrideSavePassword' = None /\ overrideAlbumPassword' = None
            /\ dialog' = [photo |-> f, save |-> settings.save, album |-> settings.album,
                          req |-> requests + 1]
            /\ UNCHANGED decodes
  /\ UNCHANGED <<localStorage, answered, responses, pageVars>>

\* The same where the album's name cannot be had, or where the site never gets ready.
ClickInVain(f) ==
  /\ Quiet
  /\ f \in OnPage[page] /\ shows[f] = "enc"
  /\ Message(TRUE)
  /\ UNCHANGED <<localStorage, answered, overrides, dialog, decodes, responses, pageVars>>

\* "Decrypt Image" on an image that is already decrypted.
ClickRevert(f) ==
  /\ Quiet
  /\ f \in OnPage[page] /\ shows[f] = "dec"
  /\ Message(TRUE)
  /\ shows' = [shows EXCEPT ![f] = IF previousSrc[f] \in {"enc", "dec"} THEN previousSrc[f] ELSE @]
  /\ previousSrc' = [previousSrc EXCEPT ![f] = None]
  /\ UNCHANGED <<localStorage, answered, overrides, dialog, decodes, responses, page, overlap, left>>

\* The autoDecrypt message, for whose answer no one waits: every image with a password,
\* or none, where the message is ignored or the album's name cannot be had.
AutoDecryptMessage ==
  /\ overlap \/ Quiet
  /\ Message(FALSE)
  /\ \/ /\ AlbumOf[page] # Throws
        /\ decodes' = decodes \cup
             {Decode(f, PasswordFor(localStorage, f), FALSE, FALSE, TRUE, requests + 1) :
                f \in {g \in OnPage[page] :
                         shows[g] = "enc" /\ PasswordFor(localStorage, g) # None}}
     \/ UNCHANGED decodes
  /\ UNCHANGED <<localStorage, answered, overrides, dialog, responses, pageVars>>
-------------------------------------------------------------------------------
(* The password dialog.                                                     *)

ToggleSave ==
  /\ dialog # None
  /\ dialog' = [dialog EXCEPT !.save = ~@]
  /\ overrideSavePassword' = ~dialog.save
  /\ UNCHANGED <<localStorage, messageVars, answered, overrideAlbumPassword, decodes,
                 responses, pageVars>>

\* The album box is disabled while the save box is not ticked.
ToggleAlbum ==
  /\ dialog # None
  /\ dialog.save
  /\ dialog' = [dialog EXCEPT !.album = ~@]
  /\ overrideAlbumPassword' = ~dialog.album
  /\ UNCHANGED <<localStorage, messageVars, answered, overrideSavePassword, decodes,
                 responses, pageVars>>

\* OK with a password.  If the image was revealed or left meanwhile the script finds no
\* image for the URL and an exception leaves the dialog open.
DialogOK(password) ==
  /\ dialog # None
  /\ dialog.photo \in OnPage[page] /\ shows[dialog.photo] = "enc"
  /\ decodes' = decodes \cup
       {Decode(dialog.photo, password, dialog.save, dialog.album, FALSE, dialog.req)}
  /\ dialog' = None
  /\ UNCHANGED <<localStorage, messageVars, answered, overrides, responses, pageVars>>

\* Cancel, or OK without a password.
DialogCancel ==
  /\ dialog # None
  /\ dialog' = None
  /\ UNCHANGED <<localStorage, messageVars, answered, overrides, decodes, responses, pageVars>>
-------------------------------------------------------------------------------
(* A decryption ends.                                                       *)

albumPassword ==
  IF overrideAlbumPassword # None THEN overrideAlbumPassword ELSE lookup.settings.album

\* Plausible bug: the password that was looked up is stored, not the one typed in.
ResponseFromLookup(d, album) ==
  [id |-> d.photo, album |-> IF albumPassword THEN album ELSE None,
   password |-> IF PasswordFor(lookup, d.photo) # None THEN PasswordFor(lookup, d.photo)
                ELSE d.password]

\* Plausible bug: the setting is used and the dialog's box is not looked at.
SaveBySetting == lookup.settings.save

savePassword ==
  IF overrideSavePassword # None THEN overrideSavePassword ELSE lookup.settings.save

\* getAlbumName() now.  The page decides, and where its link is looked for is decided by
\* media.state, which another message or another page leaves wrong.
AlbumNames(d) ==
  {AlbumOf[page]} \cup (IF d.attached /\ d.req = requests THEN {} ELSE {Throws})

Response(d, album) ==
  [id |-> d.photo, album |-> IF albumPassword THEN album ELSE None, password |-> d.password]

\* Plausible bug: the same request is answered again.
CallBackAgain(d) ==
  \/ /\ ~d.auto /\ savePassword /\ callback # NoRequest
     /\ \E album \in AlbumNames(d) \ {Throws} : responses' = Append(responses, Response(d, album))
     /\ answered' = answered \cup {callback}
  \/ /\ \/ d.auto \/ ~savePassword \/ callback = NoRequest
        \/ Throws \in AlbumNames(d)
     /\ UNCHANGED <<responses, answered>>

\* self.callback(obj), whoever the callback belongs to by now.  A request has one
\* answer: a second one goes nowhere, and so does one for which there is no album's name.
CallBack(d) ==
  \/ /\ ~d.auto /\ savePassword /\ callback # NoRequest /\ callback \notin answered
     /\ \E album \in AlbumNames(d) \ {Throws} : responses' = Append(responses, Response(d, album))
     /\ answered' = answered \cup {callback}
  \/ /\ \/ d.auto \/ ~savePassword \/ callback = NoRequest \/ callback \in answered
        \/ Throws \in AlbumNames(d)
     /\ UNCHANGED <<responses, answered>>

\* Plausible bug: the image is changed before its src is remembered.
SetSrcFirst(d) ==
  /\ d.password = Key[d.photo]
  /\ decodes' = decodes \ {d}
  /\ shows' = [shows EXCEPT ![d.photo] = IF d.attached THEN "dec" ELSE @]
  /\ previousSrc' = [previousSrc EXCEPT ![d.photo] = IF d.attached THEN "dec" ELSE "gone"]
  /\ CallBack(d)
  /\ UNCHANGED <<localStorage, messageVars, overrides, dialog, page, overlap, left>>

\* setContainerSrc(): the container of this decryption remembers what its image
\* showed and becomes the one registered for the data.
DecodeSucceeds(d) ==
  /\ d.password = Key[d.photo]
  /\ decodes' = decodes \ {d}
  /\ previousSrc' = [previousSrc EXCEPT ![d.photo] = IF d.attached THEN shows[d.photo] ELSE "gone"]
  /\ shows' = [shows EXCEPT ![d.photo] = IF d.attached THEN "dec" ELSE @]
  /\ CallBack(d)
  /\ UNCHANGED <<localStorage, messageVars, overrides, dialog, page, overlap, left>>

\* A wrong password, a failed download, an image without a codec.
DecodeFails(d) ==
  /\ decodes' = decodes \ {d}
  /\ UNCHANGED <<localStorage, messageVars, answered, overrides, dialog, responses, pageVars>>

\* The extension's side of the answer.
ExtensionStores ==
  /\ responses # <<>>
  /\ responses' = Tail(responses)
  /\ LET r == Head(responses)
     IN  localStorage' = [localStorage EXCEPT !.passwords =
           [n \in Names |-> IF n \in {r.id, r.album} THEN r.password ELSE @[n]]]
  /\ UNCHANGED <<messageVars, answered, overrides, dialog, decodes, pageVars>>

\* A check box of the extension's popup.
ChangeSetting(s) ==
  /\ localStorage' = [localStorage EXCEPT !.settings = [@ EXCEPT ![s] = ~@]]
  /\ UNCHANGED <<messageVars, answered, overrides, dialog, decodes, responses, pageVars>>

\* A page is loaded, and the script with it.
Reload ==
  /\ lookup' = localStorage /\ callback' = NoRequest
  /\ overrideSavePassword' = None /\ overrideAlbumPassword' = None
  /\ dialog' = None /\ decodes' = {}
  /\ page' \in Pages
  /\ shows' = [f \in Photos |-> "enc"]
  /\ previousSrc' = [f \in Photos |-> None]
  /\ UNCHANGED <<localStorage, requests, answered, responses, overlap, left>>

\* The site puts up another page without loading it: document.URL and the images change
\* under the script, which is not told.
Navigate(p) ==
  /\ p # page
  /\ overlap \/ Quiet
  /\ page' = p
  /\ shows' = [f \in Photos |-> "enc"]
  /\ previousSrc' = [f \in Photos |-> IF previousSrc[f] = None THEN None ELSE "gone"]
  /\ decodes' = {[d EXCEPT !.attached = FALSE] : d \in decodes}
  /\ left' = (left \/ decodes # {})
  /\ UNCHANGED <<localStorage, messageVars, answered, overrides, dialog, responses, overlap>>

Next ==
  \/ \E f \in Photos : ClickDecrypt(f) \/ ClickInVain(f) \/ ClickRevert(f)
  \/ AutoDecryptMessage
  \/ ToggleSave \/ ToggleAlbum \/ DialogCancel
  \/ \E password \in Passwords : DialogOK(password)
  \/ \E d \in decodes : DecodeSucceeds(d) \/ DecodeFails(d)
  \/ ExtensionStores
  \/ \E s \in {"save", "album", "auto"} : ChangeSetting(s)
  \/ Reload
  \/ \E p \in Pages : Navigate(p)

Spec == Init /\ [][Next]_vars
-------------------------------------------------------------------------------
Decodes ==
  [photo : Photos, password : Passwords, save : BOOLEAN, album : BOOLEAN,
   auto : BOOLEAN, req : 1..MaxRequests, from : Pages, attached : BOOLEAN]
Dialogs == [photo : Photos, save : BOOLEAN, album : BOOLEAN, req : 1..MaxRequests]
Responses == [id : Photos, album : Albums \cup {None}, password : Passwords]

\* Every variable keeps its type; an answer belongs to a request, and no request
\* has more than one.
TypeOK ==
  /\ localStorage \in Storages /\ lookup \in Storages
  /\ requests \in 0..MaxRequests /\ callback \in 0..requests
  /\ answered \subseteq 1..requests /\ Len(responses) <= Cardinality(answered)
  /\ overrideSavePassword \in BOOLEAN \cup {None}
  /\ overrideAlbumPassword \in BOOLEAN \cup {None}
  /\ dialog \in Dialogs \cup {None}
  /\ decodes \subseteq Decodes
  /\ responses \in Seq(Responses)
  /\ page \in Pages /\ left \in BOOLEAN
  /\ shows \in [Photos -> {"enc", "dec"}]
  /\ previousSrc \in [Photos -> {"enc", "dec", "gone", None}]

\* Whatever the extension stores for a photo opens it, although decryptByURL() answers
\* from a callback that may belong to another image by then.  What it stores for an album
\* opens some photo on a page of that album, in every behaviour in which no page is left
\* while an image of it is being decrypted: the album is the one of the page that is
\* there when the decryption ends.
StoredPasswordsFit ==
  /\ \A f \in Photos : localStorage.passwords[f] \in {None, Key[f]}
  /\ ~left => \A a \in Albums : localStorage.passwords[a] # None
                => \E p \in Pages, f \in Photos :
                     /\ f \in OnPage[p] /\ AlbumOf[p] = a
                     /\ Key[f] = localStorage.passwords[a]

\* As long as no message and no other page comes between a click and the end of its
\* decryption, the boxes of the dialog decide: a password that opened the image is handed
\* to the extension that waits for it exactly when "Save Password" was ticked, and under
\* the album of the page that was clicked on exactly when the album's own box was ticked
\* too.
BoxesObeyed ==
  [][~overlap => \A d \in decodes :
       DecodeSucceeds(d) =>
         /\ responses' # responses <=> d.save
         /\ d.save => responses'[Len(responses')].album =
                        IF d.album THEN AlbumOf[d.from] ELSE None]_vars

\* Reverting a decrypted image shows the encrypted one again, under the same
\* condition.
RevertRestores ==
  [][~overlap => \A f \in Photos : ClickRevert(f) => shows'[f] = "enc"]_vars

\* Whatever else goes on in the tab, the boxes of an image's dialog decide whether
\* its password is stored.
BoxesDecide ==
  [][\A d \in decodes :
       DecodeSucceeds(d) /\ ~d.auto => (responses' # responses <=> d.save)]_vars
===============================================================================
