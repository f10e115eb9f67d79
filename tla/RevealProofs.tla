----------------------------- MODULE RevealProofs -----------------------------
(***************************************************************************)
(* Theorems about Reveal for every set of pages, photos and albums, every   *)
(* keeping of passwords and any number of messages.  What the extension     *)
(* stores for a photo fits in every behaviour, and what it stores for an    *)
(* album as long as no page is left during a decryption (~left).  That the  *)
(* boxes decide, and that reverting restores, needs the page to be left     *)
(* alone between a click and the end of its decryption (~overlap): then the *)
(* fields that all decryptions share, and the page, are still as the one    *)
(* dialog, or the one decryption, found them.                               *)
(***************************************************************************)
EXTENDS Reveal, FiniteSetTheorems, TLAPS

\* What is stored for photos, and what is on its way to be stored.
PhotosFit ==
  /\ \A f \in Photos : localStorage.passwords[f] \in {None, Key[f]}
  /\ \A i \in DOMAIN responses : responses[i].password = Key[responses[i].id]

\* r's photo is on a page of the album r names.
AlbumFits(r) ==
  r.album # None => \E p \in Pages : AlbumOf[p] = r.album /\ r.id \in OnPage[p]

\* The same for albums; decryptions are of images of the page that is there.
AlbumsFit ==
  /\ \A a \in Albums : localStorage.passwords[a] # None
       => \E p \in Pages, f \in Photos :
            /\ f \in OnPage[p] /\ AlbumOf[p] = a
            /\ Key[f] = localStorage.passwords[a]
  /\ \A i \in DOMAIN responses : AlbumFits(responses[i])
  /\ \A d \in decodes : d.photo \in OnPage[page]

Fit == PhotosFit /\ (~left => AlbumsFit)

\* The message whose callback is kept still waits for its answer.
Pending == callback # NoRequest /\ callback \notin answered

\* The shared fields say what the boxes of x, a dialog or a decryption, say; x comes
\* from the last message, and the page's album has a name or there is none.
Agrees(x) ==
  /\ Pending /\ (savePassword <=> x.save) /\ (albumPassword <=> x.album)
  /\ x.req = requests /\ AlbumOf[page] # Throws

\* Without overlap the dialog is alone, and so is a decryption that a click began, on the
\* page of the click.
Boxes ==
  /\ dialog # None => decodes = {} /\ Agrees(dialog)
  /\ \A d \in decodes : ~d.auto => decodes = {d} /\ Agrees(d) /\ d.from = page
  /\ \A d \in decodes : d.auto => ~d.save

\* Without overlap no photo is decrypted twice at a time, or when it is revealed, or
\* after its page was left.
Shown ==
  /\ \A f \in Photos : shows[f] = "dec" => previousSrc[f] = "enc"
  /\ \A d \in decodes : shows[d.photo] = "enc" /\ d.attached
  /\ \A d, e \in decodes : d.photo = e.photo => d = e

Inv == TypeOK /\ Fit /\ (~overlap => Boxes /\ Shown)

(***************************************************************************)
(* Types                                                                   *)
(***************************************************************************)

LEMMA PasswordForType ==
  ASSUME TypeOK, NEW store \in Storages, NEW f \in Photos
  PROVE  PasswordFor(store, f) \in Passwords \cup {None}
BY RevealAssumption DEF PasswordFor, Storages, Names, TypeOK

LEMMA TypeInit == Init => TypeOK
<1> SUFFICES ASSUME Init
             PROVE  TypeOK
  OBVIOUS
<1>1. localStorage \in Storages
  BY DEF Init, Storages
<1>2. requests \in 0..MaxRequests /\ callback \in 0..requests
  BY RevealAssumption DEF Init, NoRequest
<1>3. answered \subseteq 1..requests /\ Len(responses) <= Cardinality(answered)
  BY FS_EmptySet DEF Init
<1>4. /\ shows \in [Photos -> {"enc", "dec"}]
      /\ previousSrc \in [Photos -> {"enc", "dec", "gone", None}]
  BY DEF Init
<1>5. decodes \subseteq Decodes /\ dialog \in Dialogs \cup {None} /\ responses \in Seq(Responses)
  BY DEF Init
<1>6. page \in Pages /\ left \in BOOLEAN /\ lookup = localStorage
      /\ overrideSavePassword = None /\ overrideAlbumPassword = None
  BY DEF Init
<1> QED
  BY <1>1, <1>2, <1>3, <1>4, <1>5, <1>6 DEF TypeOK

\* The next message.
LEMMA MessageType ==
  ASSUME TypeOK, NEW listens \in BOOLEAN, Message(listens), UNCHANGED <<answered, responses>>
  PROVE  /\ lookup' \in Storages
         /\ requests' \in 0..MaxRequests /\ callback' \in 0..requests'
         /\ answered' \subseteq 1..requests' /\ Len(responses') <= Cardinality(answered')
         /\ requests + 1 \in 1..MaxRequests
BY RevealAssumption DEF TypeOK, Message, NoRequest

LEMMA AnsweredFinite == TypeOK => IsFiniteSet(answered) /\ Cardinality(answered) \in Nat
<1> SUFFICES ASSUME TypeOK
             PROVE  IsFiniteSet(answered)
  BY FS_CardinalityType
<1>1. requests \in Int /\ answered \subseteq 1..requests
  BY RevealAssumption DEF TypeOK
<1>2. IsFiniteSet(1..requests)
  BY <1>1, FS_Interval
<1> QED
  BY <1>1, <1>2, FS_Subset

\* A decryption's answer.
LEMMA CallBackType ==
  ASSUME TypeOK, NEW d \in decodes, CallBack(d), requests' = requests
  PROVE  /\ answered' \subseteq 1..requests'
         /\ responses' \in Seq(Responses)
         /\ Len(responses') <= Cardinality(answered')
<1>1. CASE UNCHANGED <<responses, answered>>
  BY <1>1 DEF TypeOK
<1>2. ASSUME NEW album \in AlbumNames(d) \ {Throws},
             callback # NoRequest, callback \notin answered,
             responses' = Append(responses, Response(d, album)),
             answered' = answered \cup {callback}
      PROVE  /\ answered' \subseteq 1..requests'
             /\ responses' \in Seq(Responses)
             /\ Len(responses') <= Cardinality(answered')
  <2>0. album \in Albums \cup {None}
    BY RevealAssumption DEF AlbumNames, TypeOK
  <2>1. Response(d, album) \in Responses
    BY <2>0 DEF TypeOK, Decodes, Response, Responses
  <2>2. callback \in 1..requests
    BY <1>2, RevealAssumption DEF TypeOK, NoRequest
  <2>3. Cardinality(answered') = Cardinality(answered) + 1 /\ Cardinality(answered) \in Nat
    BY <1>2, TypeOK, AnsweredFinite, FS_AddElement
  <2>4. responses' \in Seq(Responses) /\ Len(responses') = Len(responses) + 1
    BY <1>2, <2>1 DEF TypeOK
  <2>5. answered' \subseteq 1..requests'
    BY <1>2, <2>2 DEF TypeOK
  <2>6. Len(responses) \in Nat /\ Len(responses) <= Cardinality(answered)
    BY DEF TypeOK
  <2> QED
    BY <2>3, <2>4, <2>5, <2>6
<1> QED
  BY <1>1, <1>2 DEF CallBack

LEMMA TypeStep == TypeOK /\ [Next]_vars => TypeOK'
<1> SUFFICES ASSUME TypeOK, [Next]_vars
             PROVE  TypeOK'
  OBVIOUS
<1>1. ASSUME NEW f \in Photos, ClickDecrypt(f)
      PROVE  TypeOK'
  <2>1. /\ lookup' \in Storages
        /\ requests' \in 0..MaxRequests /\ callback' \in 0..requests'
        /\ answered' \subseteq 1..requests' /\ Len(responses') <= Cardinality(answered')
        /\ requests + 1 \in 1..MaxRequests
    BY <1>1, MessageType DEF ClickDecrypt
  <2>2. PasswordFor(localStorage, f) \in Passwords \cup {None}
    BY PasswordForType DEF TypeOK
  <2>3. localStorage.settings \in Settings
    BY DEF TypeOK, Storages
  <2> DEFINE password == PasswordFor(localStorage, f)
             settings == localStorage.settings
  <2>4. CASE password # None /\ settings.auto
    <3>1. Decode(f, password, FALSE, FALSE, FALSE, requests + 1) \in Decodes
      BY <2>1, <2>2, <2>4 DEF Decode, Decodes, TypeOK
    <3>2. /\ decodes' = decodes \cup {Decode(f, password, FALSE, FALSE, FALSE, requests + 1)}
          /\ overrideSavePassword' = FALSE /\ overrideAlbumPassword' = FALSE
          /\ UNCHANGED dialog
      BY <1>1, <2>4 DEF ClickDecrypt
    <3> QED
      BY <1>1, <2>1, <3>1, <3>2 DEF ClickDecrypt, TypeOK, pageVars
  <2>5. CASE password = None \/ ~settings.auto
    <3>1. [photo |-> f, save |-> settings.save, album |-> settings.album,
           req |-> requests + 1] \in Dialogs
      BY <2>1, <2>3 DEF Dialogs, Settings
    <3>2. /\ dialog' = [photo |-> f, save |-> settings.save, album |-> settings.album,
                        req |-> requests + 1]
          /\ overrideSavePassword' = None /\ overrideAlbumPassword' = None
          /\ UNCHANGED decodes
      BY <1>1, <2>5 DEF ClickDecrypt
    <3> QED
      BY <1>1, <2>1, <3>1, <3>2 DEF ClickDecrypt, TypeOK, pageVars
  <2> QED
    BY <2>4, <2>5
<1>2. ASSUME NEW f \in Photos, ClickInVain(f)
      PROVE  TypeOK'
  <2>1. /\ lookup' \in Storages
        /\ requests' \in 0..MaxRequests /\ callback' \in 0..requests'
        /\ answered' \subseteq 1..requests' /\ Len(responses') <= Cardinality(answered')
    BY <1>2, MessageType DEF ClickInVain
  <2> QED
    BY <1>2, <2>1 DEF ClickInVain, TypeOK, overrides, pageVars
<1>3. ASSUME NEW f \in Photos, ClickRevert(f)
      PROVE  TypeOK'
  <2>1. /\ lookup' \in Storages
        /\ requests' \in 0..MaxRequests /\ callback' \in 0..requests'
        /\ answered' \subseteq 1..requests' /\ Len(responses') <= Cardinality(answered')
    BY <1>3, MessageType DEF ClickRevert
  <2>2. shows' \in [Photos -> {"enc", "dec"}] /\ previousSrc' \in [Photos -> {"enc", "dec", "gone", None}]
    BY <1>3 DEF ClickRevert, TypeOK
  <2> QED
    BY <1>3, <2>1, <2>2 DEF ClickRevert, TypeOK, overrides
<1>4. CASE AutoDecryptMessage
  <2>1. /\ lookup' \in Storages
        /\ requests' \in 0..MaxRequests /\ callback' \in 0..requests'
        /\ answered' \subseteq 1..requests' /\ Len(responses') <= Cardinality(answered')
        /\ requests + 1 \in 1..MaxRequests
    BY <1>4, MessageType DEF AutoDecryptMessage
  <2>2. \A f \in Photos : PasswordFor(localStorage, f) \in Passwords \cup {None}
    BY PasswordForType DEF TypeOK
  <2>3. decodes' \subseteq Decodes
    <3>1. OnPage[page] \subseteq Photos /\ page \in Pages
      BY RevealAssumption DEF TypeOK
    <3>2. \A f \in {g \in OnPage[page] :
                    shows[g] = "enc" /\ PasswordFor(localStorage, g) # None} :
             Decode(f, PasswordFor(localStorage, f), FALSE, FALSE, TRUE, requests + 1) \in Decodes
      BY <2>1, <2>2, <3>1 DEF Decodes, Decode
    <3>3. decodes \subseteq Decodes
      BY DEF TypeOK
    <3>4. \A d \in decodes' : \/ d \in decodes
            \/ \E f \in {g \in OnPage[page] :
                         shows[g] = "enc" /\ PasswordFor(localStorage, g) # None} :
                 d = Decode(f, PasswordFor(localStorage, f), FALSE, FALSE, TRUE, requests + 1)
      BY <1>4 DEF AutoDecryptMessage
    <3> QED
      BY <3>2, <3>3, <3>4
  <2> QED
    BY <1>4, <2>1, <2>3 DEF AutoDecryptMessage, TypeOK, overrides, pageVars
<1>5. CASE ToggleSave \/ ToggleAlbum \/ DialogCancel
  BY <1>5 DEF ToggleSave, ToggleAlbum, DialogCancel, TypeOK, Dialogs, messageVars, overrides, pageVars
<1>6. ASSUME NEW password \in Passwords, DialogOK(password)
      PROVE  TypeOK'
  <2>1. Decode(dialog.photo, password, dialog.save, dialog.album, FALSE, dialog.req) \in Decodes
    BY <1>6 DEF DialogOK, TypeOK, Dialogs, Decodes, Decode
  <2> QED
    BY <1>6, <2>1 DEF DialogOK, TypeOK, messageVars, overrides, pageVars
<1>7. ASSUME NEW d \in decodes, DecodeSucceeds(d)
      PROVE  TypeOK'
  <2>1. /\ answered' \subseteq 1..requests'
        /\ responses' \in Seq(Responses)
        /\ Len(responses') <= Cardinality(answered')
    BY <1>7, CallBackType DEF DecodeSucceeds, messageVars
  <2>2. shows' \in [Photos -> {"enc", "dec"}] /\ previousSrc' \in [Photos -> {"enc", "dec", "gone", None}]
    BY <1>7 DEF DecodeSucceeds, TypeOK
  <2> QED
    BY <1>7, <2>1, <2>2 DEF DecodeSucceeds, TypeOK, messageVars, overrides
<1>8. ASSUME NEW d \in decodes, DecodeFails(d)
      PROVE  TypeOK'
  BY <1>8 DEF DecodeFails, TypeOK, messageVars, overrides, pageVars
<1>9. CASE ExtensionStores
  <2>1. responses' \in Seq(Responses) /\ Len(responses') = Len(responses) - 1
    BY <1>9 DEF ExtensionStores, TypeOK
  <2>2. responses[1] \in Responses
    BY <1>9 DEF ExtensionStores, TypeOK
  <2>3. localStorage' \in Storages
    BY <1>9, <2>2 DEF ExtensionStores, TypeOK, Storages, Responses
  <2>4. Len(responses) \in Nat /\ Len(responses) <= Cardinality(answered)
    BY DEF TypeOK
  <2>5. Len(responses') <= Cardinality(answered)
    BY <2>1, <2>4, AnsweredFinite
  <2> QED
    BY <1>9, <2>1, <2>3, <2>5 DEF ExtensionStores, TypeOK, messageVars, overrides, pageVars
<1>10. ASSUME NEW s \in {"save", "album", "auto"}, ChangeSetting(s)
      PROVE  TypeOK'
  <2>1. localStorage' \in Storages
    BY <1>10 DEF ChangeSetting, TypeOK, Storages, Settings
  <2> QED
    BY <1>10, <2>1 DEF ChangeSetting, TypeOK, messageVars, overrides, pageVars
<1>11. CASE Reload
  BY <1>11, RevealAssumption DEF Reload, TypeOK, NoRequest
<1>12. ASSUME NEW p \in Pages, Navigate(p)
       PROVE  TypeOK'
  <2>1. decodes' \subseteq Decodes
    <3>1. \A d \in decodes : [d EXCEPT !.attached = FALSE] \in Decodes
      BY DEF TypeOK, Decodes
    <3> QED
      BY <1>12, <3>1 DEF Navigate
  <2>2. /\ shows' \in [Photos -> {"enc", "dec"}] /\ page' \in Pages /\ left' \in BOOLEAN
        /\ previousSrc' \in [Photos -> {"enc", "dec", "gone", None}]
    BY <1>12 DEF Navigate, TypeOK
  <2> QED
    BY <1>12, <2>1, <2>2 DEF Navigate, TypeOK, messageVars, overrides
<1>13. CASE UNCHANGED vars
  BY <1>13 DEF vars, TypeOK, messageVars, overrides, pageVars
<1> QED
  BY <1>1, <1>2, <1>3, <1>4, <1>5, <1>6, <1>7, <1>8, <1>9, <1>10, <1>11, <1>12, <1>13 DEF Next

\* TypeOK is an invariant: a request is answered once at most, whatever is under way.
THEOREM TypeCorrect == Spec => []TypeOK
BY TypeInit, TypeStep, PTL DEF Spec

(***************************************************************************)
(* What is stored                                                          *)
(***************************************************************************)

LEMMA FitInit == Init => Fit
BY RevealAssumption DEF Init, Fit, PhotosFit, AlbumsFit, Names

\* What an answer brings with it: a password that has just opened its photo, and the
\* album of the page that is there.
LEMMA AnswerFits ==
  ASSUME TypeOK, NEW d \in decodes, DecodeSucceeds(d)
  PROVE  \/ UNCHANGED responses
         \/ \E r \in Responses :
              /\ \A i \in DOMAIN responses' :
                   (i \in DOMAIN responses /\ responses'[i] = responses[i]) \/ responses'[i] = r
              /\ r.password = Key[r.id] /\ r.id = d.photo
              /\ r.album \in {None, AlbumOf[page]}
<1>1. CASE UNCHANGED responses
  BY <1>1
<1>2. ASSUME NEW album \in AlbumNames(d) \ {Throws}, responses' = Append(responses, Response(d, album))
      PROVE  \E r \in Responses :
               /\ \A i \in DOMAIN responses' :
                    (i \in DOMAIN responses /\ responses'[i] = responses[i]) \/ responses'[i] = r
               /\ r.password = Key[r.id] /\ r.id = d.photo
               /\ r.album \in {None, AlbumOf[page]}
  <2>1. album = AlbumOf[page] /\ album \in Albums \cup {None}
    BY RevealAssumption DEF AlbumNames, TypeOK
  <2>2. Response(d, album) \in Responses
    BY <2>1 DEF TypeOK, Decodes, Response, Responses
  <2>3. /\ Response(d, album).id = d.photo /\ Response(d, album).password = Key[d.photo]
        /\ Response(d, album).album \in {None, AlbumOf[page]}
    BY <2>1 DEF DecodeSucceeds, Response
  <2>4. \A i \in DOMAIN responses' :
           \/ i \in DOMAIN responses /\ responses'[i] = responses[i]
           \/ responses'[i] = Response(d, album)
    BY <1>2 DEF TypeOK
  <2> QED
    BY <2>2, <2>3, <2>4
<1> QED
  BY <1>1, <1>2 DEF DecodeSucceeds, CallBack

\* The extension stores the first answer and keeps the others.
LEMMA StoreStep ==
  ASSUME TypeOK, ExtensionStores
  PROVE  LET r == responses[1]
         IN  /\ 1 \in DOMAIN responses /\ r \in Responses
             /\ r.album \notin Photos /\ r.id \notin Albums
             /\ \A n \in Names : localStorage'.passwords[n] =
                  IF n \in {r.id, r.album} THEN r.password ELSE localStorage.passwords[n]
             /\ \A i \in DOMAIN responses' :
                  i + 1 \in DOMAIN responses /\ responses'[i] = responses[i + 1]
<1> DEFINE r == responses[1]
<1>1. 1 \in DOMAIN responses /\ r \in Responses
  BY DEF ExtensionStores, TypeOK
<1>2. \A n \in Names : localStorage'.passwords[n] =
         IF n \in {r.id, r.album} THEN r.password ELSE localStorage.passwords[n]
  BY DEF ExtensionStores, TypeOK, Storages
<1>3. r.album \notin Photos /\ r.id \notin Albums
  BY <1>1, RevealAssumption DEF Responses
<1>4. \A i \in DOMAIN responses' :
         i + 1 \in DOMAIN responses /\ responses'[i] = responses[i + 1]
  BY DEF ExtensionStores, TypeOK
<1> QED
  BY <1>1, <1>2, <1>3, <1>4

\* All other actions leave the answers, and the passwords in the storage, alone.
LEMMA StorageKept ==
  ASSUME TypeOK, [Next]_vars, ~ExtensionStores, \A d \in decodes : ~DecodeSucceeds(d)
  PROVE  localStorage'.passwords = localStorage.passwords /\ UNCHANGED responses
<1>1. ASSUME NEW s \in {"save", "album", "auto"}, ChangeSetting(s)
      PROVE  localStorage'.passwords = localStorage.passwords /\ UNCHANGED responses
  BY <1>1 DEF ChangeSetting, TypeOK, Storages
<1>2. CASE UNCHANGED <<localStorage, responses>>
  BY <1>2
<1>3. ASSUME NEW f \in Photos, ClickDecrypt(f) \/ ClickInVain(f) \/ ClickRevert(f)
      PROVE  UNCHANGED <<localStorage, responses>>
  BY <1>3 DEF ClickDecrypt, ClickInVain, ClickRevert
<1>4. ASSUME AutoDecryptMessage \/ ToggleSave \/ ToggleAlbum \/ DialogCancel \/ Reload
      PROVE  UNCHANGED <<localStorage, responses>>
  BY <1>4 DEF AutoDecryptMessage, ToggleSave, ToggleAlbum, DialogCancel, Reload
<1>5. ASSUME NEW password \in Passwords, DialogOK(password)
      PROVE  UNCHANGED <<localStorage, responses>>
  BY <1>5 DEF DialogOK
<1>6. ASSUME NEW d \in decodes, DecodeFails(d)
      PROVE  UNCHANGED <<localStorage, responses>>
  BY <1>6 DEF DecodeFails
<1>7. ASSUME NEW p \in Pages, Navigate(p)
      PROVE  UNCHANGED <<localStorage, responses>>
  BY <1>7 DEF Navigate
<1> QED
  BY <1>1, <1>2, <1>3, <1>4, <1>5, <1>6, <1>7 DEF Next, vars

LEMMA PhotosFitStep == TypeOK /\ PhotosFit /\ [Next]_vars => PhotosFit'
<1> SUFFICES ASSUME TypeOK, PhotosFit, [Next]_vars
             PROVE  PhotosFit'
  OBVIOUS
<1>1. ASSUME NEW d \in decodes, DecodeSucceeds(d)
      PROVE  PhotosFit'
  <2>1. UNCHANGED localStorage
    BY <1>1 DEF DecodeSucceeds
  <2> QED
    BY <1>1, <2>1, AnswerFits DEF PhotosFit
<1>2. CASE ExtensionStores
  <2> DEFINE r == responses[1]
  <2>1. /\ 1 \in DOMAIN responses /\ r \in Responses /\ r.album \notin Photos
        /\ \A n \in Names : localStorage'.passwords[n] =
             IF n \in {r.id, r.album} THEN r.password ELSE localStorage.passwords[n]
        /\ \A i \in DOMAIN responses' :
             i + 1 \in DOMAIN responses /\ responses'[i] = responses[i + 1]
    BY <1>2, StoreStep
  <2>2. r.password = Key[r.id]
    BY <2>1 DEF PhotosFit
  <2>3. \A f \in Photos : localStorage'.passwords[f] \in {None, Key[f]}
    BY <2>1, <2>2 DEF PhotosFit, Names
  <2> QED
    BY <2>1, <2>3 DEF PhotosFit
<1>3. CASE ~ExtensionStores /\ \A d \in decodes : ~DecodeSucceeds(d)
  BY <1>3, StorageKept DEF PhotosFit
<1> QED
  BY <1>1, <1>2, <1>3

LEMMA LeftGrows == TypeOK /\ [Next]_vars /\ ~left' => ~left
BY DEF Next, vars, pageVars, ClickDecrypt, ClickInVain, ClickRevert, AutoDecryptMessage, ToggleSave,
       ToggleAlbum, DialogCancel, DialogOK, DecodeSucceeds, DecodeFails, ExtensionStores,
       ChangeSetting, Reload, Navigate

\* As long as no page is left during a decryption, decryptions are of images of the page.
LEMMA HereStep ==
  ASSUME TypeOK, \A d \in decodes : d.photo \in OnPage[page], [Next]_vars, ~left'
  PROVE  \A d \in decodes' : d.photo \in OnPage[page']
<1>1. ASSUME NEW f \in Photos, ClickDecrypt(f)
      PROVE  \A d \in decodes' : d.photo \in OnPage[page']
  <2>1. f \in OnPage[page] /\ page' = page
    BY <1>1 DEF ClickDecrypt, pageVars
  <2>2. \A d \in decodes' : d \in decodes \/ d.photo = f
    BY <1>1 DEF ClickDecrypt, Decode
  <2> QED
    BY <2>1, <2>2
<1>2. CASE AutoDecryptMessage
  <2>1. page' = page
    BY <1>2 DEF AutoDecryptMessage, pageVars
  <2>2. \A d \in decodes' : d \in decodes \/ d.photo \in OnPage[page]
    BY <1>2 DEF AutoDecryptMessage, Decode
  <2> QED
    BY <2>1, <2>2
<1>3. ASSUME NEW password \in Passwords, DialogOK(password)
      PROVE  \A d \in decodes' : d.photo \in OnPage[page']
  <2>1. dialog.photo \in OnPage[page] /\ page' = page
    BY <1>3 DEF DialogOK, pageVars
  <2>2. \A d \in decodes' : d \in decodes \/ d.photo = dialog.photo
    BY <1>3 DEF DialogOK, Decode
  <2> QED
    BY <2>1, <2>2
<1>4. ASSUME NEW p \in Pages, Navigate(p)
      PROVE  decodes' = {}
  BY <1>4 DEF Navigate, TypeOK
<1>5. ASSUME NEW d \in decodes, DecodeSucceeds(d) \/ DecodeFails(d)
      PROVE  decodes' \subseteq decodes /\ page' = page
  BY <1>5 DEF DecodeSucceeds, DecodeFails, pageVars
<1>6. ASSUME NEW f \in Photos, ClickInVain(f) \/ ClickRevert(f)
      PROVE  decodes' \subseteq decodes /\ page' = page
  BY <1>6 DEF ClickInVain, ClickRevert, pageVars
<1>7. ASSUME ToggleSave \/ ToggleAlbum \/ DialogCancel \/ ExtensionStores \/ UNCHANGED vars
      PROVE  decodes' \subseteq decodes /\ page' = page
  BY <1>7 DEF ToggleSave, ToggleAlbum, DialogCancel, ExtensionStores, vars, pageVars
<1>8. ASSUME NEW s \in {"save", "album", "auto"}, ChangeSetting(s)
      PROVE  decodes' \subseteq decodes /\ page' = page
  BY <1>8 DEF ChangeSetting, pageVars
<1>9. CASE Reload
  BY <1>9 DEF Reload
<1> QED
  BY <1>1, <1>2, <1>3, <1>4, <1>5, <1>6, <1>7, <1>8, <1>9 DEF Next

LEMMA AlbumsFitStep ==
  ASSUME TypeOK, PhotosFit, AlbumsFit, [Next]_vars, ~left'
  PROVE  AlbumsFit'
<1>0. \A d \in decodes' : d.photo \in OnPage[page']
  BY HereStep DEF AlbumsFit
<1>1. ASSUME NEW d \in decodes, DecodeSucceeds(d)
      PROVE  AlbumsFit'
  <2>1. UNCHANGED localStorage
    BY <1>1 DEF DecodeSucceeds
  <2>2. CASE UNCHANGED responses
    BY <1>0, <2>1, <2>2 DEF AlbumsFit, AlbumFits
  <2>3. ASSUME NEW r \in Responses,
               \A i \in DOMAIN responses' :
                 (i \in DOMAIN responses /\ responses'[i] = responses[i]) \/ responses'[i] = r,
               r.id = d.photo, r.album \in {None, AlbumOf[page]}
        PROVE  AlbumsFit'
    <3>1. AlbumFits(r)
      BY <2>3 DEF AlbumFits, AlbumsFit, TypeOK
    <3>2. \A i \in DOMAIN responses' : AlbumFits(responses'[i])
      BY <2>3, <3>1 DEF AlbumsFit
    <3> QED
      BY <1>0, <2>1, <3>2 DEF AlbumsFit, AlbumFits
  <2> QED
    BY <1>1, <2>2, <2>3, AnswerFits
<1>2. CASE ExtensionStores
  <2> DEFINE r == responses[1]
  <2>1. /\ 1 \in DOMAIN responses /\ r \in Responses /\ r.id \notin Albums
        /\ \A n \in Names : localStorage'.passwords[n] =
             IF n \in {r.id, r.album} THEN r.password ELSE localStorage.passwords[n]
        /\ \A i \in DOMAIN responses' :
             i + 1 \in DOMAIN responses /\ responses'[i] = responses[i + 1]
    BY <1>2, StoreStep
  <2>2. r.password = Key[r.id] /\ AlbumFits(r) /\ r.id \in Photos
    BY <2>1 DEF PhotosFit, AlbumsFit, Responses
  <2>3. ASSUME NEW a \in Albums, localStorage'.passwords[a] # None
        PROVE  \E p \in Pages, f \in Photos :
                 /\ f \in OnPage[p] /\ AlbumOf[p] = a
                 /\ Key[f] = localStorage'.passwords[a]
    <3>1. CASE a = r.album
      <4>1. a # None /\ localStorage'.passwords[a] = r.password
        BY <2>1, <3>1, RevealAssumption DEF Names
      <4> QED
        BY <2>2, <3>1, <4>1 DEF AlbumFits
    <3>2. CASE a # r.album
      <4>1. localStorage'.passwords[a] = localStorage.passwords[a]
        BY <2>1, <3>2 DEF Names
      <4> QED
        BY <2>3, <4>1 DEF AlbumsFit
    <3> QED
      BY <3>1, <3>2
  <2>4. \A i \in DOMAIN responses' : AlbumFits(responses'[i])
    BY <2>1 DEF AlbumsFit
  <2> QED
    BY <1>0, <2>3, <2>4 DEF AlbumsFit, AlbumFits
<1>3. CASE ~ExtensionStores /\ \A d \in decodes : ~DecodeSucceeds(d)
  BY <1>0, <1>3, StorageKept DEF AlbumsFit, AlbumFits
<1> QED
  BY <1>1, <1>2, <1>3

LEMMA FitStep == TypeOK /\ Fit /\ [Next]_vars => Fit'
BY PhotosFitStep, AlbumsFitStep, LeftGrows DEF Fit

\* What the extension stores for a photo opens it, whatever callback an answer goes through
\* and whatever page is there by then; what it stores for an album opens a photo of that
\* album as long as no page is left during a decryption.  For any pages, photos and albums.
THEOREM StoredPasswordsFitHolds == Spec => []StoredPasswordsFit
<1>1. Init => TypeOK /\ Fit
  BY TypeInit, FitInit
<1>2. TypeOK /\ Fit /\ [Next]_vars => (TypeOK /\ Fit)'
  BY TypeStep, FitStep
<1>3. Fit => StoredPasswordsFit
  BY DEF Fit, PhotosFit, AlbumsFit, StoredPasswordsFit
<1> QED
  BY <1>1, <1>2, <1>3, PTL DEF Spec

(***************************************************************************)
(* The shared fields, as long as nothing overlaps                          *)
(***************************************************************************)

LEMMA OverlapFixed == [Next]_vars => overlap' = overlap
BY DEF Next, vars, pageVars, ClickDecrypt, ClickInVain, ClickRevert, AutoDecryptMessage, ToggleSave,
       ToggleAlbum, DialogCancel, DialogOK, DecodeSucceeds, DecodeFails, ExtensionStores,
       ChangeSetting, Reload, Navigate

LEMMA MessagePending == TypeOK /\ Message(TRUE) /\ answered' = answered => Pending'
BY RevealAssumption DEF TypeOK, Message, Pending, NoRequest

\* A step that leaves alone what the boxes are kept in.
LEMMA BoxesKept ==
  ASSUME Boxes, UNCHANGED <<callback, answered, lookup, overrideSavePassword,
                            overrideAlbumPassword, dialog, requests, page>>,
         decodes' \subseteq decodes
  PROVE  Boxes'
<1>1. \A x : Agrees(x)' <=> Agrees(x)
  BY DEF Agrees, Pending, savePassword, albumPassword
<1> QED
  BY <1>1 DEF Boxes


\* A message without overlap finds no dialog and no decryption, and a dialog has none
\* beside it: each action below says with what its successor agrees.
LEMMA ClickBoxes ==
  ASSUME TypeOK, ~overlap, NEW f \in Photos, ClickDecrypt(f)
  PROVE  Boxes'
<1> USE DEF Agrees, savePassword, albumPassword
<1>1. /\ decodes = {} /\ dialog = None /\ Pending' /\ lookup' = localStorage
      /\ requests' = requests + 1 /\ page' = page /\ AlbumOf[page] # Throws
  BY MessagePending DEF ClickDecrypt, Quiet, Message, pageVars
<1> DEFINE password == PasswordFor(localStorage, f)
           settings == localStorage.settings
           d == Decode(f, password, FALSE, FALSE, FALSE, requests + 1)
           box == [photo |-> f, save |-> settings.save, album |-> settings.album,
                   req |-> requests + 1]
<1>2. CASE password # None /\ settings.auto
  <2>1. decodes' = {d} /\ dialog' = None
    BY <1>1, <1>2 DEF ClickDecrypt
  <2>2. overrideSavePassword' = FALSE /\ overrideAlbumPassword' = FALSE
    BY <1>2 DEF ClickDecrypt
  <2>3. /\ ~d.save /\ ~d.album /\ ~savePassword' /\ ~albumPassword'
        /\ d.from = page /\ d.req = requests + 1
    BY <2>2, RevealAssumption DEF Decode
  <2> QED
    BY <1>1, <2>1, <2>3 DEF Boxes
<1>3. CASE password = None \/ ~settings.auto
  <2>1. decodes' = {} /\ dialog' = box
    BY <1>1, <1>3 DEF ClickDecrypt
  <2>2. overrideSavePassword' = None /\ overrideAlbumPassword' = None
    BY <1>3 DEF ClickDecrypt
  <2>3. (savePassword' <=> box.save) /\ (albumPassword' <=> box.album)
    BY <1>1, <2>2
  <2> QED
    BY <1>1, <2>1, <2>3 DEF Boxes
<1> QED
  BY <1>2, <1>3

LEMMA ToggleSaveBoxes ==
  ASSUME TypeOK, Boxes, ToggleSave
  PROVE  Boxes'
<1>1. dialog \in Dialogs /\ dialog # None
  BY DEF TypeOK, ToggleSave
<1>2. /\ decodes' = {} /\ Pending' /\ (albumPassword' <=> dialog.album)
      /\ dialog.req = requests' /\ AlbumOf[page'] # Throws
  BY <1>1 DEF ToggleSave, Boxes, Agrees, Pending, albumPassword, messageVars, pageVars
<1>3. dialog'.album = dialog.album /\ dialog'.save = ~dialog.save /\ dialog'.req = dialog.req
  BY <1>1 DEF ToggleSave, Dialogs
<1>4. savePassword' = ~dialog.save
  BY <1>1, RevealAssumption DEF ToggleSave, savePassword, Dialogs
<1> QED
  BY <1>2, <1>3, <1>4 DEF Boxes, Agrees

LEMMA ToggleAlbumBoxes ==
  ASSUME TypeOK, Boxes, ToggleAlbum
  PROVE  Boxes'
<1>1. dialog \in Dialogs /\ dialog # None
  BY DEF TypeOK, ToggleAlbum
<1>2. /\ decodes' = {} /\ Pending' /\ (savePassword' <=> dialog.save)
      /\ dialog.req = requests' /\ AlbumOf[page'] # Throws
  BY <1>1 DEF ToggleAlbum, Boxes, Agrees, Pending, savePassword, messageVars, pageVars
<1>3. dialog'.save = dialog.save /\ dialog'.album = ~dialog.album /\ dialog'.req = dialog.req
  BY <1>1 DEF ToggleAlbum, Dialogs
<1>4. albumPassword' = ~dialog.album
  BY <1>1, RevealAssumption DEF ToggleAlbum, albumPassword, Dialogs
<1> QED
  BY <1>2, <1>3, <1>4 DEF Boxes, Agrees

LEMMA OKBoxes ==
  ASSUME TypeOK, Boxes, NEW password \in Passwords, DialogOK(password)
  PROVE  Boxes'
<1> DEFINE d == Decode(dialog.photo, password, dialog.save, dialog.album, FALSE, dialog.req)
<1>1. dialog # None /\ decodes' = {d} /\ dialog' = None
  BY DEF DialogOK, Boxes
<1>2. /\ d.save = dialog.save /\ d.album = dialog.album /\ d.auto = FALSE
      /\ d.req = dialog.req /\ d.from = page'
  BY DEF Decode, DialogOK, pageVars
<1>3. Agrees(dialog) /\ \A x : Agrees(x)' <=> Agrees(x)
  BY <1>1 DEF DialogOK, Boxes, Agrees, Pending, savePassword, albumPassword, messageVars, overrides,
              pageVars
<1>4. Agrees(d)
  BY <1>2, <1>3 DEF Agrees
<1> QED
  BY <1>1, <1>2, <1>3, <1>4 DEF Boxes

LEMMA BoxesStep ==
  ASSUME TypeOK, ~overlap, Boxes, [Next]_vars
  PROVE  Boxes'
<1>1. ASSUME NEW f \in Photos, ClickDecrypt(f)
      PROVE  Boxes'
  BY <1>1, ClickBoxes
<1>2. ASSUME NEW f \in Photos, ClickRevert(f) \/ ClickInVain(f)
      PROVE  Boxes'
  BY <1>2 DEF ClickRevert, ClickInVain, Quiet, Boxes
<1>3. CASE AutoDecryptMessage
  <2>1. dialog' = None /\ \A d \in decodes' : d.auto = TRUE /\ d.save = FALSE
    BY <1>3 DEF AutoDecryptMessage, Quiet, Decode
  <2> QED
    BY <2>1 DEF Boxes
<1>4. CASE ToggleSave
  BY <1>4, ToggleSaveBoxes
<1>5. CASE ToggleAlbum
  BY <1>5, ToggleAlbumBoxes
<1>6. CASE DialogCancel
  BY <1>6 DEF DialogCancel, Boxes
<1>7. ASSUME NEW password \in Passwords, DialogOK(password)
      PROVE  Boxes'
  BY <1>7, OKBoxes
<1>8. ASSUME NEW d \in decodes, DecodeSucceeds(d)
      PROVE  Boxes'
  <2>1. dialog' = None
    BY <1>8 DEF DecodeSucceeds, Boxes
  <2>2. CASE d.auto
    <3>1. UNCHANGED <<callback, answered, lookup, overrideSavePassword, overrideAlbumPassword,
                      dialog, requests, page>> /\ decodes' \subseteq decodes
      BY <1>8, <2>2 DEF DecodeSucceeds, CallBack, messageVars, overrides
    <3> QED
      BY <3>1, BoxesKept
  <2>3. CASE ~d.auto
    <3>1. decodes' = {}
      BY <1>8, <2>3 DEF DecodeSucceeds, Boxes
    <3> QED
      BY <2>1, <3>1 DEF Boxes
  <2> QED
    BY <2>2, <2>3
<1>9. ASSUME NEW d \in decodes, DecodeFails(d)
      PROVE  Boxes'
  <2>1. UNCHANGED <<callback, answered, lookup, overrideSavePassword, overrideAlbumPassword,
                    dialog, requests, page>> /\ decodes' \subseteq decodes
    BY <1>9 DEF DecodeFails, messageVars, overrides, pageVars
  <2> QED
    BY <2>1, BoxesKept
<1>10. CASE ExtensionStores
  BY <1>10, BoxesKept DEF ExtensionStores, messageVars, overrides, pageVars
<1>11. ASSUME NEW s \in {"save", "album", "auto"}, ChangeSetting(s)
       PROVE  Boxes'
  BY <1>11, BoxesKept DEF ChangeSetting, messageVars, overrides, pageVars
<1>12. CASE Reload
  BY <1>12 DEF Reload, Boxes
<1>13. ASSUME NEW p \in Pages, Navigate(p)
       PROVE  Boxes'
  BY <1>13 DEF Navigate, Quiet, Boxes
<1>14. CASE UNCHANGED vars
  BY <1>14, BoxesKept DEF vars, messageVars, overrides, pageVars
<1> QED
  BY <1>1, <1>2, <1>3, <1>4, <1>5, <1>6, <1>7, <1>8, <1>9, <1>10, <1>11, <1>12, <1>13, <1>14
     DEF Next

LEMMA ShownStep ==
  ASSUME TypeOK, ~overlap, Boxes, Shown, [Next]_vars
  PROVE  Shown'
<1>1. ASSUME NEW f \in Photos, ClickDecrypt(f)
      PROVE  Shown'
  <2>1. decodes = {} /\ shows[f] = "enc" /\ UNCHANGED <<shows, previousSrc>>
    BY <1>1 DEF ClickDecrypt, Quiet, pageVars
  <2>2. decodes' = decodes \/ \E p : decodes' = {Decode(f, p, FALSE, FALSE, FALSE, requests + 1)}
    BY <1>1, <2>1 DEF ClickDecrypt
  <2>3. \A d \in decodes' : decodes' = {d} /\ d.photo = f /\ d.attached
    <3>1. CASE decodes' = decodes
      BY <2>1, <3>1
    <3>2. ASSUME NEW p, decodes' = {Decode(f, p, FALSE, FALSE, FALSE, requests + 1)}
          PROVE  \A d \in decodes' : decodes' = {d} /\ d.photo = f /\ d.attached
      <4>1. /\ Decode(f, p, FALSE, FALSE, FALSE, requests + 1).photo = f
            /\ Decode(f, p, FALSE, FALSE, FALSE, requests + 1).attached
        BY DEF Decode
      <4> QED
        BY <3>2, <4>1
    <3> QED
      BY <2>2, <3>1, <3>2
  <2>4. (\A g \in Photos : shows'[g] = "dec" => previousSrc'[g] = "enc") /\ shows'[f] = "enc"
    BY <2>1 DEF Shown
  <2> QED
    BY <2>3, <2>4 DEF Shown
<1>2. ASSUME NEW f \in Photos, ClickRevert(f)
      PROVE  Shown'
  <2>1. previousSrc[f] = "enc" /\ decodes' = {}
    BY <1>2 DEF ClickRevert, Quiet, Shown
  <2>2. \A g \in Photos : shows'[g] = "dec" => g # f /\ shows[g] = "dec"
    BY <1>2, <2>1, RevealAssumption DEF ClickRevert, TypeOK
  <2>3. \A g \in Photos : g # f => previousSrc'[g] = previousSrc[g]
    BY <1>2 DEF ClickRevert, TypeOK
  <2> QED
    BY <2>1, <2>2, <2>3 DEF Shown
<1>3. CASE AutoDecryptMessage
  <2>1. UNCHANGED <<shows, previousSrc>>
    BY <1>3 DEF AutoDecryptMessage, pageVars
  <2>2. \A d \in decodes' : \E f \in OnPage[page] :
           shows[f] = "enc" /\ d = Decode(f, PasswordFor(localStorage, f), FALSE, FALSE, TRUE,
                                         requests + 1)
    BY <1>3 DEF AutoDecryptMessage, Quiet
  <2>3. \A d \in decodes' : shows[d.photo] = "enc" /\ d.attached /\
           d = Decode(d.photo, PasswordFor(localStorage, d.photo), FALSE, FALSE, TRUE, requests + 1)
    BY <2>2 DEF Decode
  <2> QED
    BY <2>1, <2>3 DEF Shown
<1>4. ASSUME NEW password \in Passwords, DialogOK(password)
      PROVE  Shown'
  <2>1. decodes = {} /\ shows[dialog.photo] = "enc" /\ UNCHANGED <<shows, previousSrc>>
    BY <1>4 DEF DialogOK, Boxes, pageVars
  <2>2. decodes' = {Decode(dialog.photo, password, dialog.save, dialog.album, FALSE, dialog.req)}
    BY <1>4, <2>1 DEF DialogOK
  <2> QED
    BY <2>1, <2>2 DEF Shown, Decode
<1>5. ASSUME NEW d \in decodes, DecodeSucceeds(d)
      PROVE  Shown'
  <2>1. d.attached /\ shows[d.photo] = "enc"
    BY DEF Shown
  <2>2. /\ decodes' = decodes \ {d}
        /\ previousSrc' = [previousSrc EXCEPT ![d.photo] = "enc"]
        /\ shows' = [shows EXCEPT ![d.photo] = "dec"]
    BY <1>5, <2>1 DEF DecodeSucceeds
  <2>3. \A e \in decodes' : e.photo # d.photo
    BY <2>2 DEF Shown
  <2>4. \A f \in Photos : shows'[f] = "dec" => previousSrc'[f] = "enc"
    BY <2>2 DEF Shown, TypeOK
  <2>5. \A e \in decodes' : shows'[e.photo] = "enc" /\ e.attached
    BY <2>2, <2>3 DEF Shown, TypeOK, Decodes
  <2> QED
    BY <2>2, <2>4, <2>5 DEF Shown
<1>6. ASSUME NEW d \in decodes, DecodeFails(d)
      PROVE  Shown'
  BY <1>6 DEF DecodeFails, Shown, pageVars
<1>7. CASE ToggleSave \/ ToggleAlbum \/ DialogCancel \/ ExtensionStores
  BY <1>7 DEF ToggleSave, ToggleAlbum, DialogCancel, ExtensionStores, Shown, pageVars
<1>8. ASSUME NEW s \in {"save", "album", "auto"}, ChangeSetting(s)
      PROVE  Shown'
  BY <1>8 DEF ChangeSetting, Shown, pageVars
<1>9. CASE Reload
  BY <1>9 DEF Reload, Shown
<1>10. ASSUME NEW p \in Pages, Navigate(p)
       PROVE  Shown'
  BY <1>10 DEF Navigate, Quiet, Shown
<1>11. ASSUME NEW f \in Photos, ClickInVain(f)
       PROVE  Shown'
  BY <1>11 DEF ClickInVain, Shown, pageVars
<1>12. CASE UNCHANGED vars
  BY <1>12 DEF vars, Shown, pageVars
<1> QED
  BY <1>1, <1>2, <1>3, <1>4, <1>5, <1>6, <1>7, <1>8, <1>9, <1>10, <1>11, <1>12 DEF Next

LEMMA InvInit == Init => Inv
<1> SUFFICES ASSUME Init
             PROVE  Boxes /\ Shown
  BY TypeInit, FitInit DEF Inv
<1> QED
  BY DEF Init, Boxes, Shown

LEMMA InvStep == Inv /\ [Next]_vars => Inv'
BY TypeStep, FitStep, OverlapFixed, BoxesStep, ShownStep DEF Inv

LEMMA Invariance == Spec => []Inv
BY InvInit, InvStep, PTL DEF Spec

\* What one step answers is what the boxes said.
LEMMA BoxesObeyedStep ==
  ASSUME Inv, ~overlap, NEW d \in decodes, DecodeSucceeds(d)
  PROVE  /\ responses' # responses <=> d.save
         /\ d.save => responses'[Len(responses')].album =
                        IF d.album THEN AlbumOf[d.from] ELSE None
<1>1. responses \in Seq(Responses) /\ Boxes
  BY DEF Inv, TypeOK
<1> DEFINE r == Response(d, AlbumOf[page])
<1>2. Append(responses, r) # responses
  <2>1. Len(Append(responses, r)) = Len(responses) + 1 /\ Len(responses) \in Nat
    BY <1>1
  <2> QED
    BY <2>1
<1>3. CASE d.auto
  BY <1>1, <1>3 DEF DecodeSucceeds, CallBack, Boxes
<1>4. CASE ~d.auto
  <2>1. /\ Pending /\ (savePassword <=> d.save) /\ (albumPassword <=> d.album)
        /\ d.req = requests /\ AlbumOf[page] # Throws /\ d.from = page
    BY <1>1, <1>4 DEF Boxes, Agrees
  <2>2. AlbumNames(d) \ {Throws} = {AlbumOf[page]} /\ Throws \notin AlbumNames(d)
    BY <2>1 DEF AlbumNames, Inv, Shown
  <2>3. CASE d.save
    <3>1. responses' = Append(responses, r)
      BY <1>4, <2>1, <2>2, <2>3 DEF DecodeSucceeds, CallBack, Pending
    <3>2. responses'[Len(responses')] = r
      BY <1>1, <3>1
    <3>3. r.album = IF d.album THEN AlbumOf[d.from] ELSE None
      BY <2>1 DEF Response
    <3> QED
      BY <1>2, <2>3, <3>1, <3>2, <3>3
  <2>4. CASE ~d.save
    BY <2>1, <2>4 DEF DecodeSucceeds, CallBack
  <2> QED
    BY <2>3, <2>4
<1> QED
  BY <1>3, <1>4

\* Without overlap the boxes of the dialog decide what is stored, and under which names.
THEOREM BoxesObeyedHolds == Spec => BoxesObeyed
<1>1. Inv /\ [Next]_vars =>
        [~overlap => \A d \in decodes :
           DecodeSucceeds(d) =>
             /\ responses' # responses <=> d.save
             /\ d.save => responses'[Len(responses')].album =
                            IF d.album THEN AlbumOf[d.from] ELSE None]_vars
  BY BoxesObeyedStep
<1> QED
  BY <1>1, Invariance, PTL DEF Spec, BoxesObeyed

\* Without overlap a reverted photo shows what the site sent, and never the decrypted data.
THEOREM RevertRestoresHolds == Spec => RevertRestores
<1>1. Inv /\ [Next]_vars =>
        [~overlap => \A f \in Photos : ClickRevert(f) => shows'[f] = "enc"]_vars
  <2> SUFFICES ASSUME Inv, ~overlap, NEW f \in Photos, ClickRevert(f)
               PROVE  shows'[f] = "enc"
    OBVIOUS
  <2>1. previousSrc[f] = "enc"
    BY DEF Inv, Shown, ClickRevert
  <2> QED
    BY <2>1, RevealAssumption DEF Inv, TypeOK, ClickRevert
<1> QED
  BY <1>1, Invariance, PTL DEF Spec, RevertRestores

===============================================================================
