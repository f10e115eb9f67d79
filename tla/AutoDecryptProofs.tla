--------------------------- MODULE AutoDecryptProofs --------------------------
(***************************************************************************)
(* Theorems about AutoDecrypt for every set of pages of any size, any       *)
(* number of requests, tries and failures, and every maxLoading.  A loader  *)
(* that waits or downloads is in the queue (Queueing); the queue is emptied *)
(* when none is; so the places that checkQueue() counts in the queue are    *)
(* all there are, and it never starts more loaders than are free.  Canceled *)
(* loaders leave their places while their requests run on, but then none of *)
(* their batch is waiting (Orderly), so what starts is of another batch.    *)
(* The bar never shows more than is the case (Behind), so that whatever is  *)
(* shown next in the same batch is no less.                                 *)
(***************************************************************************)
EXTENDS AutoDecrypt, FiniteSetTheorems, TLAPS

Active == {"WAITING", "LOADING"}

Queueing == \A l \in Loaders : state[l] \in Active => l \in Range(loaders)

\* maxLoading, as checkQueue() sees it.
PlacesKept == Cardinality({l \in Loaders : state[l] = "LOADING"}) <= MaxLoading

\* p checkIfReady() timers, t checkQueue() timers, b batches, n tries after r requests.
\* A request begins one chain of timers: of checkIfReady() first, of checkQueue() later.
\* Once a chain has found the tries used up, every other one tries once more at most.
Within(p, t, b, n, r, maxTries) ==
  /\ p + t <= r /\ p + b <= r
  /\ n < maxTries \/ n + p < maxTries + r

Chains == Within(polls, timers, batch, tries, requests, MaxTries)

Inv == TypeOK /\ Queueing /\ PlacesKept /\ Chains

(***************************************************************************)
(* Finite sets                                                             *)
(***************************************************************************)

LEMMA ImageFinite ==
  ASSUME NEW S, IsFiniteSet(S), NEW f, f = [x \in S |-> f[x]]
  PROVE  /\ IsFiniteSet({f[x] : x \in S})
         /\ Cardinality({f[x] : x \in S}) <= Cardinality(S)
<1> DEFINE T == {f[x] : x \in S}
<1>1. f \in Surjection(S, T)
  BY DEF Surjection
<1> QED
  BY <1>1, FS_Surjection

\* The positions of S in which fewer than m others stand before: m at most.
LEMMA FirstFew ==
  ASSUME NEW S \in SUBSET Nat, IsFiniteSet(S), NEW m \in Int,
         NEW before, before = [k \in S |-> Cardinality({j \in S : j < k})]
  PROVE  LET first == {k \in S : before[k] < m}
         IN  /\ IsFiniteSet(first)
             /\ Cardinality(first) <= IF m > 0 THEN m ELSE 0
<1> DEFINE first == {k \in S : before[k] < m}
           Before(k) == {j \in S : j < k}
<1>1. \A k \in S : IsFiniteSet(Before(k)) /\ before[k] = Cardinality(Before(k)) /\ before[k] \in Nat
  <2> SUFFICES ASSUME NEW k \in S
               PROVE  IsFiniteSet(Before(k)) /\ Cardinality(Before(k)) \in Nat
    OBVIOUS
  <2>1. Before(k) \in SUBSET S
    OBVIOUS
  <2> QED
    BY <2>1, FS_Subset, FS_CardinalityType
<1>2. ASSUME NEW k \in S, NEW n \in S, k < n
      PROVE  before[k] < before[n]
  <2>1. Before(k) \cup {k} \in SUBSET Before(n) /\ k \notin Before(k)
    <3>1. k \in Nat /\ n \in Nat /\ \A j \in S : j \in Nat
      OBVIOUS
    <3>2. \A j \in S : j < k => j < n
      BY <1>2, <3>1
    <3>3. ~(k < k)
      BY <3>1
    <3> QED
      BY <1>2, <3>2, <3>3
  <2>2. Cardinality(Before(k) \cup {k}) = before[k] + 1
    BY <1>1, <2>1, FS_AddElement
  <2>3. Cardinality(Before(k) \cup {k}) <= before[n]
    BY <1>1, <2>1, FS_Subset
  <2> QED
    BY <1>1, <2>2, <2>3
<1>3. IsFiniteSet(first)
  BY FS_Subset
<1>4. CASE m > 0
  <2> DEFINE g == [k \in first |-> before[k]]
  <2>1. \A k \in first : before[k] \in 0..(m - 1)
    BY <1>1
  <2>2. \A k, n \in first : g[k] = g[n] => k = n
    <3> SUFFICES ASSUME NEW k \in first, NEW n \in first, before[k] = before[n]
                 PROVE  k = n
      OBVIOUS
    <3>1. before[k] \in Nat /\ k \in Nat /\ n \in Nat
      BY <1>1
    <3>2. ~(k < n)
      BY <1>2, <3>1
    <3>3. ~(n < k)
      BY <1>2, <3>1
    <3> QED
      BY <3>1, <3>2, <3>3
  <2>3. g \in Injection(first, 0..(m - 1))
    BY <2>1, <2>2 DEF Injection, IsInjective
  <2>4. IsFiniteSet(0..(m - 1)) /\ Cardinality(0..(m - 1)) = m
    BY <1>4, FS_Interval
  <2> QED
    BY <1>3, <1>4, <2>3, <2>4, FS_Injection
<1>5. CASE ~(m > 0)
  <2>1. \A k \in S : ~(before[k] < m)
    <3>1. \A k \in S : before[k] \in Nat
      BY <1>1
    <3> QED
      BY <1>5, <3>1
  <2>2. Cardinality(first) = 0
    <3>1. first = {}
      BY <2>1
    <3> QED
      BY <3>1, FS_EmptySet
  <2> QED
    BY <1>3, <1>5, <2>2
<1> QED
  BY <1>4, <1>5

LEMMA PhotosFinite ==
  ASSUME NEW p \in Pages
  PROVE  IsFiniteSet(PhotosOf(p)) /\ PhotosOf(p) \subseteq Photos
<1> DEFINE f == [i \in 1..Size[p] |-> <<p, i>>]
<1>1. IsFiniteSet(1..Size[p])
  BY AutoDecryptAssumption, FS_Interval
<1>2. PhotosOf(p) = {f[i] : i \in 1..Size[p]}
  BY DEF PhotosOf
<1>3. IsFiniteSet({f[i] : i \in 1..Size[p]})
  BY <1>1, ImageFinite
<1> QED
  BY <1>2, <1>3 DEF Photos

LEMMA LoadersFinite == IsFiniteSet(Loaders)
<1>1. IsFiniteSet({PhotosOf(p) : p \in Pages})
  <2> DEFINE f == [p \in Pages |-> PhotosOf(p)]
  <2>1. f = [p \in Pages |-> f[p]] /\ {f[p] : p \in Pages} = {PhotosOf(p) : p \in Pages}
    OBVIOUS
  <2> HIDE DEF f
  <2>2. IsFiniteSet({f[p] : p \in Pages})
    BY <2>1, AutoDecryptAssumption, ImageFinite
  <2> QED
    BY <2>1, <2>2
<1>2. IsFiniteSet(Photos)
  BY <1>1, PhotosFinite, FS_UNION DEF Photos
<1>3. IsFiniteSet(1..MaxRequests)
  BY AutoDecryptAssumption, FS_Interval
<1> QED
  BY <1>2, <1>3, FS_Product DEF Loaders

(***************************************************************************)
(* checkQueue()                                                            *)
(***************************************************************************)

Positions(ls, st, s) == {i \in DOMAIN ls : st[ls[i]] = s}

LEMMA CountType ==
  ASSUME NEW ls \in Seq(Loaders), NEW st, NEW s
  PROVE  /\ Positions(ls, st, s) \in SUBSET Nat /\ IsFiniteSet(Positions(ls, st, s))
         /\ Count(ls, st, s) = Cardinality(Positions(ls, st, s)) /\ Count(ls, st, s) \in Nat
<1>1. DOMAIN ls = 1..Len(ls) /\ Len(ls) \in Nat
  OBVIOUS
<1>2. IsFiniteSet(DOMAIN ls)
  BY <1>1, FS_Interval
<1>3. Positions(ls, st, s) \in SUBSET (DOMAIN ls)
  BY DEF Positions
<1>4. IsFiniteSet(Positions(ls, st, s))
  BY <1>2, <1>3, FS_Subset
<1>5. Count(ls, st, s) = Cardinality(Positions(ls, st, s))
  BY DEF Count, Positions
<1> QED
  BY <1>1, <1>3, <1>4, <1>5, FS_CardinalityType

\* What checkQueue() starts fits into the free places.
LEMMA StartedFew ==
  ASSUME NEW ls \in Seq(Loaders), NEW st
  PROVE  LET free == MaxLoading - Count(ls, st, "LOADING")
         IN  /\ IsFiniteSet(Started(ls, st))
             /\ Cardinality(Started(ls, st)) <= IF free > 0 THEN free ELSE 0
<1> DEFINE W == Positions(ls, st, "WAITING")
           free == MaxLoading - Count(ls, st, "LOADING")
           before == [k \in W |-> Cardinality({j \in W : j < k})]
           first == {k \in W : before[k] < free}
           f == [k \in first |-> ls[k]]
<1>1. W \in SUBSET Nat /\ IsFiniteSet(W) /\ Count(ls, st, "LOADING") \in Nat
  BY CountType
<1>2. free \in Int
  BY <1>1, AutoDecryptAssumption
<1>3. IsFiniteSet(first) /\ Cardinality(first) <= IF free > 0 THEN free ELSE 0
  <2>1. before = [k \in W |-> Cardinality({j \in W : j < k})]
    OBVIOUS
  <2> HIDE DEF before, W, free
  <2> QED
    BY <1>1, <1>2, <2>1, FirstFew
<1>4. \A k \in W : {j \in 1..(k - 1) : st[ls[j]] = "WAITING"} = {j \in W : j < k}
  <2> SUFFICES ASSUME NEW k \in DOMAIN ls
               PROVE  \A j : j \in 1..(k - 1) <=> j \in DOMAIN ls /\ j < k
    BY DEF Positions
  <2>1. DOMAIN ls = 1..Len(ls) /\ Len(ls) \in Nat
    OBVIOUS
  <2> QED
    BY <2>1
<1>5. \A k \in W : Cardinality({j \in 1..(k - 1) : st[ls[j]] = "WAITING"}) = before[k]
  BY <1>4
<1>6. \A k \in W : before[k] \in Nat
  <2> SUFFICES ASSUME NEW k \in W
               PROVE  before[k] \in Nat
    OBVIOUS
  <2>1. {j \in W : j < k} \in SUBSET W
    OBVIOUS
  <2> QED
    BY <1>1, <2>1, FS_Subset, FS_CardinalityType
<1>7. \A k \in W : Cardinality({j \in 1..(k - 1) : st[ls[j]] = "WAITING"})
                    + Count(ls, st, "LOADING") < MaxLoading <=> before[k] < free
  <2> SUFFICES ASSUME NEW k \in W
               PROVE  before[k] + Count(ls, st, "LOADING") < MaxLoading <=> before[k] < free
    BY <1>5
  <2> QED
    BY <1>1, <1>6, AutoDecryptAssumption
<1>8. {k \in DOMAIN ls :
        /\ st[ls[k]] = "WAITING"
        /\ Cardinality({j \in 1..(k - 1) : st[ls[j]] = "WAITING"})
             + Count(ls, st, "LOADING") < MaxLoading} = first
  BY <1>7 DEF Positions
<1>9. Started(ls, st) = {f[k] : k \in first}
  BY <1>8 DEF Started
<1>10. /\ IsFiniteSet({f[k] : k \in first})
       /\ Cardinality({f[k] : k \in first}) <= Cardinality(first)
  <2>1. f = [k \in first |-> f[k]]
    OBVIOUS
  <2> HIDE DEF f, first
  <2> QED
    BY <1>3, <2>1, ImageFinite
<1>11. /\ Cardinality(first) \in Nat /\ Cardinality({f[k] : k \in first}) \in Nat
  BY <1>3, <1>10, FS_CardinalityType
<1> QED
  BY <1>2, <1>3, <1>9, <1>10, <1>11

\* When all that download are in the queue, they are no more than checkQueue() counts.
LEMMA LoadingCounted ==
  ASSUME NEW ls \in Seq(Loaders), NEW st,
         \A l \in Loaders : st[l] = "LOADING" => l \in Range(ls)
  PROVE  LET L == {l \in Loaders : st[l] = "LOADING"}
         IN  IsFiniteSet(L) /\ Cardinality(L) <= Count(ls, st, "LOADING")
<1> DEFINE L == {l \in Loaders : st[l] = "LOADING"}
           P == Positions(ls, st, "LOADING")
           f == [k \in P |-> ls[k]]
<1>1. IsFiniteSet(P) /\ Count(ls, st, "LOADING") = Cardinality(P)
  BY CountType
<1>2. L = {f[k] : k \in P}
  <2>1. \A k \in DOMAIN ls : ls[k] \in Loaders
    OBVIOUS
  <2>2. \A l \in L : \E k \in DOMAIN ls : ls[k] = l
    BY DEF Range
  <2> QED
    BY <2>1, <2>2 DEF Positions
<1>3. f = [k \in P |-> f[k]]
  OBVIOUS
<1> HIDE DEF f, P
<1> QED
  BY <1>1, <1>2, <1>3, ImageFinite

\* When the queue is done with, nothing in it waits or downloads.
LEMMA CompleteIsDone ==
  ASSUME NEW ls \in Seq(Loaders), NEW st, Complete(ls, st)
  PROVE  \A i \in DOMAIN ls : st[ls[i]] \notin Active
<1>1. /\ Count(ls, st, "WAITING") \in Nat /\ Count(ls, st, "LOADING") \in Nat
      /\ Count(ls, st, "DONE") \in Nat
  BY CountType
<1>2. Count(ls, st, "WAITING") = 0 /\ Count(ls, st, "LOADING") = 0
  BY <1>1 DEF Complete, Total
<1>3. Positions(ls, st, "WAITING") = {} /\ Positions(ls, st, "LOADING") = {}
  BY <1>2, CountType, FS_EmptySet
<1> QED
  BY <1>3 DEF Positions, Active

LEMMA CheckQueueTypes ==
  ASSUME NEW ls \in Seq(Loaders), NEW st \in [Loaders -> LoaderStates],
         NEW tr \in [Loaders -> Transfers], NEW open \in BOOLEAN, NEW fired \in {0, 1},
         bar \in Nat \X Nat, timers \in Nat, fired <= timers,
         CheckQueue(ls, st, tr, open, fired)
  PROVE  /\ loaders' \in Seq(Loaders)
         /\ state' \in [Loaders -> LoaderStates] /\ transfer' \in [Loaders -> Transfers]
         /\ progressBar' \in BOOLEAN /\ bar' \in Nat \X Nat
         /\ timers' \in Nat /\ timers' <= timers - fired + 1
<1>1. loaders' \in Seq(Loaders) /\ progressBar' \in BOOLEAN
  BY DEF CheckQueue, BarAfter
<1>2. state' \in [Loaders -> LoaderStates] /\ transfer' \in [Loaders -> Transfers]
  BY DEF CheckQueue, LoaderStates, Transfers
<1>3. Shown(ls, st) \in Nat \X Nat
  <2>1. /\ Count(ls, st, "WAITING") \in Nat /\ Count(ls, st, "LOADING") \in Nat
        /\ Count(ls, st, "DONE") \in Nat
    BY CountType
  <2> QED
    BY <2>1 DEF Shown, Total
<1>4. bar' \in Nat \X Nat
  BY <1>3 DEF CheckQueue
<1>5. timers' \in Nat /\ timers' <= timers - fired + 1
  BY DEF CheckQueue, Rearm
<1> QED
  BY <1>1, <1>2, <1>4, <1>5

\* One call of checkQueue() on a queue in which everything is that waits or downloads.
LEMMA CheckQueueSafe ==
  ASSUME NEW ls \in Seq(Loaders), NEW st \in [Loaders -> LoaderStates],
         NEW tr, NEW open, NEW fired, CheckQueue(ls, st, tr, open, fired),
         \A l \in Loaders : st[l] \in Active => l \in Range(ls),
         Cardinality({l \in Loaders : st[l] = "LOADING"}) <= MaxLoading
  PROVE  Queueing' /\ PlacesKept'
<1> DEFINE finish == ls # <<>> /\ open /\ Complete(ls, st)
           L == {l \in Loaders : st[l] = "LOADING"}
           S == Started(ls, st)
<1>1. S \subseteq Range(ls)
  BY DEF Started, Range
<1>2. CASE finish
  <2>1. \A l \in Loaders : st[l] \notin Active
    BY <1>2, CompleteIsDone DEF Range
  <2>2. \A l \in Loaders : state'[l] = st[l]
    BY <1>2 DEF CheckQueue
  <2>3. {l \in Loaders : state'[l] = "LOADING"} = L
    BY <2>2
  <2> QED
    BY <2>1, <2>2, <2>3 DEF Queueing, PlacesKept
<1>3. CASE ~finish
  <2>1. loaders' = ls /\ \A l \in Loaders : state'[l] = IF l \in S THEN "LOADING" ELSE st[l]
    BY <1>3 DEF CheckQueue
  <2>2. Queueing'
    BY <1>1, <2>1 DEF Queueing
  <2>3. {l \in Loaders : state'[l] = "LOADING"} = L \cup S
    <3>1. S \subseteq Loaders
      BY <1>1 DEF Range
    <3> QED
      BY <2>1, <3>1
  <2>4. /\ IsFiniteSet(L) /\ Cardinality(L) <= Count(ls, st, "LOADING")
        /\ Cardinality(L) <= MaxLoading
    BY LoadingCounted DEF Active
  <2>5. LET free == MaxLoading - Count(ls, st, "LOADING")
        IN  IsFiniteSet(S) /\ Cardinality(S) <= IF free > 0 THEN free ELSE 0
    BY StartedFew
  <2>6. Cardinality(L \cup S) <= Cardinality(L) + Cardinality(S)
    <3>1. Cardinality(L \cup S) = Cardinality(L) + Cardinality(S) - Cardinality(L \cap S)
      BY <2>4, <2>5, FS_Union
    <3>2. Cardinality(L) \in Nat /\ Cardinality(S) \in Nat /\ Cardinality(L \cap S) \in Nat
      BY <2>4, <2>5, FS_Intersection, FS_CardinalityType
    <3> QED
      BY <3>1, <3>2
  <2>7. /\ Cardinality(L) \in Nat /\ Cardinality(S) \in Nat /\ Cardinality(L \cup S) \in Nat
        /\ Count(ls, st, "LOADING") \in Nat
    BY <2>4, <2>5, FS_Union, FS_CardinalityType, CountType
  <2>8. Cardinality(L \cup S) <= MaxLoading
    <3> HIDE DEF L, S
    <3> QED
      BY <2>4, <2>5, <2>6, <2>7, AutoDecryptAssumption
  <2> QED
    BY <2>2, <2>3, <2>8 DEF PlacesKept
<1> QED
  BY <1>2, <1>3

(***************************************************************************)
(* autoDecrypt()                                                           *)
(***************************************************************************)

\* The queue of a new batch.
LEMMA NewQueue ==
  ASSUME TypeOK, batch + 1 \in 1..MaxRequests, NEW todo \in SUBSET PhotosOf(document),
         NEW queue \in InPageOrder({<<batch + 1, f>> : f \in todo})
  PROVE  /\ {<<batch + 1, f>> : f \in todo} \subseteq Loaders
         /\ queue \in Seq(Loaders) /\ Range(queue) = {<<batch + 1, f>> : f \in todo}
<1> DEFINE new == {<<batch + 1, f>> : f \in todo}
           g == [f \in todo |-> <<batch + 1, f>>]
<1>1. document \in Pages
  BY DEF TypeOK
<1>2. IsFiniteSet(todo) /\ todo \subseteq Photos
  BY <1>1, PhotosFinite, FS_Subset
<1>3. new \subseteq Loaders
  BY <1>2 DEF Loaders
<1>4. IsFiniteSet(new)
  BY <1>3, LoadersFinite, FS_Subset
<1>5. Cardinality(new) \in Nat
  BY <1>4, FS_CardinalityType
<1>6. queue \in [1..Cardinality(new) -> new] /\ Range(queue) = new
  BY DEF InPageOrder
<1> HIDE DEF new
<1>7. queue \in Seq(Loaders)
  BY <1>3, <1>5, <1>6
<1> QED
  BY <1>3, <1>6, <1>7 DEF new

\* What autoDecrypt() does: one more timer of checkQueue() and one more batch at most.
LEMMA AutoDecryptTypes ==
  ASSUME TypeOK, batch + 1 \in 1..MaxRequests, AutoDecryptNow
  PROVE  /\ loaders' \in Seq(Loaders)
         /\ state' \in [Loaders -> LoaderStates] /\ transfer' \in [Loaders -> Transfers]
         /\ progressBar' \in BOOLEAN /\ bar' \in Nat \X Nat
         /\ timers' \in Nat /\ timers' <= timers + 1
         /\ batch' \in Nat /\ batch' <= batch + 1
         /\ cancelable' \in BOOLEAN /\ direct' \subseteq Photos
<1> DEFINE images == PhotosOf(document) \ revealed
           todo == {f \in images : f[2] \in Known[document]}
           new == {<<batch + 1, f>> : f \in todo}
           needsQueue == Cardinality(images) >= QueueThreshold
           st == [l \in Loaders |-> IF l \in new THEN "WAITING" ELSE state[l]]
           tr == [l \in Loaders |-> IF l \in new THEN "unsent" ELSE transfer[l]]
<1>1. /\ timers \in Nat /\ batch \in Nat /\ 0 <= timers
  BY DEF TypeOK
<1>2. CASE needsQueue /\ loaders # <<>> /\ UNCHANGED <<queueVars, batchVars>>
  BY <1>1, <1>2 DEF TypeOK, queueVars, batchVars
<1>3. ASSUME NEW queue \in InPageOrder(new), CheckQueue(queue, st, tr, new # {}, 0),
             cancelable' = (new # {}), batch' = batch + 1, UNCHANGED direct
      PROVE  /\ loaders' \in Seq(Loaders)
             /\ state' \in [Loaders -> LoaderStates] /\ transfer' \in [Loaders -> Transfers]
             /\ progressBar' \in BOOLEAN /\ bar' \in Nat \X Nat
             /\ timers' \in Nat /\ timers' <= timers + 1
             /\ batch' \in Nat /\ batch' <= batch + 1
             /\ cancelable' \in BOOLEAN /\ direct' \subseteq Photos
  <2>1. queue \in Seq(Loaders)
    BY <1>3, NewQueue
  <2>2. st \in [Loaders -> LoaderStates] /\ tr \in [Loaders -> Transfers]
    BY DEF TypeOK, LoaderStates, Transfers
  <2>3. bar \in Nat \X Nat /\ direct \subseteq Photos
    BY DEF TypeOK
  <2> HIDE DEF st, tr, new
  <2>4. /\ loaders' \in Seq(Loaders)
        /\ state' \in [Loaders -> LoaderStates] /\ transfer' \in [Loaders -> Transfers]
        /\ progressBar' \in BOOLEAN /\ bar' \in Nat \X Nat
        /\ timers' \in Nat /\ timers' <= timers - 0 + 1
    BY <1>1, <1>3, <2>1, <2>2, <2>3, CheckQueueTypes
  <2> QED
    BY <1>1, <1>3, <2>3, <2>4
<1>4. ASSUME direct' = direct \cup todo, CheckQueue(loaders, state, transfer, progressBar, 0),
             UNCHANGED <<cancelable, batch>>
      PROVE  /\ loaders' \in Seq(Loaders)
             /\ state' \in [Loaders -> LoaderStates] /\ transfer' \in [Loaders -> Transfers]
             /\ progressBar' \in BOOLEAN /\ bar' \in Nat \X Nat
             /\ timers' \in Nat /\ timers' <= timers + 1
             /\ batch' \in Nat /\ batch' <= batch + 1
             /\ cancelable' \in BOOLEAN /\ direct' \subseteq Photos
  <2>1. /\ loaders \in Seq(Loaders)
        /\ state \in [Loaders -> LoaderStates] /\ transfer \in [Loaders -> Transfers]
        /\ progressBar \in BOOLEAN /\ bar \in Nat \X Nat
        /\ cancelable \in BOOLEAN /\ direct \subseteq Photos /\ document \in Pages
    BY DEF TypeOK
  <2>2. /\ loaders' \in Seq(Loaders)
        /\ state' \in [Loaders -> LoaderStates] /\ transfer' \in [Loaders -> Transfers]
        /\ progressBar' \in BOOLEAN /\ bar' \in Nat \X Nat
        /\ timers' \in Nat /\ timers' <= timers - 0 + 1
    BY <1>1, <1>4, <2>1, CheckQueueTypes
  <2>3. direct' \subseteq Photos
    BY <1>4, <2>1, PhotosFinite
  <2> QED
    BY <1>1, <1>4, <2>1, <2>2, <2>3
<1> QED
  BY <1>2, <1>3, <1>4 DEF AutoDecryptNow

LEMMA AutoDecryptSafe ==
  ASSUME TypeOK, Queueing, PlacesKept, batch + 1 \in 1..MaxRequests, AutoDecryptNow
  PROVE  Queueing' /\ PlacesKept'
<1> DEFINE images == PhotosOf(document) \ revealed
           todo == {f \in images : f[2] \in Known[document]}
           new == {<<batch + 1, f>> : f \in todo}
           needsQueue == Cardinality(images) >= QueueThreshold
           st == [l \in Loaders |-> IF l \in new THEN "WAITING" ELSE state[l]]
           tr == [l \in Loaders |-> IF l \in new THEN "unsent" ELSE transfer[l]]
<1>1. loaders \in Seq(Loaders) /\ state \in [Loaders -> LoaderStates]
  BY DEF TypeOK
<1>2. CASE UNCHANGED <<queueVars, batchVars>>
  BY <1>2 DEF Queueing, PlacesKept, queueVars
<1>3. ASSUME NEW queue \in InPageOrder(new), loaders = <<>>,
             CheckQueue(queue, st, tr, new # {}, 0)
      PROVE  Queueing' /\ PlacesKept'
  <2>1. queue \in Seq(Loaders) /\ Range(queue) = new
    BY <1>3, NewQueue
  <2>2. st \in [Loaders -> LoaderStates]
    BY <1>1 DEF LoaderStates
  <2>3. \A l \in Loaders : state[l] \notin Active
    BY <1>3 DEF Queueing, Range
  <2>4. \A l \in Loaders : st[l] \in Active => l \in Range(queue)
    BY <2>1, <2>3
  <2>5. {l \in Loaders : st[l] = "LOADING"} = {}
    BY <2>3 DEF Active
  <2>6. Cardinality({l \in Loaders : st[l] = "LOADING"}) <= MaxLoading
    <3>1. Cardinality({l \in Loaders : st[l] = "LOADING"}) = 0
      BY <2>5, FS_EmptySet, Zenon
    <3>2. MaxLoading \in Nat
      BY AutoDecryptAssumption
    <3> HIDE DEF st
    <3> QED
      BY <3>1, <3>2
  <2> HIDE DEF st, tr, new
  <2> QED
    BY <1>3, <2>1, <2>2, <2>4, <2>6, CheckQueueSafe
<1>4. CASE CheckQueue(loaders, state, transfer, progressBar, 0)
  BY <1>1, <1>4, CheckQueueSafe DEF Queueing, PlacesKept
<1> QED
  BY <1>2, <1>3, <1>4 DEF AutoDecryptNow

(***************************************************************************)
(* The steps                                                               *)
(***************************************************************************)

\* checkIfReady(), with room for one more of a batch or of a timer.
LEMMA CheckIfReadyStep ==
  ASSUME TypeOK, Queueing, PlacesKept, NEW soFar \in Nat, NEW pending \in Nat,
         batch + 1 \in 1..MaxRequests, CheckIfReady(soFar, pending)
  PROVE  /\ loaders' \in Seq(Loaders)
         /\ state' \in [Loaders -> LoaderStates] /\ transfer' \in [Loaders -> Transfers]
         /\ progressBar' \in BOOLEAN /\ bar' \in Nat \X Nat
         /\ cancelable' \in BOOLEAN /\ direct' \subseteq Photos
         /\ timers' \in Nat /\ batch' \in Nat
         /\ \/ /\ tries' = soFar /\ polls' = pending
               /\ timers' <= timers + 1 /\ batch' <= batch + 1
            \/ /\ tries' = soFar + 1 /\ polls' = pending + IF soFar + 1 < MaxTries THEN 1 ELSE 0
               /\ timers' = timers /\ batch' = batch
         /\ Queueing' /\ PlacesKept'
<1>1. CASE AutoDecryptNow /\ tries' = soFar /\ polls' = pending
  BY <1>1, AutoDecryptTypes, AutoDecryptSafe
<1>2. CASE /\ tries' = soFar + 1 /\ polls' = pending + IF soFar + 1 < MaxTries THEN 1 ELSE 0
           /\ UNCHANGED <<queueVars, batchVars>>
  BY <1>2 DEF TypeOK, Queueing, PlacesKept, queueVars, batchVars
<1> QED
  BY <1>1, <1>2 DEF CheckIfReady

LEMMA WithinPoll ==
  ASSUME NEW p \in Nat, NEW t \in Nat, NEW b \in Nat, NEW n \in Nat, NEW r \in Nat,
         NEW m \in Nat, Within(p, t, b, n, r, m), NEW t2 \in Nat, t2 <= t - 1 + 1
  PROVE  Within(p, t2, b, n, r, m) /\ t2 \in 0..r
  BY DEF Within

LEMMA RequestStep ==
  ASSUME Inv, NEW force \in BOOLEAN, AutoDecryptRequest(force)
  PROVE  Inv'
<1> USE DEF Inv
<1>1. /\ requests \in Nat /\ polls \in Nat /\ timers \in Nat /\ batch \in Nat /\ tries \in Nat
      /\ MaxRequests \in Nat /\ MaxTries \in Nat \ {0}
  BY AutoDecryptAssumption DEF TypeOK
<1>0. /\ requests' = requests + 1 /\ requests + 1 \in 0..MaxRequests
      /\ batch + 1 \in 1..MaxRequests
  BY <1>1 DEF AutoDecryptRequest, TypeOK, Chains, Within
<1>2. /\ document \in Pages /\ UNCHANGED <<document, ready, revealed, failures>>
      /\ supportsAutodecrypt' \in BOOLEAN
  BY AutoDecryptAssumption DEF AutoDecryptRequest, TypeOK, pageVars, Supports
<1>3. CASE UNCHANGED <<lastAutoDecrypt, polls, tries, queueVars, batchVars>>
  <2>1. TypeOK'
    BY <1>1, <1>0, <1>2, <1>3 DEF TypeOK, queueVars, batchVars
  <2>2. Queueing' /\ PlacesKept'
    BY <1>3 DEF Queueing, PlacesKept, queueVars
  <2>3. Chains'
    BY <1>1, <1>0, <1>3 DEF Chains, Within, queueVars, batchVars
  <2> QED
    BY <2>1, <2>2, <2>3
<1>4. CASE lastAutoDecrypt' = document /\ CheckIfReady(0, polls)
  <2>1. /\ loaders' \in Seq(Loaders)
        /\ state' \in [Loaders -> LoaderStates] /\ transfer' \in [Loaders -> Transfers]
        /\ progressBar' \in BOOLEAN /\ bar' \in Nat \X Nat
        /\ cancelable' \in BOOLEAN /\ direct' \subseteq Photos
        /\ timers' \in Nat /\ batch' \in Nat
        /\ \/ /\ tries' = 0 /\ polls' = polls
              /\ timers' <= timers + 1 /\ batch' <= batch + 1
           \/ /\ tries' = 0 + 1 /\ polls' = polls + IF 0 + 1 < MaxTries THEN 1 ELSE 0
              /\ timers' = timers /\ batch' = batch
        /\ Queueing' /\ PlacesKept'
    BY <1>1, <1>0, <1>4, CheckIfReadyStep
  <2>2. polls' \in Nat /\ timers' \in Nat /\ batch' \in Nat /\ tries' \in Nat
    BY <1>1, <2>1
  <2>3. /\ Within(polls', timers', batch', tries', requests + 1, MaxTries)
        /\ polls' \in 0..(requests + 1) /\ timers' \in 0..(requests + 1)
        /\ batch' \in 0..(requests + 1) /\ tries' \in 0..(MaxTries + (requests + 1))
    <3>1. Within(polls, timers, batch, tries, requests, MaxTries)
      BY DEF Chains
    <3>2. \/ tries' = 0 /\ polls' = polls /\ timers' <= timers + 1 /\ batch' <= batch + 1
          \/ /\ tries' = 0 + 1 /\ polls' = polls + (IF 0 + 1 < MaxTries THEN 1 ELSE 0)
             /\ timers' = timers /\ batch' = batch
      BY <2>1
    <3> QED
      <4> DEFINE p == polls   t == timers   b == batch   n == tries   r == requests
             p2 == polls'   t2 == timers'   b2 == batch'   n2 == tries'   m == MaxTries
      <4>1. /\ p \in Nat /\ t \in Nat /\ b \in Nat /\ n \in Nat /\ r \in Nat /\ m \in Nat \ {0}
            /\ p2 \in Nat /\ t2 \in Nat /\ b2 \in Nat /\ n2 \in Nat
        BY <1>1, <2>2
      <4>2. /\ Within(p, t, b, n, r, m)
            /\ \/ n2 = 0 /\ p2 = p /\ t2 <= t + 1 /\ b2 <= b + 1
               \/ n2 = 0 + 1 /\ p2 = p + (IF 0 + 1 < m THEN 1 ELSE 0) /\ t2 = t /\ b2 = b
        BY <3>1, <3>2
      <4> HIDE DEF p, t, b, n, r, p2, t2, b2, n2, m
      <4>3. /\ Within(p2, t2, b2, n2, r + 1, m)
            /\ p2 \in 0..(r + 1) /\ t2 \in 0..(r + 1) /\ b2 \in 0..(r + 1)
            /\ n2 \in 0..(m + (r + 1))
        BY <4>1, <4>2 DEF Within
      <4> QED
        BY <4>3 DEF p, t, b, n, r, p2, t2, b2, n2, m
  <2>4. Chains'
    BY <1>0, <2>3 DEF Chains
  <2>5. TypeOK'
    BY <1>0, <1>2, <1>4, <2>1, <2>3 DEF TypeOK
  <2> QED
    BY <2>1, <2>4, <2>5
<1> QED
  BY <1>3, <1>4 DEF AutoDecryptRequest

LEMMA ReadyTimerStep ==
  ASSUME Inv, ReadyTimer
  PROVE  Inv'
<1> USE DEF Inv
<1>1. /\ requests \in Nat /\ polls \in Nat /\ timers \in Nat /\ batch \in Nat /\ tries \in Nat
      /\ MaxRequests \in Nat /\ MaxTries \in Nat \ {0} /\ requests \in 0..MaxRequests
      /\ tries \in 0..(MaxTries + requests)
  BY AutoDecryptAssumption DEF TypeOK
<1>0. requests' = requests /\ 0 < polls /\ polls - 1 \in Nat /\ batch + 1 \in 1..MaxRequests
  BY <1>1 DEF ReadyTimer, Chains, Within
<1>2. /\ UNCHANGED <<document, ready, lastAutoDecrypt, revealed, failures>>
      /\ supportsAutodecrypt' \in BOOLEAN
  BY AutoDecryptAssumption DEF ReadyTimer, TypeOK, pageVars, Supports
<1>3. /\ loaders' \in Seq(Loaders)
      /\ state' \in [Loaders -> LoaderStates] /\ transfer' \in [Loaders -> Transfers]
      /\ progressBar' \in BOOLEAN /\ bar' \in Nat \X Nat
      /\ cancelable' \in BOOLEAN /\ direct' \subseteq Photos
      /\ timers' \in Nat /\ batch' \in Nat
      /\ \/ /\ tries' = tries /\ polls' = polls - 1
            /\ timers' <= timers + 1 /\ batch' <= batch + 1
         \/ /\ tries' = tries + 1 /\ polls' = polls - 1 + IF tries + 1 < MaxTries THEN 1 ELSE 0
            /\ timers' = timers /\ batch' = batch
      /\ Queueing' /\ PlacesKept'
  BY <1>1, <1>0, CheckIfReadyStep DEF ReadyTimer
<1>4. polls' \in Nat /\ timers' \in Nat /\ batch' \in Nat /\ tries' \in Nat
  BY <1>1, <1>0, <1>3
<1>5. /\ Within(polls', timers', batch', tries', requests, MaxTries)
      /\ polls' \in 0..requests /\ timers' \in 0..requests /\ batch' \in 0..requests
      /\ tries' \in 0..(MaxTries + requests)
  <2>1. Within(polls, timers, batch, tries, requests, MaxTries)
    BY DEF Chains
  <2>2. \/ /\ tries' = tries /\ polls' = polls - 1
           /\ timers' <= timers + 1 /\ batch' <= batch + 1
        \/ /\ tries' = tries + 1 /\ polls' = polls - 1 + (IF tries + 1 < MaxTries THEN 1 ELSE 0)
           /\ timers' = timers /\ batch' = batch
    BY <1>3
  <2> QED
    <3> DEFINE p == polls   t == timers   b == batch   n == tries   r == requests
           p2 == polls'   t2 == timers'   b2 == batch'   n2 == tries'   m == MaxTries
    <3>1. /\ p \in Nat /\ t \in Nat /\ b \in Nat /\ n \in Nat /\ r \in Nat /\ m \in Nat \ {0}
          /\ p2 \in Nat /\ t2 \in Nat /\ b2 \in Nat /\ n2 \in Nat /\ 0 < p /\ n \in 0..(m + r)
      BY <1>1, <1>0, <1>4
    <3>2. /\ Within(p, t, b, n, r, m)
          /\ \/ n2 = n /\ p2 = p - 1 /\ t2 <= t + 1 /\ b2 <= b + 1
             \/ n2 = n + 1 /\ p2 = p - 1 + (IF n + 1 < m THEN 1 ELSE 0) /\ t2 = t /\ b2 = b
      BY <2>1, <2>2
    <3> HIDE DEF p, t, b, n, r, p2, t2, b2, n2, m
    <3>3. /\ Within(p2, t2, b2, n2, r, m)
          /\ p2 \in 0..r /\ t2 \in 0..r /\ b2 \in 0..r /\ n2 \in 0..(m + r)
      BY <3>1, <3>2 DEF Within
    <3> QED
      BY <3>3 DEF p, t, b, n, r, p2, t2, b2, n2, m
<1>6. Chains'
  BY <1>0, <1>5 DEF Chains
<1>7. TypeOK'
  BY <1>1, <1>0, <1>2, <1>3, <1>5 DEF TypeOK
<1> QED
  BY <1>3, <1>6, <1>7

LEMMA CheckQueueTimerStep ==
  ASSUME Inv, CheckQueueTimer
  PROVE  Inv'
<1> USE DEF Inv
<1>1. /\ loaders \in Seq(Loaders)
      /\ state \in [Loaders -> LoaderStates] /\ transfer \in [Loaders -> Transfers]
      /\ progressBar \in BOOLEAN /\ bar \in Nat \X Nat
      /\ timers \in Nat /\ 1 <= timers /\ requests \in Nat /\ polls \in Nat
  BY AutoDecryptAssumption DEF CheckQueueTimer, TypeOK
<1>2. CheckQueue(loaders, state, transfer, progressBar, 1)
  BY DEF CheckQueueTimer
<1>3. UNCHANGED <<document, ready, supportsAutodecrypt, lastAutoDecrypt, polls, tries, requests,
                  cancelable, direct, batch, revealed, failures>>
  BY DEF CheckQueueTimer, pageVars, requestVars, batchVars
<1>4. /\ loaders' \in Seq(Loaders)
      /\ state' \in [Loaders -> LoaderStates] /\ transfer' \in [Loaders -> Transfers]
      /\ progressBar' \in BOOLEAN /\ bar' \in Nat \X Nat
      /\ timers' \in Nat /\ timers' <= timers - 1 + 1
  BY <1>1, <1>2, CheckQueueTypes
<1>5. Chains' /\ timers' \in 0..requests
  <2>1. /\ polls \in Nat /\ batch \in Nat /\ tries \in Nat /\ requests \in Nat
        /\ timers \in Nat /\ MaxTries \in Nat
    BY AutoDecryptAssumption DEF TypeOK
  <2>2. Within(polls, timers', batch, tries, requests, MaxTries) /\ timers' \in 0..requests
    BY <1>4, <2>1, WithinPoll DEF Chains
  <2> QED
    BY <1>3, <2>2 DEF Chains
<1>6. TypeOK'
  BY <1>3, <1>4, <1>5 DEF TypeOK
<1>7. Queueing' /\ PlacesKept'
  BY <1>1, <1>2, CheckQueueSafe DEF Queueing, PlacesKept
<1> QED
  BY <1>5, <1>6, <1>7

\* A step after which no loader downloads or waits that did not before.
LEMMA FewerActive ==
  ASSUME Queueing, PlacesKept, UNCHANGED loaders,
         \A l \in Loaders : state'[l] \in Active => state'[l] = state[l]
  PROVE  Queueing' /\ PlacesKept'
<1>1. Queueing'
  BY DEF Queueing
<1>2. {l \in Loaders : state'[l] = "LOADING"} \in SUBSET {l \in Loaders : state[l] = "LOADING"}
  BY DEF Active
<1>3. IsFiniteSet({l \in Loaders : state[l] = "LOADING"})
  BY LoadersFinite, FS_Subset
<1>4. /\ Cardinality({l \in Loaders : state'[l] = "LOADING"}) \in Nat
      /\ Cardinality({l \in Loaders : state[l] = "LOADING"}) \in Nat
      /\ Cardinality({l \in Loaders : state'[l] = "LOADING"})
           <= Cardinality({l \in Loaders : state[l] = "LOADING"})
  BY <1>2, <1>3, FS_Subset, FS_CardinalityType
<1> QED
  BY <1>1, <1>4, AutoDecryptAssumption DEF PlacesKept

LEMMA LoaderStepKeeps ==
  ASSUME Inv, NEW l \in Loaders, LoaderStep(l)
  PROVE  Inv'
<1> USE DEF Inv
<1>1. UNCHANGED <<document, ready, supportsAutodecrypt, lastAutoDecrypt, polls, tries, requests,
                  cancelable, direct, batch, loaders, progressBar, bar, timers>>
  BY DEF LoaderStep, Downloaded, DownloadFailed, NoCodec, Decoded, loaderFrame, pageVars,
         requestVars, batchVars
<1>2. /\ state' \in [Loaders -> LoaderStates] /\ transfer' \in [Loaders -> Transfers]
      /\ failures' \in 0..MaxFailures
  <2>1. /\ state \in [Loaders -> LoaderStates] /\ transfer \in [Loaders -> Transfers]
        /\ failures \in 0..MaxFailures /\ MaxFailures \in Nat
    BY AutoDecryptAssumption DEF TypeOK
  <2>2. CASE Downloaded(l)
    BY <2>1, <2>2 DEF Downloaded, LoaderStates, Transfers
  <2>3. CASE DownloadFailed(l)
    <3>1. state' = state /\ failures' = failures + 1 /\ failures < MaxFailures
      BY <2>3 DEF DownloadFailed
    <3>2. transfer' \in [Loaders -> Transfers]
      BY <2>1, <2>3 DEF DownloadFailed, Transfers
    <3>3. failures' \in 0..MaxFailures
      BY <2>1, <3>1
    <3> QED
      BY <2>1, <3>1, <3>2, <3>3
  <2>4. CASE NoCodec(l)
    BY <2>1, <2>4 DEF NoCodec, Transfers
  <2>5. CASE \E result \in BOOLEAN : Decoded(l, result)
    BY <2>1, <2>5 DEF Decoded, LoaderStates, Transfers
  <2> QED
    BY <2>2, <2>3, <2>4, <2>5 DEF LoaderStep
<1>3. revealed' \subseteq Photos
  BY DEF LoaderStep, Downloaded, DownloadFailed, NoCodec, Decoded, TypeOK, Loaders
<1>4. \A m \in Loaders : state'[m] \in Active => state'[m] = state[m]
  BY DEF LoaderStep, Downloaded, DownloadFailed, NoCodec, Decoded, TypeOK, Active
<1>5. TypeOK'
  BY <1>1, <1>2, <1>3 DEF TypeOK
<1>6. Chains'
  BY <1>1 DEF Chains
<1> QED
  BY <1>1, <1>4, <1>5, <1>6, FewerActive

LEMMA InvInit == Init => Inv
<1> SUFFICES ASSUME Init
             PROVE  Inv
  OBVIOUS
<1>1. TypeOK
  <2>1. loaders \in Seq(Loaders)
    BY DEF Init
  <2>2. /\ polls \in 0..requests /\ tries \in 0..(MaxTries + requests)
        /\ timers \in 0..requests /\ batch \in 0..requests /\ requests \in 0..MaxRequests
        /\ failures \in 0..MaxFailures /\ bar \in Nat \X Nat
    BY AutoDecryptAssumption DEF Init
  <2>3. document \in Pages /\ ready \in BOOLEAN /\ supportsAutodecrypt \in BOOLEAN
    BY AutoDecryptAssumption DEF Init, Readiness, Supports
  <2> QED
    BY <2>1, <2>2, <2>3 DEF Init, TypeOK, LoaderStates, Transfers
<1>2. {l \in Loaders : state[l] = "LOADING"} = {}
  BY DEF Init
<1>3. PlacesKept
  <2>1. Cardinality({}) = 0 /\ MaxLoading \in Nat
    BY FS_EmptySet, AutoDecryptAssumption
  <2> QED
    BY <1>2, <2>1 DEF PlacesKept
<1>4. Queueing /\ Chains
  BY AutoDecryptAssumption DEF Init, Queueing, Active, Chains, Within
<1> QED
  BY <1>1, <1>3, <1>4 DEF Inv

LEMMA InvStep == Inv /\ [Next]_vars => Inv'
<1> SUFFICES ASSUME Inv, [Next]_vars
             PROVE  Inv'
  OBVIOUS
<1>1. ASSUME NEW force \in BOOLEAN, AutoDecryptRequest(force)
      PROVE  Inv'
  BY <1>1, RequestStep
<1>2. CASE ReadyTimer
  BY <1>2, ReadyTimerStep
<1>3. CASE CheckQueueTimer
  BY <1>3, CheckQueueTimerStep
<1>4. ASSUME NEW l \in Loaders, LoaderStep(l)
      PROVE  Inv'
  BY <1>4, LoaderStepKeeps
<1>5. ASSUME NEW f \in Photos, NEW result \in BOOLEAN, DirectSettled(f, result)
      PROVE  Inv'
  BY <1>5 DEF DirectSettled, Inv, TypeOK, Queueing, PlacesKept, Chains, pageVars, requestVars,
              queueVars
<1>6. CASE Cancel
  <2>1. UNCHANGED <<document, ready, supportsAutodecrypt, lastAutoDecrypt, polls, tries, requests,
                    direct, batch, loaders, transfer, progressBar, bar, timers, revealed, failures>>
    BY <1>6 DEF Cancel, pageVars, requestVars
  <2>2. cancelable' \in BOOLEAN /\ state' \in [Loaders -> LoaderStates]
    BY <1>6 DEF Cancel, Inv, TypeOK, LoaderStates
  <2>3. \A l \in Loaders : state'[l] \in Active => state'[l] = state[l]
    BY <1>6 DEF Cancel, Active
  <2>4. TypeOK' /\ Chains'
    BY <2>1, <2>2 DEF Inv, TypeOK, Chains
  <2> QED
    BY <2>1, <2>3, <2>4, FewerActive DEF Inv
<1>7. ASSUME NEW p \in Pages, Navigate(p)
      PROVE  Inv'
  <2>1. ready' \in BOOLEAN
    BY <1>7 DEF Navigate, Readiness
  <2> QED
    BY <1>7, <2>1 DEF Navigate, Inv, TypeOK, Queueing, PlacesKept, Chains, requestVars,
                     queueVars, batchVars
<1>8. CASE PageBuilt
  BY <1>8 DEF PageBuilt, Inv, TypeOK, Queueing, PlacesKept, Chains, requestVars, queueVars,
              batchVars
<1>9. CASE UNCHANGED vars
  BY <1>9 DEF vars, Inv, TypeOK, Queueing, PlacesKept, Chains, pageVars, requestVars, queueVars,
              batchVars
<1> QED
  BY <1>1, <1>2, <1>3, <1>4, <1>5, <1>6, <1>7, <1>8, <1>9 DEF Next

LEMMA InvHolds == SafeSpec => []Inv
BY InvInit, InvStep, PTL DEF SafeSpec

\* TypeOK is an invariant: the chains of timers that requests begin never multiply, and each
\* tries for the page no more than once after the tries are used up.
THEOREM TypeCorrect == SafeSpec => []TypeOK
<1>1. Inv => TypeOK
  BY DEF Inv
<1> QED
  BY <1>1, InvHolds, PTL

LEMMA EmptiedWhenDone ==
  ASSUME Inv, [Next]_vars, loaders # <<>>, loaders' = <<>>
  PROVE  \A i \in DOMAIN loaders : state[loaders[i]] \notin Active
<1>1. loaders \in Seq(Loaders)
  BY DEF Inv, TypeOK
<1>2. ASSUME NEW tr, NEW fired, CheckQueue(loaders, state, tr, progressBar, fired)
      PROVE  \A i \in DOMAIN loaders : state[loaders[i]] \notin Active
  <2>1. Complete(loaders, state)
    BY <1>2 DEF CheckQueue
  <2> QED
    BY <1>1, <2>1, CompleteIsDone
<1>3. ASSUME AutoDecryptNow
      PROVE  CheckQueue(loaders, state, transfer, progressBar, 0)
  BY <1>3 DEF AutoDecryptNow, queueVars
<1>4. \/ AutoDecryptNow \/ CheckQueueTimer \/ UNCHANGED loaders
  BY DEF Next, vars, AutoDecryptRequest, ReadyTimer, CheckIfReady, LoaderStep, Downloaded,
         DownloadFailed, NoCodec, Decoded, loaderFrame, DirectSettled, Cancel, Navigate, PageBuilt,
         queueVars
<1> QED
  BY <1>2, <1>3, <1>4 DEF CheckQueueTimer

\* Whoever empties the queue, a timer or a request, nothing in it waits or downloads.
THEOREM NothingForgottenHolds == SafeSpec => NothingForgotten
<1>1. Inv /\ [Next]_vars =>
        [loaders # <<>> /\ loaders' = <<>>
           => \A i \in DOMAIN loaders : state[loaders[i]] \notin {"WAITING", "LOADING"}]_vars
  BY EmptiedWhenDone DEF Active
<1> QED
  BY <1>1, InvHolds, PTL DEF SafeSpec, NothingForgotten

(***************************************************************************)
(* The bar                                                                 *)
(***************************************************************************)

Counted == {"WAITING", "LOADING", "DONE"}

\* A loader is LOADED only from LOADING or CANCELED, and DONE only from LOADED or CANCELED.
OnItsWay(st, tr) ==
  \A l \in Loaders : /\ tr[l] = "sent" => st[l] \in {"LOADING", "CANCELED"}
                     /\ tr[l] = "decoding" => st[l] \in {"LOADED", "CANCELED"}

\* What the bar shows is no more than what is the case now.
Behind(b, ls, st) == b[1] * Total(ls, st) <= Count(ls, st, "DONE") * b[2]

BarInv ==
  /\ OnItsWay(state, transfer)
  /\ bar[1] <= bar[2]
  /\ progressBar => loaders # <<>> /\ Behind(bar, loaders, state)

\* Two sets that have nothing in common.
LEMMA DisjointUnion ==
  ASSUME NEW S, IsFiniteSet(S), NEW T, IsFiniteSet(T), S \cap T = {}
  PROVE  /\ IsFiniteSet(S \cup T) /\ Cardinality(S \cup T) = Cardinality(S) + Cardinality(T)
         /\ Cardinality(S) \in Nat /\ Cardinality(T) \in Nat
<1>1. /\ IsFiniteSet(S \cup T)
      /\ Cardinality(S \cup T) = Cardinality(S) + Cardinality(T) - Cardinality(S \cap T)
  BY FS_Union
<1>2. Cardinality(S \cap T) = 0
  BY FS_EmptySet
<1>3. Cardinality(S) \in Nat /\ Cardinality(T) \in Nat
  BY FS_CardinalityType
<1> QED
  BY <1>1, <1>2, <1>3

CountedPositions(ls, st) == {i \in DOMAIN ls : st[ls[i]] \in Counted}

\* totalCount counts the positions of three states.
LEMMA TotalIs ==
  ASSUME NEW ls \in Seq(Loaders), NEW st
  PROVE  /\ IsFiniteSet(CountedPositions(ls, st))
         /\ Total(ls, st) = Cardinality(CountedPositions(ls, st)) /\ Total(ls, st) \in Nat
<1> DEFINE W == Positions(ls, st, "WAITING")
           L == Positions(ls, st, "LOADING")
           D == Positions(ls, st, "DONE")
<1>1. /\ IsFiniteSet(W) /\ Count(ls, st, "WAITING") = Cardinality(W)
      /\ IsFiniteSet(L) /\ Count(ls, st, "LOADING") = Cardinality(L)
      /\ IsFiniteSet(D) /\ Count(ls, st, "DONE") = Cardinality(D)
      /\ Cardinality(W) \in Nat /\ Cardinality(L) \in Nat /\ Cardinality(D) \in Nat
  BY CountType
<1>2. /\ W \cap L = {} /\ (W \cup L) \cap D = {}
      /\ CountedPositions(ls, st) = (W \cup L) \cup D
  BY DEF Positions, CountedPositions, Counted
<1> HIDE DEF W, L, D
<1>3. IsFiniteSet(W \cup L) /\ Cardinality(W \cup L) = Cardinality(W) + Cardinality(L)
  BY <1>1, <1>2, DisjointUnion
<1> DEFINE V == W \cup L
<1>4. IsFiniteSet(V \cup D) /\ Cardinality(V \cup D) = Cardinality(V) + Cardinality(D)
  <2>1. IsFiniteSet(V) /\ V \cap D = {}
    BY <1>2, <1>3
  <2> HIDE DEF V
  <2> QED
    BY <1>1, <2>1, DisjointUnion
<1> QED
  BY <1>1, <1>2, <1>3, <1>4 DEF Total

\* As many are DONE as before, and no more are counted.
LEMMA NoMoreCounted ==
  ASSUME NEW ls \in Seq(Loaders), NEW st, NEW st2,
         \A l \in Loaders : /\ st2[l] = "DONE" <=> st[l] = "DONE"
                            /\ st2[l] \in Counted => st[l] \in Counted,
         NEW b \in Nat \X Nat, Behind(b, ls, st)
  PROVE  Behind(b, ls, st2)
<1>1. \A i \in DOMAIN ls : ls[i] \in Loaders
  OBVIOUS
<1>2. Count(ls, st2, "DONE") = Count(ls, st, "DONE") /\ Count(ls, st, "DONE") \in Nat
  <2>1. Positions(ls, st2, "DONE") = Positions(ls, st, "DONE")
    BY <1>1 DEF Positions
  <2> QED
    BY <2>1, CountType
<1>3. Total(ls, st2) <= Total(ls, st) /\ Total(ls, st) \in Nat /\ Total(ls, st2) \in Nat
  <2>1. CountedPositions(ls, st2) \in SUBSET CountedPositions(ls, st)
    BY <1>1 DEF CountedPositions
  <2> QED
    BY <2>1, TotalIs, FS_Subset
<1> DEFINE b1 == b[1]   b2 == b[2]   t == Total(ls, st)   t2 == Total(ls, st2)
           c == Count(ls, st, "DONE")
<1>4. b1 \in Nat /\ b2 \in Nat /\ t \in Nat /\ t2 \in Nat /\ c \in Nat /\ t2 <= t
  BY <1>2, <1>3
<1>5. b1 * t <= c * b2
  BY DEF Behind
<1> HIDE DEF b1, b2, t, t2, c
<1>6. b1 * t2 <= b1 * t /\ b1 * t2 \in Nat /\ b1 * t \in Nat /\ c * b2 \in Nat
  BY <1>4
<1>7. b1 * t2 <= c * b2
  BY <1>5, <1>6
<1> QED
  BY <1>2, <1>7 DEF Behind, b1, b2, t2, c

\* One more loader is DONE, and counted.
LEMMA OneMoreDone ==
  ASSUME NEW ls \in Seq(Loaders), NEW st, NEW st2, NEW l \in Loaders,
         st[l] \notin Counted, st2[l] = "DONE", \A m \in Loaders : m # l => st2[m] = st[m],
         NEW b \in Nat \X Nat, b[1] <= b[2], Behind(b, ls, st)
  PROVE  Behind(b, ls, st2)
<1> DEFINE P == {i \in DOMAIN ls : ls[i] = l}
           D == Positions(ls, st, "DONE")
           T == CountedPositions(ls, st)
           c == Count(ls, st, "DONE")
           t == Total(ls, st)
           p == Cardinality(P)
<1>1. DOMAIN ls = 1..Len(ls) /\ Len(ls) \in Nat /\ \A i \in DOMAIN ls : ls[i] \in Loaders
  OBVIOUS
<1>2. IsFiniteSet(P) /\ p \in Nat
  <2>1. P \in SUBSET (DOMAIN ls)
    OBVIOUS
  <2>2. IsFiniteSet(1..Len(ls))
    BY <1>1, FS_Interval
  <2>3. IsFiniteSet(DOMAIN ls)
    BY <1>1, <2>2
  <2> HIDE DEF P
  <2> QED
    BY <2>1, <2>3, FS_Subset, FS_CardinalityType
<1>3. IsFiniteSet(D) /\ c = Cardinality(D) /\ c \in Nat /\ IsFiniteSet(T) /\ t = Cardinality(T)
      /\ t \in Nat
  BY CountType, TotalIs
<1>4. /\ Positions(ls, st2, "DONE") = D \cup P /\ D \cap P = {}
      /\ CountedPositions(ls, st2) = T \cup P /\ T \cap P = {}
  BY <1>1 DEF Positions, CountedPositions, Counted
<1>5. Count(ls, st2, "DONE") = Cardinality(Positions(ls, st2, "DONE"))
  BY CountType
<1>6. Total(ls, st2) = Cardinality(CountedPositions(ls, st2))
  BY TotalIs
<1> HIDE DEF D, T, P, c, t
<1>7. Count(ls, st2, "DONE") = c + p /\ Total(ls, st2) = t + p
  <2>1. Cardinality(D \cup P) = Cardinality(D) + Cardinality(P)
    BY <1>2, <1>3, <1>4, DisjointUnion
  <2>2. Cardinality(T \cup P) = Cardinality(T) + Cardinality(P)
    BY <1>2, <1>3, <1>4, DisjointUnion
  <2> QED
    BY <1>3, <1>4, <1>5, <1>6, <2>1, <2>2
<1> DEFINE b1 == b[1]   b2 == b[2]
<1>8. b1 \in Nat /\ b2 \in Nat /\ b1 <= b2
  OBVIOUS
<1>9. b1 * t <= c * b2
  BY DEF Behind, t, c
<1> HIDE DEF b1, b2, p
<1>10. b1 * (t + p) <= (c + p) * b2
  <2>1. b1 * p <= p * b2 /\ b1 * (t + p) = b1 * t + b1 * p /\ (c + p) * b2 = c * b2 + p * b2
    BY <1>2, <1>3, <1>8
  <2>2. b1 * t \in Nat /\ b1 * p \in Nat /\ c * b2 \in Nat /\ p * b2 \in Nat
    BY <1>2, <1>3, <1>8
  <2> QED
    BY <1>9, <2>1, <2>2
<1> QED
  BY <1>7, <1>10 DEF Behind, b1, b2

\* checkQueue() makes the bar show what is the case.
LEMMA CheckQueueBar ==
  ASSUME NEW ls \in Seq(Loaders), NEW st \in [Loaders -> LoaderStates],
         NEW tr \in [Loaders -> Transfers], NEW open \in BOOLEAN, NEW fired,
         CheckQueue(ls, st, tr, open, fired), OnItsWay(st, tr), open => ls # <<>>,
         bar \in Nat \X Nat, bar[1] <= bar[2]
  PROVE  BarInv' /\ (open => bar' = Shown(ls, st))
<1> DEFINE finish == ls # <<>> /\ open /\ Complete(ls, st)
           S == IF finish THEN {} ELSE Started(ls, st)
<1>1. /\ loaders' = IF finish THEN <<>> ELSE ls
      /\ progressBar' = (open /\ ~finish)
      /\ bar' = IF open THEN Shown(ls, st) ELSE bar
  BY DEF CheckQueue, BarAfter
<1>2. /\ \A l \in Loaders : state'[l] = IF l \in S THEN "LOADING" ELSE st[l]
      /\ \A l \in Loaders : transfer'[l] = IF l \in S THEN "sent" ELSE tr[l]
  BY DEF CheckQueue
<1>3. \A l \in S : st[l] = "WAITING"
  BY DEF Started
<1>4. OnItsWay(state', transfer')
  BY <1>2 DEF OnItsWay
<1> DEFINE c == Count(ls, st, "DONE")
           t == Total(ls, st)
<1>5. c \in Nat /\ t \in Nat /\ c <= t /\ Shown(ls, st) = <<c, t>>
  BY CountType DEF Shown, Total
<1>6. bar'[1] <= bar'[2]
  BY <1>1, <1>5
<1>7. open => Behind(bar', ls, state')
  <2> SUFFICES ASSUME open PROVE Behind(bar', ls, state')
    OBVIOUS
  <2>1. bar' = <<c, t>> /\ bar' \in Nat \X Nat
    BY <1>1, <1>5
  <2> HIDE DEF S, finish
  <2> DEFINE d == bar'   s == state'
  <2>2. d \in Nat \X Nat
    BY <2>1
  <2>3. Behind(d, ls, st)
    <3>1. d[1] = c /\ d[2] = t
      BY <2>1
    <3> QED
      BY <1>5, <3>1 DEF Behind
  <2>4. \A l \in Loaders : /\ s[l] = "DONE" <=> st[l] = "DONE"
                           /\ s[l] \in Counted => st[l] \in Counted
    BY <1>2, <1>3 DEF Counted
  <2> HIDE DEF d, s
  <2>5. Behind(d, ls, s)
    BY <2>2, <2>3, <2>4, NoMoreCounted
  <2> QED
    BY <2>5 DEF d, s
<1>8. progressBar' => loaders' # <<>> /\ Behind(bar', loaders', state')
  <2>1. progressBar' => open /\ loaders' = ls
    BY <1>1
  <2> QED
    BY <1>7, <2>1
<1> QED
  BY <1>1, <1>4, <1>6, <1>8 DEF BarInv

\* A step after which the queue and the dialog are what they were.
LEMMA SameQueueBar ==
  ASSUME BarInv, UNCHANGED <<loaders, state, transfer, progressBar, bar>>
  PROVE  BarInv'
BY DEF BarInv, OnItsWay, Behind, Total, Count

\* A step of a loader or of the Cancel button.
LEMMA SameBar ==
  ASSUME BarInv, UNCHANGED <<loaders, progressBar, bar>>, OnItsWay(state', transfer'),
         Behind(bar, loaders, state) => Behind(bar, loaders, state')
  PROVE  BarInv'
BY DEF BarInv, Behind, Total, Count

\* autoDecrypt() begins a batch with a new bar, or calls checkQueue() for the old one.
LEMMA AutoDecryptBar ==
  ASSUME Inv, BarInv, batch + 1 \in 1..MaxRequests, AutoDecryptNow
  PROVE  /\ BarInv'
         /\ batch' # batch \/ bar' = bar \/ (progressBar => bar' = Shown(loaders, state))
<1>1. /\ loaders \in Seq(Loaders) /\ state \in [Loaders -> LoaderStates]
      /\ transfer \in [Loaders -> Transfers] /\ progressBar \in BOOLEAN /\ bar \in Nat \X Nat
      /\ TypeOK /\ OnItsWay(state, transfer) /\ bar[1] <= bar[2] /\ batch \in Nat
      /\ progressBar => loaders # <<>>
  BY DEF Inv, TypeOK, BarInv
<1> DEFINE todo == {f \in PhotosOf(document) \ revealed : f[2] \in Known[document]}
           new == {<<batch + 1, f>> : f \in todo}
<1>2. CASE UNCHANGED <<queueVars, batchVars>>
  BY <1>2, SameQueueBar DEF queueVars
<1>3. CASE CheckQueue(loaders, state, transfer, progressBar, 0)
  BY <1>1, <1>3, CheckQueueBar
<1>4. ASSUME batch' = batch + 1, NEW queue \in InPageOrder(new),
             CheckQueue(queue,
                        [l \in Loaders |-> IF l \in new THEN "WAITING" ELSE state[l]],
                        [l \in Loaders |-> IF l \in new THEN "unsent" ELSE transfer[l]],
                        new # {}, 0)
      PROVE  BarInv' /\ batch' # batch
  <2> DEFINE st == [l \in Loaders |-> IF l \in new THEN "WAITING" ELSE state[l]]
             tr == [l \in Loaders |-> IF l \in new THEN "unsent" ELSE transfer[l]]
             open == new # {}
  <2>1. queue \in Seq(Loaders) /\ Range(queue) = new
    <3>1. todo \in SUBSET PhotosOf(document)
      OBVIOUS
    <3> HIDE DEF todo
    <3> QED
      BY <1>1, <1>4, <3>1, NewQueue
  <2> HIDE DEF new
  <2>2. st \in [Loaders -> LoaderStates] /\ tr \in [Loaders -> Transfers] /\ OnItsWay(st, tr)
    BY <1>1 DEF LoaderStates, Transfers, OnItsWay
  <2>3. open => queue # <<>>
    <3>1. queue = <<>> => Range(queue) = {}
      BY DEF Range
    <3> QED
      BY <2>1, <3>1
  <2>4. open \in BOOLEAN /\ CheckQueue(queue, st, tr, open, 0)
    BY <1>4
  <2> HIDE DEF st, tr, open
  <2>5. BarInv'
    BY <1>1, <2>1, <2>2, <2>3, <2>4, CheckQueueBar
  <2> QED
    BY <1>1, <1>4, <2>5
<1> QED
  BY <1>2, <1>3, <1>4 DEF AutoDecryptNow, queueVars

LEMMA BarInit == Init => BarInv
BY DEF Init, BarInv, OnItsWay

\* Every step keeps the invariant, and sets the bar only to what is the case.
LEMMA BarStep ==
  ASSUME Inv, BarInv, [Next]_vars
  PROVE  /\ BarInv'
         /\ batch' # batch \/ bar' = bar \/ (progressBar => bar' = Shown(loaders, state))
<1>1. /\ loaders \in Seq(Loaders) /\ state \in [Loaders -> LoaderStates]
      /\ transfer \in [Loaders -> Transfers] /\ progressBar \in BOOLEAN /\ bar \in Nat \X Nat
      /\ OnItsWay(state, transfer) /\ bar[1] <= bar[2]
      /\ progressBar => loaders # <<>>
  BY DEF Inv, TypeOK, BarInv
<1>2. ASSUME AutoDecryptNow, \/ polls > 0
                             \/ requests < MaxRequests
      PROVE  /\ BarInv'
             /\ batch' # batch \/ bar' = bar \/ (progressBar => bar' = Shown(loaders, state))
  <2>1. batch + 1 \in 1..MaxRequests
    <3>1. /\ polls \in Nat /\ batch \in Nat /\ requests \in Nat /\ MaxRequests \in Nat
          /\ requests <= MaxRequests /\ polls + batch <= requests
      BY AutoDecryptAssumption DEF Inv, TypeOK, Chains, Within
    <3> QED
      BY <1>2, <3>1
  <2> QED
    BY <1>2, <2>1, AutoDecryptBar
<1>3. ASSUME NEW force \in BOOLEAN, AutoDecryptRequest(force)
      PROVE  \/ AutoDecryptNow /\ requests < MaxRequests
             \/ UNCHANGED <<loaders, state, transfer, progressBar, bar>>
  BY <1>3 DEF AutoDecryptRequest, CheckIfReady, queueVars
<1>4. ASSUME ReadyTimer
      PROVE  \/ AutoDecryptNow /\ polls > 0
             \/ UNCHANGED <<loaders, state, transfer, progressBar, bar>>
  BY <1>4 DEF ReadyTimer, CheckIfReady, queueVars
<1>5. ASSUME CheckQueueTimer
      PROVE  BarInv' /\ (progressBar => bar' = Shown(loaders, state))
  BY <1>1, <1>5, CheckQueueBar DEF CheckQueueTimer
<1>6. ASSUME NEW l \in Loaders, LoaderStep(l)
      PROVE  BarInv' /\ bar' = bar
  <2>1. UNCHANGED <<loaders, progressBar, bar>>
    BY <1>6 DEF LoaderStep, Downloaded, DownloadFailed, NoCodec, Decoded, loaderFrame
  <2>2. CASE Downloaded(l)
    <3>1. /\ state[l] \in {"LOADING", "CANCELED"} /\ state'[l] = "LOADED"
          /\ \A m \in Loaders : m # l => state'[m] = state[m] /\ transfer'[m] = transfer[m]
          /\ transfer'[l] = "decoding"
      BY <1>1, <2>2 DEF Downloaded, OnItsWay
    <3>2. OnItsWay(state', transfer')
      BY <1>1, <3>1 DEF OnItsWay
    <3> DEFINE s == state'
    <3>3. \A m \in Loaders : /\ s[m] = "DONE" <=> state[m] = "DONE"
                             /\ s[m] \in Counted => state[m] \in Counted
      BY <3>1 DEF Counted
    <3> HIDE DEF s
    <3>4. Behind(bar, loaders, state) => Behind(bar, loaders, s)
      BY <1>1, <3>3, NoMoreCounted
    <3> QED
      BY <2>1, <3>2, <3>4, SameBar DEF s
  <2>3. CASE DownloadFailed(l) \/ NoCodec(l)
    <3>1. /\ state' = state /\ transfer'[l] \in {"failed", "settled"}
          /\ \A m \in Loaders : m # l => transfer'[m] = transfer[m]
      BY <1>1, <2>3 DEF DownloadFailed, NoCodec
    <3>2. OnItsWay(state', transfer')
      BY <1>1, <3>1 DEF OnItsWay
    <3> QED
      BY <2>1, <3>1, <3>2, SameBar
  <2>4. CASE \E result \in BOOLEAN : Decoded(l, result)
    <3>1. /\ state[l] \in {"LOADED", "CANCELED"} /\ state'[l] = "DONE"
          /\ \A m \in Loaders : m # l => state'[m] = state[m] /\ transfer'[m] = transfer[m]
          /\ transfer'[l] = "settled"
      BY <1>1, <2>4 DEF Decoded, OnItsWay
    <3>2. OnItsWay(state', transfer')
      BY <1>1, <3>1 DEF OnItsWay
    <3> DEFINE s == state'
    <3>3. state[l] \notin Counted /\ s[l] = "DONE" /\ \A m \in Loaders : m # l => s[m] = state[m]
      BY <3>1 DEF Counted
    <3> HIDE DEF s
    <3>4. Behind(bar, loaders, state) => Behind(bar, loaders, s)
      BY <1>1, <3>3, OneMoreDone
    <3> QED
      BY <2>1, <3>2, <3>4, SameBar DEF s
  <2> QED
    BY <1>6, <2>1, <2>2, <2>3, <2>4 DEF LoaderStep
<1>7. CASE Cancel
  <2>1. /\ UNCHANGED <<loaders, transfer, progressBar, bar>>
        /\ state' = [l \in Loaders |-> IF l \in Range(loaders) /\ state[l] # "DONE"
                                      THEN "CANCELED" ELSE state[l]]
    BY <1>7 DEF Cancel
  <2>2. OnItsWay(state', transfer')
    BY <1>1, <2>1 DEF OnItsWay
  <2> DEFINE s == state'
  <2>3. \A m \in Loaders : /\ s[m] = "DONE" <=> state[m] = "DONE"
                           /\ s[m] \in Counted => state[m] \in Counted
    BY <2>1 DEF Counted
  <2> HIDE DEF s
  <2>4. Behind(bar, loaders, state) => Behind(bar, loaders, s)
    BY <1>1, <2>3, NoMoreCounted
  <2> QED
    BY <2>1, <2>2, <2>4, SameBar DEF s
<1>8. ASSUME UNCHANGED <<loaders, state, transfer, progressBar, bar>>
      PROVE  BarInv' /\ bar' = bar
  BY <1>8, SameQueueBar
<1>9. \/ \E force \in BOOLEAN : AutoDecryptRequest(force)
      \/ ReadyTimer \/ CheckQueueTimer \/ Cancel
      \/ \E l \in Loaders : LoaderStep(l)
      \/ UNCHANGED <<loaders, state, transfer, progressBar, bar>>
  BY DEF Next, DirectSettled, Navigate, PageBuilt, vars, queueVars
<1>10. CASE \E force \in BOOLEAN : AutoDecryptRequest(force)
  BY <1>2, <1>3, <1>8, <1>10
<1>11. CASE ReadyTimer
  BY <1>2, <1>4, <1>8, <1>11
<1>12. CASE Cancel
  <2>1. bar' = bar
    BY <1>12 DEF Cancel
  <2> QED
    BY <1>7, <1>12, <2>1
<1> QED
  BY <1>5, <1>6, <1>8, <1>9, <1>10, <1>11, <1>12

\* While one batch lasts the bar never goes back, whatever is canceled, fails to decode or
\* finishes, and whichever timer or request sets it.
THEOREM BarNeverGoesBackHolds == SafeSpec => BarNeverGoesBack
<1>1. Inv /\ BarInv /\ [Next]_vars =>
        BarInv' /\ [progressBar /\ progressBar' /\ batch' = batch
                      => bar[1] * bar'[2] <= bar'[1] * bar[2]]_vars
  <2> SUFFICES ASSUME Inv, BarInv, [Next]_vars
               PROVE  /\ BarInv'
                      /\ progressBar /\ batch' = batch
                           => bar[1] * bar'[2] <= bar'[1] * bar[2]
    OBVIOUS
  <2>1. /\ BarInv'
        /\ batch' # batch \/ bar' = bar \/ (progressBar => bar' = Shown(loaders, state))
    BY BarStep
  <2>2. bar[1] \in Nat /\ bar[2] \in Nat
    BY DEF Inv, TypeOK
  <2>3. CASE bar' = bar
    BY <2>1, <2>2, <2>3
  <2>4. CASE progressBar /\ bar' = Shown(loaders, state)
    BY <2>1, <2>4 DEF BarInv, Behind, Shown
  <2> QED
    BY <2>1, <2>3, <2>4
<1> QED
  BY <1>1, InvHolds, BarInit, PTL DEF SafeSpec, BarNeverGoesBack
(***************************************************************************)
(* The running downloads                                                   *)
(***************************************************************************)

\* The requests of batch b that run.
Running(tr, b) == {l \in Loaders : l[1] = b /\ tr[l] = "sent"}

\* The loaders after the n-th batch do not exist yet, a waiting one has sent nothing, and
\* beside a canceled one whose request still runs none of its batch is waiting.
Orderly(st, tr, n) ==
  /\ \A l \in Loaders : tr[l] # "none" => l[1] <= n
  /\ \A l \in Loaders : st[l] = "WAITING" => tr[l] = "unsent"
  /\ \A l, m \in Loaders :
       l[1] = m[1] /\ st[l] = "CANCELED" /\ tr[l] = "sent" => st[m] # "WAITING"

\* Of each batch nothing runs that did not run before, or only what is LOADING now.
Slow(st, tr, before) ==
  \A b \in 1..MaxRequests : \/ Running(tr, b) \subseteq Running(before, b)
                            \/ \A l \in Running(tr, b) : st[l] = "LOADING"

RunInv == Orderly(state, transfer, batch) /\ DownloadsBounded

LEMMA SlowIsBounded ==
  ASSUME DownloadsBounded, PlacesKept', Slow(state', transfer', transfer)
  PROVE  DownloadsBounded'
<1> SUFFICES ASSUME NEW b \in 1..MaxRequests
             PROVE  Cardinality(Running(transfer', b)) <= MaxLoading
  BY DEF DownloadsBounded, Running
<1> DEFINE R == Running(transfer', b)
           L == {l \in Loaders : state'[l] = "LOADING"}
<1>1. /\ Cardinality(Running(transfer, b)) <= MaxLoading
      /\ Cardinality(L) <= MaxLoading /\ MaxLoading \in Nat
  BY AutoDecryptAssumption DEF DownloadsBounded, Running, PlacesKept
<1>2. IsFiniteSet(Running(transfer, b)) /\ IsFiniteSet(L)
  BY LoadersFinite, FS_Subset DEF Running
<1>3. R \in SUBSET Running(transfer, b) \/ R \in SUBSET L
  BY DEF Slow, Running
<1> HIDE DEF R, L
<1>4. ASSUME NEW S, IsFiniteSet(S), Cardinality(S) <= MaxLoading, R \in SUBSET S
      PROVE  Cardinality(R) <= MaxLoading
  <2>1. /\ Cardinality(R) \in Nat /\ Cardinality(S) \in Nat
        /\ Cardinality(R) <= Cardinality(S)
    BY <1>4, FS_Subset, FS_CardinalityType
  <2> QED
    BY <1>1, <1>4, <2>1
<1>5. Cardinality(R) <= MaxLoading
  BY <1>1, <1>2, <1>3, <1>4
<1> QED
  BY <1>5 DEF R

\* checkQueue() starts only what waits, and so none of a batch that was canceled while
\* some of its requests ran.
LEMMA CheckQueueRuns ==
  ASSUME NEW ls, NEW st, NEW tr, NEW open, NEW fired, NEW n,
         CheckQueue(ls, st, tr, open, fired), OnItsWay(st, tr), Orderly(st, tr, n)
  PROVE  Orderly(state', transfer', n) /\ Slow(state', transfer', tr)
<1> DEFINE S == IF ls # <<>> /\ open /\ Complete(ls, st) THEN {} ELSE Started(ls, st)
<1>1. /\ \A l \in Loaders : state'[l] = IF l \in S THEN "LOADING" ELSE st[l]
      /\ \A l \in Loaders : transfer'[l] = IF l \in S THEN "sent" ELSE tr[l]
  BY DEF CheckQueue
<1>2. \A l \in S : st[l] = "WAITING"
  BY DEF Started
<1> HIDE DEF S
<1>3. Orderly(state', transfer', n)
  <2>1. \A l \in Loaders : transfer'[l] # "none" => l[1] <= n
    BY <1>1, <1>2 DEF Orderly
  <2>2. \A l \in Loaders : state'[l] = "WAITING" => transfer'[l] = "unsent"
    BY <1>1, <1>2 DEF Orderly
  <2>3. \A l \in Loaders : state'[l] = "CANCELED" /\ transfer'[l] = "sent"
                             => st[l] = "CANCELED" /\ tr[l] = "sent"
    BY <1>1
  <2>4. \A m \in Loaders : state'[m] = "WAITING" => st[m] = "WAITING"
    BY <1>1
  <2> QED
    BY <2>1, <2>2, <2>3, <2>4 DEF Orderly
<1>4. ASSUME NEW b \in 1..MaxRequests, ~(Running(transfer', b) \subseteq Running(tr, b)),
             NEW l \in Running(transfer', b)
      PROVE  state'[l] = "LOADING"
  <2>1. PICK m \in Loaders : m \in S /\ m[1] = b
    BY <1>1, <1>4 DEF Running
  <2>2. l \in Loaders /\ l[1] = m[1] /\ transfer'[l] = "sent"
    BY <2>1 DEF Running
  <2>3. st[m] = "WAITING"
    BY <1>2, <2>1
  <2>4. l \in S \/ (tr[l] = "sent" /\ state'[l] = st[l])
    BY <1>1, <2>2
  <2>5. tr[l] = "sent" => st[l] = "LOADING"
    BY <2>2, <2>3 DEF Orderly, OnItsWay
  <2> QED
    BY <1>1, <2>2, <2>4, <2>5
<1> QED
  BY <1>3, <1>4 DEF Slow

\* A step that queues nothing, sends nothing and cancels nothing.
LEMMA NothingSent ==
  ASSUME RunInv, UNCHANGED batch,
         \A l \in Loaders : /\ transfer'[l] = "none" <=> transfer[l] = "none"
                            /\ transfer'[l] = "sent" => transfer[l] = "sent"
                            /\ state'[l] = "WAITING"
                                 => state[l] = "WAITING" /\ transfer'[l] = transfer[l]
                            /\ state'[l] = "CANCELED" => state[l] = "CANCELED"
  PROVE  Orderly(state', transfer', batch') /\ Slow(state', transfer', transfer)
<1>1. Orderly(state', transfer', batch)
  BY DEF RunInv, Orderly
<1>2. Slow(state', transfer', transfer)
  BY DEF Slow, Running
<1> QED
  BY <1>1, <1>2

\* autoDecrypt() queues loaders of a new batch, or calls checkQueue() for the old one.
LEMMA AutoDecryptRuns ==
  ASSUME Inv, BarInv, RunInv, AutoDecryptNow
  PROVE  Orderly(state', transfer', batch') /\ Slow(state', transfer', transfer)
<1>1. /\ OnItsWay(state, transfer) /\ Orderly(state, transfer, batch) /\ batch \in Nat
  BY DEF Inv, TypeOK, BarInv, RunInv
<1> DEFINE todo == {f \in PhotosOf(document) \ revealed : f[2] \in Known[document]}
           new == {<<batch + 1, f>> : f \in todo}
           st == [l \in Loaders |-> IF l \in new THEN "WAITING" ELSE state[l]]
           tr == [l \in Loaders |-> IF l \in new THEN "unsent" ELSE transfer[l]]
<1>2. CASE UNCHANGED <<queueVars, batchVars>>
  <2>1. state' = state /\ transfer' = transfer /\ batch' = batch
    BY <1>2 DEF queueVars, batchVars
  <2> QED
    BY <2>1, NothingSent
<1>3. CASE CheckQueue(loaders, state, transfer, progressBar, 0) /\ batch' = batch
  BY <1>1, <1>3, CheckQueueRuns
<1>4. ASSUME batch' = batch + 1, NEW queue, CheckQueue(queue, st, tr, new # {}, 0)
      PROVE  Orderly(state', transfer', batch') /\ Slow(state', transfer', transfer)
  <2>1. \A l \in new : l[1] = batch + 1
    OBVIOUS
  <2>2. \A l \in Loaders : l[1] \in Nat
    BY DEF Loaders
  <2> DEFINE n == batch + 1   open == new # {}
  <2> HIDE DEF new
  <2>3. \A l \in Loaders : tr[l] = "sent" => transfer[l] = "sent" /\ l[1] <= batch /\ l \notin new
    BY <1>1 DEF Orderly
  <2>4. OnItsWay(st, tr)
    BY <1>1 DEF OnItsWay
  <2>5. Orderly(st, tr, n)
    <3>1. \A l \in Loaders : tr[l] # "none" => l[1] <= n
      <4> SUFFICES ASSUME NEW l \in Loaders, tr[l] # "none", l \notin new
                   PROVE  l[1] <= batch + 1
        BY <1>1, <2>1
      <4>1. l[1] <= batch
        BY <1>1 DEF Orderly
      <4> QED
        BY <1>1, <2>2, <4>1
    <3>2. \A l \in Loaders : st[l] = "WAITING" => tr[l] = "unsent"
      BY <1>1 DEF Orderly
    <3>3. ASSUME NEW l \in Loaders, NEW m \in Loaders,
                 l[1] = m[1], st[l] = "CANCELED", tr[l] = "sent"
          PROVE  st[m] # "WAITING"
      <4>1. l \notin new /\ state[l] = "CANCELED" /\ transfer[l] = "sent" /\ l[1] <= batch
        BY <2>3, <3>3
      <4>2. m \notin new
        <5>1. l[1] # batch + 1
          BY <1>1, <2>2, <4>1
        <5> QED
          BY <2>1, <3>3, <5>1
      <4> QED
        BY <1>1, <3>3, <4>1, <4>2 DEF Orderly
    <3> QED
      BY <3>1, <3>2, <3>3 DEF Orderly
  <2>6. CheckQueue(queue, st, tr, open, 0)
    BY <1>4
  <2>7. \A b \in 1..MaxRequests : Running(tr, b) \subseteq Running(transfer, b)
    BY <2>3 DEF Running
  <2> HIDE DEF st, tr, n, open
  <2>8. Orderly(state', transfer', n) /\ Slow(state', transfer', tr)
    BY <2>4, <2>5, <2>6, CheckQueueRuns
  <2>9. Slow(state', transfer', transfer)
    BY <2>7, <2>8 DEF Slow
  <2> QED
    BY <1>4, <2>8, <2>9 DEF n
<1> QED
  BY <1>2, <1>3, <1>4 DEF AutoDecryptNow

LEMMA RunInit == Init => RunInv
<1> SUFFICES ASSUME Init
             PROVE  RunInv
  OBVIOUS
<1>1. \A l \in Loaders : state[l] = "none" /\ transfer[l] = "none"
  BY DEF Init
<1>2. Orderly(state, transfer, batch)
  BY <1>1 DEF Orderly
<1>3. \A b \in 1..MaxRequests : {l \in Loaders : l[1] = b /\ transfer[l] = "sent"} = {}
  BY <1>1
<1>4. Cardinality({}) = 0 /\ MaxLoading \in Nat
  BY FS_EmptySet, AutoDecryptAssumption
<1> QED
  BY <1>2, <1>3, <1>4 DEF RunInv, DownloadsBounded

LEMMA RunStep ==
  ASSUME Inv, BarInv, RunInv, [Next]_vars
  PROVE  RunInv'
<1>1. /\ Inv' /\ PlacesKept'
      /\ state \in [Loaders -> LoaderStates] /\ transfer \in [Loaders -> Transfers]
      /\ OnItsWay(state, transfer) /\ Orderly(state, transfer, batch)
  BY InvStep DEF Inv, TypeOK, BarInv, RunInv
<1> SUFFICES Orderly(state', transfer', batch') /\ Slow(state', transfer', transfer)
  BY <1>1, SlowIsBounded DEF RunInv
<1>2. CASE AutoDecryptNow
  BY <1>2, AutoDecryptRuns
<1>3. CASE CheckQueueTimer
  BY <1>1, <1>3, CheckQueueRuns DEF CheckQueueTimer, batchVars
<1>4. CASE UNCHANGED <<state, transfer, batch>>
  BY <1>4, NothingSent
<1>5. ASSUME NEW l \in Loaders, LoaderStep(l)
      PROVE  Orderly(state', transfer', batch') /\ Slow(state', transfer', transfer)
  <2>1. /\ batch' = batch
        /\ \A m \in Loaders : m # l => transfer'[m] = transfer[m] /\ state'[m] = state[m]
    BY <1>1, <1>5 DEF LoaderStep, Downloaded, DownloadFailed, NoCodec, Decoded, loaderFrame,
                      batchVars
  <2>2. /\ transfer[l] \in {"sent", "decoding"} /\ transfer'[l] \notin {"none", "sent"}
        /\ state'[l] = state[l] \/ state'[l] \in {"LOADED", "DONE"}
    BY <1>1, <1>5 DEF LoaderStep, Downloaded, DownloadFailed, NoCodec, Decoded
  <2>3. state[l] # "WAITING"
    BY <1>1, <2>2 DEF OnItsWay
  <2> QED
    BY <2>1, <2>2, <2>3, NothingSent
<1>6. CASE Cancel
  <2>1. /\ UNCHANGED <<transfer, batch>>
        /\ \A l \in Loaders : state'[l] = IF l \in Range(loaders) /\ state[l] # "DONE"
                                         THEN "CANCELED" ELSE state[l]
    BY <1>6 DEF Cancel
  <2>2. \A l \in Loaders : state'[l] # "WAITING"
    BY <2>1 DEF Inv, Queueing, Active
  <2>3. Orderly(state', transfer', batch')
    BY <1>1, <2>1, <2>2 DEF Orderly
  <2>4. Slow(state', transfer', transfer)
    BY <2>1 DEF Slow
  <2> QED
    BY <2>3, <2>4
<1>7. \/ AutoDecryptNow \/ CheckQueueTimer \/ Cancel
      \/ \E l \in Loaders : LoaderStep(l)
      \/ UNCHANGED <<state, transfer, batch>>
  BY DEF Next, AutoDecryptRequest, ReadyTimer, CheckIfReady, DirectSettled, Navigate, PageBuilt,
         vars, queueVars, batchVars
<1> QED
  BY <1>2, <1>3, <1>4, <1>5, <1>6, <1>7

\* However many timers run checkQueue(), and whatever is canceled, of no batch do more than
\* maxLoading requests run at a time: those of canceled loaders, which go on, included.
THEOREM DownloadsBoundedHolds == SafeSpec => []DownloadsBounded
<1>1. Inv /\ BarInv /\ RunInv /\ [Next]_vars => Inv' /\ BarInv' /\ RunInv'
  BY InvStep, BarStep, RunStep
<1>2. RunInv => DownloadsBounded
  BY DEF RunInv
<1> QED
  BY <1>1, <1>2, InvInit, BarInit, RunInit, PTL DEF SafeSpec
===============================================================================
