--------------------------- MODULE RsControlProofs ---------------------------
(***************************************************************************)
(* Theorems about RsControl for every number of threads, of iterations and *)
(* of addresses.  The argument: as long as rslistlock was not initialized  *)
(* while it was held, one thread at a time is between locking and          *)
(* unlocking (Exclusive), so that what it has read of the table is still   *)
(* true when it writes (Shared).                                           *)
(***************************************************************************)
EXTENDS RsControl, FiniteSetTheorems, TLAPS

\* The call a thread is in, where its place tells it, and the pointers that are set.
Calls ==
  /\ \A t \in Thread : t > started => pc[t] = "new"
  /\ \A t \in Thread :
       pc[t] \in {"new", "mutex_init", "scan", "count", "create", "using"} => op[t] = "init"
  /\ \A t \in Thread : pc[t] \in {"drop", "dropped", "check", "delete"} => op[t] = "free"
  /\ \A t \in Thread :
       op[t] = "free" \/ pc[t] \in {"count", "unlock", "wake", "using"} => rs[t] \in Control

Exclusive ==
  /\ \A t, u \in Thread : pc[t] \in InLock /\ pc[u] \in InLock => t = u
  /\ word = 0 => \A t \in Thread : pc[t] \notin InLock

Shared ==
  /\ \A c, d \in rslist : c = d
  /\ rslist \intersect freed = {}
  /\ \A c \in rslist : users[c] = Cardinality(Holders(c))
  /\ \A t \in Thread : IsHolder(t) => rs[t] \in rslist
  /\ \A t \in Thread : pc[t] = "create" => rslist = {}
  /\ \A t \in Thread : pc[t] = "count" => rs[t] \in rslist /\ tmp[t] = users[rs[t]]
  /\ \A t \in Thread : pc[t] = "dropped" => tmp[t] = users[rs[t]]
  /\ \A t \in Thread : pc[t] \in {"check", "delete"} => rs[t] \in rslist
  /\ \A t \in Thread : pc[t] = "delete" => users[rs[t]] = 0

Inv == TypeOK /\ Calls /\ (~overlap => Exclusive /\ Shared)

(***************************************************************************)
(* Types, and which call a thread is in                                    *)
(***************************************************************************)

LEMMA TypeInit == Init => TypeOK /\ Calls
<1> SUFFICES ASSUME Init
             PROVE  TypeOK /\ Calls
  OBVIOUS
<1>1. started \in 0..NumThreads /\ joined \in 0..started /\ word \in 0..2
  BY RsControlAssumption DEF Init
<1>2. TypeOK
  <2>1. /\ pc \in [Thread -> Label]
        /\ op \in [Thread -> {"init", "free"}]
        /\ rs \in [Thread -> Control \union {NoControl}]
    BY DEF Init, Label
  <2>2. /\ iteration \in [Thread -> 0..Iterations]
        /\ users \in [Control -> Int]
        /\ tmp \in [Thread -> Int]
    BY RsControlAssumption DEF Init
  <2> QED
    BY <1>1, <2>1, <2>2 DEF Init, TypeOK
<1>3. Calls
  BY DEF Init, Calls
<1> QED
  BY <1>2, <1>3

LEMMA TypeStep == TypeOK /\ Calls /\ [Next]_vars => TypeOK' /\ Calls'
<1> SUFFICES ASSUME TypeOK, Calls, [Next]_vars
             PROVE  TypeOK' /\ Calls'
  OBVIOUS
<1> USE RsControlAssumption DEF Label, InLock, lock, table, main, Goto
<1>1. CASE Start
  <2>1. started + 1 \in Thread /\ started' \in 0..NumThreads /\ joined' \in 0..started'
    BY <1>1 DEF Start, TypeOK, Thread
  <2>2. pc' \in [Thread -> Label]
    BY <1>1, <2>1 DEF Start, TypeOK
  <2>3. pc[started + 1] = "new" /\ op[started + 1] = "init"
    BY <2>1 DEF TypeOK, Calls
  <2>4. \A t \in Thread : t > started' => pc'[t] = "new"
    BY <1>1 DEF Start, TypeOK, Calls, Thread
  <2> QED
    BY <1>1, <2>1, <2>2, <2>3, <2>4 DEF Start, TypeOK, Calls
<1>2. CASE Join
  BY <1>2 DEF Join, TypeOK, Calls, Thread
<1>3. ASSUME NEW t \in Thread, Step(t)
      PROVE  TypeOK' /\ Calls'
  <2>1. CASE MutexInit(t)
    BY <2>1 DEF MutexInit, TypeOK, Calls
  <2>2. CASE Lock(t)
    BY <2>2 DEF Lock, Inside, TypeOK, Calls
  <2>3. CASE Contend(t)
    BY <2>3 DEF Contend, Inside, TypeOK, Calls
  <2>4. CASE Wait(t)
    BY <2>4 DEF Wait, TypeOK, Calls
  <2>5. CASE Unlock(t)
    BY <2>5 DEF Unlock, After, TypeOK, Calls
  <2>6. CASE Wake(t)
    BY <2>6 DEF Wake, After, Asleep, TypeOK, Calls
  <2>7. CASE Scan(t)
    BY <2>7 DEF Scan, TypeOK, Calls
  <2>8. CASE Count(t)
    BY <2>8 DEF Count, TypeOK, Calls
  <2>9. CASE Create(t)
    BY <2>9 DEF Create, TypeOK, Calls
  <2>10. CASE Use(t)
    BY <2>10 DEF Use, Again, TypeOK, Calls
  <2>11. CASE DropRead(t)
    BY <2>11 DEF DropRead, TypeOK, Calls
  <2>12. CASE DropWrite(t)
    BY <2>12 DEF DropWrite, TypeOK, Calls
  <2>13. CASE Check(t)
    BY <2>13 DEF Check, TypeOK, Calls
  <2>14. CASE Delete(t)
    BY <2>14 DEF Delete, TypeOK, Calls
  <2> QED
    BY <1>3, <2>1, <2>2, <2>3, <2>4, <2>5, <2>6, <2>7, <2>8, <2>9, <2>10, <2>11, <2>12,
       <2>13, <2>14 DEF Step
<1>4. CASE UNCHANGED vars
  BY <1>4 DEF vars, TypeOK, Calls
<1> QED
  BY <1>1, <1>2, <1>3, <1>4 DEF Next

\* TypeOK is an invariant: a thread uses and frees structures, never what is not one.
THEOREM TypeCorrect == SafeSpec => []TypeOK
<1>1. TypeOK /\ Calls /\ [Next]_vars => (TypeOK /\ Calls)'
  BY TypeStep
<1> QED
  BY TypeInit, <1>1, PTL DEF SafeSpec

(***************************************************************************)
(* Mutual exclusion                                                        *)
(***************************************************************************)

LEMMA ExclusiveStep ==
  ASSUME TypeOK, Calls, ~overlap => Exclusive, [Next]_vars, ~overlap'
  PROVE  ~overlap /\ Exclusive'
<1> USE DEF lock, table, main, Goto, TypeOK, InLock
<1>1. CASE Start
  BY <1>1 DEF Start, Exclusive, Thread
<1>2. CASE Join
  BY <1>2 DEF Join, Exclusive
<1>3. ASSUME NEW t \in Thread, Step(t)
      PROVE  ~overlap /\ Exclusive'
  <2>1. CASE MutexInit(t)
    BY <2>1 DEF MutexInit, Exclusive
  <2>2. CASE Lock(t)
    BY <2>2 DEF Lock, Inside, Exclusive
  <2>3. CASE Contend(t)
    BY <2>3 DEF Contend, Inside, Exclusive
  <2>4. CASE Wait(t)
    BY <2>4 DEF Wait, Exclusive
  <2>5. CASE Unlock(t)
    BY <2>5 DEF Unlock, After, Exclusive
  <2>6. CASE Wake(t)
    BY <2>6 DEF Wake, After, Asleep, Exclusive
  <2>7. CASE Scan(t)
    BY <2>7 DEF Scan, Exclusive
  <2>8. CASE Count(t)
    BY <2>8 DEF Count, Exclusive
  <2>9. CASE Create(t)
    BY <2>9 DEF Create, Exclusive
  <2>10. CASE Use(t)
    BY <2>10 DEF Use, Exclusive
  <2>11. CASE DropRead(t)
    BY <2>11 DEF DropRead, Exclusive
  <2>12. CASE DropWrite(t)
    BY <2>12 DEF DropWrite, Exclusive
  <2>13. CASE Check(t)
    BY <2>13 DEF Check, Exclusive
  <2>14. CASE Delete(t)
    BY <2>14 DEF Delete, Exclusive
  <2> QED
    BY <1>3, <2>1, <2>2, <2>3, <2>4, <2>5, <2>6, <2>7, <2>8, <2>9, <2>10, <2>11, <2>12,
       <2>13, <2>14 DEF Step
<1>4. CASE UNCHANGED vars
  BY <1>4 DEF vars, Exclusive
<1> QED
  BY <1>1, <1>2, <1>3, <1>4 DEF Next

(***************************************************************************)
(* The table                                                               *)
(***************************************************************************)

LEMMA ThreadsFinite == IsFiniteSet(Thread) /\ \A c : IsFiniteSet(Holders(c))
<1>1. IsFiniteSet(Thread)
  BY RsControlAssumption, FS_Interval DEF Thread
<1>2. \A c : Holders(c) \subseteq Thread
  BY DEF Holders
<1> QED
  BY <1>1, <1>2, FS_Subset

\* A step that leaves the table alone, and everybody's part in it.
LEMMA QuietStep ==
  ASSUME Shared, UNCHANGED <<rslist, users, freed, rs, tmp>>,
         \A t \in Thread : IsHolder(t)' <=> IsHolder(t),
         \A t \in Thread : pc'[t] \in {"create", "count", "dropped", "check", "delete"}
                              => pc'[t] = pc[t]
  PROVE  Shared'
<1>1. \A c : Holders(c)' = Holders(c)
  BY DEF Holders
<1> HIDE DEF Holders
<1> QED
  BY <1>1 DEF Shared

\* A thread enters the holders of c, or leaves them.
LEMMA HoldersGain ==
  ASSUME NEW c, NEW t \in Thread, t \notin Holders(c), Holders(c)' = Holders(c) \union {t}
  PROVE  Cardinality(Holders(c))' = Cardinality(Holders(c)) + 1
BY ThreadsFinite, FS_AddElement

LEMMA HoldersLose ==
  ASSUME NEW c, NEW t \in Thread, t \in Holders(c), Holders(c)' = Holders(c) \ {t}
  PROVE  Cardinality(Holders(c))' = Cardinality(Holders(c)) - 1
BY ThreadsFinite, FS_RemoveElement

\* What one thread does inside the lock.
LEMMA SharedStepInLock ==
  ASSUME TypeOK, TypeOK', Calls, Exclusive, Shared, NEW t \in Thread, pc[t] \in InLock,
         Scan(t) \/ Count(t) \/ Create(t) \/ DropRead(t) \/ DropWrite(t) \/ Check(t) \/ Delete(t)
  PROVE  Shared'
<1> USE DEF lock, table, main, Goto
<1>0. \A u \in Thread : u # t => pc[u] \notin InLock
  BY DEF Exclusive
<1>1. CASE Scan(t)
  <2>1. \A u \in Thread : /\ IsHolder(u)' <=> IsHolder(u)
                          /\ IsHolder(u) => rs'[u] = rs[u]
    BY <1>1 DEF Scan, IsHolder, TypeOK, Calls
  <2>2. \A c : Holders(c)' = Holders(c)
    BY <2>1 DEF Holders
  <2> QED
    BY <1>0, <1>1, <2>1, <2>2 DEF Scan, Shared, TypeOK, InLock
<1>2. CASE Count(t)
  <2>0. PICK c : c = rs[t]
    OBVIOUS
  <2>1. /\ c \in rslist /\ users' = [users EXCEPT ![c] = users[c] + 1]
        /\ rslist = {c} /\ UNCHANGED <<rslist, freed, rs>>
    BY <1>2, <2>0 DEF Count, Shared
  <2>2. \A u \in Thread : IsHolder(u)' <=> IsHolder(u) \/ u = t
    BY <1>2 DEF Count, IsHolder, TypeOK, Calls
  <2>3. ~IsHolder(t) /\ rs'[t] = c
    BY <1>2, <2>0, <2>1 DEF Count, IsHolder, Calls
  <2>4. t \notin Holders(c) /\ Holders(c)' = Holders(c) \union {t}
    BY <2>1, <2>2, <2>3 DEF Holders
  <2>5. Cardinality(Holders(c))' = Cardinality(Holders(c)) + 1
    BY <2>4, HoldersGain
  <2>6. users'[c] = Cardinality(Holders(c))'
    BY <2>1, <2>5 DEF Shared, TypeOK
  <2> QED
    BY <1>0, <1>2, <2>0, <2>1, <2>2, <2>6 DEF Count, Shared, TypeOK, InLock
<1>3. CASE Create(t)
  <2>1. rslist = {}
    BY <1>3 DEF Create, Shared
  <2>2. PICK c \in Control \ (freed \union rslist) :
               /\ rs' = [rs EXCEPT ![t] = c]
               /\ users' = [users EXCEPT ![c] = 1]
               /\ rslist' = rslist \union {c}
    BY <1>3 DEF Create
  <2>3. \A u \in Thread : ~IsHolder(u)
    BY <2>1 DEF Shared
  <2>4. \A u \in Thread : IsHolder(u)' <=> u = t
    BY <1>3, <2>3 DEF Create, IsHolder, TypeOK, Calls
  <2>5. Holders(c) = {} /\ t \notin Holders(c)
    BY <2>3 DEF Holders
  <2>6. Holders(c)' = Holders(c) \union {t}
    BY <2>2, <2>4, <2>5 DEF Holders, TypeOK
  <2>7. Cardinality(Holders(c))' = 1
    BY <2>5, <2>6, HoldersGain, FS_EmptySet
  <2>8. users'[c] = 1 /\ rs'[t] = c
    BY <2>2 DEF TypeOK
  <2> QED
    BY <1>0, <1>3, <2>1, <2>2, <2>4, <2>7, <2>8 DEF Create, Shared, TypeOK, InLock
<1>4. CASE DropRead(t)
  <2>1. \A u \in Thread : IsHolder(u)' <=> IsHolder(u)
    BY <1>4 DEF DropRead, IsHolder, TypeOK, Calls
  <2>2. \A c : Holders(c)' = Holders(c)
    BY <1>4, <2>1 DEF Holders, DropRead
  <2> QED
    BY <1>0, <1>4, <2>1, <2>2 DEF DropRead, Shared, TypeOK, InLock
<1>5. CASE DropWrite(t)
  <2>0. PICK c : c = rs[t]
    OBVIOUS
  <2>1. /\ c \in rslist /\ users' = [users EXCEPT ![c] = users[c] - 1]
        /\ rslist = {c} /\ UNCHANGED <<rslist, freed, rs>> /\ IsHolder(t)
    BY <1>5, <2>0 DEF DropWrite, Shared, IsHolder, Calls
  <2>2. \A u \in Thread : IsHolder(u)' <=> IsHolder(u) /\ u # t
    BY <1>5 DEF DropWrite, IsHolder, TypeOK, Calls
  <2>3. t \in Holders(c) /\ Holders(c)' = Holders(c) \ {t}
    BY <2>0, <2>1, <2>2 DEF Holders
  <2>4. Cardinality(Holders(c))' = Cardinality(Holders(c)) - 1
    BY <2>3, HoldersLose
  <2>5. users'[c] = Cardinality(Holders(c))'
    BY <2>1, <2>4 DEF Shared, TypeOK
  <2> QED
    BY <1>0, <1>5, <2>0, <2>1, <2>2, <2>5 DEF DropWrite, Shared, TypeOK, InLock
<1>6. CASE Check(t)
  <2>1. \A u \in Thread : IsHolder(u)' <=> IsHolder(u)
    BY <1>6 DEF Check, IsHolder, TypeOK, Calls
  <2>2. \A c : Holders(c)' = Holders(c)
    BY <1>6, <2>1 DEF Holders, Check
  <2> QED
    BY <1>0, <1>6, <2>1, <2>2 DEF Check, Shared, TypeOK, InLock
<1>7. CASE Delete(t)
  <2>1. rs[t] \in rslist /\ users[rs[t]] = 0 /\ rslist = {rs[t]}
    BY <1>7 DEF Delete, Shared
  <2>2. Holders(rs[t]) = {}
    BY <2>1, ThreadsFinite, FS_EmptySet DEF Shared
  <2>3. \A u \in Thread : ~IsHolder(u)
    BY <2>1, <2>2 DEF Shared, Holders
  <2>4. \A u \in Thread : ~IsHolder(u)'
    BY <1>7, <2>3 DEF Delete, IsHolder, TypeOK, Calls
  <2>5. rslist' = {}
    BY <1>7, <2>1 DEF Delete
  <2> QED
    BY <1>0, <1>7, <2>4, <2>5 DEF Delete, Shared, TypeOK, InLock
<1> QED
  BY <1>1, <1>2, <1>3, <1>4, <1>5, <1>6, <1>7

LEMMA SharedStep ==
  ASSUME TypeOK, TypeOK', Calls, Exclusive, Shared, [Next]_vars
  PROVE  Shared'
<1> USE DEF lock, table, main, Goto
<1>1. CASE Start
  <2>1. started + 1 \in Thread /\ pc[started + 1] = "new"
    BY <1>1 DEF Start, TypeOK, Thread, Calls
  <2> QED
    BY <1>1, <2>1, QuietStep DEF Start, TypeOK, IsHolder
<1>2. CASE Join
  BY <1>2, QuietStep DEF Join, IsHolder
<1>3. ASSUME NEW t \in Thread, Step(t)
      PROVE  Shared'
  <2>1. CASE MutexInit(t)
    BY <2>1, QuietStep DEF MutexInit, TypeOK, Calls, IsHolder
  <2>2. CASE Lock(t)
    BY <2>2, QuietStep DEF Lock, Inside, TypeOK, Calls, IsHolder
  <2>3. CASE Contend(t)
    BY <2>3, QuietStep DEF Contend, Inside, TypeOK, Calls, IsHolder
  <2>4. CASE Wait(t)
    BY <2>4, QuietStep DEF Wait, TypeOK, Calls, IsHolder
  <2>5. CASE Unlock(t)
    BY <2>5, QuietStep DEF Unlock, After, TypeOK, Calls, IsHolder
  <2>6. CASE Wake(t)
    BY <2>6, QuietStep DEF Wake, After, Asleep, TypeOK, Calls, IsHolder
  <2>7. CASE Use(t)
    BY <2>7, QuietStep DEF Use, TypeOK, Calls, IsHolder
  <2>8. CASE Scan(t) \/ Count(t) \/ Create(t) \/ DropRead(t) \/ DropWrite(t) \/ Check(t) \/ Delete(t)
    <3>1. pc[t] \in InLock
      BY <2>8 DEF Scan, Count, Create, DropRead, DropWrite, Check, Delete, InLock
    <3> QED
      BY <2>8, <3>1, SharedStepInLock
  <2> QED
    BY <1>3, <2>1, <2>2, <2>3, <2>4, <2>5, <2>6, <2>7, <2>8 DEF Step
<1>4. CASE UNCHANGED vars
  BY <1>4, QuietStep DEF vars, IsHolder
<1> QED
  BY <1>1, <1>2, <1>3, <1>4 DEF Next

LEMMA InvInit == Init => Inv
<1> SUFFICES ASSUME Init
             PROVE  Exclusive /\ Shared
  BY TypeInit DEF Inv
<1>1. Exclusive
  BY DEF Init, Exclusive, InLock
<1>2. Shared
  BY DEF Init, Shared, IsHolder
<1> QED
  BY <1>1, <1>2

LEMMA InvStep == Inv /\ [Next]_vars => Inv'
<1> SUFFICES ASSUME Inv, [Next]_vars
             PROVE  Inv'
  OBVIOUS
<1>1. TypeOK' /\ Calls'
  BY TypeStep DEF Inv
<1>2. ASSUME ~overlap'
      PROVE  Exclusive' /\ Shared'
  <2>1. ~overlap /\ Exclusive'
    BY <1>2, ExclusiveStep DEF Inv
  <2> QED
    BY <1>1, <2>1, SharedStep DEF Inv
<1> QED
  BY <1>1, <1>2 DEF Inv

LEMMA InvHolds == SafeSpec => []Inv
BY InvInit, InvStep, PTL DEF SafeSpec

\* Unless rslistlock was initialized while it was held, at most one thread is between
\* locking and unlocking it, in init_rs_internal() and free_rs().
THEOREM ListIsProtectedHolds == SafeSpec => [](overlap \/ ListIsProtected)
<1>1. Inv => overlap \/ ListIsProtected
  <2> SUFFICES ASSUME Exclusive
               PROVE  ListIsProtected
    BY DEF Inv
  <2> DEFINE S == {t \in Thread : pc[t] \in InLock}
  <2>1. CASE S = {}
    BY <2>1, FS_EmptySet DEF ListIsProtected
  <2>2. CASE S # {}
    <3>1. PICK t \in Thread : S = {t}
      BY <2>2 DEF Exclusive
    <3> QED
      BY <3>1, FS_Singleton DEF ListIsProtected
  <2> QED
    BY <2>1, <2>2
<1> QED
  BY <1>1, InvHolds, PTL

\* The list has one structure at most, and its field users is the number of codecs that
\* init_rs() gave it to and that have not given it back to free_rs().
THEOREM UsersHold == SafeSpec => []UsersAreHolders
<1>1. Inv => UsersAreHolders
  BY DEF Inv, Shared, UsersAreHolders
<1> QED
  BY <1>1, InvHolds, PTL

\* No codec is left with a structure that free_rs() has freed.
THEOREM HoldersAliveHolds == SafeSpec => []HoldersAlive
<1>1. Inv => HoldersAlive
  BY DEF Inv, Shared, HoldersAlive
<1> QED
  BY <1>1, InvHolds, PTL
=============================================================================
