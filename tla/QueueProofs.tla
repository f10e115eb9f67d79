----------------------------- MODULE QueueProofs ------------------------------
(***************************************************************************)
(* Theorems about Queue for every set of threads and objects and every      *)
(* maxsize_.                                                                *)
(***************************************************************************)
EXTENDS Queue, FiniteSetTheorems, SequenceTheorems, TLAPS

\* What put() and get() do to a sequence, in the form the steps below need.
LEMMA AppendFacts ==
  ASSUME NEW S, NEW q \in Seq(S), NEW v \in S
  PROVE  /\ Append(q, v) \in Seq(S)
         /\ Len(Append(q, v)) = Len(q) + 1
         /\ \A i \in 1..Len(q) : Append(q, v)[i] = q[i]
         /\ Append(q, v)[Len(q) + 1] = v
  OBVIOUS

LEMMA TailFacts ==
  ASSUME NEW S, NEW q \in Seq(S), q # <<>>
  PROVE  /\ Tail(q) \in Seq(S)
         /\ Head(q) \in S
         /\ Head(q) = q[1]
         /\ Len(q) >= 1
         /\ Len(Tail(q)) = Len(q) - 1
         /\ \A i \in 1..Len(Tail(q)) : Tail(q)[i] = q[i + 1]
  OBVIOUS

\* signal and broadcast move threads between phases and nothing else.
LEMMA WakeupTypes ==
  ASSUME phase \in [Threads -> Phases]
  PROVE  /\ SignalNotEmpty => phase' \in [Threads -> Phases]
         /\ BroadcastAllDone => phase' \in [Threads -> Phases]
  BY DEF SignalNotEmpty, BroadcastAllDone, Asleep, Phases

\* Every action keeps the state in shape.
LEMMA TypeStep == TypeOK /\ [Next]_vars => TypeOK'
<1> SUFFICES ASSUME TypeOK, [Next]_vars PROVE TypeOK'
  OBVIOUS
<1> USE DEF TypeOK
<1>1. ASSUME NEW t \in Threads, NEW v \in Values, NEW block \in BOOLEAN,
             Put(t, v, block)
      PROVE  TypeOK'
  BY <1>1, AppendFacts, WakeupTypes DEF Put, Push
<1>2. ASSUME NEW t \in Threads, GetNoWait(t) PROVE TypeOK'
  BY <1>2, TailFacts DEF GetNoWait, Pop
<1>3. ASSUME NEW t \in Threads, NEW timed \in BOOLEAN, GetEnter(t, timed)
      PROVE  TypeOK'
  BY <1>3 DEF GetEnter, Phases, Deadlines
<1>4. ASSUME NEW t \in Threads, NEW v \in Values, TaskDone(t, v)
      PROVE  TypeOK'
  BY <1>4, WakeupTypes DEF TaskDone
<1>5. ASSUME NEW t \in Threads, JoinEnter(t) PROVE TypeOK'
  BY <1>5 DEF JoinEnter, Phases
<1>6. ASSUME NEW t \in Threads, InCall(t) PROVE TypeOK'
  <2>1. CASE GetTake(t)
    BY <2>1, TailFacts DEF GetTake, Pop, Phases, Deadlines
  <2>2. CASE GetWait(t) \/ JoinWait(t) \/ JoinReturn(t)
    BY <2>2 DEF GetWait, JoinWait, JoinReturn, Phases
  <2>3. CASE GetTimeout(t)
    BY <2>3 DEF GetTimeout, Phases, Deadlines
  <2> QED
    BY <1>6, <2>1, <2>2, <2>3 DEF InCall
<1>7. ASSUME NEW t \in Threads, Expire(t) PROVE TypeOK'
  BY <1>7 DEF Expire, Deadlines
<1>8. ASSUME NEW t \in Threads, SpuriousWakeup(t) PROVE TypeOK'
  BY <1>8 DEF SpuriousWakeup, Phases
<1>9. CASE UNCHANGED vars
  BY <1>9 DEF vars
<1> QED
  BY <1>1, <1>2, <1>3, <1>4, <1>5, <1>6, <1>7, <1>8, <1>9 DEF Next

\* The state of the queue keeps its shape: objects in the queue, every thread in
\* one of the five places a call can be in.
THEOREM TypeCorrect == SafeSpec => []TypeOK
<1>1. Init => TypeOK
  BY DEF Init, TypeOK, Phases, Deadlines
<1> QED
  BY <1>1, TypeStep, PTL DEF SafeSpec
-------------------------------------------------------------------------------
(* Seen from the data alone a step is one of three things, or nothing.      *)

PutStep(v) ==
  /\ v \notin Range(queue) \cup taken
  /\ queue' = Append(queue, v)
  /\ unfinished_tasks' = unfinished_tasks + 1
  /\ taken' = taken

PopStep == queue # <<>> /\ Pop

DoneStep(v) ==
  /\ v \in taken
  /\ queue' = queue
  /\ unfinished_tasks' = unfinished_tasks - 1
  /\ taken' = taken \ {v}

LEMMA DataSteps ==
  ASSUME [Next]_vars
  PROVE  \/ \E v \in Values : PutStep(v) \/ DoneStep(v)
         \/ PopStep
         \/ UNCHANGED <<queue, unfinished_tasks, taken>>
<1>1. ASSUME NEW t \in Threads, NEW v \in Values, NEW block \in BOOLEAN, Put(t, v, block)
      PROVE  PutStep(v)
  BY <1>1 DEF Put, Push, PutStep
<1>2. ASSUME NEW t \in Threads, GetNoWait(t) \/ GetTake(t)
      PROVE  PopStep
  BY <1>2 DEF GetNoWait, GetTake, PopStep
<1>3. ASSUME NEW t \in Threads, NEW v \in Values, TaskDone(t, v)
      PROVE  DoneStep(v)
  BY <1>3 DEF TaskDone, DoneStep
<1>4. ASSUME NEW t \in Threads,
             \/ \E timed \in BOOLEAN : GetEnter(t, timed)
             \/ JoinEnter(t) \/ GetWait(t) \/ GetTimeout(t) \/ JoinWait(t)
             \/ JoinReturn(t) \/ Expire(t) \/ SpuriousWakeup(t)
      PROVE  UNCHANGED <<queue, unfinished_tasks, taken>>
  BY <1>4 DEF GetEnter, JoinEnter, GetWait, GetTimeout, JoinWait, JoinReturn, Expire,
              SpuriousWakeup
<1> QED
  BY <1>1, <1>2, <1>3, <1>4 DEF Next, InCall, vars

\* OneOwner is inductive: put() is given an object nobody has, get() moves one.
LEMMA OneOwnerStep == TypeOK /\ OneOwner /\ [Next]_vars => OneOwner'
<1> SUFFICES ASSUME TypeOK, OneOwner, [Next]_vars PROVE OneOwner'
  OBVIOUS
<1>q. queue \in Seq(Values)
  BY DEF TypeOK
<1>1. ASSUME NEW v \in Values, PutStep(v) PROVE OneOwner'
  <2>1. \A i \in 1..Len(queue) : queue[i] # v
    BY <1>1, <1>q DEF PutStep, Range
  <2>2. v \notin taken /\ taken' = taken /\ queue' = Append(queue, v)
    BY <1>1 DEF PutStep
  <2> QED
    BY <1>q, <2>1, <2>2, AppendFacts DEF OneOwner
<1>2. CASE PopStep
  <2>1. queue # <<>> /\ queue' = Tail(queue) /\ taken' = taken \cup {Head(queue)}
    BY <1>2 DEF PopStep, Pop
  <2>2. /\ Head(queue) = queue[1] /\ Len(queue) \in Nat /\ Len(queue) >= 1
        /\ Len(queue') = Len(queue) - 1
        /\ \A i \in 1..Len(queue') : queue'[i] = queue[i + 1]
    BY <1>q, <2>1, TailFacts
  <2>3. \A i \in 1..Len(queue') : i + 1 \in 1..Len(queue) /\ i + 1 # 1
    BY <2>2
  <2>4. \A i, j \in 1..Len(queue') : queue'[i] = queue'[j] => i = j
    BY <2>2, <2>3 DEF OneOwner
  <2>5. \A i \in 1..Len(queue') : queue'[i] \notin taken'
    BY <2>1, <2>2, <2>3 DEF OneOwner
  <2> QED
    BY <2>4, <2>5 DEF OneOwner
<1>3. ASSUME NEW v \in Values, DoneStep(v) PROVE OneOwner'
  BY <1>3 DEF DoneStep, OneOwner
<1>4. CASE UNCHANGED <<queue, unfinished_tasks, taken>>
  BY <1>4 DEF OneOwner
<1> QED
  BY <1>1, <1>2, <1>3, <1>4, DataSteps

\* The counter stays exact because an object that get() returns was not owned by
\* a caller before: that is where OneOwner is needed.
LEMMA CounterStep == TypeOK /\ OneOwner /\ CounterIsExact /\ [Next]_vars => CounterIsExact'
<1> SUFFICES ASSUME TypeOK, OneOwner, CounterIsExact, [Next]_vars PROVE CounterIsExact'
  OBVIOUS
<1>q. queue \in Seq(Values) /\ Len(queue) \in Nat
  BY DEF TypeOK
<1>t. IsFiniteSet(taken) /\ Cardinality(taken) \in Nat
  BY QueueAssumption, FS_Subset, FS_CardinalityType DEF TypeOK
<1>1. ASSUME NEW v \in Values, PutStep(v) PROVE CounterIsExact'
  BY <1>1, <1>q, <1>t, AppendFacts DEF PutStep, CounterIsExact
<1>2. CASE PopStep
  <2>1. queue # <<>> /\ queue' = Tail(queue) /\ taken' = taken \cup {Head(queue)}
        /\ unfinished_tasks' = unfinished_tasks
    BY <1>2 DEF PopStep, Pop
  <2>2. Head(queue) = queue[1] /\ 1 \in 1..Len(queue) /\ Len(queue') = Len(queue) - 1
    BY <1>q, <2>1, TailFacts
  <2>3. Head(queue) \notin taken
    BY <2>2 DEF OneOwner
  <2>4. Cardinality(taken') = Cardinality(taken) + 1
    BY <1>t, <2>1, <2>3, FS_AddElement
  <2> QED
    BY <1>q, <1>t, <2>1, <2>2, <2>4 DEF CounterIsExact
<1>3. ASSUME NEW v \in Values, DoneStep(v) PROVE CounterIsExact'
  <2>1. v \in taken /\ taken' = taken \ {v} /\ queue' = queue
        /\ unfinished_tasks' = unfinished_tasks - 1
    BY <1>3 DEF DoneStep
  <2>2. Cardinality(taken') = Cardinality(taken) - 1
    BY <1>t, <2>1, FS_RemoveElement
  <2> QED
    BY <1>q, <1>t, <2>1, <2>2 DEF CounterIsExact
<1>4. CASE UNCHANGED <<queue, unfinished_tasks, taken>>
  BY <1>4 DEF CounterIsExact
<1> QED
  BY <1>1, <1>2, <1>3, <1>4, DataSteps
-------------------------------------------------------------------------------
(* The joint invariant of the data.                                         *)

DataInv == TypeOK /\ OneOwner /\ CounterIsExact

LEMMA DataInvariant == SafeSpec => []DataInv
<1>1. Init => DataInv
  <2> SUFFICES ASSUME Init PROVE DataInv
    OBVIOUS
  <2>1. TypeOK
    BY DEF Init, TypeOK, Phases, Deadlines
  <2>2. OneOwner
    BY DEF Init, OneOwner
  <2>3. CounterIsExact
    BY FS_EmptySet DEF Init, CounterIsExact
  <2> QED
    BY <2>1, <2>2, <2>3 DEF DataInv
<1>2. DataInv /\ [Next]_vars => DataInv'
  BY TypeStep, OneOwnerStep, CounterStep DEF DataInv
<1> QED
  BY <1>1, <1>2, PTL DEF SafeSpec

\* No object is lost to two owners, whatever the number of threads.
THEOREM OneOwnerHolds == SafeSpec => []OneOwner
  BY DataInvariant, PTL DEF DataInv

\* unfinished_tasks_ is the number of objects put and not reported done.
THEOREM CounterHolds == SafeSpec => []CounterIsExact
  BY DataInvariant, PTL DEF DataInv

\* A caller that reports a task it owns never meets the LOG(FATAL).
THEOREM TaskDoneSafe == SafeSpec => []TaskDoneNeverFatal
<1>1. DataInv => TaskDoneNeverFatal
  <2> SUFFICES ASSUME DataInv, taken # {} PROVE unfinished_tasks > 0
    BY DEF TaskDoneNeverFatal
  <2>1. IsFiniteSet(taken) /\ Cardinality(taken) \in Nat
    BY QueueAssumption, FS_Subset, FS_CardinalityType DEF DataInv, TypeOK
  <2>2. Cardinality(taken) # 0
    BY <2>1, FS_EmptySet
  <2>3. Len(queue) \in Nat
    BY DEF DataInv, TypeOK
  <2> QED
    BY <2>1, <2>2, <2>3 DEF DataInv, CounterIsExact
<1> QED
  BY <1>1, DataInvariant, PTL
-------------------------------------------------------------------------------
(* Sleepers.  A wakeup is lost when the state that a sleeper waits for has   *)
(* come about and nobody is on the way to use it.                           *)

\* A thread falls asleep in join() only under a positive count, put() raises the
\* count, and the task_done() that brings it to zero wakes everybody.
LEMMA JoinerStep ==
  TypeOK /\ NoForgottenJoiner /\ [Next]_vars => NoForgottenJoiner'
<1> SUFFICES ASSUME TypeOK, NoForgottenJoiner, [Next]_vars,
                    NEW s \in Threads, phase'[s] = "all_tasks_done"
             PROVE  unfinished_tasks' > 0
  BY DEF NoForgottenJoiner, Asleep
<1> USE DEF TypeOK
<1>s. phase[s] = "all_tasks_done" => unfinished_tasks > 0
  BY DEF NoForgottenJoiner, Asleep
<1>1. ASSUME NEW t \in Threads, NEW v \in Values, NEW block \in BOOLEAN, Put(t, v, block)
      PROVE  unfinished_tasks' > 0
  <2>1. phase[s] = "all_tasks_done"
    BY <1>1 DEF Put, Push, SignalNotEmpty, Asleep
  <2> QED
    BY <1>1, <1>s, <2>1 DEF Put, Push
<1>2. ASSUME NEW t \in Threads, GetNoWait(t) \/ GetTake(t)
      PROVE  unfinished_tasks' > 0
  BY <1>2, <1>s DEF GetNoWait, GetTake, Pop
<1>3. ASSUME NEW t \in Threads, NEW v \in Values, TaskDone(t, v)
      PROVE  unfinished_tasks' > 0
  <2>1. CASE unfinished_tasks - 1 <= 0
    BY <1>3, <2>1 DEF TaskDone, BroadcastAllDone
  <2>2. CASE ~ (unfinished_tasks - 1 <= 0)
    BY <1>3, <2>2 DEF TaskDone
  <2> QED
    BY <2>1, <2>2
<1>4. ASSUME NEW t \in Threads,
             \/ \E timed \in BOOLEAN : GetEnter(t, timed)
             \/ JoinEnter(t) \/ GetWait(t) \/ GetTimeout(t) \/ JoinReturn(t)
             \/ Expire(t) \/ SpuriousWakeup(t)
      PROVE  unfinished_tasks' > 0
  BY <1>4, <1>s DEF GetEnter, JoinEnter, GetWait, GetTimeout, JoinReturn, Expire,
                    SpuriousWakeup
<1>5. ASSUME NEW t \in Threads, JoinWait(t)
      PROVE  unfinished_tasks' > 0
  BY <1>5 DEF JoinWait
<1>6. CASE UNCHANGED vars
  BY <1>6, <1>s DEF vars
<1> QED
  BY <1>1, <1>2, <1>3, <1>4, <1>5, <1>6 DEF Next, InCall

\* How the number of getters that are awake changes.
LEMMA AwakeCount ==
  ASSUME TypeOK, NEW t \in Threads
  PROVE  /\ IsFiniteSet(Asleep("get")) /\ Cardinality(Asleep("get")) \in Nat
         /\ phase[t] # "get" =>
              Cardinality(Asleep("get") \cup {t}) = Cardinality(Asleep("get")) + 1
         /\ phase[t] = "get" =>
              Cardinality(Asleep("get") \ {t}) = Cardinality(Asleep("get")) - 1
<1>1. Asleep("get") \in SUBSET Threads
  BY DEF Asleep
<1>2. IsFiniteSet(Asleep("get"))
  BY <1>1, QueueAssumption, FS_Subset
<1>3. Cardinality(Asleep("get")) \in Nat
  BY <1>2, FS_CardinalityType
<1>4. t \in Asleep("get") <=> phase[t] = "get"
  BY DEF Asleep
<1>5. phase[t] # "get" =>
        Cardinality(Asleep("get") \cup {t}) = Cardinality(Asleep("get")) + 1
  BY <1>2, <1>4, FS_AddElement
<1>6. phase[t] = "get" =>
        Cardinality(Asleep("get") \ {t}) = Cardinality(Asleep("get")) - 1
  BY <1>2, <1>4, FS_RemoveElement
<1> QED
  BY <1>2, <1>3, <1>5, <1>6

\* While somebody sleeps, put() wakes one thread for one object, and only an awake
\* getter or a non-blocking call takes an object away.
LEMMA SleeperStep == TypeOK /\ NoLostWakeup /\ [Next]_vars => NoLostWakeup'
<1> SUFFICES ASSUME TypeOK, NoLostWakeup, [Next]_vars,
                    NEW s \in Threads, phase'[s] = "not_empty"
             PROVE  Len(queue') <= Cardinality(Asleep("get")')
  BY DEF NoLostWakeup, Asleep
<1> DEFINE G == Asleep("get")
<1>p. phase \in [Threads -> Phases]
  BY DEF TypeOK
<1>q. queue \in Seq(Values) /\ Len(queue) \in Nat
  BY DEF TypeOK
<1>c. Cardinality(G) \in Nat
  BY AwakeCount
<1>s. phase[s] = "not_empty" => Len(queue) <= Cardinality(G)
  BY DEF NoLostWakeup, Asleep
<1>1. ASSUME NEW t \in Threads, NEW v \in Values, NEW block \in BOOLEAN, Put(t, v, block)
      PROVE  Len(queue') <= Cardinality(G')
  <2>1. phase[s] = "not_empty"
    BY <1>1, <1>p DEF Put, Push, SignalNotEmpty, Asleep
  <2>2. PICK w \in Threads : phase[w] = "not_empty" /\ phase' = [phase EXCEPT ![w] = "get"]
    BY <1>1, <2>1 DEF Put, Push, SignalNotEmpty, Asleep
  <2>3. G' = G \cup {w}
    BY <2>2, <1>p DEF Asleep
  <2>4. Cardinality(G') = Cardinality(G) + 1
    BY <2>2, <2>3, AwakeCount
  <2>5. Len(queue') = Len(queue) + 1
    BY <1>1, <1>q, AppendFacts DEF Put, Push
  <2> QED
    BY <1>q, <1>c, <1>s, <2>1, <2>4, <2>5
<1>2. ASSUME NEW t \in Threads, GetNoWait(t)
      PROVE  Len(queue') <= Cardinality(G')
  <2>1. G' = G /\ phase' = phase /\ queue # <<>> /\ queue' = Tail(queue)
    BY <1>2 DEF GetNoWait, Pop, Asleep
  <2>2. Len(queue') = Len(queue) - 1
    BY <1>q, <2>1, TailFacts
  <2> QED
    BY <1>q, <1>c, <1>s, <2>1, <2>2
<1>3. ASSUME NEW t \in Threads, GetTake(t)
      PROVE  Len(queue') <= Cardinality(G')
  <2>1. /\ phase[t] = "get" /\ queue # <<>> /\ queue' = Tail(queue)
        /\ phase' = [phase EXCEPT ![t] = "out"]
    BY <1>3 DEF GetTake, Pop
  <2>2. G' = G \ {t} /\ phase[s] = "not_empty"
    BY <2>1, <1>p DEF Asleep
  <2>3. Cardinality(G') = Cardinality(G) - 1
    BY <2>1, <2>2, AwakeCount
  <2>4. Len(queue') = Len(queue) - 1
    BY <1>q, <2>1, TailFacts
  <2> QED
    BY <1>q, <1>c, <1>s, <2>2, <2>3, <2>4
<1>4. ASSUME NEW t \in Threads, GetWait(t) \/ GetTimeout(t)
      PROVE  Len(queue') <= Cardinality(G')
  <2>1. queue' = <<>> /\ phase[t] = "get" /\ t \notin G'
        /\ \A u \in Threads \ {t} : phase'[u] = phase[u]
    BY <1>4, <1>p DEF GetWait, GetTimeout, Asleep
  <2>2. G' = G \ {t}
    BY <2>1, <1>p DEF Asleep
  <2>3. Cardinality(G') \in Nat
    BY <2>2, AwakeCount, FS_RemoveElement, FS_CardinalityType
  <2> QED
    BY <2>1, <2>3
<1>5. ASSUME NEW t \in Threads,
             \/ \E timed \in BOOLEAN : GetEnter(t, timed)
             \/ SpuriousWakeup(t) /\ phase[t] = "not_empty"
      PROVE  Len(queue') <= Cardinality(G')
  <2>1. phase[t] # "get" /\ phase' = [phase EXCEPT ![t] = "get"] /\ queue' = queue
    BY <1>5, <1>p DEF GetEnter, SpuriousWakeup
  <2>2. G' = G \cup {t} /\ phase[s] = "not_empty"
    BY <2>1, <1>p DEF Asleep
  <2>3. Cardinality(G') = Cardinality(G) + 1
    BY <2>1, <2>2, AwakeCount
  <2> QED
    BY <1>q, <1>c, <1>s, <2>1, <2>2, <2>3
<1>6. ASSUME NEW t \in Threads,
             \/ \E v \in Values : TaskDone(t, v)
             \/ JoinEnter(t) \/ JoinWait(t) \/ JoinReturn(t) \/ Expire(t)
             \/ SpuriousWakeup(t) /\ phase[t] = "all_tasks_done"
             \/ UNCHANGED vars
      PROVE  Len(queue') <= Cardinality(G')
  <2>1. queue' = queue /\ phase[s] = "not_empty"
    BY <1>6, <1>p DEF TaskDone, BroadcastAllDone, JoinEnter, JoinWait, JoinReturn, Expire,
                      SpuriousWakeup, vars
  <2>2. G' = G
    BY <1>6, <1>p DEF TaskDone, BroadcastAllDone, JoinEnter, JoinWait, JoinReturn, Expire,
                      SpuriousWakeup, vars, Asleep
  <2> QED
    BY <1>s, <2>1, <2>2
<1>7. ASSUME NEW t \in Threads, SpuriousWakeup(t)
      PROVE  phase[t] = "not_empty" \/ phase[t] = "all_tasks_done"
  BY <1>7 DEF SpuriousWakeup
<1> QED
  BY <1>1, <1>2, <1>3, <1>4, <1>5, <1>6, <1>7 DEF Next, InCall

SleepInv == TypeOK /\ NoLostWakeup /\ NoForgottenJoiner

LEMMA SleepInvariant == SafeSpec => []SleepInv
<1>1. Init => SleepInv
  BY DEF Init, SleepInv, TypeOK, Phases, Deadlines, NoLostWakeup, NoForgottenJoiner, Asleep
<1>2. SleepInv /\ [Next]_vars => SleepInv'
  BY TypeStep, SleeperStep, JoinerStep DEF SleepInv
<1> QED
  BY <1>1, <1>2, PTL DEF SafeSpec

\* One signal per put() is enough: with somebody asleep in get() there are never
\* more objects than getters awake to take them.
THEOREM NoLostWakeupHolds == SafeSpec => []NoLostWakeup
  BY SleepInvariant, PTL DEF SleepInv

\* Nobody sleeps in join() once the last task is done.
THEOREM NoForgottenJoinerHolds == SafeSpec => []NoForgottenJoiner
  BY SleepInvariant, PTL DEF SleepInv
-------------------------------------------------------------------------------
(* Refinement.                                                              *)

Joining == {t \in Threads : phase[t] \in {"join", "all_tasks_done"}}

\* When the counter is zero nothing is queued and nothing is being worked on.
LEMMA ZeroMeansIdle ==
  ASSUME DataInv, ~ (unfinished_tasks > 0)
  PROVE  queue = <<>> /\ taken = {}
<1>1. queue \in Seq(Values) /\ Len(queue) \in Nat
  BY DEF DataInv, TypeOK
<1>2. IsFiniteSet(taken) /\ Cardinality(taken) \in Nat
  BY QueueAssumption, FS_Subset, FS_CardinalityType DEF DataInv, TypeOK
<1>3. Len(queue) = 0 /\ Cardinality(taken) = 0
  BY <1>1, <1>2 DEF DataInv, CounterIsExact
<1>4. queue = <<>>
  BY <1>1, <1>3
<1>5. taken = {}
  BY <1>2, <1>3, FS_EmptySet
<1> QED
  BY <1>4, <1>5

\* Every step of the class is a step of the pool or changes nothing the pool's
\* user can see.  Only the return of join() needs the invariant.
LEMMA PoolStep == DataInv /\ [Next]_vars => [Pool!Next]_(Pool!vars)
<1> SUFFICES ASSUME DataInv, [Next]_vars PROVE [Pool!Next]_(Pool!vars)
  OBVIOUS
<1>p. phase \in [Threads -> Phases]
  BY DEF DataInv, TypeOK
<1>1. ASSUME NEW t \in Threads, NEW v \in Values, NEW block \in BOOLEAN, Put(t, v, block)
      PROVE  Pool!Put(v)
  <2>1. Joining' = Joining
    BY <1>1, <1>p DEF Put, Push, SignalNotEmpty, Asleep, Joining
  <2> QED
    BY <1>1, <2>1 DEF Put, Push, Range, Pool!Put, Pool!Range, Joining
<1>2. ASSUME NEW t \in Threads, GetNoWait(t) \/ GetTake(t)
      PROVE  Pool!Take
  <2>1. Joining' = Joining
    BY <1>2, <1>p DEF GetNoWait, GetTake, Joining
  <2> QED
    BY <1>2, <2>1 DEF GetNoWait, GetTake, Pop, Pool!Take, Joining
<1>3. ASSUME NEW t \in Threads, NEW v \in Values, TaskDone(t, v)
      PROVE  Pool!Finish(v)
  <2>1. Joining' = Joining
    BY <1>3, <1>p DEF TaskDone, BroadcastAllDone, Joining
  <2> QED
    BY <1>3, <2>1 DEF TaskDone, Pool!Finish, Joining
<1>4. ASSUME NEW t \in Threads, JoinEnter(t)
      PROVE  Pool!EnterJoin(t)
  <2>1. t \notin Joining /\ Joining' = Joining \cup {t}
    BY <1>4, <1>p DEF JoinEnter, Joining
  <2> QED
    BY <1>4, <2>1 DEF JoinEnter, Pool!EnterJoin, Joining
<1>5. ASSUME NEW t \in Threads, JoinReturn(t)
      PROVE  Pool!LeaveJoin(t)
  <2>1. queue = <<>> /\ taken = {}
    BY <1>5, ZeroMeansIdle DEF JoinReturn
  <2>2. t \in Joining /\ Joining' = Joining \ {t}
    BY <1>5, <1>p DEF JoinReturn, Joining
  <2> QED
    BY <1>5, <2>1, <2>2 DEF JoinReturn, Pool!LeaveJoin, Joining
<1>6. ASSUME NEW t \in Threads,
             \/ \E timed \in BOOLEAN : GetEnter(t, timed)
             \/ GetWait(t) \/ GetTimeout(t) \/ JoinWait(t) \/ Expire(t)
             \/ SpuriousWakeup(t)
      PROVE  UNCHANGED Pool!vars
  <2>1. Joining' = Joining
    BY <1>6, <1>p DEF GetEnter, GetWait, GetTimeout, JoinWait, Expire, SpuriousWakeup, Joining
  <2> QED
    BY <1>6, <2>1 DEF GetEnter, GetWait, GetTimeout, JoinWait, Expire, SpuriousWakeup,
                      Pool!vars, Joining
<1>7. CASE UNCHANGED vars
  BY <1>7 DEF vars, Pool!vars
<1> QED
  BY <1>1, <1>2, <1>3, <1>4, <1>5, <1>6, <1>7 DEF Next, InCall, Pool!Next

\* The class implements the task pool: FIFO order, one taker for each task, and a
\* join() that returns only when every task ever put is done.
THEOREM Refinement == SafeSpec => ImplementsTaskPool
<1>1. Init => Pool!Init
  BY DEF Init, Pool!Init
<1> QED
  BY <1>1, PoolStep, DataInvariant, PTL DEF SafeSpec, ImplementsTaskPool, Pool!Spec
===============================================================================
