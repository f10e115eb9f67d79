----------------------- MODULE InMemoryExperimentProofs -----------------------
(***************************************************************************)
(* Theorems about InMemoryExperiment for every set of generators and       *)
(* runners, every number of matrices and every size of chunk.              *)
(***************************************************************************)
EXTENDS InMemoryExperiment, FiniteSetTheorems, SequenceTheorems, TLAPS

\* The places of main() behind generators[i]->Join().
Ending == {"set_done", "join_runners", "destroy", "returned", "aborted"}

\* A runner that has left its loop was told to, runners are told only when the generators
\* were joined, and a generator that was joined has put everything.
StopOrder ==
  /\ \A r \in Runners : pc[r] = "finished" => done[r]
  /\ \A r \in Runners : done[r] => pc[Main] \in Ending
  /\ pc[Main] \in Ending => \A g \in Generators : pc[g] = "finished"
  /\ \A g \in Generators : pc[g] = "finished" => generated[g] = NumMatrices

Places ==
  /\ pc \in [Threads -> MainPlaces \union GeneratorPlaces \union RunnerPlaces]
  /\ \A r \in Runners : pc[r] = "process" => entry[r] \in Chunks

Inv == TypeOK /\ Places /\ StopOrder

LEMMA ThreadFacts ==
  /\ Main \in Threads /\ Main \notin Generators /\ Main \notin Runners
  /\ \A g \in Generators : g \in Threads /\ g \notin Runners /\ g # Main
  /\ \A r \in Runners : r \in Threads /\ r \notin Generators /\ r # Main
BY ExperimentAssumption DEF Threads

LEMMA ChunkFacts ==
  ASSUME NEW g \in Generators, NEW n \in 0..NumMatrices, n < NumMatrices
  PROVE  Chunk(g, n) \in Chunks /\ n + ChunkLength(n) \in 0..NumMatrices
<1>1. n \in 0..(NumMatrices - 1)
  BY ExperimentAssumption
<1> QED
  BY <1>1, ExperimentAssumption DEF Chunks, ChunkLength

\* What a call may do to the variables of the queue.
LEMMA QueueCall ==
  ASSUME Q!TypeOK, NEW t \in Threads,
         \/ \E v \in Chunks : Q!Put(t, v, TRUE) \/ Q!TaskDone(t, v)
         \/ Q!GetNoWait(t) \/ Q!JoinEnter(t) \/ Q!JoinWait(t) \/ Q!JoinReturn(t) \/ Q!SpuriousWakeup(t)
  PROVE  Q!Next /\ Q!TypeOK'
<1>1. Q!Next
  BY DEF Q!Next, Q!InCall
<1>2. Q!TypeOK'
  <2>1. ASSUME NEW v \in Chunks, Q!Put(t, v, TRUE)
        PROVE  Q!TypeOK'
    <3>1. queue' \in Seq(Chunks) /\ unfinished_tasks' \in Int
      BY <2>1 DEF Q!Put, Q!Push, Q!TypeOK
    <3>2. phase' \in [Threads -> Q!Phases]
      BY <2>1 DEF Q!Put, Q!Push, Q!SignalNotEmpty, Q!Asleep, Q!TypeOK, Q!Phases
    <3> QED
      BY <2>1, <3>1, <3>2 DEF Q!Put, Q!Push, Q!TypeOK
  <2>2. CASE Q!GetNoWait(t)
    <3>1. queue' \in Seq(Chunks) /\ Head(queue) \in Chunks
      BY <2>2 DEF Q!GetNoWait, Q!Pop, Q!TypeOK
    <3> QED
      BY <2>2, <3>1 DEF Q!GetNoWait, Q!Pop, Q!TypeOK
  <2>3. ASSUME NEW v \in Chunks, Q!TaskDone(t, v)
        PROVE  Q!TypeOK'
    BY <2>3 DEF Q!TaskDone, Q!BroadcastAllDone, Q!TypeOK, Q!Phases
  <2>4. CASE Q!JoinEnter(t) \/ Q!JoinWait(t) \/ Q!JoinReturn(t) \/ Q!SpuriousWakeup(t)
    BY <2>4 DEF Q!JoinEnter, Q!JoinWait, Q!JoinReturn, Q!SpuriousWakeup, Q!TypeOK, Q!Phases
  <2> QED
    BY <2>1, <2>2, <2>3, <2>4
<1> QED
  BY <1>1, <1>2

LEMMA InvInit == Init => Inv
<1> SUFFICES ASSUME Init
             PROVE  Inv
  OBVIOUS
<1>1. Q!TypeOK
  BY DEF Init, Q!Init, Q!TypeOK, Q!Phases, Q!Deadlines
<1>2. Places /\ StopOrder
  BY ThreadFacts DEF Init, Places, StopOrder, Ending, MainPlaces, GeneratorPlaces, RunnerPlaces
<1>3. generated \in [Generators -> 0..NumMatrices]
  BY ExperimentAssumption DEF Init
<1>4. TypeOK
  BY <1>1, <1>3, ThreadFacts DEF Init, TypeOK, MainPlaces, GeneratorPlaces, RunnerPlaces
<1> QED
  BY <1>2, <1>4 DEF Inv

\* A step of the program keeps the invariant, and is a legal call of the queue or none.
LEMMA InvStep ==
  ASSUME Inv, [Next]_vars
  PROVE  Inv' /\ [Q!Next]_queueVars
<1> USE ThreadFacts DEF MainPlaces, GeneratorPlaces, RunnerPlaces
<1>0. Q!TypeOK /\ TypeOK /\ Places /\ StopOrder
  BY DEF Inv, TypeOK
<1>a. UNCHANGED queueVars => Q!TypeOK'
  BY <1>0 DEF queueVars, Q!TypeOK
<1>1. ASSUME NEW g \in Generators, StartGenerator(g)
      PROVE  Inv' /\ [Q!Next]_queueVars
  BY <1>0, <1>a, <1>1 DEF StartGenerator, Inv, TypeOK, Places, StopOrder, Ending
<1>2. ASSUME NEW r \in Runners, StartRunner(r)
      PROVE  Inv' /\ [Q!Next]_queueVars
  BY <1>0, <1>a, <1>2 DEF StartRunner, Inv, TypeOK, Places, StopOrder, Ending
<1>3. CASE CallJoin
  BY <1>0, <1>3, QueueCall DEF CallJoin, Goto, Inv, TypeOK, Places, StopOrder, Ending
<1>4. CASE JoinWaits
  BY <1>0, <1>4, QueueCall DEF JoinWaits, Inv, TypeOK, Places, StopOrder, Ending
<1>5. CASE JoinReturns
  BY <1>0, <1>5, QueueCall DEF JoinReturns, Goto, Inv, TypeOK, Places, StopOrder, Ending
<1>6. CASE JoinGenerators
  BY <1>0, <1>a, <1>6 DEF JoinGenerators, Goto, Inv, TypeOK, Places, StopOrder, Ending
<1>7. ASSUME NEW r \in Runners, SetDone(r)
      PROVE  Inv' /\ [Q!Next]_queueVars
  BY <1>0, <1>a, <1>7 DEF SetDone, Inv, TypeOK, Places, StopOrder, Ending
<1>8. CASE JoinRunners
  BY <1>0, <1>a, <1>8 DEF JoinRunners, Goto, Inv, TypeOK, Places, StopOrder, Ending
<1>9. CASE Destroy
  BY <1>0, <1>a, <1>9 DEF Destroy, Goto, Inv, TypeOK, Places, StopOrder, Ending
<1>10. CASE WakeInJoin
  BY <1>0, <1>10, QueueCall DEF WakeInJoin, Inv, TypeOK, Places, StopOrder, Ending
<1>11. ASSUME NEW g \in Generators, GeneratorPut(g)
       PROVE  Inv' /\ [Q!Next]_queueVars
  <2>1. generated[g] \in 0..NumMatrices /\ generated[g] < NumMatrices
    BY <1>0, <1>11 DEF GeneratorPut, TypeOK
  <2>2. /\ Chunk(g, generated[g]) \in Chunks
        /\ generated[g] + ChunkLength(generated[g]) \in 0..NumMatrices
    BY <2>1, ChunkFacts
  <2>3. Q!Next /\ Q!TypeOK'
    BY <1>0, <1>11, <2>2, QueueCall DEF GeneratorPut
  <2> QED
    BY <1>0, <1>11, <2>2, <2>3 DEF GeneratorPut, Inv, TypeOK, Places, StopOrder, Ending
<1>12. ASSUME NEW g \in Generators, GeneratorFinish(g)
       PROVE  Inv' /\ [Q!Next]_queueVars
  <2>1. generated[g] = NumMatrices
    BY <1>0, <1>12, ExperimentAssumption DEF GeneratorFinish, TypeOK
  <2> QED
    BY <1>0, <1>a, <1>12, <2>1 DEF GeneratorFinish, Goto, Inv, TypeOK, Places, StopOrder, Ending
<1>13. ASSUME NEW r \in Runners, RunnerGet(r)
       PROVE  Inv' /\ [Q!Next]_queueVars
  <2>1. Head(queue) \in Chunks
    BY <1>0, <1>13 DEF RunnerGet, Q!GetNoWait, Q!TypeOK
  <2>2. Q!Next /\ Q!TypeOK'
    BY <1>0, <1>13, <2>1, QueueCall DEF RunnerGet
  <2> QED
    BY <1>0, <1>13, <2>1, <2>2 DEF RunnerGet, Goto, Inv, TypeOK, Places, StopOrder, Ending
<1>14. ASSUME NEW r \in Runners, RunnerGetNull(r)
       PROVE  Inv' /\ [Q!Next]_queueVars
  BY <1>0, <1>a, <1>14 DEF RunnerGetNull, Goto, Inv, TypeOK, Places, StopOrder, Ending
<1>15. ASSUME NEW r \in Runners, RunnerCheckDone(r)
       PROVE  Inv' /\ [Q!Next]_queueVars
  BY <1>0, <1>a, <1>15 DEF RunnerCheckDone, Goto, Inv, TypeOK, Places, StopOrder, Ending
<1>16. ASSUME NEW r \in Runners, RunnerTaskDone(r)
       PROVE  Inv' /\ [Q!Next]_queueVars
  <2>1. entry[r] \in Chunks
    BY <1>0, <1>16 DEF RunnerTaskDone, Goto, Places
  <2>2. Q!Next /\ Q!TypeOK'
    BY <1>0, <1>16, <2>1, QueueCall DEF RunnerTaskDone
  <2> QED
    BY <1>0, <1>16, <2>1, <2>2 DEF RunnerTaskDone, Goto, Inv, TypeOK, Places, StopOrder, Ending
<1>17. CASE UNCHANGED vars
  BY <1>0, <1>a, <1>17 DEF vars, queueVars, Inv, TypeOK, Places, StopOrder
<1> QED
  BY <1>1, <1>2, <1>3, <1>4, <1>5, <1>6, <1>7, <1>8, <1>9, <1>10, <1>11, <1>12, <1>13, <1>14,
     <1>15, <1>16, <1>17 DEF Next, MainStep, GeneratorStep, RunnerStep, Exit

LEMMA InvHolds == SafeSpec => []Inv
<1>1. Inv /\ [Next]_vars => Inv'
  BY InvStep
<1> QED
  BY InvInit, <1>1, PTL DEF SafeSpec

\* The types of the program's state, and of the queue it uses.
THEOREM ExperimentTypeCorrect == SafeSpec => []TypeOK
<1>1. Inv => TypeOK
  BY DEF Inv
<1> QED
  BY <1>1, InvHolds, PTL

\* A runner leaves AestheteRunner::Run() only when no generator will put another chunk.
THEOREM RunnersStopLastHolds == SafeSpec => []RunnersStopLast
<1>1. Inv => RunnersStopLast
  BY DEF Inv, StopOrder, RunnersStopLast
<1> QED
  BY <1>1, InvHolds, PTL

(***************************************************************************)
(* Every matrix once.  The chunks that exist are pairwise disjoint and     *)
(* cover what their generator has made, and each is in one place.          *)
(***************************************************************************)

Made == Queued \union InRunner \union processed

Covers(c, g, m) == c.gen = g /\ m \in MatricesOf(c)

OnePlace ==
  /\ \A i, j \in 1..Len(queue) : queue[i] = queue[j] => i = j
  /\ Queued \intersect InRunner = {}
  /\ (Queued \union InRunner) \intersect processed = {}
  /\ \A r, s \in Runners : entry[r] = entry[s] /\ entry[r] # NoEntry => r = s
  /\ \A r \in Runners : pc[r] # "process" => entry[r] = NoEntry

Partition ==
  /\ \A c \in Made : c.first + c.size <= generated[c.gen]
  /\ \A g \in Generators : \A m \in 0..(generated[g] - 1) : \E c \in Made : Covers(c, g, m)
  /\ \A c, d \in Made : \A g, m : Covers(c, g, m) /\ Covers(d, g, m) => c = d

LEMMA ChunkTypes ==
  \A c \in Chunks : c.gen \in Generators /\ c.first \in Nat /\ c.size \in Nat \ {0}
BY ExperimentAssumption DEF Chunks, Chunk, ChunkLength

LEMMA MadeTypes ==
  ASSUME TypeOK
  PROVE  Made \subseteq Chunks
<1>1. queue \in Seq(Chunks)
  BY DEF TypeOK, Q!TypeOK
<1>2. Queued \subseteq Chunks
  BY <1>1 DEF Queued
<1> QED
  BY <1>2 DEF Made, InRunner, TypeOK

\* put(): a chunk that did not exist.
LEMMA RangeOfAppend ==
  ASSUME NEW S, NEW q \in Seq(S), NEW v \in S
  PROVE  /\ {Append(q, v)[i] : i \in 1..Len(Append(q, v))} = {q[i] : i \in 1..Len(q)} \union {v}
         /\ (\A i, j \in 1..Len(q) : q[i] = q[j] => i = j) /\ v \notin {q[i] : i \in 1..Len(q)}
            => \A i, j \in 1..Len(Append(q, v)) : Append(q, v)[i] = Append(q, v)[j] => i = j
<1>1. /\ Len(Append(q, v)) = Len(q) + 1 /\ Len(q) \in Nat
      /\ \A i \in 1..Len(q) : Append(q, v)[i] = q[i]
      /\ Append(q, v)[Len(q) + 1] = v
  OBVIOUS
<1>2. 1..(Len(q) + 1) = (1..Len(q)) \union {Len(q) + 1}
  BY <1>1
<1> DEFINE a == Append(q, v)
<1> HIDE DEF a
<1> QED
  BY <1>1, <1>2 DEF a

\* get(): the first chunk leaves.
LEMMA RangeOfTail ==
  ASSUME NEW S, NEW q \in Seq(S), q # <<>>,
         \A i, j \in 1..Len(q) : q[i] = q[j] => i = j
  PROVE  /\ {Tail(q)[i] : i \in 1..Len(Tail(q))} = {q[i] : i \in 1..Len(q)} \ {Head(q)}
         /\ Head(q) \in {q[i] : i \in 1..Len(q)}
         /\ \A i, j \in 1..Len(Tail(q)) : Tail(q)[i] = Tail(q)[j] => i = j
<1>1. /\ Len(q) \in Nat \ {0} /\ Len(Tail(q)) = Len(q) - 1 /\ Head(q) = q[1]
      /\ \A i \in 1..Len(Tail(q)) : Tail(q)[i] = q[i + 1]
  OBVIOUS
<1> DEFINE a == Tail(q)
<1> HIDE DEF a
<1>2. \A i \in 1..Len(a) : a[i] = q[i + 1] /\ i + 1 \in 1..Len(q) /\ i + 1 # 1
  BY <1>1 DEF a
<1>3. \A i \in 1..Len(q) : i # 1 => i - 1 \in 1..Len(a) /\ a[i - 1] = q[i]
  BY <1>1 DEF a
<1>4. {a[i] : i \in 1..Len(a)} = {q[i] : i \in 1..Len(q)} \ {q[1]}
  BY <1>1, <1>2, <1>3
<1>5. \A i, j \in 1..Len(a) : a[i] = a[j] => i = j
  BY <1>1, <1>2
<1>6. Head(q) \in {q[i] : i \in 1..Len(q)}
  BY <1>1
<1>7. Head(q) = q[1]
  BY <1>1
<1> QED
  BY <1>4, <1>5, <1>6, <1>7, Zenon DEF a

LEMMA QuietPieces ==
  ASSUME OnePlace, Partition, UNCHANGED <<queue, generated, entry, processed>>,
         \A r \in Runners : pc'[r] # "process" => entry[r] = NoEntry
  PROVE  OnePlace' /\ Partition'
<1>1. Queued' = Queued /\ InRunner' = InRunner
  BY DEF Queued, InRunner
<1>2. Made' = Made
  BY <1>1 DEF Made
<1> HIDE DEF Queued, InRunner, Made, Covers
<1>3. OnePlace'
  BY <1>1 DEF OnePlace
<1>4. Partition'
  BY <1>2 DEF Partition
<1> QED
  BY <1>3, <1>4

LEMMA PutPieces ==
  ASSUME Inv, OnePlace, Partition, NEW g \in Generators, GeneratorPut(g)
  PROVE  OnePlace' /\ Partition'
<1> DEFINE n == generated[g]
           c == Chunk(g, n)
<1>1. /\ n \in 0..NumMatrices /\ n < NumMatrices /\ queue \in Seq(Chunks)
      /\ queue' = Append(queue, c)
      /\ generated' = [generated EXCEPT ![g] = n + ChunkLength(n)]
      /\ UNCHANGED <<pc, entry, processed>>
      /\ generated \in [Generators -> 0..NumMatrices]
  BY DEF GeneratorPut, Q!Put, Q!Push, Inv, TypeOK, Q!TypeOK
<1>2. c \in Chunks /\ c.gen = g /\ c.first = n /\ c.size = ChunkLength(n) /\ c.size \in Nat \ {0}
  BY <1>1, ChunkFacts, ChunkTypes DEF Chunk
<1>3. Made \subseteq Chunks
  BY MadeTypes DEF Inv
<1> HIDE DEF n, c
<1>n. generated[g] = n
  BY DEF n
<1>4. c \notin Made
  BY <1>1, <1>2, <1>n DEF Partition
<1>5. Queued' = Queued \union {c} /\ InRunner' = InRunner /\ Made' = Made \union {c}
  BY <1>1, <1>2, RangeOfAppend DEF Queued, InRunner, Made
<1>6. OnePlace'
  <2>1. \A i, j \in 1..Len(queue') : queue'[i] = queue'[j] => i = j
    BY <1>1, <1>2, <1>4, RangeOfAppend DEF OnePlace, Made, Queued
  <2>2. c \notin Queued /\ c \notin InRunner /\ c \notin processed
    BY <1>4 DEF Made
  <2> HIDE DEF Queued, InRunner
  <2> QED
    BY <1>1, <1>5, <2>1, <2>2 DEF OnePlace
<1>7. Partition'
  <2> HIDE DEF Made
  <2>1. generated'[g] = n + c.size /\ \A h \in Generators : h # g => generated'[h] = generated[h]
    BY <1>1, <1>2
  <2>2. \A d \in Made' : d.first + d.size <= generated'[d.gen]
    <3>1. \A d \in Made : d.gen \in Generators /\ d.first \in Nat /\ d.size \in Nat
      BY <1>3, ChunkTypes
    <3> QED
      BY <1>1, <1>2, <1>5, <1>n, <2>1, <3>1 DEF Partition
  <2>3. ASSUME NEW h \in Generators, NEW m \in 0..(generated'[h] - 1)
        PROVE  \E d \in Made' : Covers(d, h, m)
    <3>1. CASE h = g /\ m >= n
      <4>1. Covers(c, h, m)
        BY <1>1, <1>2, <2>1, <2>3, <3>1 DEF Covers, MatricesOf
      <4> QED
        BY <1>5, <4>1
    <3>2. CASE ~(h = g /\ m >= n)
      <4>1. m \in 0..(generated[h] - 1)
        BY <1>1, <1>n, <2>1, <2>3, <3>2
      <4> QED
        BY <1>5, <4>1 DEF Partition
    <3> QED
      BY <3>1, <3>2
  <2>4. ASSUME NEW d \in Made, NEW h, NEW m, Covers(d, h, m), Covers(c, h, m)
        PROVE  FALSE
    <3>1. d.first \in Nat /\ d.size \in Nat /\ d.gen = g /\ d.first + d.size <= n
      BY <1>2, <1>3, <1>n, <2>4, ChunkTypes DEF Partition, Covers
    <3>2. m <= d.first + d.size - 1 /\ m >= n /\ m \in Int
      BY <1>1, <1>2, <2>4, <3>1 DEF Covers, MatricesOf
    <3> QED
      BY <1>1, <3>1, <3>2
  <2>5. \A d, e \in Made' : \A h, m : Covers(d, h, m) /\ Covers(e, h, m) => d = e
    BY <1>5, <2>4 DEF Partition
  <2> QED
    BY <2>2, <2>3, <2>5 DEF Partition
<1> QED
  BY <1>6, <1>7

LEMMA GetPieces ==
  ASSUME Inv, OnePlace, Partition, NEW r \in Runners, RunnerGet(r)
  PROVE  OnePlace' /\ Partition'
<1>1. /\ queue \in Seq(Chunks) /\ queue # <<>> /\ queue' = Tail(queue)
      /\ entry' = [entry EXCEPT ![r] = Head(queue)]
      /\ entry \in [Runners -> Chunks \union {NoEntry}] /\ entry[r] = NoEntry
      /\ UNCHANGED <<generated, processed>>
      /\ \A s \in Runners : s # r => pc'[s] = pc[s]
      /\ pc'[r] = "process"
  BY ThreadFacts DEF RunnerGet, Goto, Q!GetNoWait, Q!Pop, Inv, TypeOK, Q!TypeOK, Places, OnePlace
<1> DEFINE c == Head(queue)
<1>2. /\ Queued' = Queued \ {c} /\ c \in Queued
      /\ \A i, j \in 1..Len(queue') : queue'[i] = queue'[j] => i = j
  BY <1>1, RangeOfTail DEF Queued, OnePlace
<1>3. c \in Chunks /\ c # NoEntry
  BY <1>1, ExperimentAssumption
<1> HIDE DEF c
<1>c. entry' = [entry EXCEPT ![r] = c]
  BY <1>1 DEF c
<1>4. InRunner' = InRunner \union {c}
  BY <1>1, <1>3, <1>c DEF InRunner
<1>5. Made' = Made
  BY <1>1, <1>2, <1>4 DEF Made
<1>6. c \notin InRunner /\ c \notin processed
  BY <1>2 DEF OnePlace
<1>7. \A s \in Runners : entry[s] # c
  BY <1>3, <1>6 DEF InRunner
<1>8. OnePlace'
  <2>1. Queued' \intersect InRunner' = {} /\ (Queued' \union InRunner') \intersect processed' = {}
    BY <1>1, <1>2, <1>4, <1>6 DEF OnePlace
  <2>2. \A s, u \in Runners : entry'[s] = entry'[u] /\ entry'[s] # NoEntry => s = u
    BY <1>1, <1>7, <1>c DEF OnePlace
  <2>3. \A s \in Runners : pc'[s] # "process" => entry'[s] = NoEntry
    BY <1>1, <1>c DEF OnePlace
  <2> QED
    BY <1>2, <2>1, <2>2, <2>3 DEF OnePlace
<1>9. Partition'
  BY <1>1, <1>5 DEF Partition
<1> QED
  BY <1>8, <1>9

LEMMA DonePieces ==
  ASSUME Inv, OnePlace, Partition, NEW r \in Runners, RunnerTaskDone(r)
  PROVE  OnePlace' /\ Partition'
<1>1. /\ UNCHANGED <<queue, generated>> /\ entry[r] \in Chunks
      /\ entry' = [entry EXCEPT ![r] = NoEntry]
      /\ entry \in [Runners -> Chunks \union {NoEntry}]
      /\ processed' = processed \union {entry[r]}
      /\ \A s \in Runners : s # r => pc'[s] = pc[s]
  BY ThreadFacts DEF RunnerTaskDone, Goto, Q!TaskDone, Inv, TypeOK, Places
<1>2. entry[r] # NoEntry
  BY <1>1, ExperimentAssumption
<1>3. Queued' = Queued
  BY <1>1 DEF Queued
<1>4. InRunner' = InRunner \ {entry[r]} /\ entry[r] \in InRunner
  BY <1>1, <1>2 DEF InRunner, OnePlace
<1>5. Made' = Made
  BY <1>1, <1>3, <1>4 DEF Made
<1>6. OnePlace'
  <2>1. Queued' \intersect InRunner' = {} /\ (Queued' \union InRunner') \intersect processed' = {}
    BY <1>1, <1>3, <1>4 DEF OnePlace
  <2>2. \A s, u \in Runners : entry'[s] = entry'[u] /\ entry'[s] # NoEntry => s = u
    BY <1>1 DEF OnePlace
  <2>3. \A s \in Runners : pc'[s] # "process" => entry'[s] = NoEntry
    BY <1>1 DEF OnePlace
  <2> QED
    BY <1>1, <2>1, <2>2, <2>3 DEF OnePlace
<1>7. Partition'
  BY <1>1, <1>5 DEF Partition
<1> QED
  BY <1>6, <1>7

LEMMA PiecesStep ==
  ASSUME Inv, OnePlace, Partition, [Next]_vars
  PROVE  OnePlace' /\ Partition'
<1> USE ThreadFacts DEF queueVars
<1>0. \A r \in Runners : pc[r] # "process" => entry[r] = NoEntry
  BY DEF OnePlace
<1>1. ASSUME NEW g \in Generators, StartGenerator(g)
      PROVE  OnePlace' /\ Partition'
  BY <1>0, <1>1, QuietPieces DEF StartGenerator, Inv, Places
<1>2. ASSUME NEW r \in Runners, StartRunner(r)
      PROVE  OnePlace' /\ Partition'
  BY <1>0, <1>2, QuietPieces DEF StartRunner, Inv, Places
<1>3. CASE CallJoin
  BY <1>0, <1>3, QuietPieces DEF CallJoin, Q!JoinEnter, Goto, Inv, Places
<1>4. CASE JoinWaits
  BY <1>0, <1>4, QuietPieces DEF JoinWaits, Q!JoinWait, Inv, Places
<1>5. CASE JoinReturns
  BY <1>0, <1>5, QuietPieces DEF JoinReturns, Q!JoinReturn, Goto, Inv, Places
<1>6. CASE JoinGenerators
  BY <1>0, <1>6, QuietPieces DEF JoinGenerators, Goto, Inv, Places
<1>7. ASSUME NEW r \in Runners, SetDone(r)
      PROVE  OnePlace' /\ Partition'
  BY <1>0, <1>7, QuietPieces DEF SetDone, Inv, Places
<1>8. CASE JoinRunners
  BY <1>0, <1>8, QuietPieces DEF JoinRunners, Goto, Inv, Places
<1>9. CASE Destroy
  BY <1>0, <1>9, QuietPieces DEF Destroy, Goto, Inv, Places
<1>10. CASE WakeInJoin
  BY <1>0, <1>10, QuietPieces DEF WakeInJoin, Q!SpuriousWakeup, Inv, Places
<1>11. ASSUME NEW g \in Generators, GeneratorPut(g)
       PROVE  OnePlace' /\ Partition'
  BY <1>11, PutPieces
<1>12. ASSUME NEW g \in Generators, GeneratorFinish(g)
       PROVE  OnePlace' /\ Partition'
  BY <1>0, <1>12, QuietPieces DEF GeneratorFinish, Goto, Inv, Places
<1>13. ASSUME NEW r \in Runners, RunnerGet(r)
       PROVE  OnePlace' /\ Partition'
  BY <1>13, GetPieces
<1>14. ASSUME NEW r \in Runners, RunnerGetNull(r)
       PROVE  OnePlace' /\ Partition'
  BY <1>0, <1>14, QuietPieces DEF RunnerGetNull, Goto, Inv, Places
<1>15. ASSUME NEW r \in Runners, RunnerCheckDone(r)
       PROVE  OnePlace' /\ Partition'
  BY <1>0, <1>15, QuietPieces DEF RunnerCheckDone, Goto, Inv, Places
<1>16. ASSUME NEW r \in Runners, RunnerTaskDone(r)
       PROVE  OnePlace' /\ Partition'
  BY <1>16, DonePieces
<1>17. CASE UNCHANGED vars
  BY <1>0, <1>17, QuietPieces DEF vars
<1> QED
  BY <1>1, <1>2, <1>3, <1>4, <1>5, <1>6, <1>7, <1>8, <1>9, <1>10, <1>11, <1>12, <1>13, <1>14,
     <1>15, <1>16, <1>17 DEF Next, MainStep, GeneratorStep, RunnerStep, Exit

LEMMA PiecesInit == Init => OnePlace /\ Partition
<1> SUFFICES ASSUME Init
             PROVE  OnePlace /\ Partition
  OBVIOUS
<1>1. Made = {} /\ Queued = {} /\ InRunner = {} /\ Len(queue) = 0
  BY DEF Init, Q!Init, Made, Queued, InRunner
<1>2. \A g \in Generators : 0..(generated[g] - 1) = {}
  BY DEF Init
<1>3. OnePlace
  BY <1>1 DEF Init, OnePlace
<1>4. Partition
  BY <1>1, <1>2 DEF Partition
<1> QED
  BY <1>3, <1>4

\* However generators and runners interleave, every matrix that was made is in one chunk, and
\* that chunk is queued, with a runner or through the experiment, once.
THEOREM EveryMatrixOnceHolds == SafeSpec => []EveryMatrixOnce
<1>1. OnePlace /\ Partition => EveryMatrixOnce
  <2> SUFFICES ASSUME OnePlace, Partition,
                      NEW g \in Generators, NEW m \in 0..(generated[g] - 1)
               PROVE  Cardinality({c \in Made : Covers(c, g, m)}) = 1
    BY DEF OnePlace, EveryMatrixOnce, Made, Covers
  <2>1. PICK c \in Made : Covers(c, g, m)
    BY DEF Partition
  <2>2. {d \in Made : Covers(d, g, m)} = {c}
    BY <2>1 DEF Partition
  <2> QED
    BY <2>2, FS_Singleton
<1>2. Inv /\ [Next]_vars /\ OnePlace /\ Partition => (OnePlace /\ Partition)'
  BY PiecesStep
<1> QED
  BY PiecesInit, <1>1, <1>2, InvHolds, PTL DEF SafeSpec
===============================================================================
