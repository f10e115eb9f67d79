-------------------------- MODULE InMemoryExperiment --------------------------
(***************************************************************************)
(* The threads of experimental/lib/src/in_memory_experiment.cc around one   *)
(* Queue: main(), the Generators that put chunks of random matrices and the *)
(* AestheteRunners that take chunks, run the JPEG experiment on them and    *)
(* report them done.                                                        *)
(*                                                                          *)
(* A matrix is known by its number in its generator, a chunk by its         *)
(* generator, its first matrix and its size; the bytes of a matrix and the  *)
(* experiment itself change no shared state and are left out.               *)
(*                                                                          *)
(* done_ is a plain bool written by main() and read by a runner: a data     *)
(* race.  The read follows a call into the queue (an opaque pthread call),  *)
(* so the build reads memory every time and a one-byte read yields the old  *)
(* or the new value: the interleavings of SetDone and RunnerCheckDone.      *)
(***************************************************************************)
EXTENDS Integers, Sequences, FiniteSets

CONSTANTS Generators,   \* the generator threads (FLAGS_gen_threads)
          Runners,      \* the runner threads (FLAGS_run_threads)
          Main,         \* the main thread
          NumMatrices,  \* FLAGS_num_matrices / FLAGS_gen_threads
          ChunkSize,    \* FLAGS_chunk_size
          QueueSize,    \* FLAGS_queue_size
          NoEntry       \* queue_entry == NULL

Threads == Generators \cup Runners \cup {Main}

\* Plausible bug: the chunk loop does not stop at the total.
WholeChunk(n) == ChunkSize

\* The chunk loop of Generator::Run for a generator that has made n matrices: it
\* stops at the chunk size or at the total, whichever comes first.
ChunkLength(n) == IF NumMatrices - n < ChunkSize THEN NumMatrices - n ELSE ChunkSize

Chunk(g, n) == [gen |-> g, first |-> n, size |-> ChunkLength(n)]
Chunks == {Chunk(g, n) : g \in Generators, n \in 0..(NumMatrices - 1)}
MatricesOf(c) == c.first .. (c.first + c.size - 1)

ASSUME ExperimentAssumption ==
  /\ IsFiniteSet(Generators) /\ Generators # {}
  /\ IsFiniteSet(Runners) /\ Runners # {}
  /\ Generators \cap Runners = {}
  /\ Main \notin Generators \cup Runners
  /\ NumMatrices \in Nat
  /\ ChunkSize \in Nat \ {0}
  /\ QueueSize \in Nat
  /\ NoEntry \notin Chunks

VARIABLES queue, unfinished_tasks, phase, deadline, taken,  \* the Queue
          pc,         \* where every thread is in its own code
          generated,  \* matrices_generated of each generator
          done,       \* done_ of each runner
          entry,      \* queue_entry of each runner
          processed   \* history: the chunks the experiment ran on

queueVars == <<queue, unfinished_tasks, phase, deadline, taken>>
vars == <<queueVars, pc, generated, done, entry, processed>>

Q == INSTANCE Queue WITH Values <- Chunks, MaxSize <- QueueSize

Init ==
  /\ Q!Init
  /\ pc = [t \in Threads |-> IF t = Main THEN "start_generators" ELSE "new"]
  /\ generated = [g \in Generators |-> 0]
  /\ done = [r \in Runners |-> FALSE]
  /\ entry = [r \in Runners |-> NoEntry]
  /\ processed = {}

Goto(t, from, to) == pc[t] = from /\ pc' = [pc EXCEPT ![t] = to]
-------------------------------------------------------------------------------
(* main() *)

\* generators[i]->Start(), then runners[i]->Start(); the objects of one kind are
\* alike, so the order among them does not matter.
StartGenerator(g) ==
  /\ pc[Main] = "start_generators"
  /\ pc[g] = "new"
  /\ pc' = [pc EXCEPT
              ![g] = "generate",
              ![Main] = IF \A h \in Generators \ {g} : pc[h] # "new"
                        THEN "start_runners" ELSE @]
  /\ UNCHANGED <<queueVars, generated, done, entry, processed>>

StartRunner(r) ==
  /\ pc[Main] = "start_runners"
  /\ pc[r] = "new"
  /\ pc' = [pc EXCEPT
              ![r] = "get",
              ![Main] = IF \A s \in Runners \ {r} : pc[s] # "new"
                        THEN "call_join" ELSE @]
  /\ UNCHANGED <<queueVars, generated, done, entry, processed>>

\* queue.join()
CallJoin ==
  /\ Goto(Main, "call_join", "in_join")
  /\ Q!JoinEnter(Main)
  /\ UNCHANGED <<generated, done, entry, processed>>

JoinWaits ==
  /\ pc[Main] = "in_join"
  /\ Q!JoinWait(Main)
  /\ UNCHANGED <<pc, generated, done, entry, processed>>

JoinReturns ==
  /\ Goto(Main, "in_join", "join_generators")
  /\ Q!JoinReturn(Main)
  /\ UNCHANGED <<generated, done, entry, processed>>

WakeInJoin ==
  /\ Q!SpuriousWakeup(Main)
  /\ UNCHANGED <<pc, generated, done, entry, processed>>

\* Plausible bug: the runners are told to stop without waiting for the generators.
SkipJoinGenerators ==
  /\ Goto(Main, "join_generators", "set_done")
  /\ UNCHANGED <<queueVars, generated, done, entry, processed>>

\* generators[i]->Join() for every i
JoinGenerators ==
  /\ \A g \in Generators : pc[g] = "finished"
  /\ Goto(Main, "join_generators", "set_done")
  /\ UNCHANGED <<queueVars, generated, done, entry, processed>>

\* runners[i]->Done()
SetDone(r) ==
  /\ pc[Main] = "set_done"
  /\ ~done[r]
  /\ done' = [done EXCEPT ![r] = TRUE]
  /\ pc' = [pc EXCEPT ![Main] = IF \A s \in Runners \ {r} : done[s]
                                THEN "join_runners" ELSE @]
  /\ UNCHANGED <<queueVars, generated, entry, processed>>

\* runners[i]->Join() for every i, then the deletes
JoinRunners ==
  /\ \A r \in Runners : pc[r] = "finished"
  /\ Goto(Main, "join_runners", "destroy")
  /\ UNCHANGED <<queueVars, generated, done, entry, processed>>

\* ~Queue() at the return of main(): CHECK_EQ(qsize(), 0) aborts the process.
Destroy ==
  /\ Goto(Main, "destroy", IF Len(queue) = 0 THEN "returned" ELSE "aborted")
  /\ UNCHANGED <<queueVars, generated, done, entry, processed>>
-------------------------------------------------------------------------------
(* Generator::Run *)

\* Plausible bug: the counter is advanced by the outer loop as well.
GeneratorSkipsOne(g) ==
  /\ pc[g] = "generate"
  /\ generated[g] < NumMatrices
  /\ Q!Put(g, Chunk(g, generated[g]), TRUE)
  /\ generated' = [generated EXCEPT ![g] = IF @ + ChunkLength(@) < NumMatrices
                                          THEN @ + ChunkLength(@) + 1
                                          ELSE NumMatrices]
  /\ UNCHANGED <<pc, done, entry, processed>>

GeneratorPut(g) ==
  /\ pc[g] = "generate"
  /\ generated[g] < NumMatrices
  /\ Q!Put(g, Chunk(g, generated[g]), TRUE)
  /\ generated' = [generated EXCEPT ![g] = @ + ChunkLength(@)]
  /\ UNCHANGED <<pc, done, entry, processed>>

GeneratorFinish(g) ==
  /\ generated[g] >= NumMatrices
  /\ Goto(g, "generate", "finished")
  /\ UNCHANGED <<queueVars, generated, done, entry, processed>>
-------------------------------------------------------------------------------
(* AestheteRunner::Run *)

\* get(false, 5) returns a chunk ...
RunnerGet(r) ==
  /\ Goto(r, "get", "process")
  /\ Q!GetNoWait(r)
  /\ entry' = [entry EXCEPT ![r] = Head(queue)]
  /\ UNCHANGED <<generated, done, processed>>

\* ... or NULL, and the runner goes on to read done_ outside the mutex.
RunnerGetNull(r) ==
  /\ queue = <<>>
  /\ Goto(r, "get", "check_done")
  /\ UNCHANGED <<queueVars, generated, done, entry, processed>>

\* Plausible bug: "if (!done_) break", the test of done_ the wrong way round.
RunnerStopsEarly(r) ==
  /\ Goto(r, "check_done", IF ~done[r] THEN "finished" ELSE "get")
  /\ UNCHANGED <<queueVars, generated, done, entry, processed>>

RunnerCheckDone(r) ==
  /\ Goto(r, "check_done", IF done[r] THEN "finished" ELSE "get")
  /\ UNCHANGED <<queueVars, generated, done, entry, processed>>

\* The experiment has run on every matrix of the chunk: task_done().
RunnerTaskDone(r) ==
  /\ Goto(r, "process", "get")
  /\ Q!TaskDone(r, entry[r])
  /\ processed' = processed \cup {entry[r]}
  /\ entry' = [entry EXCEPT ![r] = NoEntry]
  /\ UNCHANGED <<generated, done>>
-------------------------------------------------------------------------------
MainStep ==
  \/ \E g \in Generators : StartGenerator(g)
  \/ \E r \in Runners : StartRunner(r)
  \/ CallJoin
  \/ JoinWaits
  \/ JoinReturns
  \/ JoinGenerators
  \/ \E r \in Runners : SetDone(r)
  \/ JoinRunners
  \/ Destroy

GeneratorStep(g) == GeneratorPut(g) \/ GeneratorFinish(g)

RunnerStep(r) ==
  \/ RunnerGet(r)
  \/ RunnerGetNull(r)
  \/ RunnerCheckDone(r)
  \/ RunnerTaskDone(r)

\* The process is gone: nothing else happens.
Stopped == pc[Main] \in {"returned", "aborted"}
Exit == Stopped /\ UNCHANGED vars

Next ==
  \/ MainStep
  \/ WakeInJoin
  \/ \E g \in Generators : GeneratorStep(g)
  \/ \E r \in Runners : RunnerStep(r)
  \/ Exit

\* The kernel runs every thread that can run.
Fairness ==
  /\ WF_vars(MainStep)
  /\ \A g \in Generators : WF_vars(GeneratorStep(g))
  /\ \A r \in Runners : WF_vars(RunnerStep(r))

SafeSpec == Init /\ [][Next]_vars
Spec == SafeSpec /\ Fairness
-------------------------------------------------------------------------------
MainPlaces == {"start_generators", "start_runners", "call_join", "in_join",
               "join_generators", "set_done", "join_runners", "destroy",
               "returned", "aborted"}
GeneratorPlaces == {"new", "generate", "finished"}
RunnerPlaces == {"new", "get", "process", "check_done", "finished"}

TypeOK ==
  /\ Q!TypeOK
  /\ DOMAIN pc = Threads
  /\ pc[Main] \in MainPlaces
  /\ \A g \in Generators : pc[g] \in GeneratorPlaces
  /\ \A r \in Runners : pc[r] \in RunnerPlaces
  /\ generated \in [Generators -> 0..NumMatrices]
  /\ done \in [Runners -> BOOLEAN]
  /\ entry \in [Runners -> Chunks \cup {NoEntry}]
  /\ processed \in SUBSET Chunks

\* Chunks that exist: queued, in a runner, or through the experiment.
Queued == {queue[i] : i \in 1..Len(queue)}
InRunner == {entry[r] : r \in Runners} \ {NoEntry}

\* Every matrix a generator has made is in exactly one chunk, and that chunk is
\* in exactly one place: nothing is lost, duplicated or processed twice however
\* the generators and runners interleave.
EveryMatrixOnce ==
  /\ \A g \in Generators : \A m \in 0..(generated[g] - 1) :
       Cardinality({c \in Queued \cup InRunner \cup processed :
                      c.gen = g /\ m \in MatricesOf(c)}) = 1
  /\ Queued \cap InRunner = {}
  /\ (Queued \cup InRunner) \cap processed = {}
  /\ \A r, s \in Runners : entry[r] = entry[s] /\ entry[r] # NoEntry => r = s

\* A runner leaves its loop only when no more chunks will be put.
RunnersStopLast ==
  (\E r \in Runners : pc[r] = "finished")
    => \A g \in Generators : generated[g] = NumMatrices

\* main() always gets to the end, whatever the runners and generators do.
Terminates == <>Stopped

\* ~Queue(): CHECK_EQ(qsize(), 0) << "Queue should be empty."
QueueEmptyAtDestruction == pc[Main] # "aborted"
===============================================================================
