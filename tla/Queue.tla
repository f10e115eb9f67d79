-------------------------------- MODULE Queue ---------------------------------
(***************************************************************************)
(* The Queue class of experimental/lib/src/queue.h: a deque guarded by one  *)
(* mutex, with the condition variables not_empty_ and all_tasks_done_ and   *)
(* a counter of unfinished tasks.                                           *)
(*                                                                          *)
(* The mutex is held from the entry of a call to its return, and released   *)
(* in between only by pthread_cond_wait, so one action models one stretch   *)
(* of a call between taking the mutex and giving it up.  phase[t] tells     *)
(* where thread t is:                                                       *)
(*                                                                          *)
(*   "out"             outside every blocking call                          *)
(*   "get"             in a blocking get(), about to test the queue         *)
(*   "not_empty"       in get(), asleep on not_empty_                       *)
(*   "join"            in join(), about to test unfinished_tasks_           *)
(*   "all_tasks_done"  in join(), asleep on all_tasks_done_                 *)
(*                                                                          *)
(* The two wait loops on not_full_ in put() are dead code: both are reached *)
(* only when the queue was found not full under the same hold of the mutex. *)
(* So nothing ever sleeps on not_full_, and signalling it does nothing.     *)
(***************************************************************************)
EXTENDS Integers, Sequences, FiniteSets, Functions

CONSTANTS Threads,   \* the threads that call the queue
          Values,    \* the objects put: pointers to distinct live objects
          MaxSize    \* maxsize_; 0 asks for an unbounded queue

ASSUME QueueAssumption ==
  /\ IsFiniteSet(Threads)
  /\ IsFiniteSet(Values)
  /\ MaxSize \in Nat

VARIABLES queue,             \* queue_
          unfinished_tasks,  \* unfinished_tasks_
          phase,             \* where each thread is, see above
          deadline,          \* the endtime of a timed get()
          taken              \* objects returned by get() and not yet reported
                             \* by task_done(): owned by the callers

vars == <<queue, unfinished_tasks, phase, deadline, taken>>

Phases == {"out", "get", "not_empty", "join", "all_tasks_done"}
Deadlines == {"none", "running", "passed"}

Init ==
  /\ queue = <<>>
  /\ unfinished_tasks = 0
  /\ phase = [t \in Threads |-> "out"]
  /\ deadline = [t \in Threads |-> "none"]
  /\ taken = {}
-------------------------------------------------------------------------------
Asleep(on) == {t \in Threads : phase[t] = on}

\* pthread_cond_signal(&not_empty_): one sleeping thread, if there is one, goes
\* back to the test of its wait loop.
SignalNotEmpty ==
  IF Asleep("not_empty") = {}
  THEN UNCHANGED phase
  ELSE \E t \in Asleep("not_empty") : phase' = [phase EXCEPT ![t] = "get"]

\* Plausible bug: signal where a broadcast is needed.
SignalAllDone ==
  IF Asleep("all_tasks_done") = {}
  THEN UNCHANGED phase
  ELSE \E t \in Asleep("all_tasks_done") : phase' = [phase EXCEPT ![t] = "join"]

\* pthread_cond_broadcast(&all_tasks_done_): every sleeping thread does.
BroadcastAllDone ==
  phase' = [t \in Threads |->
              IF phase[t] = "all_tasks_done" THEN "join" ELSE phase[t]]

\* Plausible bug: signal not_empty_ only when the queue was empty.
PushSignalsWhenEmpty(v) ==
  /\ queue' = Append(queue, v)
  /\ unfinished_tasks' = unfinished_tasks + 1
  /\ IF queue = <<>> THEN SignalNotEmpty ELSE UNCHANGED phase
  /\ UNCHANGED <<deadline, taken>>

\* The common tail of put().
Push(v) ==
  /\ queue' = Append(queue, v)
  /\ unfinished_tasks' = unfinished_tasks + 1
  /\ SignalNotEmpty
  /\ UNCHANGED <<deadline, taken>>

\* Plausible bug: a task counted as finished when it is handed out.
PopFinishes ==
  /\ queue' = Tail(queue)
  /\ taken' = taken \cup {Head(queue)}
  /\ unfinished_tasks' = unfinished_tasks - 1

\* The common tail of get(): the caller owns the object from here on.
Pop ==
  /\ queue' = Tail(queue)
  /\ taken' = taken \cup {Head(queue)}
  /\ UNCHANGED unfinished_tasks
-------------------------------------------------------------------------------
\* put(v, block, timeout).  Only a non-blocking call looks at maxsize_; when it
\* finds the queue full it returns false and changes nothing.
Put(t, v, block) ==
  /\ phase[t] = "out"
  /\ v \notin Range(queue) \cup taken
  /\ ~ (MaxSize > 0 /\ ~block /\ Len(queue) = MaxSize)
  /\ Push(v)

\* get(false, timeout): the timeout is ignored, and an empty queue gives NULL at
\* once and changes nothing.
GetNoWait(t) ==
  /\ phase[t] = "out"
  /\ queue # <<>>
  /\ Pop
  /\ UNCHANGED <<phase, deadline>>

\* get(true, timeout) is entered; a timeout of 0 sets no endtime.
GetEnter(t, timed) ==
  /\ phase[t] = "out"
  /\ phase' = [phase EXCEPT ![t] = "get"]
  /\ deadline' = [deadline EXCEPT ![t] = IF timed THEN "running" ELSE "none"]
  /\ UNCHANGED <<queue, unfinished_tasks, taken>>

\* The wait loop of get() finds the queue nonempty, whatever the clock says.
GetTake(t) ==
  /\ phase[t] = "get"
  /\ queue # <<>>
  /\ Pop
  /\ phase' = [phase EXCEPT ![t] = "out"]
  /\ deadline' = [deadline EXCEPT ![t] = "none"]

\* It finds the queue empty and the endtime not reached: pthread_cond_wait, in
\* the timed loop as in the untimed one.
GetWait(t) ==
  /\ phase[t] = "get"
  /\ queue = <<>>
  /\ deadline[t] # "passed"
  /\ phase' = [phase EXCEPT ![t] = "not_empty"]
  /\ UNCHANGED <<queue, unfinished_tasks, deadline, taken>>

\* Plausible bug: the NULL of a timeout is treated as an object.
TimeoutYieldsNull(t) ==
  /\ phase[t] = "get"
  /\ queue = <<>>
  /\ deadline[t] = "passed"
  /\ phase' = [phase EXCEPT ![t] = "out"]
  /\ deadline' = [deadline EXCEPT ![t] = "none"]
  /\ taken' = taken \cup {"NULL"}
  /\ UNCHANGED <<queue, unfinished_tasks>>

\* It finds the queue empty and the endtime reached: get() returns NULL.
GetTimeout(t) ==
  /\ phase[t] = "get"
  /\ queue = <<>>
  /\ deadline[t] = "passed"
  /\ phase' = [phase EXCEPT ![t] = "out"]
  /\ deadline' = [deadline EXCEPT ![t] = "none"]
  /\ UNCHANGED <<queue, unfinished_tasks, taken>>

\* Plausible bug: the early exit at zero skips the store of the counter.
TaskDoneNoStore(t, v) ==
  /\ phase[t] = "out"
  /\ v \in taken
  /\ unfinished_tasks > 0
  /\ IF unfinished_tasks = 1
     THEN BroadcastAllDone /\ UNCHANGED unfinished_tasks
     ELSE UNCHANGED phase /\ unfinished_tasks' = unfinished_tasks - 1
  /\ taken' = taken \ {v}
  /\ UNCHANGED <<queue, deadline>>

\* task_done(), called by the owner of v.  The test for zero and the broadcast
\* come before the counter is stored, all under the mutex.  The LOG(FATAL) for a
\* negative count is the guard; TaskDoneNeverFatal says that it never bites.
TaskDone(t, v) ==
  LET unfinished == unfinished_tasks - 1
  IN  /\ phase[t] = "out"
      /\ v \in taken
      /\ unfinished >= 0
      /\ IF unfinished <= 0 THEN BroadcastAllDone ELSE UNCHANGED phase
      /\ unfinished_tasks' = unfinished
      /\ taken' = taken \ {v}
      /\ UNCHANGED <<queue, deadline>>

JoinEnter(t) ==
  /\ phase[t] = "out"
  /\ phase' = [phase EXCEPT ![t] = "join"]
  /\ UNCHANGED <<queue, unfinished_tasks, deadline, taken>>

JoinWait(t) ==
  /\ phase[t] = "join"
  /\ unfinished_tasks > 0
  /\ phase' = [phase EXCEPT ![t] = "all_tasks_done"]
  /\ UNCHANGED <<queue, unfinished_tasks, deadline, taken>>

JoinReturn(t) ==
  /\ phase[t] = "join"
  /\ ~ (unfinished_tasks > 0)
  /\ phase' = [phase EXCEPT ![t] = "out"]
  /\ UNCHANGED <<queue, unfinished_tasks, deadline, taken>>

\* The clock reaches the endtime of a timed get().
Expire(t) ==
  /\ deadline[t] = "running"
  /\ deadline' = [deadline EXCEPT ![t] = "passed"]
  /\ UNCHANGED <<queue, unfinished_tasks, phase, taken>>

\* POSIX lets pthread_cond_wait return without a signal.
SpuriousWakeup(t) ==
  /\ phase[t] \in {"not_empty", "all_tasks_done"}
  /\ phase' = [phase EXCEPT ![t] = IF @ = "not_empty" THEN "get" ELSE "join"]
  /\ UNCHANGED <<queue, unfinished_tasks, deadline, taken>>
-------------------------------------------------------------------------------
\* What thread t does inside a call it has entered.
InCall(t) ==
  \/ GetTake(t)
  \/ GetWait(t)
  \/ GetTimeout(t)
  \/ JoinWait(t)
  \/ JoinReturn(t)

Next ==
  \E t \in Threads :
    \/ \E v \in Values, block \in BOOLEAN : Put(t, v, block)
    \/ GetNoWait(t)
    \/ \E timed \in BOOLEAN : GetEnter(t, timed)
    \/ \E v \in Values : TaskDone(t, v)
    \/ JoinEnter(t)
    \/ InCall(t)
    \/ Expire(t)
    \/ SpuriousWakeup(t)

\* A thread that can go on inside a call does go on, whoever else takes the
\* mutex in between: the test it is about to make is always enabled.  Nothing
\* says that a client calls put() or that a wakeup is ever spurious.
Fairness == \A t \in Threads : WF_vars(InCall(t)) /\ WF_vars(Expire(t))

SafeSpec == Init /\ [][Next]_vars
Spec == SafeSpec /\ Fairness
-------------------------------------------------------------------------------
TypeOK ==
  /\ queue \in Seq(Values)
  /\ unfinished_tasks \in Int
  /\ phase \in [Threads -> Phases]
  /\ deadline \in [Threads -> Deadlines]
  /\ taken \in SUBSET Values

\* An object has one owner: it sits in the queue at one place, or a caller got it
\* from get(), never both.  (The caller deletes it after task_done().)
OneOwner ==
  /\ \A i, j \in 1..Len(queue) : queue[i] = queue[j] => i = j
  /\ \A i \in 1..Len(queue) : queue[i] \notin taken

\* unfinished_tasks_ counts the objects that were put and not yet reported done,
\* through every interleaving of put(), get() and task_done().
CounterIsExact == unfinished_tasks = Len(queue) + Cardinality(taken)

\* A caller that reports a task it owns never runs into the LOG(FATAL) of
\* task_done().
TaskDoneNeverFatal == taken # {} => unfinished_tasks > 0

\* No lost wakeup in get(): while somebody sleeps on not_empty_, there are at
\* least as many awake getters as there are objects to take.  One signal per
\* put() is enough although awake getters, non-blocking getters and timed
\* getters race for the objects.
NoLostWakeup ==
  Asleep("not_empty") # {} => Len(queue) <= Cardinality(Asleep("get"))

\* No lost wakeup in join(): nobody sleeps on all_tasks_done_ once the last task
\* is done.
NoForgottenJoiner == Asleep("all_tasks_done") # {} => unfinished_tasks > 0

\* A thread asleep in get() while there is something to take is woken, or the
\* queue is emptied by others.
SleeperServed ==
  \A t \in Threads :
    (phase[t] = "not_empty" /\ queue # <<>>)
      ~> (phase[t] # "not_empty" \/ queue = <<>>)

\* The class does what a pool of tasks promises; in particular join() returns
\* only when nothing is queued and nothing is being worked on.
Pool == INSTANCE TaskPool
          WITH pending <- queue,
               joining <- {t \in Threads : phase[t] \in {"join", "all_tasks_done"}}

ImplementsTaskPool == Pool!Spec
===============================================================================
