----------------------------- MODULE RsControl -----------------------------
(***************************************************************************)
(* The threads of ecc_experiment_main.cc and the table of control          *)
(* structures that their codecs share (reed_solomon.c).  init_rs() looks   *)
(* for a structure with the same parameters, and all RsCodecs ask for the  *)
(* same ones; free_rs() frees it with its last user.  Both lock            *)
(* rslistlock, which init_rs() initializes again on every call.            *)
(*                                                                         *)
(* The mutex is that of the platform (external): a word that is 0 when     *)
(* free, 1 when held, 2 when held and waited for, and threads that sleep   *)
(* until somebody who gives up a 2 wakes one of them.  POSIX does not say  *)
(* what initializing a locked mutex does; on this platform it sets the     *)
(* word to 0.  overlap tells that this has happened; from then on the      *)
(* structures are used without protection, and the properties below speak  *)
(* of the executions where it has not, except ListIsProtected.  Inside the *)
(* lock a statement is a step, an operation of list.h is one step.  The    *)
(* order of the list is left out: any matching entry may be found.         *)
(***************************************************************************)
EXTENDS Integers, FiniteSets

CONSTANTS NumThreads,  \* FLAGS_num_threads
          Iterations,  \* iterations_per_thread
          Control,     \* addresses of control structures
          NoControl

Thread == 1..NumThreads

ASSUME RsControlAssumption ==
  /\ NumThreads \in Nat
  /\ Iterations \in Nat
  /\ NoControl \notin Control

VARIABLES
  pc,         \* where each thread is
  op,         \* the call it is in, "init" or "free"
  started,    \* how many threads Foo() has started
  joined,     \* how many threads Foo() has joined
  iteration,  \* what each thread has done of its iterations
  word,       \* rslistlock
  rslist,     \* the structures in the list
  users,      \* their field users, from rs_init() to free()
  freed,      \* structures that were freed
  rs,         \* the structure of each thread's codec
  tmp,        \* what a thread has read of users
  overlap     \* rslistlock was initialized while it was not free

vars == <<pc, op, started, joined, iteration, word, rslist, users, freed, rs, tmp, overlap>>
lock == <<word, overlap>>
table == <<rslist, users, freed>>
main == <<started, joined>>

Init ==
  /\ pc = [t \in Thread |-> "new"]
  /\ op = [t \in Thread |-> "init"]
  /\ started = 0 /\ joined = 0
  /\ iteration = [t \in Thread |-> 0]
  /\ word = 0
  /\ rslist = {} /\ users = [c \in Control |-> 0] /\ freed = {}
  /\ rs = [t \in Thread |-> NoControl]
  /\ tmp = [t \in Thread |-> 0]
  /\ overlap = FALSE

Goto(t, label) == pc' = [pc EXCEPT ![t] = label]

\* Foo() starts all threads, then joins them in the order of their numbers.
Start ==
  /\ started < NumThreads
  /\ started' = started + 1
  /\ Goto(started + 1, "mutex_init")
  /\ UNCHANGED <<op, joined, iteration, lock, table, rs, tmp>>

Join ==
  /\ started = NumThreads /\ joined < NumThreads
  /\ pc[joined + 1] = "ended"
  /\ joined' = joined + 1
  /\ UNCHANGED <<pc, op, started, iteration, lock, table, rs, tmp>>

(***************************************************************************)
(* rslistlock                                                              *)
(***************************************************************************)

\* init_rs_internal() begins with pthread_mutex_init().
MutexInit(t) ==
  /\ pc[t] = "mutex_init"
  /\ word' = 0
  /\ overlap' = (overlap \/ word # 0)
  /\ Goto(t, "lock")
  /\ UNCHANGED <<op, main, iteration, table, rs, tmp>>

\* The first statement inside the lock, and the place behind the unlocking.
Inside(t) == IF op[t] = "init" THEN "scan" ELSE "drop"
After(t) == IF op[t] = "init" THEN "using" ELSE "ended"

Lock(t) ==
  /\ pc[t] = "lock"
  /\ IF word = 0 THEN word' = 1 /\ Goto(t, Inside(t))
     ELSE word' = word /\ Goto(t, "contend")
  /\ UNCHANGED <<op, main, iteration, table, rs, tmp, overlap>>

Contend(t) ==
  /\ pc[t] = "contend"
  /\ word' = 2
  /\ Goto(t, IF word = 0 THEN Inside(t) ELSE "wait")
  /\ UNCHANGED <<op, main, iteration, table, rs, tmp, overlap>>

\* The system puts the thread to sleep only if the word still is 2.
Wait(t) ==
  /\ pc[t] = "wait"
  /\ Goto(t, IF word = 2 THEN "asleep" ELSE "contend")
  /\ UNCHANGED <<op, main, iteration, lock, table, rs, tmp>>

\* Plausible bug: nobody is woken.
UnlockSilently(t) ==
  /\ pc[t] = "unlock"
  /\ word' = 0
  /\ Goto(t, After(t))
  /\ UNCHANGED <<op, main, iteration, table, rs, tmp, overlap>>
Unlock(t) ==
  /\ pc[t] = "unlock"
  /\ word' = 0
  /\ Goto(t, IF word = 2 THEN "wake" ELSE After(t))
  /\ UNCHANGED <<op, main, iteration, table, rs, tmp, overlap>>

Asleep == {t \in Thread : pc[t] = "asleep"}

Wake(t) ==
  /\ pc[t] = "wake"
  /\ IF Asleep = {} THEN Goto(t, After(t))
     ELSE \E u \in Asleep : pc' = [pc EXCEPT ![t] = After(t), ![u] = "contend"]
  /\ UNCHANGED <<op, main, iteration, lock, table, rs, tmp>>

(***************************************************************************)
(* init_rs_internal() inside the lock                                      *)
(***************************************************************************)

\* list_for_each: the parameters of all codecs are equal, every entry matches.
Scan(t) ==
  /\ pc[t] = "scan"
  /\ \/ /\ rslist = {}
        /\ Goto(t, "create")
        /\ UNCHANGED <<rs, tmp>>
     \/ \E c \in rslist :
          /\ rs' = [rs EXCEPT ![t] = c]
          /\ tmp' = [tmp EXCEPT ![t] = users[c]]
          /\ Goto(t, "count")
  /\ UNCHANGED <<op, main, iteration, lock, table>>

\* rs->users++
\* Plausible bug: a structure that was found is not counted.
CountNothing(t) ==
  /\ pc[t] = "count"
  /\ Goto(t, "unlock")
  /\ UNCHANGED <<op, main, iteration, lock, table, rs, tmp>>
Count(t) ==
  /\ pc[t] = "count"
  /\ users' = [users EXCEPT ![rs[t]] = tmp[t] + 1]
  /\ Goto(t, "unlock")
  /\ UNCHANGED <<op, main, iteration, lock, rslist, freed, rs, tmp>>

\* rs_init(), users = 1, list_add().  An address is not given out again after free(), so
\* that a pointer to what was there is seen to be stale.
Create(t) ==
  /\ pc[t] = "create"
  /\ \E c \in Control \ (freed \union rslist) :
       /\ rs' = [rs EXCEPT ![t] = c]
       /\ users' = [users EXCEPT ![c] = 1]
       /\ rslist' = rslist \union {c}
  /\ Goto(t, "unlock")
  /\ UNCHANGED <<op, main, iteration, lock, freed, tmp>>

\* The loop of EccThread::Run().
\* Plausible bug: one iteration too many.
AgainUpTo(t) == iteration[t] <= Iterations
Again(t) == iteration[t] < Iterations

\* EccThread::Run(): its iterations use the structure; the destructor calls free_rs().
Use(t) ==
  /\ pc[t] = "using"
  /\ IF Again(t)
     THEN iteration' = [iteration EXCEPT ![t] = @ + 1] /\ UNCHANGED <<pc, op>>
     ELSE op' = [op EXCEPT ![t] = "free"] /\ Goto(t, "lock") /\ UNCHANGED iteration
  /\ UNCHANGED <<main, lock, table, rs, tmp>>

(***************************************************************************)
(* free_rs() inside the lock                                               *)
(***************************************************************************)

\* rs->users--, reading and writing
DropRead(t) ==
  /\ pc[t] = "drop"
  /\ tmp' = [tmp EXCEPT ![t] = users[rs[t]]]
  /\ Goto(t, "dropped")
  /\ UNCHANGED <<op, main, iteration, lock, table, rs>>

DropWrite(t) ==
  /\ pc[t] = "dropped"
  /\ users' = [users EXCEPT ![rs[t]] = tmp[t] - 1]
  /\ Goto(t, "check")
  /\ UNCHANGED <<op, main, iteration, lock, rslist, freed, rs, tmp>>

\* Plausible bug: the first codec to go frees the structure.
CheckNothing(t) ==
  /\ pc[t] = "check"
  /\ Goto(t, "delete")
  /\ UNCHANGED <<op, main, iteration, lock, table, rs, tmp>>
Check(t) ==
  /\ pc[t] = "check"
  /\ Goto(t, IF users[rs[t]] = 0 THEN "delete" ELSE "unlock")
  /\ UNCHANGED <<op, main, iteration, lock, table, rs, tmp>>

\* list_del() and the calls of free()
Delete(t) ==
  /\ pc[t] = "delete"
  /\ rslist' = rslist \ {rs[t]}
  /\ freed' = freed \union {rs[t]}
  /\ Goto(t, "unlock")
  /\ UNCHANGED <<op, main, iteration, lock, users, rs, tmp>>

Step(t) ==
  \/ MutexInit(t) \/ Lock(t) \/ Contend(t) \/ Wait(t) \/ Unlock(t) \/ Wake(t)
  \/ Scan(t) \/ Count(t) \/ Create(t) \/ Use(t)
  \/ DropRead(t) \/ DropWrite(t) \/ Check(t) \/ Delete(t)

Next == Start \/ Join \/ \E t \in Thread : Step(t)

SafeSpec == Init /\ [][Next]_vars

\* Foo() goes on when it can, and the system runs every thread that can be run.
Fairness == WF_vars(Start) /\ WF_vars(Join) /\ \A t \in Thread : WF_vars(Step(t))

Spec == SafeSpec /\ Fairness

-----------------------------------------------------------------------------

InLock == {"scan", "count", "create", "drop", "dropped", "check", "delete", "unlock"}
Label == InLock \union {"new", "mutex_init", "lock", "contend", "wait", "asleep", "wake",
                        "using", "ended"}

TypeOK ==
  /\ pc \in [Thread -> Label]
  /\ op \in [Thread -> {"init", "free"}]
  /\ started \in 0..NumThreads /\ joined \in 0..started
  /\ iteration \in [Thread -> 0..Iterations]
  /\ word \in 0..2
  /\ rslist \in SUBSET Control
  /\ users \in [Control -> Int]
  /\ freed \in SUBSET Control
  /\ rs \in [Thread -> Control \union {NoControl}]
  /\ tmp \in [Thread -> Int]
  /\ overlap \in BOOLEAN

\* Between the step that counts a thread in users and the one that takes it off again.
IsHolder(t) ==
  \/ pc[t] \in {"unlock", "wake"} /\ op[t] = "init"
  \/ pc[t] = "using"
  \/ pc[t] \in {"lock", "contend", "wait", "asleep", "drop", "dropped"} /\ op[t] = "free"

Holders(c) == {t \in Thread : IsHolder(t) /\ rs[t] = c}

\* "Protection for the list" (reed_solomon.c): one thread at a time is between locking and
\* unlocking rslistlock.
ListIsProtected == Cardinality({t \in Thread : pc[t] \in InLock}) <= 1

\* All codecs of the program share one structure, and users is how many have it.
UsersAreHolders ==
  ~overlap =>
    /\ \A c, d \in rslist : c = d
    /\ \A c \in rslist : users[c] = Cardinality(Holders(c))

\* What a thread encodes and decodes with, or is about to free, is in the list and not freed.
HoldersAlive ==
  ~overlap => \A t \in Thread : IsHolder(t) => rs[t] \in rslist \ freed

\* Foo() gets past its last join, and then the last structure is freed.  Nobody sleeps on
\* rslistlock for ever, whichever thread the system lets in.
EndsClean == <>(overlap \/ (joined = NumThreads /\ rslist = {}))
=============================================================================
