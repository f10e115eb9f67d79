------------------------------- MODULE TaskPool -------------------------------
(***************************************************************************)
(* What the Queue class of experimental/lib/src/queue.h promises to its     *)
(* users, after the Python Queue collection it says it follows: a FIFO of   *)
(* tasks, every task handed to exactly one taker, and a join() that returns *)
(* only at a moment when every task ever put has been taken and reported    *)
(* done.  Mutexes, condition variables and the task counter do not appear.  *)
(***************************************************************************)
EXTENDS Sequences, Functions

CONSTANTS Threads,   \* the threads that use the pool
          Values     \* the tasks; a task may be put again after it is done

VARIABLES pending,   \* tasks put and not yet taken, oldest first
          taken,     \* tasks taken and not yet reported done
          joining    \* threads inside join()

vars == <<pending, taken, joining>>

Init ==
  /\ pending = <<>>
  /\ taken = {}
  /\ joining = {}

\* A task that is neither waiting nor being worked on enters the pool.
Put(v) ==
  /\ v \notin Range(pending) \cup taken
  /\ pending' = Append(pending, v)
  /\ UNCHANGED <<taken, joining>>

\* The oldest waiting task is handed to one taker.
Take ==
  /\ pending # <<>>
  /\ pending' = Tail(pending)
  /\ taken' = taken \cup {Head(pending)}
  /\ UNCHANGED joining

\* A taker reports its task done.
Finish(v) ==
  /\ v \in taken
  /\ taken' = taken \ {v}
  /\ UNCHANGED <<pending, joining>>

EnterJoin(t) ==
  /\ t \notin joining
  /\ joining' = joining \cup {t}
  /\ UNCHANGED <<pending, taken>>

\* join() returns only when nothing is waiting and nothing is being worked on.
LeaveJoin(t) ==
  /\ t \in joining
  /\ pending = <<>>
  /\ taken = {}
  /\ joining' = joining \ {t}
  /\ UNCHANGED <<pending, taken>>

Next ==
  \/ \E v \in Values : Put(v) \/ Finish(v)
  \/ Take
  \/ \E t \in Threads : EnterJoin(t) \/ LeaveJoin(t)

Spec == Init /\ [][Next]_vars
===============================================================================
