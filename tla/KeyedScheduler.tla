--------------------------- MODULE KeyedScheduler ---------------------------
(***************************************************************************)
(* What the task scheduler promises its callers (spec 2 and 4.1, the      *)
(* Affinity Scheduler and the Scheduler task invariant): tasks submitted with the same affinity key run one at a    *)
(* time, in submission order; tasks submitted without a key run in any     *)
(* order; every accepted task eventually runs; after shutdown no task is   *)
(* accepted, and the shutdown returns only once every accepted task has   *)
(* run.  Tasks are numbered in submission order.                           *)
(*                                                                         *)
(* The abstract specification of src/server/ThreadPool.cc, which the       *)
(* ThreadPool module is shown to implement.                                *)
(***************************************************************************)
EXTENDS Naturals, Sequences

CONSTANTS
  Keys,       \* affinity keys
  AnyKey,     \* the key of an unkeyed task
  MaxTasks    \* bound on the number of submitted tasks

VARIABLES
  submitted,  \* submitted[n]: the key of the n-th accepted task
  running,    \* numbers of the tasks running now
  finished,   \* numbers of the tasks that have run to completion
  accepting,  \* new tasks are accepted
  joined      \* shutdown has returned

vars == <<submitted, running, finished, accepting, joined>>

Init ==
  /\ submitted = <<>>
  /\ running   = {}
  /\ finished  = {}
  /\ accepting = TRUE
  /\ joined    = FALSE

\* Task n may start: it has not started, and every earlier task with the
\* same key has finished.
Startable(n) ==
  /\ n \in 1 .. Len(submitted)
  /\ n \notin running \cup finished
  /\ submitted[n] \in Keys =>
       \A m \in 1 .. n - 1 : submitted[m] = submitted[n] => m \in finished

Submit(k) ==
  /\ accepting
  /\ Len(submitted) < MaxTasks
  /\ submitted' = Append(submitted, k)
  /\ UNCHANGED <<running, finished, accepting, joined>>

Begin(n) ==
  /\ Startable(n)
  /\ running' = running \cup {n}
  /\ UNCHANGED <<submitted, finished, accepting, joined>>

End(n) ==
  /\ n \in running
  /\ running'  = running \ {n}
  /\ finished' = finished \cup {n}
  /\ UNCHANGED <<submitted, accepting, joined>>

Shutdown ==
  /\ accepting
  /\ accepting' = FALSE
  /\ UNCHANGED <<submitted, running, finished, joined>>

Join ==
  /\ ~accepting /\ ~joined
  /\ finished = 1 .. Len(submitted)
  /\ joined' = TRUE
  /\ UNCHANGED <<submitted, running, finished, accepting>>

Next ==
  \/ \E k \in Keys \cup {AnyKey} : Submit(k)
  \/ \E n \in 1 .. Len(submitted) : Begin(n) \/ End(n)
  \/ Shutdown \/ Join

\* Every accepted task eventually runs to completion.  Nothing obliges
\* the scheduler to be shut down, and the promise that a shutdown returns
\* is left out here (the ThreadPool module checks it on its own).
Fairness ==
  \A n \in 1 .. MaxTasks : WF_vars(Begin(n)) /\ WF_vars(End(n))

Spec == Init /\ [][Next]_vars /\ Fairness
=============================================================================
