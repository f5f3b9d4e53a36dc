----------------------------- MODULE ThreadPool -----------------------------
(***************************************************************************)
(* The affinity thread pool of src/server/ThreadPool.cc and                *)
(* include/server/ThreadPool.h.                                            *)
(*                                                                         *)
(* N workers, worker i owning sharded_queues_[i], queue_mutexes_[i] and    *)
(* conditions_[i].  enqueue_with_key(key, f) pushes to queue key % N       *)
(* (std::hash<long long> is the identity in libstdc++), enqueue(f) pushes  *)
(* round-robin with the atomic next_queue_index_.  A worker loops: lock,   *)
(* wait on its condition until stop_ or a non-empty queue, exit if stop_   *)
(* and empty, pop, unlock, run the task.  The destructor stores stop_      *)
(* WITHOUT taking any queue mutex, notifies every condition, then joins.   *)
(*                                                                         *)
(* condition_variable::wait(lock, pred) evaluates pred under the lock and  *)
(* only then blocks; the worker states "prewait" (pred found false, lock   *)
(* still held, not yet blocked) and "wait" (blocked) tell these apart.     *)
(* A task is abstracted to its submission number and its key; what it does *)
(* is another module's business, and an exception it throws is caught by   *)
(* the worker, so it ends the same way as a normal return.                 *)
(***************************************************************************)
EXTENDS Naturals, Sequences, FiniteSets

CONSTANTS
  N,          \* num_threads_
  Keys,       \* affinity keys (session ids) used with enqueue_with_key
  MaxTasks,   \* bound on the number of submitted tasks
  NoTask      \* model value: a worker runs nothing

ASSUME N \in Nat \ {0}
ASSUME Keys \subseteq Nat \ {0}
ASSUME MaxTasks \in Nat

\* enqueue() builds its AffinityTask with key 0.
AnyKey == 0

Idx == 0 .. N - 1
Task == [id : 1 .. MaxTasks, key : Keys \cup {AnyKey}]

VARIABLES
  queues,     \* sharded_queues_
  wpc,        \* where each worker_loop is
  current,    \* the task a worker popped and is running
  stop,       \* stop_
  rr,         \* next_queue_index_ % N
  keyOf,      \* history: keyOf[n] is the key of the n-th submitted task
  done,       \* history: ids of tasks that have run to completion
  dpc         \* where ~ThreadPool is

vars == <<queues, wpc, current, stop, rr, keyOf, done, dpc>>

Init ==
  /\ queues  = [i \in Idx |-> <<>>]
  /\ wpc     = [i \in Idx |-> "check"]
  /\ current = [i \in Idx |-> NoTask]
  /\ stop    = FALSE
  /\ rr      = 0
  /\ keyOf   = <<>>
  /\ done    = {}
  /\ dpc     = "live"

\* Index of the queue a keyed task goes to (ThreadPool.h line 27).
KeyIndex(k) == k % N

\* Mutant of Push: notify_one is left out after the push.
PushNoNotify(i, k) ==
  /\ Len(keyOf) < MaxTasks
  /\ wpc[i] /= "prewait"
  /\ ~stop
  /\ queues' = [queues EXCEPT ![i] = Append(@, [id |-> Len(keyOf) + 1, key |-> k])]
  /\ keyOf'  = Append(keyOf, k)
  /\ UNCHANGED wpc

\* Push a task to queue i under its mutex, then notify_one on its condition:
\* a blocked worker wakes and re-evaluates its predicate.  The mutex is held
\* by worker i while it is in "prewait", so the push cannot happen then.
\* After stop_ the push throws and nothing changes.
Push(i, k) ==
  /\ Len(keyOf) < MaxTasks
  /\ wpc[i] /= "prewait"
  /\ ~stop
  /\ queues' = [queues EXCEPT ![i] = Append(@, [id |-> Len(keyOf) + 1, key |-> k])]
  /\ keyOf'  = Append(keyOf, k)
  /\ wpc'    = [wpc EXCEPT ![i] = IF @ = "wait" THEN "check" ELSE @]

\* Mutant of EnqueueWithKey: keyed tasks are spread round-robin.
EnqueueWithKeyRoundRobin(k) ==
  /\ Push(rr, k)
  /\ rr' = (rr + 1) % N
  /\ UNCHANGED <<current, stop, done, dpc>>

\* ThreadPool::enqueue_with_key
EnqueueWithKey(k) ==
  /\ Push(KeyIndex(k), k)
  /\ UNCHANGED <<current, stop, rr, done, dpc>>

\* Mutant of Enqueue: the index is not reduced modulo N.
EnqueueUnreduced ==
  /\ Push(rr, AnyKey)
  /\ rr' = rr + 1
  /\ UNCHANGED <<current, stop, done, dpc>>

\* ThreadPool::enqueue: round-robin over the queues.
Enqueue ==
  /\ Push(rr, AnyKey)
  /\ rr' = (rr + 1) % N
  /\ UNCHANGED <<current, stop, done, dpc>>

\* Mutant of Check: the worker returns as soon as stop_ is set.
CheckExitOnStop(i) ==
  /\ wpc[i] = "check"
  /\ \/ /\ ~stop /\ queues[i] = <<>>
        /\ wpc' = [wpc EXCEPT ![i] = "prewait"]
        /\ UNCHANGED <<queues, current>>
     \/ /\ stop
        /\ wpc' = [wpc EXCEPT ![i] = "exited"]
        /\ UNCHANGED <<queues, current>>
     \/ /\ ~stop /\ queues[i] /= <<>>
        /\ current' = [current EXCEPT ![i] = Head(queues[i])]
        /\ queues'  = [queues EXCEPT ![i] = Tail(@)]
        /\ wpc'     = [wpc EXCEPT ![i] = "run"]
  /\ UNCHANGED <<stop, rr, keyOf, done, dpc>>

\* Mutant of Check: the task popped is the back of the queue.
CheckPopBack(i) ==
  /\ wpc[i] = "check"
  /\ \/ /\ ~stop /\ queues[i] = <<>>
        /\ wpc' = [wpc EXCEPT ![i] = "prewait"]
        /\ UNCHANGED <<queues, current>>
     \/ /\ stop /\ queues[i] = <<>>
        /\ wpc' = [wpc EXCEPT ![i] = "exited"]
        /\ UNCHANGED <<queues, current>>
     \/ /\ queues[i] /= <<>>
        /\ current' = [current EXCEPT ![i] = queues[i][Len(queues[i])]]
        /\ queues'  = [queues EXCEPT ![i] = SubSeq(@, 1, Len(@) - 1)]
        /\ wpc'     = [wpc EXCEPT ![i] = "run"]
  /\ UNCHANGED <<stop, rr, keyOf, done, dpc>>

\* worker_loop, under the lock: evaluate the wait predicate; on true,
\* either exit (stopped and drained) or pop the front task.
Check(i) ==
  /\ wpc[i] = "check"
  /\ \/ /\ ~stop /\ queues[i] = <<>>
        /\ wpc' = [wpc EXCEPT ![i] = "prewait"]
        /\ UNCHANGED <<queues, current>>
     \/ /\ stop /\ queues[i] = <<>>
        /\ wpc' = [wpc EXCEPT ![i] = "exited"]
        /\ UNCHANGED <<queues, current>>
     \/ /\ queues[i] /= <<>>
        /\ current' = [current EXCEPT ![i] = Head(queues[i])]
        /\ queues'  = [queues EXCEPT ![i] = Tail(@)]
        /\ wpc'     = [wpc EXCEPT ![i] = "run"]
  /\ UNCHANGED <<stop, rr, keyOf, done, dpc>>

\* The predicate was false: wait() releases the mutex and blocks.
EnterWait(i) ==
  /\ wpc[i] = "prewait"
  /\ wpc' = [wpc EXCEPT ![i] = "wait"]
  /\ UNCHANGED <<queues, current, stop, rr, keyOf, done, dpc>>

\* task.func() returns (or throws and is caught); the loop starts over.
Finish(i) ==
  /\ wpc[i] = "run"
  /\ done'    = done \cup {current[i].id}
  /\ current' = [current EXCEPT ![i] = NoTask]
  /\ wpc'     = [wpc EXCEPT ![i] = "check"]
  /\ UNCHANGED <<queues, stop, rr, keyOf, dpc>>

\* ~ThreadPool, first statement: stop_ = true, with no queue mutex held.
SetStop ==
  /\ dpc = "live"
  /\ stop' = TRUE
  /\ dpc'  = "stopped"
  /\ UNCHANGED <<queues, wpc, current, rr, keyOf, done>>

\* ~ThreadPool: notify_all on every condition wakes every blocked worker.
NotifyAll ==
  /\ dpc = "stopped"
  /\ wpc' = [i \in Idx |-> IF wpc[i] = "wait" THEN "check" ELSE wpc[i]]
  /\ dpc' = "notified"
  /\ UNCHANGED <<queues, current, stop, rr, keyOf, done>>

\* ~ThreadPool: join every worker; returns once all have exited.
JoinAll ==
  /\ dpc = "notified"
  /\ \A i \in Idx : wpc[i] = "exited"
  /\ dpc' = "joined"
  /\ UNCHANGED <<queues, wpc, current, stop, rr, keyOf, done>>

Next ==
  \/ \E k \in Keys : EnqueueWithKey(k)
  \/ Enqueue
  \/ \E i \in Idx : Check(i) \/ EnterWait(i) \/ Finish(i)
  \/ SetStop \/ NotifyAll \/ JoinAll

\* Each worker is an OS thread, the destructor runs on the thread that
\* destroys the pool: every enabled step of each is eventually taken.
Fairness ==
  /\ \A i \in Idx : WF_vars(Check(i)) /\ WF_vars(EnterWait(i)) /\ WF_vars(Finish(i))
  /\ WF_vars(NotifyAll) /\ WF_vars(JoinAll)

Spec == Init /\ [][Next]_vars /\ Fairness
-----------------------------------------------------------------------------
TypeOK ==
  /\ queues  \in [Idx -> Seq(Task)]
  /\ wpc     \in [Idx -> {"check", "prewait", "wait", "run", "exited"}]
  /\ current \in [Idx -> Task \cup {NoTask}]
  /\ stop    \in BOOLEAN
  /\ rr      \in Idx
  /\ keyOf   \in Seq(Keys \cup {AnyKey})
  /\ done    \subseteq 1 .. MaxTasks
  /\ dpc     \in {"live", "stopped", "notified", "joined"}

\* Per-session ordering (what MessageDispatcher::Dispatch relies on): a
\* task submitted with enqueue_with_key starts only when every earlier task
\* submitted with the same key has run to completion, even with several
\* workers running at once.
KeyOrder ==
  \A i \in Idx :
    current[i] /= NoTask /\ current[i].key \in Keys =>
      \A n \in 1 .. current[i].id - 1 :
        keyOf[n] = current[i].key => n \in done

\* Shutdown drains: when the destructor has joined every worker, every task
\* that was accepted before stop_ has run.
DrainedOnJoin ==
  dpc = "joined" => done = 1 .. Len(keyOf)

\* No task is lost: every accepted task eventually runs to completion.
NoTaskLost ==
  \A n \in 1 .. MaxTasks : (n <= Len(keyOf)) ~> (n \in done)

\* The pool implements the scheduler contract of the spec (KeyedScheduler):
\* a task starts when the worker pops it and ends when task.func() returns,
\* the pool accepts tasks until stop_ is set and shuts down when the
\* destructor's joins return.
KS == INSTANCE KeyedScheduler WITH
        submitted <- keyOf,
        running   <- {current[i].id : i \in {j \in Idx : current[j] /= NoTask}},
        finished  <- done,
        accepting <- ~stop,
        joined    <- dpc = "joined"

KSSpec == KS!Spec

\* The destructor returns: once stop_ is set, every worker eventually exits
\* and the joins complete.
ShutdownCompletes ==
  (dpc = "stopped") ~> (dpc = "joined")
=============================================================================
