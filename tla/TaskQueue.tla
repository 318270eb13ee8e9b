------------------------------- MODULE TaskQueue -------------------------------
(***************************************************************************)
(* packaged_task_example of future.cc: main hands tasks to a worker thread *)
(* over a deque under a mutex and waits for each one's future.  The worker *)
(* polls: it takes the mutex, looks, and lets it go again, without a       *)
(* condition variable.  What happens under the mutex is one step, since    *)
(* the other thread cannot see it before the unlock.                       *)
(***************************************************************************)
EXTENDS Naturals, Sequences

CONSTANTS TaskIds,   \* the shared states of tasks and futures
          Nobody     \* no thread, and no task

TaskQueueAssumption == Nobody \notin TaskIds \cup {"main", "worker"}

VARIABLES mtx,         \* the thread that has the mutex
          task_queue,
          main_pc, fut,   \* main, and the task of its future
          worker_pc, tsk, \* the worker, and the task it has taken
          ready           \* the tasks whose result is there

vars == <<mtx, task_queue, main_pc, fut, worker_pc, tsk, ready>>

Init ==
    /\ mtx = Nobody /\ task_queue = <<>>
    /\ main_pc = "make" /\ fut = Nobody
    /\ worker_pc = "lock" /\ tsk = Nobody
    /\ ready = {}

\* The future of the last round is gone when main makes the next task.
Make ==
    /\ main_pc = "make"
    /\ \E t \in TaskIds \ {tsk} : fut' = t /\ ready' = ready \ {t}
    /\ main_pc' = "lock"
    /\ UNCHANGED <<mtx, task_queue, worker_pc, tsk>>

MainLock ==
    /\ main_pc = "lock" /\ mtx = Nobody
    /\ mtx' = "main" /\ main_pc' = "push"
    /\ UNCHANGED <<task_queue, fut, worker_pc, tsk, ready>>

Push ==
    /\ main_pc = "push"
    /\ task_queue' = Append(task_queue, fut)
    /\ mtx' = Nobody /\ main_pc' = "get"
    /\ UNCHANGED <<fut, worker_pc, tsk, ready>>

\* fut.get() waits for the result.
Get ==
    /\ main_pc = "get" /\ fut \in ready
    /\ main_pc' = "make"
    /\ UNCHANGED <<mtx, task_queue, fut, worker_pc, tsk, ready>>

WorkerLock ==
    /\ worker_pc = "lock" /\ mtx = Nobody
    /\ mtx' = "worker" /\ worker_pc' = "look"
    /\ UNCHANGED <<task_queue, main_pc, fut, tsk, ready>>

\* continue lets go of the mutex.
FoundNothing ==
    /\ worker_pc = "look" /\ task_queue = <<>>
    /\ mtx' = Nobody /\ worker_pc' = "lock"
    /\ UNCHANGED <<task_queue, main_pc, fut, tsk, ready>>

Take ==
    /\ worker_pc = "look" /\ task_queue # <<>>
    /\ tsk' = Head(task_queue) /\ task_queue' = Tail(task_queue)
    /\ mtx' = Nobody /\ worker_pc' = "run"
    /\ UNCHANGED <<main_pc, fut, ready>>

ResultOfMoved == ready \cup {Nobody}
Result == ready \cup {tsk}

Run ==
    /\ worker_pc = "run"
    /\ ready' = Result
    /\ worker_pc' = "drop"
    /\ UNCHANGED <<mtx, task_queue, main_pc, fut, tsk>>

\* The end of the round destroys tsk.
Drop ==
    /\ worker_pc = "drop"
    /\ tsk' = Nobody /\ worker_pc' = "lock"
    /\ UNCHANGED <<mtx, task_queue, main_pc, fut, ready>>

Main == Make \/ Push \/ Get
Worker == WorkerLock \/ FoundNothing \/ Take \/ Run \/ Drop

Next == Main \/ MainLock \/ Worker

Spec == Init /\ [][Next]_vars
-----------------------------------------------------------------------------
(***************************************************************************)
(* The queue holds tasks, and the threads are somewhere in their loops.    *)
(***************************************************************************)
TypeOK ==
    /\ mtx \in {Nobody, "main", "worker"} /\ task_queue \in Seq(TaskIds)
    /\ main_pc \in {"make", "lock", "push", "get"} /\ worker_pc \in {"lock", "look", "run", "drop"}
    /\ fut \in TaskIds \cup {Nobody} /\ tsk \in TaskIds \cup {Nobody} /\ ready \subseteq TaskIds

(***************************************************************************)
(* The task main waits for is in one place: in the queue, with the worker  *)
(* before its result, or done; and nothing else is in the queue.           *)
(***************************************************************************)
TaskInOnePlace ==
    IF main_pc = "get" /\ fut \notin ready /\ ~(worker_pc = "run" /\ tsk = fut)
    THEN task_queue = <<fut>> ELSE task_queue = <<>>
=============================================================================
