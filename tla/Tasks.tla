--------------------------------- MODULE Tasks ---------------------------------
(***************************************************************************)
(* The examples of futures, stop tokens and coroutines side by side;       *)
(* routine is the one that main calls.                                     *)
(***************************************************************************)
EXTENDS Naturals, Sequences

CONSTANTS TaskIds, Nobody, Coros, MainStack

VARIABLES routine,
          mtx, task_queue, q_main, fut, worker_pc, tsk, ready,
          example, stop, s_main, thread_pc,
          running, point, ctx, main_ctx

Packaged == INSTANCE TaskQueue WITH main_pc <- q_main
Jthread == INSTANCE StopToken WITH main_pc <- s_main
Coro == INSTANCE Coroutines

ASSUME TasksAssumption == Packaged!TaskQueueAssumption /\ MainStack \notin Coros

taskVars == <<mtx, task_queue, q_main, fut, worker_pc, tsk, ready>>
stopVars == <<example, stop, s_main, thread_pc>>
coroVars == <<running, point, ctx, main_ctx>>

allVars == <<routine, taskVars, stopVars, coroVars>>

Init ==
    /\ routine \in {"future", "jthread", "coroutine"}
    /\ Packaged!Init /\ Jthread!Init /\ Coro!Init
    /\ routine # "jthread" => example = "request_stop"

Future(A) == routine = "future" /\ A /\ UNCHANGED <<routine, stopVars, coroVars>>

FutureMain == Future(Packaged!Main)
FutureLock == Future(Packaged!MainLock)
FutureWorker == Future(Packaged!Worker)

Stop(A) == routine = "jthread" /\ A /\ UNCHANGED <<routine, taskVars, coroVars>>

JthreadMain == Stop(Jthread!Main)
JthreadThread == Stop(Jthread!Thread)

CoroutineStep ==
    /\ routine = "coroutine" /\ Coro!Next
    /\ UNCHANGED <<routine, taskVars, stopVars>>

Next == FutureMain \/ FutureLock \/ FutureWorker \/ JthreadMain \/ JthreadThread \/ CoroutineStep

Spec == Init /\ [][Next]_allVars

(***************************************************************************)
(* Threads that can go on do (concurrent forward progress).  Nothing is    *)
(* assumed of main at the mutex: std::mutex is not fair, and the worker,   *)
(* which polls, may take it again every time before main does.             *)
(***************************************************************************)
Fairness == WF_allVars(FutureMain) /\ WF_allVars(FutureWorker)

FairSpec == Spec /\ Fairness
-----------------------------------------------------------------------------
(***************************************************************************)
(* Type correctness of the three examples.                                 *)
(***************************************************************************)
TypeOK == Packaged!TypeOK /\ Jthread!TypeOK /\ Coro!TypeOK

(***************************************************************************)
(* The task main waits for is in one place, the stop request is not slept  *)
(* through, and main can go on when a coroutine hands control back.        *)
(***************************************************************************)
NobodyStranded == Packaged!TaskInOnePlace /\ Jthread!StopNotMissed /\ Coro!MainCanGoOn

(***************************************************************************)
(* Once main has queued a task, fut.get() (future.cc:58) returns: the      *)
(* worker finds the task, runs it and so makes the future ready, also when *)
(* it has just looked into an empty queue.  Whether main gets to queue the *)
(* task at all the code leaves to the mutex.                               *)
(***************************************************************************)
QueuedTasksAnswered == q_main = "get" ~> q_main = "make"
=============================================================================
