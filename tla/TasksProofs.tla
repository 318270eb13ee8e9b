----------------------------- MODULE TasksProofs -----------------------------
(***************************************************************************)
(* Proofs about Tasks, for any set of tasks and of coroutines.             *)
(***************************************************************************)
EXTENDS Tasks, TLAPS

USE TasksAssumption DEF Packaged!TaskQueueAssumption

(***************************************************************************)
(* The two threads of packaged_task_example hold the mutex in turn, which  *)
(* is why what they do under it can be one step; a task that main has made *)
(* and not pushed is new to the worker.                                    *)
(***************************************************************************)
MutexHeld ==
    /\ mtx = "main" <=> q_main = "push"
    /\ mtx = "worker" <=> worker_pc = "look"

TaskIsNew ==
    /\ q_main # "make" => fut \in TaskIds
    /\ q_main \in {"lock", "push"} => fut # tsk /\ fut \notin ready
    /\ worker_pc = "run" => tsk \in TaskIds

\* The flag is set before the callbacks run.
FlagFirst == s_main # "request" => stop

TasksInv == TypeOK /\ NobodyStranded /\ MutexHeld /\ TaskIsNew /\ FlagFirst
-----------------------------------------------------------------------------
PackagedInv == Packaged!TypeOK /\ Packaged!TaskInOnePlace /\ MutexHeld /\ TaskIsNew

JthreadInv == Jthread!TypeOK /\ Jthread!StopNotMissed /\ FlagFirst

CoroInv == Coro!TypeOK /\ Coro!MainCanGoOn

\* Each step of the worker or of main in packaged_task_example keeps its part.
LEMMA PackagedStep ==
    ASSUME PackagedInv, Packaged!Main \/ Packaged!MainLock \/ Packaged!Worker
    PROVE  PackagedInv'
<1> USE DEF PackagedInv, Packaged!TypeOK, Packaged!TaskInOnePlace, MutexHeld, TaskIsNew
<1>1. CASE Packaged!Make
  BY <1>1 DEF Packaged!Make
<1>2. CASE Packaged!MainLock
  BY <1>2 DEF Packaged!MainLock
<1>3. CASE Packaged!Push
  BY <1>3 DEF Packaged!Push
<1>4. CASE Packaged!Get
  BY <1>4 DEF Packaged!Get
<1>5. CASE Packaged!WorkerLock
  BY <1>5 DEF Packaged!WorkerLock
<1>6. CASE Packaged!FoundNothing
  BY <1>6 DEF Packaged!FoundNothing
<1>7. CASE Packaged!Take
  BY <1>7 DEF Packaged!Take
<1>8. CASE Packaged!Run
  BY <1>8 DEF Packaged!Run, Packaged!Result
<1>9. CASE Packaged!Drop
  BY <1>9 DEF Packaged!Drop
<1> QED
  BY <1>1, <1>2, <1>3, <1>4, <1>5, <1>6, <1>7, <1>8, <1>9 DEF Packaged!Main, Packaged!Worker

\* request_stop sets the flag before it wakes, so a later wait finds the flag.
LEMMA JthreadStep ==
    ASSUME JthreadInv, Jthread!Main \/ Jthread!Thread
    PROVE  JthreadInv'
  BY DEF JthreadInv, Jthread!TypeOK, Jthread!StopNotMissed, FlagFirst, Jthread!Main, Jthread!Thread,
         Jthread!RequestStop, Jthread!Callback, Jthread!Woken, Jthread!Poll, Jthread!Lock, Jthread!Wait

\* Whoever leaves main's stack has saved main_ctx in a frame that is still there.
LEMMA CoroStep ==
    ASSUME CoroInv, Coro!Next
    PROVE  CoroInv'
<1> USE DEF CoroInv, Coro!TypeOK, Coro!MainCanGoOn
<1>1. ASSUME NEW c \in Coros, Coro!Construct(c) PROVE CoroInv'
  BY <1>1 DEF Coro!Construct
<1>2. ASSUME NEW c \in Coros, Coro!Resume(c) PROVE CoroInv'
  BY <1>2 DEF Coro!Resume, Coro!SavedNow
<1>3. CASE Coro!Yield \/ Coro!Work \/ Coro!Exit
  BY <1>3 DEF Coro!Yield, Coro!Work, Coro!Exit, Coro!SwitchToMain
<1> QED
  BY <1>1, <1>2, <1>3 DEF Coro!Next

\* Nothing is queued and the worker has not run.
LEMMA InitTasksInv == Init => TasksInv
<1> SUFFICES ASSUME Init PROVE TasksInv
  OBVIOUS
<1>1. PackagedInv
  BY DEF Init, Packaged!Init, PackagedInv, Packaged!TypeOK, Packaged!TaskInOnePlace, MutexHeld, TaskIsNew
<1>2. JthreadInv
  BY DEF Init, Jthread!Init, JthreadInv, Jthread!TypeOK, Jthread!StopNotMissed, FlagFirst
<1>3. CoroInv
  BY DEF Init, Coro!Init, CoroInv, Coro!TypeOK, Coro!MainCanGoOn
<1> QED
  BY <1>1, <1>2, <1>3 DEF PackagedInv, JthreadInv, CoroInv, TasksInv, TypeOK, NobodyStranded

\* Every step keeps the invariant.
LEMMA NextTasksInv == TasksInv /\ [Next]_allVars => TasksInv'
<1> SUFFICES ASSUME TasksInv, [Next]_allVars PROVE TasksInv'
  OBVIOUS
<1>1. PackagedInv /\ JthreadInv /\ CoroInv
  BY DEF TasksInv, TypeOK, NobodyStranded, PackagedInv, JthreadInv, CoroInv
<1>2. PackagedInv'
  <2>1. CASE UNCHANGED taskVars
    BY <1>1, <2>1 DEF taskVars, PackagedInv, Packaged!TypeOK, Packaged!TaskInOnePlace, MutexHeld, TaskIsNew
  <2>2. CASE Packaged!Main \/ Packaged!MainLock \/ Packaged!Worker
    BY <1>1, <2>2, PackagedStep
  <2> QED
    BY <2>1, <2>2 DEF Next, allVars, Stop, Future, FutureMain, FutureLock, FutureWorker, JthreadMain,
                      JthreadThread, CoroutineStep
<1>3. JthreadInv'
  <2>1. CASE UNCHANGED stopVars
    BY <1>1, <2>1 DEF stopVars, JthreadInv, Jthread!TypeOK, Jthread!StopNotMissed, FlagFirst
  <2>2. CASE Jthread!Main \/ Jthread!Thread
    BY <1>1, <2>2, JthreadStep
  <2> QED
    BY <2>1, <2>2 DEF Next, allVars, Stop, Future, FutureMain, FutureLock, FutureWorker, JthreadMain,
                      JthreadThread, CoroutineStep
<1>4. CoroInv'
  <2>1. CASE UNCHANGED coroVars
    BY <1>1, <2>1 DEF coroVars, CoroInv, Coro!TypeOK, Coro!MainCanGoOn
  <2>2. CASE Coro!Next
    BY <1>1, <2>2, CoroStep
  <2> QED
    BY <2>1, <2>2 DEF Next, allVars, Stop, Future, FutureMain, FutureLock, FutureWorker, JthreadMain,
                      JthreadThread, CoroutineStep
<1> QED
  BY <1>2, <1>3, <1>4 DEF PackagedInv, JthreadInv, CoroInv, TasksInv, TypeOK, NobodyStranded

(***************************************************************************)
(* The conjunction is an inductive invariant of the three examples.        *)
(***************************************************************************)
THEOREM TasksInductive == Spec => []TasksInv
  BY InitTasksInv, NextTasksInv, PTL DEF Spec

(***************************************************************************)
(* Type correctness of the three examples.                                 *)
(***************************************************************************)
THEOREM TasksTypeCorrect == Spec => []TypeOK
<1>1. TasksInv => TypeOK
  BY DEF TasksInv
<1> QED
  BY <1>1, TasksInductive, PTL

(***************************************************************************)
(* However main, the worker, the jthread and the coroutines are scheduled, *)
(* the task main waits for is in one place, the stop request is not slept  *)
(* through, and main can go on when a coroutine hands control back.        *)
(***************************************************************************)
THEOREM NobodyIsStranded == Spec => []NobodyStranded
<1>1. TasksInv => NobodyStranded
  BY DEF TasksInv
<1> QED
  BY <1>1, TasksInductive, PTL
=============================================================================
