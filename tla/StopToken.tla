------------------------------- MODULE StopToken -------------------------------
(***************************************************************************)
(* The two examples of jthread.cc: main asks a jthread to stop while the   *)
(* thread polls its stop_token between sleeps, or waits for a condition    *)
(* that never holds with the token.  The library's wait tests the token    *)
(* and goes to sleep in one step for the callback that request_stop runs,  *)
(* and request_stop sets the flag before it runs callbacks.                *)
(***************************************************************************)
VARIABLES example,     \* which of the two
          stop,        \* stop_requested()
          main_pc, thread_pc

vars == <<example, stop, main_pc, thread_pc>>

Init ==
    /\ example \in {"request_stop", "condition_variable"}
    /\ stop = FALSE
    /\ main_pc = "request"
    /\ thread_pc = IF example = "request_stop" THEN "poll" ELSE "lock"

RequestStop ==
    /\ main_pc = "request"
    /\ stop' = TRUE /\ main_pc' = "callback"
    /\ UNCHANGED <<example, thread_pc>>

\* The callback that a wait with the token registers notifies its condition variable.
Woken(pc) == IF pc = "asleep" THEN "wait" ELSE pc

\* Afterwards main spins for ever.
Callback ==
    /\ main_pc = "callback"
    /\ thread_pc' = Woken(thread_pc) /\ main_pc' = "spin"
    /\ UNCHANGED <<example, stop>>

\* sleep(1), and the test of the token.
Poll ==
    /\ thread_pc = "poll"
    /\ thread_pc' = IF stop THEN "ended" ELSE "poll"
    /\ UNCHANGED <<example, stop, main_pc>>

\* Nobody else takes mtx.
Lock ==
    /\ thread_pc = "lock"
    /\ thread_pc' = "wait"
    /\ UNCHANGED <<example, stop, main_pc>>

\* cond.wait: the condition is false, so that it sleeps, or returns false to end the thread.
Wait ==
    /\ thread_pc = "wait"
    /\ thread_pc' = IF stop THEN "ended" ELSE "asleep"
    /\ UNCHANGED <<example, stop, main_pc>>

Thread == Poll \/ Lock \/ Wait
Main == RequestStop \/ Callback

Next == Main \/ Thread

Spec == Init /\ [][Next]_vars
-----------------------------------------------------------------------------
(***************************************************************************)
(* The threads are somewhere in their loops.                               *)
(***************************************************************************)
TypeOK ==
    /\ example \in {"request_stop", "condition_variable"}
    /\ stop \in BOOLEAN
    /\ main_pc \in {"request", "callback", "spin"}
    /\ thread_pc \in {"poll", "lock", "wait", "asleep", "ended"}

(***************************************************************************)
(* The thread does not sleep through the request.                          *)
(***************************************************************************)
StopNotMissed == main_pc = "spin" => thread_pc # "asleep"
=============================================================================
