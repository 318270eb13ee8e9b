--------------------------------- MODULE H2O ---------------------------------
(***************************************************************************)
(* h2o_generator of h2o.cc: threads that print H and threads that print O, *)
(* for ever, under one mutex; an atom that does not fit the molecule being *)
(* printed sleeps on its kind's condition variable.  A thread that enters  *)
(* the mutex and finds the molecule full starts the next one instead of    *)
(* printing: it clears both counters and wakes everybody.                  *)
(*                                                                         *)
(* The counters are atomic but only used under the mutex.  Printing is     *)
(* recorded in h_out and o_out, the atoms among the last one to three that *)
(* complete or continue a triple of the output, counted from its start:    *)
(* nothing in the code computes them.                                      *)
(***************************************************************************)
EXTENDS Naturals

CONSTANTS HThreads, OThreads,  \* h_thread_list, o_thread_list
          NoThread             \* owner of the free mutex

ASSUME H2OAssumption ==
    /\ HThreads \cap OThreads = {}
    /\ NoThread \notin HThreads \cup OThreads

VARIABLES h_cnt, o_cnt,  \* atoms printed for the current molecule
          mtx,           \* the thread that holds mtx
          pc,            \* where each thread is in its loop
          h_out, o_out   \* the last triple of the output so far: history variables

vars == <<h_cnt, o_cnt, mtx, pc, h_out, o_out>>

Threads == HThreads \cup OThreads

Init ==
    /\ h_cnt = 0 /\ o_cnt = 0
    /\ mtx = NoThread
    /\ pc = [t \in Threads |-> "lock"]
    /\ h_out = 0 /\ o_out = 0

check_fully_print_half == h_cnt = 2
check_fully_print == h_cnt = 2 /\ o_cnt = 1

\* The predicates the two kinds wait for.
HFitsLate == h_cnt < 3
HFits == h_cnt < 2
OFits == o_cnt < 1

Fits(t) == IF t \in HThreads THEN HFits ELSE OFits

\* The thread takes the mutex: at the head of its loop, or back from a sleep.
Enter(t) ==
    /\ pc[t] = "lock"
    /\ mtx = NoThread
    /\ mtx' = t
    /\ pc' = [pc EXCEPT ![t] = IF check_fully_print THEN "reset" ELSE "check"]
    /\ UNCHANGED <<h_cnt, o_cnt, h_out, o_out>>

Reenter(t) ==
    /\ pc[t] = "relock"
    /\ mtx = NoThread
    /\ mtx' = t
    /\ pc' = [pc EXCEPT ![t] = "check"]
    /\ UNCHANGED <<h_cnt, o_cnt, h_out, o_out>>

ResetCounters(t) ==
    /\ pc[t] = "reset"
    /\ h_cnt' = 0 /\ o_cnt' = 0
    /\ pc' = [pc EXCEPT ![t] = "notifyH"]
    /\ UNCHANGED <<mtx, h_out, o_out>>

\* cond.notify_all(): t goes on to next, the sleepers of the kind to the mutex.
Woken(t, kind, next) ==
    [u \in Threads |-> IF u = t THEN next
                       ELSE IF u \in kind /\ pc[u] = "wait" THEN "relock" ELSE pc[u]]

ForgottenH == {}
WokenByReset == HThreads

NotifyH(t) ==
    /\ pc[t] = "notifyH"
    /\ pc' = Woken(t, WokenByReset, "notifyO")
    /\ UNCHANGED <<h_cnt, o_cnt, mtx, h_out, o_out>>

NotifyO(t) ==
    /\ pc[t] = "notifyO"
    /\ pc' = Woken(t, OThreads, "unlock")
    /\ UNCHANGED <<h_cnt, o_cnt, mtx, h_out, o_out>>

Wait(t) ==
    /\ pc[t] = "check"
    /\ ~Fits(t)
    /\ mtx' = NoThread
    /\ pc' = [pc EXCEPT ![t] = "wait"]
    /\ UNCHANGED <<h_cnt, o_cnt, h_out, o_out>>

WakeSpuriously(t) ==
    /\ pc[t] = "wait"
    /\ pc' = [pc EXCEPT ![t] = "relock"]
    /\ UNCHANGED <<h_cnt, o_cnt, mtx, h_out, o_out>>

\* One more atom on std::cout: the next of its triple, or the first of another.
Written(h, o) ==
    IF h_out + o_out = 3 THEN h_out' = h /\ o_out' = o
                         ELSE h_out' = h_out + h /\ o_out' = o_out + o

PrintH(t) ==
    /\ t \in HThreads
    /\ pc[t] = "check"
    /\ HFits
    /\ Written(1, 0)
    /\ h_cnt' = h_cnt + 1
    /\ pc' = [pc EXCEPT ![t] = "unlock"]
    /\ UNCHANGED <<o_cnt, mtx>>

PrintO(t) ==
    /\ t \in OThreads
    /\ pc[t] = "check"
    /\ OFits
    /\ Written(0, 1)
    /\ o_cnt' = o_cnt + 1
    /\ pc' = [pc EXCEPT ![t] = "unlock"]
    /\ UNCHANGED <<h_cnt, mtx>>

\* The end of the loop's body: lk's destructor.
Leave(t) ==
    /\ pc[t] = "unlock"
    /\ mtx' = NoThread
    /\ pc' = [pc EXCEPT ![t] = "lock"]
    /\ UNCHANGED <<h_cnt, o_cnt, h_out, o_out>>

BodyStep(t) ==
    \/ ResetCounters(t) \/ NotifyH(t) \/ NotifyO(t)
    \/ Wait(t) \/ PrintH(t) \/ PrintO(t) \/ Leave(t)

Next == \E t \in Threads : Enter(t) \/ Reenter(t) \/ BodyStep(t) \/ WakeSpuriously(t)

Spec == Init /\ [][Next]_vars

(***************************************************************************)
(* A thread inside the mutex runs on, some thread gets the free mutex (no  *)
(* one in particular), and spurious wakeups at last stop.                  *)
(***************************************************************************)
Fairness ==
    /\ \A t \in Threads : WF_vars(BodyStep(t))
    /\ WF_vars(\E t \in Threads : Enter(t) \/ Reenter(t))
    /\ <>[][~ \E t \in Threads : WakeSpuriously(t)]_vars

FairSpec == Spec /\ Fairness
-----------------------------------------------------------------------------
(***************************************************************************)
(* Type correctness. The bounds on the counters are the assertions of      *)
(* h2o.cc:45, 48, 62 and 65.                                               *)
(***************************************************************************)
TypeOK ==
    /\ h_cnt \in 0 .. 2 /\ o_cnt \in 0 .. 1
    /\ mtx \in Threads \cup {NoThread}
    /\ pc \in [Threads -> {"lock", "relock", "check", "reset", "notifyH", "notifyO",
                           "wait", "unlock"}]
    /\ h_out \in 0 .. 3 /\ o_out \in 0 .. 3 /\ h_out + o_out <= 3
    /\ \A t \in Threads : mtx = t <=> pc[t] \in {"check", "reset", "notifyH", "notifyO", "unlock"}

(***************************************************************************)
(* Every three atoms of the output, counted from its start, are two H and  *)
(* one O: no atom of a molecule is printed before the last one is full.    *)
(***************************************************************************)
MoleculesWhole == h_out + o_out = 3 => h_out = 2 /\ o_out = 1

(***************************************************************************)
(* Nobody sleeps through a reset: a sleeper's kind is full, unless the     *)
(* thread that cleared the counters has yet to wake that kind.             *)
(***************************************************************************)
SleepersHaveAReason ==
    /\ (\E t \in HThreads : pc[t] = "wait") =>
          h_cnt = 2 \/ \E t \in Threads : pc[t] = "notifyH"
    /\ (\E t \in OThreads : pc[t] = "wait") =>
          o_cnt = 1 \/ \E t \in Threads : pc[t] \in {"notifyH", "notifyO"}

(***************************************************************************)
(* The threads are never all asleep.                                       *)
(***************************************************************************)
SomebodyAwake == \E t \in Threads : pc[t] # "wait"

(***************************************************************************)
(* Molecules keep being finished, and the next one begun.                  *)
(***************************************************************************)
KeepsProducing == []<>(h_out + o_out = 3) /\ []<>(h_out + o_out = 1)
=============================================================================
