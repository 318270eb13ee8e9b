------------------------------ MODULE H2OProofs ------------------------------
(***************************************************************************)
(* Proofs about H2O, for any number of threads of either kind.             *)
(***************************************************************************)
EXTENDS H2O, TLAPS

(***************************************************************************)
(* The counters count the atoms of the molecule that is being printed;     *)
(* after a reset the output still ends with the molecule just finished.    *)
(***************************************************************************)
Printed ==
    \/ h_out = h_cnt /\ o_out = o_cnt
    \/ h_cnt = 0 /\ o_cnt = 0 /\ h_out = 2 /\ o_out = 1

\* A thread on its way to the reset has found the molecule full, and holds the mutex.
ResetIsDue == \A t \in Threads : pc[t] = "reset" => check_fully_print

\* A full molecule is in the hands of a thread that will find it full.
FullIsNoticed == check_fully_print => \E t \in Threads : pc[t] \in {"unlock", "lock", "reset"}

IndInv == TypeOK /\ Printed /\ ResetIsDue /\ FullIsNoticed /\ SleepersHaveAReason

\* The generator starts with no atoms and idle threads.
LEMMA InitIndInv == Init => IndInv
  BY H2OAssumption
  DEF Init, IndInv, TypeOK, Printed, ResetIsDue, FullIsNoticed, SleepersHaveAReason,
      check_fully_print, Threads

\* A printed atom may complete a molecule and wake the sleepers.
LEMMA PrintIndInv ==
    ASSUME IndInv, NEW t \in Threads, PrintH(t) \/ PrintO(t)
    PROVE  IndInv'
<1> USE H2OAssumption DEF IndInv, TypeOK, Threads
<1>1. CASE PrintH(t)
  BY <1>1 DEF PrintH, HFits, Written, Printed, ResetIsDue, FullIsNoticed, SleepersHaveAReason
<1>2. CASE PrintO(t)
  BY <1>2 DEF PrintO, OFits, Written, Printed, ResetIsDue, FullIsNoticed, SleepersHaveAReason
<1> QED
  BY <1>1, <1>2

\* Every step keeps the invariant.
LEMMA NextIndInv == IndInv /\ [Next]_vars => IndInv'
<1> SUFFICES ASSUME IndInv, [Next]_vars PROVE IndInv'
  OBVIOUS
<1> USE H2OAssumption DEF IndInv, TypeOK, Printed, ResetIsDue, FullIsNoticed, SleepersHaveAReason, Threads
<1>1. CASE UNCHANGED vars
  BY <1>1 DEF vars, check_fully_print
<1>2. ASSUME NEW t \in Threads, Enter(t) \/ Reenter(t) PROVE IndInv'
  BY <1>2 DEF Enter, Reenter, check_fully_print
<1>3. ASSUME NEW t \in Threads, ResetCounters(t) PROVE IndInv'
  BY <1>3 DEF ResetCounters, check_fully_print
<1>4. ASSUME NEW t \in Threads, NotifyH(t) PROVE IndInv'
  BY <1>4 DEF NotifyH, Woken, WokenByReset, check_fully_print
<1>5. ASSUME NEW t \in Threads, NotifyO(t) PROVE IndInv'
  BY <1>5 DEF NotifyO, Woken, check_fully_print
<1>6. ASSUME NEW t \in Threads, Wait(t) PROVE IndInv'
  BY <1>6 DEF Wait, Fits, HFits, OFits, check_fully_print
<1>7. ASSUME NEW t \in Threads, Leave(t) \/ WakeSpuriously(t) PROVE IndInv'
  BY <1>7 DEF Leave, WakeSpuriously, check_fully_print
<1> QED
  BY <1>1, <1>2, <1>3, <1>4, <1>5, <1>6, <1>7, PrintIndInv DEF Next, BodyStep
-----------------------------------------------------------------------------
(***************************************************************************)
(* The assertions on the counters hold in every run, and the mutex is held *)
(* by the one thread that is in the body of its loop.                      *)
(***************************************************************************)
THEOREM TypeCorrect == Spec => []TypeOK
<1>1. IndInv => TypeOK
  BY DEF IndInv
<1> QED
  BY <1>1, InitIndInv, NextIndInv, PTL DEF Spec

(***************************************************************************)
(* Every molecule of the output is two H and one O.                        *)
(***************************************************************************)
THEOREM OnlyWholeMolecules == Spec => []MoleculesWhole
<1>1. IndInv => MoleculesWhole
  BY DEF IndInv, TypeOK, Printed, MoleculesWhole
<1> QED
  BY <1>1, InitIndInv, NextIndInv, PTL DEF Spec

(***************************************************************************)
(* Nobody sleeps through a reset.                                          *)
(***************************************************************************)
THEOREM NobodySleepsThrough == Spec => []SleepersHaveAReason
<1>1. IndInv => SleepersHaveAReason
  BY DEF IndInv
<1> QED
  BY <1>1, InitIndInv, NextIndInv, PTL DEF Spec

(***************************************************************************)
(* With a thread of each kind, the threads are never all asleep.           *)
(***************************************************************************)
THEOREM NeverAllAsleep ==
    ASSUME HThreads # {}, OThreads # {}
    PROVE  Spec => []SomebodyAwake
<1>1. IndInv => SomebodyAwake
  BY H2OAssumption
  DEF IndInv, SleepersHaveAReason, FullIsNoticed, SomebodyAwake, check_fully_print, Threads
<1> QED
  BY <1>1, InitIndInv, NextIndInv, PTL DEF Spec
=============================================================================
