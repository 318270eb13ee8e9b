-------------------------- MODULE BoundedQueueProofs --------------------------
(***************************************************************************)
(* Proofs about BoundedQueue, for any number of threads and any capacity.  *)
(***************************************************************************)
EXTENDS BoundedQueue, FiniteSetTheorems, TLAPS

\* An empty queue and idle threads have their types.
LEMMA InitTypeOK == Init => TypeOK
  BY BoundedQueueAssumption DEF Init, TypeOK, Threads

\* Every step keeps the types.
LEMMA NextTypeOK == TypeOK /\ [Next]_vars => TypeOK'
<1> SUFFICES ASSUME TypeOK, [Next]_vars PROVE TypeOK'
  OBVIOUS
<1> USE BoundedQueueAssumption DEF TypeOK, Threads
<1>1. CASE UNCHANGED vars
  BY <1>1 DEF vars
<1>2. ASSUME NEW p \in Producers, NEW v \in Values, PushCall(p, v) PROVE TypeOK'
  BY <1>2 DEF PushCall
<1>3. ASSUME NEW c \in Consumers, PopCall(c) PROVE TypeOK'
  BY <1>3 DEF PopCall
<1>4. ASSUME NEW t \in Threads, Lock(t) PROVE TypeOK'
  BY <1>4 DEF Lock
<1>5. ASSUME NEW t \in Threads, Wait(t) PROVE TypeOK'
  BY <1>5 DEF Wait
<1>6. ASSUME NEW t \in Threads, WakeSpuriously(t) PROVE TypeOK'
  BY <1>6 DEF WakeSpuriously
<1>7. ASSUME NEW t \in Threads, Unlock(t) PROVE TypeOK'
  BY <1>7 DEF Unlock
<1>8. ASSUME NEW p \in Producers, PushBack(p) PROVE TypeOK'
  BY <1>8 DEF PushBack, HasRoom
<1>9. ASSUME NEW c \in Consumers, PopFront(c) PROVE TypeOK'
  BY <1>9 DEF PopFront, HasElement
<1>10. ASSUME NEW t \in Threads, NEW group \in {Producers, Consumers}, pc[t] = "notify",
              NotifyOne(t, group), UNCHANGED <<queue, mtx, val>>
       PROVE  TypeOK'
  BY <1>10 DEF NotifyOne, Asleep
<1> QED
  BY <1>1, <1>2, <1>3, <1>4, <1>5, <1>6, <1>7, <1>8, <1>9, <1>10
  DEF Next, CallStep, BodyStep, ProducerBody, ConsumerBody, PushWait, PopWait, PushNotify, PopNotify
-----------------------------------------------------------------------------
(* The accounting of sleepers. group is one side of the queue, others the other. *)

\* Threads counted in the accounting are finitely many.
LEMMA CountsAreNat ==
    ASSUME NEW group, IsFiniteSet(group)
    PROVE  /\ IsFiniteSet(Attending(group)) /\ Cardinality(Attending(group)) \in Nat
           /\ IsFiniteSet(Notifying(group)) /\ Cardinality(Notifying(group)) \in Nat
           /\ IsFiniteSet(Attending(group)') /\ Cardinality(Attending(group)') \in Nat
           /\ IsFiniteSet(Notifying(group)') /\ Cardinality(Notifying(group)') \in Nat
<1>1. /\ Attending(group) \subseteq group /\ Notifying(group) \subseteq group
      /\ Attending(group)' \subseteq group /\ Notifying(group)' \subseteq group
  BY DEF Attending, Notifying
<1> QED
  BY <1>1, FS_Subset, FS_CardinalityType

\* Nobody falls asleep, nobody who counts leaves, and the work does not grow.
LEMMA MoreAwake ==
    ASSUME NEW group, NEW others, IsFiniteSet(group), IsFiniteSet(others),
           NEW work \in Int, NEW work2 \in Int, work2 <= work,
           SleepersCovered(group, others, work),
           Asleep(group)' \subseteq Asleep(group),
           Attending(group) \subseteq Attending(group)',
           Notifying(others) \subseteq Notifying(others)'
    PROVE  Asleep(group)' # {} =>
             work2 <= Cardinality(Attending(group)') + Cardinality(Notifying(others)')
<1>1. /\ Cardinality(Attending(group)) <= Cardinality(Attending(group)')
      /\ Cardinality(Notifying(others)) <= Cardinality(Notifying(others)')
  BY CountsAreNat, FS_Subset
<1> QED
  BY <1>1, CountsAreNat DEF SleepersCovered

\* One of the group does a piece of the work.
LEMMA WorkDone ==
    ASSUME NEW group, NEW others, IsFiniteSet(group), IsFiniteSet(others),
           NEW work \in Int, NEW t,
           SleepersCovered(group, others, work),
           Asleep(group)' = Asleep(group),
           t \in Attending(group), Attending(group)' = Attending(group) \ {t},
           Notifying(others)' = Notifying(others)
    PROVE  Asleep(group)' # {} =>
             work - 1 <= Cardinality(Attending(group)') + Cardinality(Notifying(others)')
<1>1. Cardinality(Attending(group)') = Cardinality(Attending(group)) - 1
  BY CountsAreNat, FS_RemoveElement
<1> QED
  BY <1>1, CountsAreNat DEF SleepersCovered

\* One of the others makes a piece of work, and is about to wake somebody for it.
LEMMA WorkMade ==
    ASSUME NEW group, NEW others, IsFiniteSet(group), IsFiniteSet(others),
           NEW work \in Int, NEW t,
           SleepersCovered(group, others, work),
           Asleep(group)' = Asleep(group), Attending(group)' = Attending(group),
           t \notin Notifying(others), Notifying(others)' = Notifying(others) \cup {t}
    PROVE  Asleep(group)' # {} =>
             work + 1 <= Cardinality(Attending(group)') + Cardinality(Notifying(others)')
<1>1. Cardinality(Notifying(others)') = Cardinality(Notifying(others)) + 1
  BY CountsAreNat, FS_AddElement
<1> QED
  BY <1>1, CountsAreNat DEF SleepersCovered

\* One of the others wakes one of the group, if one sleeps.
LEMMA WorkAnnounced ==
    ASSUME NEW group, NEW others, IsFiniteSet(group), IsFiniteSet(others),
           group \cap others = {}, TypeOK, group \cup others = Threads,
           NEW work \in Int, NEW t \in others, pc[t] = "notify", NotifyOne(t, group),
           SleepersCovered(group, others, work)
    PROVE  Asleep(group)' # {} =>
             work <= Cardinality(Attending(group)') + Cardinality(Notifying(others)')
<1>1. CASE Asleep(group) = {}
  BY <1>1 DEF NotifyOne, Asleep, TypeOK
<1>2. ASSUME NEW s \in Asleep(group), pc' = [pc EXCEPT ![t] = "unlock", ![s] = "lock"]
      PROVE  work <= Cardinality(Attending(group)') + Cardinality(Notifying(others)')
  <2>1. /\ s \notin Attending(group) /\ Attending(group)' = Attending(group) \cup {s}
        /\ t \in Notifying(others) /\ Notifying(others)' = Notifying(others) \ {t}
    <3>1. s \in Threads /\ t \in Threads /\ s \in group /\ s \notin others /\ t \notin group
      BY DEF Asleep
    <3>2. pc[s] = "wait" /\ s # t
      BY DEF Asleep
    <3>3. \A u \in Threads : pc'[u] = IF u = s THEN "lock" ELSE IF u = t THEN "unlock" ELSE pc[u]
      BY <1>2, <3>1, <3>2 DEF TypeOK
    <3>4. \A u \in group : pc'[u] = IF u = s THEN "lock" ELSE pc[u]
      BY <3>1, <3>3
    <3>5. \A u \in others : pc'[u] = IF u = t THEN "unlock" ELSE pc[u]
      BY <3>1, <3>3
    <3>6. s \notin Attending(group) /\ t \in Notifying(others)
      BY <3>2 DEF Attending, Notifying
    <3>7. Attending(group)' = Attending(group) \cup {s}
      BY <3>1, <3>4 DEF Attending
    <3>8. Notifying(others)' = Notifying(others) \ {t}
      BY <3>1, <3>5 DEF Notifying
    <3> QED
      BY <3>6, <3>7, <3>8
  <2>2. /\ Cardinality(Attending(group)') = Cardinality(Attending(group)) + 1
        /\ Cardinality(Notifying(others)') = Cardinality(Notifying(others)) - 1
    <3>1. IsFiniteSet(Attending(group)) /\ IsFiniteSet(Notifying(others))
      BY CountsAreNat
    <3>2. Cardinality(Attending(group) \cup {s}) = Cardinality(Attending(group)) + 1
      BY <2>1, <3>1, FS_AddElement
    <3>3. Cardinality(Notifying(others) \ {t}) = Cardinality(Notifying(others)) - 1
      BY <2>1, <3>1, FS_RemoveElement
    <3> QED
      BY <2>1, <3>2, <3>3
  <2>3. work <= Cardinality(Attending(group)) + Cardinality(Notifying(others))
    BY DEF SleepersCovered
  <2>4. /\ Cardinality(Attending(group)) \in Nat /\ Cardinality(Notifying(others)) \in Nat
    BY CountsAreNat
  <2> QED
    BY <2>2, <2>3, <2>4
<1> QED
  BY <1>1, <1>2 DEF NotifyOne
-----------------------------------------------------------------------------
\* One step keeps the sleepers of one side of the queue covered.
LEMMA NextCovers ==
    TypeOK /\ NoSleeperForgotten /\ [Next]_vars => NoSleeperForgotten'
<1> SUFFICES ASSUME TypeOK, NoSleeperForgotten, [Next]_vars PROVE NoSleeperForgotten'
  OBVIOUS
<1> DEFINE Free == Capacity - Len(queue)
           Stored == Len(queue)
           Covered == /\ Asleep(Producers) # {} =>
                           Free <= Cardinality(Attending(Producers)) + Cardinality(Notifying(Consumers))
                      /\ Asleep(Consumers) # {} =>
                           Stored <= Cardinality(Attending(Consumers)) + Cardinality(Notifying(Producers))
<1> SUFFICES Covered'
  BY DEF NoSleeperForgotten, SleepersCovered
<1>a. /\ IsFiniteSet(Producers) /\ IsFiniteSet(Consumers)
      /\ Producers \cap Consumers = {} /\ Consumers \cap Producers = {}
      /\ Producers \cup Consumers = Threads /\ Consumers \cup Producers = Threads
  BY BoundedQueueAssumption DEF Threads
<1>b. Free \in Int /\ Stored \in Int
  BY BoundedQueueAssumption DEF TypeOK
<1>c. SleepersCovered(Producers, Consumers, Free) /\ SleepersCovered(Consumers, Producers, Stored)
  BY DEF NoSleeperForgotten
<1> HIDE DEF Free, Stored
<1>1. ASSUME NEW t \in Threads, CallStep(t) \/ Lock(t) \/ WakeSpuriously(t) \/ Unlock(t)
      PROVE  Covered'
  <2>1. Free' = Free /\ Stored' = Stored
    BY <1>1 DEF CallStep, PushCall, PopCall, Lock, WakeSpuriously, Unlock, Free, Stored
  <2>2. ASSUME NEW group \in {Producers, Consumers}
        PROVE  /\ Asleep(group)' \subseteq Asleep(group)
               /\ Attending(group) \subseteq Attending(group)'
               /\ Notifying(group) \subseteq Notifying(group)'
    BY <1>1, <1>a
    DEF CallStep, PushCall, PopCall, Lock, WakeSpuriously, Unlock, TypeOK, Threads,
        Asleep, Attending, Notifying
  <2> QED
    BY <1>a, <1>b, <1>c, <2>1, <2>2, MoreAwake
<1>2. ASSUME NEW p \in Producers, PushWait(p) PROVE Covered'
  <2>1. Free' = Free /\ Stored' = Stored /\ Free <= 0
    BY <1>2, BoundedQueueAssumption DEF PushWait, Wait, HasRoom, Free, Stored, TypeOK
  <2>2. /\ Asleep(Consumers)' \subseteq Asleep(Consumers)
        /\ Attending(Consumers) \subseteq Attending(Consumers)'
        /\ Notifying(Producers) \subseteq Notifying(Producers)'
    BY <1>2, <1>a DEF PushWait, Wait, TypeOK, Threads, Asleep, Attending, Notifying
  <2>3. Asleep(Consumers)' # {} =>
          Stored <= Cardinality(Attending(Consumers)') + Cardinality(Notifying(Producers)')
    BY <1>a, <1>b, <1>c, <2>2, MoreAwake
  <2> QED
    BY <1>a, <1>b, <2>1, <2>3, CountsAreNat
<1>3. ASSUME NEW c \in Consumers, PopWait(c) PROVE Covered'
  <2>1. Free' = Free /\ Stored' = Stored /\ Stored <= 0
    BY <1>3, BoundedQueueAssumption DEF PopWait, Wait, HasElement, Free, Stored, TypeOK
  <2>2. /\ Asleep(Producers)' \subseteq Asleep(Producers)
        /\ Attending(Producers) \subseteq Attending(Producers)'
        /\ Notifying(Consumers) \subseteq Notifying(Consumers)'
    BY <1>3, <1>a DEF PopWait, Wait, TypeOK, Threads, Asleep, Attending, Notifying
  <2>3. Asleep(Producers)' # {} =>
          Free <= Cardinality(Attending(Producers)') + Cardinality(Notifying(Consumers)')
    BY <1>a, <1>b, <1>c, <2>2, MoreAwake
  <2> QED
    BY <1>a, <1>b, <2>1, <2>3, CountsAreNat
<1>4. ASSUME NEW p \in Producers, PushBack(p) PROVE Covered'
  <2>1. Free' = Free - 1 /\ Stored' = Stored + 1
    BY <1>4, BoundedQueueAssumption DEF PushBack, Free, Stored, TypeOK
  <2>2. /\ p \in Attending(Producers) /\ Attending(Producers)' = Attending(Producers) \ {p}
        /\ p \notin Notifying(Producers) /\ Notifying(Producers)' = Notifying(Producers) \cup {p}
    BY <1>4 DEF PushBack, TypeOK, Threads, Attending, Notifying
  <2>3. /\ Asleep(Producers)' = Asleep(Producers) /\ Asleep(Consumers)' = Asleep(Consumers)
        /\ Attending(Consumers)' = Attending(Consumers)
        /\ Notifying(Consumers)' = Notifying(Consumers)
    BY <1>4, <1>a DEF PushBack, TypeOK, Threads, Asleep, Attending, Notifying
  <2>4. Asleep(Producers)' # {} =>
          Free - 1 <= Cardinality(Attending(Producers)') + Cardinality(Notifying(Consumers)')
    BY <1>a, <1>b, <1>c, <2>2, <2>3, WorkDone
  <2>5. Asleep(Consumers)' # {} =>
          Stored + 1 <= Cardinality(Attending(Consumers)') + Cardinality(Notifying(Producers)')
    BY <1>a, <1>b, <1>c, <2>2, <2>3, WorkMade
  <2> QED
    BY <2>1, <2>4, <2>5
<1>5. ASSUME NEW c \in Consumers, PopFront(c) PROVE Covered'
  <2>1. Free' = Free + 1 /\ Stored' = Stored - 1
    BY <1>5, BoundedQueueAssumption DEF PopFront, HasElement, Free, Stored, TypeOK
  <2>2. /\ c \in Attending(Consumers) /\ Attending(Consumers)' = Attending(Consumers) \ {c}
        /\ c \notin Notifying(Consumers) /\ Notifying(Consumers)' = Notifying(Consumers) \cup {c}
    BY <1>5 DEF PopFront, TypeOK, Threads, Attending, Notifying
  <2>3. /\ Asleep(Producers)' = Asleep(Producers) /\ Asleep(Consumers)' = Asleep(Consumers)
        /\ Attending(Producers)' = Attending(Producers)
        /\ Notifying(Producers)' = Notifying(Producers)
    BY <1>5, <1>a DEF PopFront, TypeOK, Threads, Asleep, Attending, Notifying
  <2>4. Asleep(Consumers)' # {} =>
          Stored - 1 <= Cardinality(Attending(Consumers)') + Cardinality(Notifying(Producers)')
    BY <1>a, <1>b, <1>c, <2>2, <2>3, WorkDone
  <2>5. Asleep(Producers)' # {} =>
          Free + 1 <= Cardinality(Attending(Producers)') + Cardinality(Notifying(Consumers)')
    BY <1>a, <1>b, <1>c, <2>2, <2>3, WorkMade
  <2> QED
    BY <2>1, <2>4, <2>5
<1>6. ASSUME NEW p \in Producers, PushNotify(p) PROVE Covered'
  <2>1. Free' = Free /\ Stored' = Stored
    BY <1>6 DEF PushNotify, Free, Stored
  <2>2. /\ Asleep(Producers)' \subseteq Asleep(Producers)
        /\ Attending(Producers) \subseteq Attending(Producers)'
        /\ Notifying(Consumers) \subseteq Notifying(Consumers)'
    BY <1>6, <1>a DEF PushNotify, NotifyOne, TypeOK, Threads, Asleep, Attending, Notifying
  <2>3. Asleep(Producers)' # {} =>
          Free <= Cardinality(Attending(Producers)') + Cardinality(Notifying(Consumers)')
    BY <1>a, <1>b, <1>c, <2>2, MoreAwake
  <2>4. Asleep(Consumers)' # {} =>
          Stored <= Cardinality(Attending(Consumers)') + Cardinality(Notifying(Producers)')
    BY <1>6, <1>a, <1>b, <1>c, WorkAnnounced DEF PushNotify
  <2> QED
    BY <2>1, <2>3, <2>4
<1>7. ASSUME NEW c \in Consumers, PopNotify(c) PROVE Covered'
  <2>1. Free' = Free /\ Stored' = Stored
    BY <1>7 DEF PopNotify, Free, Stored
  <2>2. /\ Asleep(Consumers)' \subseteq Asleep(Consumers)
        /\ Attending(Consumers) \subseteq Attending(Consumers)'
        /\ Notifying(Producers) \subseteq Notifying(Producers)'
    BY <1>7, <1>a DEF PopNotify, NotifyOne, TypeOK, Threads, Asleep, Attending, Notifying
  <2>3. Asleep(Consumers)' # {} =>
          Stored <= Cardinality(Attending(Consumers)') + Cardinality(Notifying(Producers)')
    BY <1>a, <1>b, <1>c, <2>2, MoreAwake
  <2>4. Asleep(Producers)' # {} =>
          Free <= Cardinality(Attending(Producers)') + Cardinality(Notifying(Consumers)')
    BY <1>7, <1>a, <1>b, <1>c, WorkAnnounced DEF PopNotify
  <2> QED
    BY <2>1, <2>3, <2>4
<1>8. CASE UNCHANGED vars
  BY <1>8 DEF Covered, Free, Stored, vars, Asleep, Attending, Notifying, NoSleeperForgotten, SleepersCovered
<1> QED
  BY <1>1, <1>2, <1>3, <1>4, <1>5, <1>6, <1>7, <1>8
  DEF Next, BodyStep, ProducerBody, ConsumerBody
-----------------------------------------------------------------------------
(***************************************************************************)
(* In every run the deque stays within Capacity, only the owner of the     *)
(* mutex is inside push or pop, and elements keep their types.             *)
(***************************************************************************)
THEOREM TypeCorrect == Spec => []TypeOK
  BY InitTypeOK, NextTypeOK, PTL DEF Spec

(***************************************************************************)
(* No wakeup is lost, for any number of threads and any capacity.          *)
(***************************************************************************)
THEOREM NoWakeupLost == Spec => []NoSleeperForgotten
<1>1. Init => NoSleeperForgotten
  BY DEF Init, NoSleeperForgotten, SleepersCovered, Asleep, Threads
<1> QED
  BY <1>1, NextCovers, TypeCorrect, PTL DEF Spec

(***************************************************************************)
(* With a place in the queue and a thread on each side, the threads are    *)
(* never all asleep.                                                       *)
(***************************************************************************)
THEOREM NeverAllAsleep ==
    ASSUME Capacity > 0, Producers # {}, Consumers # {}
    PROVE  Spec => []SomebodyAwake
<1>1. TypeOK /\ NoSleeperForgotten => SomebodyAwake
  <2> SUFFICES ASSUME TypeOK, NoSleeperForgotten, \A t \in Threads : pc[t] = "wait" PROVE FALSE
    BY DEF SomebodyAwake
  <2>1. /\ Asleep(Producers) # {} /\ Asleep(Consumers) # {}
        /\ Attending(Producers) = {} /\ Notifying(Producers) = {}
        /\ Attending(Consumers) = {} /\ Notifying(Consumers) = {}
    BY DEF Asleep, Attending, Notifying, Threads
  <2>2. Capacity - Len(queue) <= 0 + 0 /\ Len(queue) <= 0 + 0
    BY <2>1, FS_EmptySet DEF NoSleeperForgotten, SleepersCovered
  <2> QED
    BY <2>2, BoundedQueueAssumption DEF TypeOK
<1> QED
  BY <1>1, TypeCorrect, NoWakeupLost, PTL
-----------------------------------------------------------------------------
(***************************************************************************)
(* sleep_bounded_queue implements the bounded FIFO queue: push_back is     *)
(* Enqueue, pop_front is Dequeue, the return of pop is Return, and every   *)
(* other step is invisible.                                                *)
(***************************************************************************)
THEOREM RefinesFifo == Spec => ImplementsFifo
<1>1. Init => Fifo!FifoInit
  BY DEF Init, Fifo!FifoInit, InHand, Threads
<1>2. TypeOK /\ [Next]_vars => [Fifo!FifoNext]_Fifo!fifoVars
  <2> SUFFICES ASSUME TypeOK, [Next]_vars PROVE [Fifo!FifoNext]_Fifo!fifoVars
    OBVIOUS
  <2> USE BoundedQueueAssumption DEF TypeOK, Threads, InHand
  <2>1. ASSUME NEW p \in Producers, PushBack(p) PROVE Fifo!Enqueue(val[p])
    BY <2>1 DEF PushBack, HasRoom, Fifo!Enqueue
  <2>2. ASSUME NEW c \in Consumers, PopFront(c) PROVE Fifo!Dequeue(c)
    BY <2>2 DEF PopFront, HasElement, Fifo!Dequeue
  <2>3. ASSUME NEW c \in Consumers, Unlock(c) PROVE Fifo!Return(c)
    BY <2>3 DEF Unlock, Fifo!Return
  <2>4. ASSUME NEW p \in Producers,
               Unlock(p) \/ \E v \in Values : PushCall(p, v)
        PROVE  UNCHANGED Fifo!fifoVars
    BY <2>4 DEF Unlock, PushCall, Fifo!fifoVars
  <2>5. ASSUME NEW t \in Threads,
               \/ Lock(t) \/ Wait(t) \/ WakeSpuriously(t) \/ PopCall(t) \/ PushNotify(t)
               \/ PopNotify(t) \/ UNCHANGED vars
        PROVE  UNCHANGED Fifo!fifoVars
    BY <2>5 DEF Lock, Wait, WakeSpuriously, PopCall, PushNotify, PopNotify, vars, Fifo!fifoVars
  <2>6. UNCHANGED vars => UNCHANGED Fifo!fifoVars
    BY DEF vars, Fifo!fifoVars
  <2>7. \A p \in Producers : PushBack(p) => Fifo!FifoNext
    BY <2>1 DEF PushBack, Fifo!FifoNext
  <2> QED
    BY <2>2, <2>3, <2>4, <2>5, <2>6, <2>7
    DEF Next, CallStep, BodyStep, ProducerBody, ConsumerBody, PushWait, PopWait, Fifo!FifoNext
<1> QED
  BY <1>1, <1>2, TypeCorrect, PTL DEF Spec, ImplementsFifo, Fifo!FifoSpec
=============================================================================
