------------------------- MODULE LocklessQueueProofs -------------------------
(***************************************************************************)
(* Proofs about LocklessQueue, for any number of producers and consumers   *)
(* and any ring size: under the scheduling assumption LapFree the four     *)
(* indices keep their order, claims are exclusive, data[] has no race, a   *)
(* refusal is justified and the ring implements BoundedFifo.               *)
(***************************************************************************)
EXTENDS LocklessQueue, SequenceTheorems, TLAPS

Loading(t) == pc[t] \in {"check", "claim"}

(***************************************************************************)
(* The inductive invariant.  Producers hold distinct slots of the segment  *)
(* [shadow_push_idx, push_idx), consumers of [shadow_pop_idx, pop_idx);    *)
(* lag is the ring distance a loaded index has fallen behind; and a thread *)
(* whose loaded index is current has room (or an element) to claim.        *)
(***************************************************************************)
ProducersInv ==
    /\ \A p \in Producers : Claimed(p) =>
         Dist(shadow_push_idx, cur[p]) < Dist(shadow_push_idx, push_idx)
    /\ \A p, r \in Producers : p # r /\ Claimed(p) /\ Claimed(r) => cur[p] # cur[r]
    /\ \A p \in Producers : lag[p] = IF Loading(p) THEN Dist(cur[p], push_idx) ELSE 0
    /\ \A p \in Producers : pc[p] = "claim" /\ cur[p] = push_idx =>
         Dist(shadow_pop_idx, push_idx) < QueueCapacity - 1

ConsumersInv ==
    /\ \A c \in Consumers : Claimed(c) =>
         Dist(shadow_pop_idx, cur[c]) < Dist(shadow_pop_idx, pop_idx)
    /\ \A c, d \in Consumers : c # d /\ Claimed(c) /\ Claimed(d) => cur[c] # cur[d]
    /\ \A c \in Consumers : lag[c] = IF Loading(c) THEN Dist(cur[c], pop_idx) ELSE 0
    /\ \A c \in Consumers : pc[c] = "claim" /\ cur[c] = pop_idx => pop_idx # shadow_push_idx

IndInv == TypeOK /\ IndexOrder /\ ProducersInv /\ ConsumersInv
-----------------------------------------------------------------------------
\* On the ring, After is "one more, and back to 0 after the last slot".
LEMMA AfterSlot ==
    ASSUME NEW i \in Slots
    PROVE  /\ After(i) = IF i = QueueCapacity - 1 THEN 0 ELSE i + 1
           /\ After(i) \in Slots
  BY QueueAssumption DEF After, Slots

\* A distance on the ring is less than a lap, and only a slot itself is at distance 0.
LEMMA DistSlot ==
    ASSUME NEW i \in Slots, NEW j \in Slots
    PROVE  /\ Dist(i, j) \in 0 .. QueueCapacity - 1
           /\ Dist(i, j) = 0 <=> i = j
  BY QueueAssumption DEF Dist, Slots
-----------------------------------------------------------------------------
\* The shared state a constructor leaves satisfies the invariant.
LEMMA InitIndInv == Init => IndInv
  BY QueueAssumption
  DEF Init, IndInv, TypeOK, IndexOrder, ProducersInv, ConsumersInv, Claimed, Loading,
      Slots, Dist, Threads

\* TypeOK is inductive by itself.
LEMMA NextTypeOK == TypeOK /\ [Next]_vars => TypeOK'
<1> SUFFICES ASSUME TypeOK, [Next]_vars PROVE TypeOK'
  OBVIOUS
<1> USE QueueAssumption, AfterSlot DEF TypeOK, Threads
<1>1. CASE UNCHANGED vars
  BY <1>1 DEF vars
<1>2. ASSUME NEW p \in Producers, ProducerStep(p) PROVE TypeOK'
  <2>1. ASSUME NEW v \in Values, PushCall(p, v) PROVE TypeOK'
    BY <2>1 DEF PushCall
  <2>2. CASE PushCheck(p)
    BY <2>2 DEF PushCheck
  <2>3. CASE PushRefuse(p)
    BY <2>3 DEF PushRefuse, Leave, Slots
  <2>4. CASE PushClaim(p)
    BY <2>4 DEF PushClaim, Overtake
  <2>5. CASE PushRetry(p)
    BY <2>5 DEF PushRetry
  <2>6. CASE PushWrite(p)
    BY <2>6 DEF PushWrite
  <2>7. CASE PushPublish(p)
    BY <2>7 DEF PushPublish, Leave, Slots
  <2> QED
    BY <1>2, <2>1, <2>2, <2>3, <2>4, <2>5, <2>6, <2>7 DEF ProducerStep
<1>3. ASSUME NEW c \in Consumers, ConsumerStep(c) PROVE TypeOK'
  <2>1. CASE PopCall(c)
    BY <2>1 DEF PopCall
  <2>2. CASE PopCheck(c)
    BY <2>2 DEF PopCheck
  <2>3. CASE PopEmpty(c)
    BY <2>3 DEF PopEmpty, Leave, Slots
  <2>4. CASE PopClaim(c)
    BY <2>4 DEF PopClaim, Overtake
  <2>5. CASE PopRetry(c)
    BY <2>5 DEF PopRetry
  <2>6. CASE PopRead(c)
    BY <2>6 DEF PopRead
  <2>7. CASE PopRelease(c)
    BY <2>7 DEF PopRelease, Leave, Slots
  <2> QED
    BY <1>3, <2>1, <2>2, <2>3, <2>4, <2>5, <2>6, <2>7 DEF ConsumerStep
<1> QED
  BY <1>1, <1>2, <1>3 DEF Next
-----------------------------------------------------------------------------
\* The distance from i grows with its end and shrinks with its start.
LEMMA DistAfter ==
    ASSUME NEW i \in Slots, NEW j \in Slots
    PROVE  /\ Dist(i, j) < QueueCapacity - 1 => Dist(i, After(j)) = Dist(i, j) + 1
           /\ i # j => Dist(After(i), j) = Dist(i, j) - 1
  BY QueueAssumption, AfterSlot DEF Dist, Slots

\* The slot after i is as far from i as the ring is long, less the way back to it.
LEMMA DistBehind ==
    ASSUME NEW i \in Slots
    PROVE  Dist(After(i), i) = QueueCapacity - 1
<1> USE QueueAssumption DEF Slots
<1>1. CASE i = QueueCapacity - 1
  <2>1. After(i) = 0
    BY <1>1, AfterSlot
  <2> QED
    BY <1>1, <2>1 DEF Dist
<1>2. CASE i # QueueCapacity - 1
  <2>1. After(i) = i + 1
    BY <1>2, AfterSlot
  <2> QED
    BY <2>1 DEF Dist
<1> QED
  BY <1>1, <1>2

\* Where j lies on the way from i to k, the way from j to k is what is left.
LEMMA DistSplit ==
    ASSUME NEW i \in Slots, NEW j \in Slots, NEW k \in Slots
    PROVE  /\ Dist(i, j) <= Dist(i, k) => Dist(j, k) = Dist(i, k) - Dist(i, j)
           /\ Dist(i, j) = Dist(i, k) => j = k
  BY QueueAssumption DEF Dist, Slots

\* A slot on the way from j to k, itself on the way from i, is on the way from i to k.
LEMMA DistInside ==
    ASSUME NEW i \in Slots, NEW j \in Slots, NEW k \in Slots, NEW m \in Slots,
           Dist(i, j) <= Dist(i, k), Dist(j, m) < Dist(j, k)
    PROVE  Dist(i, m) < Dist(i, k)
  BY QueueAssumption DEF Dist, Slots

\* A slot is a whole ring, less one, ahead of another when its successor is the other.
LEMMA DistFull ==
    ASSUME NEW i \in Slots, NEW j \in Slots, After(j) # i
    PROVE  Dist(i, j) < QueueCapacity - 1
  BY QueueAssumption, AfterSlot DEF Dist, Slots

\* Every step of push that respects LapFree preserves the invariant.
LEMMA PushIndInv ==
    ASSUME IndInv, TypeOK', LapFree', NEW p \in Producers, ProducerStep(p)
    PROVE  IndexOrder' /\ ProducersInv' /\ ConsumersInv'
<1> USE QueueAssumption, AfterSlot, DistSlot
<1> USE DEF IndInv, TypeOK, IndexOrder, ProducersInv, ConsumersInv, Claimed, Loading, Threads
<1> DEFINE Goal == IndexOrder /\ ProducersInv /\ ConsumersInv
<1>1. ASSUME NEW v \in Values, PushCall(p, v) PROVE Goal'
  BY <1>1 DEF PushCall
<1>2. CASE PushCheck(p)
  <2>1. cur[p] = push_idx => Dist(shadow_pop_idx, push_idx) < QueueCapacity - 1
    BY <1>2, DistFull DEF PushCheck, CanPush
  <2> QED
    BY <1>2, <2>1 DEF PushCheck
<1>3. CASE PushRefuse(p)
  BY <1>3 DEF PushRefuse, Leave
<1>4. CASE PushClaim(p)
  <2>1. Dist(shadow_pop_idx, push_idx) < QueueCapacity - 1
    BY <1>4 DEF PushClaim
  <2>2. Dist(shadow_pop_idx, push_idx') = Dist(shadow_pop_idx, push_idx) + 1
    BY <1>4, <2>1, DistAfter DEF PushClaim
  <2>3. Dist(shadow_push_idx, push_idx') = Dist(shadow_push_idx, push_idx) + 1
    <3>1. Dist(shadow_push_idx, push_idx) < QueueCapacity - 1
      BY <2>1, DistSplit
    <3> QED
      BY <1>4, <3>1, DistAfter DEF PushClaim
  <2>4. IndexOrder'
    BY <1>4, <2>2 DEF PushClaim
  <2>5. \A r \in Producers : Claimed(r) => cur[r] # push_idx
    BY DistSplit
  <2>6. \A r \in Producers : Claimed(r)' =>
          Dist(shadow_push_idx, cur[r])' < Dist(shadow_push_idx, push_idx)'
    BY <1>4, <2>3 DEF PushClaim
  <2>7. \A r, u \in Producers : r # u /\ Claimed(r)' /\ Claimed(u)' => cur[r]' # cur[u]'
    BY <1>4, <2>5 DEF PushClaim
  <2>8. \A r \in Producers : lag'[r] = IF Loading(r)' THEN Dist(cur[r], push_idx)' ELSE 0
    <3> SUFFICES ASSUME NEW r \in Producers
                 PROVE  lag'[r] = IF Loading(r)' THEN Dist(cur[r], push_idx)' ELSE 0
      OBVIOUS
    <3>1. CASE r = p \/ ~Loading(r)
      BY <1>4, <3>1 DEF PushClaim, Overtake
    <3>2. CASE r # p /\ Loading(r)
      <4>1. Loading(r)' /\ lag'[r] = lag[r] + 1 /\ cur'[r] = cur[r]
        BY <1>4, <3>2 DEF PushClaim, Overtake
      <4>2. lag'[r] < QueueCapacity
        BY <4>1 DEF LapFree
      <4>3. Dist(cur[r], push_idx) < QueueCapacity - 1
        BY <3>2, <4>1, <4>2
      <4> QED
        BY <1>4, <3>2, <4>1, <4>3, DistAfter DEF PushClaim
    <3> QED
      BY <3>1, <3>2
  <2>9. \A r \in Producers : pc'[r] = "claim" => cur'[r] # push_idx'
    <3> SUFFICES ASSUME NEW r \in Producers, pc'[r] = "claim", cur'[r] = push_idx' PROVE FALSE
      OBVIOUS
    <3>1. lag'[r] = 0
      BY <2>8, DistSlot
    <3> QED
      BY <1>4, <3>1 DEF PushClaim, Overtake
  <2>10. ConsumersInv'
    BY <1>4 DEF PushClaim, Overtake
  <2> QED
    BY <2>4, <2>6, <2>7, <2>8, <2>9, <2>10
<1>5. CASE PushRetry(p)
  BY <1>5 DEF PushRetry
<1>6. CASE PushWrite(p)
  BY <1>6 DEF PushWrite
<1>7. CASE PushPublish(p)
  <2>1. /\ Claimed(p) /\ shadow_push_idx = cur[p] /\ shadow_push_idx # push_idx
        /\ shadow_push_idx' = After(shadow_push_idx)
    BY <1>7 DEF PushPublish, MayPublish
  <2>2. \A r \in Producers : r # p /\ Claimed(r) =>
          Dist(shadow_push_idx', cur[r]) < Dist(shadow_push_idx', push_idx)
    BY <2>1, DistAfter
  <2>3. Dist(shadow_pop_idx, shadow_push_idx) < Dist(shadow_pop_idx, push_idx)
    BY <2>1, DistSplit
  <2>4. Dist(shadow_pop_idx, shadow_push_idx') = Dist(shadow_pop_idx, shadow_push_idx) + 1
    BY <2>1, <2>3, DistAfter
  <2>5. IndexOrder'
    BY <1>7, <2>3, <2>4 DEF PushPublish
  <2>6. ProducersInv'
    BY <1>7, <2>2 DEF PushPublish, Leave
  <2>7. pop_idx # shadow_push_idx'
    BY <2>1, <2>4
  <2>8. ConsumersInv'
    BY <1>7, <2>7 DEF PushPublish, Leave
  <2> QED
    BY <2>5, <2>6, <2>8
<1> QED
  BY <1>1, <1>2, <1>3, <1>4, <1>5, <1>6, <1>7 DEF ProducerStep

\* Every step of pop that respects LapFree preserves the invariant.
LEMMA PopIndInv ==
    ASSUME IndInv, TypeOK', LapFree', NEW c \in Consumers, ConsumerStep(c)
    PROVE  IndexOrder' /\ ProducersInv' /\ ConsumersInv'
<1> USE QueueAssumption, AfterSlot, DistSlot
<1> USE DEF IndInv, TypeOK, IndexOrder, ProducersInv, ConsumersInv, Claimed, Loading, Threads
<1> DEFINE Goal == IndexOrder /\ ProducersInv /\ ConsumersInv
<1>1. CASE PopCall(c)
  BY <1>1 DEF PopCall
<1>2. CASE PopCheck(c)
  BY <1>2 DEF PopCheck, CanPop
<1>3. CASE PopEmpty(c)
  BY <1>3 DEF PopEmpty, Leave
<1>4. CASE PopClaim(c)
  <2>1. pop_idx # shadow_push_idx
    BY <1>4 DEF PopClaim
  <2>2. Dist(shadow_pop_idx, pop_idx) < Dist(shadow_pop_idx, shadow_push_idx)
    BY <2>1, DistSplit
  <2>3. Dist(shadow_pop_idx, pop_idx') = Dist(shadow_pop_idx, pop_idx) + 1
    BY <1>4, <2>2, DistAfter DEF PopClaim
  <2>4. IndexOrder'
    BY <1>4, <2>2, <2>3 DEF PopClaim
  <2>5. \A d \in Consumers : Claimed(d) => cur[d] # pop_idx
    OBVIOUS
  <2>6. \A d \in Consumers : Claimed(d)' =>
          Dist(shadow_pop_idx, cur[d])' < Dist(shadow_pop_idx, pop_idx)'
    BY <1>4, <2>3 DEF PopClaim
  <2>7. \A d, e \in Consumers : d # e /\ Claimed(d)' /\ Claimed(e)' => cur[d]' # cur[e]'
    BY <1>4, <2>5 DEF PopClaim
  <2>8. \A d \in Consumers : lag'[d] = IF Loading(d)' THEN Dist(cur[d], pop_idx)' ELSE 0
    <3> SUFFICES ASSUME NEW d \in Consumers
                 PROVE  lag'[d] = IF Loading(d)' THEN Dist(cur[d], pop_idx)' ELSE 0
      OBVIOUS
    <3>1. CASE d = c \/ ~Loading(d)
      BY <1>4, <3>1 DEF PopClaim, Overtake
    <3>2. CASE d # c /\ Loading(d)
      <4>1. Loading(d)' /\ lag'[d] = lag[d] + 1 /\ cur'[d] = cur[d]
        BY <1>4, <3>2 DEF PopClaim, Overtake
      <4>2. lag'[d] < QueueCapacity
        BY <4>1 DEF LapFree
      <4>3. Dist(cur[d], pop_idx) < QueueCapacity - 1
        BY <3>2, <4>1, <4>2
      <4> QED
        BY <1>4, <3>2, <4>1, <4>3, DistAfter DEF PopClaim
    <3> QED
      BY <3>1, <3>2
  <2>9. \A d \in Consumers : pc'[d] = "claim" => cur'[d] # pop_idx'
    <3> SUFFICES ASSUME NEW d \in Consumers, pc'[d] = "claim", cur'[d] = pop_idx' PROVE FALSE
      OBVIOUS
    <3>1. lag'[d] = 0
      BY <2>8, DistSlot
    <3> QED
      BY <1>4, <3>1 DEF PopClaim, Overtake
  <2>10. ProducersInv'
    BY <1>4 DEF PopClaim, Overtake
  <2> QED
    BY <2>4, <2>6, <2>7, <2>8, <2>9, <2>10
<1>5. CASE PopRetry(c)
  BY <1>5 DEF PopRetry
<1>6. CASE PopRead(c)
  BY <1>6 DEF PopRead
<1>7. CASE PopRelease(c)
  <2>1. /\ Claimed(c) /\ shadow_pop_idx = cur[c] /\ shadow_pop_idx # pop_idx
        /\ shadow_pop_idx' = After(shadow_pop_idx)
    BY <1>7 DEF PopRelease, MayRelease
  <2>2. \A i \in Slots : i # shadow_pop_idx =>
          Dist(shadow_pop_idx', i) = Dist(shadow_pop_idx, i) - 1
    BY <2>1, DistAfter
  <2>3. shadow_pop_idx # shadow_push_idx /\ shadow_pop_idx # push_idx
    BY <2>1
  <2>4. IndexOrder'
    BY <1>7, <2>1, <2>2, <2>3 DEF PopRelease
  <2>5. \A d \in Consumers : d # c /\ Claimed(d) =>
          Dist(shadow_pop_idx', cur[d]) < Dist(shadow_pop_idx', pop_idx)
    BY <2>1, <2>2
  <2>6. ConsumersInv'
    BY <1>7, <2>5 DEF PopRelease, Leave
  <2>7. ProducersInv'
    BY <1>7, <2>2, <2>3 DEF PopRelease, Leave
  <2> QED
    BY <2>4, <2>6, <2>7
<1> QED
  BY <1>1, <1>2, <1>3, <1>4, <1>5, <1>6, <1>7 DEF ConsumerStep

\* The invariant is inductive under LapFree.
LEMMA NextIndInv == IndInv /\ [LapFreeNext]_vars => IndInv'
<1> SUFFICES ASSUME IndInv, [LapFreeNext]_vars PROVE IndInv'
  OBVIOUS
<1>1. TypeOK'
  BY NextTypeOK DEF IndInv, LapFreeNext
<1>2. CASE UNCHANGED vars
  BY <1>1, <1>2 DEF vars, IndInv, TypeOK, IndexOrder, ProducersInv, ConsumersInv, Claimed, Loading
<1>3. CASE LapFreeNext
  <2>1. ASSUME NEW p \in Producers, ProducerStep(p) PROVE IndInv'
    BY <1>1, <1>3, <2>1, PushIndInv DEF IndInv, LapFreeNext
  <2>2. ASSUME NEW c \in Consumers, ConsumerStep(c) PROVE IndInv'
    BY <1>1, <1>3, <2>2, PopIndInv DEF IndInv, LapFreeNext
  <2> QED
    BY <1>3, <2>1, <2>2 DEF LapFreeNext, Next
<1> QED
  BY <1>2, <1>3
-----------------------------------------------------------------------------
(***************************************************************************)
(* In every schedule the indices, the claimed slots and the elements keep  *)
(* their types: push and pop never leave the ring.                         *)
(***************************************************************************)
THEOREM TypeCorrect == Spec => []TypeOK
<1>1. Init => TypeOK
  BY InitIndInv DEF IndInv
<1> QED
  BY <1>1, NextTypeOK, PTL DEF Spec

(***************************************************************************)
(* Without a whole lap between a load and its compare-exchange, the four   *)
(* indices never overtake each other.                                      *)
(***************************************************************************)
THEOREM IndicesKeepOrder == LapFreeSpec => []IndexOrder
<1>1. IndInv => IndexOrder
  BY DEF IndInv
<1> QED
  BY <1>1, InitIndInv, NextIndInv, PTL DEF LapFreeSpec

(***************************************************************************)
(* ... no slot is written while another thread reads or writes it ...      *)
(***************************************************************************)
THEOREM RaceFree == LapFreeSpec => []NoDataRace
<1>1. IndInv => NoDataRace
  <2> SUFFICES ASSUME IndInv, NEW p \in Producers, NEW t \in Threads, p # t,
                      pc[p] = "access", pc[t] = "access"
               PROVE  cur[p] # cur[t]
    BY DEF NoDataRace
  <2>1. CASE t \in Producers
    BY <2>1 DEF IndInv, ProducersInv, Claimed
  <2>2. CASE t \in Consumers
    <3>1. Dist(shadow_pop_idx, cur[t]) < Dist(shadow_pop_idx, pop_idx)
      BY <2>2 DEF IndInv, ConsumersInv, Claimed
    <3>2. Dist(shadow_push_idx, cur[p]) < Dist(shadow_push_idx, push_idx)
      BY DEF IndInv, ProducersInv, Claimed
    <3> QED
      BY <2>2, <3>1, <3>2, QueueAssumption
      DEF IndInv, TypeOK, IndexOrder, Dist, Slots, Threads
  <2> QED
    BY <2>1, <2>2 DEF Threads
<1> QED
  BY <1>1, InitIndInv, NextIndInv, PTL DEF LapFreeSpec

(***************************************************************************)
(* ... and the slot push_idx names is in nobody's hands, as the comment    *)
(* on push_idx says.                                                       *)
(***************************************************************************)
THEOREM Pushable == LapFreeSpec => []PushIdxIsPushable
<1>1. IndInv => PushIdxIsPushable
  <2> SUFFICES ASSUME IndInv, NEW t \in Threads, Claimed(t) PROVE cur[t] # push_idx
    BY DEF PushIdxIsPushable
  <2>1. CASE t \in Producers
    <3>1. Dist(shadow_push_idx, cur[t]) < Dist(shadow_push_idx, push_idx)
      BY <2>1 DEF IndInv, ProducersInv
    <3> QED
      BY <3>1, DistSlot DEF IndInv, TypeOK
  <2>2. CASE t \in Consumers
    <3>1. Dist(shadow_pop_idx, cur[t]) < Dist(shadow_pop_idx, pop_idx)
      BY <2>2 DEF IndInv, ConsumersInv
    <3> QED
      BY <3>1, DistSlot DEF IndInv, TypeOK, IndexOrder
  <2> QED
    BY <2>1, <2>2 DEF Threads
<1> QED
  BY <1>1, InitIndInv, NextIndInv, PTL DEF LapFreeSpec
-----------------------------------------------------------------------------
(***************************************************************************)
(* A push whose index is current refuses only at a full ring, and a pop    *)
(* whose index is current reports empty only when nothing published is     *)
(* left: what the check loops of push and pop decide, without a lap.       *)
(***************************************************************************)
THEOREM RefusalsAreJustified == LapFreeSpec => RefusalIsJustified
<1> DEFINE Justified ==
      /\ \A p \in Producers :
           PushRefuse(p) /\ lag[p] = 0 => Dist(shadow_pop_idx, push_idx) = QueueCapacity - 1
      /\ \A c \in Consumers :
           PopEmpty(c) /\ lag[c] = 0 => Dist(pop_idx, shadow_push_idx) = 0
<1>1. IndInv => Justified
  <2> USE QueueAssumption DEF IndInv, TypeOK, Threads
  <2>1. ASSUME IndInv, NEW p \in Producers, PushRefuse(p), lag[p] = 0
        PROVE  Dist(shadow_pop_idx, push_idx) = QueueCapacity - 1
    <3>1. cur[p] = push_idx
      BY <2>1, DistSlot DEF PushRefuse, ProducersInv, Loading
    <3>2. After(push_idx) = shadow_pop_idx
      BY <2>1, <3>1 DEF PushRefuse, CanPush
    <3> QED
      BY <2>1, <3>2, DistBehind
  <2>2. ASSUME IndInv, NEW c \in Consumers, PopEmpty(c), lag[c] = 0
        PROVE  Dist(pop_idx, shadow_push_idx) = 0
    <3>1. cur[c] = pop_idx
      BY <2>2, DistSlot DEF PopEmpty, ConsumersInv, Loading
    <3> QED
      BY <2>2, <3>1, DistSlot DEF PopEmpty, CanPop
  <2> QED
    BY <2>1, <2>2
<1>2. IndInv /\ [LapFreeNext]_vars => [Justified]_vars
  BY <1>1
<1> QED
  BY <1>2, InitIndInv, NextIndInv, PTL DEF LapFreeSpec, RefusalIsJustified
-----------------------------------------------------------------------------
(***************************************************************************)
(* Where the elements are: a push holds one from its call on, and its slot *)
(* holds it before it is published; the published slots that are not       *)
(* released hold one each, and so does a pop that has read its slot.       *)
(***************************************************************************)
ElementsInv ==
    /\ \A p \in Producers : pc[p] # "idle" => val[p] \in Values
    /\ \A p \in Producers : pc[p] = "publish" => data[cur[p]] = val[p]
    /\ \A i \in Slots :
         Dist(shadow_pop_idx, i) < Dist(shadow_pop_idx, shadow_push_idx) => data[i] \in Values
    /\ \A c \in Consumers : pc[c] = "publish" => val[c] \in Values

\* A slot a push has claimed and not published is not one of the published ones.
LEMMA ClaimedIsUnpublished ==
    ASSUME IndInv, NEW p \in Producers, Claimed(p)
    PROVE  Dist(shadow_pop_idx, shadow_push_idx) <= Dist(shadow_pop_idx, cur[p])
<1>1. Dist(shadow_push_idx, cur[p]) < Dist(shadow_push_idx, push_idx)
  BY DEF IndInv, ProducersInv
<1> QED
  BY <1>1, QueueAssumption DEF IndInv, TypeOK, IndexOrder, Dist, Slots, Threads

\* Every step preserves the places of the elements.
LEMMA NextElementsInv ==
    ASSUME IndInv, IndInv', ElementsInv, [LapFreeNext]_vars
    PROVE  ElementsInv'
<1> USE QueueAssumption, AfterSlot, DistSlot DEF IndInv, TypeOK, ElementsInv, Threads
<1>1. CASE UNCHANGED vars
  BY <1>1 DEF vars
<1>2. ASSUME NEW p \in Producers, ProducerStep(p) PROVE ElementsInv'
  <2>1. ASSUME NEW v \in Values, PushCall(p, v) PROVE ElementsInv'
    BY <2>1 DEF PushCall
  <2>2. CASE PushCheck(p) \/ PushRetry(p)
    BY <2>2 DEF PushCheck, PushRetry
  <2>3. CASE PushRefuse(p)
    BY <2>3 DEF PushRefuse, Leave
  <2>4. CASE PushClaim(p)
    BY <2>4 DEF PushClaim
  <2>5. CASE PushWrite(p)
    <3>1. Dist(shadow_pop_idx, shadow_push_idx) <= Dist(shadow_pop_idx, cur[p])
      BY <2>5, ClaimedIsUnpublished DEF PushWrite, Claimed
    <3>2. \A r \in Producers : pc[r] = "publish" => cur[r] # cur[p]
      BY <2>5 DEF PushWrite, ProducersInv, Claimed
    <3> QED
      BY <2>5, <3>1, <3>2 DEF PushWrite
  <2>6. CASE PushPublish(p)
    <3>1. shadow_push_idx = cur[p] /\ data[shadow_push_idx] \in Values
      BY <2>6 DEF PushPublish, MayPublish
    <3>2. ASSUME NEW i \in Slots, Dist(shadow_pop_idx, i) < Dist(shadow_pop_idx, shadow_push_idx')
          PROVE  data[i] \in Values
      <4>1. Dist(shadow_pop_idx, shadow_push_idx) < Dist(shadow_pop_idx, push_idx)
        BY <2>6, <3>1, DistSplit DEF PushPublish, IndexOrder, ProducersInv, Claimed
      <4>2. Dist(shadow_pop_idx, shadow_push_idx') = Dist(shadow_pop_idx, shadow_push_idx) + 1
        BY <2>6, <3>1, <4>1, DistAfter DEF PushPublish
      <4>3. \/ Dist(shadow_pop_idx, i) < Dist(shadow_pop_idx, shadow_push_idx)
            \/ Dist(shadow_pop_idx, i) = Dist(shadow_pop_idx, shadow_push_idx)
        BY <3>2, <4>2
      <4> QED
        BY <3>1, <4>3, DistSplit
    <3> QED
      BY <2>6, <3>2 DEF PushPublish, Leave
  <2> QED
    BY <1>2, <2>1, <2>2, <2>3, <2>4, <2>5, <2>6 DEF ProducerStep
<1>3. ASSUME NEW c \in Consumers, ConsumerStep(c) PROVE ElementsInv'
  <2>1. CASE PopCall(c) \/ PopCheck(c) \/ PopRetry(c)
    BY <2>1 DEF PopCall, PopCheck, PopRetry
  <2>2. CASE PopEmpty(c)
    BY <2>2 DEF PopEmpty, Leave
  <2>3. CASE PopClaim(c)
    BY <2>3 DEF PopClaim
  <2>4. CASE PopRead(c)
    <3>1. data[cur[c]] \in Values
      BY <2>4 DEF PopRead, ConsumersInv, IndexOrder, Claimed
    <3> QED
      BY <2>4, <3>1 DEF PopRead
  <2>5. CASE PopRelease(c)
    <3>1. shadow_pop_idx # shadow_push_idx /\ shadow_pop_idx' = After(shadow_pop_idx)
      BY <2>5 DEF PopRelease, MayRelease, ConsumersInv, IndexOrder, Claimed
    <3>2. ASSUME NEW i \in Slots, Dist(shadow_pop_idx', i) < Dist(shadow_pop_idx', shadow_push_idx)
          PROVE  Dist(shadow_pop_idx, i) < Dist(shadow_pop_idx, shadow_push_idx)
      BY <3>1, <3>2, DistAfter
    <3> QED
      BY <2>5, <3>2 DEF PopRelease, Leave
  <2> QED
    BY <1>3, <2>1, <2>2, <2>3, <2>4, <2>5 DEF ConsumerStep
<1> QED
  BY <1>1, <1>2, <1>3 DEF LapFreeNext, Next
-----------------------------------------------------------------------------
\* The n-th slot from i on.
Place(i, n) == (i + n - 1) % QueueCapacity

\* The n-th slot is n - 1 further; the first is i itself, and one step on it is the next.
LEMMA PlaceSlot ==
    ASSUME NEW i \in Slots, NEW n \in 1 .. QueueCapacity
    PROVE  /\ Place(i, n) \in Slots
           /\ Dist(i, Place(i, n)) = n - 1
           /\ Place(i, 1) = i
           /\ n < QueueCapacity => Place(After(i), n) = Place(i, n + 1)
<1> USE QueueAssumption DEF Slots
<1>1. Place(i, n) = IF i + n - 1 < QueueCapacity THEN i + n - 1 ELSE i + n - 1 - QueueCapacity
  BY DEF Place
<1>2. Place(i, 1) = i
  BY DEF Place
<1>3. ASSUME n < QueueCapacity PROVE Place(After(i), n) = Place(i, n + 1)
  <2>1. Place(i, n + 1) = IF i + n < QueueCapacity THEN i + n ELSE i + n - QueueCapacity
    BY <1>3 DEF Place
  <2>2. CASE i = QueueCapacity - 1
    BY <1>3, <2>1, <2>2, AfterSlot DEF Place
  <2>3. CASE i # QueueCapacity - 1
    <3>1. After(i) + n - 1 = i + (n + 1) - 1
      BY <1>3, <2>3, AfterSlot
    <3> QED
      BY <3>1 DEF Place
  <2> QED
    BY <2>2, <2>3
<1> QED
  BY <1>1, <1>2, <1>3 DEF Dist

\* The place at the distance of a slot is that slot.
LEMMA PlaceOfDist ==
    ASSUME NEW i \in Slots, NEW j \in Slots
    PROVE  Place(i, Dist(i, j) + 1) = j
<1>1. Dist(i, j) + 1 \in 1 .. QueueCapacity
  BY DistSlot, QueueAssumption
<1>2. Place(i, Dist(i, j) + 1) \in Slots /\ Dist(i, Place(i, Dist(i, j) + 1)) = Dist(i, j)
  BY <1>1, PlaceSlot, DistSlot
<1> QED
  BY <1>2, DistSplit

\* What the ring holds is a sequence of elements, one for each published slot.
LEMMA ContentsSeq ==
    ASSUME IndInv, ElementsInv
    PROVE  /\ Contents \in Seq(Values)
           /\ Len(Contents) = Dist(pop_idx, shadow_push_idx)
           /\ \A n \in 1 .. Dist(pop_idx, shadow_push_idx) :
                Contents[n] = data[Place(pop_idx, n)]
<1> DEFINE L == Dist(pop_idx, shadow_push_idx)
<1>1. L \in Nat /\ L < QueueCapacity /\ L = Dist(shadow_pop_idx, shadow_push_idx) - Dist(shadow_pop_idx, pop_idx)
  BY QueueAssumption, DistSlot, DistSplit DEF IndInv, TypeOK, IndexOrder
<1>2. ASSUME NEW n \in 1 .. L PROVE data[Place(pop_idx, n)] \in Values
  <2>1. /\ Place(pop_idx, n) \in Slots
        /\ Dist(pop_idx, Place(pop_idx, n)) = n - 1
    BY <1>1, PlaceSlot, QueueAssumption DEF IndInv, TypeOK
  <2>2. Dist(pop_idx, Place(pop_idx, n)) < L
    BY <1>1, <2>1
  <2>3. Dist(shadow_pop_idx, Place(pop_idx, n)) < Dist(shadow_pop_idx, shadow_push_idx)
    BY <2>1, <2>2, DistInside DEF IndInv, TypeOK, IndexOrder
  <2> QED
    BY <2>1, <2>3 DEF ElementsInv
<1>3. Contents = [n \in 1 .. L |-> data[Place(pop_idx, n)]]
  BY DEF Contents, Place
<1> HIDE DEF L
<1>4. Contents \in [1 .. L -> Values]
  BY <1>2, <1>3
<1>5. Contents \in Seq(Values) /\ Len(Contents) = L
  BY <1>1, <1>4
<1> QED
  BY <1>3, <1>5 DEF L

\* A sequence that has the elements of another and one more is that other with it appended.
LEMMA IsAppend ==
    ASSUME NEW S, NEW a \in Seq(S), NEW b \in Seq(S), NEW v \in S,
           Len(b) = Len(a) + 1, \A n \in 1 .. Len(a) : b[n] = a[n], b[Len(a) + 1] = v
    PROVE  b = Append(a, v)
<1>1. /\ Append(a, v) \in Seq(S) /\ Len(Append(a, v)) = Len(b)
      /\ \A n \in 1 .. Len(b) : b[n] = Append(a, v)[n]
  OBVIOUS
<1> QED
  BY <1>1, SeqEqual

\* A sequence that has the elements of another but the first is its tail.
LEMMA IsTail ==
    ASSUME NEW S, NEW a \in Seq(S), NEW b \in Seq(S),
           Len(a) = Len(b) + 1, \A n \in 1 .. Len(b) : b[n] = a[n + 1]
    PROVE  a # <<>> /\ b = Tail(a) /\ Head(a) = a[1]
<1>1. a # <<>>
  OBVIOUS
<1>2. /\ Tail(a) \in Seq(S) /\ Len(Tail(a)) = Len(b)
      /\ \A n \in 1 .. Len(b) : b[n] = Tail(a)[n]
  BY <1>1, HeadTailProperties
<1> QED
  BY <1>1, <1>2, SeqEqual

\* ... and so it is after a step.
LEMMA ContentsSeqNext ==
    (IndInv /\ ElementsInv)' =>
        /\ Contents' \in Seq(Values)
        /\ Len(Contents') = Dist(pop_idx', shadow_push_idx')
        /\ \A n \in 1 .. Dist(pop_idx', shadow_push_idx') :
             Contents'[n] = data'[Place(pop_idx', n)]
<1>1. IndInv /\ ElementsInv =>
        (/\ Contents \in Seq(Values)
         /\ Len(Contents) = Dist(pop_idx, shadow_push_idx)
         /\ \A n \in 1 .. Dist(pop_idx, shadow_push_idx) : Contents[n] = data[Place(pop_idx, n)])
  BY ContentsSeq
<1>2. (IndInv /\ ElementsInv =>
        (/\ Contents \in Seq(Values)
         /\ Len(Contents) = Dist(pop_idx, shadow_push_idx)
         /\ \A n \in 1 .. Dist(pop_idx, shadow_push_idx) : Contents[n] = data[Place(pop_idx, n)]))'
  BY <1>1, PTL
<1> QED
  BY <1>2 DEF Dist, Place

\* A step of push that does not publish leaves the abstract queue as it is.
LEMMA PushStutters ==
    ASSUME IndInv, NEW p \in Producers,
           \/ \E v \in Values : PushCall(p, v)
           \/ PushCheck(p) \/ PushRefuse(p) \/ PushClaim(p) \/ PushRetry(p) \/ PushWrite(p)
    PROVE  UNCHANGED <<Contents, InHand>>
<1> USE QueueAssumption DEF IndInv, TypeOK, Threads
<1>1. CASE ~PushWrite(p)
  <2>1. /\ UNCHANGED <<pop_idx, shadow_push_idx, data>>
        /\ \A c \in Consumers : pc'[c] = pc[c] /\ cur'[c] = cur[c] /\ val'[c] = val[c]
    BY <1>1 DEF PushCall, PushCheck, PushRefuse, PushClaim, PushRetry, Leave
  <2> QED
    BY <2>1 DEF Contents, InHand, Dist
<1>2. CASE PushWrite(p)
  <2>1. Dist(shadow_pop_idx, shadow_push_idx) <= Dist(shadow_pop_idx, cur[p])
    BY <1>2, ClaimedIsUnpublished DEF PushWrite, Claimed
  <2>2. ASSUME NEW i \in Slots, Dist(shadow_pop_idx, i) < Dist(shadow_pop_idx, shadow_push_idx)
        PROVE  data'[i] = data[i]
    BY <1>2, <2>1, <2>2, DistSlot DEF PushWrite
  <2>3. ASSUME NEW n \in 1 .. Dist(pop_idx, shadow_push_idx)
        PROVE  data'[Place(pop_idx, n)] = data[Place(pop_idx, n)]
    <3>1. /\ Place(pop_idx, n) \in Slots
          /\ Dist(pop_idx, Place(pop_idx, n)) < Dist(pop_idx, shadow_push_idx)
      BY PlaceSlot, DistSlot
    <3> QED
      BY <3>1, <2>2, DistInside DEF IndexOrder
  <2>4. Contents' = Contents
    BY <1>2, <2>3 DEF PushWrite, Contents, Place, Dist
  <2>5. \A c \in Consumers : pc[c] = "access" => data'[cur[c]] = data[cur[c]]
    BY <2>2, DistSlot DEF ConsumersInv, IndexOrder, Claimed
  <2>6. InHand' = InHand
    BY <1>2, <2>5 DEF PushWrite, InHand
  <2> QED
    BY <2>4, <2>6
<1> QED
  BY <1>1, <1>2

\* Publishing a slot appends its element to the abstract queue, which is not full.
LEMMA PublishEnqueues ==
    ASSUME IndInv, IndInv', ElementsInv, ElementsInv', NEW p \in Producers, PushPublish(p)
    PROVE  Fifo!Enqueue(val[p])
<1> USE QueueAssumption DEF IndInv, TypeOK, Threads
<1> DEFINE L == Dist(pop_idx, shadow_push_idx)
<1>1. /\ shadow_push_idx = cur[p] /\ shadow_push_idx' = After(shadow_push_idx)
      /\ UNCHANGED <<pop_idx, data>>
      /\ data[shadow_push_idx] = val[p] /\ val[p] \in Values
  BY DEF PushPublish, MayPublish, ElementsInv
<1>2. L < QueueCapacity - 1
  <2>1. Dist(shadow_pop_idx, shadow_push_idx) < Dist(shadow_pop_idx, push_idx)
    BY <1>1, DistSplit, DistSlot DEF PushPublish, IndexOrder, ProducersInv, Claimed
  <2> QED
    BY <2>1, DistSplit, DistSlot DEF IndexOrder
<1>3. L \in Nat /\ Dist(pop_idx', shadow_push_idx') = L + 1
  BY <1>1, <1>2, DistAfter, DistSlot
<1>4. /\ Contents \in Seq(Values) /\ Len(Contents) = L
      /\ \A n \in 1 .. L : Contents[n] = data[Place(pop_idx, n)]
  BY ContentsSeq
<1>5. /\ Contents' \in Seq(Values) /\ Len(Contents') = L + 1
      /\ \A n \in 1 .. L + 1 : Contents'[n] = data[Place(pop_idx, n)]
  <2>1. /\ Contents' \in Seq(Values) /\ Len(Contents') = Dist(pop_idx', shadow_push_idx')
        /\ \A n \in 1 .. Dist(pop_idx', shadow_push_idx') :
             Contents'[n] = data'[Place(pop_idx', n)]
    BY ContentsSeqNext
  <2> QED
    BY <1>1, <1>3, <2>1
<1>6. data[Place(pop_idx, L + 1)] = val[p]
  BY <1>1, PlaceOfDist
<1> HIDE DEF L
<1>7. Contents' = Append(Contents, val[p])
  <2>1. Len(Contents') = Len(Contents) + 1
    BY <1>4, <1>5
  <2>2. ASSUME NEW n \in 1 .. Len(Contents) PROVE Contents'[n] = Contents[n]
    <3>1. n \in 1 .. L /\ n \in 1 .. L + 1
      BY <1>3, <1>4
    <3> QED
      BY <1>4, <1>5, <3>1
  <2>3. Contents'[Len(Contents) + 1] = val[p]
    BY <1>3, <1>4, <1>5, <1>6
  <2> QED
    BY <1>1, <1>4, <1>5, <2>1, <2>2, <2>3, IsAppend
<1>8. UNCHANGED InHand
  BY DEF PushPublish, Leave, InHand
<1> QED
  BY <1>1, <1>2, <1>4, <1>7, <1>8 DEF L, Fifo!Enqueue

\* A step of pop that neither claims nor releases leaves the abstract queue as it is.
LEMMA PopStutters ==
    ASSUME IndInv, NEW c \in Consumers,
           PopCall(c) \/ PopCheck(c) \/ PopEmpty(c) \/ PopRetry(c) \/ PopRead(c)
    PROVE  UNCHANGED <<Contents, InHand>>
<1> USE QueueAssumption DEF IndInv, TypeOK, Threads
<1>1. UNCHANGED <<pop_idx, shadow_push_idx, data>>
  BY DEF PopCall, PopCheck, PopEmpty, PopRetry, PopRead
<1>2. UNCHANGED Contents
  BY <1>1 DEF Contents, Dist
<1>3. UNCHANGED InHand
  BY DEF InHand, PopCall, PopCheck, PopEmpty, PopRetry, PopRead, Leave
<1> QED
  BY <1>2, <1>3

\* Claiming a slot takes the first element of the abstract queue.
LEMMA ClaimDequeues ==
    ASSUME IndInv, IndInv', ElementsInv, ElementsInv', NEW c \in Consumers, PopClaim(c)
    PROVE  Fifo!Dequeue(c)
<1> USE QueueAssumption DEF IndInv, TypeOK, Threads
<1> DEFINE L == Dist(pop_idx, shadow_push_idx)
           M == Dist(pop_idx', shadow_push_idx')
<1>1. /\ pop_idx = cur[c] /\ pop_idx' = After(pop_idx) /\ pop_idx # shadow_push_idx
      /\ UNCHANGED <<shadow_push_idx, data>>
  BY DEF PopClaim, ConsumersInv
<1>2. L \in Nat /\ L < QueueCapacity /\ M \in Nat /\ L = M + 1
  BY <1>1, DistSlot, DistAfter
<1>3. /\ Contents \in Seq(Values) /\ Len(Contents) = L
      /\ \A n \in 1 .. L : Contents[n] = data[Place(pop_idx, n)]
  BY ContentsSeq
<1>4. /\ Contents' \in Seq(Values) /\ Len(Contents') = M
      /\ \A n \in 1 .. M : Contents'[n] = data'[Place(pop_idx', n)]
  BY ContentsSeqNext
<1>5. data[Place(pop_idx, 1)] = data[pop_idx]
  BY PlaceSlot
<1> HIDE DEF L, M
<1>6. ASSUME NEW n \in 1 .. Len(Contents') PROVE Contents'[n] = Contents[n + 1]
  <2>1. n \in 1 .. M /\ n + 1 \in 1 .. L /\ n \in 1 .. QueueCapacity /\ n < QueueCapacity
    BY <1>2, <1>4
  <2>2. Place(pop_idx', n) = Place(pop_idx, n + 1)
    BY <1>1, <2>1, PlaceSlot
  <2> QED
    BY <1>1, <1>3, <1>4, <2>1, <2>2
<1>7. Contents # <<>> /\ Contents' = Tail(Contents) /\ Head(Contents) = Contents[1]
  BY <1>2, <1>3, <1>4, <1>6, IsTail
<1>8. Head(Contents) = data[cur[c]]
  <2>1. 1 \in 1 .. L
    BY <1>2
  <2> QED
    BY <1>1, <1>3, <1>5, <1>7, <2>1
<1>9. InHand[c] = NoValue /\ InHand' = [InHand EXCEPT ![c] = data[cur[c]]]
  BY <1>1 DEF PopClaim, InHand
<1> QED
  BY <1>7, <1>8, <1>9 DEF Fifo!Dequeue

\* Releasing a slot returns the element, and leaves the abstract queue as it is.
LEMMA ReleaseReturns ==
    ASSUME IndInv, ElementsInv, NEW c \in Consumers, PopRelease(c)
    PROVE  Fifo!Return(c)
<1> USE QueueAssumption DEF IndInv, TypeOK, Threads
<1>1. UNCHANGED Contents
  BY DEF PopRelease, Contents, Dist
<1>2. InHand[c] # NoValue /\ InHand' = [InHand EXCEPT ![c] = NoValue]
  BY DEF PopRelease, Leave, InHand, ElementsInv
<1> QED
  BY <1>1, <1>2 DEF Fifo!Return

(***************************************************************************)
(* Without a lap, the ring is a bounded first-in first-out queue: a push   *)
(* enqueues when it publishes its slot, a pop dequeues when it claims one  *)
(* and has returned the element when it releases the slot.                 *)
(***************************************************************************)
THEOREM RingImplementsFifo == LapFreeSpec => ImplementsFifo
<1>1. Init => ElementsInv
  BY QueueAssumption DEF Init, ElementsInv, Threads, Dist, Slots
<1>2. IndInv /\ IndInv' /\ ElementsInv /\ [LapFreeNext]_vars => ElementsInv'
  BY NextElementsInv
<1>3. Init => Fifo!FifoInit
  <2> SUFFICES ASSUME Init PROVE Fifo!FifoInit
    OBVIOUS
  <2>1. Dist(pop_idx, shadow_push_idx) = 0
    BY DEF Init, Dist
  <2>2. Contents = <<>>
    BY <2>1 DEF Contents
  <2>3. InHand = [c \in Consumers |-> NoValue]
    BY DEF Init, InHand, Threads
  <2> QED
    BY <2>2, <2>3 DEF Fifo!FifoInit
<1>4. IndInv /\ IndInv' /\ ElementsInv /\ ElementsInv' /\ [LapFreeNext]_vars
        => [Fifo!FifoNext]_(Fifo!fifoVars)
  <2> SUFFICES ASSUME IndInv, IndInv', ElementsInv, ElementsInv', [LapFreeNext]_vars
               PROVE  [Fifo!FifoNext]_(Fifo!fifoVars)
    OBVIOUS
  <2>1. CASE UNCHANGED vars
    BY <2>1 DEF vars, Contents, InHand, Dist, Fifo!fifoVars
  <2>2. ASSUME NEW p \in Producers, ProducerStep(p) PROVE [Fifo!FifoNext]_(Fifo!fifoVars)
    <3>1. CASE PushPublish(p)
      <4>1. val[p] \in Values
        BY <3>1 DEF PushPublish, ElementsInv
      <4> QED
        BY <3>1, <4>1, PublishEnqueues DEF Fifo!FifoNext
    <3>2. CASE ~PushPublish(p)
      BY <2>2, <3>2, PushStutters DEF ProducerStep, Fifo!fifoVars
    <3> QED
      BY <3>1, <3>2
  <2>3. ASSUME NEW c \in Consumers, ConsumerStep(c) PROVE [Fifo!FifoNext]_(Fifo!fifoVars)
    <3>1. CASE PopClaim(c)
      BY <3>1, ClaimDequeues DEF Fifo!FifoNext
    <3>2. CASE PopRelease(c)
      BY <3>2, ReleaseReturns DEF Fifo!FifoNext
    <3>3. CASE ~PopClaim(c) /\ ~PopRelease(c)
      BY <2>3, <3>3, PopStutters DEF ConsumerStep, Fifo!fifoVars
    <3> QED
      BY <3>1, <3>2, <3>3
  <2> QED
    BY <2>1, <2>2, <2>3 DEF LapFreeNext, Next
<1> QED
  BY <1>1, <1>2, <1>3, <1>4, InitIndInv, NextIndInv, PTL DEF LapFreeSpec, ImplementsFifo, Fifo!FifoSpec
-----------------------------------------------------------------------------
\* Nobody's loaded index is ever overtaken.
NobodyLags == TypeOK /\ \A t \in Threads : lag[t] = 0

(***************************************************************************)
(* One producer and one consumer need no scheduling assumption: only they  *)
(* move the index they load, so the theorems above hold of all their runs. *)
(***************************************************************************)
THEOREM SinglePairIsLapFree ==
    ASSUME \A p, r \in Producers : p = r,
           \A c, d \in Consumers : c = d
    PROVE  Spec => LapFreeSpec
<1>1. Init => NobodyLags
  BY InitIndInv DEF Init, NobodyLags, IndInv
<1>2. NobodyLags /\ [Next]_vars => NobodyLags'
  <2> SUFFICES ASSUME NobodyLags, [Next]_vars PROVE NobodyLags'
    OBVIOUS
  <2>1. TypeOK'
    BY NextTypeOK DEF NobodyLags
  <2>2. CASE UNCHANGED vars
    BY <2>1, <2>2 DEF NobodyLags, vars
  <2>3. ASSUME NEW p \in Producers, ProducerStep(p) PROVE NobodyLags'
    BY <2>1, <2>3
    DEF NobodyLags, TypeOK, Threads, ProducerStep, PushCall, PushCheck, PushRefuse, PushClaim,
        PushRetry, PushWrite, PushPublish, Leave, Overtake
  <2>4. ASSUME NEW c \in Consumers, ConsumerStep(c) PROVE NobodyLags'
    BY <2>1, <2>4
    DEF NobodyLags, TypeOK, Threads, ConsumerStep, PopCall, PopCheck, PopEmpty, PopClaim,
        PopRetry, PopRead, PopRelease, Leave, Overtake
  <2> QED
    BY <2>2, <2>3, <2>4 DEF Next
<1>3. NobodyLags' => LapFree'
  BY QueueAssumption DEF NobodyLags, LapFree
<1>4. NobodyLags' /\ [Next]_vars => [LapFreeNext]_vars
  BY <1>3 DEF LapFreeNext
<1> QED
  BY <1>1, <1>2, <1>4, PTL DEF Spec, LapFreeSpec
=============================================================================
