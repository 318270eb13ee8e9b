---------------------------- MODULE LocklessQueue ----------------------------
(***************************************************************************)
(* lockless_queue<T, QueueCapacity> of lockless_queue.cc: a ring of        *)
(* QueueCapacity slots used by any number of producers and consumers.      *)
(* push claims the slot at push_idx with a compare-exchange, writes it and *)
(* then publishes it by advancing shadow_push_idx in claim order; pop      *)
(* claims, reads and releases slots with pop_idx and shadow_pop_idx.       *)
(*                                                                         *)
(* One action is one access to shared memory.  The atomics are all         *)
(* seq_cst in the code, so a step on one of them is a step of the          *)
(* interleaving; data[] is plain memory, its races are a property.         *)
(*                                                                         *)
(* A compare-exchange on an index in 0..QueueCapacity-1 cannot tell "the   *)
(* index has not moved" from "the index has moved a whole lap".  The       *)
(* history variable lag counts the advances a thread has missed, so that   *)
(* the assumption under which the algorithm works can be stated (LapFree). *)
(***************************************************************************)
EXTENDS Integers

CONSTANTS Producers,      \* threads that call push
          Consumers,      \* threads that call pop
          QueueCapacity,  \* slots of the ring, one of which is always kept free
          Values,         \* the elements pushed
          NoValue         \* a slot or local nothing was stored in

ASSUME QueueAssumption ==
    /\ QueueCapacity \in Nat \ {0}
    /\ Producers \cap Consumers = {}
    /\ NoValue \notin Values

VARIABLES push_idx, shadow_push_idx,  \* next slot to claim / to publish by push
          pop_idx, shadow_pop_idx,    \* next slot to claim / to release by pop
          data,                       \* data[i]: the element stored in slot i
          pc,                         \* where each thread is in push or pop
          cur,                        \* current_push_idx / current_pop_idx, a local
          val,                        \* push's argument val / pop's local ans
          lag                         \* advances of the index since cur was loaded

vars == <<push_idx, shadow_push_idx, pop_idx, shadow_pop_idx, data, pc, cur, val, lag>>

Threads == Producers \cup Consumers
Slots == 0 .. QueueCapacity - 1

\* The successor of a slot on the ring.
AfterNoWrap(i) == i + 1
After(i) == (i + 1) % QueueCapacity

\* The number of slots from i on the ring up to, and without, j.
Dist(i, j) == IF i <= j THEN j - i ELSE j - i + QueueCapacity

Init ==
    /\ push_idx = 0 /\ shadow_push_idx = 0
    /\ pop_idx = 0 /\ shadow_pop_idx = 0
    /\ data = [i \in Slots |-> NoValue]
    /\ pc = [t \in Threads |-> "idle"]
    /\ cur = [t \in Threads |-> 0]
    /\ val = [t \in Threads |-> NoValue]
    /\ lag = [t \in Threads |-> 0]

\* Thread t leaves its operation; its locals die.
Leave(t) ==
    /\ pc' = [pc EXCEPT ![t] = "idle"]
    /\ cur' = [cur EXCEPT ![t] = 0]
    /\ val' = [val EXCEPT ![t] = NoValue]
    /\ lag' = [lag EXCEPT ![t] = 0]

\* t advances an index: the threads of its group that hold a loaded value of
\* that index now hold an older one.  lag stops counting at a whole lap.
Overtake(t, group) ==
    lag' = [u \in Threads |->
              IF u = t THEN 0
              ELSE IF u \in group /\ pc[u] \in {"check", "claim"} /\ lag[u] < QueueCapacity
                   THEN lag[u] + 1 ELSE lag[u]]
-----------------------------------------------------------------------------
(* push *)

CanPushClaimed(i) == After(i) # pop_idx
CanPushUnchecked(i) == TRUE
CanPushTooSoon(i) == After(After(i)) # shadow_pop_idx
CanPush(i) == After(i) # shadow_pop_idx

PublishOutOfOrder(i) == TRUE
PublishAtPushIdx(i) == push_idx = i
MayPublish(i) == shadow_push_idx = i

PushCall(p, v) ==
    /\ pc[p] = "idle"
    /\ pc' = [pc EXCEPT ![p] = "check"]
    /\ cur' = [cur EXCEPT ![p] = push_idx]
    /\ val' = [val EXCEPT ![p] = v]
    /\ UNCHANGED <<push_idx, shadow_push_idx, pop_idx, shadow_pop_idx, data, lag>>

PushCheck(p) ==
    /\ pc[p] = "check"
    /\ CanPush(cur[p])
    /\ pc' = [pc EXCEPT ![p] = "claim"]
    /\ UNCHANGED <<push_idx, shadow_push_idx, pop_idx, shadow_pop_idx, data, cur, val, lag>>

\* if (!flag) return; -- the element is dropped and the caller is not told.
PushRefuse(p) ==
    /\ pc[p] = "check"
    /\ ~CanPush(cur[p])
    /\ Leave(p)
    /\ UNCHANGED <<push_idx, shadow_push_idx, pop_idx, shadow_pop_idx, data>>

PushClaim(p) ==
    /\ pc[p] = "claim"
    /\ push_idx = cur[p]
    /\ push_idx' = After(cur[p])
    /\ pc' = [pc EXCEPT ![p] = "access"]
    /\ Overtake(p, Producers)
    /\ UNCHANGED <<shadow_push_idx, pop_idx, shadow_pop_idx, data, cur, val>>

\* The compare-exchange fails and stores the index it found in current_push_idx.
PushRetry(p) ==
    /\ pc[p] = "claim"
    /\ push_idx # cur[p]
    /\ pc' = [pc EXCEPT ![p] = "check"]
    /\ cur' = [cur EXCEPT ![p] = push_idx]
    /\ lag' = [lag EXCEPT ![p] = 0]
    /\ UNCHANGED <<push_idx, shadow_push_idx, pop_idx, shadow_pop_idx, data, val>>

PushWrite(p) ==
    /\ pc[p] = "access"
    /\ data' = [data EXCEPT ![cur[p]] = val[p]]
    /\ pc' = [pc EXCEPT ![p] = "publish"]
    /\ UNCHANGED <<push_idx, shadow_push_idx, pop_idx, shadow_pop_idx, cur, val, lag>>

\* The second loop spins until the compare-exchange succeeds: a failed attempt
\* restores current_push_idx from stale and changes nothing.
PushPublish(p) ==
    /\ pc[p] = "publish"
    /\ MayPublish(cur[p])
    /\ shadow_push_idx' = After(cur[p])
    /\ Leave(p)
    /\ UNCHANGED <<push_idx, pop_idx, shadow_pop_idx, data>>
-----------------------------------------------------------------------------
(* pop *)

CanPop(i) == i # shadow_push_idx

MayRelease(i) == shadow_pop_idx = i

PopCall(c) ==
    /\ pc[c] = "idle"
    /\ pc' = [pc EXCEPT ![c] = "check"]
    /\ cur' = [cur EXCEPT ![c] = pop_idx]
    /\ UNCHANGED <<push_idx, shadow_push_idx, pop_idx, shadow_pop_idx, data, val, lag>>

PopCheck(c) ==
    /\ pc[c] = "check"
    /\ CanPop(cur[c])
    /\ pc' = [pc EXCEPT ![c] = "claim"]
    /\ UNCHANGED <<push_idx, shadow_push_idx, pop_idx, shadow_pop_idx, data, cur, val, lag>>

\* if (!flag) return std::nullopt;
PopEmpty(c) ==
    /\ pc[c] = "check"
    /\ ~CanPop(cur[c])
    /\ Leave(c)
    /\ UNCHANGED <<push_idx, shadow_push_idx, pop_idx, shadow_pop_idx, data>>

PopClaim(c) ==
    /\ pc[c] = "claim"
    /\ pop_idx = cur[c]
    /\ pop_idx' = After(cur[c])
    /\ pc' = [pc EXCEPT ![c] = "access"]
    /\ Overtake(c, Consumers)
    /\ UNCHANGED <<push_idx, shadow_push_idx, shadow_pop_idx, data, cur, val>>

PopRetry(c) ==
    /\ pc[c] = "claim"
    /\ pop_idx # cur[c]
    /\ pc' = [pc EXCEPT ![c] = "check"]
    /\ cur' = [cur EXCEPT ![c] = pop_idx]
    /\ lag' = [lag EXCEPT ![c] = 0]
    /\ UNCHANGED <<push_idx, shadow_push_idx, pop_idx, shadow_pop_idx, data, val>>

PopRead(c) ==
    /\ pc[c] = "access"
    /\ val' = [val EXCEPT ![c] = data[cur[c]]]
    /\ pc' = [pc EXCEPT ![c] = "publish"]
    /\ UNCHANGED <<push_idx, shadow_push_idx, pop_idx, shadow_pop_idx, data, cur, lag>>

PopRelease(c) ==
    /\ pc[c] = "publish"
    /\ MayRelease(cur[c])
    /\ shadow_pop_idx' = After(cur[c])
    /\ Leave(c)
    /\ UNCHANGED <<push_idx, shadow_push_idx, pop_idx, data>>
-----------------------------------------------------------------------------
ProducerStep(p) ==
    \/ \E v \in Values : PushCall(p, v)
    \/ PushCheck(p) \/ PushRefuse(p) \/ PushClaim(p) \/ PushRetry(p)
    \/ PushWrite(p) \/ PushPublish(p)

ConsumerStep(c) ==
    \/ PopCall(c) \/ PopCheck(c) \/ PopEmpty(c) \/ PopClaim(c) \/ PopRetry(c)
    \/ PopRead(c) \/ PopRelease(c)

Next ==
    \/ \E p \in Producers : ProducerStep(p)
    \/ \E c \in Consumers : ConsumerStep(c)

Spec == Init /\ [][Next]_vars

(***************************************************************************)
(* The scheduling assumption.  No thread is held between loading an index  *)
(* and its compare-exchange for so long that the index makes a whole lap.  *)
(* With one producer and one consumer it always holds: only they move the  *)
(* index they load.                                                        *)
(***************************************************************************)
LapFree == \A t \in Threads : pc[t] \in {"check", "claim"} => lag[t] < QueueCapacity

LapFreeNext == Next /\ LapFree'

LapFreeSpec == Init /\ [][LapFreeNext]_vars

(***************************************************************************)
(* A thread that holds a claimed slot keeps being scheduled (std::thread   *)
(* gives concurrent forward progress).                                     *)
(***************************************************************************)
Fairness ==
    /\ \A p \in Producers : WF_vars(PushWrite(p)) /\ WF_vars(PushPublish(p))
    /\ \A c \in Consumers : WF_vars(PopRead(c)) /\ WF_vars(PopRelease(c))

FairLapFreeSpec == LapFreeSpec /\ Fairness
-----------------------------------------------------------------------------
(***************************************************************************)
(* Type correctness of push and pop's shared state and locals.             *)
(***************************************************************************)
TypeOK ==
    /\ push_idx \in Slots /\ shadow_push_idx \in Slots
    /\ pop_idx \in Slots /\ shadow_pop_idx \in Slots
    /\ data \in [Slots -> Values \cup {NoValue}]
    /\ pc \in [Threads -> {"idle", "check", "claim", "access", "publish"}]
    /\ cur \in [Threads -> Slots]
    /\ val \in [Threads -> Values \cup {NoValue}]
    /\ lag \in [Threads -> 0 .. QueueCapacity]

Claimed(t) == pc[t] \in {"access", "publish"}

(***************************************************************************)
(* No data race on data[]: while a thread writes a slot no other thread    *)
(* writes or reads that slot.                                              *)
(***************************************************************************)
NoDataRace ==
    \A p \in Producers, t \in Threads :
        p # t /\ pc[p] = "access" /\ pc[t] = "access" => cur[p] # cur[t]

(***************************************************************************)
(* "push_idx: the first index can be pushed": the slot push_idx names is   *)
(* in nobody's hands -- neither still being read by a pop nor already      *)
(* claimed by a push.                                                      *)
(***************************************************************************)
PushIdxIsPushable == \A t \in Threads : Claimed(t) => cur[t] # push_idx

(***************************************************************************)
(* The four indices chase each other in one direction and never overtake:  *)
(* released <= claimed by pop <= published <= claimed by push, and push is *)
(* less than one lap ahead of the released slots.                          *)
(***************************************************************************)
IndexOrder ==
    /\ Dist(shadow_pop_idx, pop_idx) <= Dist(shadow_pop_idx, shadow_push_idx)
    /\ Dist(shadow_pop_idx, shadow_push_idx) <= Dist(shadow_pop_idx, push_idx)

(***************************************************************************)
(* A push whose index is still current refuses its element only when the   *)
(* ring is full, and a pop reports empty only when nothing published is    *)
(* left.  A push whose index another one has moved on meanwhile may see a  *)
(* full ring that has room.                                                *)
(***************************************************************************)
RefusalIsJustified ==
    [][/\ \A p \in Producers :
             PushRefuse(p) /\ lag[p] = 0 => Dist(shadow_pop_idx, push_idx) = QueueCapacity - 1
       /\ \A c \in Consumers :
             PopEmpty(c) /\ lag[c] = 0 => Dist(pop_idx, shadow_push_idx) = 0]_vars

(***************************************************************************)
(* Every claimed slot is eventually given up: the in-order publication     *)
(* loops of push and pop do not wait for each other for ever.              *)
(***************************************************************************)
ClaimsComplete == \A t \in Threads : Claimed(t) ~> ~Claimed(t)

(***************************************************************************)
(* The ring implements a FIFO queue of QueueCapacity - 1 elements.  The    *)
(* abstract queue is what the slots between pop_idx and shadow_push_idx    *)
(* hold; a claimed element is in its slot until pop has copied it.         *)
(***************************************************************************)
Contents == [n \in 1 .. Dist(pop_idx, shadow_push_idx) |-> data[(pop_idx + n - 1) % QueueCapacity]]

InHand == [c \in Consumers |->
             IF pc[c] = "access" THEN data[cur[c]]
             ELSE IF pc[c] = "publish" THEN val[c] ELSE NoValue]

Fifo == INSTANCE BoundedFifo WITH Capacity <- QueueCapacity - 1, q <- Contents, taken <- InHand

ImplementsFifo == Fifo!FifoSpec
=============================================================================
