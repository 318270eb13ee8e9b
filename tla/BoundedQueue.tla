----------------------------- MODULE BoundedQueue -----------------------------
(***************************************************************************)
(* sleep_bounded_queue<T, Capacity> of bounded_queue.cc: a deque behind    *)
(* one mutex and two condition variables.  push sleeps on producer_cond    *)
(* while the deque is full and wakes one sleeper of consumer_cond; pop the *)
(* other way round.  A thread sleeping on its condition variable is a      *)
(* thread whose pc is "wait"; cond.wait(lk, pred) is the loop of steps     *)
(* check -> wait -> lock -> check, a sleeper may also wake for no reason.  *)
(* The threads of bounded_queue_routine call push and pop for ever.        *)
(***************************************************************************)
EXTENDS Naturals, Sequences, FiniteSets

CONSTANTS Producers, Consumers,  \* the threads of bounded_queue_routine
          Capacity,              \* template argument
          Values, NoValue,       \* the elements, and none
          NoThread               \* owner of the free mutex

ASSUME BoundedQueueAssumption ==
    /\ Capacity \in Nat
    /\ IsFiniteSet(Producers) /\ IsFiniteSet(Consumers)
    /\ Producers \cap Consumers = {}
    /\ NoThread \notin Producers \cup Consumers
    /\ NoValue \notin Values

VARIABLES queue,  \* the deque, front first
          mtx,    \* the thread that holds mtx
          pc,     \* where each thread is in push or pop
          val     \* push's argument data / pop's local ans

vars == <<queue, mtx, pc, val>>

Threads == Producers \cup Consumers

Init ==
    /\ queue = <<>>
    /\ mtx = NoThread
    /\ pc = [t \in Threads |-> "idle"]
    /\ val = [t \in Threads |-> NoValue]

\* The threads of a group asleep on that group's condition variable.
Asleep(group) == {t \in group : pc[t] = "wait"}

\* cond.notify_one() by t: one sleeper of the group, if there is one, goes on to
\* take the mutex again; a notification nobody waits for is lost.
NotifyOne(t, group) ==
    \/ /\ Asleep(group) = {}
       /\ pc' = [pc EXCEPT ![t] = "unlock"]
    \/ \E s \in Asleep(group) : pc' = [pc EXCEPT ![t] = "unlock", ![s] = "lock"]

\* std::unique_lock(mtx), and the lock cond.wait takes back before it returns.
Lock(t) ==
    /\ pc[t] = "lock"
    /\ mtx = NoThread
    /\ mtx' = t
    /\ pc' = [pc EXCEPT ![t] = "check"]
    /\ UNCHANGED <<queue, val>>

\* The predicate is false: release the mutex and fall asleep, in one step.
Wait(t) ==
    /\ pc[t] = "check"
    /\ mtx' = NoThread
    /\ pc' = [pc EXCEPT ![t] = "wait"]
    /\ UNCHANGED <<queue, val>>

WakeSpuriously(t) ==
    /\ pc[t] = "wait"
    /\ pc' = [pc EXCEPT ![t] = "lock"]
    /\ UNCHANGED <<queue, mtx, val>>

\* The end of push or pop: lk's destructor unlocks.
Unlock(t) ==
    /\ pc[t] = "unlock"
    /\ mtx' = NoThread
    /\ pc' = [pc EXCEPT ![t] = "idle"]
    /\ val' = [val EXCEPT ![t] = NoValue]
    /\ UNCHANGED queue
-----------------------------------------------------------------------------
HasRoomLate == Len(queue) <= Capacity
HasRoom == Len(queue) < Capacity

PushCall(p, v) ==
    /\ pc[p] = "idle"
    /\ pc' = [pc EXCEPT ![p] = "lock"]
    /\ val' = [val EXCEPT ![p] = v]
    /\ UNCHANGED <<queue, mtx>>

PushWait(p) == ~HasRoom /\ Wait(p)

PushBack(p) ==
    /\ pc[p] = "check"
    /\ HasRoom
    /\ queue' = Append(queue, val[p])
    /\ pc' = [pc EXCEPT ![p] = "notify"]
    /\ UNCHANGED <<mtx, val>>

PushNotifyNobody(p) ==
    /\ pc[p] = "notify"
    /\ pc' = [pc EXCEPT ![p] = "unlock"]
    /\ UNCHANGED <<queue, mtx, val>>
PushNotify(p) ==
    /\ pc[p] = "notify"
    /\ NotifyOne(p, Consumers)
    /\ UNCHANGED <<queue, mtx, val>>
-----------------------------------------------------------------------------
HasElement == queue # <<>>

PopCall(c) ==
    /\ pc[c] = "idle"
    /\ pc' = [pc EXCEPT ![c] = "lock"]
    /\ UNCHANGED <<queue, mtx, val>>

PopWait(c) == ~HasElement /\ Wait(c)

PopBack(c) ==
    /\ pc[c] = "check"
    /\ HasElement
    /\ val' = [val EXCEPT ![c] = queue[Len(queue)]]
    /\ queue' = SubSeq(queue, 1, Len(queue) - 1)
    /\ pc' = [pc EXCEPT ![c] = "notify"]
    /\ UNCHANGED mtx
PopFront(c) ==
    /\ pc[c] = "check"
    /\ HasElement
    /\ val' = [val EXCEPT ![c] = Head(queue)]
    /\ queue' = Tail(queue)
    /\ pc' = [pc EXCEPT ![c] = "notify"]
    /\ UNCHANGED mtx

PopNotifyConsumer(c) ==
    /\ pc[c] = "notify"
    /\ NotifyOne(c, Consumers)
    /\ UNCHANGED <<queue, mtx, val>>
PopNotify(c) ==
    /\ pc[c] = "notify"
    /\ NotifyOne(c, Producers)
    /\ UNCHANGED <<queue, mtx, val>>
-----------------------------------------------------------------------------
CallStep(t) == (t \in Producers /\ \E v \in Values : PushCall(t, v)) \/ (t \in Consumers /\ PopCall(t))

ProducerBody(p) == PushWait(p) \/ PushBack(p) \/ PushNotify(p) \/ Unlock(p)
ConsumerBody(c) == PopWait(c) \/ PopFront(c) \/ PopNotify(c) \/ Unlock(c)

\* What a thread does while it holds the mutex.
BodyStep(t) == (t \in Producers /\ ProducerBody(t)) \/ (t \in Consumers /\ ConsumerBody(t))

Next == \E t \in Threads : CallStep(t) \/ Lock(t) \/ BodyStep(t) \/ WakeSpuriously(t)

Spec == Init /\ [][Next]_vars

(***************************************************************************)
(* Every thread keeps running what it runs alone (its calls, and its steps *)
(* inside the critical section); somebody gets the free mutex, but no one  *)
(* in particular (std::mutex is not fair); and spurious wakeups, which are *)
(* rare, at last stop.                                                     *)
(***************************************************************************)
Fairness ==
    /\ \A t \in Threads : WF_vars(CallStep(t)) /\ WF_vars(BodyStep(t))
    /\ WF_vars(\E t \in Threads : Lock(t))
    /\ <>[][~ \E t \in Threads : WakeSpuriously(t)]_vars

FairSpec == Spec /\ Fairness
-----------------------------------------------------------------------------
(***************************************************************************)
(* Type correctness; the deque never outgrows Capacity, the mutex is held  *)
(* by exactly the thread that is inside the critical section, and a thread *)
(* has an element in hand exactly while push has its argument or pop its   *)
(* result.                                                                 *)
(***************************************************************************)
TypeOK ==
    /\ queue \in Seq(Values) /\ Len(queue) <= Capacity
    /\ pc \in [Threads -> {"idle", "lock", "check", "wait", "notify", "unlock"}]
    /\ val \in [Threads -> Values \cup {NoValue}]
    /\ mtx \in Threads \cup {NoThread}
    /\ \A t \in Threads : mtx = t <=> pc[t] \in {"check", "notify", "unlock"}
    /\ \A p \in Producers : val[p] # NoValue <=> pc[p] # "idle"
    /\ \A c \in Consumers : val[c] # NoValue <=> pc[c] \in {"notify", "unlock"}

\* The threads of a group that are awake and will look at the queue again.
Attending(group) == {t \in group : pc[t] \in {"lock", "check"}}

\* The threads of a group that are about to call notify_one.
Notifying(group) == {t \in group : pc[t] = "notify"}

\* While a group sleeps, every piece of work it waits for is already matched by a
\* thread of the group that is awake or by one of the others about to wake one.
SleepersCovered(group, others, work) ==
    Asleep(group) # {} => work <= Cardinality(Attending(group)) + Cardinality(Notifying(others))

(***************************************************************************)
(* No wakeup is lost: no free place is left to sleeping producers, no      *)
(* element to sleeping consumers.                                          *)
(***************************************************************************)
NoSleeperForgotten ==
    /\ SleepersCovered(Producers, Consumers, Capacity - Len(queue))
    /\ SleepersCovered(Consumers, Producers, Len(queue))

(***************************************************************************)
(* The threads are never all asleep, each waiting for another's notify.    *)
(***************************************************************************)
SomebodyAwake == \E t \in Threads : pc[t] # "wait"

(***************************************************************************)
(* Elements keep going in and coming out, whoever wins the mutex.          *)
(***************************************************************************)
KeepsMoving == []<>(Notifying(Producers) # {}) /\ []<>(Notifying(Consumers) # {})

(***************************************************************************)
(* The queue implements the bounded FIFO queue of BoundedFifo.             *)
(***************************************************************************)
InHand == [c \in Consumers |-> val[c]]

Fifo == INSTANCE BoundedFifo WITH q <- queue, taken <- InHand

ImplementsFifo == Fifo!FifoSpec
=============================================================================
