----------------------------- MODULE BoundedFifo -----------------------------
(***************************************************************************)
(* What both queues of the repository promise: a bounded first-in          *)
(* first-out queue.  lockless_queue (lockless_queue.cc) and                *)
(* sleep_bounded_queue (bounded_queue.cc) are shown to implement it.  An   *)
(* element is always in exactly one place: in the queue, or in the hands   *)
(* of the consumer that took it and has not returned from pop yet.         *)
(***************************************************************************)
EXTENDS Naturals, Sequences

CONSTANTS Consumers,   \* the threads that call pop
          Values,      \* the elements
          NoValue,     \* "nothing in hand"
          Capacity     \* how many elements the queue holds at most

VARIABLES q,           \* the elements in the order they will be popped
          taken        \* taken[c]: the element c has removed and not returned yet

fifoVars == <<q, taken>>

FifoInit == q = <<>> /\ taken = [c \in Consumers |-> NoValue]

Enqueue(v) ==
    /\ Len(q) < Capacity
    /\ q' = Append(q, v)
    /\ UNCHANGED taken

Dequeue(c) ==
    /\ taken[c] = NoValue
    /\ q # <<>>
    /\ q' = Tail(q)
    /\ taken' = [taken EXCEPT ![c] = Head(q)]

Return(c) ==
    /\ taken[c] # NoValue
    /\ taken' = [taken EXCEPT ![c] = NoValue]
    /\ UNCHANGED q

FifoNext ==
    \/ \E v \in Values : Enqueue(v)
    \/ \E c \in Consumers : Dequeue(c) \/ Return(c)

FifoSpec == FifoInit /\ [][FifoNext]_fifoVars
=============================================================================
