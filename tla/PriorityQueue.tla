----------------------------- MODULE PriorityQueue -----------------------------
(***************************************************************************)
(* What a priority queue of bounded size promises: what is put in comes    *)
(* out, smallest first, equal elements in any order.                       *)
(***************************************************************************)
EXTENDS Naturals, Bags

CONSTANTS Values,    \* the elements: numbers
          Capacity   \* how many the queue holds

VARIABLE queue       \* a bag

Init == queue = EmptyBag

\* An empty queue is replaced by one built from other elements.
Fill == queue = EmptyBag /\ BagToSet(queue') \subseteq Values /\ BagCardinality(queue') <= Capacity

Insert(v) ==
    /\ BagCardinality(queue) < Capacity
    /\ queue' = queue (+) SetToBag({v})

DeleteMin ==
    \E v \in BagToSet(queue) :
        /\ \A w \in BagToSet(queue) : v <= w
        /\ queue' = queue (-) SetToBag({v})

Next == Fill \/ (\E v \in Values : Insert(v)) \/ DeleteMin

Spec == Init /\ [][Next]_queue
=============================================================================
