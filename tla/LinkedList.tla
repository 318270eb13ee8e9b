------------------------------ MODULE LinkedList ------------------------------
(***************************************************************************)
(* linked_list<T> of linked_list.cc: a ring of nodes around the sentinel   *)
(* head.  next is a shared_ptr, which keeps its node alive, and prev a     *)
(* weak_ptr, which does not.  A step is one member function; the           *)
(* exception of a pop from the empty list changes nothing.                 *)
(***************************************************************************)
EXTENDS Naturals, Sequences, FiniteSets

CONSTANTS Nodes,    \* addresses of nodes
          Elements, \* T
          Null      \* nullptr

LinkedListAssumption == Nodes # {} /\ Null \notin Nodes

VARIABLES head, live, elem, next, prev
    \* live: the nodes that exist; elem[n], next[n] and prev[n]: the members of node n

vars == <<head, live, elem, next, prev>>

\* linked_list(): the sentinel is a node whose data nobody reads.
Init ==
    /\ head = CHOOSE n \in Nodes : TRUE
    /\ live = {head}
    /\ elem = [n \in Nodes |-> Null]
    /\ next = [n \in Nodes |-> IF n = head THEN head ELSE Null]
    /\ prev = next

\* weak_ptr::lock()
Lock(w) == IF w \in live THEN w ELSE Null

empty == Lock(prev[head]) = head

\* The members change, and the nodes that neither head nor a next refers to any more
\* are gone when the function has returned.
Relink(elems, nexts, prevs, nodes) ==
    LET owned == {n \in nodes : n = head' \/ \E m \in nodes : nexts[m] = n}
        Kept(f) == [n \in Nodes |-> IF n \in owned THEN f[n] ELSE Null]
    IN  live' = owned /\ elem' = Kept(elems) /\ next' = Kept(nexts) /\ prev' = Kept(prevs)

NewNode(n, e) == n \notin live /\ e \in Elements

push_back(n, e) ==
    LET tail == Lock(prev[head]) IN
    /\ head # Null /\ NewNode(n, e)
    /\ head' = head
    /\ Relink([elem EXCEPT ![n] = e],
              [next EXCEPT ![tail] = n, ![n] = head],
              [prev EXCEPT ![n] = tail, ![head] = n], live \cup {n})

pop_back ==
    LET second_tail == Lock(prev[Lock(prev[head])]) IN
    /\ head # Null /\ ~empty
    /\ head' = head
    /\ Relink(elem, [next EXCEPT ![second_tail] = head], [prev EXCEPT ![head] = second_tail], live)

FrontLinkedForward(n) == [prev EXCEPT ![n] = head]
FrontLinked(n) == [prev EXCEPT ![n] = head, ![next[head]] = n]

push_front(n, e) ==
    /\ head # Null /\ NewNode(n, e)
    /\ head' = head
    /\ Relink([elem EXCEPT ![n] = e],
              [next EXCEPT ![head] = n, ![n] = next[head]],
              FrontLinked(n), live \cup {n})

pop_front ==
    LET third_head == next[next[head]] IN
    /\ head # Null /\ ~empty
    /\ head' = head
    /\ Relink(elem, [next EXCEPT ![head] = third_head], [prev EXCEPT ![third_head] = head], live)

\* ~linked_list() lets go of head only: the ring of next keeps every node alive.
Destroy ==
    /\ head # Null /\ head' = Null
    /\ Relink(elem, next, prev, live)

Next ==
    \/ \E n \in Nodes, e \in Elements : push_back(n, e) \/ push_front(n, e)
    \/ pop_back \/ pop_front \/ Destroy

Spec == Init /\ [][Next]_vars
-----------------------------------------------------------------------------
(***************************************************************************)
(* The members refer to nodes or to nothing.                               *)
(***************************************************************************)
TypeOK ==
    /\ head \in Nodes \cup {Null} /\ live \subseteq Nodes
    /\ elem \in [Nodes -> Elements \cup {Null}]
    /\ next \in [Nodes -> Nodes \cup {Null}] /\ prev \in [Nodes -> Nodes \cup {Null}]

\* The node k steps along next from the sentinel, and what the list holds.
Walk[k \in 0 .. Cardinality(live) - 1] == IF k = 0 THEN head ELSE next[Walk[k - 1]]
content == IF head = Null THEN <<>> ELSE [k \in 1 .. Cardinality(live) - 1 |-> elem[Walk[k]]]

(***************************************************************************)
(* next and prev are the two directions of one ring through the sentinel,  *)
(* and the nodes that exist are those of the ring: no prev refers to a     *)
(* node that is gone, and no popped node stays behind.                     *)
(***************************************************************************)
RingsAgree ==
    head # Null =>
        /\ \A n \in live : next[n] \in live /\ prev[next[n]] = n
        /\ live = {Walk[k] : k \in 0 .. Cardinality(live) - 1}

(***************************************************************************)
(* The list is a sequence open at both ends.                               *)
(***************************************************************************)
Promise == INSTANCE Deque WITH list <- content

ImplementsDeque == Promise!Spec
=============================================================================
