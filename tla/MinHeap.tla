-------------------------------- MODULE MinHeap --------------------------------
(***************************************************************************)
(* MinHeap<T, MaxHeapSize> of heap.cc: a binary heap in an array whose     *)
(* first cell is unused.  data is the part of the array in use, so that    *)
(* last is its length; cells beyond last are never read before they are    *)
(* written.  T is int, as the local copies of elements in down() demand.   *)
(***************************************************************************)
EXTENDS Naturals, Sequences, SequencesExt

CONSTANTS Values,      \* the elements
          MaxHeapSize  \* template argument

HeapAssumption == Values \subseteq Nat /\ MaxHeapSize \in Nat \ {0, 1}

VARIABLE data

Swapped(s, i, j) == [s EXCEPT ![i] = s[j], ![j] = s[i]]

\* The position of the least of s[root] and its children, the first of equal ones.
MinPos(s, root) ==
    LET family == {root, root * 2, root * 2 + 1} \cap DOMAIN s IN
    CHOOSE i \in family : \A j \in family \ {i} : s[i] < s[j] \/ (s[i] = s[j] /\ i < j)

\* down(root): sinks s[root] to its place.  Once there, further rounds change nothing.
Sunk(h) == [root |-> MinPos(h.s, h.root), s |-> Swapped(h.s, h.root, MinPos(h.s, h.root))]

Down(s, root) ==
    LET Sink[round \in 0 .. Len(s)] ==
            IF round = 0 THEN [root |-> root, s |-> s] ELSE Sunk(Sink[round - 1])
    IN  IF root \in DOMAIN s THEN Sink[Len(s)].s ELSE s

\* up(root): likewise towards the root.
Risen(h) ==
    IF h.root > 1 /\ h.s[h.root \div 2] > h.s[h.root]
    THEN [root |-> h.root \div 2, s |-> Swapped(h.s, h.root \div 2, h.root)]
    ELSE h

Up(s, root) ==
    LET Rise[round \in 0 .. Len(s)] ==
            IF round = 0 THEN [root |-> root, s |-> s] ELSE Risen(Rise[round - 1])
    IN  Rise[Len(s)].s

build_heap(s) ==
    LET half == Len(s) \div 2
        Built[i \in 0 .. half] == IF i = 0 THEN s ELSE Down(Built[i - 1], half - i + 1)
    IN  Built[half]

Init == data = <<>>

\* MinHeap(nums) replaces an empty heap.  It copies nums[1] to nums[n]: nums[0] is left
\* out, and past the end it finds any value.  With n = MaxHeapSize, which the code lets
\* through, it would also write past the array; the model has shorter nums.
Construct(nums, beyond) ==
    /\ data = <<>> /\ nums # <<>>
    /\ data' = build_heap(Append(Tail(nums), beyond))

full == Len(data) >= MaxHeapSize - 1

push(val) == ~full /\ data' = Up(Append(data, val), Len(data) + 1)

pop ==
    /\ data # <<>>
    /\ data' = Down(Front(Swapped(data, 1, Len(data))), 1)

Next ==
    \/ \E nums \in BoundedSeq(Values, MaxHeapSize - 1), beyond \in Values : Construct(nums, beyond)
    \/ \E val \in Values : push(val)
    \/ pop

Spec == Init /\ [][Next]_data
-----------------------------------------------------------------------------
(***************************************************************************)
(* The heap has room for what is in it, and the array one more cell.       *)
(***************************************************************************)
TypeOK == data \in Seq(Values) /\ Len(data) < MaxHeapSize

(***************************************************************************)
(* No element is smaller than its father, so that top() is the smallest.   *)
(***************************************************************************)
HeapOrdered == \A i \in 2 .. Len(data) : data[i \div 2] <= data[i]

(***************************************************************************)
(* build_heap only moves elements.                                         *)
(***************************************************************************)
BuildOnlyMoves ==
    data = <<>> => \A nums \in BoundedSeq(Values, MaxHeapSize - 1) : ToBag(build_heap(nums)) = ToBag(nums)

(***************************************************************************)
(* The heap is a priority queue: push adds its element and loses none, and *)
(* pop removes a smallest one.                                             *)
(***************************************************************************)
Promise == INSTANCE PriorityQueue WITH queue <- ToBag(data), Capacity <- MaxHeapSize - 1

ImplementsPriorityQueue == Promise!Spec
=============================================================================
