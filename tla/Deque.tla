--------------------------------- MODULE Deque ---------------------------------
(***************************************************************************)
(* What a sequence open at both ends promises.                             *)
(***************************************************************************)
EXTENDS Naturals, Sequences

CONSTANT Elements

VARIABLE list

Init == list = <<>>

PushBack == \E e \in Elements : list' = Append(list, e)
PushFront == \E e \in Elements : list' = <<e>> \o list
PopBack == list # <<>> /\ list' = SubSeq(list, 1, Len(list) - 1)
PopFront == list # <<>> /\ list' = Tail(list)

\* One element is given another value.
Set == \E i \in DOMAIN list, e \in Elements : list' = [list EXCEPT ![i] = e]

\* The sequence is destroyed.
Discard == list' = <<>>

Next == PushBack \/ PushFront \/ PopBack \/ PopFront \/ Set \/ Discard

Spec == Init /\ [][Next]_list
=============================================================================
