-------------------------------- MODULE MiniSort --------------------------------
(***************************************************************************)
(* ministl_sort of iterator.cc on an Array of N elements, whose iterators  *)
(* are indices: a quicksort around the first element of each range.  A     *)
(* step is the start of a call, one round of its loop, or the two          *)
(* recursive calls it ends with; pending are the calls not finished.       *)
(***************************************************************************)
EXTENDS Integers, Sequences, SequencesExt

CONSTANTS Values,
          N          \* template argument

SortAssumption == Values \subseteq Int /\ Values # {} /\ N \in Nat \ {0}

VARIABLES input,     \* what the array held when main called ministl_sort
          arr,       \* data
          pending,   \* pending[1]: begin and end of the running call
          left, right, pivot  \* its locals, while it is in the loop

vars == <<input, arr, pending, left, right, pivot>>

Idle == left = N /\ right = -1

Init ==
    /\ input \in [0 .. N - 1 -> Values]
    /\ arr = input
    /\ pending = <<<<0, N>>>>
    /\ left = N /\ right = -1 /\ pivot = CHOOSE v \in Values : TRUE

begin == pending[1][1]
end == pending[1][2]

Return ==
    /\ Idle /\ pending # <<>> /\ begin >= end - 1
    /\ pending' = Tail(pending)
    /\ UNCHANGED <<input, arr, left, right, pivot>>

Pivot == arr[begin]

Start ==
    /\ Idle /\ pending # <<>> /\ begin < end - 1
    /\ left' = begin - 1 /\ right' = end
    /\ pivot' = Pivot
    /\ UNCHANGED <<input, arr, pending>>

\* Where the two do-while loops stop; N and -1 are beyond the array.
NextLeft == CHOOSE l \in left + 1 .. N :
               /\ l = N \/ arr[l] >= pivot
               /\ \A k \in left + 1 .. l - 1 : arr[k] < pivot
NextRight == CHOOSE r \in -1 .. right - 1 :
               /\ r = -1 \/ arr[r] <= pivot
               /\ \A k \in r + 1 .. right - 1 : arr[k] > pivot

Round ==
    /\ ~Idle /\ left < right
    /\ left' = NextLeft /\ right' = NextRight
    /\ arr' = IF left' < right' THEN [arr EXCEPT ![left'] = arr[right'], ![right'] = arr[left']]
                                ELSE arr
    /\ UNCHANGED <<input, pending, pivot>>

Recurse ==
    /\ ~Idle /\ left >= right
    /\ pending' = <<<<begin, right + 1>>, <<right + 1, end>>>> \o Tail(pending)
    /\ left' = N /\ right' = -1
    /\ UNCHANGED <<input, arr, pivot>>

Next == Return \/ Start \/ Round \/ Recurse

Spec == Init /\ [][Next]_vars
-----------------------------------------------------------------------------
(***************************************************************************)
(* The iterators stay within one step of the array.                        *)
(***************************************************************************)
TypeOK ==
    /\ arr \in [0 .. N - 1 -> Values] /\ input \in [0 .. N - 1 -> Values] /\ pivot \in Values
    /\ \A r \in ToSet(pending) : r \in (0 .. N) \X (0 .. N)
    /\ left \in -1 .. N /\ right \in -1 .. N

Unfinished(i, j) == \E r \in ToSet(pending) : i >= r[1] /\ j < r[2]

(***************************************************************************)
(* The scans stay inside the range of their call, each call is for a       *)
(* nonempty part of the range of its caller, elements are only exchanged,  *)
(* and every two that no unfinished call holds together are in order: once *)
(* no call is left, the array is sorted.                                   *)
(***************************************************************************)
SortedAround ==
    /\ Idle \/ (left \in begin - 1 .. end - 1 /\ right \in begin .. end)
    /\ \A r \in ToSet(pending) : r[1] < r[2]
    /\ \A v \in Values : Cardinality({i \in DOMAIN arr : arr[i] = v})
                            = Cardinality({i \in DOMAIN input : input[i] = v})
    /\ \A i, j \in DOMAIN arr : i < j /\ ~Unfinished(i, j) => arr[i] <= arr[j]
=============================================================================
