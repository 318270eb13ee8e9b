---------------------------------- MODULE Vec ----------------------------------
(***************************************************************************)
(* vec<T, N> of vec.cc: the first N elements are stored in the object, and *)
(* with one more all of them move to an array on the heap, which doubles   *)
(* when it is full.  The program does not hand emplace_back a reference to *)
(* an element while the heap array is full (grow deletes it first), nor    *)
(* copies the object (the copies would share the array).                   *)
(***************************************************************************)
EXTENDS Naturals, Sequences

CONSTANTS Elements,
          N,         \* template argument
          MaxSize,   \* bound on the elements of a run
          Null       \* nullptr, and the contents of a cell nobody has written

VecAssumption == N \in Nat \ {0} /\ MaxSize \in Nat /\ Null \notin Elements

VARIABLES stack_vec, heap_vec, vec_size, vec_capacity

vars == <<stack_vec, heap_vec, vec_size, vec_capacity>>

Init ==
    /\ stack_vec = [i \in 1 .. N |-> Null]
    /\ heap_vec = <<>>
    /\ vec_size = 0 /\ vec_capacity = N

\* Where operator[] finds the elements.
Storage == IF vec_size <= N THEN stack_vec ELSE heap_vec

\* grow() copies from where the elements are to a heap array of twice the capacity.
GrownFromHeap ==
    [i \in 1 .. 2 * vec_capacity |-> IF i <= Len(heap_vec) THEN heap_vec[i] ELSE Null]
Grown ==
    [i \in 1 .. 2 * vec_capacity |->
        IF i > vec_size THEN Null ELSE IF vec_size = N THEN stack_vec[i] ELSE heap_vec[i]]

EmplaceOnStack(e) ==
    /\ vec_size < N
    /\ stack_vec' = [stack_vec EXCEPT ![vec_size + 1] = e]
    /\ vec_size' = vec_size + 1
    /\ UNCHANGED <<heap_vec, vec_capacity>>

EmplaceOnHeap(e) ==
    /\ vec_size \in N .. MaxSize - 1
    /\ LET full == vec_size = vec_capacity IN
       /\ vec_capacity' = IF full THEN 2 * vec_capacity ELSE vec_capacity
       /\ heap_vec' = [(IF full THEN Grown ELSE heap_vec) EXCEPT ![vec_size + 1] = e]
    /\ vec_size' = vec_size + 1
    /\ UNCHANGED stack_vec

\* operator[](i) = e
Set(i, e) ==
    /\ i \in 1 .. vec_size
    /\ IF vec_size <= N THEN stack_vec' = [stack_vec EXCEPT ![i] = e] /\ UNCHANGED heap_vec
                        ELSE heap_vec' = [heap_vec EXCEPT ![i] = e] /\ UNCHANGED stack_vec
    /\ UNCHANGED <<vec_size, vec_capacity>>

Next ==
    \E e \in Elements :
        EmplaceOnStack(e) \/ EmplaceOnHeap(e) \/ \E i \in 1 .. MaxSize : Set(i, e)

Spec == Init /\ [][Next]_vars
-----------------------------------------------------------------------------
(***************************************************************************)
(* The array on the heap is as long as vec_capacity says.                  *)
(***************************************************************************)
TypeOK ==
    /\ stack_vec \in [1 .. N -> Elements \cup {Null}]
    /\ heap_vec = <<>> \/ heap_vec \in [1 .. vec_capacity -> Elements \cup {Null}]
    /\ vec_size \in 0 .. vec_capacity

(***************************************************************************)
(* Over the moves from the object to the heap and from array to array the  *)
(* elements are a sequence that grows at its end.                          *)
(***************************************************************************)
Promise == INSTANCE Deque WITH list <- SubSeq(Storage, 1, vec_size)

ImplementsDeque == Promise!Spec
=============================================================================
