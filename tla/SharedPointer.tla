---------------------------- MODULE SharedPointer ----------------------------
(***************************************************************************)
(* shared_pointer<T> and weak_pointer<T> of shared_ptr.cc.  Shared         *)
(* pointers count the owners of an object; a weak pointer points to one    *)
(* shared_pointer variable, which keeps the set of weak pointers to reset  *)
(* in its destructor.  A step is one member function.  Following a null    *)
(* metadata pointer, or a pointer between a weak_pointer and a             *)
(* shared_pointer one of which is gone, is undefined behaviour: the run    *)
(* ends there, with undefined set.                                         *)
(*                                                                         *)
(* The object and its metadata live and die together and are one block:    *)
(* every shared_pointer is made from a raw pointer that is not null and    *)
(* that no other one was made from, as in the tests.                       *)
(***************************************************************************)
EXTENDS Naturals, FiniteSets

CONSTANTS Pointers,  \* the shared_pointer variables of the program
          Weaks,     \* its weak_pointer variables
          Blocks,    \* the objects, with their metadata
          Null,      \* nullptr
          NoObject   \* a variable that does not exist now

PointerAssumption ==
    /\ IsFiniteSet(Pointers)
    /\ Null \notin Blocks \cup Pointers
    /\ NoObject \notin Blocks \cup Pointers \cup {Null}

VARIABLES data,          \* data[p]: members data and metadata of p
          weak_ptr_set,  \* weak_ptr_set[p]: the weak pointers p resets when it dies
          shared_ptr,    \* shared_ptr[w]: the member of w
          alive,         \* the blocks not deleted
          refcnt,        \* refcnt[b]: in the metadata
          undefined      \* undefined behaviour has happened

vars == <<data, weak_ptr_set, shared_ptr, alive, refcnt, undefined>>

Init ==
    /\ data = [p \in Pointers |-> NoObject]
    /\ weak_ptr_set = [p \in Pointers |-> {}]
    /\ shared_ptr = [w \in Weaks |-> NoObject]
    /\ alive = {}
    /\ refcnt = [b \in Blocks |-> 0]
    /\ undefined = FALSE

Exists(p) == data[p] # NoObject
WeakExists(w) == shared_ptr[w] # NoObject

Undefined == undefined' = TRUE /\ UNCHANGED <<data, weak_ptr_set, shared_ptr, alive, refcnt>>

\* The counters after b lost an owner and c gained one; Null stands for none.
Recount(b, c) ==
    [d \in Blocks |-> refcnt[d] - (IF d = b THEN 1 ELSE 0) + (IF d = c THEN 1 ELSE 0)]

\* decrease_current_refcnt deletes the block that loses its last owner.
Survivors(b) == IF b # Null /\ refcnt[b] = 1 THEN alive \ {b} ELSE alive
-----------------------------------------------------------------------------
(* shared_pointer *)

Construct(p) ==
    /\ ~Exists(p)
    /\ \E b \in Blocks \ alive :
          /\ data' = [data EXCEPT ![p] = b]
          /\ alive' = alive \cup {b}
          /\ refcnt' = [refcnt EXCEPT ![b] = 1]
    /\ UNCHANGED <<weak_ptr_set, shared_ptr, undefined>>

ConstructEmpty(p) ==
    /\ ~Exists(p)
    /\ data' = [data EXCEPT ![p] = Null]
    /\ UNCHANGED <<weak_ptr_set, shared_ptr, alive, refcnt, undefined>>

\* shared_pointer(const shared_pointer&): metadata->refcnt ++ of an empty rhs is undefined.
CopyOf(p, rhs) ==
    IF data[rhs] = Null THEN Undefined
    ELSE /\ data' = [data EXCEPT ![p] = data[rhs]]
         /\ refcnt' = Recount(Null, data[rhs])
         /\ UNCHANGED <<weak_ptr_set, shared_ptr, alive, undefined>>

Copy(p, rhs) == ~Exists(p) /\ Exists(rhs) /\ CopyOf(p, rhs)

\* operator=(const shared_pointer&): when p is rhs and the only owner, its own
\* members are null by the time they are copied.
Assign(p, rhs) ==
    /\ Exists(p) /\ Exists(rhs)
    /\ IF data[rhs] = Null \/ (p = rhs /\ refcnt[data[p]] = 1) THEN Undefined
       ELSE /\ data' = [data EXCEPT ![p] = data[rhs]]
            /\ refcnt' = Recount(data[p], data[rhs])
            /\ alive' = Survivors(data[p])
            /\ UNCHANGED <<weak_ptr_set, shared_ptr, undefined>>

\* shared_pointer(shared_pointer&&): the weak pointers to rhs stay with rhs.
MovedFrom(p, rhs) == [data EXCEPT ![p] = data[rhs], ![rhs] = Null]

Move(p, rhs) ==
    /\ ~Exists(p) /\ Exists(rhs)
    /\ data' = MovedFrom(p, rhs)
    /\ UNCHANGED <<weak_ptr_set, shared_ptr, alive, refcnt, undefined>>

MoveAssign(p, rhs) ==
    /\ Exists(p) /\ Exists(rhs)
    /\ data' = MovedFrom(p, rhs)
    /\ refcnt' = Recount(data[p], Null)
    /\ alive' = Survivors(data[p])
    /\ UNCHANGED <<weak_ptr_set, shared_ptr, undefined>>

\* The destructor's loop resets every weak pointer subscribed to p. One that was copied
\* over has kept its subscription, and may have died with it.
ResetWeaks(p) == [w \in Weaks |-> IF w \in weak_ptr_set[p] THEN Null ELSE shared_ptr[w]]

Destroy(p) ==
    /\ Exists(p)
    /\ IF \A w \in weak_ptr_set[p] : WeakExists(w)
       THEN /\ data' = [data EXCEPT ![p] = NoObject]
            /\ refcnt' = Recount(data[p], Null)
            /\ alive' = Survivors(data[p])
            /\ shared_ptr' = ResetWeaks(p)
            /\ weak_ptr_set' = [weak_ptr_set EXCEPT ![p] = {}]
            /\ UNCHANGED undefined
       ELSE Undefined
-----------------------------------------------------------------------------
(* weak_pointer *)

\* w points nowhere, or to a shared_pointer variable that exists.
Sound(w) == shared_ptr[w] = Null \/ Exists(shared_ptr[w])

\* weak_ptr_set after w left the pointer it points to and subscribed to p (Null: none).
ResubscribedNowhere(w, p) ==
    [q \in Pointers |-> weak_ptr_set[q] \ {w}]
Resubscribed(w, p) ==
    [q \in Pointers |-> (IF q = shared_ptr[w] THEN weak_ptr_set[q] \ {w} ELSE weak_ptr_set[q])
                            \cup (IF q = p THEN {w} ELSE {})]

WeakConstruct(w, p) ==
    /\ ~WeakExists(w) /\ Exists(p)
    /\ shared_ptr' = [shared_ptr EXCEPT ![w] = p]
    /\ weak_ptr_set' = [weak_ptr_set EXCEPT ![p] = @ \cup {w}]
    /\ UNCHANGED <<data, alive, refcnt, undefined>>

WeakConstructEmpty(w) ==
    /\ ~WeakExists(w)
    /\ shared_ptr' = [shared_ptr EXCEPT ![w] = Null]
    /\ UNCHANGED <<data, weak_ptr_set, alive, refcnt, undefined>>

WeakAssign(w, p) ==
    /\ WeakExists(w) /\ Exists(p)
    /\ IF Sound(w)
       THEN /\ shared_ptr' = [shared_ptr EXCEPT ![w] = p]
            /\ weak_ptr_set' = Resubscribed(w, p)
            /\ UNCHANGED <<data, alive, refcnt, undefined>>
       ELSE Undefined

\* The implicit copy constructor and copy assignment of weak_pointer subscribe nowhere.
WeakCopy(w, rhs) ==
    /\ w # rhs /\ WeakExists(rhs)
    /\ shared_ptr' = [shared_ptr EXCEPT ![w] = shared_ptr[rhs]]
    /\ UNCHANGED <<data, weak_ptr_set, alive, refcnt, undefined>>

WeakDestroy(w) ==
    /\ WeakExists(w)
    /\ IF Sound(w)
       THEN /\ shared_ptr' = [shared_ptr EXCEPT ![w] = NoObject]
            /\ weak_ptr_set' = Resubscribed(w, Null)
            /\ UNCHANGED <<data, alive, refcnt, undefined>>
       ELSE Undefined

\* lock() initializes p: from a copy of the pointer w points to, or empty.
Lock(w, p) ==
    /\ WeakExists(w) /\ ~Exists(p)
    /\ IF shared_ptr[w] = Null
       THEN /\ data' = [data EXCEPT ![p] = Null]
            /\ UNCHANGED <<weak_ptr_set, shared_ptr, alive, refcnt, undefined>>
       ELSE IF Exists(shared_ptr[w]) THEN CopyOf(p, shared_ptr[w]) ELSE Undefined
-----------------------------------------------------------------------------
\* Steps of programs that copy from pointers that own, never assign a pointer to
\* itself, copy no weak pointer, and lock no weak pointer to an empty pointer.
Owns(p) == data[p] \in Blocks

CarefulStep ==
    \/ \E p \in Pointers : Construct(p) \/ ConstructEmpty(p) \/ Destroy(p)
    \/ \E p, rhs \in Pointers :
          \/ Owns(rhs) /\ (Copy(p, rhs) \/ (p # rhs /\ Assign(p, rhs)))
          \/ Move(p, rhs) \/ MoveAssign(p, rhs)
    \/ \E w \in Weaks : WeakConstructEmpty(w) \/ WeakDestroy(w)
    \/ \E w \in Weaks, p \in Pointers :
          \/ WeakConstruct(w, p) \/ WeakAssign(w, p)
          \/ shared_ptr[w] \notin {q \in Pointers : ~Owns(q)} /\ Lock(w, p)

AnyStep ==
    \/ CarefulStep
    \/ \E p, rhs \in Pointers : Copy(p, rhs) \/ Assign(p, rhs)
    \/ \E w \in Weaks, p \in Pointers : Lock(w, p)
    \/ \E w, rhs \in Weaks : WeakCopy(w, rhs)

CarefulNext == ~undefined /\ CarefulStep
SelfAssignNext == ~undefined /\ (CarefulStep \/ \E p \in Pointers : Owns(p) /\ Assign(p, p))
Next == ~undefined /\ AnyStep

SelfAssignSpec == Init /\ [][SelfAssignNext]_vars
Spec == Init /\ [][Next]_vars
-----------------------------------------------------------------------------
(***************************************************************************)
(* Type correctness, for all programs.                                     *)
(***************************************************************************)
TypeOK ==
    /\ data \in [Pointers -> Blocks \cup {Null, NoObject}]
    /\ weak_ptr_set \in [Pointers -> SUBSET Weaks]
    /\ shared_ptr \in [Weaks -> Pointers \cup {Null, NoObject}]
    /\ alive \subseteq Blocks
    /\ refcnt \in [Blocks -> 0 .. Cardinality(Pointers)]
    /\ undefined \in BOOLEAN

Owners(b) == {p \in Pointers : data[p] = b}

(***************************************************************************)
(* refcnt is the number of shared pointers to the object, which is deleted *)
(* when, and only when, the last one lets it go. This holds whatever a     *)
(* program does until the step that is undefined.                          *)
(***************************************************************************)
RefcntCountsOwners ==
    \A b \in Blocks : refcnt[b] = Cardinality(Owners(b)) /\ (b \in alive <=> refcnt[b] > 0)

(***************************************************************************)
(* A weak pointer and the shared pointer it points to know each other, so  *)
(* no weak pointer outlives its shared pointer without being reset.        *)
(***************************************************************************)
SubscriptionsAgree ==
    \A w \in Weaks, p \in Pointers : shared_ptr[w] = p <=> Exists(p) /\ w \in weak_ptr_set[p]

(***************************************************************************)
(* A careful program has no undefined behaviour.  The comment on           *)
(* shared_pointer (shared_ptr.cc:17-24) says of every copy assignment what *)
(* it does, and the test of weak_pointer (201-209) that lock() is empty    *)
(* when there is nothing to get.                                           *)
(***************************************************************************)
WellDefined == ~undefined
=============================================================================
