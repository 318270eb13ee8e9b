----------------------------- MODULE UniquePointer -----------------------------
(***************************************************************************)
(* unique_pointer<T> of unique_ptr.cc: a pointer that is moved and never   *)
(* copied.  It has no destructor, and its move assignment lets go of what  *)
(* it had: nothing is ever deleted.                                        *)
(***************************************************************************)
CONSTANTS Pointers,  \* the unique_pointer variables of the program
          Blocks,    \* addresses of objects
          Null,      \* nullptr
          NoObject   \* a variable that does not exist now

VARIABLES data,      \* data[p]: member data of p
          alive      \* the objects allocated

vars == <<data, alive>>

Init == data = [p \in Pointers |-> NoObject] /\ alive = {}

Exists(p) == data[p] # NoObject

Construct(p) ==
    /\ ~Exists(p)
    /\ \E b \in Blocks \ alive : data' = [data EXCEPT ![p] = b] /\ alive' = alive \cup {b}

Moved(p, rhs) == [data EXCEPT ![p] = data[rhs], ![rhs] = Null]

Move(p, rhs) == ~Exists(p) /\ Exists(rhs) /\ data' = Moved(p, rhs) /\ UNCHANGED alive

MoveAssign(p, rhs) ==
    /\ Exists(p) /\ Exists(rhs) /\ p # rhs
    /\ data' = Moved(p, rhs)
    /\ UNCHANGED alive

Leave(p) == Exists(p) /\ data' = [data EXCEPT ![p] = NoObject] /\ UNCHANGED alive

Next ==
    \/ \E p \in Pointers : Construct(p) \/ Leave(p)
    \/ \E p, rhs \in Pointers : Move(p, rhs) \/ MoveAssign(p, rhs)

Spec == Init /\ [][Next]_vars
-----------------------------------------------------------------------------
(***************************************************************************)
(* The members refer to objects.                                           *)
(***************************************************************************)
TypeOK == data \in [Pointers -> Blocks \cup {Null, NoObject}] /\ alive \subseteq Blocks

(***************************************************************************)
(* No two pointers have one object.                                        *)
(***************************************************************************)
OwnedOnce == \A p, q \in Pointers : data[p] = data[q] /\ data[p] \in Blocks => p = q
=============================================================================
