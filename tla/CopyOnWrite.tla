----------------------------- MODULE CopyOnWrite -----------------------------
(***************************************************************************)
(* COW of cow.cc: objects that share a reference-counted Data until one of *)
(* them is about to change it.  A step is one member function.  Following  *)
(* a null or deleted Data pointer is undefined behaviour: the run ends     *)
(* there, with undefined set.                                              *)
(***************************************************************************)
EXTENDS Naturals, FiniteSets

CONSTANTS Objects,   \* the COW objects (variables) of the program
          Blocks,    \* the addresses of Data
          Contents,  \* what vec can hold
          Null,      \* nullptr
          NoObject   \* an object that does not exist now

CowAssumption ==
    /\ IsFiniteSet(Objects)
    /\ Null \notin Blocks /\ NoObject \notin Blocks \cup {Null}

VARIABLES data,    \* data[o]: member data of o, NoObject outside its lifetime
          alive,   \* the Data that exist
          refcnt,  \* refcnt[b] and vec[b]: the members of the Data at b
          vec,
          undefined  \* a pointer to no Data has been followed

vars == <<data, alive, refcnt, vec, undefined>>

Init ==
    /\ data = [o \in Objects |-> NoObject]
    /\ alive = {}
    /\ refcnt = [b \in Blocks |-> 0]
    /\ vec = [b \in Blocks |-> CHOOSE c \in Contents : TRUE]
    /\ undefined = FALSE

Exists(o) == data[o] # NoObject

\* The effect of a function that follows these pointers to Data, or the end of the run.
Following(pointers, effect) ==
    IF pointers \subseteq alive
    THEN effect /\ UNCHANGED undefined
    ELSE undefined' = TRUE /\ UNCHANGED <<data, alive, refcnt, vec>>

\* The counters after one object less on b, and one more on c (Null: no such object).
Recount(b, c) ==
    [d \in Blocks |-> refcnt[d] - (IF d = b THEN 1 ELSE 0) + (IF d = c THEN 1 ELSE 0)]

\* Deleted when its counter reaches 0, as decrese_refcnt does.
Survivors(b) == IF refcnt[b] = 1 THEN alive \ {b} ELSE alive

\* COW(args...): a Data of its own.
Construct(o, c) ==
    /\ ~Exists(o)
    /\ \E b \in Blocks \ alive :
          /\ data' = [data EXCEPT ![o] = b]
          /\ alive' = alive \cup {b}
          /\ refcnt' = [refcnt EXCEPT ![b] = 1]
          /\ vec' = [vec EXCEPT ![b] = c]
    /\ UNCHANGED undefined

ConstructDefault(o) ==
    /\ ~Exists(o)
    /\ data' = [data EXCEPT ![o] = Null]
    /\ UNCHANGED <<alive, refcnt, vec, undefined>>

CountKept(b) == UNCHANGED refcnt
CountUp(b) == refcnt' = Recount(Null, b)

\* COW(const COW&)
Copy(o, rhs) ==
    /\ ~Exists(o) /\ Exists(rhs)
    /\ Following({data[rhs]},
         /\ data' = [data EXCEPT ![o] = data[rhs]]
         /\ CountUp(data[rhs])
         /\ UNCHANGED <<alive, vec>>)

\* operator=(const COW&); assigning an object to itself returns at once. The Data
\* of rhs is followed after that of o has been released.
Assign(o, rhs) ==
    /\ o # rhs /\ Exists(o) /\ Exists(rhs)
    /\ LET old == data[o]  shared == data[rhs]
           dies == old = shared /\ old \in alive /\ refcnt[old] = 1
       IN  Following({old, shared} \cup (IF dies THEN {Null} ELSE {}),
             /\ data' = [data EXCEPT ![o] = shared]
             /\ refcnt' = Recount(old, shared)
             /\ alive' = Survivors(old)
             /\ UNCHANGED vec)

\* COW(COW&&): rhs keeps its pointer.
Move(o, rhs) ==
    /\ ~Exists(o) /\ Exists(rhs)
    /\ data' = [data EXCEPT ![o] = data[rhs]]
    /\ UNCHANGED <<alive, refcnt, vec, undefined>>

\* operator=(COW&&)
MoveAssign(o, rhs) ==
    /\ o # rhs /\ Exists(o) /\ Exists(rhs)
    /\ Following({data[o]},
         /\ data' = [data EXCEPT ![o] = data[rhs]]
         /\ refcnt' = Recount(data[o], Null)
         /\ alive' = Survivors(data[o])
         /\ UNCHANGED vec)

Destroy(o) ==
    /\ Exists(o)
    /\ Following({data[o]},
         /\ data' = [data EXCEPT ![o] = NoObject]
         /\ refcnt' = Recount(data[o], Null)
         /\ alive' = Survivors(data[o])
         /\ UNCHANGED vec)

AnyoneElse(b) == refcnt[b] > 2
Shared(b) == refcnt[b] # 1

\* mutable_operation, and the change of vec it makes room for.
Mutate(o, c) ==
    /\ Exists(o)
    /\ Following({data[o]},
         IF Shared(data[o])
         THEN \E b \in Blocks \ alive :
                /\ data' = [data EXCEPT ![o] = b]
                /\ refcnt' = [Recount(data[o], Null) EXCEPT ![b] = 1]
                /\ alive' = Survivors(data[o]) \cup {b}
                /\ vec' = [vec EXCEPT ![b] = c]
         ELSE /\ vec' = [vec EXCEPT ![data[o]] = c]
              /\ UNCHANGED <<data, alive, refcnt>>)
-----------------------------------------------------------------------------
CopyStep ==
    \E o \in Objects :
        \/ \E c \in Contents : Construct(o, c) \/ Mutate(o, c)
        \/ \E rhs \in Objects : Copy(o, rhs) \/ Assign(o, rhs)
        \/ Destroy(o)

MoveStep == \E o, rhs \in Objects : Move(o, rhs) \/ MoveAssign(o, rhs)

\* Programs that only copy, programs like cow_routine that construct objects, move
\* from them and let them die, and all programs.
CopyNext == ~undefined /\ CopyStep
MoveNext ==
    /\ ~undefined
    /\ \E o \in Objects :
          \/ \E c \in Contents : Construct(o, c)
          \/ \E rhs \in Objects : Move(o, rhs)
          \/ Destroy(o)
Next == ~undefined /\ (CopyStep \/ MoveStep \/ \E o \in Objects : ConstructDefault(o))

MoveSpec == Init /\ [][MoveNext]_vars
Spec == Init /\ [][Next]_vars
-----------------------------------------------------------------------------
(***************************************************************************)
(* Type correctness, for all programs.                                     *)
(***************************************************************************)
TypeOK ==
    /\ data \in [Objects -> Blocks \cup {Null, NoObject}]
    /\ alive \subseteq Blocks
    /\ refcnt \in [Blocks -> 0 .. Cardinality(Objects)]
    /\ vec \in [Blocks -> Contents]
    /\ undefined \in BOOLEAN

Owners(b) == {o \in Objects : data[o] = b}

(***************************************************************************)
(* While objects are only copied, refcnt is the number of objects that     *)
(* share the Data, and the Data lives as long as there is one.             *)
(***************************************************************************)
RefcntCountsOwners ==
    /\ \A b \in alive : refcnt[b] = Cardinality(Owners(b)) /\ refcnt[b] > 0
    /\ \A o \in Objects : Exists(o) => data[o] \in alive

(***************************************************************************)
(* A change through one object is not seen through another.                *)
(***************************************************************************)
MutationIsPrivate ==
    [][\A o, p \in Objects, c \in Contents :
          Mutate(o, c) /\ p # o /\ Exists(p) => data'[p] = data[p] /\ vec'[data[p]] = vec[data[p]]]_vars

(***************************************************************************)
(* No Data outlives its last object, whatever the program does.            *)
(***************************************************************************)
NothingLeaks == \A b \in alive : Owners(b) # {}

(***************************************************************************)
(* No null or deleted Data is followed. cow_routine (cow.cc:94-97) moves   *)
(* an object and lets both die, and expects to return.                     *)
(***************************************************************************)
WellDefined == ~undefined
=============================================================================
