---------------------------- MODULE RoutinesProofs ----------------------------
(***************************************************************************)
(* Proofs about Routines, for any number of objects, pointers, nodes and   *)
(* chunks: the reference counts of CopyOnWrite and SharedPointer, the      *)
(* books of ListPool and IntrusivePool, and the regions of                 *)
(* MemoryAllocator, which tile its nodes whatever is asked for, as long as *)
(* callers ask for at least one byte.                                      *)
(***************************************************************************)
EXTENDS Routines, FiniteSetTheorems, SequenceTheorems, WellFoundedInduction, TLAPS

\* main calls one routine: a step of the program is, for each component, one of its own
\* or none.
LEMMA ComponentSteps ==
    ASSUME [Next]_allVars
    PROVE  /\ routine' = routine
           /\ \/ routine = "cow_copies" /\ Cow!CopyNext
              \/ routine # "cow_copies" /\ Cow!Next
              \/ UNCHANGED cowVars
           /\ \/ routine = "shared_pointer_careful" /\ Shared!CarefulNext
              \/ routine # "shared_pointer_careful" /\ Shared!Next
              \/ UNCHANGED sharedVars
           /\ OPool!Next \/ UNCHANGED opoolVars
           /\ ObjectPool!Next \/ UNCHANGED objectPoolVars
           /\ Allocator!Next \/ UNCHANGED allocatorVars
<1> USE DEF allVars, storageVars
<1>1. CASE UNCHANGED allVars
  BY <1>1
<1>2. CASE CowStep
  BY <1>2 DEF CowStep
<1>3. CASE MemoryAllocatorStep
  BY <1>3 DEF MemoryAllocatorStep
<1>4. CASE OPoolStep
  BY <1>4 DEF OPoolStep
<1>5. CASE ObjectPoolStep
  BY <1>5 DEF ObjectPoolStep
<1>6. CASE SharedPointerStep
  BY <1>6 DEF SharedPointerStep
<1>7. CASE ContainersStep
  BY <1>7 DEF ContainersStep
<1> QED
  BY <1>1, <1>2, <1>3, <1>4, <1>5, <1>6, <1>7 DEF Next
-----------------------------------------------------------------------------
(* Sizes *)

\* Two sets that differ in one element at most have n others in common.
LEMMA DifferInOne ==
    ASSUME NEW A, NEW B, NEW o, IsFiniteSet(A), A \ {o} = B \ {o}
    PROVE  /\ IsFiniteSet(B)
           /\ \E n \in Nat :
                /\ o \in A => Cardinality(A) = n + 1
                /\ o \notin A => Cardinality(A) = n
                /\ o \in B => Cardinality(B) = n + 1
                /\ o \notin B => Cardinality(B) = n
<1> DEFINE rest == A \ {o}
<1>1. IsFiniteSet(rest) /\ o \notin rest
  BY FS_Subset
<1>2. A = IF o \in A THEN rest \cup {o} ELSE rest
  OBVIOUS
<1>3. B = IF o \in B THEN rest \cup {o} ELSE rest
  OBVIOUS
<1>4. /\ Cardinality(rest) \in Nat /\ Cardinality(rest \cup {o}) = Cardinality(rest) + 1
      /\ IsFiniteSet(rest \cup {o})
  BY <1>1, FS_AddElement, FS_CardinalityType
<1> HIDE DEF rest
<1> QED
  BY <1>1, <1>2, <1>3, <1>4

\* A set with two members has more than one.
LEMMA TwoIn ==
    ASSUME NEW A, IsFiniteSet(A), NEW p \in A, NEW q \in A, p # q
    PROVE  Cardinality(A) > 1
<1>1. /\ IsFiniteSet(A \ {q})
      /\ \E n \in Nat : Cardinality(A) = n + 1 /\ Cardinality(A \ {q}) = n
  <2>1. q \notin A \ {q} /\ A \ {q} = (A \ {q}) \ {q}
    OBVIOUS
  <2> QED
    BY <2>1, DifferInOne
<1>2. Cardinality(A \ {q}) \in Nat /\ Cardinality(A \ {q}) # 0
  BY <1>1, FS_EmptySet, FS_CardinalityType
<1> QED
  BY <1>1, <1>2
-----------------------------------------------------------------------------
(* CopyOnWrite *)

\* Routines and its components mean the same by the size of a set.
LEMMA CowCardinality ==
    ASSUME NEW S
    PROVE  Cow!Cardinality(S) = Cardinality(S) /\ Cow!IsFiniteSet(S) = IsFiniteSet(S)
  BY DEF Cardinality, Cow!Cardinality, IsFiniteSet, Cow!IsFiniteSet

\* What the proofs use of the constants.
LEMMA CowConstants == IsFiniteSet(Objects) /\ Null \notin Blocks /\ NoObject \notin Blocks \cup {Null}
  BY RoutinesAssumption, CowCardinality DEF Cow!CowAssumption

CowOwned(b) == Cardinality({o \in Objects : c_data[o] = b})

(***************************************************************************)
(* Whatever the program does, a Data that exists is counted at most once   *)
(* for each object that points to it (a moved-from object is not counted); *)
(* while objects are only copied each one counts, and points to a Data     *)
(* that exists.                                                            *)
(***************************************************************************)
CowTyped ==
    /\ c_data \in [Objects -> Blocks \cup {Null, NoObject}]
    /\ c_alive \subseteq Blocks
    /\ c_refcnt \in [Blocks -> Nat]
    /\ c_undefined \in BOOLEAN

CowBounded ==
    /\ \A b \in c_alive : 0 < c_refcnt[b] /\ c_refcnt[b] <= CowOwned(b)
    /\ \A b \in Blocks \ c_alive : c_refcnt[b] = 0

CowExact ==
    /\ ~c_undefined
    /\ \A b \in c_alive : c_refcnt[b] = CowOwned(b)
    /\ \A o \in Objects : c_data[o] # NoObject => c_data[o] \in c_alive

CowInv == CowTyped /\ CowBounded /\ (routine = "cow_copies" => CowExact)

\* The constructors run before anything else.
LEMMA InitCow == Init => CowInv
<1> SUFFICES ASSUME Init PROVE CowInv
  OBVIOUS
<1>1. Cow!Init
  BY DEF Init
<1> QED
  BY <1>1, CowConstants DEF Cow!Init, CowInv, CowTyped, CowBounded, CowExact

\* How many objects point to a Data before and after one pointer changes.
LEMMA CowOwnedNext ==
    ASSUME NEW o \in Objects, \A p \in Objects : p # o => c_data'[p] = c_data[p], NEW b
    PROVE  \E n \in Nat :
              /\ c_data[o] = b => CowOwned(b) = n + 1
              /\ c_data[o] # b => CowOwned(b) = n
              /\ c_data'[o] = b => CowOwned(b)' = n + 1
              /\ c_data'[o] # b => CowOwned(b)' = n
<1> DEFINE A == {p \in Objects : c_data[p] = b}
           B == {p \in Objects : c_data'[p] = b}
<1>1. /\ IsFiniteSet(A) /\ A \ {o} = B \ {o}
      /\ o \in A <=> c_data[o] = b
      /\ o \in B <=> c_data'[o] = b
  BY CowConstants, FS_Subset
<1>2. CowOwned(b) = Cardinality(A) /\ CowOwned(b)' = Cardinality(B)
  BY DEF CowOwned
<1> HIDE DEF A, B
<1> QED
  BY <1>1, <1>2, DifferInOne

\* While objects are only copied, nobody points to a Data that does not exist.
LEMMA DeadIsUnowned ==
    ASSUME CowTyped, CowExact, NEW b \in Blocks \ c_alive
    PROVE  CowOwned(b) = 0
<1>1. {o \in Objects : c_data[o] = b} = {}
  BY CowConstants DEF CowExact, CowTyped
<1> QED
  BY <1>1, FS_EmptySet DEF CowOwned

\* Where a pointer to no Data is followed the run ends, and the counts stay as they are.
LEMMA CowStops ==
    ASSUME CowTyped, CowBounded, c_undefined' = TRUE,
           UNCHANGED <<c_data, c_alive, c_refcnt, vec>>
    PROVE  CowTyped' /\ CowBounded'
  BY DEF CowTyped, CowBounded, CowOwned

\* COW(args...) makes a Data that is counted once.
LEMMA CowConstructs ==
    ASSUME CowTyped, CowBounded, NEW o \in Objects, c_undefined = FALSE,
           NEW c \in Contents, Cow!Construct(o, c)
    PROVE  CowTyped' /\ CowBounded' /\ (CowExact => CowExact')
<1> USE CowConstants DEF Cow!Exists
<1>1. PICK b \in Blocks \ c_alive :
        /\ c_data' = [c_data EXCEPT ![o] = b]
        /\ c_alive' = c_alive \cup {b}
        /\ c_refcnt' = [c_refcnt EXCEPT ![b] = 1]
  BY DEF Cow!Construct
<1>2. c_data[o] = NoObject /\ c_undefined' = c_undefined
  BY DEF Cow!Construct
<1>3. CowTyped'
  BY <1>1, <1>2 DEF CowTyped
<1>4. ASSUME NEW d \in Blocks
      PROVE  /\ d \in c_alive' => 0 < c_refcnt'[d] /\ c_refcnt'[d] <= CowOwned(d)'
             /\ d \notin c_alive' => c_refcnt'[d] = 0
             /\ CowExact /\ d \in c_alive' => c_refcnt'[d] = CowOwned(d)'
  <2>1. PICK n \in Nat : /\ c_data[o] # d => CowOwned(d) = n
                         /\ b = d => CowOwned(d)' = n + 1
                         /\ b # d => CowOwned(d)' = n
    BY <1>1, CowOwnedNext DEF CowTyped
  <2>2. CowOwned(d) = n /\ (CowExact /\ d = b => n = 0)
    BY <1>1, <1>2, <2>1, DeadIsUnowned
  <2> QED
    BY <1>1, <2>1, <2>2 DEF CowTyped, CowBounded, CowExact
<1>5. CowExact => \A p \in Objects : c_data'[p] # NoObject => c_data'[p] \in c_alive'
  BY <1>1 DEF CowExact, CowTyped
<1> QED
  BY <1>1, <1>2, <1>3, <1>4, <1>5 DEF CowBounded, CowExact, CowTyped

\* A default constructed object has no Data.
LEMMA CowConstructsNothing ==
    ASSUME CowTyped, CowBounded, NEW o \in Objects, c_undefined = FALSE,
           Cow!ConstructDefault(o)
    PROVE  CowTyped' /\ CowBounded'
<1> USE CowConstants DEF Cow!Exists
<1>1. /\ c_data' = [c_data EXCEPT ![o] = Null] /\ c_data[o] = NoObject
      /\ UNCHANGED <<c_alive, c_refcnt, c_undefined>>
  BY DEF Cow!ConstructDefault
<1>2. ASSUME NEW d \in Blocks PROVE CowOwned(d)' = CowOwned(d)
  BY <1>1, CowOwnedNext DEF CowTyped
<1> QED
  BY <1>1, <1>2 DEF CowTyped, CowBounded

\* The copy constructor counts one owner more.
LEMMA CowCopies ==
    ASSUME CowTyped, CowBounded, NEW o \in Objects, c_undefined = FALSE,
           NEW rhs \in Objects, Cow!Copy(o, rhs)
    PROVE  CowTyped' /\ CowBounded' /\ (CowExact => CowExact')
<1> USE CowConstants DEF Cow!Exists
<1>1. CASE c_data[rhs] \notin c_alive
  BY <1>1, CowStops DEF Cow!Copy, Cow!Following, CowExact
<1>2. CASE c_data[rhs] \in c_alive
  <2>1. /\ c_data' = [c_data EXCEPT ![o] = c_data[rhs]] /\ c_data[o] = NoObject
        /\ c_refcnt' = Cow!Recount(Null, c_data[rhs])
        /\ UNCHANGED <<c_alive, c_undefined>>
    BY <1>2 DEF Cow!Copy, Cow!Following, Cow!CountUp
  <2>2. \A d \in Blocks : c_refcnt'[d] = IF c_data[rhs] = d THEN c_refcnt[d] + 1 ELSE c_refcnt[d]
    BY <2>1 DEF Cow!Recount, CowTyped
  <2>3. CowTyped'
    BY <2>1 DEF CowTyped, Cow!Recount
  <2>4. ASSUME NEW d \in Blocks
        PROVE  /\ d \in c_alive' => 0 < c_refcnt'[d] /\ c_refcnt'[d] <= CowOwned(d)'
               /\ d \notin c_alive' => c_refcnt'[d] = 0
               /\ CowExact /\ d \in c_alive' => c_refcnt'[d] = CowOwned(d)'
    <3>1. PICK n \in Nat : /\ c_data[o] # d => CowOwned(d) = n
                           /\ c_data[rhs] = d => CowOwned(d)' = n + 1
                           /\ c_data[rhs] # d => CowOwned(d)' = n
      BY <2>1, CowOwnedNext DEF CowTyped
    <3> QED
      BY <1>2, <2>1, <2>2, <3>1 DEF CowTyped, CowBounded, CowExact
  <2>5. CowExact => \A p \in Objects : c_data'[p] # NoObject => c_data'[p] \in c_alive'
    BY <1>2, <2>1 DEF CowExact, CowTyped
  <2> QED
    BY <2>1, <2>3, <2>4, <2>5 DEF CowBounded, CowExact, CowTyped
<1> QED
  BY <1>1, <1>2

\* The move constructor leaves an owner that is not counted.
LEMMA CowMoves ==
    ASSUME CowTyped, CowBounded, NEW o \in Objects, c_undefined = FALSE,
           NEW rhs \in Objects, Cow!Move(o, rhs)
    PROVE  CowTyped' /\ CowBounded'
<1> USE CowConstants DEF Cow!Exists
<1>1. /\ c_data' = [c_data EXCEPT ![o] = c_data[rhs]] /\ c_data[o] = NoObject
      /\ UNCHANGED <<c_alive, c_refcnt, c_undefined>>
  BY DEF Cow!Move
<1>2. ASSUME NEW d \in Blocks PROVE CowOwned(d)' \in Nat /\ CowOwned(d) <= CowOwned(d)'
  BY <1>1, CowOwnedNext DEF CowTyped
<1>3. ASSUME NEW d \in c_alive PROVE c_refcnt[d] <= CowOwned(d)'
  <2>1. PICK n \in Nat : CowOwned(d) = n
    BY <1>1, CowOwnedNext DEF CowTyped
  <2> QED
    BY <1>2, <2>1 DEF CowTyped, CowBounded
<1> QED
  BY <1>1, <1>3 DEF CowTyped, CowBounded

\* The steps that let a Data go, which dies with its last counted owner.
LEMMA CowLetsGo ==
    ASSUME CowTyped, CowBounded, NEW o \in Objects, c_undefined = FALSE, c_undefined' = FALSE,
           c_data[o] \in c_alive,
           c_data' \in [Objects -> Blocks \cup {Null, NoObject}],
           \A p \in Objects : p # o => c_data'[p] = c_data[p],
           c_refcnt' = Cow!Recount(c_data[o], Null),
           c_alive' = Cow!Survivors(c_data[o])
    PROVE  /\ CowTyped' /\ CowBounded'
           /\ CowExact /\ c_data'[o] = NoObject => CowExact'
<1> USE CowConstants
<1> DEFINE x == c_data[o]
           y == c_data'[o]
<1>1. /\ \A d \in Blocks : c_refcnt'[d] = IF x = d THEN c_refcnt[d] - 1 ELSE c_refcnt[d]
      /\ c_alive' = IF c_refcnt[x] = 1 THEN c_alive \ {x} ELSE c_alive
      /\ x \in c_alive /\ x \in Blocks /\ c_refcnt[x] > 0 /\ c_refcnt[x] \in Nat
  BY DEF Cow!Recount, Cow!Survivors, CowTyped, CowBounded
<1>2. CowTyped'
  <2>1. c_refcnt' \in [Blocks -> Nat]
    BY <1>1 DEF Cow!Recount, CowTyped
  <2> QED
    BY <1>1, <2>1 DEF CowTyped
<1>3. ASSUME NEW d \in Blocks
      PROVE  /\ d \in c_alive' => 0 < c_refcnt'[d] /\ c_refcnt'[d] <= CowOwned(d)'
             /\ d \notin c_alive' => c_refcnt'[d] = 0
             /\ CowExact /\ y = NoObject /\ d \in c_alive' => c_refcnt'[d] = CowOwned(d)'
  <2>1. PICK n \in Nat : /\ x = d => CowOwned(d) = n + 1
                         /\ x # d => CowOwned(d) = n
                         /\ y = d => CowOwned(d)' = n + 1
                         /\ y # d => CowOwned(d)' = n
    BY CowOwnedNext DEF CowTyped
  <2> QED
    BY <1>1, <2>1 DEF CowTyped, CowBounded, CowExact
<1>4. CowExact /\ y = NoObject => \A p \in Objects : c_data'[p] # NoObject => c_data'[p] \in c_alive'
  <2> SUFFICES ASSUME CowExact, y = NoObject, NEW p \in Objects, c_data'[p] # NoObject
               PROVE  c_data'[p] \in c_alive'
    OBVIOUS
  <2>1. p # o /\ c_data'[p] = c_data[p] /\ c_data[p] \in c_alive
    BY DEF CowTyped, CowExact
  <2>2. CASE c_data[p] # x
    BY <1>1, <2>1, <2>2
  <2>3. CASE c_data[p] = x
    <3>1. PICK d \in Blocks : d = x
      BY <1>1
    <3>2. PICK n \in Nat : CowOwned(d) = n + 1 /\ CowOwned(d)' = n
      BY <1>1, <3>1, CowOwnedNext DEF CowTyped
    <3>3. CowOwned(d)' # 0
      <4> DEFINE B == {q \in Objects : c_data'[q] = d}
      <4>1. p \in B /\ IsFiniteSet(B)
        BY <2>1, <2>3, <3>1, FS_Subset
      <4>2. Cardinality(B) # 0
        BY <4>1, FS_EmptySet
      <4> QED
        BY <4>2 DEF CowOwned
    <3>4. c_refcnt[d] = CowOwned(d)
      BY <1>1, <3>1 DEF CowExact
    <3> QED
      BY <1>1, <2>1, <2>3, <3>1, <3>2, <3>3, <3>4
  <2> QED
    BY <2>2, <2>3
<1> QED
  BY <1>2, <1>3, <1>4 DEF CowBounded, CowExact, CowTyped

\* Copy assignment: one Data is let go and another one shared.
LEMMA CowAssigns ==
    ASSUME CowTyped, CowBounded, NEW o \in Objects, NEW rhs \in Objects, c_undefined = FALSE,
           Cow!Assign(o, rhs)
    PROVE  CowTyped' /\ CowBounded' /\ (CowExact => CowExact')
<1> USE CowConstants
<1>1. PICK x, y : x = c_data[o] /\ y = c_data[rhs]
  OBVIOUS
<1> DEFINE dies == x = y /\ x \in c_alive /\ c_refcnt[x] = 1
<1>2. /\ o # rhs /\ x # NoObject /\ y # NoObject
      /\ Cow!Following({x, y} \cup (IF dies THEN {Null} ELSE {}),
             /\ c_data' = [c_data EXCEPT ![o] = y]
             /\ c_refcnt' = Cow!Recount(x, y)
             /\ c_alive' = Cow!Survivors(x)
             /\ UNCHANGED vec)
  BY <1>1 DEF Cow!Assign, Cow!Exists
<1>3. CowExact => x \in c_alive /\ y \in c_alive /\ ~dies
  <2> SUFFICES ASSUME CowExact PROVE x \in c_alive /\ y \in c_alive /\ ~dies
    OBVIOUS
  <2>1. x \in c_alive /\ y \in c_alive
    BY <1>1, <1>2 DEF CowExact
  <2>2. ASSUME dies PROVE FALSE
    <3> DEFINE A == {p \in Objects : c_data[p] = x}
    <3>1. o \in A /\ rhs \in A /\ IsFiniteSet(A)
      BY <1>1, <2>2, FS_Subset
    <3>2. Cardinality(A) > 1
      BY <1>2, <3>1, TwoIn
    <3>3. Cardinality(A) = 1
      BY <2>1, <2>2 DEF CowExact, CowOwned
    <3> QED
      BY <3>2, <3>3
  <2> QED
    BY <2>1, <2>2
<1>4. CASE ~({x, y} \subseteq c_alive /\ ~dies)
  <2>1. ~({x, y} \cup (IF dies THEN {Null} ELSE {}) \subseteq c_alive)
    BY <1>4 DEF CowTyped
  <2> QED
    BY <1>2, <1>3, <1>4, <2>1, CowStops DEF Cow!Following
<1>5. CASE {x, y} \subseteq c_alive /\ ~dies
  <2> HIDE DEF dies
  <2>1. /\ c_data' = [c_data EXCEPT ![o] = y] /\ c_refcnt' = Cow!Recount(x, y)
        /\ c_alive' = Cow!Survivors(x) /\ c_undefined' = c_undefined
    BY <1>2, <1>5 DEF Cow!Following
  <2>2. x \in c_alive /\ y \in c_alive /\ ~(x = y /\ c_refcnt[x] = 1)
    BY <1>5 DEF dies
  <2>3. /\ c_refcnt' \in [Blocks -> Nat]
        /\ \A d \in Blocks : /\ x = d /\ y # d => c_refcnt'[d] = c_refcnt[d] - 1
                             /\ x # d /\ y = d => c_refcnt'[d] = c_refcnt[d] + 1
                             /\ (x = d <=> y = d) => c_refcnt'[d] = c_refcnt[d]
        /\ c_alive' = IF c_refcnt[x] = 1 THEN c_alive \ {x} ELSE c_alive
    BY <2>1, <2>2 DEF Cow!Recount, Cow!Survivors, CowTyped, CowBounded
  <2>4. CowTyped'
    BY <2>1, <2>2, <2>3 DEF CowTyped
  <2>5. ASSUME NEW d \in Blocks
        PROVE  /\ d \in c_alive' => 0 < c_refcnt'[d] /\ c_refcnt'[d] <= CowOwned(d)'
               /\ d \notin c_alive' => c_refcnt'[d] = 0
               /\ CowExact /\ d \in c_alive' => c_refcnt'[d] = CowOwned(d)'
               /\ CowExact /\ d \in c_alive \ c_alive' => CowOwned(d)' = 0
    <3>1. PICK n \in Nat : /\ x = d => CowOwned(d) = n + 1
                           /\ x # d => CowOwned(d) = n
                           /\ y = d => CowOwned(d)' = n + 1
                           /\ y # d => CowOwned(d)' = n
      BY <1>1, <2>1, CowOwnedNext DEF CowTyped
    <3> QED
      BY <2>2, <2>3, <3>1 DEF CowTyped, CowBounded, CowExact
  <2>6. ASSUME CowExact, NEW p \in Objects, c_data'[p] # NoObject
        PROVE  c_data'[p] \in c_alive'
    <3>1. PICK d : d = c_data'[p]
      OBVIOUS
    <3>2. d \in c_alive
      BY <2>1, <2>2, <2>6, <3>1 DEF CowTyped, CowExact
    <3> DEFINE B == {q \in Objects : c_data'[q] = d}
    <3>3. p \in B /\ IsFiniteSet(B)
      BY <3>1, FS_Subset
    <3>4. Cardinality(B) # 0
      BY <3>3, FS_EmptySet
    <3>5. CowOwned(d)' # 0
      BY <3>4 DEF CowOwned
    <3> QED
      BY <2>5, <2>6, <3>1, <3>2, <3>5 DEF CowTyped
  <2> QED
    BY <2>1, <2>4, <2>5, <2>6 DEF CowBounded, CowExact, CowTyped
<1> QED
  BY <1>4, <1>5

\* mutable_operation of a Data that others own: a Data of one's own is made.
LEMMA CowMutates ==
    ASSUME CowTyped, CowBounded, NEW o \in Objects, NEW c \in Contents, c_undefined = FALSE,
           Cow!Mutate(o, c)
    PROVE  CowTyped' /\ CowBounded' /\ (CowExact => CowExact')
<1> USE CowConstants
<1>1. PICK x : x = c_data[o] /\ x # NoObject
  BY DEF Cow!Mutate, Cow!Exists
<1>2. CASE x \notin c_alive
  BY <1>1, <1>2, CowStops DEF Cow!Mutate, Cow!Following, CowExact
<1>3. CASE x \in c_alive /\ ~Cow!Shared(x)
  BY <1>1, <1>3 DEF Cow!Mutate, Cow!Following, CowTyped, CowBounded, CowExact, CowOwned
<1>4. CASE x \in c_alive /\ Cow!Shared(x)
  <2>1. PICK b \in Blocks \ c_alive :
          /\ c_data' = [c_data EXCEPT ![o] = b]
          /\ c_refcnt' = [Cow!Recount(x, Null) EXCEPT ![b] = 1]
          /\ c_alive' = Cow!Survivors(x) \cup {b}
          /\ c_undefined' = c_undefined
    BY <1>1, <1>4 DEF Cow!Mutate, Cow!Following
  <2>2. /\ c_refcnt' \in [Blocks -> Nat]
        /\ \A d \in Blocks : /\ d = b => c_refcnt'[d] = 1
                             /\ d = x => c_refcnt'[d] = c_refcnt[d] - 1
                             /\ d # b /\ d # x => c_refcnt'[d] = c_refcnt[d]
        /\ c_alive' = c_alive \cup {b}
        /\ x \in Blocks /\ c_refcnt[x] > 1
    BY <1>4, <2>1 DEF Cow!Recount, Cow!Survivors, Cow!Shared, CowTyped, CowBounded
  <2>3. CowTyped'
    BY <2>1, <2>2 DEF CowTyped
  <2>4. ASSUME NEW d \in Blocks
        PROVE  /\ d \in c_alive' => 0 < c_refcnt'[d] /\ c_refcnt'[d] <= CowOwned(d)'
               /\ d \notin c_alive' => c_refcnt'[d] = 0
               /\ CowExact /\ d \in c_alive' => c_refcnt'[d] = CowOwned(d)'
    <3>1. PICK n \in Nat : /\ x = d => CowOwned(d) = n + 1
                           /\ x # d => CowOwned(d) = n
                           /\ b = d => CowOwned(d)' = n + 1
                           /\ b # d => CowOwned(d)' = n
      BY <1>1, <2>1, CowOwnedNext DEF CowTyped
    <3>2. CowExact /\ b = d => n = 0
      BY <1>4, <2>1, <3>1, DeadIsUnowned
    <3> QED
      BY <1>4, <2>1, <2>2, <3>1, <3>2 DEF CowTyped, CowBounded, CowExact
  <2>5. CowExact => \A p \in Objects : c_data'[p] # NoObject => c_data'[p] \in c_alive'
    BY <2>1, <2>2 DEF CowExact, CowTyped
  <2> QED
    BY <2>1, <2>3, <2>4, <2>5 DEF CowBounded, CowExact, CowTyped
<1> QED
  BY <1>2, <1>3, <1>4

\* Every step of any routine keeps the counts of CopyOnWrite.
LEMMA NextCow == CowInv /\ [Next]_allVars => CowInv'
<1> SUFFICES ASSUME CowInv, [Next]_allVars PROVE CowInv'
  OBVIOUS
<1> USE CowConstants
<1>1. CowTyped /\ CowBounded /\ routine' = routine /\ (routine = "cow_copies" => CowExact)
  BY ComponentSteps DEF CowInv
<1>2. CASE UNCHANGED cowVars
  BY <1>1, <1>2 DEF cowVars, CowInv, CowTyped, CowBounded, CowExact, CowOwned
<1>3. ASSUME c_undefined = FALSE, NEW o \in Objects, NEW c \in Contents, Cow!Construct(o, c) \/ Cow!Mutate(o, c)
      PROVE  CowTyped' /\ CowBounded' /\ (CowExact => CowExact')
  <2>1. CASE Cow!Construct(o, c)
    BY <1>1, <1>3, <2>1, CowConstructs
  <2>2. CASE Cow!Mutate(o, c)
    BY <1>1, <1>3, <2>2, CowMutates
  <2> QED
    BY <1>3, <2>1, <2>2
<1>4. ASSUME c_undefined = FALSE, NEW o \in Objects, NEW rhs \in Objects, Cow!Copy(o, rhs)
      PROVE  CowTyped' /\ CowBounded' /\ (CowExact => CowExact')
  BY <1>1, <1>4, CowCopies
<1>5. ASSUME c_undefined = FALSE, NEW o \in Objects, NEW rhs \in Objects, Cow!Assign(o, rhs)
      PROVE  CowTyped' /\ CowBounded' /\ (CowExact => CowExact')
  BY <1>1, <1>5, CowAssigns
<1>6. ASSUME c_undefined = FALSE, NEW o \in Objects, Cow!Destroy(o)
      PROVE  CowTyped' /\ CowBounded' /\ (CowExact => CowExact')
  <2>1. CASE c_data[o] \notin c_alive
    BY <1>1, <1>6, <2>1, CowStops DEF Cow!Destroy, Cow!Following, Cow!Exists, CowExact
  <2>2. CASE c_data[o] \in c_alive
    <3>1. /\ c_data' = [c_data EXCEPT ![o] = NoObject] /\ c_undefined' = FALSE
          /\ c_refcnt' = Cow!Recount(c_data[o], Null) /\ c_alive' = Cow!Survivors(c_data[o])
      BY <1>6, <2>2 DEF Cow!Destroy, Cow!Following
    <3>2. /\ c_data' \in [Objects -> Blocks \cup {Null, NoObject}] /\ c_data'[o] = NoObject
          /\ \A p \in Objects : p # o => c_data'[p] = c_data[p]
      BY <1>1, <3>1 DEF CowTyped
    <3> QED
      BY <1>1, <1>6, <2>2, <3>1, <3>2, CowLetsGo
  <2> QED
    BY <2>1, <2>2
<1>7. ASSUME c_undefined = FALSE, NEW o \in Objects, NEW rhs \in Objects, Cow!Move(o, rhs)
      PROVE  CowTyped' /\ CowBounded'
  BY <1>1, <1>7, CowMoves
<1>8. ASSUME c_undefined = FALSE, NEW o \in Objects, NEW rhs \in Objects, Cow!MoveAssign(o, rhs)
      PROVE  CowTyped' /\ CowBounded'
  <2>1. CASE c_data[o] \notin c_alive
    BY <1>1, <1>8, <2>1, CowStops DEF Cow!MoveAssign, Cow!Following
  <2>2. CASE c_data[o] \in c_alive
    <3>1. /\ c_data' = [c_data EXCEPT ![o] = c_data[rhs]] /\ c_undefined' = FALSE
          /\ c_refcnt' = Cow!Recount(c_data[o], Null) /\ c_alive' = Cow!Survivors(c_data[o])
      BY <1>8, <2>2 DEF Cow!MoveAssign, Cow!Following
    <3>2. /\ c_data' \in [Objects -> Blocks \cup {Null, NoObject}]
          /\ \A p \in Objects : p # o => c_data'[p] = c_data[p]
      BY <1>1, <3>1 DEF CowTyped
    <3> QED
      BY <1>1, <1>8, <2>2, <3>1, <3>2, CowLetsGo
  <2> QED
    BY <2>1, <2>2
<1>9. ASSUME c_undefined = FALSE, Cow!CopyStep PROVE CowTyped' /\ CowBounded' /\ (CowExact => CowExact')
  BY <1>3, <1>4, <1>5, <1>6, <1>9 DEF Cow!CopyStep
<1> ~c_undefined => c_undefined = FALSE
  BY <1>1 DEF CowTyped
<1>10. CASE routine = "cow_copies" /\ Cow!CopyNext
  BY <1>1, <1>9, <1>10 DEF Cow!CopyNext, CowInv
<1>11. CASE routine # "cow_copies" /\ Cow!Next
  <2>1. CASE Cow!CopyStep
    BY <1>1, <1>9, <1>11, <2>1 DEF Cow!Next, CowInv
  <2>2. CASE Cow!MoveStep
    BY <1>1, <1>7, <1>8, <1>11, <2>2 DEF Cow!Next, Cow!MoveStep, CowInv
  <2>3. CASE \E o \in Objects : Cow!ConstructDefault(o)
    BY <1>1, <1>11, <2>3, CowConstructsNothing DEF Cow!Next, CowInv, CowTyped
  <2> QED
    BY <1>11, <2>1, <2>2, <2>3 DEF Cow!Next
<1> QED
  BY <1>2, <1>10, <1>11, ComponentSteps
-----------------------------------------------------------------------------
(* SharedPointer *)

\* Routines and shared_ptr.cc mean the same by the size of a set.
LEMMA SharedCardinality ==
    ASSUME NEW S
    PROVE  Shared!Cardinality(S) = Cardinality(S) /\ Shared!IsFiniteSet(S) = IsFiniteSet(S)
  BY DEF Cardinality, Shared!Cardinality, IsFiniteSet, Shared!IsFiniteSet

\* What the proofs use of the constants.
LEMMA SharedConstants ==
    /\ IsFiniteSet(Pointers)
    /\ Null \notin Blocks \cup Pointers
    /\ NoObject \notin Blocks \cup Pointers \cup {Null}
  BY RoutinesAssumption, SharedCardinality DEF Shared!PointerAssumption

SharedOwned(b) == Cardinality({p \in Pointers : s_data[p] = b})

SharedTyped ==
    /\ s_data \in [Pointers -> Blocks \cup {Null, NoObject}]
    /\ weak_ptr_set \in [Pointers -> SUBSET Weaks]
    /\ shared_ptr \in [Weaks -> Pointers \cup {Null, NoObject}]
    /\ s_alive \subseteq Blocks
    /\ s_refcnt \in [Blocks -> Nat]
    /\ s_undefined \in BOOLEAN

(***************************************************************************)
(* Whatever the program does, refcnt counts the shared pointers to a block *)
(* and the block lives while there is one.                                 *)
(***************************************************************************)
SharedCounts ==
    \A b \in Blocks : s_refcnt[b] = SharedOwned(b) /\ (b \in s_alive <=> s_refcnt[b] > 0)

(***************************************************************************)
(* In a careful program weak pointers and the shared pointers they point   *)
(* to know each other, and a variable that is no shared pointer yet has    *)
(* no subscribers left.                                                    *)
(***************************************************************************)
WeaksKnown ==
    /\ ~s_undefined
    /\ \A w \in Weaks, p \in Pointers :
          shared_ptr[w] = p <=> s_data[p] # NoObject /\ w \in weak_ptr_set[p]
    /\ \A p \in Pointers : s_data[p] = NoObject => weak_ptr_set[p] = {}

SharedInv ==
    /\ SharedTyped /\ SharedCounts
    /\ routine = "shared_pointer_careful" => WeaksKnown

\* No pointer exists before the program constructs one.
LEMMA InitShared == Init => SharedInv
<1> SUFFICES ASSUME Init PROVE SharedInv
  OBVIOUS
<1> USE SharedConstants
<1>1. Shared!Init
  BY DEF Init
<1>2. ASSUME NEW b \in Blocks PROVE SharedOwned(b) = 0
  <2>1. {p \in Pointers : s_data[p] = b} = {}
    BY <1>1 DEF Shared!Init
  <2> QED
    BY <2>1, FS_EmptySet DEF SharedOwned
<1>3. SharedCounts
  BY <1>1, <1>2 DEF Shared!Init, SharedCounts
<1>4. SharedTyped /\ WeaksKnown
  BY <1>1 DEF Shared!Init, SharedTyped, WeaksKnown
<1> QED
  BY <1>3, <1>4 DEF SharedInv

\* How many pointers own a block before and after one of them changes.
LEMMA SharedOwnedNext ==
    ASSUME NEW p \in Pointers, \A q \in Pointers : q # p => s_data'[q] = s_data[q], NEW b
    PROVE  \E n \in Nat :
              /\ s_data[p] = b => SharedOwned(b) = n + 1
              /\ s_data[p] # b => SharedOwned(b) = n
              /\ s_data'[p] = b => SharedOwned(b)' = n + 1
              /\ s_data'[p] # b => SharedOwned(b)' = n
<1> DEFINE A == {q \in Pointers : s_data[q] = b}
           B == {q \in Pointers : s_data'[q] = b}
<1>1. /\ IsFiniteSet(A) /\ A \ {p} = B \ {p}
      /\ p \in A <=> s_data[p] = b
      /\ p \in B <=> s_data'[p] = b
  BY SharedConstants, FS_Subset
<1>2. SharedOwned(b) = Cardinality(A) /\ SharedOwned(b)' = Cardinality(B)
  BY DEF SharedOwned
<1> HIDE DEF A, B
<1> QED
  BY <1>1, <1>2, DifferInOne

\* ... and when one of them takes over what another one has, which is left empty.
LEMMA SharedOwnedMoved ==
    ASSUME SharedTyped, NEW p \in Pointers, NEW rhs \in Pointers,
           s_data' = Shared!MovedFrom(p, rhs), NEW b \in Blocks
    PROVE  \E n \in Nat :
              /\ s_data[p] = b => SharedOwned(b) = n + 1
              /\ s_data[p] # b => SharedOwned(b) = n
              /\ SharedOwned(b)' = n
<1> DEFINE A == {q \in Pointers : s_data[q] = b}
           C == {q \in Pointers : (IF q = p THEN s_data[rhs] ELSE s_data[q]) = b}
           B == {q \in Pointers : s_data'[q] = b}
<1>1. /\ IsFiniteSet(A) /\ A \ {p} = C \ {p} /\ C \ {rhs} = B \ {rhs}
      /\ p \in A <=> s_data[p] = b
      /\ p \in C <=> s_data[rhs] = b
      /\ rhs \in C <=> s_data[rhs] = b
      /\ rhs \notin B
  BY SharedConstants, FS_Subset DEF SharedTyped, Shared!MovedFrom
<1>2. SharedOwned(b) = Cardinality(A) /\ SharedOwned(b)' = Cardinality(B)
  BY DEF SharedOwned
<1> HIDE DEF A, B, C
<1>3. PICK n \in Nat : /\ p \in A => Cardinality(A) = n + 1
                       /\ p \notin A => Cardinality(A) = n
                       /\ p \in C => Cardinality(C) = n + 1
                       /\ p \notin C => Cardinality(C) = n
  BY <1>1, DifferInOne
<1>4. IsFiniteSet(C)
  BY <1>1, DifferInOne
<1>5. PICK m \in Nat : /\ rhs \in C => Cardinality(C) = m + 1
                       /\ rhs \notin C => Cardinality(C) = m
                       /\ Cardinality(B) = m
  BY <1>1, <1>4, DifferInOne
<1> QED
  BY <1>1, <1>2, <1>3, <1>5

\* A pointer to a block is one of its owners.
LEMMA SharedOwnedNow ==
    ASSUME NEW p \in Pointers, NEW b, s_data[p] = b
    PROVE  SharedOwned(b) \in Nat /\ SharedOwned(b) > 0
<1> DEFINE A == {q \in Pointers : s_data[q] = b}
<1>1. IsFiniteSet(A) /\ p \in A
  BY SharedConstants, FS_Subset
<1>2. Cardinality(A) \in Nat /\ Cardinality(A) # 0
  BY <1>1, FS_EmptySet, FS_CardinalityType
<1> QED
  BY <1>2 DEF SharedOwned

\* A step of a shared_pointer that changes one pointer p: what it let go has lost an
\* owner, which the block does not survive if it was the last, and what it has now gained one.
LEMMA SharedRecounts ==
    ASSUME SharedTyped, SharedCounts, NEW p \in Pointers,
           \A q \in Pointers : q # p => s_data'[q] = s_data[q],
           \A b \in Blocks :
              /\ (s_data[p] = b <=> s_data'[p] = b) =>
                    s_refcnt'[b] = s_refcnt[b] /\ (b \in s_alive' <=> b \in s_alive)
              /\ s_data[p] = b /\ s_data'[p] # b =>
                    /\ s_refcnt'[b] = s_refcnt[b] - 1
                    /\ b \in s_alive' <=> b \in s_alive /\ s_refcnt[b] # 1
              /\ s_data[p] # b /\ s_data'[p] = b =>
                    s_refcnt'[b] = s_refcnt[b] + 1 /\ b \in s_alive'
    PROVE  /\ SharedCounts'
           /\ \A b \in Blocks : s_refcnt'[b] \in Nat
<1>1. ASSUME NEW b \in Blocks
      PROVE  /\ s_refcnt'[b] = SharedOwned(b)' /\ (b \in s_alive' <=> s_refcnt'[b] > 0)
             /\ s_refcnt'[b] \in Nat
  <2>1. PICK n \in Nat : /\ s_data[p] = b => SharedOwned(b) = n + 1
                         /\ s_data[p] # b => SharedOwned(b) = n
                         /\ s_data'[p] = b => SharedOwned(b)' = n + 1
                         /\ s_data'[p] # b => SharedOwned(b)' = n
    BY SharedOwnedNext
  <2>2. /\ s_refcnt[b] = SharedOwned(b) /\ (b \in s_alive <=> s_refcnt[b] > 0)
    BY DEF SharedCounts
  <2> QED
    BY <2>1, <2>2
<1> QED
  BY <1>1 DEF SharedCounts

\* The steps of a shared_pointer keep the counts.
LEMMA SharedConstructs ==
    ASSUME SharedTyped, SharedCounts, NEW p \in Pointers,
           Shared!Construct(p) \/ Shared!ConstructEmpty(p)
    PROVE  SharedTyped' /\ SharedCounts'
<1> USE SharedConstants
<1>1. CASE Shared!Construct(p)
  <2>1. PICK b \in Blocks \ s_alive :
          /\ s_data' = [s_data EXCEPT ![p] = b]
          /\ s_alive' = s_alive \cup {b}
          /\ s_refcnt' = [s_refcnt EXCEPT ![b] = 1]
    BY <1>1 DEF Shared!Construct
  <2>2. s_data[p] = NoObject /\ UNCHANGED <<weak_ptr_set, shared_ptr, s_undefined>>
    BY <1>1 DEF Shared!Construct, Shared!Exists
  <2>3. s_refcnt[b] = 0
    BY <2>1 DEF SharedTyped, SharedCounts
  <2>4. SharedTyped'
    BY <2>1, <2>2 DEF SharedTyped
  <2>5. /\ \A q \in Pointers : q # p => s_data'[q] = s_data[q]
        /\ s_data'[p] = b
        /\ \A d \in Blocks : d # b => s_refcnt'[d] = s_refcnt[d]
        /\ s_refcnt'[b] = 1
    BY <2>1 DEF SharedTyped
  <2> QED
    BY <2>1, <2>2, <2>3, <2>4, <2>5, SharedRecounts
<1>2. CASE Shared!ConstructEmpty(p)
  <2>1. /\ s_data' = [s_data EXCEPT ![p] = Null] /\ s_data[p] = NoObject
        /\ UNCHANGED <<weak_ptr_set, shared_ptr, s_alive, s_refcnt, s_undefined>>
    BY <1>2 DEF Shared!ConstructEmpty, Shared!Exists
  <2>2. SharedTyped'
    BY <2>1 DEF SharedTyped
  <2>3. s_data'[p] = Null /\ \A q \in Pointers : q # p => s_data'[q] = s_data[q]
    BY <2>1 DEF SharedTyped
  <2> QED
    BY <2>1, <2>2, <2>3, SharedRecounts
<1> QED
  BY <1>1, <1>2

\* Where a dangling pointer is followed the run ends, and the counts stay as they are.
LEMMA SharedStops == SharedTyped /\ SharedCounts /\ Shared!Undefined => SharedTyped' /\ SharedCounts'
  BY DEF SharedTyped, SharedCounts, SharedOwned, Shared!Undefined

\* Copy construction: one more owner.
LEMMA SharedCopies ==
    ASSUME SharedTyped, SharedCounts, NEW p \in Pointers, NEW rhs \in Pointers,
           s_data[p] = NoObject, s_data[rhs] # NoObject, Shared!CopyOf(p, rhs)
    PROVE  SharedTyped' /\ SharedCounts'
<1> USE SharedConstants
<1>1. CASE s_data[rhs] = Null
  BY <1>1, SharedStops DEF Shared!CopyOf
<1>2. CASE s_data[rhs] # Null
  <2>1. PICK y \in Blocks : y = s_data[rhs]
    BY <1>2 DEF SharedTyped
  <2>2. /\ s_data' = [s_data EXCEPT ![p] = y]
        /\ s_refcnt' = Shared!Recount(Null, y)
        /\ UNCHANGED <<weak_ptr_set, shared_ptr, s_alive, s_undefined>>
    BY <1>2, <2>1 DEF Shared!CopyOf
  <2>3. /\ s_data'[p] = y /\ \A q \in Pointers : q # p => s_data'[q] = s_data[q]
        /\ s_data' \in [Pointers -> Blocks \cup {Null, NoObject}]
    BY <2>2 DEF SharedTyped
  <2>4. /\ s_refcnt' \in [Blocks -> Nat]
        /\ \A b \in Blocks : /\ b = y => s_refcnt'[b] = s_refcnt[b] + 1
                             /\ b # y => s_refcnt'[b] = s_refcnt[b]
    BY <2>1, <2>2 DEF Shared!Recount, SharedTyped
  <2>5. y \in s_alive
    <3>1. SharedOwned(y) > 0
      BY <2>1, SharedOwnedNow
    <3> QED
      BY <2>1, <3>1 DEF SharedCounts
  <2>6. SharedTyped'
    BY <2>2, <2>3, <2>4 DEF SharedTyped
  <2> QED
    BY <2>2, <2>3, <2>4, <2>5, <2>6, SharedRecounts
<1> QED
  BY <1>1, <1>2

\* Copy assignment: one owner less of what it had, one more of what it gets.
LEMMA SharedAssigns ==
    ASSUME SharedTyped, SharedCounts, NEW p \in Pointers, NEW rhs \in Pointers,
           Shared!Assign(p, rhs)
    PROVE  SharedTyped' /\ SharedCounts'
<1> USE SharedConstants
<1>1. CASE s_data[rhs] = Null \/ (p = rhs /\ s_refcnt[s_data[p]] = 1)
  BY <1>1, SharedStops DEF Shared!Assign
<1>2. CASE ~(s_data[rhs] = Null \/ (p = rhs /\ s_refcnt[s_data[p]] = 1))
  <2>1. PICK x \in Blocks \cup {Null}, y \in Blocks : x = s_data[p] /\ y = s_data[rhs]
    BY <1>2 DEF SharedTyped, Shared!Assign, Shared!Exists
  <2>2. /\ s_data' = [s_data EXCEPT ![p] = y]
        /\ s_refcnt' = Shared!Recount(x, y) /\ s_alive' = Shared!Survivors(x)
        /\ UNCHANGED <<weak_ptr_set, shared_ptr, s_undefined>>
    BY <1>2, <2>1 DEF Shared!Assign
  <2>3. /\ s_data'[p] = y /\ \A q \in Pointers : q # p => s_data'[q] = s_data[q]
        /\ s_data' \in [Pointers -> Blocks \cup {Null, NoObject}]
    BY <2>2 DEF SharedTyped
  <2>4. y \in s_alive /\ s_refcnt[y] > 0 /\ (x \in Blocks => s_refcnt[x] > 0)
    BY <2>1, SharedOwnedNow DEF SharedCounts
  <2>5. x = y => s_refcnt[x] # 1
    <3> SUFFICES ASSUME x = y, s_refcnt[x] = 1 PROVE FALSE
      OBVIOUS
    <3> DEFINE A == {q \in Pointers : s_data[q] = y}
    <3>1. p # rhs /\ p \in A /\ rhs \in A /\ IsFiniteSet(A)
      BY <1>2, <2>1, FS_Subset
    <3>2. Cardinality(A) > 1
      BY <3>1, TwoIn
    <3>3. Cardinality(A) = 1
      BY <2>1 DEF SharedCounts, SharedOwned
    <3> QED
      BY <3>2, <3>3
  <2>6. /\ s_refcnt' \in [Blocks -> Nat]
        /\ \A b \in Blocks : /\ x = b /\ y # b => s_refcnt'[b] = s_refcnt[b] - 1
                             /\ x # b /\ y = b => s_refcnt'[b] = s_refcnt[b] + 1
                             /\ (x = b <=> y = b) => s_refcnt'[b] = s_refcnt[b]
    BY <2>2, <2>4 DEF Shared!Recount, SharedTyped
  <2>7. s_alive' = IF x \in Blocks /\ s_refcnt[x] = 1 THEN s_alive \ {x} ELSE s_alive
    BY <2>1, <2>2 DEF Shared!Survivors
  <2>8. SharedTyped'
    BY <2>2, <2>3, <2>6, <2>7 DEF SharedTyped
  <2>9. \A b \in Blocks :
              /\ (x = b <=> y = b) => (b \in s_alive' <=> b \in s_alive)
              /\ x = b /\ y # b => (b \in s_alive' <=> b \in s_alive /\ s_refcnt[b] # 1)
              /\ x # b /\ y = b => b \in s_alive'
    BY <2>4, <2>5, <2>7
  <2> QED
    BY <2>1, <2>3, <2>6, <2>8, <2>9, SharedRecounts
<1> QED
  BY <1>1, <1>2

\* Destruction: one owner less.
LEMMA SharedDestroys ==
    ASSUME SharedTyped, SharedCounts, NEW p \in Pointers, Shared!Destroy(p)
    PROVE  SharedTyped' /\ SharedCounts'
<1> USE SharedConstants
<1>1. PICK x \in Blocks \cup {Null} : x = s_data[p]
  BY DEF SharedTyped, Shared!Destroy, Shared!Exists
<1>2. SUFFICES ASSUME \A w \in weak_ptr_set[p] : Shared!WeakExists(w)
               PROVE  SharedTyped' /\ SharedCounts'
  BY SharedStops DEF Shared!Destroy
<1> /\ s_data' = [s_data EXCEPT ![p] = NoObject]
    /\ s_refcnt' = Shared!Recount(x, Null) /\ s_alive' = Shared!Survivors(x)
    /\ shared_ptr' = Shared!ResetWeaks(p)
    /\ weak_ptr_set' = [weak_ptr_set EXCEPT ![p] = {}] /\ s_undefined' = s_undefined
  BY <1>1, <1>2 DEF Shared!Destroy
<1>3. /\ s_data'[p] = NoObject /\ \A q \in Pointers : q # p => s_data'[q] = s_data[q]
      /\ s_data' \in [Pointers -> Blocks \cup {Null, NoObject}]
  BY <1>2 DEF SharedTyped
<1>4. x \in Blocks => s_refcnt[x] > 0
  BY <1>1, SharedOwnedNow DEF SharedCounts
<1>5. /\ s_refcnt' \in [Blocks -> Nat]
      /\ \A b \in Blocks : /\ x = b => s_refcnt'[b] = s_refcnt[b] - 1
                           /\ x # b => s_refcnt'[b] = s_refcnt[b]
  BY <1>2, <1>4 DEF Shared!Recount, SharedTyped
<1>6. s_alive' = IF x \in Blocks /\ s_refcnt[x] = 1 THEN s_alive \ {x} ELSE s_alive
  BY <1>1, <1>2 DEF Shared!Survivors
<1>7. shared_ptr' \in [Weaks -> Pointers \cup {Null, NoObject}]
  BY <1>2 DEF Shared!ResetWeaks, SharedTyped
<1>8. SharedTyped'
  BY <1>2, <1>3, <1>5, <1>6, <1>7 DEF SharedTyped
<1> QED
  BY <1>1, <1>3, <1>5, <1>6, <1>8, SharedRecounts

\* Moving construction and assignment: the block changes hands.
LEMMA SharedMoves ==
    ASSUME SharedTyped, SharedCounts, NEW p \in Pointers, NEW rhs \in Pointers,
           Shared!Move(p, rhs) \/ Shared!MoveAssign(p, rhs)
    PROVE  SharedTyped' /\ SharedCounts'
<1> USE SharedConstants
<1>1. PICK x \in Blocks \cup {Null, NoObject} : x = s_data[p]
  BY DEF SharedTyped
<1>2. /\ s_data' = Shared!MovedFrom(p, rhs)
      /\ UNCHANGED <<weak_ptr_set, shared_ptr, s_undefined>>
  BY DEF Shared!Move, Shared!MoveAssign
<1>3. x \in Blocks => s_refcnt[x] > 0
  BY <1>1, SharedOwnedNow DEF SharedCounts
<1>4. /\ s_refcnt' \in [Blocks -> Nat]
      /\ \A b \in Blocks : /\ x = b => s_refcnt'[b] = s_refcnt[b] - 1
                           /\ x # b => s_refcnt'[b] = s_refcnt[b]
      /\ s_alive' = IF x \in Blocks /\ s_refcnt[x] = 1 THEN s_alive \ {x} ELSE s_alive
  <2>1. CASE Shared!Move(p, rhs)
    BY <1>1, <2>1 DEF Shared!Move, Shared!Exists, SharedTyped
  <2>2. CASE Shared!MoveAssign(p, rhs)
    <3>1. /\ s_refcnt' = Shared!Recount(x, Null) /\ s_alive' = Shared!Survivors(x)
          /\ x # NoObject
      BY <1>1, <2>2 DEF Shared!MoveAssign, Shared!Exists
    <3>2. s_refcnt' \in [Blocks -> Nat]
      BY <1>3, <3>1 DEF Shared!Recount, SharedTyped
    <3> QED
      BY <1>1, <3>1, <3>2 DEF Shared!Recount, Shared!Survivors, SharedTyped
  <2> QED
    BY <2>1, <2>2
<1>5. SharedTyped'
  BY <1>2, <1>4 DEF SharedTyped, Shared!MovedFrom
<1>6. ASSUME NEW b \in Blocks
      PROVE  s_refcnt'[b] = SharedOwned(b)' /\ (b \in s_alive' <=> s_refcnt'[b] > 0)
  <2>1. PICK n \in Nat : /\ s_data[p] = b => SharedOwned(b) = n + 1
                         /\ s_data[p] # b => SharedOwned(b) = n
                         /\ SharedOwned(b)' = n
    BY <1>2, SharedOwnedMoved
  <2>2. s_refcnt[b] = SharedOwned(b) /\ (b \in s_alive <=> s_refcnt[b] > 0)
    BY DEF SharedCounts
  <2> QED
    BY <1>1, <1>4, <2>1, <2>2
<1> QED
  BY <1>5, <1>6 DEF SharedCounts

\* Weak pointers are no owners.
LEMMA WeaksDoNotCount ==
    ASSUME SharedTyped, SharedCounts, NEW w \in Weaks,
           \/ Shared!WeakConstructEmpty(w) \/ Shared!WeakDestroy(w)
           \/ \E p \in Pointers : Shared!WeakConstruct(w, p) \/ Shared!WeakAssign(w, p)
           \/ \E rhs \in Weaks : Shared!WeakCopy(w, rhs)
    PROVE  SharedTyped' /\ SharedCounts'
<1> USE SharedConstants
<1>1. UNCHANGED <<s_data, s_alive, s_refcnt>>
  BY DEF Shared!WeakConstructEmpty, Shared!WeakDestroy, Shared!WeakConstruct, Shared!WeakAssign,
         Shared!WeakCopy, Shared!Undefined
<1>2. SharedCounts'
  BY <1>1 DEF SharedCounts, SharedOwned
<1>3. CASE Shared!WeakConstructEmpty(w)
  BY <1>1, <1>2, <1>3 DEF Shared!WeakConstructEmpty, SharedTyped
<1>4. CASE Shared!WeakDestroy(w)
  <2>1. CASE Shared!Sound(w)
    <3>1. weak_ptr_set' \in [Pointers -> SUBSET Weaks]
      BY <1>4, <2>1 DEF Shared!WeakDestroy, Shared!Resubscribed, SharedTyped
    <3> QED
      BY <1>1, <1>2, <1>4, <2>1, <3>1 DEF Shared!WeakDestroy, SharedTyped
  <2>2. CASE ~Shared!Sound(w)
    BY <1>2, <1>4, <2>2, SharedStops DEF Shared!WeakDestroy
  <2> QED
    BY <2>1, <2>2
<1>5. ASSUME NEW p \in Pointers, Shared!WeakConstruct(w, p) PROVE SharedTyped'
  BY <1>1, <1>5 DEF Shared!WeakConstruct, SharedTyped
<1>6. ASSUME NEW p \in Pointers, Shared!WeakAssign(w, p) PROVE SharedTyped'
  <2>1. CASE Shared!Sound(w)
    <3>1. weak_ptr_set' \in [Pointers -> SUBSET Weaks]
      BY <1>6, <2>1 DEF Shared!WeakAssign, Shared!Resubscribed, SharedTyped
    <3> QED
      BY <1>1, <1>6, <2>1, <3>1 DEF Shared!WeakAssign, SharedTyped
  <2>2. CASE ~Shared!Sound(w)
    BY <1>6, <2>2, SharedStops DEF Shared!WeakAssign
  <2> QED
    BY <2>1, <2>2
<1>7. ASSUME NEW rhs \in Weaks, Shared!WeakCopy(w, rhs) PROVE SharedTyped'
  BY <1>1, <1>7 DEF Shared!WeakCopy, SharedTyped
<1> QED
  BY <1>2, <1>3, <1>4, <1>5, <1>6, <1>7

\* Whatever the program does, the counts are kept.
LEMMA AnyStepCounts ==
    ASSUME SharedTyped, SharedCounts, Shared!AnyStep
    PROVE  SharedTyped' /\ SharedCounts'
<1>1. ASSUME NEW p \in Pointers, Shared!Construct(p) \/ Shared!ConstructEmpty(p) \/ Shared!Destroy(p)
      PROVE  SharedTyped' /\ SharedCounts'
  BY <1>1, SharedConstructs, SharedDestroys
<1>2. ASSUME NEW p \in Pointers, NEW rhs \in Pointers,
             \/ Shared!Copy(p, rhs) \/ Shared!Assign(p, rhs)
             \/ Shared!Move(p, rhs) \/ Shared!MoveAssign(p, rhs)
      PROVE  SharedTyped' /\ SharedCounts'
  BY <1>2, SharedCopies, SharedAssigns, SharedMoves DEF Shared!Copy, Shared!Exists
<1>3. ASSUME NEW w \in Weaks, NEW p \in Pointers, Shared!Lock(w, p)
      PROVE  SharedTyped' /\ SharedCounts'
  <2>1. CASE shared_ptr[w] = Null
    BY <1>3, <2>1, SharedConstructs DEF Shared!Lock, Shared!ConstructEmpty
  <2>2. CASE shared_ptr[w] # Null /\ ~Shared!Exists(shared_ptr[w])
    BY <1>3, <2>2, SharedStops DEF Shared!Lock
  <2>3. CASE shared_ptr[w] # Null /\ Shared!Exists(shared_ptr[w])
    <3>1. PICK rhs \in Pointers : rhs = shared_ptr[w]
      BY <1>3, <2>3 DEF SharedTyped, Shared!Lock, Shared!WeakExists
    <3> QED
      BY <1>3, <2>3, <3>1, SharedCopies DEF Shared!Lock, Shared!Exists
  <2> QED
    BY <2>1, <2>2, <2>3
<1>4. CASE Shared!CarefulStep
  BY <1>1, <1>2, <1>3, <1>4, WeaksDoNotCount DEF Shared!CarefulStep
<1> QED
  BY <1>2, <1>3, <1>4, WeaksDoNotCount DEF Shared!AnyStep

\* A careful step does nothing undefined and keeps the subscriptions.
LEMMA CarefulStepKnows ==
    ASSUME SharedTyped, WeaksKnown, Shared!CarefulStep
    PROVE  WeaksKnown'
<1> USE SharedConstants
<1> USE DEF SharedTyped, WeaksKnown, Shared!Exists, Shared!WeakExists
<1>1. ASSUME NEW p \in Pointers, Shared!Construct(p) PROVE WeaksKnown'
  BY <1>1 DEF Shared!Construct
<1>2. ASSUME NEW p \in Pointers, Shared!ConstructEmpty(p) PROVE WeaksKnown'
  BY <1>2 DEF Shared!ConstructEmpty
<1>3. ASSUME NEW p \in Pointers, Shared!Destroy(p) PROVE WeaksKnown'
  BY <1>3 DEF Shared!Destroy, Shared!ResetWeaks
<1>4. ASSUME NEW p \in Pointers, NEW rhs \in Pointers, Shared!Owns(rhs),
             s_data[p] = NoObject, Shared!CopyOf(p, rhs)
      PROVE  WeaksKnown'
  BY <1>4 DEF Shared!Owns, Shared!CopyOf
<1>5. ASSUME NEW p \in Pointers, NEW rhs \in Pointers, Shared!Owns(rhs), p # rhs, Shared!Assign(p, rhs)
      PROVE  WeaksKnown'
  BY <1>5 DEF Shared!Owns, Shared!Assign
<1>6. ASSUME NEW p \in Pointers, NEW rhs \in Pointers, Shared!Move(p, rhs) PROVE WeaksKnown'
  BY <1>6 DEF Shared!Move, Shared!MovedFrom
<1>7. ASSUME NEW p \in Pointers, NEW rhs \in Pointers, Shared!MoveAssign(p, rhs) PROVE WeaksKnown'
  BY <1>7 DEF Shared!MoveAssign, Shared!MovedFrom
<1>8. ASSUME NEW w \in Weaks, Shared!WeakConstructEmpty(w) PROVE WeaksKnown'
  BY <1>8 DEF Shared!WeakConstructEmpty
<1>9. ASSUME NEW w \in Weaks, Shared!WeakDestroy(w) PROVE WeaksKnown'
  <2>1. Shared!Sound(w)
    BY <1>9 DEF Shared!WeakDestroy, Shared!Sound
  <2> QED
    BY <1>9, <2>1 DEF Shared!WeakDestroy, Shared!Resubscribed
<1>10. ASSUME NEW w \in Weaks, NEW p \in Pointers, Shared!WeakConstruct(w, p) PROVE WeaksKnown'
  BY <1>10 DEF Shared!WeakConstruct
<1>11. ASSUME NEW w \in Weaks, NEW p \in Pointers, Shared!WeakAssign(w, p) PROVE WeaksKnown'
  <2>1. Shared!Sound(w)
    BY <1>11 DEF Shared!WeakAssign, Shared!Sound
  <2> QED
    BY <1>11, <2>1 DEF Shared!WeakAssign, Shared!Resubscribed
<1>12. ASSUME NEW w \in Weaks, NEW p \in Pointers, Shared!Lock(w, p),
              shared_ptr[w] \notin {q \in Pointers : ~Shared!Owns(q)}
       PROVE  WeaksKnown'
  <2>1. CASE shared_ptr[w] = Null
    BY <1>12, <2>1 DEF Shared!Lock
  <2>2. CASE shared_ptr[w] # Null
    <3>1. PICK rhs \in Pointers : rhs = shared_ptr[w] /\ Shared!Owns(rhs)
      BY <1>12, <2>2 DEF Shared!Lock
    <3>2. s_data[p] = NoObject /\ Shared!CopyOf(p, rhs)
      BY <1>12, <2>2, <3>1 DEF Shared!Lock, Shared!Owns
    <3> QED
      BY <1>4, <3>1, <3>2
  <2> QED
    BY <2>1, <2>2
<1> QED
  BY <1>1, <1>2, <1>3, <1>4, <1>5, <1>6, <1>7, <1>8, <1>9, <1>10, <1>11, <1>12
  DEF Shared!CarefulStep, Shared!Copy

\* Every step of the program keeps the counts, and every step of a careful one the subscriptions.
LEMMA NextShared == SharedInv /\ [Next]_allVars => SharedInv'
<1> SUFFICES ASSUME SharedInv, [Next]_allVars PROVE SharedInv'
  OBVIOUS
<1>1. CASE UNCHANGED sharedVars
  <2>1. routine' = routine
    BY ComponentSteps
  <2> QED
    BY <1>1, <2>1 DEF sharedVars, SharedInv, SharedTyped, SharedCounts, SharedOwned, WeaksKnown
<1>2. CASE routine = "shared_pointer_careful" /\ Shared!CarefulNext
  BY <1>2, ComponentSteps, AnyStepCounts, CarefulStepKnows
  DEF SharedInv, Shared!CarefulNext, Shared!AnyStep
<1>3. CASE routine # "shared_pointer_careful" /\ Shared!Next
  BY <1>3, ComponentSteps, AnyStepCounts DEF SharedInv, Shared!Next
<1> QED
  BY <1>1, <1>2, <1>3, ComponentSteps
-----------------------------------------------------------------------------
(* The books of a pool *)

(***************************************************************************)
(* What both pools keep true of their chunks: each one carved is either    *)
(* free, or held, or lost; count is the number of the free ones, and no    *)
(* more have been carved than were needed at once (peak).                  *)
(***************************************************************************)
Books(carved, held, lost, Free, count, peak) ==
    /\ IsFiniteSet(carved) /\ count \in Nat
    /\ Free \cap held = {} /\ Free \cap lost = {} /\ held \cap lost = {}
    /\ carved = Free \cup held \cup lost
    /\ Cardinality(carved) = count + Cardinality(held) + Cardinality(lost)
    /\ peak = Cardinality(carved)

\* One chunk added makes a set one larger.
LEMMA OneMore ==
    ASSUME NEW A, NEW c, c \notin A, IsFiniteSet(A)
    PROVE  /\ IsFiniteSet(A \cup {c})
           /\ Cardinality(A) \in Nat /\ Cardinality(A \cup {c}) = Cardinality(A) + 1
  BY FS_AddElement, FS_CardinalityType

\* ... and one taken makes it one smaller.
LEMMA OneLess ==
    ASSUME NEW A, NEW c, c \in A, IsFiniteSet(A)
    PROVE  \E n \in Nat : Cardinality(A) = n + 1 /\ Cardinality(A \ {c}) = n
<1>1. c \notin A \ {c} /\ A \ {c} = (A \ {c}) \ {c}
  OBVIOUS
<1> QED
  BY <1>1, DifferInOne

\* The parts of the books are finite.
LEMMA BooksFinite ==
    ASSUME NEW C, NEW H, NEW L, NEW F, NEW m, NEW p, Books(C, H, L, F, m, p)
    PROVE  /\ IsFiniteSet(H) /\ IsFiniteSet(L) /\ IsFiniteSet(C)
           /\ \E h \in Nat, l \in Nat : h = Cardinality(H) /\ l = Cardinality(L) /\ p = m + h + l
<1>1. H \subseteq C /\ L \subseteq C /\ IsFiniteSet(C)
  BY DEF Books
<1>2. IsFiniteSet(H) /\ IsFiniteSet(L) /\ Cardinality(H) \in Nat /\ Cardinality(L) \in Nat
  BY <1>1, FS_Subset, FS_CardinalityType
<1> QED
  BY <1>1, <1>2 DEF Books

\* Holding and losing are alike to the books.
LEMMA BooksSwap ==
    ASSUME NEW C, NEW H, NEW L, NEW F, NEW m, NEW p, Books(C, H, L, F, m, p)
    PROVE  Books(C, L, H, F, m, p)
<1>1. PICK h \in Nat, l \in Nat : h = Cardinality(H) /\ l = Cardinality(L) /\ p = m + h + l
  BY BooksFinite
<1>2. m \in Nat /\ p = Cardinality(C)
  BY DEF Books
<1>3. Cardinality(C) = m + Cardinality(L) + Cardinality(H)
  BY <1>1, <1>2
<1> QED
  BY <1>3 DEF Books

\* New takes a free chunk.
LEMMA BooksTake ==
    ASSUME NEW C, NEW H, NEW L, NEW F, NEW m, NEW p, Books(C, H, L, F, m, p),
           NEW c \in F, m # 0
    PROVE  /\ Books(C, H \cup {c}, L, F \ {c}, m - 1, p)
           /\ p \in Nat /\ Cardinality(H) + Cardinality(L) + 1 \in Nat
           /\ Cardinality(H) + Cardinality(L) + 1 <= p
<1>1. PICK h \in Nat, l \in Nat : h = Cardinality(H) /\ l = Cardinality(L) /\ p = m + h + l
  BY BooksFinite
<1>2. c \notin H /\ m \in Nat /\ p = Cardinality(C)
  BY DEF Books
<1>3. IsFiniteSet(H)
  BY BooksFinite
<1>4. Cardinality(H \cup {c}) = h + 1
  BY <1>1, <1>2, <1>3, OneMore
<1>5. m - 1 \in Nat /\ Cardinality(C) = (m - 1) + Cardinality(H \cup {c}) + Cardinality(L)
  BY <1>1, <1>2, <1>4
<1>6. /\ (F \ {c}) \cap (H \cup {c}) = {} /\ (F \ {c}) \cap L = {} /\ (H \cup {c}) \cap L = {}
      /\ C = (F \ {c}) \cup (H \cup {c}) \cup L
  BY DEF Books
<1>7. Books(C, H \cup {c}, L, F \ {c}, m - 1, p)
  BY <1>2, <1>5, <1>6 DEF Books
<1> QED
  BY <1>1, <1>2, <1>7

\* When nothing is free, New carves a chunk.
LEMMA BooksCarve ==
    ASSUME NEW C, NEW H, NEW L, NEW p, Books(C, H, L, {}, 0, p), NEW c, c \notin C
    PROVE  /\ Books(C \cup {c}, H \cup {c}, L, {}, 0, p + 1)
           /\ p \in Nat /\ Cardinality(H) + Cardinality(L) = p
<1>1. PICK h \in Nat, l \in Nat : h = Cardinality(H) /\ l = Cardinality(L) /\ p = 0 + h + l
  BY BooksFinite
<1>2. c \notin H /\ c \notin L /\ p = Cardinality(C)
  BY DEF Books
<1>3. IsFiniteSet(H) /\ IsFiniteSet(C)
  BY BooksFinite
<1>4. Cardinality(H \cup {c}) = h + 1
  BY <1>1, <1>2, <1>3, OneMore
<1>5. IsFiniteSet(C \cup {c}) /\ Cardinality(C \cup {c}) = p + 1
  BY <1>2, <1>3, OneMore
<1>6. Cardinality(C \cup {c}) = 0 + Cardinality(H \cup {c}) + Cardinality(L)
  BY <1>1, <1>4, <1>5
<1>7. (H \cup {c}) \cap L = {} /\ C \cup {c} = {} \cup (H \cup {c}) \cup L
  BY <1>2 DEF Books
<1>8. Books(C \cup {c}, H \cup {c}, L, {}, 0, p + 1)
  BY <1>5, <1>6, <1>7 DEF Books
<1> QED
  BY <1>1, <1>8

\* Release frees a chunk that was held.
LEMMA BooksRelease ==
    ASSUME NEW C, NEW H, NEW L, NEW F, NEW m, NEW p, Books(C, H, L, F, m, p), NEW c \in H
    PROVE  Books(C, H \ {c}, L, F \cup {c}, m + 1, p)
<1>1. PICK h \in Nat, l \in Nat : h = Cardinality(H) /\ l = Cardinality(L) /\ p = m + h + l
  BY BooksFinite
<1>2. IsFiniteSet(H) /\ m \in Nat /\ p = Cardinality(C)
  BY BooksFinite DEF Books
<1>3. PICK q \in Nat : Cardinality(H) = q + 1 /\ Cardinality(H \ {c}) = q
  BY <1>2, OneLess
<1>4. m + 1 \in Nat /\ Cardinality(C) = (m + 1) + Cardinality(H \ {c}) + Cardinality(L)
  BY <1>1, <1>2, <1>3
<1>5. /\ (F \cup {c}) \cap (H \ {c}) = {} /\ (F \cup {c}) \cap L = {} /\ (H \ {c}) \cap L = {}
      /\ C = (F \cup {c}) \cup (H \ {c}) \cup L
  BY DEF Books
<1> QED
  BY <1>2, <1>4, <1>5 DEF Books
-----------------------------------------------------------------------------
(* Carving chunks *)

PoolChunks == (1 .. MaxNodes) \X (0 .. NodeCapacity - 1)

\* The chunks carved when there are n nodes and k chunks of the latest are in use.
CarvedOf(n, k) == {c \in PoolChunks : c[1] < n \/ (c[1] = n /\ c[2] < k)}

HeldBy(holders) == {c \in PoolChunks : holders[c] > 0}

\* What the proofs use of the constants.
LEMMA PoolConstants == NodeCapacity \in Nat \ {0} /\ MaxNodes \in Nat \ {0}
  BY RoutinesAssumption DEF OPool!ListPoolAssumption

\* There are finitely many chunks.
LEMMA ChunksFinite ==
    /\ IsFiniteSet(PoolChunks)
    /\ \A A : A \subseteq PoolChunks => IsFiniteSet(A) /\ Cardinality(A) \in Nat
<1>1. IsFiniteSet(1 .. MaxNodes) /\ IsFiniteSet(0 .. NodeCapacity - 1)
  BY PoolConstants, FS_Interval
<1>2. IsFiniteSet(PoolChunks)
  BY <1>1, FS_Product DEF PoolChunks
<1> QED
  BY <1>2, FS_Subset, FS_CardinalityType

\* Carving the next chunk of a node.
LEMMA CarveNext ==
    ASSUME NEW n \in 1 .. MaxNodes, NEW k \in 0 .. NodeCapacity, k < NodeCapacity
    PROVE  /\ <<n, k>> \in PoolChunks \ CarvedOf(n, k)
           /\ CarvedOf(n, k + 1) = CarvedOf(n, k) \cup {<<n, k>>}
<1> USE PoolConstants
<1>1. <<n, k>> \in PoolChunks \ CarvedOf(n, k)
  BY DEF PoolChunks, CarvedOf
<1>2. ASSUME NEW c \in PoolChunks PROVE c \in CarvedOf(n, k + 1) <=> c \in CarvedOf(n, k) \cup {<<n, k>>}
  <2>1. c = <<c[1], c[2]>> /\ c[1] \in Nat /\ c[2] \in Nat
    BY DEF PoolChunks
  <2> QED
    BY <2>1 DEF CarvedOf
<1> QED
  BY <1>1, <1>2 DEF CarvedOf

\* Carving the first chunk of a new node.
LEMMA CarveNewNode ==
    ASSUME NEW n \in 1 .. MaxNodes, n < MaxNodes
    PROVE  /\ <<n + 1, 0>> \in PoolChunks \ CarvedOf(n, NodeCapacity)
           /\ CarvedOf(n + 1, 1) = CarvedOf(n, NodeCapacity) \cup {<<n + 1, 0>>}
<1> USE PoolConstants
<1>1. <<n + 1, 0>> \in PoolChunks \ CarvedOf(n, NodeCapacity)
  BY DEF PoolChunks, CarvedOf
<1>2. ASSUME NEW c \in PoolChunks
      PROVE  c \in CarvedOf(n + 1, 1) <=> c \in CarvedOf(n, NodeCapacity) \cup {<<n + 1, 0>>}
  <2>1. c = <<c[1], c[2]>> /\ c[1] \in Nat /\ c[2] \in Nat /\ c[2] < NodeCapacity
    BY DEF PoolChunks
  <2> QED
    BY <2>1 DEF CarvedOf
<1> QED
  BY <1>1, <1>2 DEF CarvedOf

-----------------------------------------------------------------------------
(* Steps of both pools *)

\* New takes a free chunk, which its caller holds or which the constructor that throws loses.
LEMMA BooksNew ==
    ASSUME NEW C, NEW H, NEW L, NEW F, NEW m, NEW p, Books(C, H, L, F, m, p),
           NEW c \in F, m # 0, NEW throws \in BOOLEAN, NEW H2, NEW L2,
           throws => H2 = H /\ L2 = L \cup {c},
           ~throws => H2 = H \cup {c} /\ L2 = L
    PROVE  Books(C, H2, L2, F \ {c}, m - 1, p)
<1>1. CASE throws
  <2>1. Books(C, L \cup {c}, H, F \ {c}, m - 1, p)
    BY BooksSwap, BooksTake
  <2> QED
    BY <1>1, <2>1, BooksSwap
<1>2. CASE ~throws
  BY <1>2, BooksTake
<1> QED
  BY <1>1, <1>2

\* When nothing is free, it carves one.
LEMMA BooksNewChunk ==
    ASSUME NEW C, NEW H, NEW L, NEW p, Books(C, H, L, {}, 0, p),
           NEW c, c \notin C, NEW throws \in BOOLEAN, NEW H2, NEW L2,
           throws => H2 = H /\ L2 = L \cup {c},
           ~throws => H2 = H \cup {c} /\ L2 = L
    PROVE  Books(C \cup {c}, H2, L2, {}, 0, p + 1)
<1>1. CASE throws
  <2>1. Books(C, L, H, {}, 0, p)
    BY BooksSwap
  <2>2. Books(C \cup {c}, L \cup {c}, H, {}, 0, p + 1)
    BY <2>1, BooksCarve
  <2> QED
    BY <1>1, <2>2, BooksSwap
<1>2. CASE ~throws
  BY <1>2, BooksCarve
<1> QED
  BY <1>1, <1>2

\* New changes the holders of one chunk.
LEMMA HolderTakes ==
    ASSUME NEW h \in [PoolChunks -> {0, 1}], NEW c \in PoolChunks, c \notin HeldBy(h),
           NEW h2, h2 = [h EXCEPT ![c] = @ + 1]
    PROVE  /\ h2 \in [PoolChunks -> {0, 1}] /\ HeldBy(h2) = HeldBy(h) \cup {c}
           /\ h[c] = 0 /\ h2 = [h EXCEPT ![c] = 1]
<1>1. h[c] \in {0, 1} /\ ~(h[c] > 0)
  BY DEF HeldBy
<1>2. h[c] = 0 /\ h[c] + 1 = 1
  BY <1>1
<1>3. h2 = [h EXCEPT ![c] = 1]
  BY <1>2
<1>4. h2 \in [PoolChunks -> {0, 1}] /\ h2[c] = 1 /\ \A d \in PoolChunks : d # c => h2[d] = h[d]
  BY <1>3
<1>5. HeldBy(h2) = HeldBy(h) \cup {c}
  BY <1>4 DEF HeldBy
<1> QED
  BY <1>2, <1>3, <1>4, <1>5

\* ... and Release frees it again.
LEMMA HolderReleases ==
    ASSUME NEW h \in [PoolChunks -> {0, 1}], NEW c \in HeldBy(h),
           NEW h2, h2 = [h EXCEPT ![c] = @ - 1]
    PROVE  /\ h2 \in [PoolChunks -> {0, 1}] /\ HeldBy(h2) = HeldBy(h) \ {c}
           /\ h[c] = 1 /\ h2 = [h EXCEPT ![c] = 0]
<1>1. c \in PoolChunks /\ h[c] \in {0, 1} /\ h[c] > 0
  BY DEF HeldBy
<1>2. h[c] = 1 /\ h[c] - 1 = 0
  BY <1>1
<1>3. h2 = [h EXCEPT ![c] = 0]
  BY <1>2
<1>4. h2 \in [PoolChunks -> {0, 1}] /\ h2[c] = 0 /\ \A d \in PoolChunks : d # c => h2[d] = h[d]
  BY <1>1, <1>3
<1>5. HeldBy(h2) = HeldBy(h) \ {c}
  BY <1>4 DEF HeldBy
<1> QED
  BY <1>2, <1>3, <1>4, <1>5
-----------------------------------------------------------------------------
(* ListPool *)

\* The names of the pool and those of the books.
LEMMA OPoolNames ==
    /\ OPool!Chunks = PoolChunks
    /\ OPool!held = HeldBy(l_holders)
    /\ OPool!Carved = CarvedOf(l_nodes, cur_free_idx)
    /\ \A S : OPool!Cardinality(S) = Cardinality(S)
  BY DEF OPool!Chunks, PoolChunks, OPool!held, HeldBy, OPool!Carved, CarvedOf,
         Cardinality, OPool!Cardinality

Elements(s) == {s[i] : i \in 1 .. Len(s)}

(***************************************************************************)
(* The books of opool.cc, whose free chunks are queued on freelist; in a   *)
(* chunk that a caller holds an object lives.                              *)
(***************************************************************************)
OPoolBooks ==
    Books(CarvedOf(l_nodes, cur_free_idx), HeldBy(l_holders), l_lost,
          Elements(freelist), Len(freelist), l_peak)

OPoolInv ==
    /\ l_nodes \in 1 .. MaxNodes /\ cur_free_idx \in 0 .. NodeCapacity
    /\ freelist \in Seq(PoolChunks)
    /\ \A i, j \in 1 .. Len(freelist) : freelist[i] = freelist[j] => i = j
    /\ l_holders \in [PoolChunks -> {0, 1}]
    /\ HeldBy(l_holders) \subseteq objects /\ objects \subseteq PoolChunks
    /\ OPoolBooks

\* Nothing is carved when the pool is constructed.
LEMMA NothingCarved == CarvedOf(1, 0) = {}
<1>1. ASSUME NEW c \in PoolChunks PROVE ~(c[1] < 1 \/ (c[1] = 1 /\ c[2] < 0))
  BY <1>1 DEF PoolChunks
<1> QED
  BY <1>1 DEF CarvedOf

\* ... and the books of a pool that has carved nothing are in order.
LEMMA NothingBooked == Books({}, {}, {}, {}, 0, 0)
  BY FS_EmptySet DEF Books

\* The pool is constructed with one node.
LEMMA InitOPool == Init => OPoolInv
<1> SUFFICES ASSUME Init PROVE OPoolInv
  OBVIOUS
<1> USE PoolConstants
<1>1. OPool!Init
  BY DEF Init
<1>2. /\ l_nodes = 1 /\ cur_free_idx = 0 /\ freelist = <<>>
      /\ l_holders = [c \in PoolChunks |-> 0] /\ l_lost = {} /\ l_peak = 0
      /\ objects = OPool!NodeChunks(1)
  BY <1>1, OPoolNames DEF OPool!Init
<1>3. HeldBy(l_holders) = {} /\ Elements(freelist) = {} /\ Len(freelist) = 0
  BY <1>2 DEF HeldBy, Elements
<1>4. OPoolBooks
  BY <1>2, <1>3, NothingCarved, NothingBooked DEF OPoolBooks
<1>5. objects \subseteq PoolChunks
  BY <1>2 DEF OPool!NodeChunks, PoolChunks
<1> QED
  BY <1>2, <1>3, <1>4, <1>5 DEF OPoolInv

\* What is left of a queue without repetition when its front is taken.
LEMMA QueueFront ==
    ASSUME NEW s \in Seq(PoolChunks), s # <<>>,
           \A i, j \in 1 .. Len(s) : s[i] = s[j] => i = j
    PROVE  /\ Head(s) \in Elements(s) /\ Len(s) # 0
           /\ Tail(s) \in Seq(PoolChunks) /\ Len(Tail(s)) = Len(s) - 1
           /\ Elements(Tail(s)) = Elements(s) \ {Head(s)}
           /\ \A i, j \in 1 .. Len(Tail(s)) : Tail(s)[i] = Tail(s)[j] => i = j
<1> DEFINE t == Tail(s)
<1>1. Len(s) \in Nat /\ Len(s) # 0 /\ Head(s) = s[1]
  OBVIOUS
<1>2. /\ t \in Seq(PoolChunks) /\ Len(t) = Len(s) - 1
      /\ \A i \in 1 .. Len(t) : t[i] = s[i + 1]
  BY <1>1
<1> HIDE DEF t
<1>3. \A i \in 1 .. Len(t) : i + 1 \in 1 .. Len(s) /\ t[i] # s[1]
  <2> TAKE i \in 1 .. Len(t)
  <2>1. i + 1 \in 1 .. Len(s) /\ 1 \in 1 .. Len(s) /\ i + 1 # 1
    BY <1>1, <1>2
  <2> QED
    BY <2>1, <1>2
<1>4. ASSUME NEW i \in 1 .. Len(s), s[i] # s[1] PROVE \E j \in 1 .. Len(t) : s[i] = t[j]
  <2>1. i - 1 \in 1 .. Len(t) /\ s[i] = t[i - 1]
    BY <1>1, <1>2, <1>4
  <2> QED
    BY <2>1
<1>5. Elements(t) = Elements(s) \ {s[1]}
  <2>1. ASSUME NEW x \in Elements(s), x # s[1] PROVE x \in Elements(t)
    BY <2>1, <1>4 DEF Elements
  <2>2. ASSUME NEW x \in Elements(t) PROVE x \in Elements(s) \ {s[1]}
    BY <1>2, <1>3 DEF Elements
  <2> QED
    BY <2>1, <2>2
<1>6. ASSUME NEW i \in 1 .. Len(t), NEW j \in 1 .. Len(t), t[i] = t[j] PROVE i = j
  <2>1. i + 1 \in 1 .. Len(s) /\ j + 1 \in 1 .. Len(s) /\ s[i + 1] = s[j + 1]
    BY <1>2, <1>3, <1>6
  <2> QED
    BY <2>1
<1>7. s[1] \in Elements(s)
  BY <1>1 DEF Elements
<1> QED
  BY <1>1, <1>2, <1>5, <1>6, <1>7 DEF t

\* ... and when a new element is queued.
LEMMA QueueBack ==
    ASSUME NEW s \in Seq(PoolChunks), NEW c \in PoolChunks, c \notin Elements(s),
           \A i, j \in 1 .. Len(s) : s[i] = s[j] => i = j
    PROVE  /\ Append(s, c) \in Seq(PoolChunks) /\ Len(Append(s, c)) = Len(s) + 1
           /\ Elements(Append(s, c)) = Elements(s) \cup {c}
           /\ \A i, j \in 1 .. Len(Append(s, c)) : Append(s, c)[i] = Append(s, c)[j] => i = j
<1> DEFINE t == Append(s, c)
<1>1. /\ t \in Seq(PoolChunks) /\ Len(t) = Len(s) + 1 /\ Len(s) \in Nat
      /\ \A i \in 1 .. Len(s) : t[i] = s[i]
      /\ t[Len(s) + 1] = c
  OBVIOUS
<1> HIDE DEF t
<1>2. \A i \in 1 .. Len(t) : i \in 1 .. Len(s) \/ i = Len(s) + 1
  BY <1>1
<1>3. \A i \in 1 .. Len(s) : i \in 1 .. Len(t) /\ t[i] # c
  BY <1>1 DEF Elements
<1>4. Len(s) + 1 \in 1 .. Len(t)
  BY <1>1
<1>5. Elements(t) = Elements(s) \cup {c}
  BY <1>1, <1>2, <1>3, <1>4 DEF Elements
<1>6. \A i, j \in 1 .. Len(t) : t[i] = t[j] => i = j
  BY <1>1, <1>2, <1>3
<1> QED
  BY <1>1, <1>5, <1>6 DEF t

\* The caller's object is constructed in chunk c, or its constructor throws.
LEMMA OPoolConstructs ==
    ASSUME OPoolInv, NEW throws \in BOOLEAN, NEW c \in PoolChunks, c \notin HeldBy(l_holders),
           NEW built, objects \subseteq built, built \subseteq PoolChunks,
           OPool!Construct(c, throws, built)
    PROVE  /\ l_holders' \in [PoolChunks -> {0, 1}]
           /\ throws => HeldBy(l_holders') = HeldBy(l_holders) /\ l_lost' = l_lost \cup {c}
           /\ ~throws => HeldBy(l_holders') = HeldBy(l_holders) \cup {c} /\ l_lost' = l_lost
           /\ HeldBy(l_holders') \subseteq objects' /\ objects' \subseteq PoolChunks
           /\ [OPool!Promise!PoolNext]_l_holders
<1>1. CASE throws
  <2>1. /\ l_holders' = l_holders /\ l_lost' = l_lost \cup {c}
        /\ objects' = built \ {c}
    BY <1>1 DEF OPool!Construct
  <2> QED
    BY <1>1, <2>1 DEF OPoolInv
<1>2. CASE ~throws
  <2>1. /\ l_holders' = [l_holders EXCEPT ![c] = @ + 1] /\ l_lost' = l_lost
        /\ objects' = built \cup {c}
    BY <1>2 DEF OPool!Construct
  <2>2. /\ l_holders' \in [PoolChunks -> {0, 1}]
        /\ HeldBy(l_holders') = HeldBy(l_holders) \cup {c}
        /\ l_holders[c] = 0 /\ l_holders' = [l_holders EXCEPT ![c] = 1]
    BY <2>1, HolderTakes DEF OPoolInv
  <2>3. OPool!Promise!PoolNext
    BY <2>2, OPoolNames DEF OPool!Promise!PoolNext, OPool!Promise!PoolNew
  <2> QED
    BY <1>2, <2>1, <2>2, <2>3 DEF OPoolInv
<1> QED
  BY <1>1, <1>2

\* The most ever needed grows when a chunk is carved, and not when one is used again.
LEMMA OPoolPeak ==
    ASSUME OPoolInv, NEW c, NEW throws, NEW built, OPool!Construct(c, throws, built)
    PROVE  /\ freelist # <<>> => l_peak' = l_peak
           /\ freelist = <<>> => l_peak' = l_peak + 1
<1>1. l_peak' = OPool!Larger(l_peak, Cardinality(HeldBy(l_holders)) + Cardinality(l_lost) + 1)
  BY OPoolNames DEF OPool!Construct
<1>2. PICK h \in Nat, l \in Nat : /\ h = Cardinality(HeldBy(l_holders)) /\ l = Cardinality(l_lost)
                                  /\ l_peak = Len(freelist) + h + l
  BY BooksFinite DEF OPoolInv, OPoolBooks
<1>3. PICK m \in Nat : m = Len(freelist) /\ (m = 0 <=> freelist = <<>>)
  BY DEF OPoolInv
<1>4. l_peak' = OPool!Larger(l_peak, h + l + 1) /\ l_peak = m + h + l
  BY <1>1, <1>2, <1>3
<1>5. CASE m = 0
  <2>1. OPool!Larger(m + h + l, h + l + 1) = m + h + l + 1
    BY <1>5 DEF OPool!Larger
  <2> QED
    BY <1>3, <1>4, <1>5, <2>1
<1>6. CASE m # 0
  <2>1. OPool!Larger(m + h + l, h + l + 1) = m + h + l
    BY <1>6 DEF OPool!Larger
  <2> QED
    BY <1>3, <1>4, <1>6, <2>1
<1> QED
  BY <1>5, <1>6

\* New takes the front of freelist, if it has one.
LEMMA OPoolNewFromFreelist ==
    ASSUME OPoolInv, NEW throws \in BOOLEAN, OPool!NewFromFreelist(throws)
    PROVE  OPoolInv' /\ [OPool!Promise!PoolNext]_l_holders
<1> DEFINE c == Head(freelist)
<1>1. /\ freelist # <<>> /\ freelist' = Tail(freelist)
      /\ OPool!Construct(c, throws, objects) /\ UNCHANGED <<l_nodes, cur_free_idx>>
  BY DEF OPool!NewFromFreelist
<1>2. /\ c \in Elements(freelist) /\ Len(freelist) # 0
      /\ freelist' \in Seq(PoolChunks) /\ Len(freelist') = Len(freelist) - 1
      /\ Elements(freelist') = Elements(freelist) \ {c}
      /\ \A i, j \in 1 .. Len(freelist') : freelist'[i] = freelist'[j] => i = j
  BY <1>1, QueueFront DEF OPoolInv
<1>3. c \in PoolChunks /\ c \notin HeldBy(l_holders)
  BY <1>1, <1>2 DEF OPoolInv, OPoolBooks, Books
<1> HIDE DEF c
<1>4. l_peak' = l_peak
  BY <1>1, OPoolPeak
<1>5. /\ l_holders' \in [PoolChunks -> {0, 1}]
      /\ throws => HeldBy(l_holders') = HeldBy(l_holders) /\ l_lost' = l_lost \cup {c}
      /\ ~throws => HeldBy(l_holders') = HeldBy(l_holders) \cup {c} /\ l_lost' = l_lost
      /\ HeldBy(l_holders') \subseteq objects' /\ objects' \subseteq PoolChunks
      /\ [OPool!Promise!PoolNext]_l_holders
  BY <1>1, <1>3, OPoolConstructs DEF OPoolInv
<1>6. OPoolBooks'
  <2>1. Books(CarvedOf(l_nodes, cur_free_idx), HeldBy(l_holders'), l_lost',
              Elements(freelist) \ {c}, Len(freelist) - 1, l_peak)
    BY <1>2, <1>5, BooksNew DEF OPoolInv, OPoolBooks
  <2> QED
    BY <2>1, <1>1, <1>2, <1>4 DEF OPoolBooks
<1> QED
  BY <1>1, <1>2, <1>5, <1>6 DEF OPoolInv

\* Carving: what the two ways to do it have in common.
LEMMA OPoolCarves ==
    ASSUME OPoolInv, NEW throws \in BOOLEAN, freelist = <<>>, freelist' = freelist,
           l_nodes' \in 1 .. MaxNodes, cur_free_idx' \in 0 .. NodeCapacity,
           NEW c \in PoolChunks \ CarvedOf(l_nodes, cur_free_idx),
           CarvedOf(l_nodes', cur_free_idx') = CarvedOf(l_nodes, cur_free_idx) \cup {c},
           NEW built, objects \subseteq built, built \subseteq PoolChunks,
           OPool!Construct(c, throws, built)
    PROVE  OPoolInv' /\ [OPool!Promise!PoolNext]_l_holders
<1>1. c \notin HeldBy(l_holders)
  BY DEF OPoolInv, OPoolBooks, Books
<1>2. /\ l_holders' \in [PoolChunks -> {0, 1}]
      /\ throws => HeldBy(l_holders') = HeldBy(l_holders) /\ l_lost' = l_lost \cup {c}
      /\ ~throws => HeldBy(l_holders') = HeldBy(l_holders) \cup {c} /\ l_lost' = l_lost
      /\ HeldBy(l_holders') \subseteq objects' /\ objects' \subseteq PoolChunks
      /\ [OPool!Promise!PoolNext]_l_holders
  BY <1>1, OPoolConstructs
<1>3. l_peak' = l_peak + 1
  BY OPoolPeak
<1>4. Elements(freelist) = {} /\ Len(freelist) = 0
  BY DEF Elements
<1>5. Books(CarvedOf(l_nodes, cur_free_idx), HeldBy(l_holders), l_lost, {}, 0, l_peak)
  BY <1>4 DEF OPoolInv, OPoolBooks
<1>6. Books(CarvedOf(l_nodes', cur_free_idx'), HeldBy(l_holders'), l_lost', {}, 0, l_peak + 1)
  BY <1>2, <1>5, BooksNewChunk
<1>7. OPoolBooks'
  BY <1>3, <1>4, <1>6 DEF OPoolBooks
<1> QED
  BY <1>2, <1>7 DEF OPoolInv

\* The next chunk of the latest node.
LEMMA OPoolNewFromNode ==
    ASSUME OPoolInv, NEW throws \in BOOLEAN, OPool!NewFromNode(throws)
    PROVE  OPoolInv' /\ [OPool!Promise!PoolNext]_l_holders
<1> DEFINE c == <<l_nodes, cur_free_idx>>
<1>1. /\ freelist = <<>> /\ freelist' = freelist /\ cur_free_idx < NodeCapacity
      /\ l_nodes' = l_nodes /\ cur_free_idx' = cur_free_idx + 1
      /\ OPool!Construct(c, throws, objects)
      /\ l_nodes \in 1 .. MaxNodes /\ cur_free_idx \in 0 .. NodeCapacity
  BY PoolConstants DEF OPool!NewFromNode, OPool!full, OPoolInv
<1>2. /\ c \in PoolChunks \ CarvedOf(l_nodes, cur_free_idx)
      /\ CarvedOf(l_nodes, cur_free_idx + 1) = CarvedOf(l_nodes, cur_free_idx) \cup {c}
  BY <1>1, CarveNext
<1>3. l_nodes' \in 1 .. MaxNodes /\ cur_free_idx' \in 0 .. NodeCapacity
  BY <1>1, PoolConstants
<1>4. objects \subseteq PoolChunks
  BY DEF OPoolInv
<1> HIDE DEF c
<1> QED
  BY <1>1, <1>2, <1>3, <1>4, OPoolCarves

\* The first chunk of a new node.
LEMMA OPoolNewFromNewNode ==
    ASSUME OPoolInv, NEW throws \in BOOLEAN, OPool!NewFromNewNode(throws)
    PROVE  OPoolInv' /\ [OPool!Promise!PoolNext]_l_holders
<1> DEFINE c == <<l_nodes + 1, 0>>
           built == objects \cup OPool!NodeChunks(l_nodes + 1)
<1>1. /\ freelist = <<>> /\ freelist' = freelist /\ cur_free_idx = NodeCapacity
      /\ l_nodes < MaxNodes /\ l_nodes' = l_nodes + 1 /\ cur_free_idx' = 1
      /\ OPool!Construct(c, throws, built)
      /\ l_nodes \in 1 .. MaxNodes
  BY PoolConstants DEF OPool!NewFromNewNode, OPool!full, OPoolInv
<1>2. /\ c \in PoolChunks \ CarvedOf(l_nodes, NodeCapacity)
      /\ CarvedOf(l_nodes + 1, 1) = CarvedOf(l_nodes, NodeCapacity) \cup {c}
  BY <1>1, CarveNewNode
<1>3. l_nodes' \in 1 .. MaxNodes /\ cur_free_idx' \in 0 .. NodeCapacity
  BY <1>1, PoolConstants
<1>4. objects \subseteq built /\ built \subseteq PoolChunks
  BY <1>1, <1>3 DEF OPoolInv, OPool!NodeChunks, PoolChunks
<1> HIDE DEF c, built
<1> QED
  BY <1>1, <1>2, <1>3, <1>4, OPoolCarves

\* Release queues the chunk behind the others.
LEMMA OPoolReleases ==
    ASSUME OPoolInv, NEW c, OPool!Release(c)
    PROVE  OPoolInv' /\ [OPool!Promise!PoolNext]_l_holders
<1>1. /\ c \in HeldBy(l_holders) /\ l_holders' = [l_holders EXCEPT ![c] = @ - 1]
      /\ objects' = objects \ {c} /\ freelist' = Append(freelist, c)
      /\ UNCHANGED <<l_nodes, cur_free_idx, l_lost, l_peak>>
  BY OPoolNames DEF OPool!Release, OPool!Queued
<1>2. /\ l_holders' \in [PoolChunks -> {0, 1}]
      /\ HeldBy(l_holders') = HeldBy(l_holders) \ {c}
      /\ l_holders[c] = 1 /\ l_holders' = [l_holders EXCEPT ![c] = 0]
  BY <1>1, HolderReleases DEF OPoolInv
<1>3. c \in PoolChunks /\ c \notin Elements(freelist)
  BY <1>1 DEF OPoolInv, OPoolBooks, Books, HeldBy
<1>4. /\ freelist' \in Seq(PoolChunks) /\ Len(freelist') = Len(freelist) + 1
      /\ Elements(freelist') = Elements(freelist) \cup {c}
      /\ \A i, j \in 1 .. Len(freelist') : freelist'[i] = freelist'[j] => i = j
  BY <1>1, <1>3, QueueBack DEF OPoolInv
<1>5. OPoolBooks'
  <2>1. Books(CarvedOf(l_nodes, cur_free_idx), HeldBy(l_holders) \ {c}, l_lost,
              Elements(freelist) \cup {c}, Len(freelist) + 1, l_peak)
    BY <1>1, BooksRelease DEF OPoolInv, OPoolBooks
  <2> QED
    BY <2>1, <1>1, <1>2, <1>4 DEF OPoolBooks
<1>6. OPool!Promise!PoolNext
  BY <1>2, <1>3, OPoolNames DEF OPool!Promise!PoolNext, OPool!Promise!PoolRelease
<1>7. HeldBy(l_holders') \subseteq objects' /\ objects' \subseteq PoolChunks
  BY <1>1, <1>2 DEF OPoolInv
<1> QED
  BY <1>1, <1>2, <1>4, <1>5, <1>6, <1>7 DEF OPoolInv

\* Every step of the program keeps the books, and New hands out a chunk that nobody holds.
LEMMA NextOPool ==
    ASSUME OPoolInv, [Next]_allVars
    PROVE  OPoolInv' /\ [OPool!Promise!PoolNext]_l_holders
<1>1. CASE UNCHANGED opoolVars
  BY <1>1 DEF opoolVars, OPoolInv, OPoolBooks
<1>2. CASE OPool!Next
  BY <1>2, OPoolNewFromFreelist, OPoolNewFromNode, OPoolNewFromNewNode, OPoolReleases
  DEF OPool!Next
<1> QED
  BY <1>1, <1>2, ComponentSteps
-----------------------------------------------------------------------------
(* IntrusivePool *)

\* The names of the pool and those of the books.
LEMMA ObjectPoolNames ==
    /\ ObjectPool!Chunks = PoolChunks
    /\ ObjectPool!held = HeldBy(i_holders)
    /\ ObjectPool!Carved = CarvedOf(i_nodes, current)
    /\ \A S : ObjectPool!Cardinality(S) = Cardinality(S)
  BY DEF ObjectPool!Chunks, PoolChunks, ObjectPool!held, HeldBy, ObjectPool!Carved, CarvedOf,
         Cardinality, ObjectPool!Cardinality

\* nullptr is no chunk.
LEMMA NullIsNoChunk == Null \notin PoolChunks
  BY RoutinesAssumption DEF ObjectPool!IntrusivePoolAssumption, ObjectPool!Chunks, PoolChunks

\* f[1], ..., f[m] are the free chunks, the last released first on the list.
IsChain(f, m, top, after) ==
    /\ f \in [Nat -> PoolChunks] /\ m \in Nat
    /\ \A i, j \in 1 .. m : f[i] = f[j] => i = j
    /\ top = IF m = 0 THEN Null ELSE f[m]
    /\ \A i \in 1 .. m : after[f[i]] = IF i = 1 THEN Null ELSE f[i - 1]

Chained(f, m) == {f[i] : i \in 1 .. m}

(***************************************************************************)
(* The books of object-pool.cc, whose free chunks are chained from         *)
(* free_list through the words before their objects.                       *)
(***************************************************************************)
ObjectPoolBooks(f, m) ==
    /\ IsChain(f, m, free_list, link)
    /\ Books(CarvedOf(i_nodes, current), HeldBy(i_holders), i_lost, Chained(f, m), m, i_peak)

ObjectPoolInv ==
    /\ i_nodes \in 1 .. MaxNodes /\ current \in 0 .. NodeCapacity
    /\ link \in [PoolChunks -> PoolChunks \cup {Null}]
    /\ i_holders \in [PoolChunks -> {0, 1}]
    /\ \E f \in [Nat -> PoolChunks], m \in Nat : ObjectPoolBooks(f, m)

\* The pool is constructed with one node.
LEMMA InitObjectPool == Init => ObjectPoolInv
<1> SUFFICES ASSUME Init PROVE ObjectPoolInv
  OBVIOUS
<1> USE PoolConstants
<1>1. ObjectPool!Init
  BY DEF Init
<1>2. /\ i_nodes = 1 /\ current = 0 /\ free_list = Null /\ link = [c \in PoolChunks |-> Null]
      /\ i_holders = [c \in PoolChunks |-> 0] /\ i_lost = {} /\ i_peak = 0
  BY <1>1, ObjectPoolNames DEF ObjectPool!Init
<1> DEFINE f == [n \in Nat |-> <<1, 0>>]
<1>3. <<1, 0>> \in PoolChunks
  BY DEF PoolChunks
<1>4. f \in [Nat -> PoolChunks] /\ Chained(f, 0) = {} /\ IsChain(f, 0, free_list, link)
  BY <1>2, <1>3 DEF Chained, IsChain
<1> HIDE DEF f
<1>5. HeldBy(i_holders) = {}
  BY <1>2 DEF HeldBy
<1>6. ObjectPoolBooks(f, 0)
  BY <1>2, <1>4, <1>5, NothingCarved, NothingBooked DEF ObjectPoolBooks
<1> QED
  BY <1>2, <1>4, <1>6 DEF ObjectPoolInv

\* The first chunk is taken from the chain ...
LEMMA ChainPop ==
    ASSUME NEW f, NEW m, NEW top, NEW after, IsChain(f, m, top, after), top # Null
    PROVE  /\ m # 0 /\ top = f[m] /\ top \in Chained(f, m)
           /\ IsChain(f, m - 1, after[top], after)
           /\ Chained(f, m - 1) = Chained(f, m) \ {top}
<1>1. m \in Nat /\ m # 0 /\ top = f[m] /\ m \in 1 .. m
  BY DEF IsChain
<1>2. m - 1 \in Nat /\ (\A i \in 1 .. m - 1 : i \in 1 .. m /\ i # m)
      /\ (\A i \in 1 .. m : i # m => i \in 1 .. m - 1)
  BY <1>1
<1>3. after[top] = IF m - 1 = 0 THEN Null ELSE f[m - 1]
  BY <1>1 DEF IsChain
<1>4. IsChain(f, m - 1, after[top], after)
  BY <1>2, <1>3 DEF IsChain
<1>5. \A i \in 1 .. m - 1 : f[i] # f[m]
  BY <1>1, <1>2 DEF IsChain
<1>6. Chained(f, m - 1) = Chained(f, m) \ {top}
  BY <1>1, <1>2, <1>5 DEF Chained
<1> QED
  BY <1>1, <1>4, <1>6 DEF Chained

\* ... and a released chunk goes in front of it.
LEMMA ChainPush ==
    ASSUME NEW f, NEW m, NEW top, NEW after, IsChain(f, m, top, after),
           NEW c \in PoolChunks, c \notin Chained(f, m), NEW after2, after2[c] = top,
           \A d \in PoolChunks : d # c => after2[d] = after[d]
    PROVE  \E g \in [Nat -> PoolChunks] :
              /\ IsChain(g, m + 1, c, after2)
              /\ Chained(g, m + 1) = Chained(f, m) \cup {c}
<1> DEFINE g == [f EXCEPT ![m + 1] = c]
<1>1. f \in [Nat -> PoolChunks] /\ m \in Nat
  BY DEF IsChain
<1>2. g \in [Nat -> PoolChunks] /\ g[m + 1] = c /\ (\A i \in 1 .. m : g[i] = f[i] /\ f[i] # c)
  BY <1>1 DEF Chained
<1> HIDE DEF g
<1>3. /\ m + 1 \in Nat /\ m + 1 # 0 /\ m + 1 \in 1 .. m + 1
      /\ \A i \in 1 .. m + 1 : i = m + 1 \/ i \in 1 .. m
      /\ \A i \in 1 .. m : i \in 1 .. m + 1 /\ (i # 1 => i - 1 \in 1 .. m)
  BY <1>1
<1>4. Chained(g, m + 1) = Chained(f, m) \cup {c}
  BY <1>2, <1>3 DEF Chained
<1>5. \A i, j \in 1 .. m + 1 : g[i] = g[j] => i = j
  BY <1>2, <1>3 DEF IsChain
<1>6. ASSUME NEW i \in 1 .. m + 1 PROVE after2[g[i]] = IF i = 1 THEN Null ELSE g[i - 1]
  <2>1. CASE i = m + 1
    <3>1. m = 0 => i = 1
      BY <2>1
    <3>2. m # 0 => i # 1 /\ i - 1 = m /\ m \in 1 .. m
      BY <1>1, <2>1
    <3> QED
      BY <2>1, <3>1, <3>2, <1>2 DEF IsChain
  <2>2. CASE i \in 1 .. m
    <3>1. f[i] \in PoolChunks /\ g[i] = f[i] /\ f[i] # c
      BY <1>1, <1>2, <2>2
    <3>2. after2[g[i]] = IF i = 1 THEN Null ELSE f[i - 1]
      BY <3>1, <2>2 DEF IsChain
    <3> QED
      BY <3>2, <2>2, <1>2, <1>3
  <2> QED
    BY <2>1, <2>2, <1>3
<1>7. IsChain(g, m + 1, c, after2)
  BY <1>2, <1>3, <1>5, <1>6 DEF IsChain
<1> QED
  BY <1>2, <1>4, <1>7

\* The most ever needed grows when a chunk is carved, and not when one is used again.
LEMMA ObjectPoolPeak ==
    ASSUME NEW f, NEW m, ObjectPoolBooks(f, m), ObjectPool!Counted
    PROVE  /\ free_list # Null => i_peak' = i_peak
           /\ free_list = Null => i_peak' = i_peak + 1
<1>1. i_peak' = ObjectPool!Larger(i_peak, Cardinality(HeldBy(i_holders)) + Cardinality(i_lost) + 1)
  BY ObjectPoolNames DEF ObjectPool!Counted
<1>2. PICK h \in Nat, l \in Nat : /\ h = Cardinality(HeldBy(i_holders)) /\ l = Cardinality(i_lost)
                                  /\ i_peak = m + h + l
  BY BooksFinite DEF ObjectPoolBooks
<1>3. m \in Nat /\ (m = 0 <=> free_list = Null)
  <2>1. m \in Nat /\ (m # 0 => f[m] \in PoolChunks)
    BY DEF ObjectPoolBooks, IsChain
  <2> QED
    BY <2>1, NullIsNoChunk DEF ObjectPoolBooks, IsChain
<1>4. i_peak' = IF m + h + l >= h + l + 1 THEN m + h + l ELSE h + l + 1
  BY <1>1, <1>2, <1>3 DEF ObjectPool!Larger
<1> QED
  BY <1>2, <1>3, <1>4

\* New takes the first chunk of the chain, if there is one.
LEMMA ObjectPoolTakes ==
    ASSUME ObjectPoolInv, ObjectPool!NewFromFreeList
    PROVE  ObjectPoolInv' /\ [ObjectPool!Promise!PoolNext]_i_holders
<1>1. PICK f \in [Nat -> PoolChunks], m \in Nat : ObjectPoolBooks(f, m)
  BY DEF ObjectPoolInv
<1>2. /\ free_list # Null /\ free_list' = link[free_list]
      /\ i_holders' = [i_holders EXCEPT ![free_list] = @ + 1]
      /\ UNCHANGED <<i_nodes, current, link, i_lost>>
  BY DEF ObjectPool!NewFromFreeList
<1>3. /\ m # 0 /\ free_list \in Chained(f, m)
      /\ IsChain(f, m - 1, link[free_list], link)
      /\ Chained(f, m - 1) = Chained(f, m) \ {free_list}
  BY <1>1, <1>2, ChainPop DEF ObjectPoolBooks
<1>4. free_list \in PoolChunks /\ free_list \notin HeldBy(i_holders)
  BY <1>1, <1>3 DEF ObjectPoolBooks, Books, Chained
<1>5. /\ i_holders' \in [PoolChunks -> {0, 1}]
      /\ HeldBy(i_holders') = HeldBy(i_holders) \cup {free_list}
      /\ i_holders[free_list] = 0 /\ i_holders' = [i_holders EXCEPT ![free_list] = 1]
  BY <1>2, <1>4, HolderTakes DEF ObjectPoolInv
<1>6. i_peak' = i_peak
  BY <1>1, <1>2, ObjectPoolPeak DEF ObjectPool!NewFromFreeList
<1>7. Books(CarvedOf(i_nodes, current), HeldBy(i_holders) \cup {free_list}, i_lost,
            Chained(f, m) \ {free_list}, m - 1, i_peak)
  BY <1>1, <1>3, BooksTake DEF ObjectPoolBooks
<1>8. PICK k \in Nat : k = m - 1
  BY <1>1, <1>3
<1>9. ObjectPoolBooks(f, k)'
  <2>1. IsChain(f, k, free_list', link')
    BY <1>2, <1>3, <1>8
  <2>2. Books(CarvedOf(i_nodes', current'), HeldBy(i_holders'), i_lost', Chained(f, k), k, i_peak')
    BY <1>2, <1>3, <1>5, <1>6, <1>7, <1>8
  <2> QED
    BY <2>1, <2>2 DEF ObjectPoolBooks
<1>10. ObjectPool!Promise!PoolNext
  BY <1>4, <1>5, ObjectPoolNames DEF ObjectPool!Promise!PoolNext, ObjectPool!Promise!PoolNew
<1> QED
  BY <1>2, <1>5, <1>10, <1>9 DEF ObjectPoolInv

\* Carving: what the two ways to do it have in common.
LEMMA ObjectPoolCarves ==
    ASSUME ObjectPoolInv, NEW throws \in BOOLEAN, free_list = Null,
           i_nodes' \in 1 .. MaxNodes, current' \in 0 .. NodeCapacity,
           NEW c \in PoolChunks \ CarvedOf(i_nodes, current),
           CarvedOf(i_nodes', current') = CarvedOf(i_nodes, current) \cup {c},
           ObjectPool!Carve(c, throws)
    PROVE  ObjectPoolInv' /\ [ObjectPool!Promise!PoolNext]_i_holders
<1>1. PICK f \in [Nat -> PoolChunks], m \in Nat : ObjectPoolBooks(f, m)
  BY DEF ObjectPoolInv
<1>2. m = 0 /\ Chained(f, m) = {}
  <2>1. m # 0 => f[m] # Null
    BY NullIsNoChunk
  <2> QED
    BY <1>1, <2>1 DEF ObjectPoolBooks, IsChain, Chained
<1>3. c \notin HeldBy(i_holders)
  BY <1>1 DEF ObjectPoolBooks, Books
<1>4. /\ i_holders' \in [PoolChunks -> {0, 1}]
      /\ throws => HeldBy(i_holders') = HeldBy(i_holders) /\ i_lost' = i_lost \cup {c}
      /\ ~throws => HeldBy(i_holders') = HeldBy(i_holders) \cup {c} /\ i_lost' = i_lost
      /\ [ObjectPool!Promise!PoolNext]_i_holders
  <2>1. CASE throws
    BY <2>1 DEF ObjectPool!Carve, ObjectPoolInv
  <2>2. CASE ~throws
    <3>1. i_holders' = [i_holders EXCEPT ![c] = @ + 1] /\ i_lost' = i_lost
      BY <2>2 DEF ObjectPool!Carve
    <3>2. /\ i_holders' \in [PoolChunks -> {0, 1}]
          /\ HeldBy(i_holders') = HeldBy(i_holders) \cup {c}
          /\ i_holders[c] = 0 /\ i_holders' = [i_holders EXCEPT ![c] = 1]
      BY <1>3, <3>1, HolderTakes DEF ObjectPoolInv
    <3>3. ObjectPool!Promise!PoolNext
      BY <3>2, ObjectPoolNames DEF ObjectPool!Promise!PoolNext, ObjectPool!Promise!PoolNew
    <3> QED
      BY <2>2, <3>1, <3>2, <3>3
  <2> QED
    BY <2>1, <2>2
<1>5. i_peak' = i_peak + 1
  BY <1>1, ObjectPoolPeak DEF ObjectPool!Carve
<1>6. Books(CarvedOf(i_nodes, current), HeldBy(i_holders), i_lost, {}, 0, i_peak)
  BY <1>1, <1>2 DEF ObjectPoolBooks
<1>7. Books(CarvedOf(i_nodes', current'), HeldBy(i_holders'), i_lost', {}, 0, i_peak + 1)
  BY <1>4, <1>6, BooksNewChunk
<1>8. UNCHANGED <<free_list, link>>
  BY DEF ObjectPool!Carve
<1>9. ObjectPoolBooks(f, m)'
  BY <1>1, <1>2, <1>5, <1>7, <1>8 DEF ObjectPoolBooks
<1> QED
  BY <1>4, <1>8, <1>9 DEF ObjectPoolInv

\* The next chunk of the latest node.
LEMMA ObjectPoolNewFromNode ==
    ASSUME ObjectPoolInv, NEW throws \in BOOLEAN, ObjectPool!NewFromNode(throws)
    PROVE  ObjectPoolInv' /\ [ObjectPool!Promise!PoolNext]_i_holders
<1> DEFINE c == <<i_nodes, current>>
<1>1. /\ free_list = Null /\ current < NodeCapacity
      /\ i_nodes' = i_nodes /\ current' = current + 1
      /\ ObjectPool!Carve(c, throws)
      /\ i_nodes \in 1 .. MaxNodes /\ current \in 0 .. NodeCapacity
  BY PoolConstants DEF ObjectPool!NewFromNode, ObjectPool!has_free_space, ObjectPoolInv
<1>2. /\ c \in PoolChunks \ CarvedOf(i_nodes, current)
      /\ CarvedOf(i_nodes, current + 1) = CarvedOf(i_nodes, current) \cup {c}
  BY <1>1, CarveNext
<1>3. i_nodes' \in 1 .. MaxNodes /\ current' \in 0 .. NodeCapacity
  BY <1>1, PoolConstants
<1> HIDE DEF c
<1> QED
  BY <1>1, <1>2, <1>3, ObjectPoolCarves

\* The first chunk of a new node.
LEMMA ObjectPoolNewFromNewNode ==
    ASSUME ObjectPoolInv, NEW throws \in BOOLEAN, ObjectPool!NewFromNewNode(throws)
    PROVE  ObjectPoolInv' /\ [ObjectPool!Promise!PoolNext]_i_holders
<1> DEFINE c == <<i_nodes + 1, 0>>
<1>1. /\ free_list = Null /\ current = NodeCapacity
      /\ i_nodes < MaxNodes /\ i_nodes' = i_nodes + 1 /\ current' = 1
      /\ ObjectPool!Carve(c, throws)
      /\ i_nodes \in 1 .. MaxNodes
  BY PoolConstants DEF ObjectPool!NewFromNewNode, ObjectPool!has_free_space, ObjectPoolInv
<1>2. /\ c \in PoolChunks \ CarvedOf(i_nodes, NodeCapacity)
      /\ CarvedOf(i_nodes + 1, 1) = CarvedOf(i_nodes, NodeCapacity) \cup {c}
  BY <1>1, CarveNewNode
<1>3. i_nodes' \in 1 .. MaxNodes /\ current' \in 0 .. NodeCapacity
  BY <1>1, PoolConstants
<1> HIDE DEF c
<1> QED
  BY <1>1, <1>2, <1>3, ObjectPoolCarves

\* Release puts the chunk in front of the chain.
LEMMA ObjectPoolReleases ==
    ASSUME ObjectPoolInv, NEW c, ObjectPool!Release(c)
    PROVE  ObjectPoolInv' /\ [ObjectPool!Promise!PoolNext]_i_holders
<1>1. /\ c \in HeldBy(i_holders) /\ i_holders' = [i_holders EXCEPT ![c] = @ - 1]
      /\ link' = [link EXCEPT ![c] = free_list] /\ free_list' = c
      /\ UNCHANGED <<i_nodes, current, i_lost, i_peak>>
  BY ObjectPoolNames DEF ObjectPool!Release, ObjectPool!LinkedToFirst
<1>2. /\ i_holders' \in [PoolChunks -> {0, 1}]
      /\ HeldBy(i_holders') = HeldBy(i_holders) \ {c}
      /\ i_holders[c] = 1 /\ i_holders' = [i_holders EXCEPT ![c] = 0]
  BY <1>1, HolderReleases DEF ObjectPoolInv
<1>3. PICK f \in [Nat -> PoolChunks], m \in Nat : ObjectPoolBooks(f, m)
  BY DEF ObjectPoolInv
<1>4. c \in PoolChunks /\ c \notin Chained(f, m)
  BY <1>1, <1>3 DEF ObjectPoolBooks, Books, HeldBy
<1>5. free_list \in PoolChunks \cup {Null}
  BY <1>3 DEF ObjectPoolBooks, IsChain
<1>6. /\ link' \in [PoolChunks -> PoolChunks \cup {Null}]
      /\ link'[c] = free_list /\ \A d \in PoolChunks : d # c => link'[d] = link[d]
  BY <1>1, <1>4, <1>5 DEF ObjectPoolInv
<1>7. PICK g \in [Nat -> PoolChunks] : /\ IsChain(g, m + 1, c, link')
                                       /\ Chained(g, m + 1) = Chained(f, m) \cup {c}
  BY <1>3, <1>4, <1>6, ChainPush DEF ObjectPoolBooks
<1>8. Books(CarvedOf(i_nodes, current), HeldBy(i_holders) \ {c}, i_lost,
            Chained(f, m) \cup {c}, m + 1, i_peak)
  BY <1>1, <1>3, BooksRelease DEF ObjectPoolBooks
<1>9. PICK k \in Nat : k = m + 1
  BY <1>3
<1>10. ObjectPoolBooks(g, k)'
  <2>1. IsChain(g, k, free_list', link')
    BY <1>1, <1>7, <1>9
  <2>2. Books(CarvedOf(i_nodes', current'), HeldBy(i_holders'), i_lost', Chained(g, k), k, i_peak')
    BY <1>1, <1>2, <1>7, <1>8, <1>9
  <2> QED
    BY <2>1, <2>2 DEF ObjectPoolBooks
<1>11. ObjectPool!Promise!PoolNext
  BY <1>2, <1>4, ObjectPoolNames DEF ObjectPool!Promise!PoolNext, ObjectPool!Promise!PoolRelease
<1> QED
  BY <1>1, <1>2, <1>6, <1>11, <1>10 DEF ObjectPoolInv

\* Every step of the program keeps the books, and New hands out a chunk that nobody holds.
LEMMA NextObjectPool ==
    ASSUME ObjectPoolInv, [Next]_allVars
    PROVE  ObjectPoolInv' /\ [ObjectPool!Promise!PoolNext]_i_holders
<1>1. CASE UNCHANGED objectPoolVars
  BY <1>1 DEF objectPoolVars, ObjectPoolInv, ObjectPoolBooks
<1>2. CASE ObjectPool!Next
  <2>1. CASE ObjectPool!NewFromFreeListThrows
    BY <2>1, <1>1 DEF ObjectPool!NewFromFreeListThrows, ObjectPool!vars, objectPoolVars
  <2> QED
    BY <1>2, <2>1, ObjectPoolTakes, ObjectPoolNewFromNode, ObjectPoolNewFromNewNode,
       ObjectPoolReleases
    DEF ObjectPool!Next
<1> QED
  BY <1>1, <1>2, ComponentSteps

\* A nonempty set of natural numbers has a least element.
LEMMA LeastNat ==
    ASSUME NEW T, T \subseteq Nat, T # {}
    PROVE  \E m \in T : \A n \in T : m <= n
<1>1. PICK m \in T : \A n \in T : ~(<<n, m>> \in OpToRel(<, Nat))
  BY NatLessThanWellFounded, WFMin
<1>2. ASSUME NEW n \in T, n < m PROVE FALSE
  <2>1. <<n, m>> \in OpToRel(<, Nat)
    BY <1>2 DEF OpToRel
  <2> QED
    BY <2>1, <1>1
<1>3. ASSUME NEW n \in T PROVE m <= n
  BY <1>2
<1> QED
  BY <1>3

\* There are no more free chunks than there are chunks.
LEMMA FreeFit ==
    ASSUME ObjectPoolInv, NEW f, NEW m, ObjectPoolBooks(f, m)
    PROVE  m \in 0 .. MaxNodes * NodeCapacity /\ MaxNodes * NodeCapacity \in Nat
<1>1. IsFiniteSet(1 .. MaxNodes) /\ IsFiniteSet(0 .. NodeCapacity - 1)
  BY PoolConstants, FS_Interval
<1>2. Cardinality(1 .. MaxNodes) = MaxNodes /\ Cardinality(0 .. NodeCapacity - 1) = NodeCapacity
  <2>1. 1 \in Int /\ 0 \in Int /\ MaxNodes \in Int /\ NodeCapacity - 1 \in Int
    BY PoolConstants
  <2>2. /\ Cardinality(1 .. MaxNodes) = IF 1 > MaxNodes THEN 0 ELSE MaxNodes - 1 + 1
        /\ Cardinality(0 .. NodeCapacity - 1) =
              IF 0 > NodeCapacity - 1 THEN 0 ELSE NodeCapacity - 1 - 0 + 1
    BY <2>1, FS_Interval
  <2> QED
    BY <2>2, PoolConstants
<1>3. Cardinality(PoolChunks) = MaxNodes * NodeCapacity /\ IsFiniteSet(PoolChunks)
  <2>1. \A S, T : IsFiniteSet(S) /\ IsFiniteSet(T) =>
           Cardinality(S \X T) = Cardinality(S) * Cardinality(T)
    BY FS_Product
  <2>2. Cardinality(PoolChunks) =
           Cardinality(1 .. MaxNodes) * Cardinality(0 .. NodeCapacity - 1)
    BY <1>1, <2>1 DEF PoolChunks
  <2> QED
    BY <1>2, <2>2, ChunksFinite
<1>4. CarvedOf(i_nodes, current) \subseteq PoolChunks
  BY DEF CarvedOf
<1>5. /\ Cardinality(CarvedOf(i_nodes, current)) <= Cardinality(PoolChunks)
      /\ Cardinality(PoolChunks) \in Nat
  BY <1>3, <1>4, FS_Subset, FS_CardinalityType
<1>6. PICK h \in Nat, l \in Nat : i_peak = m + h + l
  BY BooksFinite DEF ObjectPoolBooks
<1>7. i_peak = Cardinality(CarvedOf(i_nodes, current)) /\ m \in Nat
  BY DEF ObjectPoolBooks, Books
<1>8. PICK k \in Nat : k = MaxNodes * NodeCapacity /\ m + h + l <= k
  BY <1>3, <1>5, <1>6, <1>7
<1> QED
  BY <1>7, <1>8

\* Nth follows the chain, and then stays at null.
LEMMA NthFollows ==
    ASSUME ObjectPoolInv, NEW f, NEW m, ObjectPoolBooks(f, m)
    PROVE  /\ DOMAIN ObjectPool!Nth = 0 .. MaxNodes * NodeCapacity
           /\ \A n \in 0 .. MaxNodes * NodeCapacity :
                 ObjectPool!Nth[n] = IF n < m THEN f[m - n] ELSE Null
<1>1. PICK K \in Nat : K = MaxNodes * NodeCapacity /\ m \in 0 .. K
  BY FreeFit
<1> DEFINE F(g) == [n \in 0 .. K |->
                      IF n = 0 THEN free_list ELSE IF g[n - 1] = Null THEN Null ELSE link[g[n - 1]]]
           g == [n \in 0 .. K |-> IF n < m THEN f[m - n] ELSE Null]
<1>2. /\ \A i \in 1 .. m : f[i] # Null /\ link[f[i]] = IF i = 1 THEN Null ELSE f[i - 1]
      /\ free_list = IF m = 0 THEN Null ELSE f[m]
  BY NullIsNoChunk DEF ObjectPoolBooks, IsChain
<1>3. g = F(g)
  <2>1. ASSUME NEW n \in 0 .. K PROVE g[n] = F(g)[n]
    <3>1. CASE n = 0
      BY <3>1, <1>1, <1>2
    <3>2. CASE n # 0 /\ n - 1 < m
      <4>1. n - 1 \in 0 .. K /\ m - (n - 1) \in 1 .. m /\ (m - (n - 1) = 1 <=> ~(n < m))
            /\ (m - (n - 1)) - 1 = m - n
        BY <3>2, <1>1
      <4>2. g[n - 1] = f[m - (n - 1)] /\ f[m - (n - 1)] # Null
        BY <4>1, <3>2, <1>2
      <4>3. link[f[m - (n - 1)]] = IF n < m THEN f[m - n] ELSE Null
        BY <4>1, <1>2
      <4> QED
        BY <4>1, <4>2, <4>3, <3>2
    <3>3. CASE n # 0 /\ ~(n - 1 < m)
      <4>1. n - 1 \in 0 .. K /\ ~(n < m)
        BY <3>3, <1>1
      <4>2. g[n - 1] = Null
        BY <4>1, <3>3
      <4> QED
        BY <4>1, <4>2, <3>3
    <3> QED
      BY <3>1, <3>2, <3>3
  <2> QED
    BY <2>1
<1>4. ObjectPool!Nth = F(ObjectPool!Nth)
  <2>1. ObjectPool!Nth = CHOOSE h : h = F(h)
    BY <1>1 DEF ObjectPool!Nth
  <2> HIDE DEF F, g
  <2> QED
    BY <2>1, <1>3
<1>5. ObjectPool!Nth = g
  <2> DEFINE Bad == {n \in 0 .. K : ObjectPool!Nth[n] # g[n]}
  <2>1. SUFFICES ASSUME Bad # {} PROVE FALSE
    BY <1>4
  <2>2. PICK k \in Bad : \A n \in Bad : k <= n
    <3>1. Bad \subseteq Nat
      BY <1>1
    <3> HIDE DEF Bad
    <3> QED
      BY <2>1, <3>1, LeastNat
  <2>3. k \in 0 .. K /\ k # 0 => k - 1 \in 0 .. K /\ k - 1 \notin Bad
    BY <2>2, <1>1
  <2>4. ObjectPool!Nth[k] = F(ObjectPool!Nth)[k] /\ g[k] = F(g)[k]
    BY <1>3, <1>4
  <2>5. k # 0 => ObjectPool!Nth[k - 1] = g[k - 1]
    BY <2>2, <2>3
  <2>6. F(ObjectPool!Nth)[k] = F(g)[k]
    BY <2>2, <2>5
  <2> QED
    BY <2>2, <2>4, <2>6
<1> QED
  BY <1>1, <1>5

\* Free and FreeCount say of the links what the chain says.
LEMMA WhatIsFree ==
    ASSUME ObjectPoolInv, NEW f, NEW m, ObjectPoolBooks(f, m)
    PROVE  ObjectPool!FreeCount = m /\ ObjectPool!Free = Chained(f, m)
<1>1. PICK K \in Nat : K = MaxNodes * NodeCapacity /\ m \in 0 .. K
  BY FreeFit
<1>2. DOMAIN ObjectPool!Nth = 0 .. K
  BY <1>1, NthFollows
<1>3. \A n \in 0 .. K : ObjectPool!Nth[n] = IF n < m THEN f[m - n] ELSE Null
  BY <1>1, NthFollows
<1>4. \A i \in 1 .. m : f[i] # Null
  BY NullIsNoChunk DEF ObjectPoolBooks, IsChain
<1>5. \A n \in 0 .. K : n < m => m - n \in 1 .. m /\ ObjectPool!Nth[n] = f[m - n] /\ f[m - n] # Null
  BY <1>1, <1>3, <1>4
<1>6. {n \in DOMAIN ObjectPool!Nth : ObjectPool!Nth[n] # Null} = 0 .. m - 1
  BY <1>1, <1>2, <1>3, <1>5
<1>7. ObjectPool!FreeCount = m
  <2>1. 0 \in Int /\ m - 1 \in Int
    BY <1>1
  <2>2. Cardinality(0 .. m - 1) = IF 0 > m - 1 THEN 0 ELSE m - 1 - 0 + 1
    BY <2>1, FS_Interval
  <2>3. Cardinality(0 .. m - 1) = m
    BY <2>2, <1>1
  <2> QED
    BY <2>3, <1>6, ObjectPoolNames DEF ObjectPool!FreeCount
<1>8. ObjectPool!Free = Chained(f, m)
  <2>1. ASSUME NEW c \in ObjectPool!Free PROVE c \in Chained(f, m)
    <3>1. PICK n \in 0 .. K : c = ObjectPool!Nth[n] /\ c # Null
      BY <1>2 DEF ObjectPool!Free
    <3>2. n < m
      BY <3>1, <1>3
    <3> QED
      BY <3>1, <3>2, <1>5 DEF Chained
  <2>2. ASSUME NEW i \in 1 .. m PROVE f[i] \in ObjectPool!Free
    <3>1. m - i \in 0 .. K /\ m - i < m /\ m - (m - i) = i
      BY <1>1
    <3>2. ObjectPool!Nth[m - i] = f[i] /\ f[i] # Null
      BY <3>1, <1>3, <1>4
    <3> QED
      BY <3>1, <3>2, <1>2 DEF ObjectPool!Free
  <2> QED
    BY <2>1, <2>2 DEF Chained
<1> QED
  BY <1>7, <1>8
-----------------------------------------------------------------------------
(* Regions of MemoryAllocator *)

(***************************************************************************)
(* Regions are pairs <<lo, hi>> of addresses, lo the first inside and hi   *)
(* the first after it.                                                     *)
(***************************************************************************)
Holds(r, x) == r[1] <= x /\ x < r[2]
Apart(r, s) == r[2] <= s[1] \/ s[2] <= r[1]
Node(b) == <<b, b + NodeSize>>
Within(r, b) == b <= r[1] /\ r[2] <= b + NodeSize

(***************************************************************************)
(* The regions P tile the nodes N: none is empty, no two overlap, and they *)
(* hold what the nodes hold. When no two nodes touch, none crosses from    *)
(* one to another.                                                         *)
(***************************************************************************)
Parts(N, P) ==
    /\ N \subseteq Nat /\ P \subseteq Nat \X Nat
    /\ \A r \in P : r[1] < r[2]
    /\ \A r, s \in P : r # s => Apart(r, s)
    /\ \A b, n \in N : b # n => Apart(Node(b), Node(n))
    /\ \A x \in Nat : (\E r \in P : Holds(r, x)) <=> (\E b \in N : Holds(Node(b), x))
    /\ (\A b, n \in N : b + NodeSize # n) => \A r \in P : \E b \in N : Within(r, b)

\* What the proofs use of the constants.
LEMMA AllocatorConstants ==
    /\ NodeSize \in Nat \ {0} /\ Bases \subseteq Nat /\ Lens \subseteq 0 .. NodeSize
    /\ NoBlock \notin [addr : Nat, len : 0 .. NodeSize]
  BY RoutinesAssumption DEF Allocator!AllocatorAssumption
-----------------------------------------------------------------------------
(* Tiling the nodes *)

\* A region is cut in two.
LEMMA PartsSplit ==
    ASSUME NEW N, NEW P, Parts(N, P), NEW lo \in Nat, NEW mid \in Nat, NEW hi \in Nat,
           <<lo, hi>> \in P, lo < mid, mid < hi
    PROVE  /\ Parts(N, (P \ {<<lo, hi>>}) \cup {<<lo, mid>>, <<mid, hi>>})
           /\ <<lo, mid>> \notin P /\ <<mid, hi>> \notin P
           /\ \A s \in P : s # <<lo, hi>> => s[1] # mid /\ s[2] # mid /\ s[2] # hi /\ s[1] # lo
<1> DEFINE old == <<lo, hi>>
           a == <<lo, mid>>
           z == <<mid, hi>>
           Q == (P \ {old}) \cup {a, z}
<1>1. /\ P \subseteq Nat \X Nat /\ N \subseteq Nat
      /\ \A r \in P : r[1] \in Nat /\ r[2] \in Nat /\ r[1] < r[2]
  BY DEF Parts
<1>2. /\ old[1] = lo /\ old[2] = hi /\ a[1] = lo /\ a[2] = mid /\ z[1] = mid /\ z[2] = hi
      /\ a # z /\ a # old /\ z # old
      /\ a \in Nat \X Nat /\ z \in Nat \X Nat
  OBVIOUS
<1>3. \A s \in P : s # old => s[2] <= lo \/ hi <= s[1]
  BY <1>2 DEF Parts, Apart
<1> HIDE DEF old, a, z
<1>4. \A s \in P : s # old => s[1] # mid /\ s[2] # mid /\ s[2] # hi /\ s[1] # lo
  BY <1>1, <1>3
<1>5. a \notin P /\ z \notin P
  BY <1>2, <1>4
<1>6. \A r \in Q : r \in Nat \X Nat /\ r[1] < r[2]
  BY <1>1, <1>2
<1>7. ASSUME NEW r \in Q, NEW s \in Q, r # s PROVE Apart(r, s)
  <2>1. CASE r \in P /\ s \in P
    BY <1>7, <2>1 DEF Parts
  <2>2. CASE r \in {a, z} /\ s \in {a, z}
    BY <1>2, <1>7, <2>2 DEF Apart
  <2>3. CASE r \in {a, z} /\ s \in P \ {old}
    BY <1>1, <1>2, <1>3, <2>3 DEF Apart
  <2>4. CASE s \in {a, z} /\ r \in P \ {old}
    BY <1>1, <1>2, <1>3, <2>4 DEF Apart
  <2> QED
    BY <2>1, <2>2, <2>3, <2>4
<1>8. ASSUME NEW x \in Nat
      PROVE  (\E r \in Q : Holds(r, x)) <=> (\E b \in N : Holds(Node(b), x))
  <2>1. Holds(old, x) <=> Holds(a, x) \/ Holds(z, x)
    BY <1>2 DEF Holds
  <2>2. (\E r \in Q : Holds(r, x)) <=> (\E r \in P : Holds(r, x))
    BY <2>1 DEF old
  <2> QED
    BY <2>2 DEF Parts
<1>9. ASSUME \A b, n \in N : b + NodeSize # n, NEW r \in Q
      PROVE  \E b \in N : Within(r, b)
  <2>1. CASE r \in P
    BY <1>9, <2>1 DEF Parts
  <2>2. CASE r \in {a, z}
    <3>1. PICK b \in N : Within(old, b)
      BY <1>9 DEF Parts, old
    <3>2. Within(r, b)
      BY <1>1, <1>2, <2>2, <3>1, AllocatorConstants DEF Within
    <3> QED
      BY <3>2
  <2> QED
    BY <2>1, <2>2
<1>10. Parts(N, Q)
  <2>1. Q \subseteq Nat \X Nat
    BY <1>6
  <2> HIDE DEF Q
  <2> QED
    BY <1>1, <1>6, <1>7, <1>8, <1>9, <2>1 DEF Parts
<1> QED
  BY <1>4, <1>5, <1>10 DEF old, a, z

\* Two regions that touch become one.
LEMMA PartsJoin ==
    ASSUME NEW N, NEW P, Parts(N, P), NEW lo \in Nat, NEW mid \in Nat, NEW hi \in Nat,
           <<lo, mid>> \in P, <<mid, hi>> \in P
    PROVE  /\ Parts(N, (P \ {<<lo, mid>>, <<mid, hi>>}) \cup {<<lo, hi>>})
           /\ <<lo, hi>> \notin P
<1> DEFINE new == <<lo, hi>>
           a == <<lo, mid>>
           z == <<mid, hi>>
           Q == (P \ {a, z}) \cup {new}
<1>1. /\ P \subseteq Nat \X Nat /\ N \subseteq Nat
      /\ \A r \in P : r[1] \in Nat /\ r[2] \in Nat /\ r[1] < r[2]
  BY DEF Parts
<1>2. /\ new[1] = lo /\ new[2] = hi /\ a[1] = lo /\ a[2] = mid /\ z[1] = mid /\ z[2] = hi
      /\ a \in P /\ z \in P /\ new \in Nat \X Nat
  OBVIOUS
<1>3. lo < mid /\ mid < hi
  <2>1. a[1] < a[2] /\ z[1] < z[2]
    BY <1>1, <1>2
  <2> QED
    BY <1>2, <2>1
<1>4. new # a /\ new # z /\ a # z
  BY <1>3
<1> HIDE DEF new, a, z
<1>5. \A s \in P : /\ s # a => s[2] <= lo \/ mid <= s[1]
                   /\ s # z => s[2] <= mid \/ hi <= s[1]
  BY <1>2 DEF Parts, Apart
<1>6. \A s \in P : s # a /\ s # z => s[2] <= lo \/ hi <= s[1]
  BY <1>1, <1>3, <1>5
<1>7. new \notin P
  <2>1. SUFFICES ASSUME new \in P PROVE FALSE
    OBVIOUS
  <2>2. hi <= lo \/ hi <= lo
    BY <1>2, <1>4, <1>6, <2>1
  <2> QED
    BY <1>3, <2>2
<1>8. \A r \in Q : r \in Nat \X Nat /\ r[1] < r[2]
  <2>1. new[1] < new[2]
    BY <1>2, <1>3
  <2> QED
    BY <1>1, <1>2, <2>1
<1>9. ASSUME NEW r \in Q, NEW s \in Q, r # s PROVE Apart(r, s)
  <2>1. CASE r \in P /\ s \in P
    BY <1>9, <2>1 DEF Parts
  <2>2. CASE r = new
    BY <1>2, <1>6, <1>9, <2>2 DEF Apart
  <2>3. CASE s = new
    BY <1>2, <1>6, <1>9, <2>3 DEF Apart
  <2> QED
    BY <2>1, <2>2, <2>3
<1>10. ASSUME NEW x \in Nat
       PROVE  (\E r \in Q : Holds(r, x)) <=> (\E b \in N : Holds(Node(b), x))
  <2>1. Holds(new, x) <=> Holds(a, x) \/ Holds(z, x)
    BY <1>2, <1>3 DEF Holds
  <2>2. (\E r \in Q : Holds(r, x)) <=> (\E r \in P : Holds(r, x))
    BY <2>1, <1>2
  <2> QED
    BY <2>2 DEF Parts
<1>11. ASSUME \A b, n \in N : b + NodeSize # n, NEW r \in Q
       PROVE  \E b \in N : Within(r, b)
  <2>1. CASE r \in P
    BY <1>11, <2>1 DEF Parts
  <2>2. CASE r = new
    <3>1. PICK b \in N : Within(a, b)
      BY <1>11, <1>2 DEF Parts
    <3>2. PICK n \in N : Within(z, n)
      BY <1>11, <1>2 DEF Parts
    <3>3. hi <= b + NodeSize
      <4> USE AllocatorConstants
      <4>1. b \in Nat /\ n \in Nat
        BY <1>1
      <4>2. b <= lo /\ mid <= b + NodeSize /\ n <= mid /\ hi <= n + NodeSize
        BY <1>2, <3>1, <3>2 DEF Within
      <4>3. b # n => b + NodeSize <= n \/ n + NodeSize <= b
        BY DEF Parts, Apart, Node
      <4>4. b + NodeSize # n
        BY <1>11
      <4>5. ~(b + NodeSize <= n)
        BY <4>1, <4>2, <4>4
      <4>6. ~(n + NodeSize <= b)
        BY <4>1, <4>2, <1>3
      <4> QED
        BY <4>1, <4>2, <4>3, <4>5, <4>6
    <3> QED
      BY <1>2, <2>2, <3>1, <3>3 DEF Within
  <2> QED
    BY <2>1, <2>2
<1>12. Parts(N, Q)
  <2>1. Q \subseteq Nat \X Nat
    BY <1>8
  <2> HIDE DEF Q
  <2> QED
    BY <1>1, <1>8, <1>9, <1>10, <1>11, <2>1 DEF Parts
<1> QED
  BY <1>7, <1>12 DEF new, a, z

\* A node is added.
LEMMA PartsNode ==
    ASSUME NEW N, NEW P, Parts(N, P), NEW b \in Nat, \A n \in N : Apart(Node(b), Node(n))
    PROVE  /\ Parts(N \cup {b}, P \cup {Node(b)})
           /\ \A s \in P : /\ s[2] <= b \/ b + NodeSize <= s[1]
                           /\ s[1] = b + NodeSize => s[1] \in N
<1> DEFINE new == Node(b)
           M == N \cup {b}
           Q == P \cup {new}
<1> USE AllocatorConstants
<1>1. /\ P \subseteq Nat \X Nat /\ N \subseteq Nat
      /\ \A r \in P : r[1] \in Nat /\ r[2] \in Nat /\ r[1] < r[2]
  BY DEF Parts
<1>2. new[1] = b /\ new[2] = b + NodeSize /\ new \in Nat \X Nat /\ b < b + NodeSize
  BY DEF Node
<1>3. \A n \in N : b + NodeSize <= n \/ n + NodeSize <= b
  BY DEF Apart, Node
\* An address of a region is in a node, and so not in the new one.
<1>4. ASSUME NEW s \in P, NEW x \in Nat, Holds(s, x)
      PROVE  \E n \in N : n <= x /\ x < n + NodeSize
  BY <1>4 DEF Parts, Node, Holds
<1>5. ASSUME NEW s \in P
      PROVE  /\ s[2] <= b \/ b + NodeSize <= s[1]
             /\ s[1] = b + NodeSize => s[1] \in N
  <2>1. s[1] \in Nat /\ s[2] \in Nat /\ s[1] < s[2]
    BY <1>1
  <2>2. PICK n \in N : n <= s[1] /\ s[1] < n + NodeSize
    BY <1>4, <2>1 DEF Holds
  <2>3. n \in Nat /\ (b + NodeSize <= n \/ n + NodeSize <= b)
    BY <1>1, <1>3
  <2>4. CASE b + NodeSize <= n
    BY <2>1, <2>2, <2>3, <2>4
  <2>5. CASE n + NodeSize <= b
    <3>1. s[1] < b
      BY <2>1, <2>2, <2>3, <2>5
    <3>2. ~(b < s[2])
      <4>1. SUFFICES ASSUME b < s[2] PROVE FALSE
        OBVIOUS
      <4>2. Holds(s, b)
        BY <3>1, <4>1, <2>1 DEF Holds
      <4>3. PICK k \in N : k <= b /\ b < k + NodeSize
        BY <1>4, <4>2
      <4>4. k \in Nat /\ (b + NodeSize <= k \/ k + NodeSize <= b)
        BY <1>1, <1>3
      <4> QED
        BY <4>3, <4>4
    <3> QED
      BY <3>1, <3>2, <2>1
  <2> QED
    BY <2>3, <2>4, <2>5
<1> HIDE DEF new
<1>6. Q \subseteq Nat \X Nat /\ M \subseteq Nat /\ \A r \in Q : r[1] < r[2]
  BY <1>1, <1>2
<1>7. ASSUME NEW r \in Q, NEW s \in Q, r # s PROVE Apart(r, s)
  <2>1. CASE r \in P /\ s \in P
    BY <1>7, <2>1 DEF Parts
  <2>2. CASE r = new /\ s \in P
    BY <1>2, <1>5, <2>2 DEF Apart
  <2>3. CASE s = new /\ r \in P
    BY <1>2, <1>5, <2>3 DEF Apart
  <2> QED
    BY <1>7, <2>1, <2>2, <2>3
<1>8. ASSUME NEW k \in M, NEW n \in M, k # n PROVE Apart(Node(k), Node(n))
  BY <1>3, <1>8 DEF Parts, Apart, Node
<1>9. ASSUME NEW x \in Nat
      PROVE  (\E r \in Q : Holds(r, x)) <=> (\E k \in M : Holds(Node(k), x))
  BY DEF Parts, new
<1>10. ASSUME \A k, n \in M : k + NodeSize # n, NEW r \in Q
       PROVE  \E k \in M : Within(r, k)
  <2>1. CASE r \in P
    BY <1>10, <2>1 DEF Parts
  <2>2. CASE r = new
    <3>1. Within(r, b)
      BY <1>2, <2>2 DEF Within
    <3> QED
      BY <3>1
  <2> QED
    BY <2>1, <2>2
<1>11. Parts(M, Q)
  <2> HIDE DEF Q, M
  <2> QED
    BY <1>6, <1>7, <1>8, <1>9, <1>10 DEF Parts
<1> QED
  BY <1>5, <1>11 DEF new
-----------------------------------------------------------------------------
(* The indexes of free regions *)

(***************************************************************************)
(* The metadata m describe the same free regions three times, and no       *)
(* assertion has failed.                                                   *)
(***************************************************************************)
Indexed(m) ==
    /\ m.ok
    /\ m.free \subseteq Nat \X Nat
    /\ DOMAIN m.l2r \subseteq Nat /\ \A x \in DOMAIN m.l2r : m.l2r[x] \in Nat
    /\ DOMAIN m.r2l \subseteq Nat /\ \A x \in DOMAIN m.r2l : m.r2l[x] \in Nat
    /\ \A lo, hi \in Nat :
          /\ <<lo, hi>> \in m.free <=> lo \in DOMAIN m.l2r /\ m.l2r[lo] = hi
          /\ <<lo, hi>> \in m.free <=> hi \in DOMAIN m.r2l /\ m.r2l[hi] = lo

\* delete_memory_region of a free region.
LEMMA DeleteIndexed ==
    ASSUME NEW m, Indexed(m), NEW lo \in Nat, NEW hi \in Nat, <<lo, hi>> \in m.free,
           NEW d, d = Allocator!delete_memory_region(m, lo, hi)
    PROVE  Indexed(d) /\ d.free = m.free \ {<<lo, hi>>}
<1> USE DEF Indexed, Allocator!Without, Allocator!Restrict
<1>1. /\ d.free = m.free \ {<<lo, hi>>}
      /\ d.l2r = Allocator!Without(m.l2r, lo) /\ d.r2l = Allocator!Without(m.r2l, hi)
      /\ d.ok
  BY DEF Allocator!delete_memory_region
<1>2. /\ DOMAIN d.l2r = DOMAIN m.l2r \ {lo} /\ \A x \in DOMAIN d.l2r : d.l2r[x] = m.l2r[x]
      /\ DOMAIN d.r2l = DOMAIN m.r2l \ {hi} /\ \A x \in DOMAIN d.r2l : d.r2l[x] = m.r2l[x]
  BY <1>1
<1>3. ASSUME NEW a \in Nat, NEW b \in Nat
      PROVE  /\ <<a, b>> \in d.free <=> a \in DOMAIN d.l2r /\ d.l2r[a] = b
             /\ <<a, b>> \in d.free <=> b \in DOMAIN d.r2l /\ d.r2l[b] = a
  BY <1>1, <1>2
<1> QED
  BY <1>1, <1>2, <1>3

\* insert_memory_region, when no free region starts or ends with the new one.
LEMMA InsertIndexed ==
    ASSUME NEW m, Indexed(m), NEW lo \in Nat, NEW hi \in Nat,
           \A s \in m.free : s[1] # lo /\ s[2] # hi,
           NEW d, d = Allocator!insert_memory_region(m, lo, hi)
    PROVE  Indexed(d) /\ d.free = m.free \cup {<<lo, hi>>}
<1> USE DEF Indexed, Allocator!With
<1>0. lo \notin DOMAIN m.l2r /\ hi \notin DOMAIN m.r2l /\ <<lo, hi>> \notin m.free
  <2>1. ASSUME lo \in DOMAIN m.l2r PROVE FALSE
    <3>1. <<lo, m.l2r[lo]>> \in m.free
      BY <2>1
    <3>2. <<lo, m.l2r[lo]>>[1] # lo
      BY <3>1
    <3> QED
      BY <3>2
  <2>2. ASSUME hi \in DOMAIN m.r2l PROVE FALSE
    <3>1. <<m.r2l[hi], hi>> \in m.free
      BY <2>2
    <3>2. <<m.r2l[hi], hi>>[2] # hi
      BY <3>1
    <3> QED
      BY <3>2
  <2>3. <<lo, hi>> \notin m.free
    <3>1. <<lo, hi>>[1] = lo
      OBVIOUS
    <3> QED
      BY <3>1
  <2> QED
    BY <2>1, <2>2, <2>3
<1>1. /\ d.free = m.free \cup {<<lo, hi>>}
      /\ d.l2r = Allocator!With(m.l2r, lo, hi) /\ d.r2l = Allocator!With(m.r2l, hi, lo)
      /\ d.ok
  BY <1>0 DEF Allocator!insert_memory_region
<1>2. /\ DOMAIN d.l2r = DOMAIN m.l2r \cup {lo} /\ d.l2r[lo] = hi
      /\ \A x \in DOMAIN m.l2r : d.l2r[x] = m.l2r[x]
      /\ DOMAIN d.r2l = DOMAIN m.r2l \cup {hi} /\ d.r2l[hi] = lo
      /\ \A x \in DOMAIN m.r2l : d.r2l[x] = m.r2l[x]
  BY <1>0, <1>1
<1>3. ASSUME NEW a \in Nat, NEW b \in Nat
      PROVE  /\ <<a, b>> \in d.free <=> a \in DOMAIN d.l2r /\ d.l2r[a] = b
             /\ <<a, b>> \in d.free <=> b \in DOMAIN d.r2l /\ d.r2l[b] = a
  BY <1>0, <1>1, <1>2
<1> QED
  BY <1>1, <1>2, <1>3

\* lower_bound finds a region that is long enough, when there is one.
LEMMA BestFitFits ==
    ASSUME NEW F, F \subseteq Nat \X Nat, \A r \in F : r[1] < r[2], NEW n \in Nat,
           \E r \in F : Allocator!Fits(r, n)
    PROVE  Allocator!BestFit(F, n) \in F /\ Allocator!Fits(Allocator!BestFit(F, n), n)
<1> DEFINE Fitting == {r \in F : Allocator!Fits(r, n)}
           Sizes == {Allocator!Length(r) : r \in Fitting}
<1>1. \A r \in F : r[1] \in Nat /\ r[2] \in Nat /\ Allocator!Length(r) \in Nat
  BY DEF Allocator!Length
<1>2. PICK k \in Sizes : \A j \in Sizes : k <= j
  <2>1. Sizes \subseteq Nat /\ Sizes # {}
    BY <1>1
  <2> HIDE DEF Sizes
  <2> QED
    BY <2>1, LeastNat
<1> DEFINE Lows == {r[1] : r \in {s \in Fitting : Allocator!Length(s) = k}}
<1>3. PICK a \in Lows : \A c \in Lows : a <= c
  <2>1. Lows \subseteq Nat /\ Lows # {}
    BY <1>1, <1>2
  <2> HIDE DEF Lows
  <2> QED
    BY <2>1, LeastNat
<1>4. PICK r \in Fitting : Allocator!Length(r) = k /\ r[1] = a
  BY <1>3
<1>5. ASSUME NEW s \in F, Allocator!Fits(s, n)
      PROVE  \/ Allocator!Length(r) < Allocator!Length(s)
             \/ Allocator!Length(r) = Allocator!Length(s) /\ r[1] <= s[1]
  <2>1. s \in Fitting /\ Allocator!Length(s) \in Sizes
    BY <1>5
  <2>2. k <= Allocator!Length(s)
    BY <1>2, <2>1
  <2>3. CASE Allocator!Length(s) = k
    BY <1>3, <1>4, <2>1, <2>3
  <2>4. CASE Allocator!Length(s) # k
    <3>1. k \in Nat /\ Allocator!Length(s) \in Nat
      BY <1>1, <1>4
    <3> QED
      BY <1>4, <2>2, <2>4, <3>1
  <2> QED
    BY <2>3, <2>4
<1>6. r \in F /\ Allocator!Fits(r, n)
  BY <1>4
<1> HIDE DEF Fitting
<1> QED
  BY <1>5, <1>6 DEF Allocator!BestFit
-----------------------------------------------------------------------------
(* The invariant of MemoryAllocator *)

(***************************************************************************)
(* The inductive invariant. Blocks, like free regions, are regions: Taken  *)
(* are those that callers hold. Free regions and blocks are the parts of   *)
(* the nodes; addr2len knows every block; and free regions that touch do   *)
(* so where a node starts.                                                 *)
(***************************************************************************)
Span(b) == <<b.addr, b.addr + b.len>>

Taken(blk) == {Span(blk[h]) : h \in {g \in Handles : blk[g] # NoBlock}}

BlockRecords == [addr : Nat, len : 1 .. NodeSize]

BlocksTyped(blk) ==
    /\ blk \in [Handles -> {NoBlock} \cup BlockRecords]
    /\ \A g, h \in Handles : g # h /\ blk[g] # NoBlock /\ blk[h] # NoBlock =>
          blk[g].addr # blk[h].addr

Gapless(F) == \A r, s \in F : r[2] = s[1] => r[2] \in Bases

AddrKnown(f, blk) ==
    \A h \in Handles : blk[h] # NoBlock =>
        blk[h].addr \in DOMAIN f /\ f[blk[h].addr] = blk[h].len

Layout(N, F, blk) ==
    /\ Parts(N, F \cup Taken(blk)) /\ F \cap Taken(blk) = {}
    /\ BlocksTyped(blk)
    /\ Gapless(F)

AllocInv ==
    /\ ~failed
    /\ Indexed(Allocator!Meta)
    /\ a_nodes \subseteq Bases
    /\ Layout(a_nodes, a_free, block)
    /\ AddrKnown(addr2len, block)

\* A caller that holds nothing gets a block where no block starts.
LEMMA Takes ==
    ASSUME NEW blk, BlocksTyped(blk), NEW h \in Handles, blk[h] = NoBlock,
           NEW b \in BlockRecords, \A s \in Taken(blk) : s[1] # b.addr,
           NEW blk2 \in [Handles -> {NoBlock} \cup BlockRecords],
           blk2[h] = b, \A g \in Handles : g # h => blk2[g] = blk[g],
           NEW f, AddrKnown(f, blk), NEW f2, f2 = Allocator!With(f, b.addr, b.len)
    PROVE  /\ BlocksTyped(blk2) /\ Taken(blk2) = Taken(blk) \cup {Span(b)}
           /\ AddrKnown(f2, blk2)
<1> DEFINE a == b.addr
           n == b.len
<1>2. b # NoBlock
  <2>1. b \in [addr : Nat, len : 0 .. NodeSize]
    BY DEF BlockRecords
  <2> QED
    BY <2>1, AllocatorConstants
<1>3. blk2[h] = b /\ \A g \in Handles : g # h => blk2[g] = blk[g]
  OBVIOUS
<1>5. \A g \in Handles : g # h /\ blk[g] # NoBlock => blk[g].addr # a
  <2> SUFFICES ASSUME NEW g \in Handles, blk[g] # NoBlock PROVE blk[g].addr # a
    OBVIOUS
  <2>1. Span(blk[g]) \in Taken(blk) /\ Span(blk[g])[1] = blk[g].addr
    BY DEF Taken, Span
  <2> QED
    BY <2>1
<1>6. BlocksTyped(blk2)
  BY <1>3, <1>5 DEF BlocksTyped
<1>7. Taken(blk2) = Taken(blk) \cup {Span(b)}
  <2>2. ASSUME NEW g \in Handles, blk2[g] # NoBlock
        PROVE  Span(blk2[g]) \in Taken(blk) \cup {Span(b)}
    BY <1>3, <2>2 DEF Taken
  <2>3. ASSUME NEW g \in Handles, blk[g] # NoBlock
        PROVE  Span(blk[g]) \in Taken(blk2)
    <3>1. g # h /\ blk2[g] = blk[g]
      BY <1>3, <2>3
    <3> QED
      BY <2>3, <3>1 DEF Taken
  <2>4. Span(b) \in Taken(blk2)
    BY <1>2, <1>3 DEF Taken
  <2>5. \A s \in Taken(blk2) : s \in Taken(blk) \cup {Span(b)}
    BY <2>2 DEF Taken
  <2>6. \A s \in Taken(blk) : s \in Taken(blk2)
    BY <2>3 DEF Taken
  <2> QED
    BY <2>4, <2>5, <2>6
<1>8. ASSUME NEW g \in Handles, blk2[g] # NoBlock
      PROVE  blk2[g].addr \in DOMAIN f2 /\ f2[blk2[g].addr] = blk2[g].len
  <2>1. DOMAIN f2 = DOMAIN f \cup {a} /\ f2[a] = n /\ \A x \in DOMAIN f : x # a => f2[x] = f[x]
    BY DEF Allocator!With
  <2>2. CASE g = h
    BY <1>3, <2>1, <2>2
  <2>3. CASE g # h
    BY <1>3, <1>5, <1>8, <2>1, <2>3 DEF AddrKnown
  <2> QED
    BY <2>2, <2>3
<1> QED
  BY <1>6, <1>7, <1>8 DEF AddrKnown

\* A caller gives its block back.
LEMMA GivesBack ==
    ASSUME NEW blk, BlocksTyped(blk), NEW h \in Handles, blk[h] # NoBlock,
           NEW blk2 \in [Handles -> {NoBlock} \cup BlockRecords],
           blk2[h] = NoBlock, \A g \in Handles : g # h => blk2[g] = blk[g],
           NEW f, AddrKnown(f, blk), NEW f2, f2 = Allocator!Without(f, blk[h].addr)
    PROVE  /\ BlocksTyped(blk2) /\ Taken(blk2) = Taken(blk) \ {Span(blk[h])}
           /\ Span(blk[h]) \in Taken(blk)
           /\ AddrKnown(f2, blk2)
<1>1. blk2[h] = NoBlock /\ \A g \in Handles : g # h => blk2[g] = blk[g]
  OBVIOUS
<1>3. BlocksTyped(blk2)
  BY <1>1 DEF BlocksTyped
<1>4. \A g \in Handles : g # h /\ blk[g] # NoBlock => blk[g].addr # blk[h].addr
  BY DEF BlocksTyped
<1>5. \A g \in Handles : Span(blk[g])[1] = blk[g].addr
  BY DEF Span
<1>6. ASSUME NEW g \in Handles, g # h, blk[g] # NoBlock PROVE Span(blk[g]) # Span(blk[h])
  BY <1>4, <1>5, <1>6
<1>7. Taken(blk2) = Taken(blk) \ {Span(blk[h])}
  <2>1. ASSUME NEW g \in Handles, blk2[g] # NoBlock
        PROVE  Span(blk2[g]) \in Taken(blk) \ {Span(blk[h])}
    <3>1. g # h /\ blk2[g] = blk[g]
      BY <1>1, <2>1
    <3> QED
      BY <1>6, <2>1, <3>1 DEF Taken
  <2>2. ASSUME NEW g \in Handles, blk[g] # NoBlock, Span(blk[g]) # Span(blk[h])
        PROVE  Span(blk[g]) \in Taken(blk2)
    <3>1. g # h /\ blk2[g] = blk[g]
      BY <1>1, <2>2
    <3> QED
      BY <2>2, <3>1 DEF Taken
  <2>3. \A s \in Taken(blk2) : s \in Taken(blk) \ {Span(blk[h])}
    BY <2>1 DEF Taken
  <2>4. \A s \in Taken(blk) : s # Span(blk[h]) => s \in Taken(blk2)
    BY <2>2 DEF Taken
  <2> QED
    BY <2>3, <2>4
<1>8. ASSUME NEW g \in Handles, blk2[g] # NoBlock
      PROVE  blk2[g].addr \in DOMAIN f2 /\ f2[blk2[g].addr] = blk2[g].len
  <2>1. g # h /\ blk2[g] = blk[g]
    BY <1>1, <1>8
  <2>2. blk[g].addr \in DOMAIN f /\ f[blk[g].addr] = blk[g].len /\ blk[g].addr # blk[h].addr
    BY <1>4, <1>8, <2>1 DEF AddrKnown
  <2> QED
    BY <2>1, <2>2 DEF Allocator!Without, Allocator!Restrict
<1>9. Span(blk[h]) \in Taken(blk)
  BY DEF Taken
<1> QED
  BY <1>3, <1>7, <1>8, <1>9 DEF AddrKnown
-----------------------------------------------------------------------------
(* Steps of MemoryAllocator *)

\* Where no assertion failed, the metadata become what they were made.
LEMMA Commits ==
    ASSUME NEW m, Indexed(m), Allocator!Commit(m)
    PROVE  ~failed' /\ Indexed(Allocator!Meta)' /\ a_free' = m.free
  BY DEF Indexed, Allocator!Commit, Allocator!Meta

\* A free region that is long enough gives a block, and what is left of it stays free.
LEMMA CutStep ==
    ASSUME NEW N, NEW m, Indexed(m), Layout(N, m.free, block), AddrKnown(addr2len, block),
           NEW h \in Handles, block[h] = NoBlock, NEW n \in 1 .. NodeSize,
           \E r \in m.free : Allocator!Fits(r, n),
           Allocator!Cut(h, n, m)
    PROVE  /\ ~failed' /\ Indexed(Allocator!Meta)'
           /\ Layout(N, a_free', block') /\ AddrKnown(addr2len', block')
<1> DEFINE F == m.free
           T == Taken(block)
           P == F \cup T
<1> USE AllocatorConstants
<1>1. Parts(N, P) /\ F \cap T = {} /\ BlocksTyped(block) /\ Gapless(F)
  BY DEF Layout
<1>2. /\ P \subseteq Nat \X Nat
      /\ \A r \in P : r[1] \in Nat /\ r[2] \in Nat /\ r[1] < r[2] /\ r = <<r[1], r[2]>>
  BY <1>1 DEF Parts
<1>3. PICK r \in F : r = Allocator!BestFit(F, n) /\ Allocator!Fits(r, n)
  BY <1>2, BestFitFits
<1>4. PICK lo \in Nat, hi \in Nat, mid \in Nat :
         r = <<lo, hi>> /\ r[1] = lo /\ r[2] = hi /\ mid = lo + n /\ lo < mid /\ mid <= hi
  <2>1. r[1] \in Nat /\ r[2] \in Nat /\ r = <<r[1], r[2]>> /\ r[2] - r[1] >= n
    BY <1>2, <1>3 DEF Allocator!Fits, Allocator!Length
  <2>2. r[1] + n \in Nat /\ r[1] < r[1] + n /\ r[1] + n <= r[2]
    BY <2>1
  <2> QED
    BY <2>1, <2>2
<1>5. PICK d : d = Allocator!delete_memory_region(m, lo, hi)
  OBVIOUS
<1>6. Indexed(d) /\ d.free = F \ {r}
  BY <1>3, <1>4, <1>5, DeleteIndexed
<1>7. PICK m2 : m2 = Allocator!KeepRemainder(d, lo, hi, n)
  OBVIOUS
<1>8. /\ Allocator!Commit(m2)
      /\ addr2len' = Allocator!With(addr2len, lo, n)
      /\ block' = [block EXCEPT ![h] = [addr |-> lo, len |-> n]]
  BY <1>3, <1>4, <1>5, <1>7 DEF Allocator!Cut
<1>9. \A s \in P : s # r => s[2] <= lo \/ hi <= s[1]
  BY <1>1, <1>3, <1>4 DEF Parts, Apart
<1>10. \A s \in T : s[1] # lo /\ s # r
  <2>1. \A s \in T : s \in P /\ s # r
    BY <1>1, <1>3
  <2> QED
    BY <1>2, <1>4, <1>9, <2>1
<1>11. /\ BlocksTyped(block') /\ Taken(block') = T \cup {<<lo, mid>>}
       /\ AddrKnown(addr2len', block')
  <2>1. \A s \in Taken(block) : s[1] # lo
    BY <1>10
  <2>2. PICK b \in BlockRecords : b = [addr |-> lo, len |-> n] /\ b.addr = lo /\ b.len = n
    <3>1. [addr |-> lo, len |-> n] \in BlockRecords
      BY DEF BlockRecords
    <3> QED
      BY <3>1
  <2>3. /\ block' \in [Handles -> {NoBlock} \cup BlockRecords]
        /\ block'[h] = b /\ \A g \in Handles : g # h => block'[g] = block[g]
    BY <1>1, <1>8, <2>2 DEF BlocksTyped
  <2>4. /\ BlocksTyped(block') /\ Taken(block') = Taken(block) \cup {Span(b)}
        /\ AddrKnown(addr2len', block')
    <3>1. addr2len' = Allocator!With(addr2len, b.addr, b.len)
      BY <1>8, <2>2
    <3>2. \A s \in Taken(block) : s[1] # b.addr
      BY <2>1, <2>2
    <3> HIDE DEF T, P, F
    <3> QED
      BY <1>1, <2>3, <3>1, <3>2, Takes
  <2> QED
    BY <1>4, <2>2, <2>4 DEF Span
<1>12. CASE mid = hi
  <2>1. m2 = d
    BY <1>4, <1>7, <1>12 DEF Allocator!KeepRemainder
  <2>2. ~failed' /\ Indexed(Allocator!Meta)' /\ a_free' = F \ {r}
    BY <1>6, <1>8, <2>1, Commits
  <2>3. a_free' \cup Taken(block') = P /\ a_free' \cap Taken(block') = {}
    BY <1>1, <1>3, <1>4, <1>11, <1>12, <2>2
  <2>4. Gapless(a_free')
    BY <1>1, <2>2 DEF Gapless
  <2> QED
    BY <1>1, <1>11, <2>2, <2>3, <2>4 DEF Layout
<1>13. CASE mid # hi
  <2>1. mid < hi
    BY <1>4, <1>13
  <2>2. /\ Parts(N, (P \ {r}) \cup {<<lo, mid>>, <<mid, hi>>})
        /\ <<lo, mid>> \notin P /\ <<mid, hi>> \notin P
        /\ \A s \in P : s # r => s[1] # mid /\ s[2] # mid /\ s[2] # hi /\ s[1] # lo
    <3>1. <<lo, hi>> \in P /\ r = <<lo, hi>>
      BY <1>3, <1>4
    <3> HIDE DEF P
    <3> QED
      BY <1>1, <1>4, <2>1, <3>1, PartsSplit
  <2>3. m2 = Allocator!insert_memory_region(d, mid, hi)
    <3>1. hi - lo # n
      BY <1>4, <1>13
    <3> QED
      BY <1>4, <1>7, <3>1 DEF Allocator!KeepRemainder
  <2>4. Indexed(m2) /\ m2.free = (F \ {r}) \cup {<<mid, hi>>}
    <3>1. \A s \in d.free : s[1] # mid /\ s[2] # hi
      BY <1>6, <2>2
    <3>2. m2.free = d.free \cup {<<mid, hi>>} /\ Indexed(m2)
      BY <1>6, <2>3, <3>1, InsertIndexed
    <3> QED
      BY <1>6, <3>2
  <2>5. ~failed' /\ Indexed(Allocator!Meta)' /\ a_free' = (F \ {r}) \cup {<<mid, hi>>}
    BY <1>8, <2>4, Commits
  <2>6. <<lo, mid>> # <<mid, hi>>
    BY <1>4
  <2>7. a_free' \cup Taken(block') = (P \ {r}) \cup {<<lo, mid>>, <<mid, hi>>}
    BY <1>10, <1>11, <2>5
  <2>8. a_free' \cap Taken(block') = {}
    BY <1>1, <1>11, <2>2, <2>5, <2>6
  <2>9. Gapless(a_free')
    <3> DEFINE z == <<mid, hi>>
    <3>1. z[1] = mid /\ z[2] = hi
      OBVIOUS
    <3> HIDE DEF z
    <3>2. SUFFICES ASSUME NEW a \in (F \ {r}) \cup {z}, NEW b \in (F \ {r}) \cup {z}, a[2] = b[1]
                   PROVE  a[2] \in Bases
      BY <2>5 DEF Gapless, z
    <3>3. CASE a # z /\ b # z
      BY <1>1, <3>2, <3>3 DEF Gapless
    <3>4. CASE a # z /\ b = z
      BY <2>2, <3>1, <3>2, <3>4
    <3>5. CASE a = z /\ b # z
      <4>1. r[2] = b[1] /\ r \in F /\ b \in F
        BY <1>3, <1>4, <3>1, <3>2, <3>5
      <4> QED
        BY <1>1, <1>4, <3>1, <3>5, <4>1 DEF Gapless
    <3>6. CASE a = z /\ b = z
      BY <2>1, <3>1, <3>2, <3>6
    <3> QED
      BY <3>3, <3>4, <3>5, <3>6
  <2> HIDE DEF P, F, T
  <2> QED
    BY <1>11, <2>2, <2>5, <2>7, <2>8, <2>9 DEF Layout
<1> QED
  BY <1>12, <1>13

\* operator new adds a node, all of it free.
LEMMA GrowStep ==
    ASSUME AllocInv, NEW b \in Allocator!Fresh,
           NEW m, m = Allocator!insert_memory_region(Allocator!Meta, b, b + NodeSize)
    PROVE  /\ Indexed(m) /\ Layout(a_nodes \cup {b}, m.free, block)
           /\ Node(b) \in m.free
<1> USE AllocatorConstants
<1> DEFINE T == Taken(block)
           P == a_free \cup T
<1>1. /\ Parts(a_nodes, P) /\ a_free \cap T = {} /\ BlocksTyped(block) /\ Gapless(a_free)
      /\ a_nodes \subseteq Bases /\ Allocator!Meta.free = a_free
  BY DEF AllocInv, Layout, Allocator!Meta
<1>2. b \in Bases /\ b \in Nat /\ \A n \in a_nodes : Apart(Node(b), Node(n))
  BY DEF Allocator!Fresh, Apart, Node
<1>3. /\ Parts(a_nodes \cup {b}, P \cup {Node(b)})
      /\ \A s \in P : /\ s[2] <= b \/ b + NodeSize <= s[1]
                      /\ s[1] = b + NodeSize => s[1] \in a_nodes
  BY <1>1, <1>2, PartsNode
<1>4. \A s \in P : s[1] \in Nat /\ s[2] \in Nat /\ s[1] < s[2]
  BY <1>1 DEF Parts
<1>5. \A s \in P : s[1] # b /\ s[2] # b + NodeSize
  <2>1. b < b + NodeSize /\ b + NodeSize \in Nat
    BY <1>2
  <2> QED
    BY <1>2, <1>3, <1>4, <2>1
<1>6. Node(b)[1] = b /\ Node(b)[2] = b + NodeSize /\ b < b + NodeSize
  BY <1>2 DEF Node
<1>7. Indexed(m) /\ m.free = a_free \cup {Node(b)}
  <2>1. Indexed(Allocator!Meta)
    BY DEF AllocInv
  <2>2. b + NodeSize \in Nat /\ \A s \in Allocator!Meta.free : s[1] # b /\ s[2] # b + NodeSize
    BY <1>1, <1>2, <1>5
  <2> QED
    BY <1>1, <1>2, <2>1, <2>2, InsertIndexed DEF Node
<1>8. Node(b) \notin P
  BY <1>5, <1>6
<1>9. Gapless(m.free)
  <2> SUFFICES ASSUME NEW r \in a_free \cup {Node(b)}, NEW s \in a_free \cup {Node(b)}, r[2] = s[1]
               PROVE  r[2] \in Bases
    BY <1>7 DEF Gapless
  <2>1. CASE r # Node(b) /\ s # Node(b)
    BY <1>1, <2>1 DEF Gapless
  <2>2. CASE s = Node(b)
    BY <1>2, <1>6, <2>2
  <2>3. CASE r = Node(b) /\ s # Node(b)
    BY <1>1, <1>3, <1>6, <2>3
  <2> QED
    BY <2>1, <2>2, <2>3
<1>10. m.free \cup T = P \cup {Node(b)} /\ m.free \cap T = {}
  BY <1>1, <1>7, <1>8
<1> HIDE DEF T, P
<1> QED
  BY <1>1, <1>3, <1>7, <1>9, <1>10 DEF Layout, T

(***************************************************************************)
(* A release under way: the region <<lo, hi>>, which is neither free nor a *)
(* block, completes the free regions of m and the blocks T.                *)
(***************************************************************************)
Merging(N, T, m, lo, hi) ==
    /\ Indexed(m) /\ lo \in Nat /\ hi \in Nat
    /\ Parts(N, m.free \cup {<<lo, hi>>} \cup T)
    /\ <<lo, hi>> \notin m.free /\ <<lo, hi>> \notin T /\ m.free \cap T = {}
    /\ Gapless(m.free)

\* Free regions that end where it starts, or start where it ends, do so where a node starts.
NoPrev(m, lo) == \A r \in m.free : r[2] = lo => lo \in Bases
NoNext(m, hi) == \A r \in m.free : r[1] = hi => hi \in Bases

\* A region next to it becomes part of it.
LEMMA Absorbs ==
    ASSUME NEW N, NEW T, NEW m, NEW lo, NEW hi, Merging(N, T, m, lo, hi),
           NEW a \in Nat, NEW b \in Nat, <<a, b>> \in m.free, b = lo \/ a = hi,
           NEW d, d = Allocator!delete_memory_region(m, a, b),
           NEW lo2, NEW hi2, b = lo => lo2 = a /\ hi2 = hi, b # lo => lo2 = lo /\ hi2 = b
    PROVE  Merging(N, T, d, lo2, hi2) /\ d.free = m.free \ {<<a, b>>}
<1> DEFINE F == m.free
           r == <<a, b>>
           s == <<lo, hi>>
           t == <<lo2, hi2>>
           P == F \cup {s} \cup T
<1>1. /\ Indexed(m) /\ lo \in Nat /\ hi \in Nat /\ Parts(N, P)
      /\ s \notin F /\ s \notin T /\ F \cap T = {} /\ Gapless(F)
  BY DEF Merging
<1>2. Indexed(d) /\ d.free = F \ {r}
  BY <1>1, DeleteIndexed
<1>3. r \in F /\ r \in P /\ s \in P /\ r # s
  BY <1>1
<1>4. lo2 \in Nat /\ hi2 \in Nat /\ Parts(N, (P \ {r, s}) \cup {t}) /\ t \notin P
  <2>1. CASE b = lo
    BY <1>1, <1>3, <2>1, PartsJoin
  <2>2. CASE b # lo
    <3>1. a = hi /\ lo2 = lo /\ hi2 = b
      BY <2>2
    <3>2. Parts(N, (P \ {<<lo, hi>>, <<hi, b>>}) \cup {<<lo, b>>}) /\ <<lo, b>> \notin P
      BY <1>1, <1>3, <3>1, PartsJoin
    <3>3. {<<lo, hi>>, <<hi, b>>} = {r, s} /\ <<lo, b>> = t
      BY <3>1
    <3> QED
      BY <1>1, <3>1, <3>2, <3>3
  <2> QED
    BY <2>1, <2>2
<1> HIDE DEF r, s, t
<1>5. (P \ {r, s}) \cup {t} = d.free \cup {t} \cup T
  BY <1>1, <1>2, <1>3
<1>6. t \notin d.free /\ t \notin T /\ d.free \cap T = {} /\ Gapless(d.free)
  BY <1>1, <1>2, <1>4 DEF Gapless
<1> QED
  BY <1>2, <1>4, <1>5, <1>6 DEF Merging, r, t

\* The merge with the region before.
LEMMA PrevMerged ==
    ASSUME NEW N, NEW T, NEW m, NEW lo, NEW hi, Merging(N, T, m, lo, hi),
           NEW g, g = Allocator!MergePrev(m, lo, hi)
    PROVE  Merging(N, T, g.m, g.left, g.right) /\ NoPrev(g.m, g.left)
<1>1. Indexed(m) /\ lo \in Nat /\ hi \in Nat /\ Gapless(m.free) /\ m.free \subseteq Nat \X Nat
  BY DEF Merging, Indexed
<1>2. CASE lo \in DOMAIN m.r2l
  <2>1. PICK a \in Nat : a = m.r2l[lo] /\ <<a, lo>> \in m.free
    BY <1>1, <1>2 DEF Indexed
  <2>2. PICK d : d = Allocator!delete_memory_region(m, a, lo)
    OBVIOUS
  <2>3. g.m = d /\ g.left = a /\ g.right = hi
    BY <1>2, <2>1, <2>2 DEF Allocator!MergePrev
  <2>4. Merging(N, T, d, a, hi) /\ d.free = m.free \ {<<a, lo>>}
    BY <1>1, <2>1, <2>2, Absorbs
  <2>5. NoPrev(d, a)
    <3> SUFFICES ASSUME NEW r \in d.free, r[2] = a PROVE a \in Bases
      BY DEF NoPrev
    <3>1. r \in m.free /\ r[2] = <<a, lo>>[1]
      BY <2>4
    <3> QED
      BY <1>1, <2>1, <3>1 DEF Gapless
  <2> QED
    BY <2>3, <2>4, <2>5
<1>3. CASE lo \notin DOMAIN m.r2l
  <2>1. g.m = m /\ g.left = lo /\ g.right = hi
    BY <1>3 DEF Allocator!MergePrev
  <2>2. ASSUME NEW r \in m.free, r[2] = lo PROVE FALSE
    <3>1. r[1] \in Nat /\ r = <<r[1], lo>>
      BY <1>1, <2>2
    <3>2. <<r[1], lo>> \in m.free
      BY <3>1
    <3> QED
      BY <1>1, <1>3, <3>1, <3>2 DEF Indexed
  <2> QED
    BY <2>1, <2>2 DEF NoPrev
<1> QED
  BY <1>2, <1>3

\* The merge with the region behind.
LEMMA NextMerged ==
    ASSUME NEW N, NEW T, NEW g, Merging(N, T, g.m, g.left, g.right), NoPrev(g.m, g.left),
           NEW k, k = Allocator!MergeNext(g)
    PROVE  /\ Merging(N, T, k.m, k.left, k.right)
           /\ NoPrev(k.m, k.left) /\ NoNext(k.m, k.right)
<1>0. PICK m, lo, hi : m = g.m /\ lo = g.left /\ hi = g.right
  OBVIOUS
<1>1. /\ Indexed(m) /\ lo \in Nat /\ hi \in Nat /\ Gapless(m.free) /\ m.free \subseteq Nat \X Nat
      /\ Merging(N, T, m, lo, hi) /\ NoPrev(m, lo)
  BY <1>0 DEF Merging, Indexed
<1>2. CASE hi \in DOMAIN m.l2r
  <2>1. PICK b \in Nat : b = m.l2r[hi] /\ <<hi, b>> \in m.free
    BY <1>1, <1>2 DEF Indexed
  <2>2. PICK d : d = Allocator!delete_memory_region(m, hi, b)
    OBVIOUS
  <2>3. k.m = d /\ k.left = lo /\ k.right = b
    BY <1>0, <1>2, <2>1, <2>2 DEF Allocator!MergeNext
  <2>4. b # lo
    <3>1. <<lo, hi>>[1] < <<lo, hi>>[2] /\ <<hi, b>>[1] < <<hi, b>>[2]
      BY <1>1, <2>1 DEF Merging, Parts
    <3> QED
      BY <1>1, <2>1, <3>1
  <2>5. Merging(N, T, d, lo, b) /\ d.free = m.free \ {<<hi, b>>}
    BY <1>1, <2>1, <2>2, <2>4, Absorbs
  <2>6. NoPrev(d, lo)
    BY <1>1, <2>5 DEF NoPrev
  <2>7. NoNext(d, b)
    <3> SUFFICES ASSUME NEW r \in d.free, r[1] = b PROVE b \in Bases
      BY DEF NoNext
    <3>1. r \in m.free /\ r[1] = <<hi, b>>[2] /\ <<hi, b>>[2] = b
      BY <2>5
    <3> QED
      BY <1>1, <2>1, <3>1 DEF Gapless
  <2> QED
    BY <2>3, <2>5, <2>6, <2>7
<1>3. CASE hi \notin DOMAIN m.l2r
  <2>1. k.m = m /\ k.left = lo /\ k.right = hi
    BY <1>0, <1>3 DEF Allocator!MergeNext
  <2>2. ASSUME NEW r \in m.free, r[1] = hi PROVE FALSE
    <3>1. r[2] \in Nat /\ r = <<hi, r[2]>>
      BY <1>1, <2>2
    <3>2. <<hi, r[2]>> \in m.free
      BY <3>1
    <3> QED
      BY <1>1, <1>3, <3>1, <3>2 DEF Indexed
  <2> QED
    BY <1>1, <2>1, <2>2 DEF NoNext
<1> QED
  BY <1>2, <1>3

\* What was merged becomes a free region.
LEMMA Merged ==
    ASSUME NEW N, NEW T, NEW m, NEW lo, NEW hi, Merging(N, T, m, lo, hi),
           NoPrev(m, lo), NoNext(m, hi),
           Allocator!Commit(Allocator!insert_memory_region(m, lo, hi))
    PROVE  /\ ~failed' /\ Indexed(Allocator!Meta)'
           /\ Parts(N, a_free' \cup T) /\ a_free' \cap T = {}
           /\ Gapless(a_free')
<1> DEFINE s == <<lo, hi>>
<1>1. PICK d : d = Allocator!insert_memory_region(m, lo, hi)
  OBVIOUS
<1>2. /\ Indexed(m) /\ lo \in Nat /\ hi \in Nat /\ Parts(N, m.free \cup {s} \cup T)
      /\ s \notin m.free /\ s \notin T /\ m.free \cap T = {} /\ Gapless(m.free)
  BY DEF Merging
<1>3. s[1] = lo /\ s[2] = hi /\ lo < hi
  <2>1. s[1] < s[2]
    BY <1>2 DEF Parts
  <2> QED
    BY <2>1
<1>4. ASSUME NEW r \in m.free PROVE r[1] # lo /\ r[2] # hi
  <2>1. r # s /\ r[1] \in Nat /\ r[2] \in Nat /\ r[1] < r[2] /\ Apart(r, s)
    BY <1>2 DEF Parts
  <2> HIDE DEF s
  <2> QED
    BY <1>2, <1>3, <2>1 DEF Apart
<1>5. Indexed(d) /\ d.free = m.free \cup {s}
  BY <1>1, <1>2, <1>4, InsertIndexed
<1>6. ~failed' /\ Indexed(Allocator!Meta)' /\ a_free' = m.free \cup {s}
  BY <1>1, <1>5, Commits
<1> HIDE DEF s
<1>7. Gapless(a_free')
  <2> SUFFICES ASSUME NEW a \in m.free \cup {s}, NEW b \in m.free \cup {s}, a[2] = b[1]
               PROVE  a[2] \in Bases
    BY <1>6 DEF Gapless
  <2>1. CASE a # s /\ b # s
    BY <1>2, <2>1 DEF Gapless
  <2>2. CASE a # s /\ b = s
    BY <1>3, <2>2 DEF NoPrev
  <2>3. CASE a = s /\ b # s
    BY <1>3, <2>3 DEF NoNext
  <2>4. CASE a = s /\ b = s
    BY <1>2, <1>3, <2>4
  <2> QED
    BY <2>1, <2>2, <2>3, <2>4
<1> QED
  BY <1>2, <1>6, <1>7

\* release: a block becomes free again.
LEMMA ReleaseStep ==
    ASSUME AllocInv, NEW h \in Handles, Allocator!Release(h)
    PROVE  AllocInv'
<1> DEFINE T == Taken(block')
           N == a_nodes
           Meta == Allocator!Meta
<1>1. /\ Indexed(Meta) /\ Layout(N, a_free, block) /\ AddrKnown(addr2len, block)
      /\ Meta.free = a_free /\ block[h] # NoBlock
  BY DEF AllocInv, Allocator!Release, Allocator!Meta
<1>2. PICK lo \in Nat, n \in 1 .. NodeSize :
        lo = block[h].addr /\ n = block[h].len /\ Span(block[h]) = <<lo, lo + n>>
  BY <1>1 DEF Layout, BlocksTyped, BlockRecords, Span
<1>3. lo \in DOMAIN addr2len /\ addr2len[lo] = n
  BY <1>1, <1>2 DEF AddrKnown
<1>4. [Meta EXCEPT !.ok = TRUE] = Meta
  <2> DEFINE fields == {"free", "l2r", "r2l", "ok"}
  <2>1. Meta \in [fields -> {Meta[x] : x \in fields}]
    BY DEF Allocator!Meta
  <2>2. "ok" \in fields /\ Meta["ok"] = TRUE
    BY DEF Allocator!Meta
  <2> HIDE DEF fields, Meta
  <2> QED
    BY <2>1, <2>2
<1>5. PICK g : g = Allocator!MergePrev(Meta, lo, lo + n)
  OBVIOUS
<1>6. PICK k : k = Allocator!MergeNext(g)
  OBVIOUS
<1>7. /\ Allocator!Commit(Allocator!insert_memory_region(k.m, k.left, k.right))
      /\ addr2len' = Allocator!Without(addr2len, lo)
      /\ block' = [block EXCEPT ![h] = NoBlock] /\ a_nodes' = N
  BY <1>2, <1>3, <1>4, <1>5, <1>6 DEF Allocator!Release
<1>8. /\ BlocksTyped(block') /\ T = Taken(block) \ {<<lo, lo + n>>}
      /\ <<lo, lo + n>> \in Taken(block)
      /\ AddrKnown(addr2len', block')
  <2>1. BlocksTyped(block)
    BY <1>1 DEF Layout
  <2>2. /\ block' \in [Handles -> {NoBlock} \cup BlockRecords]
        /\ block'[h] = NoBlock /\ \A o \in Handles : o # h => block'[o] = block[o]
    BY <1>7, <2>1 DEF BlocksTyped
  <2>3. addr2len' = Allocator!Without(addr2len, block[h].addr)
    BY <1>2, <1>7
  <2> QED
    BY <1>1, <1>2, <2>1, <2>2, <2>3, GivesBack
<1>9. Merging(N, T, Meta, lo, lo + n)
  <2>1. lo + n \in Nat
    BY <1>2, AllocatorConstants
  <2>2. a_free \cup {<<lo, lo + n>>} \cup T = a_free \cup Taken(block)
    BY <1>8
  <2>3. <<lo, lo + n>> \notin a_free /\ <<lo, lo + n>> \notin T /\ a_free \cap T = {}
    BY <1>1, <1>8 DEF Layout
  <2> HIDE DEF T, N, Meta
  <2> QED
    BY <1>1, <1>2, <2>1, <2>2, <2>3 DEF Merging, Layout
<1>10. Merging(N, T, g.m, g.left, g.right) /\ NoPrev(g.m, g.left)
  BY <1>5, <1>9, PrevMerged
<1>11. Merging(N, T, k.m, k.left, k.right) /\ NoPrev(k.m, k.left) /\ NoNext(k.m, k.right)
  BY <1>6, <1>10, NextMerged
<1>12. /\ ~failed' /\ Indexed(Allocator!Meta)'
       /\ Parts(N, a_free' \cup T) /\ a_free' \cap T = {}
       /\ Gapless(a_free')
  BY <1>7, <1>11, Merged
<1>13. Layout(a_nodes, a_free, block)'
  BY <1>7, <1>8, <1>12 DEF Layout
<1> QED
  BY <1>7, <1>8, <1>12, <1>13 DEF AllocInv

\* allocate, in a region that is there and in a new node.
LEMMA AllocateSteps ==
    ASSUME AllocInv, NEW h \in Handles, NEW n \in 1 .. NodeSize,
           Allocator!Allocate(h, n) \/ Allocator!AllocateInNewNode(h, n)
    PROVE  AllocInv'
<1>1. CASE Allocator!Allocate(h, n)
  <2>1. /\ block[h] = NoBlock /\ \E r \in Allocator!Meta.free : Allocator!Fits(r, n)
        /\ Allocator!Cut(h, n, Allocator!Meta) /\ a_nodes' = a_nodes
    BY <1>1 DEF Allocator!Allocate, Allocator!Meta
  <2>2. /\ Indexed(Allocator!Meta) /\ Layout(a_nodes, Allocator!Meta.free, block)
        /\ AddrKnown(addr2len, block)
    BY DEF AllocInv, Allocator!Meta
  <2>3. /\ ~failed' /\ Indexed(Allocator!Meta)'
        /\ Layout(a_nodes, a_free', block') /\ AddrKnown(addr2len', block')
    BY <2>1, <2>2, CutStep
  <2> QED
    BY <2>1, <2>3 DEF AllocInv
<1>2. CASE Allocator!AllocateInNewNode(h, n)
  <2>1. PICK b \in Allocator!Fresh :
           /\ a_nodes' = a_nodes \cup {b} /\ block[h] = NoBlock
           /\ Allocator!Cut(h, n, Allocator!insert_memory_region(Allocator!Meta, b, b + NodeSize))
    BY <1>2 DEF Allocator!AllocateInNewNode
  <2>2. PICK m : m = Allocator!insert_memory_region(Allocator!Meta, b, b + NodeSize)
    OBVIOUS
  <2>3. Indexed(m) /\ Layout(a_nodes \cup {b}, m.free, block) /\ Node(b) \in m.free
    BY <2>2, GrowStep
  <2>4. b \in Bases /\ b \in Nat
    BY AllocatorConstants DEF Allocator!Fresh
  <2>5. Allocator!Fits(Node(b), n)
    BY <2>4, AllocatorConstants DEF Allocator!Fits, Allocator!Length, Node
  <2>6. AddrKnown(addr2len, block)
    BY DEF AllocInv
  <2>7. /\ ~failed' /\ Indexed(Allocator!Meta)'
        /\ Layout(a_nodes \cup {b}, a_free', block') /\ AddrKnown(addr2len', block')
    BY <2>1, <2>2, <2>3, <2>5, <2>6, CutStep
  <2> QED
    BY <2>1, <2>4, <2>7 DEF AllocInv
<1> QED
  BY <1>1, <1>2

\* The constructor creates the first node.
LEMMA InitAllocInv ==
    ASSUME Init
    PROVE  AllocInv
<1> USE AllocatorConstants
<1>1. PICK b \in Bases :
        /\ a_nodes = {b} /\ a_free = {<<b, b + NodeSize>>}
        /\ left2right = [a \in {b} |-> b + NodeSize]
        /\ right2left = [a \in {b + NodeSize} |-> b]
        /\ block = [h \in Handles |-> NoBlock]
        /\ failed = FALSE
  BY DEF Init, Allocator!Init
<1>2. b \in Nat /\ b + NodeSize \in Nat /\ b < b + NodeSize
  OBVIOUS
<1>3. Taken(block) = {} /\ BlocksTyped(block) /\ AddrKnown(addr2len, block)
  BY <1>1 DEF Taken, BlocksTyped, AddrKnown
<1>4. Parts(a_nodes, a_free)
  <2> DEFINE r == <<b, b + NodeSize>>
  <2>1. r[1] = b /\ r[2] = b + NodeSize /\ r = Node(b) /\ r \in Nat \X Nat
    BY <1>2 DEF Node
  <2> HIDE DEF r
  <2>2. a_free = {r}
    BY <1>1 DEF r
  <2>3. Within(r, b)
    BY <1>2, <2>1 DEF Within
  <2> QED
    BY <1>1, <1>2, <2>1, <2>2, <2>3 DEF Parts
<1>5. Gapless(a_free)
  <2>1. <<b, b + NodeSize>>[2] # <<b, b + NodeSize>>[1]
    BY <1>2
  <2> QED
    BY <1>1, <2>1 DEF Gapless
<1>6. Layout(a_nodes, a_free, block)
  BY <1>3, <1>4, <1>5 DEF Layout
<1>7. Indexed(Allocator!Meta)
  <2>1. PICK m : m = Allocator!Meta
    OBVIOUS
  <2>2. /\ m.ok = TRUE /\ m.free = {<<b, b + NodeSize>>}
        /\ m.l2r = [a \in {b} |-> b + NodeSize] /\ m.r2l = [a \in {b + NodeSize} |-> b]
    BY <1>1, <2>1 DEF Allocator!Meta
  <2>3. Indexed(m)
    BY <1>2, <2>2 DEF Indexed
  <2> QED
    BY <2>1, <2>3
<1> QED
  BY <1>1, <1>3, <1>6, <1>7 DEF AllocInv

\* Every step keeps the invariant, if no caller asks for nothing.
LEMMA NextAllocInv ==
    ASSUME 0 \notin Lens, AllocInv, [Next]_allVars
    PROVE  AllocInv'
<1>1. CASE Allocator!Next
  <2>1. \A n \in Lens : n \in 1 .. NodeSize
    BY AllocatorConstants
  <2> QED
    BY <1>1, <2>1, AllocateSteps, ReleaseStep DEF Allocator!Next
<1>2. CASE UNCHANGED allocatorVars
  BY <1>2 DEF allocatorVars, AllocInv, Allocator!Meta, Layout, AddrKnown, BlocksTyped, Taken
<1> QED
  BY <1>1, <1>2, ComponentSteps

\* What the invariant says of blocks and free regions, in the words of MemoryTiled.
LEMMA TiledMemory ==
    ASSUME AllocInv
    PROVE  MemoryTiled
<1> USE AllocatorConstants
<1> DEFINE P == a_free \cup Taken(block)
           BytesOf(r) == Allocator!Bytes(r[1], r[2])
<1>1. /\ Parts(a_nodes, P) /\ a_free \cap Taken(block) = {} /\ BlocksTyped(block)
      /\ Gapless(a_free) /\ a_nodes \subseteq Nat
  BY DEF AllocInv, Layout
<1>2. ASSUME NEW h \in Allocator!Held
      PROVE  /\ h \in Handles /\ block[h] # NoBlock
             /\ Span(block[h]) \in Taken(block)
             /\ Span(block[h])[1] = block[h].addr
             /\ Allocator!BlockBytes(h) = BytesOf(Span(block[h]))
  BY DEF Allocator!Held, Taken, Span, Allocator!BlockBytes
<1>3. ASSUME NEW r \in P PROVE r[1] \in Nat /\ r[2] \in Nat /\ r[1] < r[2]
  BY <1>1 DEF Parts
<1>4. ASSUME NEW r \in P, NEW s \in P, r # s PROVE BytesOf(r) \cap BytesOf(s) = {}
  <2>1. r[2] <= s[1] \/ s[2] <= r[1]
    BY <1>1, <1>4 DEF Parts, Apart
  <2> QED
    BY <1>3, <2>1 DEF Allocator!Bytes
<1>5. ASSUME NEW r \in P, NEW x PROVE x \in BytesOf(r) <=> x \in Nat /\ Holds(r, x)
  BY <1>3 DEF Allocator!Bytes, Holds
<1>6. ASSUME NEW b \in a_nodes, NEW x
      PROVE  x \in Allocator!Bytes(b, b + NodeSize) <=> x \in Nat /\ Holds(Node(b), x)
  BY <1>1 DEF Allocator!Bytes, Holds, Node
<1> HIDE DEF BytesOf
<1>7. Allocator!NodeBytes = UNION ({Allocator!Bytes(r[1], r[2]) : r \in a_free}
                                     \cup {Allocator!BlockBytes(h) : h \in Allocator!Held})
  <2> DEFINE U == UNION ({Allocator!Bytes(r[1], r[2]) : r \in a_free}
                           \cup {Allocator!BlockBytes(h) : h \in Allocator!Held})
  <2>1. ASSUME NEW x PROVE x \in U <=> \E r \in P : x \in BytesOf(r)
    <3>1. x \in U <=> \/ \E r \in a_free : x \in BytesOf(r)
                      \/ \E h \in Allocator!Held : x \in BytesOf(Span(block[h]))
      BY <1>2 DEF BytesOf
    <3>2. (\E h \in Allocator!Held : x \in BytesOf(Span(block[h])))
             <=> \E r \in Taken(block) : x \in BytesOf(r)
      BY DEF Taken, Allocator!Held
    <3> QED
      BY <3>1, <3>2
  <2>2. ASSUME NEW x
        PROVE  x \in Allocator!NodeBytes <=> \E b \in a_nodes : x \in Nat /\ Holds(Node(b), x)
    BY <1>6 DEF Allocator!NodeBytes
  <2>3. ASSUME NEW x PROVE x \in U <=> x \in Allocator!NodeBytes
    <3>1. x \in Nat => ((\E r \in P : Holds(r, x)) <=> (\E b \in a_nodes : Holds(Node(b), x)))
      BY <1>1 DEF Parts
    <3> HIDE DEF U, P
    <3> QED
      BY <1>5, <2>1, <2>2, <3>1
  <2> HIDE DEF U
  <2>4. U = Allocator!NodeBytes
    BY <2>3
  <2> QED
    BY <2>4 DEF U
<1>8. \A r, s \in a_free : r # s =>
         Allocator!Bytes(r[1], r[2]) \cap Allocator!Bytes(s[1], s[2]) = {}
  BY <1>4 DEF BytesOf
<1>9. ASSUME NEW g \in Allocator!Held, NEW h \in Allocator!Held, g # h
      PROVE  Allocator!BlockBytes(g) \cap Allocator!BlockBytes(h) = {}
  <2>1. block[g].addr # block[h].addr
    BY <1>1, <1>2, <1>9 DEF BlocksTyped
  <2>2. Span(block[g]) # Span(block[h])
    BY <1>2, <2>1
  <2> QED
    BY <1>2, <1>4, <2>2
<1>10. ASSUME NEW r \in a_free, NEW h \in Allocator!Held
       PROVE  Allocator!Bytes(r[1], r[2]) \cap Allocator!BlockBytes(h) = {}
  BY <1>1, <1>2, <1>4 DEF BytesOf
<1>11. Allocator!MemoryTiled
  BY <1>7, <1>8, <1>9, <1>10 DEF Allocator!MemoryTiled
<1>12. Allocator!Coalesced
  BY <1>1 DEF Gapless, Allocator!Coalesced
<1>13. ASSUME \A b, n \in a_nodes : b + NodeSize # n, NEW h \in Allocator!Held
       PROVE  \E b \in a_nodes : Allocator!BlockBytes(h) \subseteq Allocator!Bytes(b, b + NodeSize)
  <2>1. PICK b \in a_nodes : Within(Span(block[h]), b)
    BY <1>1, <1>2, <1>13 DEF Parts
  <2>2. \A x : x \in BytesOf(Span(block[h])) => x \in Nat /\ Holds(Node(b), x)
    <3> SUFFICES ASSUME NEW x \in BytesOf(Span(block[h])) PROVE x \in Nat /\ Holds(Node(b), x)
      OBVIOUS
    <3>1. x \in Nat /\ Holds(Span(block[h]), x)
      BY <1>2, <1>5
    <3>2. Span(block[h]) \in P
      BY <1>2
    <3>3. PICK r : r = Span(block[h])
      OBVIOUS
    <3>4. r[1] \in Nat /\ r[2] \in Nat /\ b \in Nat /\ b <= r[1] /\ r[2] <= b + NodeSize
      BY <1>1, <1>3, <2>1, <3>2, <3>3 DEF Within
    <3>5. r[1] <= x /\ x < r[2]
      BY <3>1, <3>3 DEF Holds
    <3> QED
      BY <3>1, <3>4, <3>5 DEF Holds, Node
  <2> QED
    BY <1>2, <1>6, <2>2
<1>14. Allocator!BlocksInOneNode
  BY <1>13 DEF Allocator!BlocksInOneNode
<1> QED
  BY <1>11, <1>12, <1>14 DEF MemoryTiled
-----------------------------------------------------------------------------
(* Theorems *)

(***************************************************************************)
(* refcnt counts the owners and what it counts is gone with its last       *)
(* owner: a Data of cow.cc while objects are only copied (and none outlives*)
(* its last object even when they move), an object of shared_ptr.cc in     *)
(* every program.                                                          *)
(***************************************************************************)
THEOREM CountsAreOwners == Spec => []RefcntCountsOwners
<1>1. CowInv => /\ routine = "cow_copies" => Cow!RefcntCountsOwners
                /\ Cow!NothingLeaks
  <2>1. CowInv /\ routine = "cow_copies" => Cow!RefcntCountsOwners
    BY CowCardinality
    DEF CowInv, CowBounded, CowExact, CowOwned, Cow!RefcntCountsOwners, Cow!Owners, Cow!Exists
  <2>2. ASSUME CowInv, NEW b \in c_alive PROVE Cow!Owners(b) # {}
    <3>1. b \in Blocks /\ 0 < c_refcnt[b] /\ c_refcnt[b] <= CowOwned(b) /\ c_refcnt[b] \in Nat
      BY <2>2 DEF CowInv, CowBounded, CowTyped
    <3> QED
      BY <3>1, FS_EmptySet DEF CowOwned, Cow!Owners
  <2> QED
    BY <2>1, <2>2 DEF Cow!NothingLeaks
<1>2. SharedInv => Shared!RefcntCountsOwners
  BY SharedCardinality
  DEF SharedInv, SharedCounts, SharedOwned, Shared!RefcntCountsOwners, Shared!Owners
<1>3. CowInv /\ SharedInv => RefcntCountsOwners
  BY <1>1, <1>2 DEF RefcntCountsOwners
<1> QED
  BY <1>3, InitCow, NextCow, InitShared, NextShared, PTL DEF Spec

(***************************************************************************)
(* Programs that only copy COW objects, and programs that use shared and   *)
(* weak pointers carefully, follow no pointer to what is gone; weak and    *)
(* shared pointers know each other.                                        *)
(***************************************************************************)
THEOREM NothingUndefined == Spec => []WellDefined
<1>1. CowInv /\ SharedInv => WellDefined
  BY SharedConstants
  DEF CowInv, CowExact, SharedInv, WeaksKnown, WellDefined, Cow!WellDefined, Shared!WellDefined,
      Shared!SubscriptionsAgree, Shared!Exists
<1> QED
  BY <1>1, InitCow, NextCow, InitShared, NextShared, PTL DEF Spec

(***************************************************************************)
(* While objects are only copied, changing one COW object is not seen      *)
(* through another: mutable_operation makes a Data of its own when refcnt  *)
(* says that others share it.                                              *)
(***************************************************************************)
THEOREM MutationsArePrivate == Spec => MutationIsPrivate
<1> DEFINE Private ==
      \A o, p \in Objects, c \in Contents :
          routine = "cow_copies" /\ Cow!Mutate(o, c) /\ p # o /\ Cow!Exists(p)
              => c_data'[p] = c_data[p] /\ vec'[c_data[p]] = vec[c_data[p]]
<1>1. CowInv => Private
  <2> SUFFICES ASSUME CowInv, NEW o \in Objects, NEW p \in Objects, NEW c \in Contents,
                      routine = "cow_copies", Cow!Mutate(o, c), p # o, Cow!Exists(p)
               PROVE  c_data'[p] = c_data[p] /\ vec'[c_data[p]] = vec[c_data[p]]
    OBVIOUS
  <2>1. CowTyped /\ CowExact /\ CowBounded
    BY DEF CowInv
  <2>2. c_data[o] \in c_alive /\ c_data[p] \in c_alive
    BY <2>1 DEF CowExact, Cow!Mutate, Cow!Exists
  <2>3. CASE Cow!Shared(c_data[o])
    <3>1. PICK b \in Blocks \ c_alive : /\ c_data' = [c_data EXCEPT ![o] = b]
                                        /\ vec' = [vec EXCEPT ![b] = c]
      BY <2>2, <2>3 DEF Cow!Mutate, Cow!Following
    <3> QED
      BY <2>1, <2>2, <3>1 DEF CowTyped
  <2>4. CASE ~Cow!Shared(c_data[o])
    <3>1. c_data' = c_data /\ vec' = [vec EXCEPT ![c_data[o]] = c]
      BY <2>2, <2>4 DEF Cow!Mutate, Cow!Following
    <3>2. c_data[p] # c_data[o]
      <4> SUFFICES ASSUME c_data[p] = c_data[o] PROVE FALSE
        OBVIOUS
      <4> DEFINE A == {q \in Objects : c_data[q] = c_data[o]}
      <4>1. o \in A /\ p \in A /\ IsFiniteSet(A)
        BY CowConstants, FS_Subset
      <4>2. Cardinality(A) > 1
        BY <4>1, TwoIn
      <4>3. Cardinality(A) = 1
        BY <2>1, <2>2, <2>4 DEF CowExact, CowOwned, Cow!Shared
      <4> QED
        BY <4>2, <4>3
    <3> QED
      BY <3>1, <3>2
  <2> QED
    BY <2>3, <2>4
<1>2. CowInv /\ [Next]_allVars => [Private]_allVars
  BY <1>1
<1> QED
  BY <1>2, InitCow, NextCow, PTL DEF Spec, MutationIsPrivate

PoolsInv == OPoolInv /\ ObjectPoolInv

\* Both pools are constructed with one node and nothing carved from it.
LEMMA InitPools == Init => PoolsInv
  BY InitOPool, InitObjectPool DEF PoolsInv

\* Every step of the program keeps the books of both pools.
LEMMA NextPools == PoolsInv /\ [Next]_allVars => PoolsInv'
  BY NextOPool, NextObjectPool DEF PoolsInv

(***************************************************************************)
(* Whatever New and Release do and whichever constructor throws, every     *)
(* chunk carved from a node is on the free list once, with one caller, or  *)
(* lost to a constructor that threw; the free list of object-pool.cc,      *)
(* which hangs together by pointers in the chunks, has no cycle.           *)
(***************************************************************************)
THEOREM EveryChunkIsAccounted == Spec => []ChunksAccounted
<1>1. OPoolInv => OPool!ChunksAccounted
  <2> SUFFICES ASSUME OPoolInv PROVE OPool!ChunksAccounted
    OBVIOUS
  <2>1. OPool!Free = Elements(freelist)
    BY DEF OPool!Free, Elements, OPoolInv
  <2> QED
    BY <2>1, OPoolNames DEF OPool!ChunksAccounted, OPoolInv, OPoolBooks, Books
<1>2. ObjectPoolInv => ObjectPool!ChunksAccounted
  <2> SUFFICES ASSUME ObjectPoolInv PROVE ObjectPool!ChunksAccounted
    OBVIOUS
  <2>1. PICK f \in [Nat -> PoolChunks], m \in Nat : ObjectPoolBooks(f, m)
    BY DEF ObjectPoolInv
  <2>2. ObjectPool!FreeCount = m /\ ObjectPool!Free = Chained(f, m)
    BY <2>1, WhatIsFree
  <2> QED
    BY <2>1, <2>2, ObjectPoolNames DEF ObjectPool!ChunksAccounted, ObjectPoolBooks, Books
<1>3. PoolsInv => ChunksAccounted
  BY <1>1, <1>2 DEF PoolsInv, ChunksAccounted
<1> QED
  BY <1>3, InitPools, NextPools, PTL DEF Spec

(***************************************************************************)
(* Neither pool carves a chunk while a released one is free: the number    *)
(* carved is the most that callers held, or constructors lost, at once.    *)
(***************************************************************************)
THEOREM GrowthIsNeeded == Spec => []NoNeedlessGrowth
<1>1. OPoolInv => OPool!NoNeedlessGrowth
  BY OPoolNames DEF OPool!NoNeedlessGrowth, OPoolInv, OPoolBooks, Books
<1>2. ObjectPoolInv => ObjectPool!NoNeedlessGrowth
  BY ObjectPoolNames DEF ObjectPool!NoNeedlessGrowth, ObjectPoolInv, ObjectPoolBooks, Books
<1>3. PoolsInv => NoNeedlessGrowth
  BY <1>1, <1>2 DEF PoolsInv, NoNeedlessGrowth
<1> QED
  BY <1>3, InitPools, NextPools, PTL DEF Spec

(***************************************************************************)
(* Both pools implement Pool: New hands out a chunk that nobody holds, and *)
(* only what a caller holds is taken back.                                 *)
(***************************************************************************)
THEOREM PoolsKeepPromise == Spec => ImplementsPool
<1>1. Init => OPool!Promise!PoolInit /\ ObjectPool!Promise!PoolInit
  BY DEF Init, OPool!Init, ObjectPool!Init, OPool!Promise!PoolInit, ObjectPool!Promise!PoolInit
<1>2. PoolsInv /\ [Next]_allVars => /\ [OPool!Promise!PoolNext]_l_holders
                                    /\ [ObjectPool!Promise!PoolNext]_i_holders
  BY NextOPool, NextObjectPool DEF PoolsInv
<1> QED
  BY <1>1, <1>2, InitPools, NextPools, PTL
  DEF Spec, ImplementsPool, OPool!ImplementsPool, ObjectPool!ImplementsPool,
      OPool!Promise!PoolSpec, ObjectPool!Promise!PoolSpec

(***************************************************************************)
(* Allocator: whatever is allocated and released, in whatever order, free  *)
(* regions and blocks tile the nodes, no block overlaps another, no byte   *)
(* is lost, release leaves no two free regions side by side, and a block   *)
(* lies in one node when no two nodes touch -- unless callers ask for 0    *)
(* bytes.                                                                  *)
(***************************************************************************)
THEOREM MemoryIsTiled ==
    ASSUME 0 \notin Lens
    PROVE  Spec => []MemoryTiled
<1>1. Init => AllocInv
  BY InitAllocInv
<1>2. AllocInv /\ [Next]_allVars => AllocInv'
  BY NextAllocInv
<1>3. AllocInv => MemoryTiled
  BY TiledMemory
<1> QED
  BY <1>1, <1>2, <1>3, PTL DEF Spec

(***************************************************************************)
(* Allocator: the set of free regions and the two maps always agree, and   *)
(* no assertion of memory_allocator.cc ever fails -- unless callers ask    *)
(* for 0 bytes.                                                            *)
(***************************************************************************)
THEOREM IndexesAlwaysAgree ==
    ASSUME 0 \notin Lens
    PROVE  Spec => []IndexesAgree
<1>1. Init => AllocInv
  BY InitAllocInv
<1>2. AllocInv /\ [Next]_allVars => AllocInv'
  BY NextAllocInv
<1>3. AllocInv => IndexesAgree
  <2> SUFFICES ASSUME AllocInv PROVE IndexesAgree
    OBVIOUS
  <2>1. /\ ~failed
        /\ a_free \subseteq Nat \X Nat
        /\ DOMAIN left2right \subseteq Nat /\ \A x \in DOMAIN left2right : left2right[x] \in Nat
        /\ DOMAIN right2left \subseteq Nat /\ \A x \in DOMAIN right2left : right2left[x] \in Nat
        /\ \A lo, hi \in Nat :
              /\ <<lo, hi>> \in a_free <=> lo \in DOMAIN left2right /\ left2right[lo] = hi
              /\ <<lo, hi>> \in a_free <=> hi \in DOMAIN right2left /\ right2left[hi] = lo
    BY DEF AllocInv, Indexed, Allocator!Meta
  <2>2. a_free = {<<lo, left2right[lo]>> : lo \in DOMAIN left2right}
    BY <2>1
  <2>3. a_free = {<<right2left[hi], hi>> : hi \in DOMAIN right2left}
    BY <2>1
  <2> QED
    BY <2>1, <2>2, <2>3 DEF IndexesAgree, Allocator!IndexesAgree, Allocator!AssertsHold
<1> QED
  BY <1>1, <1>2, <1>3, PTL DEF Spec
=============================================================================
