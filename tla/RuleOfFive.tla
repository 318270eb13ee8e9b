------------------------------ MODULE RuleOfFive ------------------------------
(***************************************************************************)
(* RDerived<T> of ro5.cc with its base RBase<T>: an object owns two        *)
(* allocations, which live and die together and are one block here, and a  *)
(* socket.  A step is one special member function.  The assignments call   *)
(* a swap with two arguments that the class does not have, and so cannot   *)
(* be instantiated.                                                        *)
(***************************************************************************)
EXTENDS Integers, FiniteSets, FiniteSetsExt

CONSTANTS Objects,   \* the RDerived variables of the program
          Blocks,    \* addresses of allocations
          MaxFd,     \* bound on descriptors
          Null,      \* nullptr
          NoObject   \* a variable that does not exist now

RuleOfFiveAssumption == MaxFd \in Nat /\ Null \notin Blocks /\ NoObject \notin Blocks \cup {Null}

VARIABLES data,      \* data[o]: members data and derived_data of o
          sockfd,    \* sockfd[o]: member of o
          alive,     \* the blocks not deleted
          open       \* the descriptors open in the process

vars == <<data, sockfd, alive, open>>

\* The process starts with its standard input, descriptor 0.
Init ==
    /\ data = [o \in Objects |-> NoObject]
    /\ sockfd = [o \in Objects |-> -1]
    /\ alive = {} /\ open = {0}

Exists(o) == data[o] # NoObject

\* socket() returns the lowest descriptor that is not open.
Socket == Min((0 .. MaxFd) \ open)

\* When socket() fails the constructor deletes derived_data and ~RBase deletes data.
AfterFailureLate(b) == alive \cup {b}
AfterFailure(b) == (alive \cup {b}) \ {b}

\* RDerived() and RDerived(const RDerived&).
Construct(o, fails) ==
    /\ ~Exists(o) /\ (fails \/ open # 0 .. MaxFd)
    /\ \E b \in Blocks \ alive :
          IF fails THEN alive' = AfterFailure(b) /\ UNCHANGED <<data, sockfd, open>>
          ELSE /\ data' = [data EXCEPT ![o] = b]
               /\ alive' = alive \cup {b}
               /\ sockfd' = [sockfd EXCEPT ![o] = Socket]
               /\ open' = open \cup {Socket}

\* The copy of a moved-from object would read from its null pointers.
Copy(o, rhs, fails) == Exists(rhs) /\ data[rhs] # Null /\ Construct(o, fails)

\* RDerived(RDerived&&)
Move(o, rhs) ==
    /\ ~Exists(o) /\ Exists(rhs)
    /\ data' = [data EXCEPT ![o] = data[rhs], ![rhs] = Null]
    /\ sockfd' = [sockfd EXCEPT ![o] = sockfd[rhs], ![rhs] = 0]
    /\ UNCHANGED <<alive, open>>

\* ~RDerived() closes sockfd, whatever it is.
Destroy(o) ==
    /\ Exists(o)
    /\ data' = [data EXCEPT ![o] = NoObject]
    /\ sockfd' = [sockfd EXCEPT ![o] = -1]
    /\ alive' = alive \ {data[o]}
    /\ open' = open \ {sockfd[o]}

\* Programs that copy, and those that move as well.
CopyNext ==
    \/ \E o \in Objects, fails \in BOOLEAN :
          Construct(o, fails) \/ \E rhs \in Objects : Copy(o, rhs, fails)
    \/ \E o \in Objects : Destroy(o)

Next == CopyNext \/ \E o, rhs \in Objects : Move(o, rhs)

Spec == Init /\ [][Next]_vars
-----------------------------------------------------------------------------
(***************************************************************************)
(* The members refer to allocations and descriptors.                       *)
(***************************************************************************)
TypeOK ==
    /\ data \in [Objects -> Blocks \cup {Null, NoObject}]
    /\ sockfd \in [Objects -> -1 .. MaxFd]
    /\ alive \subseteq Blocks /\ open \subseteq 0 .. MaxFd

(***************************************************************************)
(* An allocation exists as long as one object has it, and never two, also  *)
(* when a constructor throws.                                              *)
(***************************************************************************)
OwnedOnce ==
    \A b \in Blocks :
        Cardinality({o \in Objects : data[o] = b}) = IF b \in alive THEN 1 ELSE 0

(***************************************************************************)
(* Each object has an open socket of its own, and none stays open behind.  *)
(* This is so for programs that do not move: a moved-from object closes    *)
(* descriptor 0, which socket() may then give to another object.           *)
(***************************************************************************)
SocketsOwnedOnce ==
    \A fd \in 0 .. MaxFd :
        Cardinality({o \in Objects : sockfd[o] = fd}) = IF fd \in open \ {0} THEN 1 ELSE 0
=============================================================================
