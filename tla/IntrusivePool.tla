---------------------------- MODULE IntrusivePool ----------------------------
(***************************************************************************)
(* ObjectPool<T, NodeCapacity> of object-pool.cc: as in opool.cc, but the  *)
(* memory of a node is raw and the free list is a stack threaded through   *)
(* the chunks: the word before each object links a free chunk to the next. *)
(* New changes free_list only after T's constructor has returned.          *)
(***************************************************************************)
EXTENDS Naturals, FiniteSets

CONSTANTS NodeCapacity,  \* template argument
          MaxNodes,      \* bound on the nodes a run creates (MaxNodeNr is never used)
          Null           \* nullptr

Chunks == (1 .. MaxNodes) \X (0 .. NodeCapacity - 1)

IntrusivePoolAssumption ==
    NodeCapacity \in Nat \ {0} /\ MaxNodes \in Nat \ {0} /\ Null \notin Chunks

VARIABLES nodes,      \* memory_node_list.size()
          current,    \* chunks carved from the latest node; all earlier nodes are full
          free_list,  \* the first free chunk
          link,       \* link[c]: the word before the object of chunk c
          holders,    \* holders[c]: how many callers New has given chunk c to
          lost,       \* the chunks New took and never returned
          peak        \* most chunks ever held or lost at once: history variable

vars == <<nodes, current, free_list, link, holders, lost, peak>>

Init ==
    /\ nodes = 1 /\ current = 0
    /\ free_list = Null
    /\ link = [c \in Chunks |-> Null]
    /\ holders = [c \in Chunks |-> 0] /\ lost = {}
    /\ peak = 0

has_free_space == current < NodeCapacity

held == {c \in Chunks : holders[c] > 0}

Larger(m, n) == IF m >= n THEN m ELSE n

Counted == peak' = Larger(peak, Cardinality(held) + Cardinality(lost) + 1)

NewFromFreeList ==
    /\ free_list # Null
    /\ free_list' = link[free_list]
    /\ holders' = [holders EXCEPT ![free_list] = @ + 1]
    /\ Counted
    /\ UNCHANGED <<nodes, current, link, lost>>

\* The constructor threw before free_list was changed: the chunk stays free.
NewFromFreeListThrows ==
    /\ free_list # Null
    /\ UNCHANGED vars

\* A chunk is carved; if the constructor throws nobody has it any more.
Carve(c, throws) ==
    /\ holders' = IF throws THEN holders ELSE [holders EXCEPT ![c] = @ + 1]
    /\ lost' = IF throws THEN lost \cup {c} ELSE lost
    /\ Counted
    /\ UNCHANGED <<free_list, link>>

NewFromNode(throws) ==
    /\ free_list = Null
    /\ has_free_space
    /\ current' = current + 1
    /\ Carve(<<nodes, current>>, throws)
    /\ UNCHANGED nodes

NewFromNewNode(throws) ==
    /\ free_list = Null
    /\ ~has_free_space
    /\ nodes < MaxNodes
    /\ nodes' = nodes + 1
    /\ current' = 1
    /\ Carve(<<nodes + 1, 0>>, throws)

LinkedToItself(c) == link' = [link EXCEPT ![c] = c]
LinkedToNothing(c) == UNCHANGED link
LinkedToFirst(c) == link' = [link EXCEPT ![c] = free_list]

Release(c) ==
    /\ c \in held
    /\ holders' = [holders EXCEPT ![c] = @ - 1]
    /\ LinkedToFirst(c)
    /\ free_list' = c
    /\ UNCHANGED <<nodes, current, lost, peak>>

Next ==
    \/ NewFromFreeList \/ NewFromFreeListThrows
    \/ \E throws \in BOOLEAN : NewFromNode(throws) \/ NewFromNewNode(throws)
    \/ \E c \in Chunks : Release(c)

Spec == Init /\ [][Next]_vars
-----------------------------------------------------------------------------
(***************************************************************************)
(* Type correctness; the latest node is never used beyond its end.         *)
(***************************************************************************)
TypeOK ==
    /\ nodes \in 1 .. MaxNodes /\ current \in 0 .. NodeCapacity
    /\ free_list \in Chunks \cup {Null}
    /\ link \in [Chunks -> Chunks \cup {Null}]
    /\ holders \in [Chunks -> Nat] /\ lost \subseteq Chunks
    /\ peak \in Nat

Carved == {c \in Chunks : c[1] < nodes \/ (c[1] = nodes /\ c[2] < current)}

\* The free list, followed for as many links as there are chunks.
Nth[n \in 0 .. MaxNodes * NodeCapacity] ==
    IF n = 0 THEN free_list ELSE IF Nth[n - 1] = Null THEN Null ELSE link[Nth[n - 1]]

FreeCount == Cardinality({n \in DOMAIN Nth : Nth[n] # Null})

Free == {Nth[n] : n \in DOMAIN Nth} \ {Null}

(***************************************************************************)
(* Every chunk carved from a node is in exactly one place: on the free     *)
(* list once (which so has no cycle), with a caller, or lost to a          *)
(* constructor that threw.                                                 *)
(***************************************************************************)
ChunksAccounted ==
    /\ Carved = Free \cup held \cup lost
    /\ Cardinality(Carved) = FreeCount + Cardinality(held) + Cardinality(lost)

(***************************************************************************)
(* The pool grows no further than the most chunks ever needed at once.     *)
(***************************************************************************)
NoNeedlessGrowth == Cardinality(Carved) = peak

(***************************************************************************)
(* New never hands out a chunk that a caller holds.                        *)
(***************************************************************************)
Promise == INSTANCE Pool

ImplementsPool == Promise!PoolSpec
=============================================================================
