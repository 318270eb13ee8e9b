------------------------------- MODULE ListPool -------------------------------
(***************************************************************************)
(* ObjectPool<T, NodeCapacity> of opool.cc: objects are carved from nodes  *)
(* of NodeCapacity chunks, released ones are queued on a list and reused   *)
(* first.  new T[NodeCapacity] already constructs an object in each chunk  *)
(* of a node; New constructs its own in the chunk that allocate returns.   *)
(* One call is one action; the constructor T runs may throw.               *)
(***************************************************************************)
EXTENDS Naturals, Sequences, FiniteSets

CONSTANTS NodeCapacity,  \* template argument
          MaxNodes       \* bound on the nodes a run creates

ListPoolAssumption == NodeCapacity \in Nat \ {0} /\ MaxNodes \in Nat \ {0}

VARIABLES nodes,         \* mem_node_list.size()
          cur_free_idx,  \* of the latest node; all earlier nodes are full
          freelist,      \* front first
          holders,       \* holders[c]: how many callers New has given chunk c to
          lost,          \* the chunks New took and never returned
          objects,       \* the chunks in which an object lives
          peak           \* most chunks ever held or lost at once: history variable

vars == <<nodes, cur_free_idx, freelist, holders, lost, objects, peak>>

Chunks == (1 .. MaxNodes) \X (0 .. NodeCapacity - 1)
NodeChunks(n) == {n} \X (0 .. NodeCapacity - 1)

Init ==
    /\ nodes = 1 /\ cur_free_idx = 0
    /\ freelist = <<>>
    /\ holders = [c \in Chunks |-> 0] /\ lost = {}
    /\ objects = NodeChunks(1)
    /\ peak = 0

full == cur_free_idx >= NodeCapacity

held == {c \in Chunks : holders[c] > 0}

Larger(m, n) == IF m >= n THEN m ELSE n

\* allocate() has taken chunk c out of the pool's books; T's constructor runs in it.
Construct(c, throws, built) ==
    /\ holders' = IF throws THEN holders ELSE [holders EXCEPT ![c] = @ + 1]
    /\ lost' = IF throws THEN lost \cup {c} ELSE lost
    /\ objects' = IF throws THEN built \ {c} ELSE built \cup {c}
    /\ peak' = Larger(peak, Cardinality(held) + Cardinality(lost) + 1)

NewFromFreelist(throws) ==
    /\ freelist # <<>>
    /\ freelist' = Tail(freelist)
    /\ Construct(Head(freelist), throws, objects)
    /\ UNCHANGED <<nodes, cur_free_idx>>

NewFromNode(throws) ==
    /\ freelist = <<>>
    /\ ~full
    /\ cur_free_idx' = cur_free_idx + 1
    /\ Construct(<<nodes, cur_free_idx>>, throws, objects)
    /\ UNCHANGED <<nodes, freelist>>

NewFromNewNode(throws) ==
    /\ freelist = <<>>
    /\ full
    /\ nodes < MaxNodes
    /\ nodes' = nodes + 1
    /\ cur_free_idx' = 1
    /\ Construct(<<nodes + 1, 0>>, throws, objects \cup NodeChunks(nodes + 1))
    /\ UNCHANGED freelist

QueuedTwice(c) == freelist \o <<c, c>>
Queued(c) == Append(freelist, c)

Release(c) ==
    /\ c \in held
    /\ holders' = [holders EXCEPT ![c] = @ - 1]
    /\ objects' = objects \ {c}
    /\ freelist' = Queued(c)
    /\ UNCHANGED <<nodes, cur_free_idx, lost, peak>>

Next ==
    \/ \E throws \in BOOLEAN :
          NewFromFreelist(throws) \/ NewFromNode(throws) \/ NewFromNewNode(throws)
    \/ \E c \in Chunks : Release(c)

Spec == Init /\ [][Next]_vars
-----------------------------------------------------------------------------
(***************************************************************************)
(* Type correctness; the latest node is never used beyond its end.         *)
(***************************************************************************)
TypeOK ==
    /\ nodes \in 1 .. MaxNodes /\ cur_free_idx \in 0 .. NodeCapacity
    /\ freelist \in Seq(Chunks)
    /\ holders \in [Chunks -> Nat] /\ lost \subseteq Chunks /\ objects \subseteq Chunks
    /\ peak \in Nat

Carved == {c \in Chunks : c[1] < nodes \/ (c[1] = nodes /\ c[2] < cur_free_idx)}

Free == {freelist[i] : i \in DOMAIN freelist}

(***************************************************************************)
(* Every chunk carved from a node is in exactly one place: on the free     *)
(* list once, with a caller, whose object lives from New to Release, or    *)
(* lost to a constructor that threw.                                       *)
(***************************************************************************)
ChunksAccounted ==
    /\ Carved = Free \cup held \cup lost
    /\ Cardinality(Carved) = Len(freelist) + Cardinality(held) + Cardinality(lost)
    /\ held \subseteq objects

(***************************************************************************)
(* The pool grows no further than the most chunks ever needed at once:     *)
(* released chunks are used again before new ones are carved.              *)
(***************************************************************************)
NoNeedlessGrowth == Cardinality(Carved) = peak

(***************************************************************************)
(* New never hands out a chunk that a caller holds.                        *)
(***************************************************************************)
Promise == INSTANCE Pool

ImplementsPool == Promise!PoolSpec
=============================================================================
