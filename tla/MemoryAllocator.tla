--------------------------- MODULE MemoryAllocator ---------------------------
(***************************************************************************)
(* MemoryAllocator<NodeSize> of memory_allocator.cc: a best-fit allocator  *)
(* over nodes of NodeSize bytes.  Free regions [left, right) are kept in a *)
(* set ordered by length and address and in two maps, from left ends and   *)
(* from right ends; addr2len remembers the length of each block handed     *)
(* out.  release merges a block with the free regions that touch it.       *)
(*                                                                         *)
(* A failed assert ends the program: failed says that one has.             *)
(***************************************************************************)
EXTENDS Integers, FiniteSets, Functions

CONSTANTS NodeSize,  \* template argument
          Bases,     \* the addresses new uint8_t[NodeSize] can return
          Lens,      \* the lengths callers ask for
          Handles,   \* how many blocks callers hold at once: one per handle
          NoBlock    \* a handle that holds none

AllocatorAssumption ==
    /\ NodeSize \in Nat \ {0}
    /\ Bases \subseteq Nat
    /\ Lens \subseteq 0 .. NodeSize
    /\ NoBlock \notin [addr : Nat, len : 0 .. NodeSize]

VARIABLES nodes,       \* the addresses in memory_node_list
          free,        \* free_memory_region: regions <<left, right>>
          left2right, right2left,
          addr2len,
          block,       \* block[h]: the pointer a caller holds and the length it asked for
          failed       \* an assert has failed

vars == <<nodes, free, left2right, right2left, addr2len, block, failed>>

Without(f, x) == Restrict(f, DOMAIN f \ {x})
With(f, x, y) == [a \in DOMAIN f \cup {x} |-> IF a = x THEN y ELSE f[a]]

Length(region) == region[2] - region[1]

\* The metadata of the free regions, as one value that deletes and inserts change.
Meta == [free |-> free, l2r |-> left2right, r2l |-> right2left, ok |-> TRUE]

delete_memory_region(m, left, right) ==
    [free |-> m.free \ {<<left, right>>},
     l2r |-> Without(m.l2r, left),
     r2l |-> Without(m.r2l, right),
     ok |-> /\ m.ok /\ <<left, right>> \in m.free
            /\ right \in DOMAIN m.r2l /\ left \in DOMAIN m.l2r]

InsertLeftOnly(m, left, right) ==
    [free |-> m.free \cup {<<left, right>>},
     l2r |-> With(m.l2r, left, right),
     r2l |-> m.r2l,
     ok |-> m.ok /\ <<left, right>> \notin m.free /\ left \notin DOMAIN m.l2r]
insert_memory_region(m, left, right) ==
    [free |-> m.free \cup {<<left, right>>},
     l2r |-> With(m.l2r, left, right),
     r2l |-> With(m.r2l, right, left),
     ok |-> /\ m.ok /\ <<left, right>> \notin m.free
            /\ right \notin DOMAIN m.r2l /\ left \notin DOMAIN m.l2r]

\* Every assert on the way held: the metadata becomes m. Otherwise the program is over.
Commit(m) ==
    /\ failed' = ~m.ok
    /\ free' = m.free /\ left2right' = m.l2r /\ right2left' = m.r2l

\* new never returns memory that overlaps a live node.
Fresh == {b \in Bases : \A n \in nodes : b + NodeSize <= n \/ n + NodeSize <= b}

Init ==
    \E b \in Bases :
        /\ nodes = {b}
        /\ free = {<<b, b + NodeSize>>}
        /\ left2right = [a \in {b} |-> b + NodeSize]
        /\ right2left = [a \in {b + NodeSize} |-> b]
        /\ addr2len = [a \in {} |-> 0]
        /\ block = [h \in Handles |-> NoBlock]
        /\ failed = FALSE

FitsAlmost(region, n) == Length(region) >= n - 1
Fits(region, n) == Length(region) >= n

\* lower_bound({n, 0, 0}): the shortest region that fits, the lowest of equal ones.
BestFit(regions, n) ==
    CHOOSE r \in regions :
        /\ Fits(r, n)
        /\ \A s \in regions : Fits(s, n) =>
              Length(r) < Length(s) \/ (Length(r) = Length(s) /\ r[1] <= s[1])

\* What is left of the region a block of length n is cut from goes back.
DropRemainder(m, left, right, n) ==
    IF right - left <= n + 1 THEN m ELSE insert_memory_region(m, left + n, right)
KeepRemainder(m, left, right, n) ==
    IF right - left = n THEN m ELSE insert_memory_region(m, left + n, right)

Cut(h, n, m) ==
    LET r == BestFit(m.free, n)
    IN  /\ Commit(KeepRemainder(delete_memory_region(m, r[1], r[2]), r[1], r[2], n))
        /\ addr2len' = With(addr2len, r[1], n)
        /\ block' = [block EXCEPT ![h] = [addr |-> r[1], len |-> n]]

\* A request longer than NodeSize throws and changes nothing: Lens leaves it out.
Allocate(h, n) ==
    /\ ~failed /\ block[h] = NoBlock
    /\ \E r \in free : Fits(r, n)
    /\ Cut(h, n, Meta)
    /\ UNCHANGED nodes

\* Nothing fits: create_memory_node first.
AllocateInNewNode(h, n) ==
    /\ ~failed /\ block[h] = NoBlock
    /\ ~ \E r \in free : Fits(r, n)
    /\ \E b \in Fresh :
          /\ nodes' = nodes \cup {b}
          /\ Cut(h, n, insert_memory_region(Meta, b, b + NodeSize))
-----------------------------------------------------------------------------
\* Merge with the free region that ends where the block starts ...
MergePrev(m, left, right) ==
    IF left \in DOMAIN m.r2l
    THEN [m |-> delete_memory_region(m, m.r2l[left], left), left |-> m.r2l[left], right |-> right]
    ELSE [m |-> m, left |-> left, right |-> right]

\* ... and with the one that starts where it ends.
MergeNext(g) ==
    IF g.right \in DOMAIN g.m.l2r
    THEN [m |-> delete_memory_region(g.m, g.right, g.m.l2r[g.right]),
          left |-> g.left, right |-> g.m.l2r[g.right]]
    ELSE g

\* release starts with assert(addr2len.count(mem)).
Release(h) ==
    /\ ~failed /\ block[h] # NoBlock
    /\ LET mem == block[h].addr
           known == mem \in DOMAIN addr2len
           len == IF known THEN addr2len[mem] ELSE 0
           g == MergeNext(MergePrev([Meta EXCEPT !.ok = known], mem, mem + len))
       IN  /\ Commit(insert_memory_region(g.m, g.left, g.right))
           /\ addr2len' = Without(addr2len, mem)
    /\ block' = [block EXCEPT ![h] = NoBlock]
    /\ UNCHANGED nodes

Next ==
    \E h \in Handles :
        \/ \E n \in Lens : Allocate(h, n) \/ AllocateInNewNode(h, n)
        \/ Release(h)

Spec == Init /\ [][Next]_vars
-----------------------------------------------------------------------------
Held == {h \in Handles : block[h] # NoBlock}

Bytes(left, right) == left .. right - 1

BlockBytes(h) == Bytes(block[h].addr, block[h].addr + block[h].len)

NodeBytes == UNION {Bytes(b, b + NodeSize) : b \in nodes}

(***************************************************************************)
(* Type correctness of the metadata and of what callers hold; no free      *)
(* region is empty.                                                        *)
(***************************************************************************)
TypeOK ==
    /\ nodes \subseteq Bases /\ nodes # {}
    /\ free \subseteq Nat \X Nat /\ \A r \in free : r[1] < r[2]
    /\ left2right \in [DOMAIN left2right -> Nat] /\ right2left \in [DOMAIN right2left -> Nat]
    /\ addr2len \in [DOMAIN addr2len -> 0 .. NodeSize]
    /\ block \in [Handles -> {NoBlock} \cup [addr : Nat, len : 0 .. NodeSize]]
    /\ failed \in BOOLEAN

(***************************************************************************)
(* The assertions of delete_memory_region, insert_memory_region and        *)
(* release hold: metadata is deleted only where there is some, inserted    *)
(* only where there is none, and every pointer handed out can be released. *)
(***************************************************************************)
AssertsHold == ~failed

(***************************************************************************)
(* Every byte of every node is in exactly one free region or one block     *)
(* that a caller holds: blocks never overlap, and no byte is lost.         *)
(***************************************************************************)
MemoryTiled ==
    /\ NodeBytes = UNION ({Bytes(r[1], r[2]) : r \in free} \cup {BlockBytes(h) : h \in Held})
    /\ \A r, s \in free : r # s => Bytes(r[1], r[2]) \cap Bytes(s[1], s[2]) = {}
    /\ \A g, h \in Held : g # h => BlockBytes(g) \cap BlockBytes(h) = {}
    /\ \A r \in free, h \in Held : Bytes(r[1], r[2]) \cap BlockBytes(h) = {}

(***************************************************************************)
(* The set and the two maps describe the same free regions.                *)
(***************************************************************************)
IndexesAgree ==
    /\ free = {<<left, left2right[left]>> : left \in DOMAIN left2right}
    /\ free = {<<right2left[right], right>> : right \in DOMAIN right2left}

(***************************************************************************)
(* release leaves no two free regions side by side; only the bounds of a   *)
(* node newly created may touch a region that was free before.             *)
(***************************************************************************)
Coalesced == \A r, s \in free : r[2] = s[1] => r[2] \in Bases

(***************************************************************************)
(* A block lies in one node, unless operator new has returned nodes that   *)
(* touch (which a header before each block prevents).                      *)
(***************************************************************************)
BlocksInOneNode ==
    (\A b, n \in nodes : b + NodeSize # n) =>
        \A h \in Held : \E b \in nodes : BlockBytes(h) \subseteq Bytes(b, b + NodeSize)
=============================================================================
