---------------------------- MODULE LocklessStack ----------------------------
(***************************************************************************)
(* lockless_stack<T> of lockless_stack.cc: a linked list whose head is     *)
(* moved with compare_exchange_weak.  push links a new node in front; pop  *)
(* unlinks the head, copies its data and deletes it.                       *)
(*                                                                         *)
(* An action is one access to memory other threads can reach.  The heap is *)
(* explicit: new takes any address that is not in use, so also one that    *)
(* was deleted a moment ago, and reading a deleted node yields anything.   *)
(***************************************************************************)
EXTENDS Naturals, FiniteSets

CONSTANTS Pushers, Poppers,  \* the threads that call push, and pop
          Addrs,             \* the addresses new can return
          Null,              \* nullptr
          Values, NoValue    \* the elements, and none

ASSUME StackAssumption ==
    /\ IsFiniteSet(Addrs) /\ Null \notin Addrs
    /\ NoValue \notin Values
    /\ Pushers \cap Poppers = {}

VARIABLES head,   \* std::atomic<node*> head
          alive,  \* the addresses new has returned and delete has not taken back
          prev,   \* prev[a]: member prev of the node at a
          data,   \* data[a]: member data of the node at a
          pc,     \* where each thread is in push or pop
          cur,    \* cur_head
          new,    \* push: new_node; pop: cur_head->prev as the loop read it
          val     \* push's argument / pop's ans

vars == <<head, alive, prev, data, pc, cur, new, val>>

Threads == Pushers \cup Poppers
Links == Addrs \cup {Null}

Init ==
    /\ head = Null
    /\ alive = {}
    /\ prev = [a \in Addrs |-> Null]
    /\ data = [a \in Addrs |-> NoValue]
    /\ pc = [t \in Threads |-> "idle"]
    /\ cur = [t \in Threads |-> Null]
    /\ new = [t \in Threads |-> Null]
    /\ val = [t \in Threads |-> NoValue]

\* t returns; its locals die.
Leave(t) ==
    /\ pc' = [pc EXCEPT ![t] = "idle"]
    /\ cur' = [cur EXCEPT ![t] = Null]
    /\ new' = [new EXCEPT ![t] = Null]
    /\ val' = [val EXCEPT ![t] = NoValue]
-----------------------------------------------------------------------------
(* push *)

\* new node(data)
PushAlloc(p, v) ==
    /\ pc[p] = "idle"
    /\ \E a \in Addrs \ alive :
          /\ alive' = alive \cup {a}
          /\ data' = [data EXCEPT ![a] = v]
          /\ prev' = [prev EXCEPT ![a] = Null]
          /\ new' = [new EXCEPT ![p] = a]
    /\ pc' = [pc EXCEPT ![p] = "load"]
    /\ UNCHANGED <<head, cur, val>>

\* cur_head gets the head and new_node->prev follows it.
LinkToHead(p) ==
    /\ cur' = [cur EXCEPT ![p] = head]
    /\ prev' = [prev EXCEPT ![new[p]] = head]

LinkOnce(p) == cur' = [cur EXCEPT ![p] = head] /\ UNCHANGED prev
KeepOldHead(p) == UNCHANGED <<cur, prev>>
Relink(p) == LinkToHead(p)

PushLoad(p) ==
    /\ pc[p] = "load"
    /\ LinkToHead(p)
    /\ pc' = [pc EXCEPT ![p] = "cas"]
    /\ UNCHANGED <<head, alive, data, new, val>>

PushCas(p) ==
    /\ pc[p] = "cas"
    /\ head = cur[p]
    /\ head' = new[p]
    /\ Leave(p)
    /\ UNCHANGED <<alive, prev, data>>

\* The exchange failed and stored the head it found in cur_head.  A spurious
\* failure (the exchange is weak) finds the head unchanged and changes nothing.
PushRetry(p) ==
    /\ pc[p] = "cas"
    /\ head # cur[p]
    /\ Relink(p)
    /\ UNCHANGED <<head, alive, data, pc, new, val>>
-----------------------------------------------------------------------------
(* pop *)

\* cur_head is null: return std::nullopt; otherwise go round the loop.
ExamineUnchecked(c) ==
    /\ pc' = [pc EXCEPT ![c] = "deref"]
    /\ cur' = [cur EXCEPT ![c] = head]
    /\ new' = [new EXCEPT ![c] = Null]
    /\ UNCHANGED val
Examine(c) ==
    IF head = Null
    THEN Leave(c)
    ELSE /\ pc' = [pc EXCEPT ![c] = "deref"]
         /\ cur' = [cur EXCEPT ![c] = head]
         /\ new' = [new EXCEPT ![c] = Null]
         /\ UNCHANGED val

PopLoad(c) ==
    /\ pc[c] = "idle"
    /\ Examine(c)
    /\ UNCHANGED <<head, alive, prev, data>>

\* Evaluating the argument cur_head->prev of the exchange.
PopDeref(c) ==
    /\ pc[c] = "deref"
    /\ \E n \in IF cur[c] \in alive THEN {prev[cur[c]]} ELSE Links :
          new' = [new EXCEPT ![c] = n]
    /\ pc' = [pc EXCEPT ![c] = "cas"]
    /\ UNCHANGED <<head, alive, prev, data, cur, val>>

CasUnchecked(c) == TRUE
CasSucceeds(c) == head = cur[c]

UnlinkNothing(c) == UNCHANGED head
Unlink(c) == head' = new[c]

PopCas(c) ==
    /\ pc[c] = "cas"
    /\ CasSucceeds(c)
    /\ Unlink(c)
    /\ pc' = [pc EXCEPT ![c] = "read"]
    /\ UNCHANGED <<alive, prev, data, cur, new, val>>

PopRetry(c) ==
    /\ pc[c] = "cas"
    /\ Examine(c)
    /\ UNCHANGED <<head, alive, prev, data>>

\* auto ans = cur_head->data;
PopRead(c) ==
    /\ pc[c] = "read"
    /\ \E v \in IF cur[c] \in alive THEN {data[cur[c]]} ELSE Values :
          val' = [val EXCEPT ![c] = v]
    /\ pc' = [pc EXCEPT ![c] = "delete"]
    /\ UNCHANGED <<head, alive, prev, data, cur, new>>

PopDelete(c) ==
    /\ pc[c] = "delete"
    /\ alive' = alive \ {cur[c]}
    /\ pc' = [pc EXCEPT ![c] = "return"]
    /\ UNCHANGED <<head, prev, data, cur, new, val>>

PopReturn(c) ==
    /\ pc[c] = "return"
    /\ Leave(c)
    /\ UNCHANGED <<head, alive, prev, data>>
-----------------------------------------------------------------------------
PusherStep(p) ==
    \/ \E v \in Values : PushAlloc(p, v)
    \/ PushLoad(p) \/ PushCas(p) \/ PushRetry(p)

PopperStep(c) ==
    \/ PopLoad(c) \/ PopDeref(c) \/ PopCas(c) \/ PopRetry(c)
    \/ PopRead(c) \/ PopDelete(c) \/ PopReturn(c)

Next ==
    \/ \E p \in Pushers : PusherStep(p)
    \/ \E c \in Poppers : PopperStep(c)

Spec == Init /\ [][Next]_vars

(***************************************************************************)
(* Every thread keeps running, and compare_exchange_weak does not fail     *)
(* without a reason for ever.                                              *)
(***************************************************************************)
SpuriousFailure == \E c \in Poppers : head = cur[c] /\ PopRetry(c)

Fairness ==
    /\ \A p \in Pushers : WF_vars(PusherStep(p))
    /\ \A c \in Poppers : WF_vars(PopperStep(c))
    /\ <>[][~SpuriousFailure]_vars

FairSpec == Spec /\ Fairness
-----------------------------------------------------------------------------
(***************************************************************************)
(* Type correctness of the heap, the head and the locals: a push has a     *)
(* node in hand exactly until it is linked, a pop a node from the load of  *)
(* a non-null head on and an element from the read on.                     *)
(***************************************************************************)
TypeOK ==
    /\ head \in Links
    /\ alive \subseteq Addrs
    /\ prev \in [Addrs -> Links]
    /\ data \in [Addrs -> Values \cup {NoValue}]
    /\ pc \in [Threads -> {"idle", "load", "deref", "cas", "read", "delete", "return"}]
    /\ cur \in [Threads -> Links]
    /\ new \in [Threads -> Links]
    /\ val \in [Threads -> Values \cup {NoValue}]
    /\ \A p \in Pushers : new[p] # Null <=> pc[p] \in {"load", "cas"}
    /\ \A c \in Poppers : cur[c] # Null <=> pc[c] # "idle"
    /\ \A c \in Poppers : val[c] # NoValue <=> pc[c] \in {"delete", "return"}

(***************************************************************************)
(* pop never touches a node that has been deleted: neither in              *)
(* cur_head->prev, nor in cur_head->data, nor in a second delete.          *)
(***************************************************************************)
NoUseAfterFree ==
    \A c \in Poppers : pc[c] \in {"deref", "read", "delete"} => cur[c] \in alive

\* The links from the head on: at most Cardinality(Addrs) nodes, then null.
Link[n \in 0 .. Cardinality(Addrs)] ==
    IF n = 0 THEN head
    ELSE IF Link[n - 1] = Null THEN Null ELSE prev[Link[n - 1]]

Depth == Cardinality({n \in DOMAIN Link : Link[n] # Null})

Linked == {Link[n] : n \in DOMAIN Link} \ {Null}

Private == {new[p] : p \in {p \in Pushers : pc[p] \in {"load", "cas"}}}

Unlinked == {cur[c] : c \in {c \in Poppers : pc[c] \in {"read", "delete"}}}

(***************************************************************************)
(* Every node the stack has allocated is in exactly one place: linked      *)
(* under head, in the hands of a push that has not linked it yet, or in    *)
(* those of the pop that unlinked it. None is leaked and none is shared.   *)
(***************************************************************************)
NodesAccounted ==
    /\ alive = Linked \cup Private \cup Unlinked
    /\ Cardinality(alive) = Cardinality(Linked) + Cardinality(Private) + Cardinality(Unlinked)

(***************************************************************************)
(* The stack is lock-free: whatever the schedule, some push or pop of an   *)
(* element completes again and again, although a particular one may be     *)
(* outrun for ever.                                                        *)
(***************************************************************************)
LockFree == []<><<\E t \in Threads : pc[t] # "idle" /\ pc'[t] = "idle">>_vars

(***************************************************************************)
(* The list implements the LIFO stack of LifoStack: PushCas pushes, PopCas *)
(* takes, PopReturn returns.                                               *)
(***************************************************************************)
Contents == [n \in 1 .. Depth |-> data[Link[n - 1]]]

InHand == [c \in Poppers |->
             IF pc[c] = "read" THEN data[cur[c]]
             ELSE IF pc[c] \in {"delete", "return"} THEN val[c] ELSE NoValue]

Lifo == INSTANCE LifoStack WITH stk <- Contents, taken <- InHand

ImplementsStack == Lifo!StackSpec
=============================================================================
