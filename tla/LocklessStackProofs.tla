------------------------- MODULE LocklessStackProofs -------------------------
(***************************************************************************)
(* Proofs about LocklessStack: type correctness for any number of threads; *)
(* and, when at most one thread pops, that the list under head is intact,  *)
(* that no deleted node is touched, and that the list is a LIFO stack.     *)
(***************************************************************************)
EXTENDS LocklessStack, FiniteSetTheorems, SequenceTheorems, WellFoundedInduction, TLAPS

\* A node that is in use was constructed with an element.
DataStored == \A a \in alive : data[a] \in Values

\* A thread is where its own operation can be.
OwnCode ==
    /\ \A p \in Pushers : pc[p] \in {"idle", "load", "cas"}
    /\ \A c \in Poppers : pc[c] \in {"idle", "deref", "cas", "read", "delete", "return"}

Typed == TypeOK /\ DataStored /\ OwnCode

\* The stack starts empty and the threads idle.
LEMMA InitTyped == Init => Typed
  BY StackAssumption DEF Init, Typed, TypeOK, DataStored, OwnCode, Threads, Links

\* Every step of every thread keeps the types.
LEMMA NextTyped == Typed /\ [Next]_vars => Typed'
<1> SUFFICES ASSUME Typed, [Next]_vars PROVE Typed'
  OBVIOUS
<1> USE StackAssumption DEF Typed, TypeOK, DataStored, OwnCode, Threads, Links
<1>1. CASE UNCHANGED vars
  BY <1>1 DEF vars
<1>2. ASSUME NEW p \in Pushers, NEW v \in Values, PushAlloc(p, v) PROVE Typed'
  BY <1>2 DEF PushAlloc
<1>3. ASSUME NEW p \in Pushers, PushLoad(p) PROVE Typed'
  BY <1>3 DEF PushLoad, LinkToHead
<1>4. ASSUME NEW p \in Pushers, PushCas(p) PROVE Typed'
  BY <1>4 DEF PushCas, Leave
<1>5. ASSUME NEW p \in Pushers, PushRetry(p) PROVE Typed'
  BY <1>5 DEF PushRetry, Relink, LinkToHead
<1>6. ASSUME NEW c \in Poppers, PopLoad(c) PROVE Typed'
  BY <1>6 DEF PopLoad, Examine, Leave
<1>7. ASSUME NEW c \in Poppers, PopDeref(c) PROVE Typed'
  BY <1>7 DEF PopDeref
<1>8. ASSUME NEW c \in Poppers, PopCas(c) PROVE Typed'
  BY <1>8 DEF PopCas, CasSucceeds, Unlink
<1>9. ASSUME NEW c \in Poppers, PopRetry(c) PROVE Typed'
  BY <1>9 DEF PopRetry, Examine, Leave
<1>10. ASSUME NEW c \in Poppers, PopRead(c) PROVE Typed'
  BY <1>10 DEF PopRead
<1>11. ASSUME NEW c \in Poppers, PopDelete(c) PROVE Typed'
  BY <1>11 DEF PopDelete
<1>12. ASSUME NEW c \in Poppers, PopReturn(c) PROVE Typed'
  BY <1>12 DEF PopReturn, Leave
<1> QED
  BY <1>1, <1>2, <1>3, <1>4, <1>5, <1>6, <1>7, <1>8, <1>9, <1>10, <1>11, <1>12
  DEF Next, PusherStep, PopperStep

(***************************************************************************)
(* Type correctness of the heap, the head and the locals, for any number   *)
(* of pushing and popping threads.                                         *)
(***************************************************************************)
THEOREM StackTypeCorrect == Spec => []TypeOK
<1>1. Typed => TypeOK
  BY DEF Typed
<1> QED
  BY <1>1, InitTyped, NextTyped, PTL DEF Spec
-----------------------------------------------------------------------------
(***************************************************************************)
(* With one popping thread. s lists the nodes that hang under head, top    *)
(* first; a push holds a node of its own, which already points to the head *)
(* it has seen; a pop has its node on the list until its exchange succeeds *)
(* and nobody else has it afterwards.                                      *)
(***************************************************************************)
OnePopper == \A c, d \in Poppers : c = d

\* s is the list of nodes, without repetition, that starts at top.
IsList(s, top, next, nodes) ==
    /\ s \in Seq(Addrs)
    /\ nodes = {s[i] : i \in 1 .. Len(s)}
    /\ \A i, j \in 1 .. Len(s) : s[i] = s[j] => i = j
    /\ top = IF Len(s) = 0 THEN Null ELSE s[1]
    /\ \A i \in 1 .. Len(s) : next[s[i]] = IF i < Len(s) THEN s[i + 1] ELSE Null

Pushing(p) == pc[p] \in {"load", "cas"}

OnList == alive \ (Private \cup Unlinked)

PushersInv ==
    /\ \A p \in Pushers : Pushing(p) => new[p] \in alive
    /\ \A p, q \in Pushers : p # q /\ Pushing(p) /\ Pushing(q) => new[p] # new[q]
    /\ \A p \in Pushers : pc[p] = "cas" => prev[new[p]] = cur[p]

PopperInv ==
    \A c \in Poppers :
        /\ pc[c] \in {"deref", "cas"} => cur[c] \in OnList
        /\ pc[c] = "cas" => new[c] = prev[cur[c]]
        /\ pc[c] \in {"read", "delete"} => cur[c] \in alive \ Private

ListInv == \E s \in Seq(Addrs) : IsList(s, head, prev, OnList)

StackInv == Typed /\ PushersInv /\ PopperInv /\ ListInv
-----------------------------------------------------------------------------
(* Lists. *)

\* A new node that points to the top becomes the top.
LEMMA ListPush ==
    ASSUME NEW s, NEW top, NEW next, NEW nodes, IsList(s, top, next, nodes),
           NEW a \in Addrs \ nodes, next[a] = top
    PROVE  IsList(<<a>> \o s, a, next, nodes \cup {a})
<1> DEFINE t == <<a>> \o s
<1>1. /\ t \in Seq(Addrs) /\ Len(t) = Len(s) + 1 /\ t[1] = a
      /\ \A i \in 1 .. Len(s) : t[i + 1] = s[i]
  BY DEF IsList
<1>2. Len(s) \in Nat
  BY DEF IsList
<1>3. \A i \in 1 .. Len(t) : i = 1 \/ i - 1 \in 1 .. Len(s)
  BY <1>1, <1>2
<1>4. \A i \in 1 .. Len(t) : i # 1 => t[i] = s[i - 1] /\ t[i] \in nodes
  BY <1>1, <1>2, <1>3 DEF IsList
<1>5. nodes \cup {a} = {t[i] : i \in 1 .. Len(t)}
  <2>1. ASSUME NEW x \in nodes PROVE x \in {t[i] : i \in 1 .. Len(t)}
    <3>1. PICK i \in 1 .. Len(s) : x = s[i]
      BY DEF IsList
    <3>2. i + 1 \in 1 .. Len(t) /\ x = t[i + 1]
      BY <3>1, <1>1, <1>2
    <3> QED
      BY <3>2
  <2> QED
    BY <2>1, <1>1, <1>2, <1>4
<1>6. \A i, j \in 1 .. Len(t) : t[i] = t[j] => i = j
  <2> SUFFICES ASSUME NEW i \in 1 .. Len(t), NEW j \in 1 .. Len(t), t[i] = t[j] PROVE i = j
    OBVIOUS
  <2>1. CASE i = 1 \/ j = 1
    BY <2>1, <1>1, <1>4
  <2>2. CASE i # 1 /\ j # 1
    <3>1. /\ i - 1 \in 1 .. Len(s) /\ t[i] = s[i - 1]
          /\ j - 1 \in 1 .. Len(s) /\ t[j] = s[j - 1]
      BY <2>2, <1>3, <1>4
    <3>2. i - 1 = j - 1
      BY <3>1 DEF IsList
    <3> QED
      BY <3>2, <1>2, <1>1
  <2> QED
    BY <2>1, <2>2
<1>7. \A i \in 1 .. Len(t) : next[t[i]] = IF i < Len(t) THEN t[i + 1] ELSE Null
  <2> SUFFICES ASSUME NEW i \in 1 .. Len(t)
               PROVE  next[t[i]] = IF i < Len(t) THEN t[i + 1] ELSE Null
    OBVIOUS
  <2>1. CASE i = 1
    BY <2>1, <1>1, <1>2 DEF IsList
  <2>2. CASE i # 1
    <3>1. PICK k \in 1 .. Len(s) : i = k + 1
      BY <2>2, <1>3, <1>1, <1>2
    <3>2. t[i] = s[k] /\ (k < Len(s) => t[i + 1] = s[k + 1])
      BY <3>1, <1>1, <1>2
    <3> QED
      BY <3>1, <3>2, <1>1, <1>2 DEF IsList
  <2> QED
    BY <2>1, <2>2
<1> HIDE DEF t
<1>8. IsList(t, a, next, nodes \cup {a})
  <2>1. a = IF Len(t) = 0 THEN Null ELSE t[1]
    BY <1>1, <1>2
  <2> QED
    BY <2>1, <1>1, <1>5, <1>6, <1>7 DEF IsList
<1> QED
  BY <1>8 DEF t

\* Taking the top leaves the rest.
LEMMA ListPop ==
    ASSUME NEW s, NEW top, NEW next, NEW nodes, IsList(s, top, next, nodes), top # Null
    PROVE  IsList(Tail(s), next[top], next, nodes \ {top})
<1> DEFINE t == Tail(s)
<1>1. Len(s) \in Nat /\ Len(s) # 0 /\ s \in Seq(Addrs) /\ top = s[1]
  BY DEF IsList
<1>2. /\ t \in Seq(Addrs) /\ Len(t) = Len(s) - 1
      /\ \A i \in 1 .. Len(t) : t[i] = s[i + 1]
  BY <1>1
<1> HIDE DEF t
<1>3. nodes \ {top} = {t[i] : i \in 1 .. Len(t)}
  <2>1. ASSUME NEW x \in nodes, x # top PROVE x \in {t[i] : i \in 1 .. Len(t)}
    <3>1. PICK i \in 1 .. Len(s) : x = s[i]
      BY DEF IsList
    <3>2. i - 1 \in 1 .. Len(t) /\ x = t[i - 1]
      BY <3>1, <2>1, <1>1, <1>2
    <3> QED
      BY <3>2
  <2>2. ASSUME NEW i \in 1 .. Len(t) PROVE t[i] \in nodes \ {top}
    <3>1. i + 1 \in 1 .. Len(s) /\ 1 \in 1 .. Len(s) /\ i + 1 # 1
      BY <1>1, <1>2
    <3> QED
      BY <3>1, <1>1, <1>2 DEF IsList
  <2> QED
    BY <2>1, <2>2
<1>4. \A i, j \in 1 .. Len(t) : t[i] = t[j] => i = j
  <2> SUFFICES ASSUME NEW i \in 1 .. Len(t), NEW j \in 1 .. Len(t), t[i] = t[j] PROVE i = j
    OBVIOUS
  <2>1. i + 1 \in 1 .. Len(s) /\ j + 1 \in 1 .. Len(s)
    BY <1>1, <1>2
  <2>2. i + 1 = j + 1
    BY <2>1, <1>2 DEF IsList
  <2> QED
    BY <2>2
<1>5. next[top] = IF Len(t) = 0 THEN Null ELSE t[1]
  BY <1>1, <1>2 DEF IsList
<1>6. \A i \in 1 .. Len(t) : next[t[i]] = IF i < Len(t) THEN t[i + 1] ELSE Null
  <2> SUFFICES ASSUME NEW i \in 1 .. Len(t)
               PROVE  next[t[i]] = IF i < Len(t) THEN t[i + 1] ELSE Null
    OBVIOUS
  <2>1. i + 1 \in 1 .. Len(s) /\ (i < Len(t) => i + 1 \in 1 .. Len(t) /\ i + 1 < Len(s))
    BY <1>1, <1>2
  <2>2. next[s[i + 1]] = IF i + 1 < Len(s) THEN s[i + 1 + 1] ELSE Null
    BY <2>1 DEF IsList
  <2> QED
    BY <2>1, <2>2, <1>1, <1>2
<1>7. IsList(t, next[top], next, nodes \ {top})
  BY <1>2, <1>3, <1>4, <1>5, <1>6 DEF IsList
<1> QED
  BY <1>7 DEF t

\* A list stays one when the links of other nodes change.
LEMMA ListFrame ==
    ASSUME NEW s, NEW top, NEW next, NEW nodes, IsList(s, top, next, nodes),
           NEW next2, \A a \in nodes : next2[a] = next[a]
    PROVE  IsList(s, top, next2, nodes)
  BY DEF IsList

\* A list is no longer than there are addresses.
LEMMA ListLength ==
    ASSUME NEW s, NEW top, NEW next, NEW nodes, IsList(s, top, next, nodes)
    PROVE  /\ Len(s) \in 0 .. Cardinality(Addrs)
           /\ IsFiniteSet(nodes)
           /\ Cardinality(Addrs) \in Nat
<1>1. s \in Injection(1 .. Len(s), Addrs) /\ Len(s) \in Nat /\ nodes \subseteq Addrs
  BY DEF IsList, Injection, IsInjective
<1>2. IsFiniteSet(1 .. Len(s)) /\ Cardinality(1 .. Len(s)) = Len(s)
  BY <1>1, FS_Interval
<1>3. Len(s) <= Cardinality(Addrs)
  BY <1>1, <1>2, StackAssumption, FS_Injection
<1>4. IsFiniteSet(nodes)
  BY <1>1, StackAssumption, FS_Subset
<1> QED
  BY <1>1, <1>3, <1>4, StackAssumption, FS_CardinalityType
-----------------------------------------------------------------------------
(* The invariant. *)

\* The empty list is a list.
LEMMA InitStackInv == Init => StackInv
<1> SUFFICES ASSUME Init PROVE StackInv
  OBVIOUS
<1> USE StackAssumption DEF Init, Threads
<1>1. Private = {} /\ Unlinked = {} /\ OnList = {}
  BY DEF Private, Unlinked, OnList
<1>2. IsList(<<>>, head, prev, OnList)
  BY <1>1 DEF IsList
<1>3. ListInv
  BY <1>2 DEF ListInv, IsList
<1> QED
  BY <1>3, InitTyped DEF StackInv, PushersInv, PopperInv, Pushing

\* The pushes' own nodes are in use and are not on the list; the list is in use.
LEMMA Elsewhere ==
    ASSUME StackInv
    PROVE  /\ Private = {new[p] : p \in {q \in Pushers : Pushing(q)}}
           /\ Private \subseteq alive /\ Unlinked \subseteq alive
           /\ Private \cap Unlinked = {} /\ Private \cap OnList = {} /\ Unlinked \cap OnList = {}
           /\ OnList \subseteq alive
           /\ head # Null => head \in OnList
<1>1. PICK s \in Seq(Addrs) : IsList(s, head, prev, OnList)
  BY DEF StackInv, ListInv
<1>2. head # Null => head \in OnList
  BY <1>1 DEF IsList
<1> QED
  BY <1>2 DEF StackInv, PushersInv, PopperInv, Private, Unlinked, OnList, Pushing

(***************************************************************************)
(* The three things a step can do to the list: nothing, put a node on top, *)
(* or take the top off.                                                    *)
(***************************************************************************)
KeepsList ==
    /\ head' = head /\ OnList' = OnList
    /\ \A a \in OnList : prev'[a] = prev[a] /\ data'[a] = data[a]

Pushes(a) ==
    /\ a \in Addrs \ OnList /\ prev[a] = head
    /\ head' = a /\ OnList' = OnList \cup {a}
    /\ UNCHANGED <<prev, data>>

Pops ==
    /\ head # Null
    /\ head' = prev[head] /\ OnList' = OnList \ {head}
    /\ UNCHANGED <<prev, data>>

\* A push whose exchange succeeds links its node.
LEMMA PushCasStep ==
    ASSUME OnePopper, StackInv, NEW p \in Pushers, PushCas(p)
    PROVE  PushersInv' /\ PopperInv' /\ Pushes(new[p])
<1> USE StackAssumption, Elsewhere DEF StackInv, Typed, TypeOK, OwnCode, Threads, Links, Pushing
<1>1. /\ pc[p] = "cas" /\ head = cur[p] /\ head' = new[p]
      /\ pc' = [pc EXCEPT ![p] = "idle"] /\ cur' = [cur EXCEPT ![p] = Null]
      /\ new' = [new EXCEPT ![p] = Null] /\ UNCHANGED <<alive, prev, data>>
  BY DEF PushCas, Leave
<1>2. new[p] \in Private /\ new[p] \in Addrs /\ prev[new[p]] = head
  BY <1>1 DEF PushersInv
<1>3. Private' = Private \ {new[p]} /\ Unlinked' = Unlinked
  BY <1>1 DEF Private, Unlinked, PushersInv
<1>4. OnList' = OnList \cup {new[p]}
  BY <1>1, <1>2, <1>3 DEF OnList
<1>5. PushersInv'
  BY <1>1 DEF PushersInv
<1>6. PopperInv'
  BY <1>1, <1>3, <1>4 DEF PopperInv
<1> QED
  BY <1>1, <1>2, <1>4, <1>5, <1>6 DEF Pushes

\* The one pop unlinks the node whose link it has read.
LEMMA PopCasStep ==
    ASSUME OnePopper, StackInv, NEW c \in Poppers, PopCas(c)
    PROVE  PushersInv' /\ PopperInv' /\ Pops
<1> USE StackAssumption, Elsewhere DEF StackInv, Typed, TypeOK, OwnCode, Threads, Links, Pushing
<1>1. /\ pc[c] = "cas" /\ head = cur[c] /\ head' = new[c]
      /\ pc' = [pc EXCEPT ![c] = "read"] /\ UNCHANGED <<alive, prev, data, cur, new, val>>
  BY DEF PopCas, CasSucceeds, Unlink
<1>2. head' = prev[head] /\ head # Null /\ head \in OnList
  BY <1>1 DEF PopperInv
<1>3. Private' = Private /\ Unlinked' = Unlinked \cup {head}
  BY <1>1 DEF Private, Unlinked
<1>4. OnList' = OnList \ {head}
  BY <1>1, <1>3 DEF OnList
<1>5. PushersInv'
  BY <1>1 DEF PushersInv
<1>6. PopperInv'
  BY <1>1, <1>2, <1>3 DEF PopperInv, OnePopper
<1> QED
  BY <1>1, <1>2, <1>4, <1>5, <1>6 DEF Pops

OtherStep ==
    \/ \E p \in Pushers :
         (\E v \in Values : PushAlloc(p, v)) \/ PushLoad(p) \/ PushRetry(p)
    \/ \E c \in Poppers :
         PopLoad(c) \/ PopRetry(c) \/ PopDeref(c) \/ PopRead(c) \/ PopDelete(c) \/ PopReturn(c)

\* All other steps work off the list.
LEMMA OtherSteps ==
    ASSUME OnePopper, StackInv, OtherStep \/ UNCHANGED vars
    PROVE  PushersInv' /\ PopperInv' /\ KeepsList
<1> USE StackAssumption, Elsewhere DEF StackInv, Typed, TypeOK, OwnCode, Threads, Links, Pushing
<1>1. CASE UNCHANGED vars
  <2>1. UNCHANGED <<Private, Unlinked, OnList>>
    BY <1>1 DEF vars, Private, Unlinked, OnList
  <2> QED
    BY <1>1, <2>1 DEF KeepsList, vars, PushersInv, PopperInv
<1>2. ASSUME NEW p \in Pushers, NEW v \in Values, PushAlloc(p, v)
      PROVE  PushersInv' /\ PopperInv' /\ KeepsList
  <2>1. PICK a \in Addrs \ alive :
            /\ alive' = alive \cup {a}
            /\ data' = [data EXCEPT ![a] = v]
            /\ prev' = [prev EXCEPT ![a] = Null]
            /\ new' = [new EXCEPT ![p] = a]
    BY <1>2 DEF PushAlloc
  <2>2. pc[p] = "idle" /\ pc' = [pc EXCEPT ![p] = "load"] /\ UNCHANGED <<head, cur, val>>
    BY <1>2 DEF PushAlloc
  <2>3. Private' = Private \cup {a} /\ Unlinked' = Unlinked
    BY <2>1, <2>2 DEF Private, Unlinked
  <2>4. OnList' = OnList
    BY <2>1, <2>3 DEF OnList
  <2>5. PushersInv'
    BY <2>1, <2>2 DEF PushersInv
  <2>6. PopperInv'
    BY <2>1, <2>2, <2>3, <2>4 DEF PopperInv
  <2> QED
    BY <2>1, <2>2, <2>4, <2>5, <2>6 DEF KeepsList
<1>3. ASSUME NEW p \in Pushers, PushLoad(p) \/ PushRetry(p)
      PROVE  PushersInv' /\ PopperInv' /\ KeepsList
  <2>1. /\ Pushing(p) /\ pc' = [pc EXCEPT ![p] = "cas"]
        /\ cur' = [cur EXCEPT ![p] = head] /\ prev' = [prev EXCEPT ![new[p]] = head]
        /\ UNCHANGED <<head, alive, data, new, val>>
    BY <1>3 DEF PushLoad, PushRetry, LinkToHead, Relink
  <2>2. Private' = Private /\ Unlinked' = Unlinked /\ OnList' = OnList
    BY <2>1 DEF Private, Unlinked, OnList
  <2>3. new[p] \in Private
    BY <2>1
  <2>4. PushersInv'
    BY <2>1 DEF PushersInv
  <2>5. PopperInv'
    BY <2>1, <2>2, <2>3 DEF PopperInv
  <2> QED
    BY <2>1, <2>2, <2>3, <2>4, <2>5 DEF KeepsList
<1>4. ASSUME NEW c \in Poppers, PopLoad(c) \/ PopRetry(c)
      PROVE  PushersInv' /\ PopperInv' /\ KeepsList
  <2>1. /\ pc[c] \in {"idle", "cas"} /\ pc'[c] \in {"idle", "deref"}
        /\ pc' = [pc EXCEPT ![c] = pc'[c]]
        /\ cur' = [cur EXCEPT ![c] = cur'[c]] /\ new' = [new EXCEPT ![c] = Null]
        /\ pc'[c] = "deref" => head # Null /\ cur'[c] = head
        /\ UNCHANGED <<head, alive, prev, data>>
    BY <1>4 DEF PopLoad, PopRetry, Examine, Leave
  <2>2. Private' = Private /\ Unlinked' = Unlinked /\ OnList' = OnList
    BY <2>1 DEF Private, Unlinked, OnList
  <2>3. PushersInv'
    BY <2>1 DEF PushersInv
  <2>4. PopperInv'
    BY <2>1, <2>2 DEF PopperInv
  <2> QED
    BY <2>1, <2>2, <2>3, <2>4 DEF KeepsList
<1>5. ASSUME NEW c \in Poppers, PopDeref(c)
      PROVE  PushersInv' /\ PopperInv' /\ KeepsList
  <2>1. /\ pc[c] = "deref" /\ pc' = [pc EXCEPT ![c] = "cas"]
        /\ UNCHANGED <<head, alive, prev, data, cur, val>>
    BY <1>5 DEF PopDeref
  <2>2. cur[c] \in alive
    BY <2>1 DEF PopperInv
  <2>3. new' = [new EXCEPT ![c] = prev[cur[c]]]
    BY <1>5, <2>2 DEF PopDeref
  <2>4. Private' = Private /\ Unlinked' = Unlinked /\ OnList' = OnList
    BY <2>1, <2>3 DEF Private, Unlinked, OnList
  <2>5. PushersInv'
    BY <2>1, <2>3 DEF PushersInv
  <2>6. PopperInv'
    BY <2>1, <2>3, <2>4 DEF PopperInv
  <2> QED
    BY <2>1, <2>4, <2>5, <2>6 DEF KeepsList
<1>6. ASSUME NEW c \in Poppers, PopRead(c)
      PROVE  PushersInv' /\ PopperInv' /\ KeepsList
  <2>1. /\ pc[c] = "read" /\ pc' = [pc EXCEPT ![c] = "delete"]
        /\ UNCHANGED <<head, alive, prev, data, cur, new>>
    BY <1>6 DEF PopRead
  <2>2. Private' = Private /\ Unlinked' = Unlinked /\ OnList' = OnList
    BY <2>1 DEF Private, Unlinked, OnList
  <2> QED
    BY <2>1, <2>2 DEF KeepsList, PushersInv, PopperInv
<1>7. ASSUME NEW c \in Poppers, PopDelete(c)
      PROVE  PushersInv' /\ PopperInv' /\ KeepsList
  <2>1. /\ pc[c] = "delete" /\ pc' = [pc EXCEPT ![c] = "return"]
        /\ alive' = alive \ {cur[c]} /\ UNCHANGED <<head, prev, data, cur, new, val>>
    BY <1>7 DEF PopDelete
  <2>2. cur[c] \in Unlinked /\ cur[c] \notin Private
    BY <2>1 DEF PopperInv, Unlinked
  <2>3. Private' = Private /\ Unlinked' = Unlinked \ {cur[c]}
    BY <2>1 DEF Private, Unlinked, OnePopper
  <2>4. OnList' = OnList
    BY <2>1, <2>2, <2>3 DEF OnList
  <2>5. PushersInv'
    BY <2>1, <2>2 DEF PushersInv
  <2>6. PopperInv'
    BY <2>1, <2>2, <2>3, <2>4 DEF PopperInv, OnePopper
  <2> QED
    BY <2>1, <2>4, <2>5, <2>6 DEF KeepsList
<1>8. ASSUME NEW c \in Poppers, PopReturn(c)
       PROVE  PushersInv' /\ PopperInv' /\ KeepsList
  <2>1. /\ pc[c] = "return" /\ pc' = [pc EXCEPT ![c] = "idle"]
        /\ cur' = [cur EXCEPT ![c] = Null] /\ new' = [new EXCEPT ![c] = Null]
        /\ UNCHANGED <<head, alive, prev, data>>
    BY <1>8 DEF PopReturn, Leave
  <2>2. Private' = Private /\ Unlinked' = Unlinked /\ OnList' = OnList
    BY <2>1 DEF Private, Unlinked, OnList
  <2> QED
    BY <2>1, <2>2 DEF KeepsList, PushersInv, PopperInv
<1> QED
  BY <1>1, <1>2, <1>3, <1>4, <1>5, <1>6, <1>7, <1>8 DEF OtherStep

\* What the three things do to a sequence that lists the nodes.
LEMMA ListStep ==
    ASSUME NEW s, IsList(s, head, prev, OnList)
    PROVE  /\ KeepsList => IsList(s, head', prev', OnList')
           /\ \A a : Pushes(a) => IsList(<<a>> \o s, head', prev', OnList')
           /\ Pops => IsList(Tail(s), head', prev', OnList')
<1>1. KeepsList => IsList(s, head', prev', OnList')
  BY ListFrame DEF KeepsList
<1>2. ASSUME NEW a, Pushes(a) PROVE IsList(<<a>> \o s, head', prev', OnList')
  BY <1>2, ListPush DEF Pushes
<1>3. ASSUME Pops PROVE IsList(Tail(s), head', prev', OnList')
  <2>1. IsList(Tail(s), prev[head], prev, OnList \ {head})
    BY <1>3, ListPop DEF Pops
  <2> QED
    BY <2>1, <1>3 DEF Pops
<1> QED
  BY <1>1, <1>2, <1>3

\* Every step does one of the three.
LEMMA NextCases ==
    ASSUME [Next]_vars
    PROVE  \/ \E p \in Pushers : PushCas(p)
           \/ \E c \in Poppers : PopCas(c)
           \/ OtherStep \/ UNCHANGED vars
  BY DEF Next, PusherStep, PopperStep, OtherStep

\* With one popping thread every step leaves a list under head.
LEMMA NextStackInv == OnePopper /\ StackInv /\ [Next]_vars => StackInv'
<1> SUFFICES ASSUME OnePopper, StackInv, [Next]_vars PROVE PushersInv' /\ PopperInv' /\ ListInv'
  BY NextTyped DEF StackInv
<1>1. PICK s \in Seq(Addrs) : IsList(s, head, prev, OnList)
  BY DEF StackInv, ListInv
<1>2. ASSUME NEW t, IsList(t, head', prev', OnList') PROVE ListInv'
  BY <1>2 DEF ListInv, IsList
<1>3. CASE \E p \in Pushers : PushCas(p)
  BY <1>1, <1>2, <1>3, PushCasStep, ListStep
<1>4. CASE \E c \in Poppers : PopCas(c)
  BY <1>1, <1>2, <1>4, PopCasStep, ListStep
<1>5. CASE OtherStep \/ UNCHANGED vars
  BY <1>1, <1>2, <1>5, OtherSteps, ListStep
<1> QED
  BY <1>3, <1>4, <1>5, NextCases
-----------------------------------------------------------------------------
(* What hangs under head: the functions of LocklessStack that follow the links. *)

\* A nonempty set of natural numbers has a least element.
LEMMA LeastNat ==
    ASSUME NEW T, T \subseteq Nat, T # {}
    PROVE  \E m \in T : \A n \in T : m <= n
<1>1. PICK m \in T : \A n \in T : ~(<<n, m>> \in OpToRel(<, Nat))
  BY NatLessThanWellFounded, WFMin
<1>2. ASSUME NEW n \in T, n < m PROVE FALSE
  <2>1. <<n, m>> \in OpToRel(<, Nat)
    BY <1>2 DEF OpToRel
  <2> QED
    BY <2>1, <1>1
<1>3. ASSUME NEW n \in T PROVE m <= n
  BY <1>2
<1> QED
  BY <1>3

\* Link follows the list, and then stays at null.
LEMMA LinkFollows ==
    ASSUME NEW s, IsList(s, head, prev, OnList)
    PROVE  /\ DOMAIN Link = 0 .. Cardinality(Addrs)
           /\ \A n \in 0 .. Cardinality(Addrs) :
                 Link[n] = IF n < Len(s) THEN s[n + 1] ELSE Null
<1> DEFINE K == Cardinality(Addrs)
           F(f) == [n \in 0 .. K |->
                      IF n = 0 THEN head ELSE IF f[n - 1] = Null THEN Null ELSE prev[f[n - 1]]]
           g == [n \in 0 .. K |-> IF n < Len(s) THEN s[n + 1] ELSE Null]
<1>1. Len(s) \in 0 .. K /\ K \in Nat
  BY ListLength
<1>2. g = F(g)
  <2>1. ASSUME NEW n \in 0 .. K PROVE g[n] = F(g)[n]
    <3>1. CASE n = 0
      BY <3>1, <1>1 DEF IsList
    <3>2. CASE n # 0 /\ n - 1 < Len(s)
      <4>1. n - 1 \in 0 .. K /\ n \in 1 .. Len(s) /\ n \in 0 .. K
        BY <3>2, <1>1
      <4>2. g[n - 1] = s[n] /\ s[n] # Null
        BY <4>1, <3>2, StackAssumption DEF IsList
      <4>3. prev[s[n]] = IF n < Len(s) THEN s[n + 1] ELSE Null
        BY <4>1 DEF IsList
      <4> QED
        BY <4>1, <4>2, <4>3, <3>2
    <3>3. CASE n # 0 /\ ~(n - 1 < Len(s))
      <4>1. n - 1 \in 0 .. K /\ ~(n < Len(s))
        BY <3>3, <1>1
      <4>2. g[n - 1] = Null
        BY <4>1, <3>3
      <4> QED
        BY <4>1, <4>2, <3>3
    <3> QED
      BY <3>1, <3>2, <3>3
  <2> QED
    BY <2>1
<1>3. Link = F(Link)
  <2>1. Link = CHOOSE f : f = F(f)
    BY DEF Link
  <2> HIDE DEF F, g
  <2> QED
    BY <2>1, <1>2
<1>4. Link = g
  <2> DEFINE Bad == {n \in 0 .. K : Link[n] # g[n]}
  <2>1. SUFFICES ASSUME Bad # {} PROVE FALSE
    BY <1>3
  <2>2. PICK m \in Bad : \A n \in Bad : m <= n
    <3>1. Bad \subseteq Nat
      BY <1>1
    <3> HIDE DEF Bad
    <3> QED
      BY <2>1, <3>1, LeastNat
  <2>3. m \in 0 .. K /\ m # 0 => m - 1 \in 0 .. K /\ m - 1 \notin Bad
    BY <2>2, <1>1
  <2>4. Link[m] = F(Link)[m] /\ g[m] = F(g)[m]
    BY <1>2, <1>3
  <2>5. m # 0 => Link[m - 1] = g[m - 1]
    BY <2>2, <2>3
  <2>6. F(Link)[m] = F(g)[m]
    BY <2>2, <2>5
  <2> QED
    BY <2>2, <2>4, <2>6
<1> QED
  BY <1>4

\* Depth, Linked and Contents say of the links what the list says.
LEMMA WhatHangs ==
    ASSUME NEW s, IsList(s, head, prev, OnList)
    PROVE  /\ Depth = Len(s)
           /\ Linked = OnList
           /\ Contents = [n \in 1 .. Len(s) |-> data[s[n]]]
<1> DEFINE K == Cardinality(Addrs)
<1>1. Len(s) \in 0 .. K /\ K \in Nat
  BY ListLength
<1>2. DOMAIN Link = 0 .. K
  BY LinkFollows
<1>3. \A n \in 0 .. K : Link[n] = IF n < Len(s) THEN s[n + 1] ELSE Null
  BY LinkFollows
<1>4. \A n \in 1 .. Len(s) : s[n] \in OnList /\ s[n] # Null
  BY StackAssumption DEF IsList
<1>5. {n \in DOMAIN Link : Link[n] # Null} = 0 .. Len(s) - 1
  BY <1>1, <1>2, <1>3, <1>4
<1>6. Depth = Len(s)
  <2>1. 0 \in Int /\ Len(s) - 1 \in Int
    BY <1>1
  <2>2. Cardinality(0 .. Len(s) - 1) = IF 0 > Len(s) - 1 THEN 0 ELSE Len(s) - 1 - 0 + 1
    BY <2>1, FS_Interval
  <2>3. Cardinality(0 .. Len(s) - 1) = Len(s)
    BY <2>2, <1>1
  <2> QED
    BY <2>3, <1>5 DEF Depth
<1>7. Linked = OnList
  <2>1. ASSUME NEW a \in OnList PROVE a \in Linked
    <3>1. PICK i \in 1 .. Len(s) : a = s[i]
      BY DEF IsList
    <3>2. i - 1 \in 0 .. K /\ i - 1 < Len(s) /\ i - 1 + 1 = i
      BY <1>1
    <3>3. Link[i - 1] = a
      BY <3>1, <3>2, <1>3
    <3> QED
      BY <3>1, <3>2, <3>3, <1>2, <1>4 DEF Linked
  <2>2. ASSUME NEW n \in 0 .. K, Link[n] # Null PROVE Link[n] \in OnList
    <3>1. n + 1 \in 1 .. Len(s) /\ Link[n] = s[n + 1]
      BY <2>2, <1>1, <1>3
    <3> QED
      BY <3>1, <1>4
  <2> QED
    BY <2>1, <2>2, <1>2 DEF Linked
<1>8. Contents = [n \in 1 .. Len(s) |-> data[s[n]]]
  BY <1>1, <1>3, <1>6 DEF Contents
<1> QED
  BY <1>6, <1>7, <1>8
-----------------------------------------------------------------------------
(* The properties. *)

\* Disjoint finite sets add up.
LEMMA DisjointUnion ==
    ASSUME NEW S, NEW T, IsFiniteSet(S), IsFiniteSet(T), S \cap T = {}
    PROVE  Cardinality(S \cup T) = Cardinality(S) + Cardinality(T)
<1>1. Cardinality(S \cap T) = 0
  BY FS_EmptySet
<1>2. Cardinality(S \cup T) = Cardinality(S) + Cardinality(T) - Cardinality(S \cap T)
  BY FS_Union
<1> QED
  BY <1>1, <1>2, FS_CardinalityType

\* The owners of the nodes in use are disjoint, so their nodes add up.
LEMMA OwnersDisjoint == StackInv => NodesAccounted
<1> SUFFICES ASSUME StackInv PROVE NodesAccounted
  OBVIOUS
<1>1. PICK s \in Seq(Addrs) : IsList(s, head, prev, OnList)
  BY DEF StackInv, ListInv
<1>2. Linked = OnList
  BY <1>1, WhatHangs
<1>3. alive = Linked \cup Private \cup Unlinked
  BY <1>2, Elsewhere DEF OnList
<1>4. /\ IsFiniteSet(Linked) /\ IsFiniteSet(Private) /\ IsFiniteSet(Unlinked)
      /\ IsFiniteSet(Linked \cup Private)
  <2>1. alive \subseteq Addrs
    BY DEF StackInv, Typed, TypeOK
  <2> QED
    BY <2>1, <1>3, StackAssumption, FS_Subset
<1>5. /\ Linked \cap Private = {} /\ (Linked \cup Private) \cap Unlinked = {}
  BY <1>2, Elsewhere
<1>6. Cardinality(Linked \cup Private) = Cardinality(Linked) + Cardinality(Private)
  BY <1>4, <1>5, DisjointUnion
<1>7. Cardinality(alive) = Cardinality(Linked \cup Private) + Cardinality(Unlinked)
  BY <1>3, <1>4, <1>5, DisjointUnion
<1> QED
  BY <1>3, <1>6, <1>7 DEF NodesAccounted

\* WhatHangs of the state after a step.
LEMMA WhatHangsAlways ==
    \A s : IsList(s, head, prev, OnList) =>
             Depth = Len(s) /\ Contents = [n \in 1 .. Len(s) |-> data[s[n]]]
  BY WhatHangs

\* ... and after it.
LEMMA WhatHangsNext ==
    (\A s : IsList(s, head, prev, OnList) =>
              Depth = Len(s) /\ Contents = [n \in 1 .. Len(s) |-> data[s[n]]])'
  BY WhatHangsAlways, PTL

\* What a step does to the list it does to the elements on it.
LEMMA ContentsStep ==
    ASSUME StackInv
    PROVE  /\ KeepsList => Contents' = Contents
           /\ \A a : Pushes(a) => Contents' = <<data[a]>> \o Contents
           /\ Pops => /\ Contents # <<>> /\ Head(Contents) = data[head]
                      /\ Contents' = Tail(Contents)
<1>1. PICK s \in Seq(Addrs) : IsList(s, head, prev, OnList)
  BY DEF StackInv, ListInv
<1>2. Len(s) \in Nat /\ Contents = [n \in 1 .. Len(s) |-> data[s[n]]]
  BY <1>1, WhatHangs, ListLength
<1>3. Contents \in Seq({data[a] : a \in Addrs}) /\ Len(Contents) = Len(s)
  BY <1>1, <1>2
<1>4. ASSUME NEW t, IsList(t, head', prev', OnList')
      PROVE  Contents' = [n \in 1 .. Len(t) |-> data'[t[n]]]
  BY <1>4, WhatHangsNext
<1>5. ASSUME KeepsList PROVE Contents' = Contents
  <2>1. \A n \in 1 .. Len(s) : data'[s[n]] = data[s[n]]
    BY <1>1, <1>5 DEF KeepsList, IsList
  <2>2. Contents' = [n \in 1 .. Len(s) |-> data'[s[n]]]
    BY <1>1, <1>4, <1>5, ListStep
  <2> QED
    BY <2>1, <2>2, <1>2
<1>6. ASSUME NEW a, Pushes(a) PROVE Contents' = <<data[a]>> \o Contents
  <2> DEFINE t == <<a>> \o s
  <2>1. Contents' = [n \in 1 .. Len(t) |-> data[t[n]]]
    BY <1>1, <1>4, <1>6, ListStep DEF Pushes
  <2>2. a \in Addrs
    BY <1>6 DEF Pushes
  <2>3. Len(t) = Len(s) + 1 /\ t[1] = a /\ \A n \in 2 .. Len(s) + 1 : t[n] = s[n - 1]
    BY <1>1, <1>2, <2>2
  <2> HIDE DEF t
  <2> DEFINE u == <<data[a]>> \o Contents
  <2>4. /\ u \in Seq({data[b] : b \in Addrs}) /\ Len(u) = Len(s) + 1 /\ u[1] = data[a]
        /\ \A n \in 2 .. Len(s) + 1 : u[n] = Contents[n - 1]
    BY <1>2, <1>3, <2>2
  <2>5. u = [n \in 1 .. Len(s) + 1 |-> u[n]]
    BY <2>4
  <2>6. ASSUME NEW n \in 1 .. Len(s) + 1 PROVE u[n] = data[t[n]]
    <3>1. CASE n = 1
      BY <3>1, <2>3, <2>4
    <3>2. CASE n # 1
      <4>1. n \in 2 .. Len(s) + 1 /\ n - 1 \in 1 .. Len(s)
        BY <3>2, <1>2
      <4> QED
        BY <4>1, <2>3, <2>4, <1>2
    <3> QED
      BY <3>1, <3>2
  <2> HIDE DEF u
  <2>7. Contents' = u
    BY <2>1, <2>3, <2>5, <2>6
  <2> QED
    BY <2>7 DEF u
<1>7. ASSUME Pops
      PROVE  Contents # <<>> /\ Head(Contents) = data[head] /\ Contents' = Tail(Contents)
  <2>1. Len(s) # 0 /\ s[1] = head
    BY <1>1, <1>7 DEF Pops, IsList
  <2>2. Contents # <<>> /\ Head(Contents) = data[head]
    BY <2>1, <1>2, <1>3
  <2>3. /\ Len(Tail(s)) = Len(s) - 1 /\ Len(Tail(Contents)) = Len(s) - 1
        /\ Tail(Contents) \in Seq({data[a] : a \in Addrs})
        /\ \A n \in 1 .. Len(s) - 1 : Tail(s)[n] = s[n + 1] /\ Tail(Contents)[n] = Contents[n + 1]
    BY <1>1, <1>2, <1>3, <2>1, <2>2
  <2>4. Contents' = [n \in 1 .. Len(s) - 1 |-> data[Tail(s)[n]]]
    BY <1>1, <1>4, <1>7, <2>3, ListStep DEF Pops
  <2>5. \A n \in 1 .. Len(s) - 1 : Tail(Contents)[n] = data[Tail(s)[n]]
    BY <2>3, <1>2
  <2>6. Tail(Contents) = [n \in 1 .. Len(s) - 1 |-> Tail(Contents)[n]]
    <3> DEFINE u == Tail(Contents)
    <3>1. u \in Seq({data[a] : a \in Addrs}) /\ Len(u) = Len(s) - 1
      BY <2>3
    <3> HIDE DEF u
    <3>2. u = [n \in 1 .. Len(s) - 1 |-> u[n]]
      BY <3>1
    <3> QED
      BY <3>2 DEF u
  <2> QED
    BY <2>2, <2>4, <2>5, <2>6
<1> QED
  BY <1>5, <1>6, <1>7

\* InHand changes at the exchange of a pop and at its return, and nowhere else.
LEMMA StepImplements ==
    ASSUME OnePopper, StackInv, StackInv', [Next]_vars
    PROVE  [Lifo!StackNext]_(Lifo!stackVars)
<1> USE StackAssumption DEF Typed, TypeOK, OwnCode, Threads, Links
<1>1. CASE UNCHANGED vars
  BY <1>1, OtherSteps, ContentsStep DEF vars, InHand, Lifo!stackVars
<1>2. ASSUME NEW p \in Pushers, PushCas(p) PROVE Lifo!StackNext
  <2>1. Contents' = <<data[new[p]]>> \o Contents
    BY <1>2, PushCasStep, ContentsStep
  <2>2. data[new[p]] \in Values
    BY <1>2 DEF StackInv, PushersInv, Pushing, DataStored, PushCas
  <2>3. InHand' = InHand
    BY <1>2 DEF PushCas, Leave, InHand, StackInv
  <2> QED
    BY <2>1, <2>2, <2>3 DEF Lifo!StackNext, Lifo!Push
<1>3. ASSUME NEW c \in Poppers, PopCas(c) PROVE Lifo!StackNext
  <2>1. Contents # <<>> /\ Contents' = Tail(Contents) /\ Head(Contents) = data[cur[c]]
    BY <1>3, PopCasStep, ContentsStep DEF PopCas, CasSucceeds
  <2>2. InHand[c] = NoValue /\ InHand' = [InHand EXCEPT ![c] = data[cur[c]]]
    BY <1>3 DEF PopCas, CasSucceeds, InHand, StackInv
  <2> QED
    BY <2>1, <2>2 DEF Lifo!StackNext, Lifo!Pop
<1>4. ASSUME NEW c \in Poppers, PopReturn(c) PROVE Lifo!StackNext
  <2>1. Contents' = Contents
    BY <1>4, OtherSteps, ContentsStep DEF OtherStep
  <2>2. InHand[c] # NoValue /\ InHand' = [InHand EXCEPT ![c] = NoValue]
    BY <1>4 DEF PopReturn, Leave, InHand, StackInv
  <2> QED
    BY <2>1, <2>2 DEF Lifo!StackNext, Lifo!Return
<1>5. ASSUME OtherStep, \A c \in Poppers : ~PopReturn(c) PROVE UNCHANGED Lifo!stackVars
  <2>1. Contents' = Contents
    BY <1>5, OtherSteps, ContentsStep
  <2>2. InHand' = InHand
    <3>1. ASSUME NEW p \in Pushers, NEW v \in Values, PushAlloc(p, v) PROVE InHand' = InHand
      BY <3>1 DEF PushAlloc, InHand, StackInv, PopperInv
    <3>2. ASSUME NEW p \in Pushers, PushLoad(p) \/ PushRetry(p) PROVE InHand' = InHand
      BY <3>2 DEF PushLoad, PushRetry, LinkToHead, Relink, InHand, StackInv
    <3>3. ASSUME NEW c \in Poppers, PopLoad(c) \/ PopRetry(c) PROVE InHand' = InHand
      BY <3>3 DEF PopLoad, PopRetry, Examine, Leave, InHand, StackInv
    <3>4. ASSUME NEW c \in Poppers, PopDeref(c) \/ PopDelete(c) PROVE InHand' = InHand
      BY <3>4 DEF PopDeref, PopDelete, InHand, StackInv
    <3>5. ASSUME NEW c \in Poppers, PopRead(c) PROVE InHand' = InHand
      BY <3>5 DEF PopRead, InHand, StackInv, PopperInv
    <3> QED
      BY <1>5, <3>1, <3>2, <3>3, <3>4, <3>5 DEF OtherStep
  <2> QED
    BY <2>1, <2>2 DEF Lifo!stackVars
<1> QED
  BY <1>1, <1>2, <1>3, <1>4, <1>5, NextCases

(***************************************************************************)
(* The inductive invariant holds while at most one thread pops.            *)
(***************************************************************************)
THEOREM StackInductive ==
    ASSUME OnePopper
    PROVE  Spec => []StackInv
  BY OnePopper, InitStackInv, NextStackInv, PTL DEF Spec

(***************************************************************************)
(* However many threads push, a single popping thread never touches a node *)
(* that has been deleted; with two, the run LocklessStackTwoPoppers shows  *)
(* that it can.                                                            *)
(***************************************************************************)
THEOREM PopTouchesLiveNodes ==
    ASSUME OnePopper
    PROVE  Spec => []NoUseAfterFree
<1>1. StackInv => NoUseAfterFree
  BY DEF StackInv, PopperInv, NoUseAfterFree, OnList
<1> QED
  BY <1>1, StackInductive, PTL

(***************************************************************************)
(* No node is leaked or shared: each node in use hangs under head, or is   *)
(* in the hands of one push, or in those of the pop.                       *)
(***************************************************************************)
THEOREM NodesAreAccounted ==
    ASSUME OnePopper
    PROVE  Spec => []NodesAccounted
  BY StackInductive, OwnersDisjoint, PTL

(***************************************************************************)
(* The list under head implements the LIFO stack: a step of the stack maps *)
(* to a push, a pop or a return of the abstract stack or to none of them.  *)
(***************************************************************************)
THEOREM StackImplementsLifo ==
    ASSUME OnePopper
    PROVE  Spec => ImplementsStack
<1>1. Init => Lifo!StackInit
  <2> SUFFICES ASSUME Init PROVE Lifo!StackInit
    OBVIOUS
  <2>1. Private = {} /\ Unlinked = {} /\ OnList = {}
    BY DEF Init, Private, Unlinked, OnList, Threads
  <2>2. IsList(<<>>, head, prev, OnList)
    BY <2>1 DEF IsList, Init
  <2>3. Contents = <<>>
    BY <2>2, WhatHangs
  <2>4. InHand = [c \in Poppers |-> NoValue]
    BY DEF Init, InHand, Threads
  <2> QED
    BY <2>3, <2>4 DEF Lifo!StackInit
<1>2. StackInv /\ StackInv' /\ [Next]_vars => [Lifo!StackNext]_(Lifo!stackVars)
  BY StepImplements
<1> QED
  BY <1>1, <1>2, StackInductive, PTL DEF Spec, ImplementsStack, Lifo!StackSpec
=============================================================================
