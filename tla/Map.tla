---------------------------------- MODULE Map ----------------------------------
(***************************************************************************)
(* What a map from keys to values promises, when looking up a key that is  *)
(* not there inserts it.                                                   *)
(***************************************************************************)
CONSTANTS Keys, Values,
          Default   \* the value of a key that is looked up before it is set

VARIABLE map        \* a function on the keys that are there

Init == map = [k \in {} |-> Default]

Value(k) == IF k \in DOMAIN map THEN map[k] ELSE Default

LookUp(k) == map' = [j \in DOMAIN map \cup {k} |-> Value(j)]
Put(k, v) == map' = [j \in DOMAIN map \cup {k} |-> IF j = k THEN v ELSE Value(j)]
Remove(k) == map' = [j \in DOMAIN map \ {k} |-> map[j]]

Next == \E k \in Keys : LookUp(k) \/ (\E v \in Values : Put(k, v)) \/ Remove(k)

Spec == Init /\ [][Next]_map
=============================================================================
