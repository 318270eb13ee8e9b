------------------------------- MODULE HashTable -------------------------------
(***************************************************************************)
(* HashTable of hash_table.cc: an array of lists of nodes <<key, value>>.  *)
(* A step is one member function, with the assignment through the          *)
(* reference that operator[] returns.  The hash function stays below the   *)
(* size of the array, as get_hash asserts.                                 *)
(***************************************************************************)
EXTENDS Naturals, Sequences, SequencesExt

CONSTANTS Keys, Values,
          Default,   \* Value()
          Hash,      \* Hash[k]: the bucket of key k
          MaxLen     \* bound on the insertions of a run

Buckets == {Hash[k] : k \in Keys}

HashTableAssumption == Default \in Values /\ MaxLen \in Nat

VARIABLES table,     \* table[h]: the list of bucket h
          len        \* size()

vars == <<table, len>>

Init == table = [h \in Buckets |-> <<>>] /\ len = 0

\* std::find_if on the list of k's bucket: the place of k, or 0 for end().
Find(k) == SelectInSeq(table[Hash[k]], LAMBDA node : node[1] = k)

count(k) == Find(k) # 0

\* operator[](k) and an assignment of v to what it returns; without one, v is what is there.
Inserted(k, v) ==
    IF count(k) THEN ReplaceAt(table[Hash[k]], Find(k), <<k, v>>) ELSE Append(table[Hash[k]], <<k, v>>)

At(k, v) ==
    /\ count(k) \/ len < MaxLen
    /\ table' = [table EXCEPT ![Hash[k]] = Inserted(k, v)]
    /\ len' = IF count(k) THEN len ELSE len + 1

LookUp(k) == At(k, IF count(k) THEN table[Hash[k]][Find(k)][2] ELSE Default)

\* erase does not change len.
erase(k) ==
    /\ count(k)
    /\ table' = [table EXCEPT ![Hash[k]] = RemoveAt(@, Find(k))]
    /\ UNCHANGED len

Next == \E k \in Keys : LookUp(k) \/ (\E v \in Values : At(k, v)) \/ erase(k)

Spec == Init /\ [][Next]_vars
-----------------------------------------------------------------------------
(***************************************************************************)
(* The lists hold nodes, and no run inserts more than its bound.           *)
(***************************************************************************)
TypeOK ==
    /\ table \in [Buckets -> Seq(Keys \X Values)]
    /\ len \in 0 .. MaxLen

present == UNION {{table[h][i][1] : i \in DOMAIN table[h]} : h \in Buckets}

(***************************************************************************)
(* A key has one node, in the bucket it is looked for in, and size() is    *)
(* never less than the number of keys (it is more after an erase).         *)
(***************************************************************************)
OneNodePerKey ==
    /\ \A h \in Buckets : \A i, j \in DOMAIN table[h] :
          Hash[table[h][i][1]] = h /\ (table[h][i][1] = table[h][j][1] => i = j)
    /\ len >= Cardinality(present)

(***************************************************************************)
(* The table is a map.                                                     *)
(***************************************************************************)
Promise == INSTANCE Map WITH map <- [k \in present |-> table[Hash[k]][Find(k)][2]]

ImplementsMap == Promise!Spec
=============================================================================
