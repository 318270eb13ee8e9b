--------------------------- MODULE MCLocklessStack ---------------------------
(* Instances of LocklessStack for TLC. *)
EXTENDS LocklessStack, TLC

Symmetry == Permutations(Pushers) \cup Permutations(Poppers) \cup Permutations(Addrs)
                \cup Permutations(Values)
=============================================================================
