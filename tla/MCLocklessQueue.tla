--------------------------- MODULE MCLocklessQueue ---------------------------
(* Instances of LocklessQueue for TLC. *)
EXTENDS LocklessQueue, TLC

Symmetry == Permutations(Producers) \cup Permutations(Consumers)
=============================================================================
