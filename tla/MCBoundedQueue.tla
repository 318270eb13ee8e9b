--------------------------- MODULE MCBoundedQueue ---------------------------
(* Instances of BoundedQueue for TLC. *)
EXTENDS BoundedQueue, TLC

Symmetry == Permutations(Producers) \cup Permutations(Consumers) \cup Permutations(Values)
=============================================================================
