-------------------------------- MODULE MCH2O --------------------------------
(* Instances of H2O for TLC. *)
EXTENDS H2O, TLC

Symmetry == Permutations(HThreads) \cup Permutations(OThreads)
=============================================================================
