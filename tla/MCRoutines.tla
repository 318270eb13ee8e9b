------------------------------ MODULE MCRoutines ------------------------------
(* Instances of Routines for TLC. *)
EXTENDS Routines, TLC

CONSTANTS s1, s2, s3, w1, w2

\* The names of variables a program of any component uses, and its weak pointers.
MCSlots == {s1, s2, s3}
MCWeaks == {w1, w2}

Symmetry == Permutations(MCSlots) \cup Permutations(MCWeaks)

\* Two of the three nodes touch.
MCBases == {4, 8, 13}
MCLens == 1 .. NodeSize

\* Two of the three keys collide.
MCHash == [k \in Keys |-> k % 2]
=============================================================================
