-------------------------- MODULE MCStreamOwnership --------------------------
(* StreamOwnership for TLC.                                                *)
EXTENDS StreamOwnership, TLC

Symmetry == Permutations(Objects) \cup Permutations(Threads)
=============================================================================
