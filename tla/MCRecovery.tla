----------------------------- MODULE MCRecovery -----------------------------
(* Recovery with three process ids and three starts.        *)
EXTENDS Recovery, TLC
CONSTANTS p1, p2, p3
ThreePids == {p1, p2, p3}
Symmetry == Permutations(ThreePids)
=============================================================================
