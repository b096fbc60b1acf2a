----------------------------- MODULE MCProgress -----------------------------
(* A few objects on a short scale; sizes are in the .cfg files.            *)
EXTENDS Progress, TLC

CONSTANTS r1, r2, r3, s1, s2, s3

Symmetry == Permutations(RangeSlots) \cup Permutations(ScopeSlots)
=============================================================================
