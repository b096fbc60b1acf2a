--------------------------- MODULE MCFunctionGraph ---------------------------
(* Three labels and three numbers: a label may get a second function when   *)
(* one of the others has none.                                              *)
EXTENDS FunctionGraph, TLC

CONSTANTS a, b, c

Permutable == Permutations(Labels)

OtherPair == {p \in Labels \X Labels : p[1] # p[2]}
=============================================================================
