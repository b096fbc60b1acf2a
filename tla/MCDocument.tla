----------------------------- MODULE MCDocument -----------------------------
EXTENDS Document

CONSTANTS root, main, sub

MCFather  == (main :> root) @@ (sub :> main)
MCSlots   == {<<sub, 1>>}
MCLimits  == {-1, 2}
MCValues  == Permutations(Values)
=============================================================================
