------------------------------ MODULE MCBudget ------------------------------
(* Two threads and two handles, h1 with a token and its clone h2 with a    *)
(* deadline: both draw from one count.                                      *)
EXTENDS Budget

CONSTANTS t1, t2, h1, h2, s1, k1

MCClones  == [h \in {h1, h2} |-> s1]
MCOneUnit == [s \in {s1} |-> 1]
MCTokenOf == [h \in {h1, h2} |-> IF h = h1 THEN {k1} ELSE {}]
=============================================================================
