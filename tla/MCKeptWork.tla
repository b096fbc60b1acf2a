----------------------------- MODULE MCKeptWork -----------------------------
(* Two Booleans on two pairs, each arrangement using one inner computation, *)
(* one entry kept by each cache.                                            *)
EXTENDS KeptWork

MCBody ==
    [fuse |-> <<"pair1", "solid">>,
     cut  |-> <<"inner", "pair2", "inner">>,
     pair1 |-> <<"pierce", "inner", "inner", "box">>,
     pair2 |-> <<"inner", "box">>,
     inner |-> <<"box", "box", "pierce">>]

MCCacheOf  == [pair1 |-> "ARRANGED", pair2 |-> "ARRANGED", inner |-> "INNER"]
MCCapacity == [ARRANGED |-> 1, INNER |-> 1]
=============================================================================
