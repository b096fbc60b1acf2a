---------------------------- MODULE MCThreadPool ----------------------------
(* Small pools: the launchers, queries and sizes are in the .cfg files, the *)
(* loops and the integers here.                                             *)
EXTENDS ThreadPool

CONSTANTS a, b, p

MCRanges == {[begin |-> 0, end |-> 2]}
MCOneRange == {[begin |-> 0, end |-> 1]}
\* The largest integer leaves each executor just the room to pass the range's
\* end once.
MCMinInt == -6
MCMaxInt == 5
=============================================================================
