------------------------- MODULE MCFunctionIterator -------------------------
(* Four functions that depend on one another, all of them or by twos, without *)
(* a cycle; three with one, and a fourth by itself.  Of the graphs that differ *)
(* only in the names of the functions, which nothing tells apart, one is taken. *)
EXTENDS FunctionIterator

MCFunctions == 1 .. 4

\* 12 is <<1, 2>>.
Edges == {
    {12, 34}, {12, 13, 14}, {12, 13, 24}, {12, 14, 34}, {12, 23, 24},
    {12, 23, 34}, {12, 24, 34}, {13, 23, 34}, {14, 24, 34},
    {12, 13, 14, 23}, {12, 13, 23, 24}, {12, 13, 23, 34}, {12, 13, 24, 34},
    {12, 14, 23, 34}, {12, 14, 24, 34}, {12, 23, 24, 34}, {13, 14, 23, 24},
    {13, 14, 23, 34}, {12, 13, 14, 23, 24}, {12, 13, 14, 23, 34},
    {12, 13, 14, 24, 34}, {12, 13, 23, 24, 34}, {12, 14, 23, 24, 34},
    {13, 14, 23, 24, 34}, {12, 13, 14, 23, 24, 34}, {12, 13, 21},
    {12, 21, 31}, {12, 23, 31}, {12, 13, 21, 23}, {12, 13, 21, 31},
    {12, 13, 21, 32}, {12, 13, 23, 32}, {12, 13, 21, 23, 31},
    {12, 13, 21, 23, 31, 32}}
MCGraphs == {{<<e \div 10, e % 10>> : e \in es} : es \in Edges}
=============================================================================
