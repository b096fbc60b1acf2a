----------------------------- MODULE UndoStack -----------------------------
(***************************************************************************)
(* What a document promises the application: its contents change inside    *)
(* commands only; aborting a command brings back the contents it started   *)
(* from, undoing a committed one brings back the contents before it and    *)
(* redoing it those after it; and a stored undo or redo is never altered,  *)
(* only dropped, from the far end, or merged with its neighbours.          *)
(***************************************************************************)
EXTENDS SequencesExt, Naturals

CONSTANTS Contents, \* what a document may hold
          Empty     \* what a new document holds

VARIABLES contents,
          open,     \* the contents each open command started from
          undos,    \* the contents each undo brings back, the next one last
          redos     \* the contents each redo brings back, the next one first

vars == <<contents, open, undos, redos>>

Init == /\ contents = Empty
        /\ open = << >>
        /\ undos = << >>
        /\ redos = << >>

Base == IF open = << >> THEN contents ELSE open[1]

Edit == /\ open # << >>
        /\ contents' \in Contents
        /\ UNCHANGED <<open, undos, redos>>

\* The outermost command is recorded, at the cost of the oldest undo and of
\* all redos.  One that changed nothing may be left out.
Recorded == \/ /\ contents = Base
               /\ UNCHANGED <<undos, redos>>
            \/ /\ \/ undos' = Append(undos, Base)
                  \/ undos # << >> /\ undos' = Append(Tail(undos), Base)
               /\ redos' = << >>

Ended == IF Len(open) = 1 THEN Recorded ELSE UNCHANGED <<undos, redos>>

Outer == IF open = << >> THEN << >> ELSE Front(open)

Open == open' = Append(open, contents) /\ UNCHANGED <<contents, undos, redos>>

Commit == /\ open # << >>
          /\ open' = Outer
          /\ Ended
          /\ UNCHANGED contents

NewCommand == /\ open' = Append(Outer, contents)
              /\ Ended
              /\ UNCHANGED contents

Abort == /\ open # << >>
         /\ contents' = Last(open)
         /\ open' = Outer
         /\ UNCHANGED <<undos, redos>>

\* Undo and Redo abort what is open, and open a new command in its stead.
Reopened(c) == IF open = << >> THEN << >> ELSE <<c>>

Undo == /\ undos # << >>
        /\ contents' = Last(undos)
        /\ undos' = Front(undos)
        /\ redos' = <<Base>> \o redos
        /\ open' = Reopened(Last(undos))

Redo == /\ redos # << >>
        /\ contents' = Head(redos)
        /\ redos' = Tail(redos)
        /\ undos' = Append(undos, Base)
        /\ open' = Reopened(Head(redos))

\* The far ends of both lists may be dropped, the command in progress ended.
Drop == /\ contents' = contents
        /\ open' \in {open, Outer}
        /\ IsSuffix(undos', undos) \/ (Len(open) = 1 /\ open' = << >>
                                       /\ IsSuffix(undos', Append(undos, open[1])))
        /\ IsPrefix(redos', redos)

\* The last undos are merged: one step brings back the contents of the first.
Merge == \E k \in 1..Len(undos) :
            /\ undos' = SubSeq(undos, 1, k)
            /\ IsPrefix(redos', redos)
            /\ UNCHANGED <<contents, open>>

Next == Edit \/ Open \/ Commit \/ NewCommand \/ Abort \/ Undo \/ Redo \/ Drop \/ Merge

Spec == Init /\ [][Next]_vars
=============================================================================
