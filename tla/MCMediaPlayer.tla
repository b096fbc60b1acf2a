--------------------------- MODULE MCMediaPlayer ---------------------------
(* Three inputs and a few packets; sizes are in the .cfg file.             *)
EXTENDS MediaPlayer

CONSTANTS a, b, c

Events == {"PAUSE", "RESUME", "SEEK"}

\* A viewer that does everything, one that always waits, and one that does
\* nothing but set inputs.
MCHabits == {[waits |-> BOOLEAN, controls |-> Events],
             [waits |-> {TRUE}, controls |-> {}],
             [waits |-> BOOLEAN, controls |-> {}]}
=============================================================================
