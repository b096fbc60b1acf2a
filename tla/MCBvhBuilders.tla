--------------------------- MODULE MCBvhBuilders ---------------------------
(* Small pools of builders; sizes are in the .cfg files.                   *)
EXTENDS BvhBuilders

CONSTANTS e1, e2, e3
=============================================================================
