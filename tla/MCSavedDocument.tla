-------------------------- MODULE MCSavedDocument ---------------------------
EXTENDS SavedDocument

CONSTANTS root, main, sub

MCFather  == (main :> root) @@ (sub :> main)
MCSlots   == {<<sub, 1>>}
MCLimits  == {2}
=============================================================================
