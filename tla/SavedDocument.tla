--------------------------- MODULE SavedDocument ---------------------------
(***************************************************************************)
(* A document that is saved: SetSaved notes the framework's time, and      *)
(* IsChanged compares it with the time when it is asked.                   *)
(***************************************************************************)
EXTENDS Document

VARIABLE saved \* `mySaveTime`, and what the document held then

SavedInit == /\ Init
             /\ saved = [time |-> 0, contents |-> Nothing]

\* The document is stored when no command is open.
SetSaved == /\ ~Opened(doc)
            /\ saved' = [time |-> doc.data.time, contents |-> Visible(doc.data)]
            /\ UNCHANGED doc

IsChanged == doc.data.time # saved.time

SavedNext == (Next /\ UNCHANGED saved) \/ SetSaved

SavedSpec == SavedInit /\ [][SavedNext]_<<doc, saved>>

\* A document that differs from the state of its last saving says so
\* (TDocStd_Document.lxx:36), so that it is not closed without being saved.
ChangesAreTold ==
    ~Opened(doc) /\ Visible(doc.data) # saved.contents => IsChanged
=============================================================================
