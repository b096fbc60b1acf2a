--------------------------- MODULE DataFramework ---------------------------
(***************************************************************************)
(* TDF_Data: the tree of labels that holds a document's attributes, and    *)
(* its transaction.  A framework is a record                               *)
(*                                                                         *)
(*   attr         for each attribute object (a handle) its slot, whether   *)
(*                it is attached to its label, whether it is marked        *)
(*                forgotten, the transaction of its last change, its value *)
(*                and its backup                                           *)
(*   transaction  1 while a transaction is open: the document opens one    *)
(*   begin, time  `myTimes.First()` and `myTime`                           *)
(*   allow        `myAllowModification`                                    *)
(*   attMod, mayMod   the flags AttributesModified and MayBeModified of    *)
(*                the label nodes, which let a commit skip what was not    *)
(*                touched                                                  *)
(*   was          what the document held when the transaction opened       *)
(*   fault        "none", or why the last call did not return: an         *)
(*                exception, or a null delta dereferenced                  *)
(*                                                                         *)
(* and the operations below are functions from frameworks to frameworks.   *)
(* A slot is a label and an ID: an attribute object is only ever attached  *)
(* to the label it was created for.  The order of the attributes on a      *)
(* label is left out, and with it the order of a delta's parts, which are  *)
(* about different slots except where FixOrder puts removals last.  `was`  *)
(* and the `back` of a delta are not in the code: they remember what       *)
(* contents a delta ought to bring back.                                   *)
(***************************************************************************)
EXTENDS Naturals, FiniteSetsExt

CONSTANTS Labels, Root, Father, \* the tree: Father is defined below Root
          Slots,                \* pairs of a label and an attribute's ID
          Values,               \* what an attribute may hold
          Objects,              \* attribute objects, as numbers
          None                  \* no value, no backup, no object

ASSUME TreeAssumption ==
    /\ Root \in Labels
    /\ Father \in [Labels \ {Root} -> Labels]
    /\ \A S \in SUBSET Labels : S # {} => \E l \in S : l = Root \/ Father[l] \notin S
    /\ Slots \subseteq Labels \X Nat
    /\ Objects \subseteq Nat /\ IsFiniteSet(Objects)
    /\ None \notin Values \cup Objects /\ None \notin Slots

Attribute == [slot : Slots \cup {None}, on : BOOLEAN, forgotten : BOOLEAN,
              trans : 0..1, val : Values \cup {None}, backup : Values \cup {None}]

AttributeDelta ==
    [kind : {"addition", "modification", "removal"}, slot : Slots,
     obj : Objects \cup {None}, val : Values \cup {None}]

Contents == [Slots -> Values \cup {None}]
Nothing  == [s \in Slots |-> None]

Framework == [attr : [Objects -> Attribute], transaction : 0..1, begin : Nat,
              time : Nat, allow : BOOLEAN, attMod : [Labels -> BOOLEAN],
              mayMod : [Labels -> BOOLEAN], was : Contents,
              fault : {"none", "thrown", "null"}]

NoAttribute == [slot |-> None, on |-> FALSE, forgotten |-> FALSE, trans |-> 0,
                val |-> None, backup |-> None]

NewData == [attr |-> [o \in Objects |-> NoAttribute], transaction |-> 0,
            begin |-> 0, time |-> 0, allow |-> TRUE,
            attMod |-> [l \in Labels |-> FALSE],
            mayMod |-> [l \in Labels |-> FALSE], was |-> Nothing, fault |-> "none"]

-----------------------------------------------------------------------------
(* Labels.                                                                 *)

\* `FindAttribute`: the attribute of that ID that is not forgotten.
Find(d, s) == {o \in Objects : d.attr[o].on /\ d.attr[o].slot = s
                               /\ ~d.attr[o].forgotten}

\* What a reader of the document sees in each slot.
Visible(d) == [s \in Slots |->
    IF Find(d, s) = {} THEN None ELSE d.attr[CHOOSE o \in Find(d, s) : TRUE].val]

\* Of the faulty forms, as a plausible bug would write them, no action uses one.
FaultyMarks(mayMod, l) == {l}

\* `AllMayBeModified`: the labels it marks, up to an ancestor that is marked.
Marks(mayMod, l) ==
    LET up[n \in Labels] ==
            {n} \cup IF n = Root \/ mayMod[Father[n]] THEN {} ELSE up[Father[n]]
    IN up[l]

\* `AttributesModified(true)` on the label of a slot.
Touch(d, s) ==
    [d EXCEPT !.attMod[s[1]] = TRUE,
              !.mayMod = [l \in Labels |-> @[l] \/ l \in Marks(@, s[1])]]

Throw(d) == [d EXCEPT !.fault = "thrown"]

\* `AddToNode`, of an attribute that is not attached.
AddTo(d, o) ==
    LET s == d.attr[o].slot IN
    IF ~d.allow \/ Find(d, s) # {} THEN Throw(d)
    ELSE LET added == [d EXCEPT !.attr[o] =
                 [@ EXCEPT !.on = TRUE, !.forgotten = FALSE, !.trans = d.transaction]]
         IN IF d.transaction = 0 THEN [added EXCEPT !.attMod[s[1]] = FALSE]
            ELSE Touch(added, s)

\* `RemoveAttribute`: the object keeps its value, deltas may refer to it.
Detach(a) == [a EXCEPT !.on = FALSE, !.forgotten = FALSE, !.trans = 0]

\* `ForgetFromNode`: the attribute disappears if no transaction is open or
\* this one created it; otherwise it is only marked, until the commit.
Forget(d, o) ==
    LET a == d.attr[o] IN
    IF ~d.allow THEN Throw(d)
    ELSE IF d.transaction = 0 \/ (a.trans = d.transaction /\ a.backup = None)
    THEN [d EXCEPT !.attr[o] = Detach(@)]
    ELSE Touch([d EXCEPT !.attr[o] =
                   [@ EXCEPT !.forgotten = TRUE, !.trans = d.transaction]], a.slot)

\* `Backup`, which keeps the value an attribute has when a transaction first
\* changes it, and the change itself.
Modify(d, o, v) ==
    LET a == d.attr[o] IN
    IF ~d.allow THEN Throw(d)
    ELSE IF a.trans < d.transaction
    THEN Touch([d EXCEPT !.attr[o] =
             [@ EXCEPT !.backup = a.val, !.trans = d.transaction, !.val = v]], a.slot)
    ELSE [d EXCEPT !.attr[o].val = v]

-----------------------------------------------------------------------------
(* Deltas: what undoes a transaction.                                      *)

NullDelta == [begin |-> 0, end |-> 0, parts |-> {}, back |-> Nothing, mark |-> FALSE]

Part(kind, s, o, v) == [kind |-> kind, slot |-> s, obj |-> o, val |-> v]

\* `Apply` of one part: undo an addition, a modification, a removal.
ApplyPart(d, p) ==
    LET found == Find(d, p.slot) IN
    IF d.fault # "none" THEN d
    ELSE IF p.kind = "removal" THEN AddTo(d, p.obj)
    ELSE IF found = {} THEN d
    ELSE IF p.kind = "addition" THEN Forget(d, CHOOSE o \in found : TRUE)
    ELSE Modify(d, CHOOSE o \in found : TRUE, p.val)

ApplyAll(d, parts) == FoldSet(LAMBDA p, e : ApplyPart(e, p), d, parts)

Removals(parts) == {p \in parts : p.kind = "removal"}

FaultyApply(d, parts) == ApplyAll(ApplyAll(d, Removals(parts)), parts \ Removals(parts))

\* `FixOrder` and `Apply`: removals, whose undoing adds, come last.
Apply(d, parts) == ApplyAll(ApplyAll(d, parts \ Removals(parts)), Removals(parts))

-----------------------------------------------------------------------------
(* Transactions.                                                           *)

OpenTransaction(d) == [d EXCEPT !.transaction = 1, !.begin = d.time, !.was = Visible(d)]

\* The labels a commit visits, and the attributes it finds touched there.
Reached(d) ==
    LET reached[l \in Labels] == d.mayMod[l] /\ (l = Root \/ reached[Father[l]])
    IN {l \in Labels : reached[l]}

Touched(d) == {o \in Objects : /\ d.attr[o].on
                               /\ d.attr[o].trans = d.transaction
                               /\ d.attr[o].slot[1] \in Reached(d)
                               /\ d.attMod[d.attr[o].slot[1]]}

FaultyClosed(a) == IF a.forgotten THEN [Detach(a) EXCEPT !.backup = None]
                   ELSE [a EXCEPT !.trans = 0, !.backup = None]

\* An attribute modified, then forgotten, is removed with its former value.
Closed(a) == IF a.forgotten
             THEN [Detach(a) EXCEPT !.backup = None,
                                    !.val = IF a.backup = None THEN @ ELSE a.backup]
             ELSE [a EXCEPT !.trans = 0, !.backup = None]

PartOf(o, a) == IF a.forgotten THEN Part("removal", a.slot, o, None)
                ELSE IF a.backup = None THEN Part("addition", a.slot, None, None)
                ELSE Part("modification", a.slot, None, a.backup)

\* What a commit that touched these attributes and visited these labels
\* makes of the framework, and its delta; a label where a new attribute was
\* removed stays flagged.
Committed(d, touched, visited) ==
    LET parts == {PartOf(o, d.attr[o]) : o \in touched}
        dirty == {d.attr[o].slot[1] : o \in {t \in touched :
                     d.attr[t].forgotten /\ d.attr[t].backup = None}}
        kept  == [l \in Labels |-> d.mayMod[l] /\ l \notin visited]
        time  == IF touched = {} THEN d.time ELSE d.time + 1
    IN [data  |-> [d EXCEPT
            !.attr = [o \in Objects |-> IF o \in touched THEN Closed(@[o]) ELSE @[o]],
            !.attMod = [l \in Labels |-> IF l \in visited THEN l \in dirty ELSE @[l]],
            !.mayMod = [l \in Labels |-> kept[l] \/ \E m \in dirty : l \in Marks(kept, m)],
            !.time = time,
            !.was = Nothing,
            !.begin = 0,
            !.transaction = 0],
        delta |-> IF touched = {} THEN NullDelta
                  ELSE [NullDelta EXCEPT !.begin = d.begin, !.end = time,
                                         !.parts = parts, !.back = d.was]]

\* `CommitTransaction(true)`.
Commit(d) == Committed(d, Touched(d), Reached(d))

IsApplicable(d, delta) == delta.end = d.time

\* `Undo(delta, true)` of an applicable delta: it is applied in a transaction
\* whose delta undoes it.
Undone(d, delta, done) ==
    [data  |-> [done.data EXCEPT !.time = delta.begin],
     delta |-> [done.delta EXCEPT !.begin = delta.end, !.end = delta.begin,
                                  !.back = Visible(d)]]

Undo(d, delta) == Undone(d, delta, Commit(Apply(OpenTransaction(d), delta.parts)))

\* `AbortTransaction`: commit, and undo what was committed.
Aborted(done) ==
    IF ~IsApplicable(done.data, done.delta) THEN done.data
    ELSE [Apply(done.data, done.delta.parts) EXCEPT !.time = done.delta.begin]

Abort(d) == Aborted(Commit(d))
=============================================================================
