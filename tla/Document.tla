------------------------------ MODULE Document ------------------------------
(***************************************************************************)
(* TDocStd_Document: commands, undo and redo over a data framework.        *)
(*                                                                         *)
(* The application opens commands, edits the attributes inside them,       *)
(* commits or aborts them, undoes and redoes, limits, clears and compacts  *)
(* the stored deltas.  In the nested mode commands open inside commands:   *)
(* the document closes the framework's transaction when an inner command   *)
(* opens and keeps what it did in a compound delta, one per open command.  *)
(*                                                                         *)
(* Bounds: MaxTime (edits stop when the framework's time reaches it),      *)
(* MaxDepth (open commands), Objects (attributes that exist, or that a     *)
(* delta keeps).                                                           *)
(***************************************************************************)
EXTENDS DataFramework, SequencesExt

CONSTANTS Modes,    \* of SetNestedTransactionMode: a subset of BOOLEAN
          Denials,  \* of SetModificationMode: a subset of BOOLEAN
          Limits,   \* arguments of SetUndoLimit
          Careful,  \* whether the application avoids what compounds lose
          MaxTime, MaxDepth

ASSUME DocumentAssumption ==
    /\ Modes \subseteq BOOLEAN
    /\ Denials \subseteq BOOLEAN
    /\ Limits \subseteq Int
    /\ Careful \in BOOLEAN
    /\ MaxTime \in Nat
    /\ MaxDepth \in Nat \ {0}

VARIABLE doc \* the document's fields, `data` being its framework

Opened(D) == D.data.transaction = 1

\* `(L > 0) ? L : 0`
Clamped(L) == IF L > 0 THEN L ELSE 0

\* A new document whose modes, and perhaps limit, have been set.
Init == \E nested \in Modes, only \in Denials, limit \in Limits :
  /\ nested => limit > 0
  /\ doc = [data |-> [NewData EXCEPT !.allow = ~only], undos |-> << >>,
            redos |-> << >>, filo |-> << >>, limit |-> Clamped(limit),
            nested |-> nested, only |-> only, from |-> FALSE, fromRedo |-> FALSE]

-----------------------------------------------------------------------------
(* The parts of the handlers.                                              *)

Allow(D)  == [D EXCEPT !.data.allow = TRUE]
\* "deny modifications if the transaction is not opened"
Deny(D)   == IF D.only THEN [D EXCEPT !.data.allow = Opened(D) /\ D.limit # 0] ELSE D

WithData(D, d) == [D EXCEPT !.data = d]
Begun(D)  == WithData(D, OpenTransaction(D.data))

\* `AppendDeltaToTheFirst`: of each slot only what the first delta did first.
AppendDelta(first, second) ==
    IF second.parts = {} THEN first
    ELSE [first EXCEPT !.end = second.end,
              !.parts = @ \cup {p \in second.parts : \A q \in @ : q.slot # p.slot}]

\* A new undo at the end of the list, over the limit the oldest one dropped;
\* a compaction that starts from that one starts from the next, if any.
Pushed(D, delta) ==
    LET us == Append(D.undos, delta)
        first == us[1]
        rest  == Tail(us)
        moved == [rest EXCEPT ![1].mark = TRUE]
        clear == [D EXCEPT !.redos = << >>] IN
    IF Len(us) <= D.limit THEN [clear EXCEPT !.undos = us]
    ELSE IF ~first.mark \/ ~D.from THEN [clear EXCEPT !.undos = rest]
    ELSE IF Len(rest) = 1
    THEN [clear EXCEPT !.undos = rest, !.from = FALSE, !.fromRedo = FALSE]
    ELSE [clear EXCEPT !.undos = moved]

\* `CommitTransaction` in the nested mode: the innermost command's delta goes
\* to the one around it, whose transaction opens again, or to the undos.
PassedOn(D, delta) ==
    IF D.filo # << >> THEN Begun([D EXCEPT !.filo[1] = AppendDelta(@, delta)])
    ELSE IF delta.parts = {} THEN D
    ELSE [D EXCEPT !.undos = Append(@, delta), !.redos = << >>]

CommitNested(D, done) ==
    PassedOn(WithData([D EXCEPT !.filo = Tail(@)], done.data),
             AppendDelta(D.filo[1], done.delta))

CommitFlat(D, done) ==
    IF D.limit = 0 \/ ~Opened(D) THEN D
    ELSE IF done.delta.parts = {} THEN WithData(D, done.data)
    ELSE Pushed(WithData(D, done.data), done.delta)

Closing(D, done) == IF D.nested /\ Opened(D) THEN CommitNested(D, done) ELSE CommitFlat(D, done)

CommitTransaction(D) == Deny(Closing(Allow(D), Commit(D.data)))

\* `AbortTransaction`: the framework's transaction, ...
Dropped(D) == IF Opened(D) /\ D.limit # 0 THEN WithData(D, Abort(D.data)) ELSE D

\* ... and in the nested mode the compound delta of what the innermost
\* command did before, after which the transaction around it opens again.
Reverted(D) ==
    IF D.filo[1].parts # {} /\ IsApplicable(D.data, D.filo[1])
    THEN WithData(D, Undo(D.data, D.filo[1]).data) ELSE D

Left(D) == IF D.filo = << >> THEN D ELSE Begun(D)

AbortNested(D) ==
    IF D.nested /\ D.filo # << >> THEN Left([Reverted(D) EXCEPT !.filo = Tail(@)]) ELSE D

AbortTransaction(D) == Deny(AbortNested(Dropped(Allow(D))))

\* `OpenTransaction`.
Suspended(D, done) ==
    IF Opened(D) THEN WithData([D EXCEPT !.filo[1] = AppendDelta(@, done.delta)], done.data)
    ELSE D

Nested(D, back) ==
    LET time == IF D.filo = << >> THEN D.data.time ELSE D.filo[1].end
    IN [D EXCEPT !.filo = <<[NullDelta EXCEPT !.begin = time, !.end = time,
                                              !.back = back]>> \o @]

OpenNested(D) ==
    IF D.nested THEN Nested(Suspended(D, Commit(D.data)), Visible(D.data)) ELSE D

Started(D) == IF D.limit # 0 THEN Begun(D) ELSE D

OpenDocument(D) == Deny(Started(OpenNested(Allow(D))))

\* The open commands.
Depth(D) == IF D.nested THEN Len(D.filo) ELSE D.data.transaction

\* `Undo` and `Redo` first abort what is open, nested commands too.
AllAborted(D) ==
    LET f[k \in 0..(Len(D.filo) + 1)] ==
            IF k = 0 THEN D
            ELSE IF k = 1 \/ f[k - 1].filo # << >> THEN AbortTransaction(f[k - 1])
            ELSE f[k - 1]
    IN f[Len(D.filo) + 1]

\* The framework without what is open, and the delta that takes the step
\* back.  The framework returns a null delta, which both dereference, when
\* the delta does not apply at its time.
Step(d, delta) ==
    IF IsApplicable(d, delta) THEN Undo(d, delta)
    ELSE [data |-> [d EXCEPT !.fault = "null"], delta |-> NullDelta]

Stepped(D, delta) == Step(Allow(D).data, delta)

Reopened(D, opened) == Deny(IF opened THEN OpenDocument(D) ELSE D)

ToRedos(D, step) ==
    [WithData(D, step.data) EXCEPT !.undos = Front(@), !.redos = <<step.delta>> \o @]

ToUndos(D, step) ==
    [WithData(D, step.data) EXCEPT !.undos = Append(@, step.delta), !.redos = Tail(@)]

Undid(D) == ToRedos(D, Stepped(D, Last(D.undos)))
Redid(D) == ToUndos(D, Stepped(D, Head(D.redos)))

UndoStep(D) == Reopened(Undid(AllAborted(D)), Opened(D))
RedoStep(D) == Reopened(Redid(AllAborted(D)), Opened(D))

-----------------------------------------------------------------------------
(* Attribute objects live while a label or a delta holds their handle.     *)

Deltas(D) == Range(D.undos) \cup Range(D.redos) \cup Range(D.filo)
Held(D) == {o \in Objects : D.data.attr[o].on}
           \cup {p.obj : p \in UNION {delta.parts : delta \in Deltas(D)}}

\* A call that ends in an exception is the last one modelled.
Become(D) ==
    /\ doc.data.fault = "none"
    /\ doc' = [D EXCEPT !.data.attr =
                 [o \in Objects |-> IF o \in Held(D) THEN @[o] ELSE NoAttribute]]

-----------------------------------------------------------------------------
(* The application's calls.  Edits are made inside commands.               *)

Editing == Opened(doc) /\ doc.data.time < MaxTime

\* What an open command did before and a compound delta would lose: the
\* forgetting or the adding of an attribute after a change of its slot.
Loses(s) == \E delta \in Range(doc.filo) : \E p \in delta.parts :
                p.slot = s /\ p.kind # "addition"

AddAttribute(s, v) ==
    /\ Editing
    /\ Find(doc.data, s) = {}
    /\ Careful => ~Loses(s)
    /\ Objects \ Held(doc) # {}
    /\ LET o == Min(Objects \ Held(doc))
           d == [doc.data EXCEPT !.attr[o] = [NoAttribute EXCEPT !.slot = s, !.val = v]]
       IN Become(WithData(doc, AddTo(d, o)))

Change(s, v) ==
    /\ Editing
    /\ \E o \in Find(doc.data, s) :
        /\ doc.data.attr[o].val # v
        /\ Become(WithData(doc, Modify(doc.data, o, v)))

ForgetAttribute(s) ==
    /\ Editing
    /\ Careful => ~Loses(s)
    /\ \E o \in Find(doc.data, s) : Become(WithData(doc, Forget(doc.data, o)))

OpenCommand == /\ doc.nested \/ ~Opened(doc)
               /\ Depth(doc) < MaxDepth
               /\ Become(OpenDocument(doc))

CommitCommand == Opened(doc) /\ Become(CommitTransaction(doc))

NewCommand == Become(OpenDocument(CommitTransaction(doc)))

AbortCommand == Depth(doc) > 0 /\ Become(AbortTransaction(doc))

UndoCommand == doc.undos # << >> /\ Become(UndoStep(doc))

RedoCommand == doc.redos # << >> /\ Become(RedoStep(doc))

\* The oldest undos over the limit are dropped.
Limited(D) ==
    LET over == IF Len(D.undos) > D.limit THEN Len(D.undos) - D.limit ELSE 0
    IN [D EXCEPT !.undos = SubSeq(@, over + 1, Len(@))]

\* The nested mode is used with undo enabled.
SetUndoLimit(L) ==
    /\ doc.nested => L > 0
    /\ LET D == CommitTransaction([doc EXCEPT !.from = FALSE, !.fromRedo = FALSE])
       IN Become(Deny(Limited([D EXCEPT !.limit = Clamped(L)])))

ClearUndos == Become([doc EXCEPT !.undos = << >>, !.redos = << >>,
                                 !.from = FALSE, !.fromRedo = FALSE])

ClearRedos == Become([doc EXCEPT !.redos = << >>, !.fromRedo = FALSE])

RemoveFirstUndo == doc.undos # << >> /\ Become([doc EXCEPT !.undos = Tail(@)])

Unmarked(ds) == [i \in DOMAIN ds |-> [ds[i] EXCEPT !.mark = FALSE]]

InitDeltaCompaction ==
    LET us == Unmarked(doc.undos)
        rs == Unmarked(doc.redos)
        D  == [doc EXCEPT !.undos = us, !.redos = rs, !.from = FALSE, !.fromRedo = FALSE]
    IN Become(
        IF doc.limit = 0 \/ us = << >> THEN D
        ELSE [D EXCEPT !.undos[Len(us)].mark = TRUE, !.from = TRUE,
                       !.redos = IF rs = << >> THEN rs ELSE [rs EXCEPT ![1].mark = TRUE],
                       !.fromRedo = rs # << >>])

\* The undo marked, or the end of the list.
Marked(ds) == LET I == {i \in DOMAIN ds : ds[i].mark} IN
              IF I = {} THEN Len(ds) ELSE Min(I)

\* Undoing only the first change of a slot undoes the others if it was an
\* addition or they were modifications.
Mergeable(ds) ==
    \A i, j \in DOMAIN ds : i <= j =>
        \A p \in ds[i].parts, q \in ds[j].parts :
            p # q /\ p.slot = q.slot => q.kind = "modification"

\* For each slot one part, of the first delta about it.
FirstParts(ds, S) ==
    {P \in SUBSET UNION {ds[i].parts : i \in DOMAIN ds} :
        \A s \in S :
            LET first == Min({i \in DOMAIN ds : \E p \in ds[i].parts : p.slot = s})
                here  == {p \in P : p.slot = s}
            IN Cardinality(here) = 1 /\ here \subseteq ds[first].parts}

PerformDeltaCompaction ==
    /\ doc.from
    /\ LET m      == Marked(doc.undos)
           merged == SubSeq(doc.undos, m + 1, Len(doc.undos))
           S      == {p.slot : p \in UNION {ds.parts : ds \in Range(merged)}}
           times  == IF merged = << >> THEN NullDelta
                     ELSE [NullDelta EXCEPT !.begin = merged[1].begin, !.end = Last(merged).end,
                                        !.back = merged[1].back]
           rs     == IF doc.fromRedo THEN SubSeq(doc.redos, 1, Marked(doc.redos)) ELSE << >>
       IN /\ Careful => merged # << >> /\ Mergeable(merged)
          /\ \E P \in FirstParts(merged, S) :
                Become([doc EXCEPT !.redos = rs,
                    !.undos = Append(SubSeq(doc.undos, 1, m), [times EXCEPT !.parts = P])])

Next == \/ \E s \in Slots, v \in Values : AddAttribute(s, v) \/ Change(s, v)
        \/ \E s \in Slots : ForgetAttribute(s)
        \/ OpenCommand \/ CommitCommand \/ NewCommand \/ AbortCommand
        \/ UndoCommand \/ RedoCommand
        \/ \E L \in Limits : SetUndoLimit(L)
        \/ ClearUndos \/ ClearRedos \/ RemoveFirstUndo
        \/ InitDeltaCompaction \/ PerformDeltaCompaction

Spec == Init /\ [][Next]_doc

-----------------------------------------------------------------------------
(* What UndoStack says an open command, an undo or a redo brings back is   *)
(* what the document held when the command, or the step taken back, began. *)

Promise == INSTANCE UndoStack WITH
    Empty    <- Nothing,
    contents <- Visible(doc.data),
    open     <- IF doc.nested THEN [i \in 1..Depth(doc) |-> Reverse(doc.filo)[i].back]
                ELSE [i \in 1..Depth(doc) |-> doc.data.was],
    undos    <- [i \in DOMAIN doc.undos |-> doc.undos[i].back],
    redos    <- [i \in DOMAIN doc.redos |-> doc.redos[i].back]

-----------------------------------------------------------------------------

Delta == [begin : Nat, end : Nat, parts : SUBSET AttributeDelta, back : Contents,
          mark : BOOLEAN]

TypeOK == /\ doc.data \in Framework
          /\ \A delta \in Deltas(doc) : delta \in Delta
          /\ doc.limit \in Nat
          /\ {doc.nested, doc.only, doc.from, doc.fromRedo} \subseteq BOOLEAN

\* Undoing, redoing and aborting never fail: no attribute is added where one
\* of its ID is, nothing is changed where changes are denied, and the delta
\* always applies (TDocStd_Document::Undo, Redo, AbortTransaction).
NeverFails == doc.data.fault = "none"

\* When no command is open nothing of a transaction is left in the framework:
\* the flags that let a commit skip labels never hide a touched attribute.
NothingLeftOpen ==
    /\ TypeOK
    /\ ~Opened(doc) => \A o \in Objects :
          doc.data.attr[o].on => /\ doc.data.attr[o].trans = 0
                                 /\ doc.data.attr[o].backup = None
                                 /\ ~doc.data.attr[o].forgotten

\* Undo and redo never throw: FixOrder is there "to perform undo/redo without
\* exceptions" (TDF_Data.hxx:155).
UndoWithoutExceptions == doc.data.fault # "thrown"

\* Undo does a step whenever one is stored (TDocStd_Document.hxx:156): it is
\* never left with the null delta of a step that does not apply.
UndoneWhenStored == doc.data.fault # "null"

\* The document keeps UndoStack's promise.
PromiseKept == Promise!Spec
=============================================================================
