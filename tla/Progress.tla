------------------------------ MODULE Progress ------------------------------
(***************************************************************************)
(* Message_ProgressIndicator, Message_ProgressScope, Message_ProgressRange *)
(* (src/src/FoundationClasses/TKernel/Message): an indicator's scale is    *)
(* handed out in ranges; a range is made into a scope, which hands out     *)
(* ranges of its own, or advances the indicator by its length when it is   *)
(* closed or destroyed.                                                    *)
(*                                                                         *)
(* The scale [0, 1] is 0 .. Whole; a local position is rounded down to it. *)
(* A scope is used by one thread at a time and Increment is under a mutex, *)
(* so a call is one action whatever thread makes it.                       *)
(***************************************************************************)
EXTENDS Naturals, FiniteSets

CONSTANTS
    Whole,       \* the length of the scale
    RangeSlots,  \* bound: Message_ProgressRange objects alive at a time
    ScopeSlots,  \* bound: Message_ProgressScope objects besides the root
    Root,        \* myRootScope
    Nothing,     \* no object, the null myParentScope
    Maxes,       \* values of theMax
    Laws,        \* values of isInfinite
    Steps,       \* values of theStep
    MaxValue,    \* bound: a scope's local value
    MaxStarts    \* bound: calls of Start

Scopes == ScopeSlots \cup {Root}

\* Objects; the scale's length bounds the parts they answer for.
RangeType == [parent : Scopes \cup {Nothing}, start : 0 .. Whole, delta : 0 .. Whole,
              wasUsed : BOOLEAN]
ScopeType == [parent : Scopes \cup {Nothing}, start : 0 .. Whole, portion : 0 .. Whole,
              max : Nat \ {0}, value : 0 .. MaxValue, infinite : BOOLEAN, active : BOOLEAN]

ASSUME ProgressAssumption ==
    /\ {Whole, MaxValue} \subseteq Nat \ {0} /\ MaxStarts \in Nat
    /\ Root \notin ScopeSlots
    /\ Nothing \notin Scopes /\ Nothing \notin RangeType /\ Nothing \notin ScopeType
    /\ Maxes \subseteq Nat \ {0} /\ Steps \subseteq Nat \ {0}
    /\ Laws \subseteq BOOLEAN

VARIABLES
    position,    \* myPosition
    range,       \* Nothing, or the range object in each slot
    scope,       \* Nothing, or the scope object in each slot
    starts,
    dropped      \* history: the length of the ranges that were assigned over

vars == <<position, range, scope, starts, dropped>>

Init ==
    /\ position = 0
    /\ range = [r \in RangeSlots |-> Nothing]
    /\ scope = [s \in Scopes |->
                   IF s = Root THEN [parent |-> Nothing, start |-> 0, portion |-> Whole,
                                     max |-> 1, value |-> 0, infinite |-> FALSE,
                                     active |-> TRUE]
                   ELSE Nothing]
    /\ starts = 0 /\ dropped = 0

Live(slots) == {x \in DOMAIN slots : slots[x] # Nothing}

\* The ranges that have yet to advance the indicator, and the scopes.
IsActive(r) == range[r] # Nothing /\ range[r].parent # Nothing /\ ~range[r].wasUsed
Armed == {r \in RangeSlots : IsActive(r)}
Active == {s \in Live(scope) : scope[s].active}

-----------------------------------------------------------------------------
(* Faulty forms of the operators below, as a plausible bug would write     *)
(* them; no action uses one.                                               *)

FaultylocalToGlobal(s, v) ==
    IF s.infinite THEN (s.portion * v) \div (v + s.max) ELSE (s.portion * v) \div s.max
FaultyPart(s, from, to) ==
    [parent |-> s, start |-> scope[s].start, delta |-> to - from, wasUsed |-> FALSE]

\* The linear law stops at the scope's portion, the hyperbola never gets there.
localToGlobal(s, v) ==
    IF s.infinite THEN (s.portion * v) \div (v + s.max)
    ELSE IF v >= s.max THEN s.portion ELSE (s.portion * v) \div s.max

\* The range Next returns for the part between two local positions; an empty
\* one when nothing lies between.
Part(s, from, to) ==
    [parent |-> s, start |-> scope[s].start + from, delta |-> to - from, wasUsed |-> FALSE]
IsPart(from, to) == to > from
EmptyRange == [parent |-> Nothing, start |-> 0, delta |-> 0, wasUsed |-> FALSE]

Used(rg) == [rg EXCEPT !.wasUsed = TRUE]

Incremented(step) == IF position + step > Whole THEN Whole ELSE position + step

\* What Close of a scope advances by.
Rest(s) == s.portion - localToGlobal(s, s.value)

-----------------------------------------------------------------------------
(* Operations.                                                             *)

\* Start is for the top level: nothing of an earlier start is in use.
Start(r) ==
    /\ starts < MaxStarts /\ starts' = starts + 1 /\ dropped' = 0
    /\ Armed = {} /\ Active = {Root} /\ range[r] = Nothing
    /\ position' = 0
    /\ scope' = [scope EXCEPT ![Root].value = 1]
    /\ range' = [range EXCEPT ![r] = Part(Root, 0, localToGlobal(scope[Root], 1))]

Next(s, step, r) ==
    /\ s \in Live(scope) \ {Root} /\ range[r] = Nothing
    /\ scope[s].value + step <= MaxValue
    /\ LET from == localToGlobal(scope[s], scope[s].value)
           to   == localToGlobal(scope[s], scope[s].value + step)
       IN IF scope[s].active
          THEN /\ scope' = [scope EXCEPT ![s].value = @ + step]
               /\ range' = [range EXCEPT ![r] =
                               IF IsPart(from, to) THEN Part(s, from, to) ELSE EmptyRange]
          ELSE /\ range' = [range EXCEPT ![r] = EmptyRange]
               /\ UNCHANGED scope
    /\ UNCHANGED <<position, starts, dropped>>

\* Passing a range by value.
CopyRange(r, copy) ==
    /\ r \in Live(range) /\ range[copy] = Nothing
    /\ range' = [range EXCEPT ![copy] = range[r], ![r] = Used(@)]
    /\ UNCHANGED <<position, scope, starts, dropped>>

\* The range that is assigned to is not closed first.
AssignRange(r, other) ==
    /\ {r, other} \subseteq Live(range) /\ r # other
    /\ dropped' = IF IsActive(r) THEN dropped + range[r].delta ELSE dropped
    /\ range' = [range EXCEPT ![r] = range[other], ![other] = Used(@)]
    /\ UNCHANGED <<position, scope, starts>>

\* A scope made of a range that was used, or of an empty one, is not active.
NewScope(r, s, max, infinite) ==
    /\ r \in Live(range) /\ s # Root /\ scope[s] = Nothing
    /\ scope' = [scope EXCEPT ![s] =
                    [parent |-> range[r].parent, start |-> range[r].start,
                     portion |-> range[r].delta, max |-> max, value |-> 0,
                     infinite |-> infinite, active |-> IsActive(r)]]
    /\ range' = [range EXCEPT ![r] = Used(@)]
    /\ UNCHANGED <<position, starts, dropped>>

\* The destructor of a range.
CloseRange(r) ==
    /\ r \in Live(range)
    /\ position' = IF IsActive(r) THEN Incremented(range[r].delta) ELSE position
    /\ range' = [range EXCEPT ![r] = Nothing]
    /\ UNCHANGED <<scope, starts, dropped>>

\* A closed scope's local value, set to its end, is not read again.
CloseScope(s) ==
    /\ s \in Active \ {Root}
    /\ position' = IF Rest(scope[s]) > 0 THEN Incremented(Rest(scope[s])) ELSE position
    /\ scope' = [scope EXCEPT ![s].active = FALSE]
    /\ UNCHANGED <<range, starts, dropped>>

\* The destructor of a scope that is closed: nothing refers to it any more.
DropScope(s) ==
    /\ s \in Live(scope) \ Active
    /\ \A r \in Live(range) : range[r].parent # s
    /\ \A t \in Live(scope) : scope[t].parent # s
    /\ scope' = [scope EXCEPT ![s] = Nothing]
    /\ UNCHANGED <<position, range, starts, dropped>>

-----------------------------------------------------------------------------

Operation ==
    \/ \E r \in RangeSlots : Start(r) \/ CloseRange(r)
    \/ \E s \in ScopeSlots, step \in Steps, r \in RangeSlots : Next(s, step, r)
    \/ \E r, other \in RangeSlots : CopyRange(r, other) \/ AssignRange(r, other)
    \/ \E r \in RangeSlots, s \in ScopeSlots, max \in Maxes, infinite \in Laws :
          NewScope(r, s, max, infinite)
    \/ \E s \in ScopeSlots : CloseScope(s) \/ DropScope(s)

Spec == Init /\ [][Operation]_vars

-----------------------------------------------------------------------------
(* Properties.                                                             *)

TypeOK ==
    /\ {position, dropped} \subseteq 0 .. Whole
    /\ \A r \in Live(range) : range[r] \in RangeType
    /\ \A s \in Live(scope) : scope[s] \in ScopeType
    /\ \A r \in Armed : range[r].delta > 0

\* The part of the scale an armed range or an active scope answers for, as
\* the places between two points that it covers.
RangePart(r) == range[r].start .. range[r].start + range[r].delta - 1
ScopePart(s) ==
    scope[s].start + localToGlobal(scope[s], scope[s].value)
        .. scope[s].start + scope[s].portion - 1

\* No two objects answer for the same part of the scale, in whatever order
\* scopes and ranges are handed out, copied and closed (myStart, myWasUsed).
PartsApart ==
    /\ TypeOK
    /\ \A r, q \in Armed : r # q => RangePart(r) \cap RangePart(q) = {}
    /\ \A s, t \in Active : s # t => ScopePart(s) \cap ScopePart(t) = {}
    /\ \A r \in Armed, s \in Active : RangePart(r) \cap ScopePart(s) = {}

\* What the indicator shows and what is still answered for make the whole
\* scale, ranges that were assigned over apart, which the indicator never
\* gets past: without them it is at the end exactly when all is closed, and
\* Increment never has to cut it off there.  The parts are apart, so that the
\* places they cover count what each object will advance the indicator by.
Answered == UNION ({RangePart(r) : r \in Armed} \cup {ScopePart(s) : s \in Active})

Conserved == position + Cardinality(Answered) + dropped = Whole

=============================================================================
