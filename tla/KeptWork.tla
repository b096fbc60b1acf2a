------------------------------ MODULE KeptWork ------------------------------
(***************************************************************************)
(* Kept computations and their recorded work (budget.rs `recorded` and     *)
(* `Recorded::replay`, and the caches that use them: the curved Booleans'  *)
(* ARRANGED and INNER, the validator's KEPT).                              *)
(*                                                                         *)
(* One thread runs one operation at a time.  An operation's code counts    *)
(* units and uses kept computations; a kept computation does the same, so  *)
(* they nest.  On a miss the computation runs with its units recorded; on  *)
(* a hit the record is charged again.  The budget, the recordings and the  *)
(* caches are thread-local: only a cancellation and the passing of the     *)
(* budget's deadline come from outside.                                    *)
(***************************************************************************)
EXTENDS Integers, Sequences, SequencesExt

CONSTANTS
    Ops,         \* the operations
    Keys,        \* the kept computations
    Stages,      \* the work-unit points
    Body,        \* [Ops \cup Keys -> Seq(Stages \cup Keys)], what each counts
                 \* and uses, in order: a function of its inputs
    CacheOf,     \* [Keys -> caches]
    Capacity,    \* [caches -> Nat], the entries a cache keeps
    Limits       \* the units a budget may be given

Start == "an operation's start"

Caches == {CacheOf[k] : k \in Keys}

ASSUME BodyAssumption ==
    /\ Body \in [Ops \cup Keys -> Seq(Stages \cup Keys)]
    /\ Capacity \in [Caches -> Nat \ {0}]
    /\ Limits \subseteq Nat
    /\ Start \notin Stages
    /\ Ops \cap Keys = {} /\ Stages \cap Keys = {}
    /\ CacheOf \in [Keys -> Caches]

\* A computation ends: none uses itself, however indirectly.
ASSUME EndsAssumption ==
    \A K \in SUBSET Keys :
        K # {} => \E k \in K : \A i \in DOMAIN Body[k] : Body[k][i] \notin K

\* The units an operation or a kept computation counts when nothing is kept.
Work[n \in Ops \cup Keys] ==
    FlattenSeq([i \in DOMAIN Body[n] |->
        IF Body[n][i] \in Keys THEN Work[Body[n][i]] ELSE <<Body[n][i]>>])

VARIABLES
    units, spent, refusal,   \* the budget
    token,       \* its token is cancelled
    installed,   \* the thread-local INSTALLED holds the budget
    recording,   \* the thread-local RECORDING, the innermost last
    armed,       \* the thread-local ARMED
    stack,       \* the calls in progress, the innermost last
    kept,        \* [Caches -> Seq(entry)], the oldest first
    result,      \* what the last operation returned
    before       \* history: the budget when the operation in progress began

vars == <<units, spent, refusal, token, installed, recording, armed, stack,
          kept, result, before>>

NotYet == [cause |-> "none"]

\* A call: what it still has to do, and whether a refused unit marred it.
Call(kind, name, rest, marred) ==
    [kind |-> kind, name |-> name, rest |-> rest, marred |-> marred]

Entry(k, marred, runs) == [key |-> k, marred |-> marred, runs |-> runs]

Top   == Last(stack)
Below == Front(stack)

Init ==
    /\ units \in Limits
    /\ spent = 0
    /\ refusal = NotYet
    /\ token = FALSE
    /\ installed = FALSE
    /\ recording = << >>
    /\ armed = FALSE
    /\ stack = << >>
    /\ kept = [c \in Caches |-> << >>]
    /\ result = "none"
    /\ before = [spent |-> 0, refusal |-> NotYet]

-----------------------------------------------------------------------------
(* The decisions of budget.rs, and beside them the Faulty forms a bug      *)
(* could give them, which no action uses.                                  *)

\* `rearm`: a unit counts under a budget or inside a recording.
Rearm(i, r) == i \/ r # << >>

\* One more run of units, joined to the last one of the same stage.
Joined(runs, run) ==
    IF runs # << >> /\ Last(runs).stage = run.stage
    THEN [runs EXCEPT ![Len(runs)].units = @ + run.units]
    ELSE Append(runs, run)

\* The units just charged, recorded by the innermost recording.
Noted(run) ==
    IF recording = << >> THEN recording
    ELSE [recording EXCEPT ![Len(recording)] = Joined(@, run)]

FaultyEnclosed == Front(recording)

\* A record with the runs of another one after it.
Extended(outer, inner) ==
    LET runs[i \in 0 .. Len(inner)] ==
            IF i = 0 THEN outer ELSE Joined(runs[i - 1], inner[i])
    IN runs[Len(inner)]

\* A recording ends: an enclosing one counts its units too.
Enclosed ==
    LET outer == Front(recording) IN
    IF outer = << >> THEN outer
    ELSE [outer EXCEPT ![Len(outer)] = Extended(@, Last(recording))]

FaultyClean == TRUE

\* `refused`, negated: the innermost budget has not refused.
Clean == ~(installed /\ refusal # NotYet)

\* The cache c with one more entry, its oldest dropped when it is full.
Stored(c, e) ==
    IF Len(kept[c]) >= Capacity[c] THEN Append(Tail(kept[c]), e)
    ELSE Append(kept[c], e)

\* What a hit charges again: nothing when no unit counts.
Replayed(runs) == IF armed THEN runs ELSE << >>

-----------------------------------------------------------------------------

\* `charge` under the installed budget, its outcome in ok.  The unit is
\* counted before the clock is read.  Any charge may be the first to find
\* the deadline passed: its refusal stands, so the clock is not read again.
Charge(run, ok) ==
    IF ~installed THEN ok /\ UNCHANGED <<spent, refusal>>
    ELSE \/ /\ refusal # NotYet
            /\ ~ok
            /\ UNCHANGED <<spent, refusal>>
         \/ /\ refusal = NotYet /\ token
            /\ ~ok
            /\ refusal' = [cause |-> "Cancelled", stage |-> run.stage,
                           work |-> spent]
            /\ UNCHANGED spent
         \/ /\ refusal = NotYet /\ ~token /\ spent + run.units > units
            /\ ~ok
            /\ spent' = units + 1
            /\ refusal' = [cause |-> "Work", stage |-> run.stage,
                           work |-> units + 1]
         \/ /\ refusal = NotYet /\ ~token /\ spent + run.units <= units
            /\ spent' = spent + run.units
            /\ \/ ok /\ UNCHANGED refusal
               \/ /\ ~ok
                  /\ refusal' = [cause |-> "WallTime", stage |-> run.stage,
                                 work |-> spent']

\* The innermost call goes on; once marred it may unwind at any point.
Onward(call, marred) ==
    {[call EXCEPT !.rest = r, !.marred = @ \/ marred] :
        r \in IF call.marred \/ marred THEN {Tail(call.rest), << >>}
              ELSE {Tail(call.rest)}}

\* Another thread cancels the token.
Cancel ==
    /\ ~token
    /\ token' = TRUE
    /\ UNCHANGED <<units, spent, refusal, installed, recording, armed, stack,
                   kept, result, before>>

\* The application makes a new budget of any of the limits.
NewBudget ==
    /\ stack = << >>
    /\ units' \in Limits
    /\ spent' = 0
    /\ refusal' = NotYet
    /\ token' = FALSE
    /\ before' = [spent |-> 0, refusal |-> NotYet]
    /\ UNCHANGED <<installed, recording, armed, stack, kept, result>>

\* `Budget::run` refuses at the start of an operation: the budget refused
\* before, its token is cancelled or its deadline has passed.
StartRefused(op) ==
    /\ stack = << >>
    /\ refusal' = IF refusal # NotYet THEN refusal
                  ELSE [cause |-> IF token THEN "Cancelled" ELSE "WallTime",
                        stage |-> Start, work |-> spent]
    /\ before' = [spent |-> spent, refusal |-> refusal']
    /\ result' = "refused"
    /\ UNCHANGED <<units, spent, token, installed, recording, armed, stack,
                   kept>>

\* An operation begins, under the budget or (`within(None, ..)`) without one.
Begin(op, budgeted) ==
    /\ stack = << >>
    /\ budgeted => refusal = NotYet /\ ~token
    /\ stack' = <<Call("op", op, Body[op], FALSE)>>
    /\ installed' = budgeted
    /\ armed' = Rearm(budgeted, recording)
    /\ before' = [spent |-> spent, refusal |-> refusal]
    /\ UNCHANGED <<units, spent, refusal, token, recording, kept, result>>

\* The innermost call counts a unit, or charges a recorded run again.  A
\* refused replay returns at once; a refused unit may be swallowed.
Unit ==
    /\ stack # << >>
    /\ Top.rest # << >>
    /\ LET item == Head(Top.rest)
           run  == IF Top.kind = "replay" THEN item
                   ELSE [stage |-> item, units |-> 1] IN
       /\ Top.kind # "replay" => item \in Stages
       /\ \E ok \in BOOLEAN :
             /\ IF armed THEN Charge(run, ok) /\ recording' = Noted(run)
                ELSE ok /\ UNCHANGED <<spent, refusal, recording>>
             /\ \E call \in Onward(Top, ~ok) :
                   /\ Top.kind = "replay" /\ ~ok => call.rest = << >>
                   /\ stack' = Append(Below, call)
    /\ UNCHANGED <<units, token, installed, armed, kept, result, before>>

\* What is kept of a computation, one entry at most.
Hits(k) == {e \in Range(kept[CacheOf[k]]) : e.key = k}

\* A kept computation is used again: its record replays, its value returns.
Hit(k) ==
    /\ stack # << >>
    /\ Top.kind # "replay" /\ Top.rest # << >>
    /\ Head(Top.rest) = k
    /\ \E e \in Hits(k) :
          stack' = Append(stack, Call("replay", k, Replayed(e.runs), e.marred))
    /\ UNCHANGED <<units, spent, refusal, token, installed, recording, armed,
                   kept, result, before>>

\* It is not kept: it runs, recorded.
Miss(k) ==
    /\ stack # << >>
    /\ Top.kind # "replay" /\ Top.rest # << >>
    /\ Head(Top.rest) = k
    /\ Hits(k) = {}
    /\ stack' = Append(stack, Call("compute", k, Body[k], FALSE))
    /\ recording' = Append(recording, << >>)
    /\ armed' = Rearm(installed, recording')
    /\ UNCHANGED <<units, spent, refusal, token, installed, kept, result,
                   before>>

\* The innermost call's value goes back to its caller.
Pop ==
    \E caller \in Onward(Last(Below), Top.marred) :
        stack' = Append(Front(Below), caller)

EndReplay ==
    /\ stack # << >>
    /\ Top.kind = "replay" /\ Top.rest = << >>
    /\ Pop
    /\ UNCHANGED <<units, spent, refusal, token, installed, recording, armed,
                   kept, result, before>>

\* A recorded computation ends and is kept, unless the budget refused.
EndCompute ==
    /\ stack # << >>
    /\ Top.kind = "compute" /\ Top.rest = << >>
    /\ Pop
    /\ recording' = Enclosed
    /\ armed' = Rearm(installed, recording')
    /\ LET c == CacheOf[Top.name] IN
       kept' = IF Clean
               THEN [kept EXCEPT ![c] =
                   Stored(c, Entry(Top.name, Top.marred, Last(recording)))]
               ELSE kept
    /\ UNCHANGED <<units, spent, refusal, token, installed, result, before>>

\* The operation ends: `Budget::run` replaces its result once refused.
EndOp ==
    /\ stack # << >>
    /\ Top.kind = "op" /\ Top.rest = << >>
    /\ stack' = << >>
    /\ installed' = FALSE
    /\ armed' = Rearm(FALSE, recording)
    /\ result' = IF installed /\ refusal # NotYet THEN "refused"
                 ELSE IF Top.marred THEN "marred" ELSE "value"
    /\ UNCHANGED <<units, spent, refusal, token, recording, kept, before>>

Next ==
    \/ Cancel \/ NewBudget
    \/ \E op \in Ops : StartRefused(op) \/ \E b \in BOOLEAN : Begin(op, b)
    \/ Unit \/ EndReplay \/ EndCompute \/ EndOp
    \/ \E k \in Keys : Hit(k) \/ Miss(k)

Spec == Init /\ [][Next]_vars

-----------------------------------------------------------------------------
(* Properties.                                                             *)

Runs == [stage : Stages, units : Nat \ {0}]

TypeOK ==
    /\ units \in Limits
    /\ spent \in 0 .. units + 1
    /\ refusal = NotYet \/ refusal.work \in 0 .. units + 1
    /\ {token, installed, armed} \subseteq BOOLEAN
    /\ recording \in Seq(Seq(Runs))
    /\ \A i \in DOMAIN stack : /\ stack[i].kind \in {"op", "compute", "replay"}
                               /\ stack[i].kind = "op" <=> i = 1
                               /\ stack[i].marred \in BOOLEAN
    /\ \A c \in Caches : \A e \in Range(kept[c]) :
          e.key \in Keys /\ e.runs \in Seq(Runs)
    /\ result \in {"none", "value", "marred", "refused"}

\* The units of a record, one by one.
Expanded(runs) ==
    FlattenSeq([i \in DOMAIN runs |->
        [j \in 1 .. runs[i].units |-> runs[i].stage]])

\* What is kept is what its computation gives undisturbed: a value no
\* refusal marred and the record of all its units, in order, those of the
\* kept computations inside it included, whether those ran or replayed and
\* whether a budget was installed at the time.
KeptWhole ==
    /\ TypeOK
    /\ \A c \in Caches : \A e \in Range(kept[c]) :
          ~e.marred /\ Expanded(e.runs) = Work[e.key]

\* What a caller can see between operations is CountedWork's: neither the
\* count, nor the refusal, nor the result depends on what is kept.
Between == stack = << >>

Counted == INSTANCE CountedWork WITH
    Stages  <- Stages \cup {Start},
    spent   <- IF Between THEN spent ELSE before.spent,
    refusal <- IF Between THEN refusal ELSE before.refusal

CountsAlike == Counted!Spec

=============================================================================
