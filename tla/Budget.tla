------------------------------- MODULE Budget -------------------------------
(***************************************************************************)
(* Work budgets of the Rust kernel (src/rust/kernel/src/budget.rs).        *)
(*                                                                         *)
(* A Budget is a handle on a shared count (`State`): a limit of work       *)
(* units, an optional deadline and an optional cancellation token.  Clones *)
(* share the count and the limit and may differ in deadline and token.     *)
(* Threads run operations under handles; an operation draws units one by   *)
(* one, or several at once when a kept computation is charged again, from  *)
(* the innermost handle installed on its thread.                           *)
(*                                                                         *)
(* `Budget::charge` takes no lock: every access to `spent`, `exhausted`    *)
(* and the token is an action of its own here, and other threads' actions  *)
(* come between them.                                                      *)
(***************************************************************************)
EXTENDS Integers, Sequences

CONSTANTS
    Threads,     \* the threads that run operations
    Counts,      \* the shared counts (`Arc<State>`)
    Handles,     \* the Budget values: clones of one another share a count
    CountOf,     \* [Handles -> Counts], the field `state`
    Units,       \* [Counts -> Nat], the field `units`, equal among clones
    Tokens,      \* the cancellation tokens
    TokenOf,     \* [Handles -> SUBSET Tokens], the field `cancel` (0 or 1)
    Timed,       \* the handles with a deadline
    MaxRun,      \* bound: the units one replayed run charges at once
    MaxDepth     \* bound: the operations open on one thread

ASSUME HandleAssumption ==
    /\ Handles # {}
    /\ CountOf \in [Handles -> Counts]
    /\ Units \in [Counts -> Nat]
    /\ TokenOf \in [Handles -> SUBSET Tokens]
    /\ Timed \subseteq Handles

ASSUME BoundAssumption ==
    /\ MaxRun \in Nat \ {0}
    /\ MaxDepth \in Nat \ {0}

Causes == {"Work", "WallTime", "Cancelled"}

\* `Exhaustion`, its stage left out: the stage plays no part in the control.
Exhaustion == [cause : Causes, work : Nat]

\* `exhausted` before any refusal (an empty OnceLock).
NotYet == [cause |-> "none", work |-> 0]

VARIABLES
    spent,       \* [Counts -> Nat]
    exhausted,   \* [Counts -> Exhaustion \cup {NotYet}]
    cancelled,   \* the tokens cancelled so far
    past,        \* the handles whose deadline has passed
    installed,   \* [Threads -> Seq(frame)], the thread-local INSTALLED
    pc,          \* where each thread is in `charge` or in `run`
    handle,      \* the handle each thread charges, runs or leaves
    asked,       \* the units of the charge in progress, 0 for `check`
    after,       \* `after`, then the `work` passed to `refuse`
    cause,       \* the cause passed to `refuse`
    granted,     \* history: the units handed out by each count
    outcome      \* history: the last operation that ended on each thread

shared == <<spent, exhausted, cancelled, past>>
local  == <<installed, pc, handle, asked, after, cause>>
vars   == <<shared, local, granted, outcome>>

\* An open operation: its handle, and whether a unit of it was refused
\* (`denied` is a history: the code keeps no such flag).
Frames == [handle : Handles, denied : BOOLEAN]

\* What an operation returned: `error` is NotYet when its own result stood.
Ended == [handle : Handles, denied : BOOLEAN,
          error : Exhaustion \cup {NotYet}]
NoOutcome == [denied |-> FALSE, error |-> NotYet]

Count(t) == CountOf[handle[t]]
Top(t)   == installed[t][Len(installed[t])]
Under(t) == SubSeq(installed[t], 1, Len(installed[t]) - 1)

Init ==
    /\ spent = [s \in Counts |-> 0]
    /\ exhausted = [s \in Counts |-> NotYet]
    /\ cancelled = {}
    /\ past = {}
    /\ installed = [t \in Threads |-> << >>]
    /\ pc = [t \in Threads |-> "caller"]
    /\ handle \in [Threads -> {CHOOSE h \in Handles : TRUE}]
    /\ asked = [t \in Threads |-> 0]
    /\ after = [t \in Threads |-> 0]
    /\ cause = [t \in Threads |-> "Work"]
    /\ granted = [s \in Counts |-> 0]
    /\ outcome = [t \in Threads |-> NoOutcome]

-----------------------------------------------------------------------------
(* The environment: another thread cancels a token, a deadline passes.     *)

Cancel(k) ==
    /\ k \notin cancelled
    /\ cancelled' = cancelled \cup {k}
    /\ UNCHANGED <<spent, exhausted, past, local, granted, outcome>>

DeadlinePasses(h) ==
    /\ h \in Timed \ past
    /\ past' = past \cup {h}
    /\ UNCHANGED <<spent, exhausted, cancelled, local, granted, outcome>>

-----------------------------------------------------------------------------
(* The decisions of `charge`, `refuse` and `run`.  The Faulty operators    *)
(* are the same decisions as a plausible bug would take them: no action    *)
(* uses one.                                                               *)

FaultySum(s, n) == Units[s] - spent[s] - n

\* The count after a charge of n units.
Sum(s, n) == spent[s] + n

FaultyOver(s, n) == spent[s] > Units[s]

\* Whether a charge of n units passes the budget.
Over(s, n) == Sum(s, n) > Units[s]

FaultyCorrected(s) == spent[s]

\* What a charge that passed the budget stores and reports: the refused
\* unit is counted, not done.
Corrected(s) == Units[s] + 1

FaultySeen(h, n) == n = 0 /\ TokenOf[h] \cap cancelled # {}

\* Whether a charge of n units under h finds its token cancelled.
Seen(h, n) == TokenOf[h] \cap cancelled # {}

\* OnceLock::get_or_init: the first refusal stays.
First(s, e) == IF exhausted[s] = NotYet THEN e ELSE exhausted[s]

FaultyEnd(s) == NotYet

\* What `run` returns instead of the operation's result.
End(s) == exhausted[s]

-----------------------------------------------------------------------------
(* What the thread's code calls.                                           *)

Charging(t, h, n) ==
    /\ pc' = [pc EXCEPT ![t] = "exhausted"]
    /\ handle' = [handle EXCEPT ![t] = h]
    /\ asked' = [asked EXCEPT ![t] = n]

\* `Budget::run`, called by the application or inside another operation:
\* first `check("an operation's start")`, a charge of no unit.
Run(t, h) ==
    /\ pc[t] = "caller"
    /\ Len(installed[t]) < MaxDepth
    /\ Charging(t, h, 0)
    /\ UNCHANGED <<shared, installed, after, cause, granted, outcome>>

\* `unit`, `unit_ok` or one run of `Recorded::replay`: the innermost budget
\* installed is charged.  With none installed nothing happens.
Unit(t, n) ==
    /\ pc[t] = "caller"
    /\ installed[t] # << >>
    /\ Charging(t, Top(t).handle, n)
    /\ UNCHANGED <<shared, installed, after, cause, granted, outcome>>

\* The closure returns, whatever its result: `Installed` is dropped.  A
\* closure may return in any state, a refused unit swallowed included.
Finish(t) ==
    /\ pc[t] = "caller"
    /\ installed[t] # << >>
    /\ pc' = [pc EXCEPT ![t] = "leave"]
    /\ handle' = [handle EXCEPT ![t] = Top(t).handle]
    /\ installed' = [installed EXCEPT ![t] = Under(t)]
    /\ outcome' = [outcome EXCEPT ![t] =
           [handle |-> Top(t).handle, denied |-> Top(t).denied,
            error |-> NotYet]]
    /\ UNCHANGED <<shared, asked, after, cause, granted>>

\* The end of `run`: the result becomes the refusal, once there is one.
Leave(t) ==
    /\ pc[t] = "leave"
    /\ outcome' = [outcome EXCEPT ![t].error = End(Count(t))]
    /\ pc' = [pc EXCEPT ![t] = "caller"]
    /\ UNCHANGED <<shared, installed, handle, asked, after, cause, granted>>

-----------------------------------------------------------------------------
(* `Budget::charge`, one shared access at a time.                          *)

\* `charge` returns Ok: `run` installs the budget, a unit just goes on.
Granted(t) ==
    /\ pc' = [pc EXCEPT ![t] = "caller"]
    /\ installed' = IF asked[t] = 0
           THEN [installed EXCEPT ![t] =
                    Append(@, [handle |-> handle[t], denied |-> FALSE])]
           ELSE installed
    /\ UNCHANGED outcome

\* `charge` returns the refusal e: `run` returns it and installs nothing; a
\* unit's operation goes on, unwinding or not, with a unit denied.
Refused(t, e) ==
    /\ pc' = [pc EXCEPT ![t] = "caller"]
    /\ IF asked[t] = 0
       THEN /\ outcome' = [outcome EXCEPT ![t] =
                   [handle |-> handle[t], denied |-> TRUE, error |-> e]]
            /\ UNCHANGED installed
       ELSE /\ installed' = [installed EXCEPT ![t] =
                   [@ EXCEPT ![Len(installed[t])] =
                       [Top(t) EXCEPT !.denied = TRUE]]]
            /\ UNCHANGED outcome

ReadExhausted(t) ==
    /\ pc[t] = "exhausted"
    /\ \/ /\ exhausted[Count(t)] # NotYet
          /\ Refused(t, exhausted[Count(t)])
       \/ /\ exhausted[Count(t)] = NotYet
          /\ pc' = [pc EXCEPT ![t] = "token"]
          /\ UNCHANGED <<installed, outcome>>
    /\ UNCHANGED <<shared, handle, asked, after, cause, granted>>

ReadToken(t) ==
    /\ pc[t] = "token"
    /\ pc' = [pc EXCEPT ![t] =
           IF Seen(handle[t], asked[t]) THEN "spent" ELSE "add"]
    /\ UNCHANGED <<shared, installed, handle, asked, after, cause, granted,
                   outcome>>

\* The units a cancelled charge reports: `spent()`, its own not added.
ReadSpent(t) ==
    /\ pc[t] = "spent"
    /\ after' = [after EXCEPT ![t] = spent[Count(t)]]
    /\ cause' = [cause EXCEPT ![t] = "Cancelled"]
    /\ pc' = [pc EXCEPT ![t] = "refuse"]
    /\ UNCHANGED <<shared, installed, handle, asked, granted, outcome>>

FetchAdd(t) ==
    /\ pc[t] = "add"
    /\ LET s == Count(t)
           over == Over(s, asked[t]) IN
       /\ spent' = [spent EXCEPT ![s] = @ + asked[t]]
       /\ after' = [after EXCEPT ![t] = Sum(s, asked[t])]
       /\ pc' = [pc EXCEPT ![t] = IF over THEN "store" ELSE "deadline"]
       /\ granted' = IF over THEN granted
                     ELSE [granted EXCEPT ![s] = @ + asked[t]]
    /\ UNCHANGED <<exhausted, cancelled, past, installed, handle, asked,
                   cause, outcome>>

StoreOver(t) ==
    /\ pc[t] = "store"
    /\ spent' = [spent EXCEPT ![Count(t)] = Corrected(Count(t))]
    /\ after' = [after EXCEPT ![t] = Corrected(Count(t))]
    /\ cause' = [cause EXCEPT ![t] = "Work"]
    /\ pc' = [pc EXCEPT ![t] = "refuse"]
    /\ UNCHANGED <<exhausted, cancelled, past, installed, handle, asked,
                   granted, outcome>>

ReadDeadline(t) ==
    /\ pc[t] = "deadline"
    /\ \/ /\ handle[t] \in past
          /\ cause' = [cause EXCEPT ![t] = "WallTime"]
          /\ pc' = [pc EXCEPT ![t] = "refuse"]
          /\ UNCHANGED <<installed, outcome>>
       \/ /\ handle[t] \notin past
          /\ Granted(t)
          /\ UNCHANGED cause
    /\ UNCHANGED <<shared, handle, asked, after, granted>>

\* `refuse`: OnceLock::get_or_init keeps the first refusal and returns it.
Refuse(t) ==
    /\ pc[t] = "refuse"
    /\ LET s == Count(t)
           e == First(s, [cause |-> cause[t], work |-> after[t]]) IN
       /\ exhausted' = [exhausted EXCEPT ![s] = e]
       /\ Refused(t, e)
    /\ UNCHANGED <<spent, cancelled, past, handle, asked, after, cause,
                   granted>>

-----------------------------------------------------------------------------

Charge(t) ==
    \/ ReadExhausted(t) \/ ReadToken(t) \/ ReadSpent(t) \/ FetchAdd(t)
    \/ StoreOver(t)     \/ ReadDeadline(t) \/ Refuse(t)

Next ==
    \/ \E k \in Tokens : Cancel(k)
    \/ \E h \in Timed : DeadlinePasses(h)
    \/ \E t \in Threads :
          \/ \E h \in Handles : Run(t, h)
          \/ \E n \in 1 .. MaxRun : Unit(t, n)
          \/ Finish(t)
          \/ Leave(t)
          \/ Charge(t)

\* A thread inside the kernel's code is scheduled; what the application
\* calls next, and when it ends an operation, is its own choice.
Spec == Init /\ [][Next]_vars

FairSpec == Spec /\ \A t \in Threads : WF_vars(Charge(t)) /\ WF_vars(Leave(t))

-----------------------------------------------------------------------------
(* Properties.                                                             *)

PcValues == {"caller", "exhausted", "token", "spent", "add", "store",
             "deadline", "refuse", "leave"}

\* Every variable has its type (the state of budget.rs).
TypeOK ==
    /\ spent \in [Counts -> Nat]
    /\ exhausted \in [Counts -> Exhaustion \cup {NotYet}]
    /\ cancelled \subseteq Tokens
    /\ past \subseteq Timed
    /\ installed \in [Threads -> Seq(Frames)]
    /\ pc \in [Threads -> PcValues]
    /\ handle \in [Threads -> Handles]
    /\ asked \in [Threads -> Nat]
    /\ after \in [Threads -> Nat]
    /\ cause \in [Threads -> Causes]
    /\ granted \in [Counts -> Nat]
    /\ outcome \in [Threads -> Ended \cup {NoOutcome}]

\* A budget of n units never hands out more than n, however many threads
\* and clones draw from it and whatever the fetch_add and the corrective
\* store of `charge` do to the count in between ("the total stays bounded").
GrantedWithinUnits == \A s \in Counts : granted[s] <= Units[s]

\* No thread is between the first and the last access of a charge on s.
Settled(s) == \A t \in Threads :
    pc[t] \in {"caller", "leave"} \/ Count(t) # s

\* Between charges the count tells the truth: exactly the units handed out
\* while the budget holds, n + 1 once it ran out of work, and never more.
\* Racing refusals overshoot the count and each corrects it by a store: the
\* last correction wins over every overshoot.
SettledCount == \A s \in Counts : Settled(s) =>
    /\ exhausted[s] = NotYet => spent[s] = granted[s]
    /\ exhausted[s].cause = "Work" => spent[s] = Units[s] + 1
    /\ spent[s] <= Units[s] + 1

\* A refusal for work reports n + 1 units, whoever raced to record it.
WorkRefusalExact == \A s \in Counts :
    exhausted[s].cause = "Work" => exhausted[s].work = Units[s] + 1

\* An operation one of whose units was refused never keeps its own result,
\* even when it swallowed the refusal and went on (`unit_ok`): `run` finds
\* the refusal recorded.  What it returns is the count's one refusal.
NoPartialResult == \A t \in Threads :
    LET o == outcome[t] IN
    pc[t] # "leave" /\ o # NoOutcome =>
        /\ o.denied => o.error # NotYet
        /\ o.error # NotYet => o.error = exhausted[CountOf[o.handle]]

\* A charge that begins once its token is cancelled leaves the budget
\* refused, whatever the other threads do: "every operation running under a
\* budget holding it refuses at its next work unit".
CancellationLands == \A t \in Threads :
    pc[t] = "exhausted" /\ TokenOf[handle[t]] \cap cancelled # {}
        ~> exhausted[Count(t)] # NotYet

-----------------------------------------------------------------------------
(* What the documentation says and the code does not do.                   *)

\* "No operation exceeds its budget by more than the one refused unit"
\* (BUDGETS.md).  The diagnosis of a cancellation can, when another thread
\* replays a run of units and has not corrected the count yet.
ReportsAtMostOneOver == \A s \in Counts : exhausted[s].work <= Units[s] + 1

=============================================================================
