----------------------------- MODULE CountedWork -----------------------------
(***************************************************************************)
(* What BUDGETS.md promises of an operation on one thread, whatever the    *)
(* kernel keeps between operations: an operation that counts w units under *)
(* a budget of n keeps its result and counts w when they fit, and is       *)
(* refused at unit n + 1, at that unit's stage, when they do not.  Only a  *)
(* cancellation or a deadline may refuse it elsewhere, and says so.        *)
(***************************************************************************)
EXTENDS Integers, Sequences

CONSTANTS
    Ops,         \* the operations
    Work,        \* [Ops -> Seq(stage)], the units an operation counts
    Stages,      \* the stages a refusal may name
    Limits       \* the units a budget may be given

NotYet == [cause |-> "none"]

Refusal(c, stage, n) == [cause |-> c, stage |-> stage, work |-> n]

VARIABLES
    units,       \* the budget's units
    spent,       \* the units counted under it
    refusal,     \* its refusal, or NotYet
    result       \* what the last operation returned

vars == <<units, spent, refusal, result>>

Init ==
    /\ units \in Limits
    /\ spent = 0
    /\ refusal = NotYet
    /\ result = "none"

NewBudget ==
    /\ units' \in Limits
    /\ spent' = 0
    /\ refusal' = NotYet
    /\ UNCHANGED result

\* An operation without a budget counts nothing and keeps its result.
Plain ==
    /\ result' = "value"
    /\ UNCHANGED <<units, spent, refusal>>

Keeps(op) ==
    /\ refusal = NotYet
    /\ spent + Len(Work[op]) <= units
    /\ spent' = spent + Len(Work[op])
    /\ result' = "value"
    /\ UNCHANGED <<units, refusal>>

RunsOut(op) ==
    /\ refusal = NotYet
    /\ spent + Len(Work[op]) > units
    /\ refusal' = Refusal("Work", Work[op][units - spent + 1], units + 1)
    /\ spent' = units + 1
    /\ result' = "refused"
    /\ UNCHANGED units

\* A cancellation or the deadline refuses it with n units counted.
Interrupted(op) ==
    /\ refusal = NotYet
    /\ \E n \in spent .. units, stage \in Stages,
          cause \in {"Cancelled", "WallTime"} :
          /\ n <= spent + Len(Work[op])
          /\ spent' = n
          /\ refusal' = Refusal(cause, stage, n)
    /\ result' = "refused"
    /\ UNCHANGED units

\* A budget that refused refuses every later operation.
Again ==
    /\ refusal # NotYet
    /\ result' = "refused"
    /\ UNCHANGED <<units, spent, refusal>>

Next ==
    \/ NewBudget \/ Plain \/ Again
    \/ \E op \in Ops : Keeps(op) \/ RunsOut(op) \/ Interrupted(op)

Spec == Init /\ [][Next]_vars
=============================================================================
