----------------------------- MODULE ParallelFor -----------------------------
(***************************************************************************)
(* What OSD_ThreadPool::Launcher::Perform promises its caller: every index *)
(* of the range is given to the functor once, calls that run at the same   *)
(* time have different thread indices, and Perform comes back when no call *)
(* is in progress, normally with the whole range done, by an exception     *)
(* exactly when a call of it threw one.                                    *)
(***************************************************************************)
EXTENDS Integers

CONSTANTS
    Launchers,   \* the launchers
    Ranges,      \* the ranges of indices, sets of integers
    Indices      \* the thread indices

VARIABLES
    phase,       \* [Launchers -> {"idle", "running"}]
    left,        \* [Launchers -> the indices no call was given yet]
    calls,       \* [Launchers -> the calls in progress, <<thread, index>>]
    failed,      \* [Launchers -> BOOLEAN]: a call threw
    outcome      \* [Launchers -> {"none", "returned", "threw"}]

vars == <<phase, left, calls, failed, outcome>>

Init ==
    /\ phase = [l \in Launchers |-> "idle"]
    /\ left = [l \in Launchers |-> {}]
    /\ calls = [l \in Launchers |-> {}]
    /\ failed = [l \in Launchers |-> FALSE]
    /\ outcome = [l \in Launchers |-> "none"]

Perform(l) ==
    /\ phase[l] = "idle"
    /\ phase' = [phase EXCEPT ![l] = "running"]
    /\ \E r \in Ranges : left' = [left EXCEPT ![l] = r]
    /\ failed' = [failed EXCEPT ![l] = FALSE]
    /\ outcome' = [outcome EXCEPT ![l] = "none"]
    /\ UNCHANGED calls

Call(l, t, i) ==
    /\ phase[l] = "running"
    /\ i \in left[l]
    /\ \A c \in calls[l] : c[1] # t
    /\ left' = [left EXCEPT ![l] = @ \ {i}]
    /\ calls' = [calls EXCEPT ![l] = @ \cup {<<t, i>>}]
    /\ UNCHANGED <<phase, failed, outcome>>

EndCall(l, c, threw) ==
    /\ c \in calls[l]
    /\ calls' = [calls EXCEPT ![l] = @ \ {c}]
    /\ failed' = [failed EXCEPT ![l] = @ \/ threw]
    /\ UNCHANGED <<phase, left, outcome>>

Return(l) ==
    /\ phase[l] = "running"
    /\ calls[l] = {}
    /\ failed[l] \/ left[l] = {}
    /\ phase' = [phase EXCEPT ![l] = "idle"]
    /\ outcome' = [outcome EXCEPT ![l] = IF failed[l] THEN "threw" ELSE "returned"]
    /\ left' = [left EXCEPT ![l] = {}]
    /\ UNCHANGED <<calls, failed>>

Next == \E l \in Launchers :
    \/ Perform(l) \/ Return(l)
    \/ \E t \in Indices, i \in left[l] : Call(l, t, i)
    \/ \E c \in calls[l], threw \in BOOLEAN : EndCall(l, c, threw)

Spec == Init /\ [][Next]_vars
=============================================================================
