-------------------------- MODULE FunctionIterator --------------------------
(***************************************************************************)
(* TFunction_Iterator (src/src/ApplicationFramework/TKLCAF/TFunction): the *)
(* functions of a model are run level by level, each after those whose     *)
(* results are its arguments, and only if an argument was modified.  The   *)
(* solver and its threads, which are the application's, are those of the   *)
(* user's guide (dox/user_guides/ocaf/ocaf.md) and of Dump: they run what  *)
(* Current returns and ask for the next list.                              *)
(*                                                                         *)
(* The graph of functions is any one; FunctionGraph is about how it is     *)
(* made.  A function has one result, that bears its name.                  *)
(***************************************************************************)
EXTENDS Naturals, FiniteSets

CONSTANTS
    Functions,
    Graphs       \* bound: the graphs of dependencies there may be

ASSUME IteratorAssumption ==
    IsFiniteSet(Functions) /\ Graphs \subseteq SUBSET (Functions \X Functions)

VARIABLES
    usesStatus,  \* myUsageOfExecutionStatus
    graph,       \* <<g, f>>: a result of g is an argument of f
    status,      \* myStatus of each graph node
    touched,     \* functions with an argument of their own the user modified
    impacted,    \* the results in the logbook
    current,     \* myCurrent
    passed,      \* myPassedFunctions
    looking,     \* whether Next is reading statuses
    left,        \* of myCurrent, the functions it has not looked at yet
    followers,   \* those after the function it looks at, not looked at yet
    found,       \* next_current
    begun,       \* history: the functions the solver has taken up
    ended,       \* history: those it is through with, not failed
    executed     \* history: those whose driver was executed

model == <<usesStatus, graph, touched>>
reads == <<looking, left, followers, found>>
runs  == <<status, impacted, begun, ended, executed>>
vars  == <<model, current, passed, reads, runs>>

GetPrevious(f) == {g \in Functions : <<g, f>> \in graph}
GetNext(f)     == {g \in Functions : <<f, g>> \in graph}

-----------------------------------------------------------------------------
(* Faulty forms of the operators below, as a plausible bug would write     *)
(* them; no action uses one.                                               *)

FaultyIsReady(f) == \A g \in GetPrevious(f) : status[g] = "Succeeded"
FaultyOrder(f) == status[f] \in {"NotExecuted", "Executing"}
FaultyMustExecute(f) == f \in touched
FaultyStays(f) == status[f] = "NotExecuted"

Roots == {f \in Functions : GetPrevious(f) = {}}

\* What is up to date has up to date arguments; a new function keeps
\* WrongDefinition (NewFunction) until the application says otherwise.  Not
\* read without the usage.
Statuses ==
    {st \in [Functions -> IF usesStatus THEN {"WrongDefinition", "NotExecuted", "Succeeded"}
                          ELSE {"NotExecuted"}] :
        \A f \in Functions : st[f] = "Succeeded" => \A g \in GetPrevious(f) : st[g] = "Succeeded"}

\* The usage is set before or after the iterator finds the roots.
Init ==
    /\ usesStatus \in BOOLEAN
    /\ graph \in Graphs
    /\ touched \in SUBSET Functions
    /\ status \in Statuses
    /\ \/ current = Roots /\ passed = Roots
       \/ /\ usesStatus
          /\ current = {f \in Roots : status[f] = "NotExecuted"} /\ passed = {}
    /\ looking = FALSE /\ left = {} /\ followers = {} /\ found = {}
    /\ impacted = {} /\ executed = {}
    /\ begun = {f \in Functions : status[f] = "Succeeded"} /\ ended = begun

-----------------------------------------------------------------------------

\* A function of the list that Next keeps.
Stays(f) == status[f] \in {"NotExecuted", "Executing"}

\* Next looks at a follower that is not executed yet, all of whose arguments
\* are there.  It reads these statuses in turn; a status that is Succeeded stays
\* so, and so does one that is neither NotExecuted nor Executing any more, so
\* that what the last read decides is so then.
IsReady(f) ==
    /\ status[f] \in {"NotExecuted", "Executing"}
    /\ \A g \in GetPrevious(f) : status[g] = "Succeeded"

\* The functions returned before, when the status does not say it.
Passed(fs) == passed \cup fs

More ==
    IF usesStatus THEN \E f \in Functions : status[f] = "NotExecuted" ELSE current # {}

\* TFunction_Driver's, of the logbook.
MustExecute(f) == f \in touched \/ GetPrevious(f) \cap impacted # {}

-----------------------------------------------------------------------------

(* Next with the status: threads go on setting statuses while it reads.   *)

NextBegins ==
    /\ usesStatus /\ ~looking
    /\ More
    /\ looking' = TRUE /\ left' = current
    /\ UNCHANGED <<model, current, passed, followers, found, runs>>

\* Those of WrongDefinition and those that failed lead nowhere.
LookAt(f) ==
    /\ f \in left /\ followers = {}
    /\ left' = left \ {f}
    /\ found' = IF Stays(f) THEN found \cup {f} ELSE found
    /\ followers' = IF status[f] = "Succeeded" THEN GetNext(f) ELSE {}
    /\ UNCHANGED <<model, current, passed, looking, runs>>

LookAtFollower(g) ==
    /\ g \in followers
    /\ followers' = followers \ {g}
    /\ found' = IF IsReady(g) THEN found \cup {g} ELSE found
    /\ UNCHANGED <<model, current, passed, looking, left, runs>>

NextEnds ==
    /\ looking /\ left = {} /\ followers = {}
    /\ current' = found
    /\ looking' = FALSE /\ found' = {}
    /\ UNCHANGED <<model, passed, left, followers, runs>>

NextByStatus ==
    NextBegins \/ NextEnds \/ \E f \in Functions : LookAt(f) \/ LookAtFollower(f)

\* The solver is through with the list.
NextByOrder ==
    /\ ~usesStatus
    /\ More
    /\ current \subseteq ended
    /\ LET fs == (UNION {GetNext(f) : f \in current}) \ passed
       IN current' = fs /\ passed' = Passed(fs)
    /\ UNCHANGED <<model, reads, runs>>

\* A thread takes a function of the list up, with the status one that is not
\* executed.
Begin(f) ==
    /\ f \in current \ begun
    /\ status[f] = "NotExecuted"
    /\ begun' = begun \cup {f}
    /\ status' = IF usesStatus THEN [status EXCEPT ![f] = "Executing"] ELSE status
    /\ executed' = IF MustExecute(f) THEN executed \cup {f} ELSE executed
    /\ UNCHANGED <<model, impacted, current, passed, reads, ended>>

Succeed(f) ==
    /\ f \in begun \ ended
    /\ usesStatus => status[f] = "Executing"
    /\ status' = IF usesStatus THEN [status EXCEPT ![f] = "Succeeded"] ELSE status
    /\ ended' = ended \cup {f}
    /\ impacted' = IF f \in executed THEN impacted \cup {f} ELSE impacted
    /\ UNCHANGED <<model, current, passed, reads, begun, executed>>

Fail(f) ==
    /\ usesStatus
    /\ f \in executed /\ status[f] = "Executing"
    /\ status' = [status EXCEPT ![f] = "Failed"]
    /\ UNCHANGED <<model, impacted, current, passed, reads, begun, ended, executed>>

SolverNext == NextByStatus \/ NextByOrder

Next == SolverNext \/ \E f \in Functions : Begin(f) \/ Succeed(f) \/ Fail(f)

Spec == Init /\ [][Next]_vars

\* The solver goes on as long as there is more, threads do not stall.
Fairness ==
    /\ WF_vars(SolverNext)
    /\ \A f \in Functions : WF_vars(Begin(f)) /\ WF_vars(Succeed(f) \/ Fail(f))

FairSpec == Spec /\ Fairness

-----------------------------------------------------------------------------
(* Properties.                                                             *)

TypeOK ==
    /\ usesStatus \in BOOLEAN /\ graph \in Graphs
    /\ status \in [Functions ->
          {"WrongDefinition", "NotExecuted", "Executing", "Succeeded", "Failed"}]
    /\ current \subseteq Functions /\ passed \subseteq Functions
    /\ ~usesStatus => current \subseteq passed
    /\ looking \in BOOLEAN /\ looking => usesStatus
    /\ ~looking => left = {} /\ followers = {} /\ found = {}
    /\ {left, followers, found, touched, impacted, executed} \subseteq SUBSET Functions
    /\ ended \subseteq begun /\ begun \subseteq Functions

\* A function is taken up when all the functions it depends on are through:
\* threads that run one list may meet no function that needs another's result
\* (Next, "all of them should be succeeded").  So it is with the execution
\* status; without it a function may be returned before some of them.
InOrder ==
    /\ TypeOK
    /\ usesStatus =>
          \A g, f \in Functions : <<g, f>> \in graph /\ f \in begun => g \in ended

\* The functions to be executed again: by a modified argument, or by another
\* one's new result.
Stale ==
    LET reach[n \in 0 .. Cardinality(Functions)] ==
            IF n = 0 THEN touched
            ELSE reach[n - 1] \cup UNION {GetNext(f) : f \in reach[n - 1]}
    IN reach[Cardinality(Functions)]

\* A model none of which is up to date; dependencies without a cycle.
NothingDone == \A f \in Functions : status[f] = "NotExecuted"
Acyclic ==
    \A fs \in (SUBSET Functions) \ {{}} : \E f \in fs : GetPrevious(f) \cap fs = {}

\* When nothing is left to iterate the whole modification has been propagated
\* and nothing else was executed (MustExecute, of a logbook that is filled
\* while the functions run).
Regenerated ==
    usesStatus /\ NothingDone => [](~More /\ ended = Functions => executed = Stale)

\* No function that is through is returned again, cycles or not.
ReturnedOnce == [][current' \cap ended \subseteq current]_vars

\* Nothing is iterated for ever: without the status, whatever the cycles; with
\* it, a model without cycles none of which was up to date, unless a function
\* fails.  Otherwise More, which asks the whole scope, stays true while Next,
\* which goes on from the current functions, has none left.
IterationEnds ==
    (usesStatus => NothingDone /\ Acyclic)
        => <>(~More \/ \E f \in Functions : status[f] = "Failed")

=============================================================================
