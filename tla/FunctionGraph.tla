---------------------------- MODULE FunctionGraph ----------------------------
(***************************************************************************)
(* How the graph of functions that FunctionIterator walks is made          *)
(* (TFunction_IFunction, _Scope and _GraphNode): functions are numbered as *)
(* they are created, and the node of each keeps the numbers of those       *)
(* before and after it, on both sides of a link.                           *)
(*                                                                         *)
(* The arguments are what the application's drivers answer; a function has *)
(* one result, that bears its label.  The nodes' status is                 *)
(* FunctionIterator's.                                                     *)
(***************************************************************************)
EXTENDS Naturals, FiniteSets

CONSTANTS
    Labels,
    Possible,   \* bound: <<g, f>>, the result of g may be an argument of f
    MaxID       \* bound: functions ever created

ASSUME GraphAssumption == Possible \subseteq Labels \X Labels /\ MaxID \in Nat

VARIABLES
    id,        \* myFunctions: the number of a label's function, 0 for none
    freeID,    \* myFreeID
    functions, \* labels with a TFunction_Function, by which the driver is found
    previous,  \* myPrevious of each label's node
    next,      \* myNext
    args,      \* labels of the arguments
    unsettled, \* history: <<g, f>>, links not looked at since they changed
    parted,    \* history: <<g, f>>, those whose ends may differ
    lost       \* history: numbers of functions deleted with a parted link

graphVars == <<id, freeID, functions, previous, next, args, unsettled, parted, lost>>

Scope == {l \in Labels : id[l] # 0}

\* Find1: the functions of some numbers.
Of(ids) == {l \in Scope : id[l] \in ids}
IdsOf(ls) == {id[l] : l \in ls}

\* The results among a function's arguments, its own apart.
ArgumentsOf(f) == (args[f] \cap Scope) \ {f}
UsersOf(g)     == {f \in Scope \ {g} : g \in args[f]}

\* The links there may be between a function and the others.
LinksOf(f) == ({f} \X (Scope \ {f})) \cup ((Scope \ {f}) \X {f})

\* Every function of the scope has its driver.
AllDriven == Scope \subseteq functions

-----------------------------------------------------------------------------
(* Faulty forms of the operators below, as a plausible bug would write     *)
(* them; no action uses one.                                               *)

FaultyDisconnected(links, f, ls) ==
    [l \in Labels |-> IF l \in Of(next[f]) THEN links[l] \ {id[f]} ELSE links[l]]
FaultyCleaned(links, fs) == links
FaultyGains(links, f, gs) == [links EXCEPT ![f] = IdsOf(gs)]
FaultyGainedBy(links, f, gs) == links
FaultyNextID == freeID

\* RemovePrevious or RemoveNext: functions forget another one's number.
Disconnected(links, f, ls) ==
    [l \in Labels |-> IF l \in ls THEN links[l] \ {id[f]} ELSE links[l]]

\* RemoveAllPrevious or RemoveAllNext.
Cleaned(links, fs) == [l \in Labels |-> IF l \in fs THEN {} ELSE links[l]]

\* AddPrevious or AddNext: links of f with each of gs, on f's side.
Gains(links, f, gs) == [links EXCEPT ![f] = @ \cup IdsOf(gs)]

\* The other side of the same links.
GainedBy(links, f, gs) ==
    [l \in Labels |-> IF l \in gs THEN links[l] \cup {id[f]} ELSE links[l]]

NextID == freeID + 1

-----------------------------------------------------------------------------

GraphInit ==
    /\ id = [l \in Labels |-> 0] /\ freeID = 1 /\ functions = {}
    /\ previous = [l \in Labels |-> {}] /\ next = previous
    /\ args = [l \in Labels |-> {}]
    /\ unsettled = {} /\ parted = {} /\ lost = {}

\* The function is registered unless it is already, its node emptied in any
\* case: the others keep what they have of it.
NewFunction(f) ==
    /\ IF f \in Scope
       THEN parted' = parted \cup LinksOf(f) /\ UNCHANGED <<id, freeID>>
       ELSE /\ freeID <= MaxID
            /\ id' = [id EXCEPT ![f] = freeID]
            /\ freeID' = NextID
            /\ UNCHANGED parted
    /\ functions' = functions \cup {f}
    /\ previous' = Cleaned(previous, {f})
    /\ next' = Cleaned(next, {f})
    /\ unsettled' = unsettled \cup LinksOf(f)
    /\ UNCHANGED <<args, lost>>

\* The functions before it forget it, then those after it; then its node and
\* its number are dropped.
Disconnect(f) ==
    /\ next' = [Disconnected(next, f, Of(previous[f])) EXCEPT ![f] = {}]
    /\ previous' = [Disconnected(previous, f, Of(next[f])) EXCEPT ![f] = {}]
    /\ id' = [id EXCEPT ![f] = 0]
    /\ lost' = IF parted \cap LinksOf(f) = {} THEN lost ELSE lost \cup {id[f]}
    /\ parted' = parted \ LinksOf(f)
    /\ unsettled' = unsettled \ LinksOf(f)

\* Find1 throws on a number no function has, after some of those before the
\* function forgot it, or all of them and some of those after it.
Interrupted(f) ==
    /\ \E ps \in SUBSET Of(previous[f]), ns \in SUBSET Of(next[f]) :
          /\ IF previous[f] \subseteq IdsOf(Scope) THEN ps = Of(previous[f]) ELSE ns = {}
          /\ next' = Disconnected(next, f, ps)
          /\ previous' = Disconnected(previous, f, ns)
    /\ parted' = parted \cup LinksOf(f)
    /\ unsettled' = unsettled \cup LinksOf(f)
    /\ UNCHANGED <<id, lost>>

DeleteFunction(f) ==
    /\ f \in Scope
    /\ functions' = functions \ {f}
    /\ IF previous[f] \cup next[f] \subseteq IdsOf(Scope) THEN Disconnect(f) ELSE Interrupted(f)
    /\ UNCHANGED <<freeID, args>>

\* The application gives a function other arguments.
SetArgument(f, g) ==
    /\ f \in Scope /\ <<g, f>> \in Possible
    /\ args' = [args EXCEPT ![f] = (@ \ {g}) \cup ({g} \ @)]
    /\ unsettled' = unsettled \cup ({<<g, f>>} \cap LinksOf(f))
    /\ UNCHANGED <<id, freeID, functions, previous, next, parted, lost>>

\* For all functions of the scope: their nodes are emptied one by one, until
\* GetDriver throws, then filled.
UpdateDependencies ==
    /\ IF AllDriven
       THEN /\ previous' = [l \in Labels |-> Cleaned(previous, Scope)[l] \cup
                  IF l \in Scope THEN IdsOf(ArgumentsOf(l)) ELSE {}]
            /\ next' = [l \in Labels |-> Cleaned(next, Scope)[l] \cup
                  IF l \in Scope THEN IdsOf(UsersOf(l)) ELSE {}]
            /\ unsettled' = {} /\ parted' = {} /\ lost' = {}
       ELSE /\ \E fs \in SUBSET functions :
                  /\ previous' = Cleaned(previous, fs)
                  /\ next' = Cleaned(next, fs)
                  /\ unsettled' = unsettled \cup UNION {LinksOf(f) : f \in fs}
                  /\ parted' = parted \cup UNION {LinksOf(f) : f \in fs}
            /\ UNCHANGED lost
    /\ UNCHANGED <<id, freeID, functions, args>>

\* The functions a member UpdateDependencies looks at: all the others, or those
\* it met before one without a driver.
LookedAt(f) == IF AllDriven THEN {Scope \ {f}} ELSE SUBSET (functions \ {f})

\* The member: for this function only.  It adds the links there are; those
\* there are no more stay, unsettled.
UpdateOne(f) ==
    /\ f \in functions
    /\ \E gs \in LookedAt(f) :
          LET before == ArgumentsOf(f) \cap gs
              after  == UsersOf(f) \cap gs
              links  == (before \X {f}) \cup ({f} \X after) IN
          /\ previous' = GainedBy(Gains(previous, f, before), f, after)
          /\ next' = GainedBy(Gains(next, f, after), f, before)
          /\ unsettled' = unsettled \ links
          /\ parted' = parted \ links
    /\ UNCHANGED <<id, freeID, functions, args, lost>>

GraphNext ==
    \/ UpdateDependencies
    \/ \E f \in Labels : NewFunction(f) \/ DeleteFunction(f) \/ UpdateOne(f)
    \/ \E f, g \in Labels : SetArgument(f, g)

GraphSpec == GraphInit /\ [][GraphNext]_graphVars

-----------------------------------------------------------------------------
(* Properties.                                                             *)

\* Numbers are given once, links are between numbers given.
GraphTypeOK ==
    /\ id \in [Labels -> 0 .. MaxID] /\ freeID \in 1 .. MaxID + 1
    /\ \A f, g \in Scope : f # g => id[f] # id[g]
    /\ functions \subseteq Scope
    /\ previous \in [Labels -> SUBSET Nat] /\ next \in [Labels -> SUBSET Nat]
    /\ \A f \in Labels : id[f] < freeID /\ previous[f] \cup next[f] \subseteq 1 .. freeID - 1
    /\ args \in [Labels -> SUBSET Labels]
    /\ parted \subseteq unsettled /\ unsettled \subseteq Labels \X Labels
    /\ lost \subseteq 1 .. freeID - 1

\* Both ends of a link know it: the iterator goes by the one and comes back by
\* the other (TFunction_Iterator::Next).  Only a function created anew where it
\* was, or an operation that threw half way, parts the two, and only until an
\* update meets the link again.
Mutual ==
    \A f, g \in Scope : <<g, f>> \notin parted =>
        (id[g] \in previous[f] <=> id[f] \in next[g])

\* The dependencies that were updated since they changed are those the
\* drivers state (both UpdateDependencies), whatever was created, deleted or
\* left half done before and in the meantime.
LinksMatch ==
    \A f, g \in Scope : <<g, f>> \notin unsettled =>
        /\ id[g] \in previous[f] <=> g \in ArgumentsOf(f)
        /\ id[f] \in next[g] <=> g \in ArgumentsOf(f)

\* TFunction_IFunction::DeleteFunction: "Disconnect previous functions",
\* "Disconnect next functions".  No function keeps the number of one that is
\* deleted, on which the iterator and DeleteFunction would throw, but of one
\* deleted while a link of it was parted, and then only until the whole scope
\* is updated.
NoDangling == \A f \in Scope : previous[f] \cup next[f] \subseteq IdsOf(Scope) \cup lost

\* No function is left without its attribute in the scope, where it would stop
\* every update, unless a number was lost: of all sequences of calls only those
\* that delete a function whose links were parted, and do not update the whole
\* scope then, make DeleteFunction throw half way (TFunction_IFunction.cxx:70).
DeletesWhole == lost = {} => functions = Scope

-----------------------------------------------------------------------------
(* Claims of the source that its code does not keep.                       *)

\* TFunction_IFunction.hxx, DeleteFunction: "It deletes the functions from the
\* scope of function of this document."  One that lost its attribute is out of
\* the scope; not so when a neighbour deleted before it left its number behind.
DeletionCompletes == [][(functions \ functions') \cap Scope' = {}]_graphVars

\* TFunction_IFunction.hxx: "Updates the dependencies of this function only".
Exact(f) ==
    /\ previous[f] = IdsOf(ArgumentsOf(f))
    /\ next[f] = IdsOf(UsersOf(f))
OneUpdated == [][\A f \in Labels : UpdateOne(f) => Exact(f)']_graphVars

=============================================================================
