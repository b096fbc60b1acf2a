---------------------------- MODULE BvhBuilders ----------------------------
(***************************************************************************)
(* SelectMgr_BVHThreadPool (src/src/Visualization/TKV3d/SelectMgr):        *)
(* background threads build the bounding volume trees of the sensitive     *)
(* entities a viewer queues, while the viewer's own thread goes on         *)
(* queueing, waits for the builders, picks (which builds the tree of what  *)
(* it meets, with all builders held off) and at last destroys the pool.    *)
(*                                                                         *)
(* An action is one access to what the threads share.  The two sections    *)
(* under the list's mutex are one action each: the wake event, all that    *)
(* another thread can see in the middle, only lets it wait for the mutex.  *)
(***************************************************************************)
EXTENDS Naturals, Sequences, FiniteSets

CONSTANTS
    MaxThreads,  \* bound: the most builders a pool has
    Entities,
    Broken,      \* the entities whose tree cannot be built: BVH() throws
    MaxCalls,    \* bound: the calls the viewer makes before the destructor
    Nothing      \* no entity

Builders == 1 .. MaxThreads

ASSUME BuilderAssumption ==
    /\ MaxThreads \in Nat \ {0}
    /\ Broken \subseteq Entities
    /\ Nothing \notin Entities

VARIABLES
    nbThreads,   \* how many builders this pool was constructed with
    queue,       \* myBVHToBuildList
    wakeEvent, idleEvent,
    toStop,      \* myToStopBVHThread
    isStarted,
    mutex,       \* who holds each builder's mutex: nobody, "builder", "viewer"
    dirty,       \* the entities whose ToBuildBVH() is true
    pc,          \* of each builder
    hand,        \* anEntity
    viewer,      \* where the viewer's thread is
    purpose,     \* what it locks the builders' mutexes for
    at,          \* its place in the array of threads
    calls

shared  == <<queue, wakeEvent, idleEvent>>
life    == <<nbThreads, toStop, isStarted>>
builder == <<pc, hand>>
main    == <<viewer, purpose, at, calls>>
vars    == <<shared, life, mutex, dirty, builder, main>>

Init ==
    /\ nbThreads \in Builders
    /\ queue = << >>
    /\ wakeEvent = FALSE /\ idleEvent = TRUE
    /\ toStop = FALSE /\ isStarted = FALSE
    /\ mutex = [t \in Builders |-> "nobody"]
    /\ dirty = Entities
    /\ pc = [t \in Builders |-> "off"]
    /\ hand = [t \in Builders |-> Nothing]
    /\ viewer = "ready" /\ purpose = "none" /\ at = 1 /\ calls = 0

Goto(t, label) == pc' = [pc EXCEPT ![t] = label]

-----------------------------------------------------------------------------
(* Faulty forms of the operators below, as a plausible bug would write     *)
(* them; no action uses one.                                               *)

FaultyFree(t) == TRUE
FaultyIdleWhenTaken(q) == TRUE
FaultyAwake(q) == wakeEvent /\ Len(q) > 1
FaultyAfterBuild(t) == IF hand[t] \in Broken THEN "off" ELSE "wait"

\* A mutex is free for whoever asks next.
Free(t) == mutex[t] = "nobody"

\* BVH() clears the flag only when the tree is there.
StillDirty(e) == IF e \in Broken THEN dirty ELSE dirty \ {e}

\* Append to the list.
Queued(e) == Append(queue, e)

\* Is the idle event set, is the wake event kept, by a builder that found the
\* list to be q?
IdleWhenTaken(q) == idleEvent \/ q = << >>
Awake(q) == wakeEvent /\ q # << >>

\* Every exception of BVH() is caught in the builder's loop.
AfterBuild(t) == "wait"

-----------------------------------------------------------------------------
(* The viewer's thread.                                                    *)

Calls == viewer = "ready" /\ calls < MaxCalls /\ calls' = calls + 1

\* An entity that waits in the list or in a builder's hand is not queued
\* again: a computed selection has new entities.
Pending(e) == e \in {queue[i] : i \in DOMAIN queue} \cup {hand[t] : t \in Builders}

AddEntity(e) ==
    /\ Calls
    /\ e \in dirty /\ ~Pending(e)
    /\ queue' = Queued(e)
    /\ wakeEvent' = TRUE
    /\ idleEvent' = FALSE
    /\ isStarted' = TRUE
    /\ pc' = IF isStarted THEN pc ELSE [t \in Builders |->
                                    IF t <= nbThreads THEN "wait" ELSE "off"]
    /\ UNCHANGED <<nbThreads, toStop, mutex, dirty, hand, viewer, purpose, at>>

WaitThreads ==
    /\ Calls
    /\ viewer' = "waiting"
    /\ UNCHANGED <<shared, life, mutex, dirty, builder, purpose, at>>

WaitIdle ==
    /\ viewer = "waiting"
    /\ idleEvent
    /\ viewer' = "locking" /\ purpose' = "wait" /\ at' = 1
    /\ UNCHANGED <<shared, life, mutex, dirty, builder, calls>>

\* TraverseSensitives holds every builder's mutex.
TraverseSensitives ==
    /\ Calls
    /\ viewer' = "locking" /\ purpose' = "pick" /\ at' = 1
    /\ UNCHANGED <<shared, life, mutex, dirty, builder>>

SentryLock ==
    /\ viewer = "locking"
    /\ \/ /\ at <= nbThreads
          /\ Free(at)
          /\ mutex' = [mutex EXCEPT ![at] = "viewer"]
          /\ at' = at + 1
          /\ UNCHANGED viewer
       \/ /\ at > nbThreads
          /\ viewer' = IF purpose = "pick" THEN "picking" ELSE "unlocking"
          /\ at' = 1
          /\ UNCHANGED mutex
    /\ UNCHANGED <<shared, life, dirty, builder, purpose, calls>>

\* Matching an entity builds its tree when no builder has; an exception
\* leaves through the sentry's destructor.
Pick(e) ==
    /\ viewer = "picking"
    /\ dirty' = StillDirty(e)
    /\ viewer' = "unlocking"
    /\ UNCHANGED <<shared, life, mutex, builder, purpose, at, calls>>

SentryUnlock ==
    /\ viewer = "unlocking"
    /\ \/ /\ at <= nbThreads
          /\ mutex' = [mutex EXCEPT ![at] = "nobody"]
          /\ at' = at + 1
          /\ UNCHANGED viewer
       \/ /\ at > nbThreads
          /\ viewer' = IF purpose = "wait" THEN "waited" ELSE "ready"
          /\ UNCHANGED <<mutex, at>>
    /\ UNCHANGED <<shared, life, dirty, builder, purpose, calls>>

\* WaitThreads has come back.
Waited ==
    /\ viewer = "waited"
    /\ viewer' = "ready"
    /\ UNCHANGED <<shared, life, mutex, dirty, builder, purpose, at, calls>>

\* The destructor: StopThreads, which returns at once when none was started.
StopThreads ==
    /\ viewer = "ready"
    /\ viewer' = IF isStarted THEN "wake" ELSE "gone"
    /\ toStop' = isStarted
    /\ at' = 1
    /\ UNCHANGED <<shared, nbThreads, isStarted, mutex, dirty, builder, purpose, calls>>

StopWake ==
    /\ viewer = "wake"
    /\ wakeEvent' = TRUE
    /\ viewer' = "join"
    /\ UNCHANGED <<queue, idleEvent, life, mutex, dirty, builder, purpose, at, calls>>

StopJoin ==
    /\ viewer = "join"
    /\ \/ /\ at <= nbThreads
          /\ pc[at] = "off"
          /\ at' = at + 1
          /\ UNCHANGED <<life, viewer>>
       \/ /\ at > nbThreads
          /\ toStop' = FALSE /\ isStarted' = FALSE
          /\ viewer' = "gone"
          /\ UNCHANGED <<nbThreads, at>>
    /\ UNCHANGED <<shared, mutex, dirty, builder, purpose, calls>>

-----------------------------------------------------------------------------
(* A builder: performThread.                                               *)

WakeUp(t) ==
    /\ pc[t] = "wait"
    /\ wakeEvent
    /\ Goto(t, "check")
    /\ UNCHANGED <<shared, life, mutex, dirty, hand, main>>

CheckStop(t) ==
    /\ pc[t] = "check"
    /\ Goto(t, IF toStop THEN "off" ELSE "take")
    /\ UNCHANGED <<shared, life, mutex, dirty, hand, main>>

\* Under the list's mutex.
TakeFirst(t) ==
    /\ pc[t] = "take"
    /\ wakeEvent' = Awake(queue)
    /\ idleEvent' = IdleWhenTaken(queue)
    /\ \/ /\ queue = << >>
          /\ Goto(t, "wait")
          /\ UNCHANGED <<queue, hand>>
       \/ /\ queue # << >>
          /\ hand' = [hand EXCEPT ![t] = Head(queue)]
          /\ queue' = Tail(queue)
          /\ Goto(t, "lock")
    /\ UNCHANGED <<life, mutex, dirty, main>>

LockOwn(t) ==
    /\ pc[t] = "lock"
    /\ Free(t)
    /\ mutex' = [mutex EXCEPT ![t] = "builder"]
    /\ Goto(t, "build")
    /\ UNCHANGED <<shared, life, dirty, hand, main>>

Build(t) ==
    /\ pc[t] = "build"
    /\ dirty' = StillDirty(hand[t])
    /\ hand' = [hand EXCEPT ![t] = Nothing]
    /\ mutex' = [mutex EXCEPT ![t] = "nobody"]
    /\ Goto(t, AfterBuild(t))
    /\ UNCHANGED <<shared, life, main>>

-----------------------------------------------------------------------------

ViewerStep ==
    \/ WaitIdle \/ SentryLock \/ SentryUnlock \/ Waited
    \/ \E e \in Entities : Pick(e)
    \/ StopWake \/ StopJoin

BuilderStep(t) ==
    WakeUp(t) \/ CheckStop(t) \/ TakeFirst(t) \/ LockOwn(t) \/ Build(t)

Next ==
    \/ \E e \in Entities : AddEntity(e)
    \/ WaitThreads \/ TraverseSensitives \/ StopThreads
    \/ ViewerStep
    \/ \E t \in Builders : BuilderStep(t)

Spec == Init /\ [][Next]_vars

\* Every thread is scheduled; what the viewer calls next is its choice.
Fairness == WF_vars(ViewerStep) /\ \A t \in Builders : WF_vars(BuilderStep(t))

FairSpec == Spec /\ Fairness

-----------------------------------------------------------------------------
(* Properties.                                                             *)

TypeOK ==
    /\ nbThreads \in Builders
    /\ queue \in Seq(Entities)
    /\ {wakeEvent, idleEvent, toStop, isStarted} \subseteq BOOLEAN
    /\ mutex \in [Builders -> {"nobody", "builder", "viewer"}]
    /\ dirty \subseteq Entities
    /\ pc \in [Builders -> {"off", "wait", "check", "take", "lock", "build"}]
    /\ hand \in [Builders -> Entities \cup {Nothing}]
    /\ at \in 1 .. nbThreads + 1
    /\ viewer \in {"ready", "waiting", "locking", "picking", "unlocking",
                   "waited", "wake", "join", "gone"}

\* The trees are not locked themselves: no two builders may work on one, and
\* none on any while the viewer picks (the sentry of TraverseSensitives).
BuildsApart ==
    /\ TypeOK
    /\ viewer = "picking" => \A t \in Builders : pc[t] # "build"
    /\ \A t, u \in Builders :
          pc[t] = "build" /\ pc[u] = "build" /\ hand[t] = hand[u] => t = u

\* The events tell the truth of the list, whichever builder reset or set them
\* last: work in the list has an awake builder, and idle means an empty list
\* (AddEntity and performThread, under myBVHListMutex).
EventsTellTruth ==
    /\ queue # << >> => wakeEvent
    /\ idleEvent => queue = << >>

\* When WaitThreads comes back builders have taken whatever was queued, and one
\* of them is through with all it took: the one that set the idle event.  The
\* others may each be short of one entity; with a sole builder all is built, or
\* was found to be unbuildable.
WaitMeansTaken == viewer = "waited" =>
    /\ queue = << >>
    /\ \E t \in 1 .. nbThreads : hand[t] = Nothing

\* WaitThreads comes back.
WaitReturns == viewer = "waiting" ~> viewer = "waited"

\* What is queued is built in the background, unless the pool goes first or
\* the entity cannot be built.
QueuedIsBuilt == \A e \in Entities \ Broken :
    Pending(e) ~> e \notin dirty \/ viewer \in {"wake", "join", "gone"}

-----------------------------------------------------------------------------
(* What the header says.                                                   *)

\* "Waits for all threads finish their jobs" (SelectMgr_BVHThreadPool.hxx):
\* nothing that was queued is still to be built when WaitThreads comes back.
\* True of one builder; with two, one that has taken an entity and does not
\* hold its mutex yet is not waited for.
WaitMeansBuilt == viewer = "waited" => \A e \in Entities : ~Pending(e)

\* "Stops threads": the destructor comes back.  A builder that looked at the
\* stop flag just before it was set finds the list empty and resets the wake
\* event that was to make it look again.
StopReturns == viewer = "wake" ~> viewer = "gone"

=============================================================================
