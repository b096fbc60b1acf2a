------------------------- MODULE VisualizationProofs -------------------------
(* Proofs about the threads of the Visualization module: BvhBuilders, for    *)
(* any number of builders, entities and calls, and MediaPlayer, for any      *)
(* inputs, habits of the viewer and numbers of packets and calls.            *)
EXTENDS BvhBuilders, MediaPlayer, SequenceTheorems, TLAPS

-----------------------------------------------------------------------------
(* BvhBuilders.                                                              *)

\* Who holds a builder's mutex: the builder while it builds, the viewer from
\* where the sentry locked it to where it unlocks it.
Locks ==
    /\ \A t \in Builders : mutex[t] = "builder" <=> pc[t] = "build"
    /\ viewer = "locking" => \A t \in Builders : t < at => mutex[t] = "viewer"
    /\ viewer = "picking" => \A t \in Builders : t <= nbThreads => mutex[t] = "viewer"
    /\ viewer = "unlocking" =>
           \A t \in Builders : at <= t /\ t <= nbThreads => mutex[t] = "viewer"

\* The builders that run: those the pool has, once it has started them, and
\* none that was joined.
Running ==
    /\ \A t \in Builders : t > nbThreads \/ ~isStarted => pc[t] = "off"
    /\ viewer = "wake" => at = 1
    /\ viewer = "join" => \A t \in Builders : t < at => pc[t] = "off"

\* An entity is in one place: once in the list, or in one builder's hand.
Single ==
    /\ \A i, j \in 1 .. Len(queue) : queue[i] = queue[j] => i = j
    /\ \A t \in Builders : hand[t] # Nothing <=> pc[t] \in {"lock", "build"}
    /\ \A t, u \in Builders : hand[t] = hand[u] /\ hand[t] # Nothing => t = u
    /\ \A t \in Builders : \A i \in 1 .. Len(queue) : queue[i] # hand[t]

\* One of the pool's builders has nothing in its hand.
OneIdles == \E t \in 1 .. nbThreads : hand[t] = Nothing

\* While WaitThreads holds the mutexes and when it returns, nothing is left
\* to take, and the builder that found the list empty has nothing in its hand.
Drained ==
    /\ viewer \in {"locking", "unlocking", "waited"} /\ purpose = "wait" =>
           queue = << >> /\ OneIdles
    /\ viewer = "waited" => purpose = "wait"
    /\ viewer = "picking" => purpose = "pick"
    /\ idleEvent => OneIdles

Safe == TypeOK /\ Locks /\ Running /\ Single /\ EventsTellTruth /\ Drained

-----------------------------------------------------------------------------

LEMMA InitSafe == Init => Safe
<1> SUFFICES ASSUME Init PROVE Safe OBVIOUS
<1> USE BuilderAssumption DEF Init, Builders
<1>1. queue \in Seq(Entities) /\ Len(queue) = 0 OBVIOUS
<1>2. at \in 1 .. nbThreads + 1 OBVIOUS
<1>3. /\ mutex \in [Builders -> {"nobody", "builder", "viewer"}]
      /\ pc \in [Builders -> {"off", "wait", "check", "take", "lock", "build"}]
      /\ hand \in [Builders -> Entities \cup {Nothing}]
  OBVIOUS
<1>4. TypeOK BY <1>1, <1>2, <1>3 DEF TypeOK
<1>5. Locks /\ Running BY DEF Locks, Running
<1>6. Single BY <1>1 DEF Single
<1>7. OneIdles
  <2>1. 1 \in 1 .. nbThreads /\ hand[1] = Nothing OBVIOUS
  <2> QED BY <2>1 DEF OneIdles
<1>8. EventsTellTruth /\ Drained BY <1>7 DEF EventsTellTruth, Drained
<1> QED BY <1>4, <1>5, <1>6, <1>8 DEF Safe

\* Appending a new entity, taking the first: the list stays free of doubles.
LEMMA Appended ==
    ASSUME NEW q \in Seq(Entities), NEW e \in Entities
    PROVE  /\ Append(q, e) \in Seq(Entities)
           /\ Len(q) \in Nat /\ Len(Append(q, e)) = Len(q) + 1
           /\ \A i \in 1 .. Len(q) : Append(q, e)[i] = q[i]
           /\ Append(q, e)[Len(q) + 1] = e
           /\ Append(q, e) # << >>
<1>1. Len(q) \in Nat BY LenProperties
<1>2. /\ Append(q, e) \in Seq(Entities) /\ Len(Append(q, e)) = Len(q) + 1
      /\ \A i \in 1 .. Len(q) : Append(q, e)[i] = q[i]
      /\ Append(q, e)[Len(q) + 1] = e
  BY AppendProperties
<1>3. Append(q, e) # << >> BY <1>1, <1>2, EmptySeq
<1> QED BY <1>1, <1>2, <1>3

LEMMA Taken ==
    ASSUME NEW q \in Seq(Entities), q # << >>
    PROVE  /\ Head(q) \in Entities /\ Head(q) = q[1] /\ 1 \in 1 .. Len(q)
           /\ Tail(q) \in Seq(Entities)
           /\ Len(q) \in Nat /\ Len(Tail(q)) = Len(q) - 1
           /\ \A i \in 1 .. Len(Tail(q)) : Tail(q)[i] = q[i + 1] /\ i + 1 \in 1 .. Len(q)
<1>1. Len(q) \in Nat /\ Len(q) >= 1 BY EmptySeq, LenProperties
<1>2. /\ Head(q) \in Entities /\ Tail(q) \in Seq(Entities)
      /\ Len(Tail(q)) = Len(q) - 1
      /\ \A i \in 1 .. Len(Tail(q)) : Tail(q)[i] = q[i + 1]
  BY HeadTailProperties
<1>3. Head(q) = q[1] OBVIOUS
<1> QED BY <1>1, <1>2, <1>3

-----------------------------------------------------------------------------
(* The viewer's thread.                                                    *)

LEMMA AddEntitySafe ==
    ASSUME Safe, NEW e \in Entities, AddEntity(e) PROVE Safe'
<1> USE BuilderAssumption DEF Safe, AddEntity, Calls, Queued, Builders
<1>1. /\ queue' \in Seq(Entities) /\ Len(queue) \in Nat /\ Len(queue') = Len(queue) + 1
      /\ \A i \in 1 .. Len(queue) : queue'[i] = queue[i]
      /\ queue'[Len(queue) + 1] = e /\ queue' # << >>
  BY Appended DEF TypeOK
<1>2. /\ \A i \in 1 .. Len(queue) : queue[i] # e
      /\ \A t \in Builders : hand[t] # e
  <2>1. DOMAIN queue = 1 .. Len(queue) BY LenProperties DEF TypeOK
  <2> QED BY <2>1 DEF Pending
<1>3. pc' \in [Builders -> {"off", "wait", "check", "take", "lock", "build"}] BY DEF TypeOK
<1>4. TypeOK' BY <1>1, <1>3 DEF TypeOK
<1>5. \A t \in Builders : pc'[t] # pc[t] => pc[t] = "off" /\ pc'[t] = "wait" /\ t <= nbThreads
  BY DEF Running, TypeOK
<1>6. Locks' BY <1>5 DEF Locks
<1>7. Running'
  <2>1. \A t \in Builders : t > nbThreads => pc'[t] = "off" BY DEF Running, TypeOK
  <2> QED BY <2>1 DEF Running
<1>8. Single'
  <2>1. \A i \in 1 .. Len(queue') : i \in 1 .. Len(queue) \/ i = Len(queue) + 1 BY <1>1
  <2>2. \A i, j \in 1 .. Len(queue') : queue'[i] = queue'[j] => i = j
    BY <1>1, <1>2, <2>1 DEF Single
  <2>3. \A t \in Builders : \A i \in 1 .. Len(queue') : queue'[i] # hand[t]
    BY <1>1, <1>2, <2>1 DEF Single
  <2> QED BY <1>5, <2>2, <2>3 DEF Single
<1>9. EventsTellTruth' BY <1>1 DEF EventsTellTruth
<1>10. Drained' BY DEF Drained
<1> QED BY <1>4, <1>6, <1>7, <1>8, <1>9, <1>10

\* Steps that touch neither the list nor the builders.
LEMMA ViewerSafe ==
    ASSUME Safe,
           \/ WaitThreads \/ TraverseSensitives \/ StopThreads
           \/ WaitIdle \/ Waited \/ StopWake \/ StopJoin
           \/ \E e \in Entities : Pick(e)
    PROVE  Safe'
<1> USE BuilderAssumption DEF Safe, Calls, Builders, shared, life, builder, main
<1>1. /\ UNCHANGED <<queue, mutex, pc, hand, nbThreads>>
      /\ idleEvent' = idleEvent /\ wakeEvent' \in {wakeEvent, TRUE}
  BY DEF WaitThreads, TraverseSensitives, StopThreads, WaitIdle, Waited, StopWake,
         StopJoin, Pick
<1>2. TypeOK'
  <2>1. 1 \in 1 .. nbThreads + 1 BY DEF TypeOK
  <2>2. CASE WaitThreads BY <2>1, <2>2 DEF TypeOK, WaitThreads
  <2>3. CASE TraverseSensitives BY <2>1, <2>3 DEF TypeOK, TraverseSensitives
  <2>4. CASE StopThreads BY <2>1, <2>4 DEF TypeOK, StopThreads
  <2>5. CASE WaitIdle BY <2>1, <2>5 DEF TypeOK, WaitIdle
  <2>6. CASE Waited BY <2>6 DEF TypeOK, Waited
  <2>7. CASE StopWake BY <2>7 DEF TypeOK, StopWake
  <2>8. CASE StopJoin
    <3>1. at' \in 1 .. nbThreads + 1 BY <2>8 DEF TypeOK, StopJoin
    <3>2. UNCHANGED <<nbThreads, queue, wakeEvent, idleEvent, mutex, dirty, pc, hand>>
      BY <2>8 DEF StopJoin
    <3>3. {toStop', isStarted'} \subseteq BOOLEAN /\ viewer' \in {"join", "gone"}
      BY <2>8 DEF TypeOK, StopJoin
    <3> QED BY <3>1, <3>2, <3>3 DEF TypeOK
  <2>9. ASSUME NEW e \in Entities, Pick(e) PROVE TypeOK'
    BY <2>9 DEF TypeOK, Pick, StillDirty
  <2> QED BY <2>2, <2>3, <2>4, <2>5, <2>6, <2>7, <2>8, <2>9
<1>3. Locks'
  BY <1>1 DEF Locks, TypeOK, WaitThreads, TraverseSensitives, StopThreads, WaitIdle,
     Waited, StopWake, StopJoin, Pick
<1>4. Running'
  <2>1. CASE StopJoin BY <1>1, <2>1 DEF Running, StopJoin, TypeOK
  <2>2. CASE StopWake BY <1>1, <2>2 DEF Running, StopWake, TypeOK, Builders
  <2>4. CASE StopThreads BY <1>1, <2>4 DEF Running, StopThreads
  <2>3. ASSUME ~StopJoin, ~StopWake, ~StopThreads
        PROVE  isStarted' = isStarted /\ viewer' \notin {"wake", "join"}
    BY <2>3 DEF WaitThreads, TraverseSensitives, WaitIdle, Waited, Pick
  <2> QED BY <1>1, <2>1, <2>2, <2>3, <2>4 DEF Running
<1>5. Single' BY <1>1 DEF Single
<1>6. EventsTellTruth' BY <1>1 DEF EventsTellTruth
<1>7. Drained'
  <2> OneIdles' = OneIdles BY <1>1 DEF OneIdles
  <2>1. CASE WaitIdle BY <1>1, <2>1 DEF Drained, EventsTellTruth, WaitIdle
  <2>2. CASE TraverseSensitives BY <1>1, <2>2 DEF Drained, TraverseSensitives
  <2>3. CASE WaitThreads \/ Waited \/ StopThreads
    BY <1>1, <2>3 DEF Drained, WaitThreads, Waited, StopThreads
  <2>4. CASE StopWake \/ StopJoin BY <1>1, <2>4 DEF Drained, StopWake, StopJoin
  <2>5. ASSUME NEW e \in Entities, Pick(e) PROVE Drained'
    <3>1. purpose # "wait" BY <2>5 DEF Pick, Drained
    <3> QED BY <1>1, <2>5, <3>1 DEF Drained, Pick
  <2> QED BY <2>1, <2>2, <2>3, <2>4, <2>5
<1> QED BY <1>2, <1>3, <1>4, <1>5, <1>6, <1>7

\* The sentry's steps: only mutexes that are free are taken, only the
\* viewer's are given back.
LEMMA SentrySafe == ASSUME Safe, SentryLock \/ SentryUnlock PROVE Safe'
<1> USE BuilderAssumption DEF Safe, Builders, shared, life, builder
<1>1. UNCHANGED <<queue, wakeEvent, idleEvent, nbThreads, toStop, isStarted, pc, hand, purpose>>
  BY DEF SentryLock, SentryUnlock
<1>2. nbThreads \in Nat /\ at \in Nat /\ nbThreads \in Builders /\ MaxThreads \in Nat
  BY DEF TypeOK
<1>3. TypeOK'
  <2>1. /\ mutex' \in [Builders -> {"nobody", "builder", "viewer"}]
        /\ at' \in 1 .. nbThreads + 1
        /\ viewer' \in {"locking", "picking", "unlocking", "waited", "ready"}
        /\ dirty' = dirty
    BY <1>2 DEF TypeOK, SentryLock, SentryUnlock
  <2> QED BY <1>1, <2>1 DEF TypeOK
<1>4. Locks'
  <2>1. CASE SentryLock BY <1>1, <1>2, <2>1 DEF Locks, TypeOK, SentryLock, Free
  <2>2. CASE SentryUnlock BY <1>1, <1>2, <2>2 DEF Locks, TypeOK, SentryUnlock
  <2> QED BY <2>1, <2>2
<1>5. Running' BY <1>1 DEF Running, SentryLock, SentryUnlock
<1>6. Single' BY <1>1 DEF Single
<1>7. EventsTellTruth' BY <1>1 DEF EventsTellTruth
<1>8. Drained'
  <2>1. OneIdles' = OneIdles BY <1>1 DEF OneIdles
  <2> QED BY <1>1, <2>1 DEF Drained, SentryLock, SentryUnlock
<1> QED BY <1>3, <1>4, <1>5, <1>6, <1>7, <1>8

-----------------------------------------------------------------------------
(* A builder.                                                              *)

\* Waking up, looking at the stop flag, locking the mutex.
LEMMA BuilderMoves ==
    ASSUME Safe, NEW t \in Builders, WakeUp(t) \/ CheckStop(t) \/ LockOwn(t)
    PROVE  Safe'
<1> USE BuilderAssumption DEF Safe, Builders, Goto, shared, life, main
<1>1. /\ UNCHANGED <<queue, wakeEvent, idleEvent, nbThreads, toStop, isStarted, hand, dirty>>
      /\ UNCHANGED <<viewer, purpose, at>>
      /\ pc[t] \in {"wait", "check", "lock"}
      /\ \A u \in Builders : u # t => pc'[u] = pc[u] /\ mutex'[u] = mutex[u]
      /\ pc' \in [Builders -> {"off", "wait", "check", "take", "lock", "build"}]
      /\ mutex' \in [Builders -> {"nobody", "builder", "viewer"}]
  BY DEF WakeUp, CheckStop, LockOwn, TypeOK
<1>2. \/ pc[t] = "lock" /\ pc'[t] = "build" /\ mutex[t] = "nobody" /\ mutex'[t] = "builder"
      \/ pc[t] # "lock" /\ pc'[t] \in {"off", "check", "take"} /\ mutex'[t] = mutex[t]
  BY DEF WakeUp, CheckStop, LockOwn, Free, TypeOK
<1>3. TypeOK' BY <1>1 DEF TypeOK
<1>4. Locks' BY <1>1, <1>2 DEF Locks, TypeOK
<1>5. Running' BY <1>1 DEF Running, TypeOK
<1>6. Single' BY <1>1, <1>2 DEF Single
<1>7. OneIdles' = OneIdles BY <1>1 DEF OneIdles
<1>8. EventsTellTruth' /\ Drained' BY <1>1, <1>7 DEF EventsTellTruth, Drained
<1> QED BY <1>3, <1>4, <1>5, <1>6, <1>8

LEMMA TakeFirstSafe ==
    ASSUME Safe, NEW t \in Builders, TakeFirst(t) PROVE Safe'
<1> USE BuilderAssumption DEF Safe, Builders, TakeFirst, Goto, IdleWhenTaken, Awake, life, main
<1>1. /\ UNCHANGED <<nbThreads, toStop, isStarted, mutex, dirty, viewer, purpose, at>>
      /\ pc[t] = "take" /\ hand[t] = Nothing
      /\ \A u \in Builders : u # t => pc'[u] = pc[u] /\ hand'[u] = hand[u]
      /\ pc' \in [Builders -> {"off", "wait", "check", "take", "lock", "build"}]
  BY DEF TypeOK, Single
<1>2. CASE queue = << >>
  <2>1. /\ UNCHANGED <<queue, hand>> /\ wakeEvent' = FALSE /\ idleEvent' = TRUE
        /\ pc'[t] = "wait"
    BY <1>2 DEF TypeOK
  <2>2. TypeOK' BY <1>1, <2>1 DEF TypeOK
  <2>3. Locks' BY <1>1, <2>1 DEF Locks
  <2>4. Running' BY <1>1, <2>1 DEF Running, TypeOK
  <2>5. Single' BY <1>1, <2>1 DEF Single
  <2>6. EventsTellTruth' BY <1>2, <2>1 DEF EventsTellTruth
  <2>7. Drained'
    <3>1. t \in 1 .. nbThreads BY <1>1 DEF Running, TypeOK
    <3>2. OneIdles' BY <1>1, <2>1, <3>1 DEF OneIdles
    <3> QED BY <1>1, <1>2, <2>1, <3>2 DEF Drained
  <2> QED BY <2>2, <2>3, <2>4, <2>5, <2>6, <2>7
<1>3. CASE queue # << >>
  <2>1. /\ queue \in Seq(Entities) /\ Nothing \notin Entities BY DEF TypeOK
  <2>2. /\ Head(queue) \in Entities /\ Head(queue) = queue[1] /\ 1 \in 1 .. Len(queue)
        /\ Tail(queue) \in Seq(Entities) /\ Len(queue) \in Nat
        /\ \A i \in 1 .. Len(Tail(queue)) :
              Tail(queue)[i] = queue[i + 1] /\ i + 1 \in 1 .. Len(queue)
    BY <1>3, <2>1, Taken
  <2>3. /\ queue' = Tail(queue) /\ hand'[t] = Head(queue) /\ pc'[t] = "lock"
        /\ hand' \in [Builders -> Entities \cup {Nothing}]
        /\ wakeEvent' = TRUE /\ idleEvent' = FALSE /\ idleEvent = FALSE
    <3>1. wakeEvent = TRUE /\ idleEvent = FALSE BY <1>3 DEF TypeOK, EventsTellTruth
    <3>2. queue' = Tail(queue) /\ hand' = [hand EXCEPT ![t] = Head(queue)] /\ pc'[t] = "lock"
      BY <1>3 DEF TypeOK
    <3>3. wakeEvent' = TRUE /\ idleEvent' = FALSE BY <1>3, <3>1
    <3>4. hand'[t] = Head(queue) /\ hand' \in [Builders -> Entities \cup {Nothing}]
      BY <2>2, <3>2 DEF TypeOK
    <3> QED BY <3>1, <3>2, <3>3, <3>4
  <2>4. TypeOK' BY <1>1, <2>2, <2>3 DEF TypeOK
  <2>5. Locks' BY <1>1, <2>3 DEF Locks
  <2>6. Running' BY <1>1, <2>3 DEF Running, TypeOK
  <2>7. Single'
    <3>1. \A i, j \in 1 .. Len(queue') : queue'[i] = queue'[j] => i = j
      <4>1. \A i, j \in 1 .. Len(Tail(queue)) : queue[i + 1] = queue[j + 1] => i + 1 = j + 1
        BY <2>2 DEF Single
      <4>2. Len(Tail(queue)) \in Nat BY <2>2, LenProperties
      <4> QED BY <2>2, <2>3, <4>1, <4>2
    <3>2. \A u \in Builders : hand'[u] # Nothing <=> pc'[u] \in {"lock", "build"}
      BY <1>1, <2>1, <2>2, <2>3 DEF Single
    <3>3. \A u \in Builders : u # t => hand'[u] # hand'[t]
      BY <1>1, <2>2, <2>3 DEF Single
    <3>4. \A u, v \in Builders : hand'[u] = hand'[v] /\ hand'[u] # Nothing => u = v
      BY <1>1, <3>3 DEF Single
    <3>5. \A i \in 1 .. Len(queue') : queue'[i] # hand'[t]
      <4>1. \A i \in 1 .. Len(Tail(queue)) : queue[i + 1] = queue[1] => i + 1 = 1
        BY <2>2 DEF Single
      <4>2. Len(Tail(queue)) \in Nat BY <2>2, LenProperties
      <4> QED BY <2>2, <2>3, <4>1, <4>2
    <3>6. \A u \in Builders : u # t => \A i \in 1 .. Len(queue') : queue'[i] # hand'[u]
      BY <1>1, <2>2, <2>3 DEF Single
    <3> QED BY <3>1, <3>2, <3>4, <3>5, <3>6 DEF Single
  <2>8. EventsTellTruth' BY <2>3 DEF EventsTellTruth
  <2>9. Drained' BY <1>1, <1>3, <2>3 DEF Drained
  <2> QED BY <2>4, <2>5, <2>6, <2>7, <2>8, <2>9
<1> QED BY <1>2, <1>3

LEMMA BuildSafe == ASSUME Safe, NEW t \in Builders, Build(t) PROVE Safe'
<1> USE BuilderAssumption DEF Safe, Builders, Build, Goto, AfterBuild, StillDirty, shared, life, main
<1>1. /\ UNCHANGED <<queue, wakeEvent, idleEvent, nbThreads, toStop, isStarted>>
      /\ UNCHANGED <<viewer, purpose, at>> /\ dirty' \subseteq Entities
      /\ pc[t] = "build" /\ pc'[t] = "wait" /\ hand'[t] = Nothing
      /\ mutex[t] = "builder" /\ mutex'[t] = "nobody"
      /\ \A u \in Builders :
            u # t => pc'[u] = pc[u] /\ hand'[u] = hand[u] /\ mutex'[u] = mutex[u]
      /\ pc' \in [Builders -> {"off", "wait", "check", "take", "lock", "build"}]
      /\ mutex' \in [Builders -> {"nobody", "builder", "viewer"}]
      /\ hand' \in [Builders -> Entities \cup {Nothing}]
  BY DEF TypeOK, Locks
<1>2. TypeOK' BY <1>1 DEF TypeOK
<1>3. Locks' BY <1>1 DEF Locks, TypeOK
<1>4. Running' BY <1>1 DEF Running, TypeOK
<1>5. Single'
  <2>1. \A i \in 1 .. Len(queue) : queue[i] # Nothing
    BY ElementOfSeq DEF TypeOK
  <2> QED BY <1>1, <2>1 DEF Single
<1>6. OneIdles => OneIdles' BY <1>1 DEF OneIdles, TypeOK
<1>7. EventsTellTruth' /\ Drained' BY <1>1, <1>6 DEF EventsTellTruth, Drained
<1> QED BY <1>2, <1>3, <1>4, <1>5, <1>7

-----------------------------------------------------------------------------

LEMMA NextSafe == ASSUME Safe, [Next]_vars PROVE Safe'
<1>1. CASE UNCHANGED vars
  BY <1>1 DEF vars, shared, life, builder, main, Safe, TypeOK, Locks, Running, Single,
     EventsTellTruth, Drained, OneIdles
<1>2. ASSUME NEW e \in Entities, AddEntity(e) PROVE Safe' BY <1>2, AddEntitySafe
<1>3. CASE \/ WaitThreads \/ TraverseSensitives \/ StopThreads
           \/ WaitIdle \/ Waited \/ StopWake \/ StopJoin
           \/ \E e \in Entities : Pick(e)
  BY <1>3, ViewerSafe
<1>4. CASE SentryLock \/ SentryUnlock BY <1>4, SentrySafe
<1>5. ASSUME NEW t \in Builders, BuilderStep(t) PROVE Safe'
  BY <1>5, BuilderMoves, TakeFirstSafe, BuildSafe DEF BuilderStep
<1> QED BY <1>1, <1>2, <1>3, <1>4, <1>5 DEF Next, ViewerStep

LEMMA Invariance == Spec => []Safe
<1> QED BY InitSafe, NextSafe, PTL DEF Spec

\* No two builders work on one tree, and none while the viewer picks.
THEOREM TreesApart == Spec => []BuildsApart
<1>1. Safe => BuildsApart
  <2> SUFFICES ASSUME Safe PROVE BuildsApart OBVIOUS
  <2>1. ASSUME viewer = "picking", NEW t \in Builders PROVE pc[t] # "build"
    BY <2>1, BuilderAssumption DEF Safe, Locks, Running, TypeOK, Builders
  <2> QED BY <2>1 DEF Safe, Single, BuildsApart
<1> QED BY <1>1, Invariance, PTL

\* The events agree with the list, whoever wrote them last.
THEOREM EventsTrue == Spec => []EventsTellTruth
<1>1. Safe => EventsTellTruth BY DEF Safe
<1> QED BY <1>1, Invariance, PTL

\* WaitThreads comes back to an empty list and to a builder with nothing in its
\* hand, however many builders there are.
THEOREM WaitEmpties == Spec => []WaitMeansTaken
<1>1. Safe => WaitMeansTaken
  BY DEF Safe, Drained, OneIdles, WaitMeansTaken
<1> QED BY <1>1, Invariance, PTL

-----------------------------------------------------------------------------
(* MediaPlayer.                                                              *)

LEMMA InitTyping == PlayerInit => PlayerTypeOK
<1> SUFFICES ASSUME PlayerInit PROVE PlayerTypeOK OBVIOUS
<1> USE PlayerAssumption DEF PlayerInit, Frames, NoFrame
<1>1. {path, input, open, picture, asked} \subseteq Inputs \cup {None} OBVIOUS
<1>2. {started, playerWake, nextEvent, toShutDown, toPresent, alive, wasSeeked} \subseteq BOOLEAN
  OBVIOUS
<1>3. locked \in [Frames -> BOOLEAN] OBVIOUS
<1>4. packets \in 0 .. MaxPackets OBVIOUS
<1>5. /\ habit \in Habits /\ event \in {"NONE", "PAUSE", "RESUME", "SEEK", "NEXT"}
      /\ front \in Frames /\ held \in Frames \cup {NoFrame}
  OBVIOUS
<1> QED BY <1>1, <1>2, <1>3, <1>4, <1>5 DEF PlayerTypeOK

LEMMA BackFrame == ASSUME PlayerTypeOK PROVE Back \in Frames
  BY DEF PlayerTypeOK, Back, Frames

\* The viewer's calls and steps keep the types.
LEMMA ViewerTyping ==
    ASSUME PlayerTypeOK,
           \/ \E p \in Inputs \cup {None}, toWait \in habit.waits : SetInput(p, toWait)
           \/ \E e \in habit.controls : pushPlayEvent(e)
           \/ SwapFrames \/ DestroySet \/ CallerStep
    PROVE  PlayerTypeOK'
<1> USE PlayerAssumption DEF PlayerTypeOK, Frames, NoFrame, control, pair, file, frame, calling, Commands
<1>1. ASSUME NEW p \in Inputs \cup {None}, NEW toWait \in habit.waits, SetInput(p, toWait)
      PROVE  PlayerTypeOK'
  BY <1>1 DEF SetInput
<1>2. ASSUME NEW e \in habit.controls, pushPlayEvent(e) PROVE PlayerTypeOK'
  <2>1. e \in {"PAUSE", "RESUME", "SEEK"} OBVIOUS
  <2> QED BY <1>2, <2>1 DEF pushPlayEvent
<1>3. CASE SwapFrames
  <2>1. Back \in Frames BY BackFrame
  <2>2. front' \in Frames /\ toPresent' \in BOOLEAN BY <1>3, <2>1 DEF SwapFrames
  <2> HIDE DEF Frames, NoFrame
  <2> QED BY <1>3, <2>2 DEF SwapFrames
<1>4. CASE DestroySet BY <1>4 DEF DestroySet
<1>5. CASE WaitNext BY <1>5 DEF WaitNext
<1>6. CASE Returned BY <1>6 DEF Returned
<1>7. CASE ShutDown BY <1>7 DEF ShutDown
<1>8. CASE ShutDownWake BY <1>8 DEF ShutDownWake
<1>9. CASE Join BY <1>9 DEF Join
<1> QED BY <1>1, <1>2, <1>3, <1>4, <1>5, <1>6, <1>7, <1>8, <1>9 DEF CallerStep

\* The player's thread keeps the types.
LEMMA ThreadTyping == ASSUME PlayerTypeOK, ThreadStep PROVE PlayerTypeOK'
<1> USE PlayerAssumption DEF PlayerTypeOK, Frames, NoFrame, control, pair, file, frame, calling
<1>1. CASE WaitWake BY <1>1 DEF WaitWake
<1>2. CASE ResetWake BY <1>2 DEF ResetWake
<1>3. CASE CheckShutDown BY <1>3 DEF CheckShutDown
<1>4. CASE TakeInput BY <1>4 DEF TakeInput
<1>5. CASE SignalNext BY <1>5 DEF SignalNext
<1>6. CASE OpenInput BY <1>6 DEF OpenInput
<1>7. CASE Begin
  <2>1. MaxPackets \in 0 .. MaxPackets OBVIOUS
  <2>2. packets' \in 0 .. MaxPackets BY <1>7, <2>1 DEF Begin
  <2>3. {open', picture'} \subseteq Inputs \cup {None} /\ started' \in BOOLEAN
    BY <1>7 DEF Begin, Closed, Reopened
  <2>4. place' \in {"wait", "packet"} BY <1>7 DEF Begin
  <2> HIDE DEF Frames, NoFrame
  <2> QED BY <1>7, <2>2, <2>3, <2>4 DEF Begin
<1>8. CASE ReadPacket BY <1>8 DEF ReadPacket, Leave, Closed, More
<1>9. CASE SendPacket BY <1>9 DEF SendPacket, Popped, Leave, Closed
<1>10. CASE PopInFrame
  <2>1. CASE Stops BY <1>10, <2>1 DEF PopInFrame, Leave, Closed
  <2>2. CASE ~Stops
    <3>1. MaxPackets \in 0 .. MaxPackets OBVIOUS
    <3>2. /\ packets' \in 0 .. MaxPackets
          /\ picture' \in Inputs \cup {None}
          /\ event' = "NONE"
          /\ {started', wasSeeked'} \subseteq BOOLEAN
      BY <1>10, <2>2, <3>1 DEF PopInFrame, Popped
    <3>3. open' \in Inputs \cup {None} /\ place' \in {"wait", "lock"}
      BY <1>10, <2>2 DEF PopInFrame, Leave, Closed
    <3> HIDE DEF Frames, NoFrame
    <3> QED BY <1>10, <3>2, <3>3 DEF PopInFrame
  <2> QED BY <2>1, <2>2
<1>11. CASE LockFrame
  <2>1. Back \in Frames BY BackFrame
  <2>2. /\ locked' \in [Frames -> BOOLEAN] /\ held' \in Frames \cup {NoFrame}
        /\ picture' \in Inputs \cup {None} /\ place' \in {"frame", "decode"}
    BY <1>11, <2>1 DEF LockFrame
  <2> HIDE DEF Frames, NoFrame
  <2> QED BY <1>11, <2>2 DEF LockFrame
<1>12. CASE receiveFrame BY <1>12 DEF receiveFrame
<1>13. CASE ReleaseFrame BY <1>13 DEF ReleaseFrame
<1>14. CASE NotYet BY <1>14 DEF NotYet
<1> QED BY <1>1, <1>2, <1>3, <1>4, <1>5, <1>6, <1>7, <1>8, <1>9, <1>10, <1>11,
           <1>12, <1>13, <1>14 DEF ThreadStep

LEMMA NextTyping == ASSUME PlayerTypeOK, [PlayerNext]_playerVars PROVE PlayerTypeOK'
<1>1. CASE UNCHANGED playerVars
  BY <1>1 DEF playerVars, control, pair, file, frame, calling, PlayerTypeOK
<1> QED BY <1>1, ViewerTyping, ThreadTyping DEF PlayerNext

\* Every variable keeps its type, the numbers of packets and of the frame at
\* the front included.
THEOREM Typing == PlayerSpec => []PlayerTypeOK
<1> QED BY InitTyping, NextTyping, PTL DEF PlayerSpec

-----------------------------------------------------------------------------

\* Where the player's thread writes is never what the viewer shows: the front
\* changes only when a frame is to be presented, a frame is locked only when
\* none is.
LEMMA NextApart == ASSUME PlayerTypeOK, NoTearing, [PlayerNext]_playerVars PROVE NoTearing'
<1> USE DEF PlayerTypeOK, NoTearing, Frames, NoFrame, Back, control, pair, file, frame, calling
<1>1. CASE LockFrame BY <1>1 DEF LockFrame, Lockable
<1>2. CASE ReleaseFrame BY <1>2 DEF ReleaseFrame
<1>3. CASE SwapFrames BY <1>3 DEF SwapFrames
<1>4. CASE UNCHANGED <<held, front, locked, toPresent>> BY <1>4
<1>5. ASSUME [PlayerNext]_playerVars, ~LockFrame, ~ReleaseFrame, ~SwapFrames
      PROVE  UNCHANGED <<held, front, locked, toPresent>>
  <2>1. CASE UNCHANGED playerVars BY <2>1 DEF playerVars
  <2>2. CASE CallerStep
    BY <2>2 DEF CallerStep, WaitNext, Returned, ShutDown, ShutDownWake, Join
  <2>3. CASE ThreadStep
    BY <1>5, <2>3 DEF ThreadStep, WaitWake, ResetWake, CheckShutDown, TakeInput,
       SignalNext, OpenInput, Begin, ReadPacket, SendPacket, PopInFrame, receiveFrame,
       NotYet
  <2>4. ASSUME NEW p, NEW toWait, SetInput(p, toWait)
        PROVE  UNCHANGED <<held, front, locked, toPresent>>
    BY <2>4 DEF SetInput
  <2>5. ASSUME NEW e, pushPlayEvent(e)
        PROVE  UNCHANGED <<held, front, locked, toPresent>>
    BY <2>5 DEF pushPlayEvent
  <2>6. CASE DestroySet BY <2>6 DEF DestroySet
  <2> QED BY <1>5, <2>1, <2>2, <2>3, <2>4, <2>5, <2>6 DEF PlayerNext
<1> QED BY <1>1, <1>2, <1>3, <1>4, <1>5

\* The frame the thread decodes into is neither the one shown nor one that is
\* still to be taken, in any number of inputs, swaps and seeks.
THEOREM FramesApart == PlayerSpec => []NoTearing
<1>1. PlayerInit => NoTearing BY DEF PlayerInit, NoTearing
<1> QED BY <1>1, NextApart, Typing, PTL DEF PlayerSpec

-----------------------------------------------------------------------------

\* The picture in a frame that is kept from file to file: forgotten when a
\* file is begun, and decoded from the one that is open.
LEMMA NextOwn == ASSUME PlayerTypeOK, OwnPictures, [PlayerNext]_playerVars PROVE OwnPictures'
<1> USE DEF OwnPictures, control, pair, file, frame, calling
<1>1. CASE UNCHANGED <<place, picture, open>> BY <1>1
<1>2. ASSUME [PlayerNext]_playerVars, ~ThreadStep PROVE UNCHANGED <<place, picture, open>>
  <2>1. CASE UNCHANGED playerVars BY <2>1 DEF playerVars
  <2>2. CASE CallerStep
    BY <2>2 DEF CallerStep, WaitNext, Returned, ShutDown, ShutDownWake, Join
  <2>3. ASSUME NEW p, NEW toWait, SetInput(p, toWait)
        PROVE  UNCHANGED <<place, picture, open>>
    BY <2>3 DEF SetInput
  <2>4. ASSUME NEW e, pushPlayEvent(e) PROVE UNCHANGED <<place, picture, open>>
    BY <2>4 DEF pushPlayEvent
  <2>5. CASE SwapFrames \/ DestroySet BY <2>5 DEF SwapFrames, DestroySet
  <2> QED BY <1>2, <2>1, <2>2, <2>3, <2>4, <2>5 DEF PlayerNext
<1>3. CASE WaitWake \/ ResetWake \/ CheckShutDown \/ TakeInput \/ SignalNext \/ OpenInput
  BY <1>3 DEF WaitWake, ResetWake, CheckShutDown, TakeInput, SignalNext, OpenInput
<1>4. CASE Begin BY <1>4 DEF Begin, Reopened
<1>5. CASE ReadPacket BY <1>5 DEF ReadPacket, Leave
<1>6. CASE SendPacket BY <1>6 DEF SendPacket, Popped, Leave
<1>7. CASE PopInFrame BY <1>7 DEF PopInFrame, Popped, Leave
<1>8. CASE LockFrame BY <1>8 DEF LockFrame
<1>9. CASE receiveFrame BY <1>9 DEF receiveFrame
<1>10. CASE ReleaseFrame \/ NotYet BY <1>10 DEF ReleaseFrame, NotYet
<1> QED BY <1>1, <1>2, <1>3, <1>4, <1>5, <1>6, <1>7, <1>8, <1>9, <1>10 DEF ThreadStep

\* No picture is shown in another file's name, whatever the order of inputs,
\* seeks and frames that could not be decoded.
THEOREM PicturesOwn == PlayerSpec => []OwnPictures
<1>1. PlayerInit => OwnPictures BY DEF PlayerInit, OwnPictures
<1> QED BY <1>1, NextOwn, Typing, PTL DEF PlayerSpec

-----------------------------------------------------------------------------

\* The habit under which SetInput's answer can be relied upon.
OnlyWaits == habit = [waits |-> {TRUE}, controls |-> {}]

\* No file is open while the thread waits for an input or takes one.
FileClosed == place \in {"wait", "reset", "check", "take", "next", "open", "off"} => open = None

\* The thread is past the wake-up and has not answered it yet.
Waking  == place \in {"reset", "check", "take"}

\* The last input was answered: no wake-up is left, and the file that is open
\* or is about to be is the last one asked for.
Answered ==
    /\ ~playerWake /\ ~Waking /\ place # "next"
    /\ open \in {None, asked}
    /\ place = "open" => input = asked

\* It was not yet: the wake-up or the thread is on its way, with the input.
Unanswered ==
    /\ ~nextEvent
    /\ \/ path = asked /\ place # "next" /\ (playerWake <=> place \notin {"check", "take"})
       \/ input = asked /\ place = "next" /\ ~playerWake

\* What ties SetInput's wait to the thread's answer.
Answering ==
    OnlyWaits => /\ caller \in {"ready", "returned"} => Answered
                 /\ caller = "waiting" => Answered \/ Unanswered

\* Only the destructor tells the thread to end.
EndsAtLast == toShutDown => caller \in {"wake", "join", "gone"}

ReleaseInv == FileClosed /\ EndsAtLast /\ Answering

LEMMA InitReleased == PlayerInit => ReleaseInv
  BY DEF PlayerInit, ReleaseInv, FileClosed, EndsAtLast, Answering, Answered, Waking

\* The viewer's thread: SetInput puts an answered player in an unanswered
\* state, whatever it was doing, and only an answer lets the viewer go on.
LEMMA ViewerReleased ==
    ASSUME ReleaseInv,
           \/ \E p \in Inputs \cup {None}, toWait \in habit.waits : SetInput(p, toWait)
           \/ \E e \in habit.controls : pushPlayEvent(e)
           \/ SwapFrames \/ DestroySet \/ CallerStep
    PROVE  ReleaseInv'
<1> USE DEF ReleaseInv, FileClosed, EndsAtLast, Answering, Answered, Unanswered, Waking,
            OnlyWaits, control, pair, file, frame, calling, Commands
<1>1. ASSUME NEW p \in Inputs \cup {None}, NEW toWait \in habit.waits, SetInput(p, toWait)
      PROVE  ReleaseInv'
  <2>1. OnlyWaits => toWait = TRUE OBVIOUS
  <2> QED BY <1>1, <2>1 DEF SetInput
<1>2. ASSUME NEW e \in habit.controls, pushPlayEvent(e) PROVE ReleaseInv'
  <2>1. OnlyWaits => habit.controls = {} OBVIOUS
  <2>2. ~OnlyWaits BY <2>1
  <2> QED BY <1>2, <2>2 DEF pushPlayEvent
<1>3. CASE SwapFrames BY <1>3 DEF SwapFrames
<1>4. CASE DestroySet BY <1>4 DEF DestroySet
<1>5. CASE WaitNext BY <1>5 DEF WaitNext
<1>6. CASE Returned BY <1>6 DEF Returned
<1>7. CASE ShutDown BY <1>7 DEF ShutDown
<1>8. CASE ShutDownWake BY <1>8 DEF ShutDownWake
<1>9. CASE Join BY <1>9 DEF Join
<1> QED BY <1>1, <1>2, <1>3, <1>4, <1>5, <1>6, <1>7, <1>8, <1>9 DEF CallerStep

\* The player's thread: it answers only with the file of the last input closed
\* and the new one in hand.
LEMMA ThreadReleased == ASSUME ReleaseInv, ThreadStep PROVE ReleaseInv'
<1> USE DEF ReleaseInv, FileClosed, EndsAtLast, Answering, Answered, Unanswered, Waking,
            OnlyWaits, control, pair, file, frame, calling
<1>1. CASE WaitWake BY <1>1 DEF WaitWake
<1>2. CASE ResetWake BY <1>2 DEF ResetWake
<1>3. CASE CheckShutDown BY <1>3 DEF CheckShutDown
<1>4. CASE TakeInput BY <1>4 DEF TakeInput
<1>5. CASE SignalNext BY <1>5 DEF SignalNext
<1>6. CASE OpenInput BY <1>6 DEF OpenInput
<1>7. CASE Begin BY <1>7 DEF Begin, Closed
<1>8. CASE ReadPacket BY <1>8 DEF ReadPacket, Leave, Closed
<1>9. CASE SendPacket BY <1>9 DEF SendPacket, Popped, Leave, Closed
<1>10. CASE PopInFrame BY <1>10 DEF PopInFrame, Popped, Leave, Closed
<1>11. CASE LockFrame BY <1>11 DEF LockFrame
<1>12. CASE receiveFrame BY <1>12 DEF receiveFrame
<1>13. CASE ReleaseFrame BY <1>13 DEF ReleaseFrame
<1>14. CASE NotYet BY <1>14 DEF NotYet
<1> QED BY <1>1, <1>2, <1>3, <1>4, <1>5, <1>6, <1>7, <1>8, <1>9, <1>10, <1>11,
           <1>12, <1>13, <1>14 DEF ThreadStep

LEMMA NextReleased == ASSUME ReleaseInv, [PlayerNext]_playerVars PROVE ReleaseInv'
<1>1. CASE UNCHANGED playerVars
  BY <1>1 DEF playerVars, control, pair, file, frame, calling, ReleaseInv, FileClosed, EndsAtLast,
     Answering, Answered, Unanswered, Waking, OnlyWaits
<1> QED BY <1>1, ViewerReleased, ThreadReleased DEF PlayerNext

LEMMA ReleaseEnough == ReleaseInv => ReleasedOnReturn
  BY DEF ReleaseInv, Answering, Answered, OnlyWaits, ReleasedOnReturn

\* A viewer that always waits and sends no other event has the file of its
\* last input, or none, when SetInput comes back: whatever the thread was
\* doing, through any number of inputs and failures to open them.
THEOREM Released == PlayerSpec => []ReleasedOnReturn
<1> QED BY InitReleased, NextReleased, ReleaseEnough, PTL DEF PlayerSpec

=============================================================================
