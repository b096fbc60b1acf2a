-------------------------- MODULE ThreadPoolProofs --------------------------
(* Proofs about ThreadPool, for pools of any size, any launchers, nested or  *)
(* not, queries and reinitialisations: who holds a worker, the events and    *)
(* jobs of the workers, and the loops as ParallelFor promises them.          *)
EXTENDS ThreadPool, FiniteSetTheorems, TLAPS

Typed ==
    /\ size \in 0 .. MaxSize /\ target \in 0 .. MaxSize /\ locked \in 0 .. size
    /\ usage \in [Workers -> {0, 1}]
    /\ threads \in [Launchers -> Seq(Workers)]
    /\ parent \in [Launchers -> Executors \cup {Nobody}]
    /\ pos \in [Launchers \cup Probes \cup {Owner} -> Nat \ {0}]
    /\ DOMAIN pc = Executors \cup Probes \cup {Owner}

\* Where a process stands in the array it walks.  Init goes on to replace the
\* pool's only when it has locked it all and nobody else walks it.
Placed ==
    /\ \A l \in Launchers : pc[l] = "signal" => pos[l] <= Len(threads[l])
    /\ \A p \in Probes : pc[p] = "unprobe" => pos[p] <= size
    /\ pc[Owner] = "lock" => locked = pos[Owner] - 1
    /\ pc[Owner] \in {"release", "joining"} => locked = size /\ ~Walked

\* The caller of a nested launcher does nothing meanwhile.
Waits ==
    /\ \A l \in Launchers : parent[l] \in Launchers => pc[parent[l]] = "nested"
    /\ \A l, m \in Launchers : parent[l] = parent[m] /\ parent[l] \in Launchers => l = m

\* A launcher has each of its workers once, and only of the pool as it is.
Distinct ==
    \A l \in Launchers : \A i, j \in DOMAIN threads[l] : threads[l][i] = threads[l][j] => i = j
Within == \A w \in Workers : \A l \in Holders(w) : l \in Launchers => w <= size

\* OneHolder, without counting.
Apart == \A w \in Workers :
    /\ \A x, y \in Holders(w) : x = y
    /\ usage[w] = 0 => Holders(w) = {}

Safe == Typed /\ Placed /\ Waits /\ Distinct /\ Within /\ Apart

LEMMA Processes ==
    /\ MaxSize \in Nat /\ Nobody \notin Launchers /\ Owner \notin Launchers
    /\ \A l \in Launchers : l \notin Workers /\ l \notin Probes /\ l # Owner
    /\ \A w \in Workers : w \in Nat \ {0} /\ w \notin Probes /\ w # Owner /\ w # Nobody
    /\ \A p \in Probes : p # Owner
    /\ \A n \in Sizes : n \in 0 .. MaxSize
  BY SizeAssumption DEF Workers

LEMMA InitSafe == Init => Safe
<1> SUFFICES ASSUME Init PROVE Safe OBVIOUS
<1> USE Processes DEF Init
<1>1. \A w \in Workers : Holders(w) = {}
  <2> TAKE w \in Workers
  <2>1. \A l \in Launchers : DOMAIN threads[l] = {} OBVIOUS
  <2>2. \A p \in Probes : pc[p] = "none" OBVIOUS
  <2>3. ~(w <= locked) BY DEF Workers
  <2> QED BY <2>1, <2>2, <2>3 DEF Holders
<1>2. Typed
  <2>1. usage \in [Workers -> {0, 1}] OBVIOUS
  <2>2. threads \in [Launchers -> Seq(Workers)]
    <3>1. << >> \in Seq(Workers) OBVIOUS
    <3> QED BY <3>1
  <2>3. pos \in [Launchers \cup Probes \cup {Owner} -> Nat \ {0}]
    <3>1. 1 \in Nat \ {0} OBVIOUS
    <3>2. pos = [p \in Launchers \cup Probes \cup {Owner} |-> 1] OBVIOUS
    <3> QED BY <3>1, <3>2
  <2>4. parent \in [Launchers -> Executors \cup {Nobody}] OBVIOUS
  <2> QED BY <2>1, <2>2, <2>3, <2>4 DEF Typed
<1>3. Placed BY DEF Placed, Executors
<1>4. Waits BY DEF Waits
<1>5. Distinct BY DEF Distinct
<1> QED BY <1>1, <1>2, <1>3, <1>4, <1>5 DEF Safe, Within, Apart

-----------------------------------------------------------------------------
(* What a step may do to the holders of a worker.                          *)

LEMMA Keeping ==
    ASSUME Apart, UNCHANGED usage, \A w \in Workers : Holders(w)' \subseteq Holders(w)
    PROVE  Apart'
  BY DEF Apart

LEMMA Taking ==
    ASSUME Apart, NEW v \in Workers, NEW x, usage[v] = 0,
           usage \in [Workers -> {0, 1}], usage' = [usage EXCEPT ![v] = 1],
           \A w \in Workers : Holders(w)' \subseteq
               Holders(w) \cup (IF w = v THEN {x} ELSE {})
    PROVE  Apart'
<1>1. ASSUME NEW w \in Workers, w # v
      PROVE  (\A y, z \in Holders(w)' : y = z) /\ (usage'[w] = 0 => Holders(w)' = {})
  <2>1. Holders(w)' \subseteq Holders(w) /\ usage'[w] = usage[w] BY <1>1
  <2> QED BY <2>1 DEF Apart
<1>2. (\A y, z \in Holders(v)' : y = z) /\ usage'[v] = 1
  <2>1. Holders(v) = {} BY DEF Apart
  <2> QED BY <2>1
<1> QED BY <1>1, <1>2 DEF Apart

LEMMA Freeing ==
    ASSUME Apart, NEW v \in Workers, NEW x \in Holders(v),
           usage \in [Workers -> {0, 1}], usage' = [usage EXCEPT ![v] = 0],
           \A w \in Workers : Holders(w)' \subseteq
               Holders(w) \ (IF w = v THEN {x} ELSE {})
    PROVE  Apart'
<1>1. ASSUME NEW w \in Workers, w # v
      PROVE  (\A y, z \in Holders(w)' : y = z) /\ (usage'[w] = 0 => Holders(w)' = {})
  <2>1. Holders(w)' \subseteq Holders(w) /\ usage'[w] = usage[w] BY <1>1
  <2> QED BY <2>1 DEF Apart
<1>2. Holders(v)' = {} BY DEF Apart
<1> QED BY <1>1, <1>2 DEF Apart

\* The steps of a loop: a launcher goes from one place to another, between the
\* constructor and the destructor, or enters the latter.
LEMMA Looping ==
    ASSUME Safe, UNCHANGED <<size, target, locked, usage, threads, parent>>,
           pos' \in [Launchers \cup Probes \cup {Owner} -> Nat \ {0}],
           DOMAIN pc' = DOMAIN pc,
           \A p \in Probes \cup {Owner} : pc'[p] = pc[p] /\ pos'[p] = pos[p],
           \A l \in Launchers :
               \/ pc'[l] = pc[l] /\ pos'[l] = pos[l]
               \/ /\ pc[l] \notin {"lock", "free", "nested"}
                  /\ pc'[l] \notin {"lock", "nested", "probe", "unprobe"}
                  /\ pc'[l] = "free" => pos'[l] = 1
                  /\ pc'[l] = "signal" => pos'[l] <= Len(threads[l])
    PROVE  Safe'
<1>1. Typed' BY DEF Safe, Typed
<1>2. Placed'
  <2>1. \A l \in Launchers : pc'[l] = "signal" => pos'[l] <= Len(threads[l])
    BY DEF Safe, Placed
  <2>2. Walked' => Walked BY DEF Walked
  <2> QED BY <2>1, <2>2 DEF Safe, Placed
<1>3. Waits' BY DEF Safe, Waits
<1>4. Distinct' BY DEF Safe, Distinct
<1>5. \A w \in Workers : Holders(w)' \subseteq Holders(w)
  <2>1. ASSUME NEW w \in Workers, NEW l \in Launchers,
               NEW i \in DOMAIN threads[l], pc'[l] = "free" => i >= pos'[l]
        PROVE  pc[l] = "free" => i >= pos[l]
    BY <2>1
  <2> QED BY <2>1 DEF Holders
<1>6. Within' BY <1>5 DEF Safe, Within
<1>7. Apart' BY <1>5, Keeping DEF Safe
<1> QED BY <1>1, <1>2, <1>3, <1>4, <1>6, <1>7 DEF Safe


LEMMA ReleaseSafe == ASSUME Safe, NEW l \in Launchers, Release(l) PROVE Safe'
  BY Looping, Processes DEF Release, Goto, pool, worker, launcher, Safe, Typed, Executors

LEMMA PerformSafe == ASSUME Safe, NEW l \in Launchers, NEW r, Perform(l, r) PROVE Safe'
  BY Looping, Processes DEF Perform, Goto, pool, worker, Safe, Typed, Executors

\* An executor takes an index, or its functor comes back, or throws.
LEMMA RunsSafe == ASSUME Safe, NEW e \in Executors, Runs(e) PROVE Safe'
<1>1. UNCHANGED <<size, target, locked, usage, threads, parent>>
  BY DEF Runs, Take, CallReturns, CallThrows, pool, worker, launcher
<1>2. /\ pc[e] \in {"take", "call"}
      /\ \E to \in {"call", "take", "clear", "join"} : pc' = [pc EXCEPT ![e] = to]
  BY DEF Runs, Take, CallReturns, CallThrows, Goto, AfterJob
<1>3. pos' = pos \/ (e \notin Workers /\ pos' = [pos EXCEPT ![e] = 1])
  BY DEF Runs, Take, CallReturns, CallThrows
<1>4. \A p \in Probes \cup {Owner} : p # e BY Processes DEF Executors
<1>5. DOMAIN pc' = DOMAIN pc BY <1>2
<1>6. pos' \in [Launchers \cup Probes \cup {Owner} -> Nat \ {0}]
  <2>1. pos \in [Launchers \cup Probes \cup {Owner} -> Nat \ {0}] BY DEF Safe, Typed
  <2>2. CASE pos' = pos BY <2>1, <2>2
  <2>3. CASE pos' = [pos EXCEPT ![e] = 1]
    <3>1. 1 \in Nat \ {0} OBVIOUS
    <3> QED BY <2>1, <2>3, <3>1
  <2> QED BY <1>3, <2>2, <2>3
<1>7. \A p \in Probes \cup {Owner} : pc'[p] = pc[p] /\ pos'[p] = pos[p]
  BY <1>2, <1>3, <1>4 DEF Safe, Typed
<1>8. ASSUME NEW l \in Launchers
      PROVE  \/ pc'[l] = pc[l] /\ pos'[l] = pos[l]
             \/ /\ pc[l] \notin {"lock", "free", "nested"}
                /\ pc'[l] \notin {"lock", "nested", "probe", "unprobe", "free", "signal"}
  BY <1>2, <1>3 DEF Safe, Typed, Executors
<1> QED BY <1>1, <1>5, <1>6, <1>7, <1>8, Looping

LEMMA LoopSafe ==
    ASSUME Safe, NEW l \in Launchers,
           WakeJob(l) \/ Signal(l) \/ Join(l) \/ ResetIdle(l) \/ Report(l)
    PROVE  Safe'
<1>1. UNCHANGED <<size, target, locked, usage, threads, parent>>
  BY DEF WakeJob, Signal, Join, ResetIdle, Report, pool, worker, launcher
<1>2. CASE Signal(l)
  <2> DEFINE w == threads[l][pos[l]]
  <2>1. w \in Workers BY <1>2 DEF Signal, Safe, Typed, Placed
  <2>2. /\ pos' = [pos EXCEPT ![l] = @ + 1] /\ pc[l] = "signal"
        /\ \/ pc' = [pc EXCEPT ![l] = "wake"]
           \/ pc' = [pc EXCEPT ![l] = "wake", ![w] = "wait"]
    BY <1>2 DEF Signal
  <2> HIDE DEF w
  <2>3. pos' \in [Launchers \cup Probes \cup {Owner} -> Nat \ {0}]
    BY <2>2 DEF Safe, Typed
  <2>4. \A p \in Probes \cup {Owner} : pc'[p] = pc[p] /\ pos'[p] = pos[p]
    BY <2>1, <2>2, Processes DEF Safe, Typed
  <2>5. \A m \in Launchers : m # l => pc'[m] = pc[m] /\ pos'[m] = pos[m]
    BY <2>1, <2>2, Processes DEF Safe, Typed, Executors
  <2>6. pc'[l] = "wake" BY <2>1, <2>2, Processes DEF Safe, Typed, Executors
  <2>7. DOMAIN pc' = DOMAIN pc BY <2>2
  <2> QED BY <1>1, <2>2, <2>3, <2>4, <2>5, <2>6, <2>7, Looping
<1>3. CASE WakeJob(l)
  BY <1>1, <1>3, Looping, Processes DEF WakeJob, Goto, Safe, Typed, Executors
<1>4. CASE Join(l) \/ Report(l)
  BY <1>1, <1>4, Looping, Processes DEF Join, Report, Goto, Safe, Typed, Executors
<1>5. CASE ResetIdle(l)
  BY <1>1, <1>5, Looping, Processes DEF ResetIdle, Goto, Safe, Typed, Executors
<1> QED BY <1>2, <1>3, <1>4, <1>5

LEMMA WorkerSafe ==
    ASSUME Safe, NEW w \in Workers,
           WaitWake(w) \/ ResetWake(w) \/ BeginJob(w) \/ ClearJob(w) \/ SetIdle(w)
    PROVE  Safe'
<1>1. UNCHANGED <<size, target, locked, usage, threads, parent, pos>>
  BY DEF WaitWake, ResetWake, BeginJob, ClearJob, SetIdle, pool, worker, launcher
<1>2. \E to : pc' = [pc EXCEPT ![w] = to]
  BY DEF WaitWake, ResetWake, BeginJob, ClearJob, SetIdle, Goto
<1>3. \A p \in Launchers \cup Probes \cup {Owner} : pc'[p] = pc[p]
  BY <1>2, Processes DEF Safe, Typed, Executors
<1>4. DOMAIN pc' = DOMAIN pc BY <1>2
<1> QED BY <1>1, <1>3, <1>4, Looping DEF Safe, Typed

-----------------------------------------------------------------------------
(* The steps that lock and free workers.                                   *)

\* A launcher without workers yet begins to walk the array, which nobody is
\* about to replace; its functor, if it has one, waits.
LEMMA ConstructSafe ==
    ASSUME Safe, NEW l \in Launchers, NEW max, NEW e \in Executors \cup {Nobody},
           Construct(l, max, e),
           \/ e = Nobody /\ pc' = [pc EXCEPT ![l] = "lock"]
           \/ e # Nobody /\ pc[e] = "call" /\ pc' = [pc EXCEPT ![e] = "nested", ![l] = "lock"]
    PROVE  Safe'
<1>1. /\ pc[l] = "none" /\ pc[Owner] \notin {"release", "joining"}
      /\ UNCHANGED <<size, target, locked, usage>>
      /\ threads' = [threads EXCEPT ![l] = << >>] /\ parent' = [parent EXCEPT ![l] = e]
      /\ pos' = [pos EXCEPT ![l] = 1]
  BY DEF Construct, Stable, pool
<1>2. e # l BY <1>1, Processes
<1>3. /\ pc'[l] = "lock" /\ DOMAIN pc' = DOMAIN pc
      /\ \A p \in Probes \cup {Owner} : pc'[p] = pc[p] /\ pos'[p] = pos[p]
      /\ \A m \in Launchers : m \notin {l, e} => pc'[m] = pc[m]
      /\ e \in Launchers => pc[e] = "call" /\ pc'[e] = "nested"
  BY <1>1, <1>2, Processes DEF Safe, Typed, Executors
<1>4. /\ threads'[l] = << >> /\ parent'[l] = e
      /\ \A m \in Launchers : m # l =>
            threads'[m] = threads[m] /\ parent'[m] = parent[m] /\ pos'[m] = pos[m]
  BY <1>1 DEF Safe, Typed
<1>5. Typed'
  <2>1. << >> \in Seq(Workers) /\ 1 \in Nat \ {0} OBVIOUS
  <2> QED BY <1>1, <1>3, <2>1 DEF Safe, Typed
<1>6. Placed' BY <1>1, <1>3, <1>4 DEF Safe, Placed
<1>7. Waits'
  <2>1. ASSUME NEW m \in Launchers PROVE parent[m] # l /\ (e \in Launchers => parent[m] # e)
    BY <1>1, <1>3 DEF Safe, Waits
  <2> QED BY <1>3, <1>4, <2>1 DEF Safe, Waits
<1>8. Distinct' BY <1>4 DEF Safe, Distinct
<1>9. \A w \in Workers : Holders(w)' \subseteq Holders(w)
  <2>1. \A m \in Launchers : m # l /\ pc'[m] # "free" => pc[m] # "free"
    BY <1>3
  <2>2. \A m \in Launchers : m # l /\ pc'[m] = "free" => pc[m] = "free"
    BY <1>3
  <2>3. DOMAIN threads'[l] = {} BY <1>4
  <2> QED BY <1>1, <1>3, <1>4, <2>1, <2>2, <2>3 DEF Holders
<1>10. Within' BY <1>1, <1>9 DEF Safe, Within
<1>11. Apart' BY <1>1, <1>9, Keeping DEF Safe
<1> QED BY <1>5, <1>6, <1>7, <1>8, <1>10, <1>11 DEF Safe

LEMMA LockNextSafe == ASSUME Safe, NEW l \in Launchers, LockNext(l) PROVE Safe'
<1> DEFINE v == pos[l]
<1>1. /\ pc[l] = "lock" /\ UNCHANGED <<size, target, locked, parent>>
      /\ v \in Nat \ {0}
  BY DEF LockNext, pool, Safe, Typed
<1>2. CASE UNCHANGED <<usage, threads, pos>> /\ pc' = [pc EXCEPT ![l] = "ready"]
  <2>1. \A p \in (DOMAIN pc) \ {l} : pc'[p] = pc[p] BY <1>2
  <2>2. pc'[l] = "ready" /\ DOMAIN pc' = DOMAIN pc BY <1>2 DEF Safe, Typed, Executors
  <2>3. l # Owner /\ l \notin Probes BY Processes
  <2>4. Typed' BY <1>1, <1>2, <2>2 DEF Safe, Typed
  <2>5. Placed' BY <1>1, <1>2, <2>1, <2>2, <2>3 DEF Safe, Typed, Executors, Placed, Walked
  <2>6. Waits' BY <1>1, <1>2, <2>1, <2>2 DEF Safe, Typed, Executors, Waits
  <2>7. Distinct' BY <1>2 DEF Safe, Distinct
  <2>8. \A w \in Workers : Holders(w)' \subseteq Holders(w)
    <3>1. \A m \in Launchers : pc'[m] = "free" <=> pc[m] = "free"
      BY <1>1, <2>1, <2>2 DEF Safe, Typed, Executors
    <3>2. \A p \in Probes \cup {Owner} : pc'[p] = pc[p]
      BY <2>1, <2>3 DEF Safe, Typed
    <3> QED BY <1>1, <1>2, <3>1, <3>2 DEF Holders
  <2>9. Within' /\ Apart' BY <1>1, <1>2, <2>8, Keeping DEF Safe, Within
  <2> QED BY <2>4, <2>5, <2>6, <2>7, <2>9 DEF Safe
<1>3. CASE v <= size /\ UNCHANGED pc
  <2>1. /\ v \in Workers /\ usage' = [usage EXCEPT ![v] = 1]
        /\ pos' = [pos EXCEPT ![l] = v + 1]
        /\ IF usage[v] = 0 THEN threads' = [threads EXCEPT ![l] = Append(@, v)]
                           ELSE threads' = threads
    <3>1. v \in Workers BY <1>1, <1>3, Processes DEF Safe, Typed, Workers
    <3>2. ~(v > size) BY <1>1, <1>3, Processes DEF Safe, Typed
    <3>3. pc[l] # "ready" BY <1>1
    <3>4. ~Goto(l, "ready") BY <1>1, <1>3, <3>3 DEF Goto, Safe, Typed, Executors
    <3> QED BY <3>1, <3>4 DEF LockNext, Locked, Lockable
  <2> HIDE DEF v
  <2>2. \A m \in Launchers \cup Probes \cup {Owner} : m # l => pos'[m] = pos[m]
    BY <2>1 DEF Safe, Typed
  <2>3. Typed'
    <3>1. pos' \in [Launchers \cup Probes \cup {Owner} -> Nat \ {0}]
      BY <1>1, <2>1 DEF Safe, Typed
    <3>2. usage' \in [Workers -> {0, 1}] BY <2>1 DEF Safe, Typed
    <3>3. threads' \in [Launchers -> Seq(Workers)]
      <4>1. threads \in [Launchers -> Seq(Workers)] BY DEF Safe, Typed
      <4>2. Append(threads[l], v) \in Seq(Workers) BY <2>1, <4>1
      <4> QED BY <2>1, <4>1, <4>2
    <3> QED BY <1>1, <1>3, <3>1, <3>2, <3>3 DEF Safe, Typed
  <2>4. Placed'
    <3>1. pc[Owner] \notin {"release", "joining"} BY <1>1 DEF Safe, Placed, Walked
    <3>2. \A m \in Launchers : m # l => threads'[m] = threads[m]
      BY <2>1 DEF Safe, Typed
    <3> QED BY <1>1, <1>3, <2>2, <3>1, <3>2, Processes DEF Safe, Placed
  <2>5. Waits' BY <1>1, <1>3 DEF Safe, Waits
  <2>6. CASE usage[v] # 0
    <3>1. usage' = usage /\ threads' = threads BY <2>1, <2>6 DEF Safe, Typed
    <3>2. \A w \in Workers : Holders(w)' \subseteq Holders(w)
      BY <1>1, <1>3, <2>2, <3>1, Processes DEF Holders
    <3>3. Distinct' BY <3>1 DEF Safe, Distinct
    <3>4. Within' /\ Apart' BY <1>1, <3>1, <3>2, Keeping DEF Safe, Within
    <3> QED BY <2>3, <2>4, <2>5, <3>3, <3>4 DEF Safe
  <2>7. CASE usage[v] = 0
    <3>1. threads[l] \in Seq(Workers) BY DEF Safe, Typed
    <3>2. /\ threads'[l] = Append(threads[l], v)
          /\ \A m \in Launchers : m # l => threads'[m] = threads[m]
      BY <2>1, <2>7 DEF Safe, Typed
    <3>3. \A i \in DOMAIN threads[l] : threads[l][i] # v
      BY <1>1, <2>1, <2>7 DEF Safe, Apart, Holders
    <3>4. /\ DOMAIN threads'[l] = DOMAIN threads[l] \cup {Len(threads[l]) + 1}
          /\ threads'[l][Len(threads[l]) + 1] = v
          /\ \A i \in DOMAIN threads[l] : threads'[l][i] = threads[l][i]
      BY <3>1, <3>2
    <3>5. Distinct'
      <4>1. ASSUME NEW i \in DOMAIN threads'[l], NEW j \in DOMAIN threads'[l],
                   threads'[l][i] = threads'[l][j]
            PROVE  i = j
        <5>1. CASE i \in DOMAIN threads[l] /\ j \in DOMAIN threads[l]
          BY <3>4, <4>1, <5>1 DEF Safe, Distinct
        <5>2. CASE i \notin DOMAIN threads[l] \/ j \notin DOMAIN threads[l]
          BY <3>3, <3>4, <4>1, <5>2
        <5> QED BY <5>1, <5>2
      <4> QED BY <3>2, <4>1 DEF Safe, Distinct
    <3>6. ASSUME NEW w \in Workers
          PROVE  Holders(w)' \subseteq Holders(w) \cup (IF w = v THEN {l} ELSE {})
      <4>1. ASSUME NEW m \in Launchers, m \in Holders(w)'
            PROVE  m \in Holders(w) \cup (IF w = v THEN {l} ELSE {})
        <5>1. CASE m = l
          BY <1>1, <3>4, <4>1, <5>1, Processes DEF Holders
        <5>2. CASE m # l
          BY <1>3, <2>2, <3>2, <4>1, <5>2, Processes DEF Holders
        <5> QED BY <5>1, <5>2
      <4>2. ASSUME NEW p \in Probes \cup {Owner}, p \in Holders(w)' PROVE p \in Holders(w)
        BY <1>1, <1>3, <2>2, <4>2, Processes DEF Holders
      <4> QED BY <4>1, <4>2 DEF Holders
    <3>7. Apart' BY <2>1, <2>7, <3>6, Taking DEF Safe, Typed
    <3>8. Within'
      <4>1. v <= size BY <1>3 DEF v
      <4> QED BY <1>1, <3>6, <4>1 DEF Safe, Within
    <3> QED BY <2>3, <2>4, <2>5, <3>5, <3>7, <3>8 DEF Safe
  <2> QED BY <2>6, <2>7
<1>4. v > size \/ v <= size BY <1>1, Processes DEF Safe, Typed
<1> QED BY <1>2, <1>3, <1>4 DEF LockNext, Goto

LEMMA FreeNextSafe == ASSUME Safe, NEW l \in Launchers, FreeNext(l) PROVE Safe'
<1>1. /\ pc[l] = "free" /\ UNCHANGED <<size, target, locked>>
      /\ pos[l] \in Nat \ {0} /\ threads[l] \in Seq(Workers)
  BY DEF FreeNext, pool, Safe, Typed
<1>2. CASE pos[l] <= Len(threads[l])
  <2> DEFINE v == threads[l][pos[l]]
  <2>1. /\ v \in Workers /\ pos[l] \in DOMAIN threads[l] /\ usage' = [usage EXCEPT ![v] = 0]
        /\ pos' = [pos EXCEPT ![l] = @ + 1] /\ UNCHANGED <<threads, parent, pc>>
    BY <1>1, <1>2 DEF FreeNext, Freed
  <2>2. l \in Holders(v) BY <1>1, <2>1 DEF Holders
  <2>3. \A m \in Launchers \cup Probes \cup {Owner} : m # l => pos'[m] = pos[m]
    BY <2>1 DEF Safe, Typed
  <2>4. pos'[l] = pos[l] + 1 BY <2>1 DEF Safe, Typed
  <2>5. Typed'
    <3>1. pos' \in [Launchers \cup Probes \cup {Owner} -> Nat \ {0}]
      BY <1>1, <2>1 DEF Safe, Typed
    <3>2. usage' \in [Workers -> {0, 1}] BY <2>1 DEF Safe, Typed
    <3> QED BY <1>1, <2>1, <3>1, <3>2 DEF Safe, Typed
  <2>6. Placed' BY <1>1, <2>1, <2>3, Processes DEF Safe, Placed, Walked
  <2>7. Waits' /\ Distinct' BY <2>1 DEF Safe, Waits, Distinct
  <2>8. ASSUME NEW w \in Workers
        PROVE  Holders(w)' \subseteq Holders(w) \ (IF w = v THEN {l} ELSE {})
    <3>1. ASSUME NEW m \in Launchers, m \in Holders(w)'
          PROVE  m \in Holders(w) /\ (w = v => m # l)
      <4>1. PICK i \in DOMAIN threads[m] :
                    threads[m][i] = w /\ (pc[m] = "free" => i >= pos'[m])
        BY <2>1, <3>1, Processes DEF Holders
      <4>2. CASE m = l
        <5>1. i >= pos[l] + 1 BY <1>1, <2>4, <4>1, <4>2
        <5>2. i # pos[l] /\ i >= pos[l] BY <1>1, <4>1, <4>2, <5>1
        <5>3. w # v BY <2>1, <4>1, <4>2, <5>2 DEF Safe, Distinct
        <5> QED BY <4>1, <4>2, <5>2, <5>3 DEF Holders
      <4>3. CASE m # l BY <2>3, <4>1, <4>3 DEF Holders
      <4> QED BY <4>2, <4>3
    <3>2. ASSUME NEW p \in Probes \cup {Owner}, p \in Holders(w)'
          PROVE  p \in Holders(w) /\ p # l
      BY <1>1, <2>1, <2>3, <3>2, Processes DEF Holders
    <3> QED BY <3>1, <3>2 DEF Holders
  <2>9. Apart' BY <2>1, <2>2, <2>8, Freeing DEF Safe, Typed
  <2>10. Within' BY <1>1, <2>8 DEF Safe, Within
  <2> QED BY <2>5, <2>6, <2>7, <2>9, <2>10 DEF Safe
<1>3. CASE pos[l] > Len(threads[l])
  <2> DEFINE e == parent[l]
  <2>1. /\ UNCHANGED <<usage, pos>> /\ threads' = [threads EXCEPT ![l] = << >>]
        /\ parent' = [parent EXCEPT ![l] = Nobody]
        /\ \/ e = Nobody /\ pc' = [pc EXCEPT ![l] = "none"]
           \/ e # Nobody /\ pc' = [pc EXCEPT ![l] = "none", ![e] = "call"]
    BY <1>1, <1>3 DEF FreeNext
  <2>2. e \in Executors \cup {Nobody} BY DEF Safe, Typed
  <2>3. e \in Launchers => pc[e] = "nested" /\ e # l BY <1>1 DEF Safe, Waits
  <2>4. \A m \in Launchers : m # l /\ e \in Launchers => parent[m] # e
    BY DEF Safe, Waits
  <2>5. \A m \in Launchers : parent[m] # l BY <1>1 DEF Safe, Waits
  <2>6. /\ threads'[l] = << >> /\ parent'[l] = Nobody
        /\ \A m \in Launchers : m # l => threads'[m] = threads[m] /\ parent'[m] = parent[m]
    BY <2>1 DEF Safe, Typed
  <2> HIDE DEF e
  <2>7. /\ DOMAIN pc' = DOMAIN pc /\ pc'[l] = "none"
        /\ \A p \in Probes \cup {Owner} : pc'[p] = pc[p]
        /\ \A m \in Launchers : m \notin {l, e} => pc'[m] = pc[m]
        /\ e \in Launchers => pc'[e] = "call"
    <3>1. /\ DOMAIN pc = Executors \cup Probes \cup {Owner}
          /\ Launchers \subseteq Executors
          /\ e # Nobody => e \notin Probes \cup {Owner}
      BY <2>1, <2>2, Processes DEF Safe, Typed, Executors
    <3>2. l # Owner /\ l \notin Probes /\ (e \in Launchers => e # Nobody /\ e # l)
      BY <2>3, Processes
    <3>3. CASE e = Nobody
      <4>1. \A q \in (DOMAIN pc) \ {l} : pc'[q] = pc[q] BY <2>1, <3>3
      <4>2. pc'[l] = "none" /\ DOMAIN pc' = DOMAIN pc BY <2>1, <3>1, <3>3
      <4> QED BY <3>1, <3>2, <3>3, <4>1, <4>2
    <3>4. CASE e # Nobody
      <4>1. pc' = [pc EXCEPT ![l] = "none", ![e] = "call"] BY <2>1, <3>4
      <4>2. e # l /\ e \in DOMAIN pc BY <2>2, <2>3, <3>1, <3>4, Processes
      <4>3. \A q \in (DOMAIN pc) \ {l, e} : pc'[q] = pc[q] BY <4>1
      <4>4. pc'[l] = "none" /\ pc'[e] = "call" /\ DOMAIN pc' = DOMAIN pc
        BY <3>1, <4>1, <4>2
      <4> QED BY <3>1, <3>2, <3>4, <4>3, <4>4
    <3> QED BY <3>3, <3>4
  <2>8. Typed'
    <3>1. << >> \in Seq(Workers) OBVIOUS
    <3> QED BY <1>1, <2>1, <2>7, <3>1 DEF Safe, Typed
  <2>9. Placed'
    <3>1. \A m \in Launchers : pc'[m] \in {"signal", "lock", "probe", "unprobe"} =>
             pc'[m] = pc[m] /\ m # l
      BY <2>7
    <3>2. Walked' => Walked BY <2>7, <3>1 DEF Walked
    <3> QED BY <1>1, <2>1, <2>6, <2>7, <3>1, <3>2 DEF Safe, Placed
  <2>10. Waits' BY <2>4, <2>5, <2>6, <2>7, Processes DEF Safe, Waits
  <2>11. Distinct' BY <2>6 DEF Safe, Distinct
  <2>12. \A w \in Workers : Holders(w)' \subseteq Holders(w)
    <3>1. \A m \in Launchers : m # l /\ pc'[m] # "free" => pc[m] # "free"
      BY <2>3, <2>7
    <3>2. \A m \in Launchers : m # l /\ pc'[m] = "free" => pc[m] = "free"
      BY <2>3, <2>7
    <3>3. DOMAIN threads'[l] = {} BY <2>6
    <3> QED BY <1>1, <2>1, <2>6, <2>7, <3>1, <3>2, <3>3 DEF Holders
  <2>13. Within' /\ Apart' BY <1>1, <2>1, <2>12, Keeping DEF Safe, Within
  <2> QED BY <2>8, <2>9, <2>10, <2>11, <2>13 DEF Safe
<1> QED BY <1>1, <1>2, <1>3

-----------------------------------------------------------------------------
(* Queries, and Init with another size.                                    *)

LEMMA ProbeSafe ==
    ASSUME Safe, NEW p \in Probes, IsInUse(p) \/ ProbeStep(p) PROVE Safe'
<1>1. /\ UNCHANGED <<size, target, locked, threads, parent>>
      /\ p \notin Launchers /\ p # Owner /\ p \in DOMAIN pc
      /\ pos[p] \in Nat \ {0}
  BY Processes DEF IsInUse, ProbeStep, ProbeNext, ProbeFree, pool, launcher, Safe, Typed
<1>2. /\ pc[p] \in {"none", "probe", "unprobe"}
      /\ \E to \in {"none", "probe", "unprobe"} : pc' = [pc EXCEPT ![p] = to]
      /\ \/ pos' = pos
         \/ pos' = [pos EXCEPT ![p] = 1]
         \/ pos' = [pos EXCEPT ![p] = @ + 1]
  BY DEF IsInUse, ProbeStep, ProbeNext, ProbeFree, Goto
<1>3. \A q \in Launchers \cup Probes \cup {Owner} : q # p => pc'[q] = pc[q] /\ pos'[q] = pos[q]
  BY <1>2 DEF Safe, Typed, Executors
<1>4. DOMAIN pc' = DOMAIN pc BY <1>2
<1>5. pos' \in [Launchers \cup Probes \cup {Owner} -> Nat \ {0}]
  <2>1. pos \in [Launchers \cup Probes \cup {Owner} -> Nat \ {0}] BY DEF Safe, Typed
  <2>2. 1 \in Nat \ {0} /\ pos[p] + 1 \in Nat \ {0} BY <1>1
  <2> QED BY <1>2, <2>1, <2>2
<1>6. Waits' /\ Distinct' BY <1>1, <1>3 DEF Safe, Waits, Distinct
<1>7. \A q \in Launchers \cup {Owner} : q # p BY <1>1
<1>8. pc[p] \in {"none", "probe"} => p \notin UNION {Holders(w) : w \in Workers}
  BY <1>1 DEF Holders
<1>9. ASSUME NEW w \in Workers, NEW x \in Holders(w)', x # p PROVE x \in Holders(w)
  BY <1>1, <1>3, <1>9 DEF Holders
<1>10. CASE IsInUse(p)
  <2>1. /\ pc[Owner] \notin {"release", "joining"} /\ pc'[p] = "probe" /\ UNCHANGED usage
    BY <1>1, <1>10 DEF IsInUse, Stable, Goto, worker
  <2>2. Typed' BY <1>1, <1>4, <1>5, <2>1 DEF Safe, Typed
  <2>3. Placed' BY <1>1, <1>3, <1>7, <2>1 DEF Safe, Placed
  <2>4. \A w \in Workers : Holders(w)' \subseteq Holders(w)
    <3>1. \A w \in Workers : p \notin Holders(w)' BY <1>1, <2>1 DEF Holders
    <3> QED BY <1>9, <3>1
  <2> QED BY <1>1, <1>6, <2>1, <2>2, <2>3, <2>4, Keeping DEF Safe, Within
<1>11. CASE ProbeNext(p)
  <2>1. pc[p] = "probe" /\ UNCHANGED pos BY <1>11 DEF ProbeNext
  <2>2. pc[Owner] \notin {"release", "joining"} BY <2>1 DEF Safe, Placed, Walked
  <2>3. CASE UNCHANGED usage /\ pc'[p] = "none"
    <3>1. Typed' BY <1>1, <1>4, <1>5, <2>3 DEF Safe, Typed
    <3>2. Placed' BY <1>1, <1>3, <1>7, <2>2, <2>3 DEF Safe, Placed
    <3>3. \A w \in Workers : Holders(w)' \subseteq Holders(w)
      <4>1. \A w \in Workers : p \notin Holders(w)' BY <1>1, <2>3 DEF Holders
      <4> QED BY <1>9, <4>1
    <3> QED BY <1>1, <1>6, <2>3, <3>1, <3>2, <3>3, Keeping DEF Safe, Within
  <2>4. CASE /\ pos[p] <= size /\ usage[pos[p]] = 0 /\ pc'[p] = "unprobe"
             /\ usage' = [usage EXCEPT ![pos[p]] = 1]
    <3>1. pos[p] \in Workers BY <1>1, <2>4, Processes DEF Safe, Typed, Workers
    <3>2. Typed'
      <4>1. usage' \in [Workers -> {0, 1}] BY <2>4 DEF Safe, Typed
      <4> QED BY <1>1, <1>4, <1>5, <4>1 DEF Safe, Typed
    <3>3. Placed' BY <1>1, <1>3, <1>7, <2>1, <2>2, <2>4 DEF Safe, Placed
    <3>4. \A w \in Workers : p \in Holders(w)' => w = pos[p]
      BY <1>1, <2>1 DEF Holders
    <3>5. \A w \in Workers : Holders(w)' \subseteq
               Holders(w) \cup (IF w = pos[p] THEN {p} ELSE {})
      BY <1>9, <3>4
    <3>6. Apart' BY <2>4, <3>1, <3>5, Taking DEF Safe, Typed
    <3>7. Within' BY <1>1, <1>9 DEF Safe, Within
    <3> QED BY <1>6, <3>2, <3>3, <3>6, <3>7 DEF Safe
  <2>5. pos[p] \in Workers /\ usage[pos[p]] # 0 => [usage EXCEPT ![pos[p]] = 1] = usage
    BY DEF Safe, Typed
  <2>6. pos[p] <= size => pos[p] \in Workers BY <1>1, Processes DEF Safe, Typed, Workers
  <2> QED BY <1>1, <1>11, <2>3, <2>4, <2>5, <2>6 DEF ProbeNext, Locked, Lockable, Goto
<1>12. CASE ProbeFree(p)
  <2>1. /\ pc[p] = "unprobe" /\ pc'[p] = "probe" /\ usage' = [usage EXCEPT ![pos[p]] = 0]
    BY <1>1, <1>12 DEF ProbeFree, Freed, Goto
  <2>2. pos[p] \in Workers BY <1>1, <2>1, Processes DEF Safe, Placed, Typed, Workers
  <2>3. p \in Holders(pos[p]) BY <2>1, <2>2 DEF Holders
  <2>4. pc[Owner] \notin {"release", "joining"} BY <2>1 DEF Safe, Placed, Walked
  <2>5. Typed'
    <3>1. usage' \in [Workers -> {0, 1}] BY <2>1 DEF Safe, Typed
    <3> QED BY <1>1, <1>4, <1>5, <3>1 DEF Safe, Typed
  <2>6. Placed' BY <1>1, <1>3, <1>7, <2>1, <2>4 DEF Safe, Placed
  <2>7. \A w \in Workers : p \notin Holders(w)' BY <1>1, <2>1 DEF Holders
  <2>8. Apart'
    <3>1. \A w \in Workers : Holders(w)' \subseteq
               Holders(w) \ (IF w = pos[p] THEN {p} ELSE {})
      BY <1>9, <2>7
    <3> QED BY <2>1, <2>2, <2>3, <3>1, Freeing DEF Safe, Typed
  <2>9. Within' BY <1>1, <1>9, <2>7 DEF Safe, Within
  <2> QED BY <1>6, <2>5, <2>6, <2>8, <2>9 DEF Safe
<1> QED BY <1>10, <1>11, <1>12 DEF ProbeStep

\* What an owner's step leaves alone, unless it replaces the array.
LEMMA OwnerSafe ==
    ASSUME Safe, (\E n \in Sizes : Reinit(n)) \/ ReinitLock \/ ReinitUnlock
                     \/ ReleaseWake \/ ReleaseJoin
    PROVE  Safe'
<1> DEFINE v == pos[Owner]
<1>1. /\ UNCHANGED <<size, threads, parent>> /\ target' \in 0 .. MaxSize
      /\ v \in Nat \ {0} /\ size \in Nat /\ size <= MaxSize /\ locked \in 0 .. size
  <2>1. UNCHANGED <<size, threads, parent>> /\ (target' \in Sizes \/ target' = target)
    BY DEF Reinit, ReinitLock, ReinitUnlock, ReleaseWake, ReleaseJoin, pool, launcher
  <2> QED BY <2>1, Processes DEF Safe, Typed
<1>2. /\ \/ pc' = pc
         \/ \E to : pc' = [pc EXCEPT ![Owner] = to]
      /\ \/ pos' = pos
         \/ pos' = [pos EXCEPT ![Owner] = 1]
         \/ pos' = [pos EXCEPT ![Owner] = @ + 1]
  BY DEF Reinit, ReinitLock, ReinitUnlock, ReleaseWake, ReleaseJoin, Goto
<1>3. /\ DOMAIN pc' = DOMAIN pc
      /\ \A q \in Launchers \cup Probes : pc'[q] = pc[q] /\ pos'[q] = pos[q]
  <2>1. \A q \in Launchers \cup Probes : q # Owner /\ q \in DOMAIN pc /\ q \in DOMAIN pos
    BY Processes DEF Safe, Typed, Executors
  <2> QED BY <1>2, <2>1
<1>4. pos' \in [Launchers \cup Probes \cup {Owner} -> Nat \ {0}]
  <2>1. pos \in [Launchers \cup Probes \cup {Owner} -> Nat \ {0}] BY DEF Safe, Typed
  <2>2. 1 \in Nat \ {0} /\ v + 1 \in Nat \ {0} BY <1>1
  <2> QED BY <1>2, <2>1, <2>2
<1>5. Waits' /\ Distinct' BY <1>1, <1>3 DEF Safe, Waits, Distinct
<1>6. Walked' <=> Walked BY <1>3 DEF Walked
<1>7. ASSUME NEW w \in Workers, NEW x \in Holders(w)', x # Owner PROVE x \in Holders(w)
  BY <1>1, <1>3, <1>7 DEF Holders
<1>8. ASSUME NEW w \in Workers
      PROVE  Owner \in Holders(w) <=> w <= locked /\ (pc[Owner] = "unlock" => w >= v)
  BY Processes DEF Holders
<1>9. ASSUME NEW w \in Workers
      PROVE  Owner \in Holders(w)' <=>
                 w <= locked' /\ (pc'[Owner] = "unlock" => w >= pos'[Owner])
  BY Processes DEF Holders
<1>10. Within' BY <1>1, <1>7, Processes DEF Safe, Within
<1>11. /\ Owner \in DOMAIN pc
       /\ \A to : pc' = [pc EXCEPT ![Owner] = to] => pc'[Owner] = to
       /\ pos' = [pos EXCEPT ![Owner] = 1] => pos'[Owner] = 1
       /\ pos' = [pos EXCEPT ![Owner] = @ + 1] => pos'[Owner] = v + 1
  BY DEF Safe, Typed
<1>12. ASSUME UNCHANGED usage, locked' \in 0 .. size,
              \A w \in Workers : Owner \in Holders(w)' => Owner \in Holders(w),
              pc'[Owner] = "lock" => locked' = pos'[Owner] - 1,
              pc'[Owner] \in {"release", "joining"} => locked' = size /\ ~Walked
       PROVE  Safe'
  <2>1. Typed' BY <1>1, <1>3, <1>4, <1>12 DEF Safe, Typed
  <2>2. Placed' BY <1>1, <1>3, <1>6, <1>12 DEF Safe, Placed
  <2>3. Apart' BY <1>7, <1>12, Keeping DEF Safe
  <2> QED BY <1>5, <1>10, <2>1, <2>2, <2>3 DEF Safe
<1>13. CASE \E n \in Sizes : Reinit(n)
  <2>1. /\ UNCHANGED usage /\ locked' = 0 /\ pc'[Owner] = "lock" /\ pos'[Owner] = 1
    BY <1>11, <1>13 DEF Reinit, Goto, worker
  <2>2. \A w \in Workers : ~(w <= locked') BY <2>1, Processes
  <2> QED BY <1>1, <1>9, <1>12, <2>1, <2>2
<1>14. CASE ReinitLock
  <2>1. pc[Owner] = "lock" /\ locked = v - 1 BY <1>14 DEF ReinitLock, Safe, Placed
  <2>2. CASE /\ v <= size /\ usage' = Locked(v) /\ Lockable(v)
             /\ locked' = v /\ pos' = [pos EXCEPT ![Owner] = @ + 1] /\ UNCHANGED pc
    <3>1. v \in Workers BY <1>1, <2>2, Processes DEF Workers
    <3>2. pos'[Owner] = v + 1 BY <1>11, <2>2
    <3>3. Typed'
      <4>1. usage' \in [Workers -> {0, 1}] BY <2>2 DEF Safe, Typed, Locked
      <4>2. locked' \in 0 .. size BY <1>1, <2>2
      <4> QED BY <1>1, <1>3, <1>4, <4>1, <4>2 DEF Safe, Typed
    <3>4. Placed' BY <1>1, <1>3, <2>1, <2>2, <3>2 DEF Safe, Placed
    <3>5. \A w \in Workers : Owner \in Holders(w)' => Owner \in Holders(w) \/ w = v
      BY <1>1, <1>8, <1>9, <2>1, <2>2, Processes
    <3>6. \A w \in Workers : Holders(w)' \subseteq
               Holders(w) \cup (IF w = v THEN {Owner} ELSE {})
      BY <1>7, <3>5
    <3>7. Apart'
      <4>1. usage[v] = 0 /\ usage' = [usage EXCEPT ![v] = 1]
        BY <2>2 DEF Locked, Lockable
      <4> HIDE DEF v
      <4> QED BY <3>1, <3>6, <4>1, Taking DEF Safe, Typed
    <3> QED BY <1>5, <1>10, <3>3, <3>4, <3>7 DEF Safe
  <2>3. CASE /\ v <= size /\ usage' = Locked(v) /\ ~Lockable(v)
             /\ pos' = [pos EXCEPT ![Owner] = 1] /\ pc' = [pc EXCEPT ![Owner] = "unlock"]
             /\ UNCHANGED locked
    <3>1. v \in Workers BY <1>1, <2>3, Processes DEF Workers
    <3>2. usage' = usage BY <2>3, <3>1 DEF Safe, Typed, Locked, Lockable
    <3>3. pos'[Owner] = 1 /\ pc'[Owner] = "unlock" BY <1>11, <2>3
    <3> QED BY <1>1, <1>8, <1>9, <1>12, <2>1, <2>3, <3>2, <3>3
  <2>4. CASE /\ v > size /\ ~Walked /\ pc' = [pc EXCEPT ![Owner] = "release"]
             /\ UNCHANGED <<usage, locked>>
    <3>1. pc'[Owner] = "release" BY <1>11, <2>4
    <3>2. locked = size BY <1>1, <2>1, <2>4
    <3> QED BY <1>1, <1>8, <1>9, <1>12, <2>1, <2>4, <3>1, <3>2
  <2> QED BY <1>14, <2>2, <2>3, <2>4 DEF ReinitLock, Goto
<1>15. CASE ReinitUnlock
  <2>1. pc[Owner] = "unlock" BY <1>15 DEF ReinitUnlock
  <2>2. CASE /\ v <= locked /\ usage' = Freed(v) /\ pos' = [pos EXCEPT ![Owner] = @ + 1]
             /\ UNCHANGED <<pc, locked>>
    <3>1. v \in Workers BY <1>1, <2>2, Processes DEF Workers
    <3>2. pos'[Owner] = v + 1 BY <1>11, <2>2
    <3>3. Typed'
      <4>1. usage' \in [Workers -> {0, 1}] BY <2>2 DEF Safe, Typed, Freed
      <4> QED BY <1>1, <1>3, <1>4, <2>2, <4>1 DEF Safe, Typed
    <3>4. Placed' BY <1>1, <1>3, <2>1, <2>2 DEF Safe, Placed
    <3>5. \A w \in Workers : Owner \in Holders(w)' => Owner \in Holders(w) /\ w # v
      BY <1>1, <1>8, <1>9, <2>1, <2>2, <3>2, Processes
    <3>6. \A w \in Workers : Holders(w)' \subseteq
               Holders(w) \ (IF w = v THEN {Owner} ELSE {})
      BY <1>7, <3>5
    <3>7. Owner \in Holders(v) BY <1>1, <1>8, <2>2, <3>1
    <3>8. Apart'
      <4>1. usage' = [usage EXCEPT ![v] = 0] BY <2>2 DEF Freed
      <4> HIDE DEF v
      <4> QED BY <3>1, <3>6, <3>7, <4>1, Freeing DEF Safe, Typed
    <3> QED BY <1>5, <1>10, <3>3, <3>4, <3>8 DEF Safe
  <2>3. CASE /\ v > locked /\ locked' = 0 /\ pc' = [pc EXCEPT ![Owner] = "none"]
             /\ UNCHANGED usage
    <3>1. pc'[Owner] = "none" BY <1>11, <2>3
    <3>2. \A w \in Workers : ~(w <= locked') BY <2>3, Processes
    <3> QED BY <1>1, <1>9, <1>12, <2>3, <3>1, <3>2
  <2> QED BY <1>15, <2>2, <2>3 DEF ReinitUnlock, Goto
<1>16. CASE ReleaseWake \/ ReleaseJoin
  <2>1. /\ UNCHANGED <<usage, locked>> /\ pc[Owner] \in {"release", "joining"}
        /\ pc'[Owner] \in {"release", "joining"}
    BY <1>11, <1>16 DEF ReleaseWake, ReleaseJoin, Goto, pool, worker
  <2>2. locked = size /\ ~Walked BY <2>1 DEF Safe, Placed
  <2> QED BY <1>1, <1>8, <1>9, <1>12, <2>1, <2>2
<1> QED BY <1>13, <1>14, <1>15, <1>16

\* When Init replaces the array it holds all of it, so no launcher does.
LEMMA ResizeSafe == ASSUME Safe, Resize PROVE Safe'
<1>1. /\ pc[Owner] = "release" /\ size' = target /\ locked' = 0
      /\ usage' = [w \in Workers |-> 0] /\ UNCHANGED <<target, threads, parent, pos>>
      /\ DOMAIN pc' = DOMAIN pc
  BY DEF Resize, launcher
<1>2. /\ \A q \in Launchers \cup Probes : pc'[q] = pc[q]
      /\ pc'[Owner] = "none"
  BY Processes DEF Resize, Safe, Typed, Executors
<1>3. locked = size /\ ~Walked BY <1>1 DEF Safe, Placed
<1>4. ASSUME NEW w \in Workers PROVE Holders(w)' = {}
  <2>1. ASSUME NEW l \in Launchers, l \in Holders(w)' PROVE FALSE
    <3>1. l \in Holders(w) BY <1>1, <1>2, <2>1, Processes DEF Holders
    <3>2. w <= size BY <3>1 DEF Safe, Within
    <3>3. Owner \in Holders(w) BY <1>1, <1>3, <3>2 DEF Holders
    <3> QED BY <3>1, <3>3, Processes DEF Safe, Apart
  <2>2. \A p \in Probes : pc'[p] # "unprobe" BY <1>2, <1>3 DEF Walked
  <2>3. ~(w <= locked') BY <1>1, Processes
  <2> QED BY <2>1, <2>2, <2>3 DEF Holders
<1>5. Typed'
  <2>1. usage' \in [Workers -> {0, 1}] BY <1>1
  <2>2. size' \in 0 .. MaxSize /\ locked' \in 0 .. size' BY <1>1, Processes DEF Safe, Typed
  <2> QED BY <1>1, <2>1, <2>2 DEF Safe, Typed
<1>6. Placed' BY <1>1, <1>2, <1>3 DEF Safe, Placed, Walked
<1>7. Waits' /\ Distinct' BY <1>1, <1>2 DEF Safe, Waits, Distinct
<1>8. Within' /\ Apart' BY <1>4 DEF Within, Apart
<1> QED BY <1>5, <1>6, <1>7, <1>8 DEF Safe

-----------------------------------------------------------------------------

LEMMA NextSafe == ASSUME Safe, [Next]_vars PROVE Safe'
<1>1. CASE UNCHANGED vars
  <2>1. UNCHANGED <<size, target, locked, usage, threads, parent, pos, pc>>
    BY <1>1 DEF vars, pool, worker, launcher
  <2> QED BY <2>1, Looping DEF Safe, Typed
<1>2. ASSUME NEW l \in Launchers, NEW max \in MaxThreads, New(l, max) PROVE Safe'
  BY <1>2, ConstructSafe DEF New, Goto
<1>3. ASSUME NEW l \in Launchers, NEW max \in MaxThreads, NEW e \in Executors, Nest(e, l, max)
      PROVE  Safe'
  <2>1. e # Nobody BY Processes DEF Executors
  <2> QED BY <1>3, <2>1, ConstructSafe DEF Nest
<1>4. ASSUME NEW l \in Launchers, LauncherStep(l) PROVE Safe'
  BY <1>4, LockNextSafe, LoopSafe, FreeNextSafe, RunsSafe DEF LauncherStep, Executors
<1>5. ASSUME NEW w \in Workers, WorkerStep(w) PROVE Safe'
  BY <1>5, WorkerSafe, RunsSafe DEF WorkerStep, Executors
<1>6. CASE Next
  BY <1>2, <1>3, <1>4, <1>5, <1>6, PerformSafe, ReleaseSafe, ProbeSafe, OwnerSafe, ResizeSafe
     DEF Next, OwnerStep
<1> QED BY <1>1, <1>6

LEMMA Invariance == Spec => []Safe
<1> QED BY InitSafe, NextSafe, PTL DEF Spec

\* A worker belongs to one launcher, query or Init at a time, and is locked
\* while it does, for pools of any size, and however launchers nest.
THEOREM WorkersHeldOnce == Spec => []OneHolder
<1>1. ASSUME Safe, NEW w \in Workers PROVE Cardinality(Holders(w)) <= 1
  <2>1. \A x, y \in Holders(w) : x = y BY <1>1 DEF Safe, Apart
  <2>2. CASE Holders(w) = {} BY <2>2, FS_EmptySet
  <2>3. CASE Holders(w) # {}
    <3>1. PICK x : x \in Holders(w) BY <2>3
    <3>2. Holders(w) = {x} BY <2>1, <3>1
    <3> QED BY <3>2, FS_Singleton
  <2> QED BY <2>2, <2>3
<1>2. Safe => OneHolder BY <1>1 DEF Safe, Apart, OneHolder
<1> QED BY <1>2, Invariance, PTL

-----------------------------------------------------------------------------
(* The events and jobs of the workers.                                     *)

\* A worker that does nothing and has nothing to find: its events and its job
\* are as the thread that locks it expects them.
Asleep(w) == ~wakeEvent[w] /\ pc[w] = IF started[w] THEN "wait" ELSE "off"
Quiet(w)    == Asleep(w) /\ ~idleEvent[w] /\ job[w] = Nobody
Assigned(w, l) == Asleep(w) /\ ~idleEvent[w] /\ job[w] = l
Finished(w) == Asleep(w) /\ started[w] /\ idleEvent[w] /\ job[w] = Nobody
Working(w, l) ==
    /\ started[w] /\ ~idleEvent[w]
    /\ \/ job[w] = l /\ wakeEvent[w] /\ pc[w] \in {"wait", "reset"}
       \/ job[w] = l /\ ~wakeEvent[w] /\ pc[w] \in {"begin", "take", "call", "nested", "clear"}
       \/ job[w] = Nobody /\ ~wakeEvent[w] /\ pc[w] = "idle"

\* The i-th worker of a launcher's loop: at work, given its job only, or about
\* to have its idle event reset.
Busy(l, i) ==
    \/ pc[l] \in {"wake", "signal"} /\ i < pos[l]
    \/ pc[l] \in {"take", "call", "nested"}
    \/ pc[l] = "join" /\ i >= pos[l]
    \/ pc[l] = "rest" /\ i > pos[l]
Given(l, i)  == pc[l] = "signal" /\ i = pos[l]
Rested(l, i) == pc[l] = "rest" /\ i = pos[l]

Fits(l, i) ==
    LET w == threads[l][i] IN
    /\ Busy(l, i) => Working(w, l) \/ Finished(w)
    /\ Given(l, i) => Assigned(w, l)
    /\ Rested(l, i) => Finished(w)
    /\ ~Busy(l, i) /\ ~Given(l, i) /\ ~Rested(l, i) => Quiet(w)

Holds(l, i) == i \in DOMAIN threads[l] /\ (pc[l] = "free" => i >= pos[l])
Releasing   == pc[Owner] \in {"release", "joining"}

\* Every worker is as its holder expects it.
Signals ==
    /\ \A l \in Launchers : \A i \in DOMAIN threads[l] : Holds(l, i) => Fits(l, i)
    /\ \A w \in Workers :
          Holders(w) \cap Launchers = {} /\ ~(Releasing /\ w <= size) => Quiet(w)
    /\ \A w \in Workers : Releasing /\ w <= size =>
          job[w] = Nobody /\ pc[w] \in {"off", "wait", "reset", "exited"}

\* A worker whose functor made a launcher does nothing meanwhile.
WorkersWait ==
    /\ \A l \in Launchers : parent[l] \in Workers => pc[parent[l]] = "nested"
    /\ \A l, m \in Launchers : parent[l] = parent[m] /\ parent[l] \in Workers => l = m

\* How far a process is in what it walks.
Far ==
    /\ \A l \in Launchers :
          /\ Len(threads[l]) <= MaxSize
          /\ pc[l] = "none" => threads[l] = << >>
          /\ pc[l] = "lock" => Len(threads[l]) < pos[l]
          /\ pc[l] = "rest" => pos[l] <= Len(threads[l])
    /\ pc[Owner] = "joining" => pos[Owner] <= size
    /\ shutDown <=> Releasing /\ size > 0

-----------------------------------------------------------------------------
(* Types, and where processes are.                                         *)

LEMMA InitTyped == Init => TypeOK /\ Far
<1> SUFFICES ASSUME Init PROVE TypeOK /\ Far OBVIOUS
<1> USE Processes, SizeAssumption DEF Init
<1>1. index \in [Executors -> 0 .. MaxSize]
  <2>1. \A e \in Workers : e - 1 \in 0 .. MaxSize BY DEF Workers
  <2>2. 0 \in 0 .. MaxSize OBVIOUS
  <2> QED BY <2>1, <2>2
<1>2. \A l \in Launchers : threads[l] \in Seq(Workers)
  <2>1. << >> \in Seq(Workers) OBVIOUS
  <2> QED BY <2>1
<1>3. pos \in [Launchers \cup Probes \cup {Owner} -> 0 .. MaxSize + 1]
  <2>1. 1 \in 0 .. MaxSize + 1 OBVIOUS
  <2>2. pos = [p \in Launchers \cup Probes \cup {Owner} |-> 1] OBVIOUS
  <2> QED BY <2>1, <2>2
<1>4. {started, wakeEvent, idleEvent} \subseteq [Workers -> BOOLEAN] OBVIOUS
<1>5. failure \in [Executors -> BOOLEAN] OBVIOUS
<1>6. job \in [Workers -> Launchers \cup {Nobody}] OBVIOUS
<1>7. it \in [Launchers -> MinInt .. MaxInt] OBVIOUS
<1>8. usage \in [Workers -> {0, 1}] OBVIOUS
<1>9. parent \in [Launchers -> Executors \cup {Nobody}] OBVIOUS
<1>10. size \in 0 .. MaxSize /\ target \in 0 .. MaxSize /\ locked \in 0 .. size OBVIOUS
<1>11. shutDown \in BOOLEAN OBVIOUS
<1>12. TypeOK BY <1>1, <1>2, <1>3, <1>4, <1>5, <1>6, <1>7, <1>8, <1>9, <1>10, <1>11 DEF TypeOK
<1>13. pc[Owner] = "none" BY DEF Executors
<1>14. \A l \in Launchers : pc[l] = "none" BY DEF Executors
<1>15. Far
  <2>1. \A l \in Launchers : threads[l] = << >> /\ Len(threads[l]) = 0 OBVIOUS
  <2>2. ~Releasing
    <3>1. "none" \notin {"release", "joining"} OBVIOUS
    <3> QED BY <1>13, <3>1 DEF Releasing
  <2>3. pc[Owner] # "joining" BY <1>13
  <2>4. \A l \in Launchers : pc[l] # "lock" /\ pc[l] # "rest" BY <1>14
  <2>5. \A l \in Launchers : Len(threads[l]) <= MaxSize BY <2>1
  <2>6. ~shutDown OBVIOUS
  <2> QED BY <2>1, <2>2, <2>3, <2>4, <2>5, <2>6 DEF Far
<1> QED BY <1>12, <1>15

\* What a step may do to the events.
LEMMA EventEffects == ASSUME Next
  PROVE  /\ \/ started' = started
            \/ \E w : started' = [started EXCEPT ![w] = TRUE]
            \/ started' = [w \in Workers |-> FALSE]
         /\ \/ idleEvent' = idleEvent
            \/ \E w : \E b \in BOOLEAN : idleEvent' = [idleEvent EXCEPT ![w] = b]
            \/ idleEvent' = [w \in Workers |-> FALSE]
         /\ \/ wakeEvent' = wakeEvent
            \/ \E w : \E b \in BOOLEAN : wakeEvent' = [wakeEvent EXCEPT ![w] = b]
            \/ wakeEvent' = [w \in Workers |-> FALSE]
<1> DEFINE OK ==
         /\ \/ started' = started
            \/ \E w : started' = [started EXCEPT ![w] = TRUE]
            \/ started' = [w \in Workers |-> FALSE]
         /\ \/ idleEvent' = idleEvent
            \/ \E w : \E b \in BOOLEAN : idleEvent' = [idleEvent EXCEPT ![w] = b]
            \/ idleEvent' = [w \in Workers |-> FALSE]
         /\ \/ wakeEvent' = wakeEvent
            \/ \E w : \E b \in BOOLEAN : wakeEvent' = [wakeEvent EXCEPT ![w] = b]
            \/ wakeEvent' = [w \in Workers |-> FALSE]
<1>1. UNCHANGED <<started, idleEvent, wakeEvent>> => OK OBVIOUS
<1>2. ASSUME NEW l \in Launchers,
             \/ \E m \in MaxThreads : New(l, m)
             \/ \E m \in MaxThreads, e \in Executors : Nest(e, l, m)
             \/ \E r \in Ranges : Perform(l, r)
             \/ Release(l) \/ LockNext(l) \/ WakeJob(l) \/ Join(l)
             \/ Report(l)   \/ FreeNext(l)
      PROVE  UNCHANGED <<started, idleEvent, wakeEvent>>
  BY <1>2 DEF New, Nest, Construct, Perform, Release, LockNext, WakeJob, Join, Report, FreeNext, worker
<1>3. ASSUME NEW l \in Launchers, Signal(l) \/ ResetIdle(l) PROVE OK
  BY <1>3 DEF Signal, ResetIdle
<1>4. ASSUME NEW e \in Executors, Runs(e) PROVE UNCHANGED <<started, idleEvent, wakeEvent>>
  BY <1>4 DEF Runs, Take, CallReturns, CallThrows, worker
<1>5. ASSUME NEW w \in Workers, WaitWake(w) \/ BeginJob(w) \/ ClearJob(w)
      PROVE  UNCHANGED <<started, idleEvent, wakeEvent>>
  BY <1>5 DEF WaitWake, BeginJob, ClearJob, worker
<1>6. ASSUME NEW w \in Workers, ResetWake(w) \/ SetIdle(w) PROVE OK
  BY <1>6 DEF ResetWake, SetIdle
<1>7. ASSUME NEW p \in Probes, IsInUse(p) \/ ProbeStep(p)
      PROVE  UNCHANGED <<started, idleEvent, wakeEvent>>
  BY <1>7 DEF IsInUse, ProbeStep, ProbeNext, ProbeFree, worker
<1>8. ASSUME (\E n \in Sizes : Reinit(n)) \/ ReinitLock \/ ReinitUnlock \/ ReleaseJoin
      PROVE  UNCHANGED <<started, idleEvent, wakeEvent>>
  BY <1>8 DEF Reinit, ReinitLock, ReinitUnlock, ReleaseJoin, worker
<1>9. ASSUME ReleaseWake \/ Resize PROVE OK BY <1>9 DEF ReleaseWake, Resize
<1> HIDE DEF OK
<1>10. OK
  BY <1>1, <1>2, <1>3, <1>4, <1>5, <1>6, <1>7, <1>8, <1>9
     DEF Next, LauncherStep, WorkerStep, OwnerStep, Executors
<1> QED BY <1>10 DEF OK

\* The types of what Typed does not speak of.
Numbers ==
    /\ job \in [Workers -> Launchers \cup {Nobody}]
    /\ index \in [Executors -> 0 .. MaxSize]
    /\ failure \in [Executors -> BOOLEAN]
    /\ it \in [Launchers -> MinInt .. MaxInt]
    /\ pos \in [Launchers \cup Probes \cup {Owner} -> 0 .. MaxSize + 1]
    /\ shutDown \in BOOLEAN

LEMMA NumbersKept == ASSUME Safe, Numbers, Far, Next PROVE Numbers'
<1> USE Processes, SizeAssumption
<1>1. ASSUME UNCHANGED <<job, index, failure, it, pos, shutDown>> PROVE Numbers'
  BY <1>1 DEF Numbers
<1>2. 1 \in 0 .. MaxSize + 1 OBVIOUS
<1>3. ASSUME NEW q \in Launchers \cup Probes \cup {Owner}, pos[q] <= MaxSize
      PROVE  pos[q] + 1 \in 0 .. MaxSize + 1
  BY <1>3 DEF Numbers
<1>4. ASSUME UNCHANGED <<job, index, failure, it, shutDown>>,
             \/ pos' = pos
             \/ \E q : pos' = [pos EXCEPT ![q] = 1]
             \/ \E q \in Launchers \cup Probes \cup {Owner} :
                   pos[q] <= MaxSize /\ pos' = [pos EXCEPT ![q] = pos[q] + 1]
      PROVE  Numbers'
  <2>1. pos' \in [Launchers \cup Probes \cup {Owner} -> 0 .. MaxSize + 1]
    BY <1>2, <1>3, <1>4 DEF Numbers
  <2> QED BY <1>4, <2>1 DEF Numbers
<1>5. ASSUME NEW l \in Launchers, NEW max, NEW e, Construct(l, max, e) PROVE Numbers'
  <2>1. failure' = [failure EXCEPT ![l] = FALSE] /\ pos' = [pos EXCEPT ![l] = 1]
        /\ UNCHANGED <<job, index, it, shutDown>>
    BY <1>5 DEF Construct, pool
  <2>2. failure' \in [Executors -> BOOLEAN] BY <2>1 DEF Numbers
  <2>3. pos' \in [Launchers \cup Probes \cup {Owner} -> 0 .. MaxSize + 1]
    BY <1>2, <2>1 DEF Numbers
  <2> QED BY <2>1, <2>2, <2>3 DEF Numbers
<1>6. ASSUME NEW l \in Launchers, LockNext(l) PROVE Numbers'
  <2>1. /\ UNCHANGED <<job, failure, it, shutDown>>
        /\ \/ pos' = pos
           \/ pos[l] <= size /\ pos' = [pos EXCEPT ![l] = pos[l] + 1]
        /\ \/ index' = index
           \/ \E x : index' = [index EXCEPT ![x] = Len(threads[l])]
    BY <1>6 DEF LockNext, pool, Indexed
  <2>2. Len(threads[l]) \in 0 .. MaxSize BY DEF Far, Safe, Typed
  <2>3. index' \in [Executors -> 0 .. MaxSize] BY <2>1, <2>2 DEF Numbers
  <2>4. pos[l] <= size => pos[l] <= MaxSize BY DEF Safe, Typed
  <2>5. pos' \in [Launchers \cup Probes \cup {Owner} -> 0 .. MaxSize + 1]
    <3>1. CASE pos' = pos BY <3>1 DEF Numbers
    <3>2. CASE pos[l] <= size /\ pos' = [pos EXCEPT ![l] = pos[l] + 1]
      <4>1. pos[l] + 1 \in 0 .. MaxSize + 1 BY <1>3, <2>4, <3>2
      <4> QED BY <3>2, <4>1 DEF Numbers
    <3> QED BY <2>1, <3>1, <3>2
  <2> QED BY <2>1, <2>3, <2>5 DEF Numbers
<1>7. ASSUME NEW l \in Launchers, NEW r \in Ranges, Perform(l, r) PROVE Numbers'
  <2>1. it' = [it EXCEPT ![l] = r.begin] /\ pos' = [pos EXCEPT ![l] = 1]
        /\ UNCHANGED <<job, index, failure, shutDown>>
    BY <1>7 DEF Perform, pool, worker
  <2>2. it' \in [Launchers -> MinInt .. MaxInt] BY <2>1 DEF Numbers
  <2>3. pos' \in [Launchers \cup Probes \cup {Owner} -> 0 .. MaxSize + 1]
    BY <1>2, <2>1 DEF Numbers
  <2> QED BY <2>1, <2>2, <2>3 DEF Numbers
<1>8. ASSUME NEW l \in Launchers, WakeJob(l) PROVE Numbers'
  <2>1. /\ UNCHANGED <<index, failure, it, pos, shutDown>>
        /\ job' = job \/ \E x : job' = [job EXCEPT ![x] = l]
    BY <1>8 DEF WakeJob, pool, launcher
  <2>2. job' \in [Workers -> Launchers \cup {Nobody}] BY <2>1 DEF Numbers
  <2> QED BY <2>1, <2>2 DEF Numbers
<1>9. ASSUME NEW l \in Launchers, Signal(l) \/ ResetIdle(l) \/ FreeNext(l) PROVE Numbers'
  <2>1. /\ UNCHANGED <<job, index, failure, it, shutDown>>
        /\ \/ pos' = pos
           \/ pos[l] <= Len(threads[l]) /\ pos' = [pos EXCEPT ![l] = pos[l] + 1]
    BY <1>9 DEF Signal, ResetIdle, FreeNext, pool, launcher, Safe, Placed, Far
  <2>2. Len(threads[l]) \in 0 .. MaxSize /\ pos[l] \in Nat BY DEF Far, Safe, Typed
  <2>3. pos[l] <= Len(threads[l]) => pos[l] <= MaxSize BY <2>2
  <2> QED BY <1>4, <2>1, <2>3
<1>10. ASSUME NEW l \in Launchers, Join(l) \/ Report(l) PROVE Numbers'
  BY <1>1, <1>10 DEF Join, Report, pool, worker, launcher
<1>11. ASSUME NEW l \in Launchers, Release(l) PROVE Numbers'
  BY <1>4, <1>11 DEF Release, pool, worker, launcher
<1>12. ASSUME NEW e \in Executors, Take(e) PROVE Numbers'
  <2>1. /\ UNCHANGED <<job, index, failure, shutDown>>
        /\ it' = [it EXCEPT ![JobOf(e)] = Wrapped(it[JobOf(e)])]
        /\ pos' = pos \/ pos' = [pos EXCEPT ![e] = 1]
    BY <1>12 DEF Take, pool, worker
  <2>2. \A i \in MinInt .. MaxInt : Wrapped(i) \in MinInt .. MaxInt BY DEF Wrapped
  <2>3. it' \in [Launchers -> MinInt .. MaxInt]
    <3>1. CASE JobOf(e) \in Launchers BY <2>1, <2>2, <3>1 DEF Numbers
    <3>2. CASE JobOf(e) \notin Launchers BY <2>1, <3>2 DEF Numbers
    <3> QED BY <3>1, <3>2
  <2>4. pos' \in [Launchers \cup Probes \cup {Owner} -> 0 .. MaxSize + 1]
    BY <1>2, <2>1 DEF Numbers
  <2> QED BY <2>1, <2>3, <2>4 DEF Numbers
<1>13. ASSUME NEW e \in Executors, CallReturns(e) PROVE Numbers'
  BY <1>1, <1>13 DEF CallReturns, pool, worker, launcher
<1>14. ASSUME NEW e \in Executors, CallThrows(e) PROVE Numbers'
  <2>1. /\ UNCHANGED <<job, index, it, shutDown>> /\ failure' = [failure EXCEPT ![e] = TRUE]
        /\ pos' = pos \/ pos' = [pos EXCEPT ![e] = 1]
    BY <1>14 DEF CallThrows, pool, launcher
  <2>2. failure' \in [Executors -> BOOLEAN] BY <2>1 DEF Numbers
  <2>3. pos' \in [Launchers \cup Probes \cup {Owner} -> 0 .. MaxSize + 1]
    BY <1>2, <2>1 DEF Numbers
  <2> QED BY <2>1, <2>2, <2>3 DEF Numbers
<1>15. ASSUME NEW w \in Workers, WaitWake(w) \/ ResetWake(w) \/ SetIdle(w) PROVE Numbers'
  BY <1>1, <1>15 DEF WaitWake, ResetWake, SetIdle, pool, worker, launcher
<1>16. ASSUME NEW w \in Workers, BeginJob(w) PROVE Numbers'
  <2>1. UNCHANGED <<job, index, it, pos, shutDown>> /\ failure' = [failure EXCEPT ![w] = FALSE]
    BY <1>16 DEF BeginJob, pool, launcher
  <2>2. failure' \in [Executors -> BOOLEAN] BY <2>1 DEF Numbers
  <2> QED BY <2>1, <2>2 DEF Numbers
<1>17. ASSUME NEW w \in Workers, ClearJob(w) PROVE Numbers'
  <2>1. UNCHANGED <<failure, index, it, pos, shutDown>> /\ job' = [job EXCEPT ![w] = Nobody]
    BY <1>17 DEF ClearJob, pool, launcher
  <2>2. job' \in [Workers -> Launchers \cup {Nobody}] BY <2>1 DEF Numbers
  <2> QED BY <2>1, <2>2 DEF Numbers
<1>18. ASSUME NEW p \in Probes, IsInUse(p) \/ ProbeStep(p) PROVE Numbers'
  <2>1. /\ UNCHANGED <<job, index, failure, it, shutDown>>
        /\ \/ pos' = pos
           \/ pos' = [pos EXCEPT ![p] = 1]
           \/ pos[p] <= size /\ pos' = [pos EXCEPT ![p] = pos[p] + 1]
    BY <1>18 DEF IsInUse, ProbeStep, ProbeNext, ProbeFree, pool, worker, launcher, Safe, Placed
  <2>2. pos[p] <= size => pos[p] <= MaxSize BY DEF Safe, Typed
  <2> QED BY <1>4, <2>1, <2>2
<1>19. ASSUME (\E n \in Sizes : Reinit(n)) \/ ReinitUnlock \/ ReleaseJoin PROVE Numbers'
  <2>1. /\ UNCHANGED <<job, index, failure, it, shutDown>>
        /\ \/ pos' = pos
           \/ pos' = [pos EXCEPT ![Owner] = 1]
           \/ pos[Owner] <= size /\ pos' = [pos EXCEPT ![Owner] = pos[Owner] + 1]
    <3>1. locked <= size BY DEF Safe, Typed
    <3>2. pos[Owner] <= locked => pos[Owner] <= size BY <3>1 DEF Safe, Typed
    <3> QED BY <1>19, <3>2 DEF Reinit, ReinitUnlock, ReleaseJoin, pool, worker, launcher, Far
  <2>2. pos[Owner] <= size => pos[Owner] <= MaxSize BY DEF Safe, Typed
  <2> QED BY <1>4, <2>1, <2>2
<1>20. ASSUME ReinitLock PROVE Numbers'
  <2>1. /\ UNCHANGED <<job, index, failure, it>>
        /\ shutDown' = shutDown \/ shutDown' = (size > 0)
        /\ \/ pos' = pos
           \/ pos' = [pos EXCEPT ![Owner] = 1]
           \/ pos[Owner] <= size /\ pos' = [pos EXCEPT ![Owner] = pos[Owner] + 1]
    BY <1>20 DEF ReinitLock, launcher
  <2>2. pos[Owner] <= size => pos[Owner] <= MaxSize BY DEF Safe, Typed
  <2>3. pos' \in [Launchers \cup Probes \cup {Owner} -> 0 .. MaxSize + 1]
    BY <1>2, <1>3, <2>1, <2>2 DEF Numbers
  <2>4. shutDown' \in BOOLEAN
    <3>1. shutDown \in BOOLEAN /\ (size > 0) \in BOOLEAN BY DEF Numbers
    <3> QED BY <2>1, <3>1
  <2> QED BY <2>1, <2>3, <2>4 DEF Numbers
<1>21. ASSUME ReleaseWake PROVE Numbers'
  <2>1. UNCHANGED <<failure, index, it, pos, shutDown>> /\ job' = [job EXCEPT ![pos[Owner]] = Nobody]
    BY <1>21 DEF ReleaseWake, pool, launcher
  <2>2. job' \in [Workers -> Launchers \cup {Nobody}] BY <2>1 DEF Numbers
  <2> QED BY <2>1, <2>2 DEF Numbers
<1>22. ASSUME Resize PROVE Numbers'
  <2>1. /\ UNCHANGED <<it, pos>> /\ shutDown' = FALSE /\ job' = [w \in Workers |-> Nobody]
        /\ index' = [e \in Executors |-> IF e \in Workers THEN e - 1 ELSE index[e]]
        /\ failure' = [e \in Executors |-> IF e \in Workers THEN FALSE ELSE failure[e]]
    BY <1>22 DEF Resize, launcher
  <2>2. index' \in [Executors -> 0 .. MaxSize]
    <3>1. \A e \in Workers : e - 1 \in 0 .. MaxSize BY DEF Workers
    <3>2. \A e \in Executors : index[e] \in 0 .. MaxSize BY DEF Numbers
    <3> QED BY <2>1, <3>1, <3>2
  <2>3. failure' \in [Executors -> BOOLEAN] BY <2>1 DEF Numbers
  <2>4. job' \in [Workers -> Launchers \cup {Nobody}] BY <2>1
  <2> QED BY <2>1, <2>2, <2>3, <2>4 DEF Numbers
<1>23. ASSUME NEW e \in Executors, Runs(e) PROVE Numbers'
  BY <1>12, <1>13, <1>14, <1>23 DEF Runs
<1>24. ASSUME NEW l \in Launchers, NEW max, NEW e, New(l, max) \/ Nest(e, l, max) PROVE Numbers'
  BY <1>5, <1>24 DEF New, Nest
<1> QED BY <1>6, <1>7, <1>8, <1>9, <1>10, <1>11, <1>15, <1>16, <1>17, <1>18, <1>19, <1>20, <1>21,
           <1>22, <1>23, <1>24
        DEF Next, LauncherStep, WorkerStep, OwnerStep, Executors

LEMMA TypeKept == ASSUME Safe, Safe', TypeOK, Far, Next PROVE TypeOK'
<1>1. Numbers BY DEF TypeOK, Numbers
<1>2. Numbers' BY <1>1, NumbersKept
<1>3. {started, wakeEvent, idleEvent}' \subseteq [Workers -> BOOLEAN]
  <2>1. started' \in [Workers -> BOOLEAN] BY EventEffects DEF TypeOK
  <2>2. wakeEvent' \in [Workers -> BOOLEAN] BY EventEffects DEF TypeOK
  <2>3. idleEvent' \in [Workers -> BOOLEAN] BY EventEffects DEF TypeOK
  <2> QED BY <2>1, <2>2, <2>3
<1> QED BY <1>2, <1>3 DEF TypeOK, Numbers, Safe, Typed

-----------------------------------------------------------------------------
(* What a step need not be asked about: who it leaves alone.               *)

LEMMA HolderOf ==
    ASSUME NEW w \in Workers, NEW l \in Launchers
    PROVE  l \in Holders(w) <=> \E i \in DOMAIN threads[l] : Holds(l, i) /\ threads[l][i] = w
  BY Processes DEF Holders, Holds

\* A worker has its place with one launcher, and is not Init's.
LEMMA OnePlace ==
    ASSUME Safe, NEW l \in Launchers, NEW i \in DOMAIN threads[l], Holds(l, i)
    PROVE  /\ threads[l][i] \in Workers /\ threads[l][i] <= size /\ ~Releasing
           /\ l \in Holders(threads[l][i])
           /\ \A m \in Launchers : \A j \in DOMAIN threads[m] :
                 Holds(m, j) /\ threads[m][j] = threads[l][i] => m = l /\ j = i
<1>1. threads[l][i] \in Workers
  <2>1. threads[l] \in Seq(Workers) BY DEF Safe, Typed
  <2> QED BY <2>1
<1>2. l \in Holders(threads[l][i]) BY <1>1, HolderOf
<1>3. threads[l][i] <= size BY <1>1, <1>2 DEF Safe, Within
<1>4. ~Releasing
  <2> SUFFICES ASSUME Releasing PROVE FALSE OBVIOUS
  <2>1. Owner \in Holders(threads[l][i]) BY <1>3 DEF Safe, Placed, Releasing, Holders
  <2> QED BY <1>1, <1>2, <2>1, Processes DEF Safe, Apart
<1>5. ASSUME NEW m \in Launchers, NEW j \in DOMAIN threads[m],
             Holds(m, j), threads[m][j] = threads[l][i]
      PROVE  m = l /\ j = i
  <2>1. m \in Holders(threads[l][i]) BY <1>1, <1>5, HolderOf
  <2>2. m = l BY <1>1, <1>2, <2>1 DEF Safe, Apart
  <2> QED BY <1>5, <2>2 DEF Safe, Distinct
<1> QED BY <1>1, <1>2, <1>3, <1>4, <1>5

\* The same after a step.
LEMMA OnePlaceNext ==
    ASSUME Safe', NEW l \in Launchers, NEW i \in DOMAIN threads'[l], Holds(l, i)'
    PROVE  /\ threads'[l][i] \in Workers /\ ~Releasing'
           /\ l \in Holders(threads[l][i])'
<1>1. threads'[l][i] \in Workers
  <2>1. threads'[l] \in Seq(Workers) BY DEF Safe, Typed
  <2> QED BY <2>1
<1>2. l \in Holders(threads[l][i])' BY <1>1, Processes DEF Holders, Holds
<1>3. threads'[l][i] <= size' BY <1>1, <1>2 DEF Safe, Within
<1>4. ~Releasing'
  <2> SUFFICES ASSUME Releasing' PROVE FALSE OBVIOUS
  <2>1. Owner \in Holders(threads[l][i])' BY <1>3 DEF Safe, Placed, Releasing, Holders
  <2> QED BY <1>1, <1>2, <2>1, Processes DEF Safe, Apart
<1> QED BY <1>1, <1>2, <1>4

\* A step leaves alone a worker, a launcher; a launcher has no worker, before
\* the step and after.
Same(w) ==
    /\ pc'[w] = pc[w] /\ started'[w] = started[w] /\ job'[w] = job[w]
    /\ wakeEvent'[w] = wakeEvent[w] /\ idleEvent'[w] = idleEvent[w]
Still(m) == pc'[m] = pc[m] /\ pos'[m] = pos[m] /\ threads'[m] = threads[m]
Aside(m) ==
    /\ \A i \in DOMAIN threads[m] : ~Holds(m, i)
    /\ \A i \in DOMAIN threads'[m] : ~Holds(m, i)'

LEMMA SameFits ==
    ASSUME NEW m \in Launchers, NEW i \in DOMAIN threads[m],
           Still(m), Same(threads[m][i])
    PROVE  Fits(m, i)' <=> Fits(m, i)
  BY DEF Fits, Busy, Given, Rested, Working, Finished, Quiet, Assigned, Asleep, Same, Still

LEMMA StaysFit ==
    ASSUME NEW l \in Launchers, NEW i \in DOMAIN threads[l], Fits(l, i),
           Same(threads[l][i]), threads'[l] = threads[l], Busy(l, i)' <=> Busy(l, i),
           Given(l, i)' <=> Given(l, i), Rested(l, i)' <=> Rested(l, i)
    PROVE  Fits(l, i)'
  BY DEF Fits, Working, Finished, Quiet, Assigned, Asleep, Same

LEMMA SameQuiet == ASSUME NEW w \in Workers, Same(w) PROVE Quiet(w)' <=> Quiet(w)
  BY DEF Quiet, Asleep, Same

\* A step of some launchers, and of workers they have.
LEMMA LaunchersFrame ==
    ASSUME Safe, Safe', Signals, NEW L \in SUBSET Launchers,
           size' = size, Releasing' <=> Releasing,
           \A m \in Launchers \ L : Still(m) \/ Aside(m),
           \A w \in Workers : Holders(w) \cap L = {} => Same(w),
           \A m \in L :
               /\ threads'[m] = threads[m]
               /\ pc[m] # "free" /\ (pc'[m] = "free" => pos'[m] = 1)
               /\ \A i \in DOMAIN threads[m] : Fits(m, i) => Fits(m, i)'
    PROVE  Signals'
<1>1. ASSUME NEW m \in L PROVE \A i \in DOMAIN threads[m] : Holds(m, i) /\ Holds(m, i)'
  <2>1. threads[m] \in Seq(Workers) BY DEF Safe, Typed
  <2>2. \A i \in DOMAIN threads[m] : i >= 1 BY <2>1
  <2> QED BY <1>1, <2>2 DEF Holds
<1>2. ASSUME NEW m \in Launchers, NEW i \in DOMAIN threads'[m], Holds(m, i)' PROVE Fits(m, i)'
  <2>1. CASE m \in L
    <3>1. i \in DOMAIN threads[m] BY <2>1
    <3>2. Holds(m, i) BY <1>1, <2>1, <3>1
    <3>3. Fits(m, i) BY <3>1, <3>2 DEF Signals
    <3> QED BY <2>1, <3>1, <3>3
  <2>2. CASE m \notin L
    <3>1. Still(m) BY <1>2, <2>2 DEF Aside
    <3>2. i \in DOMAIN threads[m] /\ Holds(m, i) BY <1>2, <3>1 DEF Still, Holds
    <3>3. Holders(threads[m][i]) \cap L = {}
      <4> SUFFICES ASSUME NEW l \in L, l \in Holders(threads[m][i]) PROVE FALSE OBVIOUS
      <4>1. threads[m][i] \in Workers /\ m \in Holders(threads[m][i]) BY <3>2, OnePlace
      <4>2. l = m BY <4>1 DEF Safe, Apart
      <4> QED BY <2>2, <4>2
    <3>4. threads[m][i] \in Workers BY <3>2, OnePlace
    <3>5. Same(threads[m][i]) BY <3>3, <3>4
    <3>6. Fits(m, i) BY <3>2 DEF Signals
    <3> QED BY <3>1, <3>2, <3>5, <3>6, SameFits
  <2> QED BY <2>1, <2>2
<1>3. ASSUME NEW w \in Workers, Holders(w)' \cap Launchers = {}
      PROVE  Holders(w) \cap Launchers = {}
  <2> SUFFICES ASSUME NEW m \in Launchers, m \in Holders(w) PROVE FALSE OBVIOUS
  <2>1. PICK i \in DOMAIN threads[m] : Holds(m, i) /\ threads[m][i] = w BY HolderOf
  <2>2. i \in DOMAIN threads'[m] /\ Holds(m, i)' /\ threads'[m][i] = w
    <3>1. CASE m \in L BY <1>1, <2>1, <3>1
    <3>2. CASE m \notin L
      <4>1. Still(m) BY <2>1, <3>2 DEF Aside
      <4> QED BY <2>1, <4>1 DEF Still, Holds
    <3> QED BY <3>1, <3>2
  <2>3. m \in Holders(w)' BY <2>2, Processes DEF Holders, Holds
  <2> QED BY <1>3, <2>3
<1>4. ASSUME NEW w \in Workers, Holders(w)' \cap Launchers = {}, ~(Releasing' /\ w <= size')
      PROVE  Quiet(w)'
  <2>1. Holders(w) \cap Launchers = {} BY <1>3, <1>4
  <2>2. Quiet(w) /\ Same(w) BY <1>4, <2>1 DEF Signals
  <2> QED BY <2>2, SameQuiet
<1>5. ASSUME NEW w \in Workers, Releasing', w <= size'
      PROVE  job'[w] = Nobody /\ pc'[w] \in {"off", "wait", "reset", "exited"}
  <2>1. Holders(w) \cap L = {}
    <3> SUFFICES ASSUME NEW l \in L, l \in Holders(w) PROVE FALSE OBVIOUS
    <3>1. \E i \in DOMAIN threads[l] : Holds(l, i) BY HolderOf
    <3> QED BY <1>5, <3>1, OnePlace
  <2>2. Same(w) BY <2>1
  <2> QED BY <1>5, <2>2 DEF Signals, Same
<1> QED BY <1>2, <1>4, <1>5 DEF Signals

\* A step of a worker that does not sleep.
LEMMA WorkerFrame ==
    ASSUME Safe, Safe', Signals, NEW w \in Workers, ~Asleep(w),
           size' = size, Releasing' <=> Releasing,
           \A m \in Launchers : Still(m) \/ Aside(m),
           \A v \in Workers \ {w} : Same(v),
           ~Releasing => \A m \in Launchers : Working(w, m) => Working(w, m)' \/ Finished(w)',
           Releasing /\ job[w] = Nobody /\ pc[w] \in {"off", "wait", "reset", "exited"} =>
               job'[w] = Nobody /\ pc'[w] \in {"off", "wait", "reset", "exited"}
    PROVE  Signals'
<1>1. ~Quiet(w) /\ ~Finished(w) /\ \A m \in Launchers : ~Assigned(w, m)
  BY DEF Quiet, Finished, Assigned
<1>2. ASSUME NEW m \in Launchers, NEW i \in DOMAIN threads'[m], Holds(m, i)' PROVE Fits(m, i)'
  <2>1. Still(m) BY <1>2 DEF Aside
  <2>2. i \in DOMAIN threads[m] /\ Holds(m, i) BY <1>2, <2>1 DEF Still, Holds
  <2>3. Fits(m, i) BY <2>2 DEF Signals
  <2>4. threads[m][i] \in Workers /\ ~Releasing BY <2>2, OnePlace
  <2>5. CASE threads[m][i] = w
    <3>1. Busy(m, i) /\ ~Given(m, i) /\ ~Rested(m, i) /\ Working(w, m)
      BY <1>1, <2>3, <2>5 DEF Fits
    <3>2. Busy(m, i)' /\ ~Given(m, i)' /\ ~Rested(m, i)'
      BY <2>1, <3>1 DEF Busy, Given, Rested, Still
    <3>3. Working(w, m)' \/ Finished(w)' BY <2>4, <3>1
    <3>4. threads'[m][i] = w BY <2>1, <2>5 DEF Still
    <3> QED BY <3>2, <3>3, <3>4 DEF Fits
  <2>6. CASE threads[m][i] # w
    <3>1. Same(threads[m][i]) BY <2>4, <2>6
    <3> QED BY <2>1, <2>2, <2>3, <3>1, SameFits
  <2> QED BY <2>5, <2>6
<1>3. ASSUME NEW v \in Workers, Holders(v)' \cap Launchers = {}
      PROVE  Holders(v) \cap Launchers = {}
  <2> SUFFICES ASSUME NEW m \in Launchers, m \in Holders(v) PROVE FALSE OBVIOUS
  <2>1. PICK i \in DOMAIN threads[m] : Holds(m, i) /\ threads[m][i] = v BY HolderOf
  <2>2. Still(m) BY <2>1 DEF Aside
  <2>3. i \in DOMAIN threads'[m] /\ Holds(m, i)' /\ threads'[m][i] = v
    BY <2>1, <2>2 DEF Still, Holds
  <2>4. m \in Holders(v)' BY <2>3, Processes DEF Holders, Holds
  <2> QED BY <1>3, <2>4
<1>4. ASSUME NEW v \in Workers, Holders(v)' \cap Launchers = {}, ~(Releasing' /\ v <= size')
      PROVE  Quiet(v)'
  <2>1. Quiet(v) BY <1>3, <1>4 DEF Signals
  <2>2. v # w BY <1>1, <2>1
  <2>3. Same(v) BY <2>2
  <2> QED BY <2>1, <2>3, SameQuiet
<1>5. ASSUME NEW v \in Workers, Releasing', v <= size'
      PROVE  job'[v] = Nobody /\ pc'[v] \in {"off", "wait", "reset", "exited"}
  <2>1. job[v] = Nobody /\ pc[v] \in {"off", "wait", "reset", "exited"}
    BY <1>5 DEF Signals
  <2>2. CASE v = w BY <1>5, <2>1, <2>2
  <2>3. CASE v # w
    <3>1. Same(v) BY <2>3
    <3> QED BY <2>1, <3>1 DEF Same
  <2> QED BY <2>2, <2>3
<1> QED BY <1>2, <1>4, <1>5 DEF Signals

LEMMA OneLauncher ==
    ASSUME Safe, Safe', Signals, NEW l \in Launchers, UNCHANGED <<size, threads>>,
           \A q \in (Launchers \ {l}) \cup {Owner} : pc'[q] = pc[q],
           \A m \in Launchers \ {l} : pos'[m] = pos[m],
           \A w \in Workers : l \notin Holders(w) => Same(w),
           pc[l] # "free", pc'[l] = "free" => pos'[l] = 1,
           \A i \in DOMAIN threads[l] : Fits(l, i) => Fits(l, i)'
    PROVE  Signals'
<1>1. Releasing' <=> Releasing BY Processes DEF Releasing
<1>2. \A m \in Launchers \ {l} : Still(m) BY DEF Still
<1>3. \A w \in Workers : Holders(w) \cap {l} = {} => Same(w) OBVIOUS
<1>4. {l} \in SUBSET Launchers OBVIOUS
<1>5. \A m \in {l} : /\ threads'[m] = threads[m]
                     /\ pc[m] # "free" /\ (pc'[m] = "free" => pos'[m] = 1)
                     /\ \A i \in DOMAIN threads[m] : Fits(m, i) => Fits(m, i)'
  OBVIOUS
<1>6. size' = size OBVIOUS
<1>7. \A m \in Launchers \ {l} : Still(m) \/ Aside(m) BY <1>2
<1> QED BY <1>1, <1>3, <1>4, <1>5, <1>6, <1>7, LaunchersFrame

-----------------------------------------------------------------------------
(* The steps of a loop.                                                    *)

\* A launcher goes on and nothing happens to its workers.
LEMMA TurnSignals ==
    ASSUME Safe, Safe', TypeOK, Signals, NEW l \in Launchers,
           (\E r \in Ranges : Perform(l, r)) \/ Release(l) \/ Report(l) \/ Join(l) \/ Runs(l)
    PROVE  Signals'
<1>1. /\ UNCHANGED <<size, threads, started, wakeEvent, idleEvent, job>>
      /\ pc[l] \in {"ready", "report", "join", "take", "call"}
      /\ \E to : pc' = [pc EXCEPT ![l] = to]
      /\ pos' = pos \/ pos' = [pos EXCEPT ![l] = 1]
  BY Processes
     DEF Perform, Release, Report, Join, Runs, Take, CallReturns, CallThrows, Goto, pool, worker, launcher
<1>2. l \in DOMAIN pc /\ l \in DOMAIN pos BY DEF Safe, Typed, Executors
<1>3. /\ \A q \in (Launchers \ {l}) \cup {Owner} : pc'[q] = pc[q]
      /\ \A m \in Launchers \ {l} : pos'[m] = pos[m]
      /\ \A w \in Workers : Same(w)
  BY <1>1, Processes DEF Same, Safe, Typed, Executors
<1>4. threads[l] \in Seq(Workers) /\ pos[l] \in Nat \ {0} BY DEF Safe, Typed
<1>5. \A i \in DOMAIN threads[l] : i \in 1 .. Len(threads[l]) BY <1>4
<1>6. ASSUME NEW i \in DOMAIN threads[l], Fits(l, i) PROVE Fits(l, i)'
  <2> DEFINE w == threads[l][i]
  <2>1. w \in Workers BY <1>4
  <2>2. \A m \in Launchers : /\ Quiet(w)' <=> Quiet(w)
                             /\ Finished(w)' <=> Finished(w)
                             /\ Working(w, m)' <=> Working(w, m)
    BY <1>1, <1>3, <2>1 DEF Same, Quiet, Finished, Working, Asleep
  <2> HIDE DEF w
  <2>3. threads'[l][i] = w BY <1>1 DEF w
  <2>4. CASE Runs(l)
    <3>1. /\ pc[l] \in {"take", "call"} /\ pc'[l] \in {"take", "call", "join"}
          /\ pc'[l] = "join" => pos'[l] = 1
      BY <1>2, <2>4, Processes DEF Runs, Take, CallReturns, CallThrows, Goto, AfterJob
    <3>2. Busy(l, i) /\ Busy(l, i)' /\ ~Given(l, i)' /\ ~Rested(l, i)'
      BY <1>5, <3>1 DEF Busy, Given, Rested
    <3> QED BY <1>6, <2>2, <2>3, <3>2 DEF Fits, w
  <2>5. CASE \E r \in Ranges : Perform(l, r)
    <3>1. pc[l] = "ready" /\ pc'[l] = "wake" /\ pos'[l] = 1 BY <1>2, <2>5 DEF Perform, Goto
    <3>2. /\ ~Busy(l, i) /\ ~Given(l, i) /\ ~Rested(l, i)
          /\ ~Busy(l, i)' /\ ~Given(l, i)' /\ ~Rested(l, i)'
      BY <1>5, <3>1 DEF Busy, Given, Rested
    <3> QED BY <1>6, <2>2, <2>3, <3>2 DEF Fits, w
  <2>6. CASE Release(l) \/ Report(l)
    <3>1. pc[l] \in {"ready", "report"} /\ pc'[l] \in {"ready", "free"}
      BY <1>2, <2>6 DEF Release, Report, Goto
    <3>2. /\ ~Busy(l, i) /\ ~Given(l, i) /\ ~Rested(l, i)
          /\ ~Busy(l, i)' /\ ~Given(l, i)' /\ ~Rested(l, i)'
      BY <3>1 DEF Busy, Given, Rested
    <3> QED BY <1>6, <2>2, <2>3, <3>2 DEF Fits, w
  <2>7. CASE Join(l)
    <3>1. pc[l] = "join" /\ pos'[l] = pos[l] BY <2>7 DEF Join
    <3>2. CASE pos[l] > Len(threads[l]) /\ pc'[l] = "report"
      <4>1. /\ ~Busy(l, i) /\ ~Given(l, i) /\ ~Rested(l, i)
            /\ ~Busy(l, i)' /\ ~Given(l, i)' /\ ~Rested(l, i)'
        BY <1>4, <1>5, <3>1, <3>2 DEF Busy, Given, Rested
      <4> QED BY <1>6, <2>2, <2>3, <4>1 DEF Fits, w
    <3>3. CASE pc'[l] = "rest" /\ idleEvent[threads[l][pos[l]]]
      <4>1. i = pos[l] => Busy(l, i) /\ ~Busy(l, i)' /\ ~Given(l, i)' /\ Rested(l, i)'
        BY <1>4, <1>5, <3>1, <3>3 DEF Busy, Given, Rested
      <4>2. i = pos[l] => ~Working(w, l) BY <3>3 DEF Working, w
      <4>3. i # pos[l] => /\ ~Given(l, i) /\ ~Rested(l, i) /\ ~Given(l, i)' /\ ~Rested(l, i)'
                          /\ Busy(l, i)' <=> Busy(l, i)
        BY <1>4, <1>5, <3>1, <3>3 DEF Busy, Given, Rested
      <4>4. CASE i = pos[l] BY <1>6, <2>2, <2>3, <4>1, <4>2, <4>4 DEF Fits, w
      <4>5. CASE i # pos[l] BY <1>6, <2>2, <2>3, <4>3, <4>5 DEF Fits, w
      <4> QED BY <4>4, <4>5
    <3> QED BY <1>2, <2>7, <3>2, <3>3 DEF Join, Goto, Resting
  <2> QED BY <2>4, <2>5, <2>6, <2>7
<1>7. pc'[l] = "free" => pos'[l] = 1
  BY <1>2
     DEF Perform, Release, Report, Join, Runs, Take, CallReturns, CallThrows, Goto, AfterJob
<1>8. pc[l] # "free" BY <1>1
<1> QED BY <1>1, <1>3, <1>6, <1>7, <1>8, OneLauncher

\* A launcher wakes the next of its workers, or makes it idle no more.
LEMMA ServeSignals ==
    ASSUME Safe, Safe', TypeOK, Far, Signals, NEW l \in Launchers,
           WakeJob(l) \/ Signal(l) \/ ResetIdle(l)
    PROVE  Signals'
<1>0. PICK v : v = threads[l][pos[l]] OBVIOUS
<1>1. UNCHANGED <<size, threads>> BY DEF WakeJob, Signal, ResetIdle, pool, launcher
<1>2. l \in DOMAIN pc /\ l \in DOMAIN pos BY DEF Safe, Typed, Executors
<1>3. threads[l] \in Seq(Workers) /\ pos[l] \in Nat \ {0} BY DEF Safe, Typed
<1>4. \A i \in DOMAIN threads[l] : i \in 1 .. Len(threads[l]) BY <1>3
<1>5. pc[l] \in {"wake", "signal", "rest"} BY DEF WakeJob, Signal, ResetIdle
<1>6. \A i \in DOMAIN threads[l] : Holds(l, i) BY <1>5 DEF Holds
<1>7. ASSUME pos[l] <= Len(threads[l])
      PROVE  /\ pos[l] \in DOMAIN threads[l] /\ v \in Workers /\ l \in Holders(v)
             /\ \A i \in DOMAIN threads[l] : i # pos[l] =>
                   threads[l][i] # v /\ threads[l][i] \in Workers
  <2>1. pos[l] \in DOMAIN threads[l] BY <1>3, <1>7
  <2>2. v \in Workers /\ l \in Holders(v) BY <1>0, <1>6, <2>1, OnePlace
  <2>3. \A i \in DOMAIN threads[l] : i # pos[l] => threads[l][i] # v
    BY <1>0, <2>1 DEF Safe, Distinct
  <2>4. \A i \in DOMAIN threads[l] : threads[l][i] \in Workers BY <1>3
  <2> QED BY <2>1, <2>2, <2>3, <2>4
<1>8. ASSUME WakeJob(l), pos[l] > Len(threads[l]) PROVE Signals'
  <2>1. /\ pc[l] = "wake" /\ pc' = [pc EXCEPT ![l] = "take"] /\ pos' = pos
        /\ UNCHANGED <<started, wakeEvent, idleEvent, job>>
    BY <1>3, <1>8 DEF WakeJob, Goto
  <2>2. /\ pc'[l] = "take"
        /\ \A q \in (Launchers \ {l}) \cup {Owner} : pc'[q] = pc[q]
        /\ \A w \in Workers : Same(w)
    BY <2>1, Processes DEF Same, Safe, Typed, Executors
  <2>3. ASSUME NEW i \in DOMAIN threads[l], Fits(l, i) PROVE Fits(l, i)'
    <3>0. PICK w : w = threads[l][i] OBVIOUS
    <3>1. w \in Workers BY <1>3, <3>0
    <3>2. (Finished(w)' <=> Finished(w)) /\ (Working(w, l)' <=> Working(w, l))
      BY <2>2, <3>1 DEF Same, Finished, Working, Asleep
    <3>3. Busy(l, i) /\ Busy(l, i)' /\ ~Given(l, i)' /\ ~Rested(l, i)'
      BY <1>3, <1>4, <1>8, <2>1, <2>2 DEF Busy, Given, Rested
    <3>4. threads'[l][i] = w BY <1>1, <3>0
    <3> QED BY <2>3, <3>0, <3>2, <3>3, <3>4 DEF Fits
  <2> QED BY <1>1, <2>1, <2>2, <2>3, OneLauncher
<1>9. ASSUME WakeJob(l), pos[l] <= Len(threads[l]) PROVE Signals'
  <2>1. /\ pc[l] = "wake" /\ pc' = [pc EXCEPT ![l] = "signal"] /\ pos' = pos
        /\ job' = [job EXCEPT ![v] = l]
        /\ UNCHANGED <<started, wakeEvent, idleEvent>>
    BY <1>0, <1>3, <1>9 DEF WakeJob, Goto
  <2>2. /\ pc'[l] = "signal"
        /\ \A q \in (Launchers \ {l}) \cup {Owner} \cup Workers : pc'[q] = pc[q]
    BY <2>1, Processes DEF Safe, Typed, Executors
  <2>3. job'[v] = l /\ \A w \in Workers : w # v => Same(w)
    BY <1>7, <1>9, <2>1, <2>2 DEF Same, TypeOK
  <2>4. \A w \in Workers : l \notin Holders(w) => Same(w) BY <1>7, <1>9, <2>3
  <2>5. ASSUME NEW i \in DOMAIN threads[l], Fits(l, i) PROVE Fits(l, i)'
    <3>1. CASE i = pos[l]
      <4>1. /\ ~Busy(l, i) /\ ~Given(l, i) /\ ~Rested(l, i)
            /\ ~Busy(l, i)' /\ Given(l, i)' /\ ~Rested(l, i)'
        BY <1>3, <2>1, <2>2, <3>1 DEF Busy, Given, Rested
      <4>2. Quiet(v) BY <1>0, <2>5, <3>1, <4>1 DEF Fits
      <4>3. Assigned(v, l)'
        BY <1>7, <1>9, <2>1, <2>2, <2>3, <4>2 DEF Quiet, Assigned, Asleep
      <4>4. threads'[l][i] = v BY <1>0, <1>1, <3>1
      <4> QED BY <4>1, <4>3, <4>4 DEF Fits
    <3>2. CASE i # pos[l]
      <4>1. Same(threads[l][i]) BY <1>7, <1>9, <2>3, <3>2
      <4>2. /\ ~Given(l, i) /\ ~Rested(l, i) /\ ~Given(l, i)' /\ ~Rested(l, i)'
            /\ Busy(l, i)' <=> Busy(l, i)
        BY <2>1, <2>2, <3>2 DEF Busy, Given, Rested
      <4> QED BY <1>1, <2>5, <4>1, <4>2, StaysFit
    <3> QED BY <3>1, <3>2
  <2>6. pc[l] # "free" /\ pc'[l] # "free" BY <2>1, <2>2
  <2> QED BY <1>1, <2>1, <2>2, <2>4, <2>5, <2>6, OneLauncher
<1>10. ASSUME Signal(l) PROVE Signals'
  <2>1. pos[l] <= Len(threads[l]) BY <1>10 DEF Signal, Safe, Placed
  <2>2. /\ pc[l] = "signal" /\ pos' = [pos EXCEPT ![l] = pos[l] + 1]
        /\ pc' = IF started[v] THEN [pc EXCEPT ![l] = "wake"]
                 ELSE [pc EXCEPT ![l] = "wake", ![v] = "wait"]
        /\ wakeEvent' = [wakeEvent EXCEPT ![v] = TRUE]
        /\ started' = [started EXCEPT ![v] = TRUE]
        /\ UNCHANGED <<idleEvent, job>>
    BY <1>0, <1>10 DEF Signal
  <2>3. v \in Workers /\ l \in Holders(v) BY <1>7, <2>1
  <2>4. Assigned(v, l)
    <3>1. Fits(l, pos[l]) BY <1>6, <1>7, <2>1 DEF Signals
    <3>2. Given(l, pos[l]) BY <2>2 DEF Given
    <3> QED BY <1>0, <3>1, <3>2 DEF Fits
  <2>5. /\ pc'[l] = "wake" /\ pos'[l] = pos[l] + 1
        /\ pc'[v] = "wait" /\ wakeEvent'[v] /\ started'[v]
    BY <1>2, <2>2, <2>3, <2>4, Processes DEF TypeOK, Safe, Typed, Executors, Assigned, Asleep
  <2>6. /\ \A q \in (Launchers \ {l}) \cup {Owner} : pc'[q] = pc[q]
        /\ \A m \in Launchers \ {l} : pos'[m] = pos[m]
        /\ \A w \in Workers : w # v => Same(w)
    <3>1. \A q \in Launchers \cup Workers \cup {Owner} : q \notin {l, v} => pc'[q] = pc[q]
      BY <2>2, Processes DEF Safe, Typed, Executors
    <3>2. \A m \in Launchers \ {l} : pos'[m] = pos[m] BY <2>2 DEF Safe, Typed
    <3>3. \A w \in Workers : w # v => Same(w) BY <2>2, <3>1, Processes DEF Same, TypeOK
    <3> QED BY <2>3, <3>1, <3>2, <3>3, Processes
  <2>7. \A w \in Workers : l \notin Holders(w) => Same(w) BY <2>3, <2>6
  <2>8. Working(v, l)' BY <2>2, <2>4, <2>5 DEF Assigned, Working
  <2>9. ASSUME NEW i \in DOMAIN threads[l], Fits(l, i) PROVE Fits(l, i)'
    <3>1. CASE i = pos[l]
      <4>1. Busy(l, i)' /\ ~Given(l, i)' /\ ~Rested(l, i)'
        BY <1>3, <2>5, <3>1 DEF Busy, Given, Rested
      <4>2. threads'[l][i] = v BY <1>0, <1>1, <3>1
      <4> QED BY <2>8, <4>1, <4>2 DEF Fits
    <3>2. CASE i # pos[l]
      <4>1. Same(threads[l][i]) BY <1>7, <2>1, <2>6, <3>2
      <4>2. /\ ~Given(l, i) /\ ~Rested(l, i) /\ ~Given(l, i)' /\ ~Rested(l, i)'
            /\ Busy(l, i)' <=> Busy(l, i)
        BY <1>3, <1>4, <2>2, <2>5, <3>2 DEF Busy, Given, Rested
      <4> QED BY <1>1, <2>9, <4>1, <4>2, StaysFit
    <3> QED BY <3>1, <3>2
  <2>10. pc[l] # "free" /\ pc'[l] # "free" BY <2>2, <2>5
  <2> QED BY <1>1, <2>6, <2>7, <2>9, <2>10, OneLauncher
<1>11. ASSUME ResetIdle(l) PROVE Signals'
  <2>1. pos[l] <= Len(threads[l]) BY <1>11 DEF ResetIdle, Far
  <2>2. /\ pc[l] = "rest" /\ pos' = [pos EXCEPT ![l] = pos[l] + 1]
        /\ pc' = [pc EXCEPT ![l] = "join"]
        /\ idleEvent' = [idleEvent EXCEPT ![v] = FALSE]
        /\ UNCHANGED <<started, wakeEvent, job>>
    BY <1>0, <1>11 DEF ResetIdle, Goto
  <2>3. v \in Workers /\ l \in Holders(v) BY <1>7, <2>1
  <2>4. Finished(v)
    <3>1. Fits(l, pos[l]) BY <1>6, <1>7, <2>1 DEF Signals
    <3>2. Rested(l, pos[l]) BY <2>2 DEF Rested
    <3> QED BY <1>0, <3>1, <3>2 DEF Fits
  <2>5. pc'[l] = "join" /\ pos'[l] = pos[l] + 1 /\ ~idleEvent'[v]
    BY <1>2, <2>2, <2>3 DEF TypeOK
  <2>6. /\ \A q \in (Launchers \ {l}) \cup {Owner} \cup Workers : pc'[q] = pc[q]
        /\ \A m \in Launchers \ {l} : pos'[m] = pos[m]
    BY <2>2, Processes DEF Safe, Typed, Executors
  <2>7. \A w \in Workers : w # v => Same(w) BY <2>2, <2>3, <2>6 DEF Same, TypeOK
  <2>8. \A w \in Workers : l \notin Holders(w) => Same(w) BY <2>3, <2>7
  <2>9. Quiet(v)' BY <2>2, <2>3, <2>4, <2>5, <2>6 DEF Finished, Quiet, Asleep
  <2>10. ASSUME NEW i \in DOMAIN threads[l], Fits(l, i) PROVE Fits(l, i)'
    <3>1. CASE i = pos[l]
      <4>1. ~Busy(l, i)' /\ ~Given(l, i)' /\ ~Rested(l, i)'
        BY <1>3, <2>5, <3>1 DEF Busy, Given, Rested
      <4>2. threads'[l][i] = v BY <1>0, <1>1, <3>1
      <4> QED BY <2>9, <4>1, <4>2 DEF Fits
    <3>2. CASE i # pos[l]
      <4>1. Same(threads[l][i]) BY <1>7, <2>1, <2>7, <3>2
      <4>2. /\ ~Given(l, i) /\ ~Rested(l, i) /\ ~Given(l, i)' /\ ~Rested(l, i)'
            /\ Busy(l, i)' <=> Busy(l, i)
        BY <1>3, <1>4, <2>2, <2>5, <3>2 DEF Busy, Given, Rested
      <4> QED BY <1>1, <2>10, <4>1, <4>2, StaysFit
    <3> QED BY <3>1, <3>2
  <2>11. pc[l] # "free" /\ pc'[l] # "free" BY <2>2, <2>5
  <2> QED BY <1>1, <2>6, <2>8, <2>10, <2>11, OneLauncher
<1> QED BY <1>3, <1>8, <1>9, <1>10, <1>11

\* A worker goes on with what it was woken for.
LEMMA WorkerSignals ==
    ASSUME Safe, Safe', TypeOK, Far, Signals, NEW w \in Workers, WorkerStep(w)
    PROVE  Signals'
<1>1. /\ UNCHANGED <<size, threads, pos, started>>
      /\ \E to : pc' = [pc EXCEPT ![w] = to]
      /\ wakeEvent' = wakeEvent \/ wakeEvent' = [wakeEvent EXCEPT ![w] = FALSE]
      /\ idleEvent' = idleEvent \/ idleEvent' = [idleEvent EXCEPT ![w] = TRUE]
      /\ job' = job \/ job' = [job EXCEPT ![w] = Nobody]
  BY DEF WorkerStep, Runs, WaitWake, ResetWake, BeginJob, ClearJob, SetIdle, Take, CallReturns,
         CallThrows, Goto, pool, worker, launcher
<1>2. w \in DOMAIN pc BY DEF Safe, Typed, Executors
<1>3. \A q \in Launchers \cup (Workers \ {w}) \cup {Owner} : pc'[q] = pc[q]
  BY <1>1, Processes DEF Safe, Typed, Executors
<1>4. \A m \in Launchers : Still(m) BY <1>1, <1>3 DEF Still
<1>5. \A v \in Workers \ {w} : Same(v) BY <1>1, <1>3 DEF Same, TypeOK
<1>6. Releasing' <=> Releasing BY <1>3 DEF Releasing
<1>7. size' = size BY <1>1
<1>8. \A m \in Launchers : Nobody # m BY Processes
<1>9. CASE WaitWake(w)
  <2>1. /\ pc[w] = "wait" /\ wakeEvent[w] /\ pc'[w] = "reset"
        /\ UNCHANGED <<wakeEvent, idleEvent, job>>
    BY <1>2, <1>9 DEF WaitWake, Goto, worker
  <2>2. ~Asleep(w) BY <2>1 DEF Asleep
  <2>3. \A m \in Launchers : Working(w, m) => Working(w, m)' BY <1>1, <2>1 DEF Working
  <2> QED BY <1>4, <1>5, <1>6, <1>7, <2>1, <2>2, <2>3, WorkerFrame
<1>10. CASE ResetWake(w)
  <2>1. /\ pc[w] = "reset" /\ pc'[w] = IF shutDown THEN "exited" ELSE "begin"
        /\ ~wakeEvent'[w] /\ UNCHANGED <<idleEvent, job>>
    BY <1>2, <1>10 DEF ResetWake, AfterWake, Goto, TypeOK
  <2>2. ~Asleep(w) BY <2>1 DEF Asleep
  <2>3. ~Releasing => \A m \in Launchers : Working(w, m) => Working(w, m)'
    BY <1>1, <2>1 DEF Working, Far
  <2>4. CASE Releasing /\ size > 0
    <3>1. pc'[w] = "exited" BY <2>1, <2>4 DEF Far
    <3> QED BY <1>4, <1>5, <1>6, <1>7, <2>1, <2>2, <2>3, <3>1, WorkerFrame
  <2>5. CASE ~Releasing
    BY <1>4, <1>5, <1>6, <1>7, <2>2, <2>3, <2>5, WorkerFrame
  <2>6. CASE Releasing /\ ~(size > 0)
    <3>1. ~(w <= size) BY <2>6, Processes DEF Safe, Typed
    <3>2. Holders(w) \cap Launchers = {} BY <3>1 DEF Safe, Within
    <3>3. Quiet(w) BY <3>1, <3>2 DEF Signals
    <3> QED BY <2>2, <3>3 DEF Quiet
  <2> QED BY <2>4, <2>5, <2>6
<1>11. CASE BeginJob(w)
  <2>1. /\ pc[w] = "begin" /\ pc'[w] = IF job[w] = Nobody THEN "idle" ELSE "take"
        /\ UNCHANGED <<wakeEvent, idleEvent, job>>
    BY <1>2, <1>11 DEF BeginJob, Goto
  <2>2. ~Asleep(w) BY <2>1 DEF Asleep
  <2>3. \A m \in Launchers : Working(w, m) => Working(w, m)' BY <1>1, <1>8, <2>1 DEF Working
  <2> QED BY <1>4, <1>5, <1>6, <1>7, <2>1, <2>2, <2>3, WorkerFrame
<1>12. CASE Runs(w)
  <2>1. /\ pc[w] \in {"take", "call"} /\ pc'[w] \in {"take", "call", "clear"}
        /\ UNCHANGED <<wakeEvent, idleEvent, job>>
    BY <1>2, <1>12 DEF Runs, Take, CallReturns, CallThrows, AfterJob, Goto, worker
  <2>2. ~Asleep(w) BY <2>1 DEF Asleep
  <2>3. \A m \in Launchers : Working(w, m) => Working(w, m)' BY <1>1, <2>1 DEF Working
  <2> QED BY <1>4, <1>5, <1>6, <1>7, <2>1, <2>2, <2>3, WorkerFrame
<1>13. CASE ClearJob(w)
  <2>1. /\ pc[w] = "clear" /\ pc'[w] = "idle" /\ job'[w] = Nobody
        /\ UNCHANGED <<wakeEvent, idleEvent>>
    BY <1>2, <1>13 DEF ClearJob, Goto, TypeOK
  <2>2. ~Asleep(w) BY <2>1 DEF Asleep
  <2>3. \A m \in Launchers : Working(w, m) => Working(w, m)' BY <1>1, <2>1 DEF Working
  <2> QED BY <1>4, <1>5, <1>6, <1>7, <2>1, <2>2, <2>3, WorkerFrame
<1>14. CASE SetIdle(w)
  <2>1. /\ pc[w] = "idle" /\ pc'[w] = "wait" /\ idleEvent'[w]
        /\ UNCHANGED <<wakeEvent, job>>
    BY <1>2, <1>14 DEF SetIdle, Goto, TypeOK
  <2>2. ~Asleep(w) BY <2>1 DEF Asleep
  <2>3. \A m \in Launchers : Working(w, m) => Finished(w)'
    BY <1>1, <2>1 DEF Working, Finished, Asleep
  <2> QED BY <1>4, <1>5, <1>6, <1>7, <2>1, <2>2, <2>3, WorkerFrame
<1> QED BY <1>9, <1>10, <1>11, <1>12, <1>13, <1>14 DEF WorkerStep

-----------------------------------------------------------------------------
(* The steps that lock and free workers.                                   *)

\* A launcher's constructor begins, in a functor or not.
LEMMA ConstructSignals ==
    ASSUME Safe, Safe', TypeOK, Far, Signals, NEW l \in Launchers, NEW max,
           NEW e \in Executors \cup {Nobody}, Construct(l, max, e),
           \/ e = Nobody /\ pc' = [pc EXCEPT ![l] = "lock"]
           \/ e # Nobody /\ pc[e] = "call" /\ pc' = [pc EXCEPT ![e] = "nested", ![l] = "lock"]
    PROVE  Signals'
<1>1. /\ pc[l] = "none" /\ size' = size
      /\ UNCHANGED <<started, wakeEvent, idleEvent, job>>
      /\ threads' = [threads EXCEPT ![l] = << >>] /\ pos' = [pos EXCEPT ![l] = 1]
  BY DEF Construct, pool
<1>2. e # l BY <1>1, Processes
<1>3. threads[l] = << >> /\ threads' = threads
  <2>1. threads[l] = << >> BY <1>1 DEF Far
  <2> QED BY <1>1, <2>1 DEF Safe, Typed
<1>4. /\ \A q \in Launchers \cup Workers \cup {Owner} : q \notin {l, e} => pc'[q] = pc[q]
      /\ e \in Executors => pc[e] = "call" /\ pc'[e] = "nested"
      /\ pc'[Owner] = pc[Owner]
  BY <1>1, <1>2, Processes DEF Safe, Typed, Executors
<1>5. \A m \in Launchers \ {l} : pos'[m] = pos[m] BY <1>1 DEF Safe, Typed
<1>6. Aside(l)
  <2>1. DOMAIN threads[l] = {} BY <1>3
  <2> QED BY <1>3, <2>1 DEF Aside
<1>7. \A m \in Launchers : m # e => Still(m) \/ Aside(m)
  BY <1>3, <1>4, <1>5, <1>6 DEF Still
<1>8. Releasing' <=> Releasing BY <1>4 DEF Releasing
<1>9. \A v \in Workers : v # e => Same(v) BY <1>1, <1>4, Processes DEF Same
<1>10. CASE e \in Workers
  <2>1. pc[e] = "call" /\ pc'[e] = "nested" BY <1>4, <1>10 DEF Executors
  <2>2. ~Asleep(e) BY <2>1 DEF Asleep
  <2>3. \A m \in Launchers : Working(e, m) => Working(e, m)' BY <1>1, <2>1 DEF Working
  <2>4. \A m \in Launchers : m # e BY <1>10, Processes
  <2> QED BY <1>1, <1>7, <1>8, <1>9, <1>10, <2>1, <2>2, <2>3, <2>4, WorkerFrame
<1>11. CASE e \in Launchers
  <2>1. /\ pc[e] = "call" /\ pc'[e] = "nested" /\ pos'[e] = pos[e]
    BY <1>2, <1>4, <1>5, <1>11 DEF Executors
  <2>2. \A w \in Workers : Same(w) BY <1>9, <1>11, Processes
  <2>3. ASSUME NEW i \in DOMAIN threads[e], Fits(e, i) PROVE Fits(e, i)'
    <3>1. threads[e] \in Seq(Workers) BY <1>11 DEF Safe, Typed
    <3>2. Same(threads[e][i]) BY <2>2, <3>1
    <3>3. /\ Busy(e, i)' <=> Busy(e, i)
          /\ Given(e, i)' <=> Given(e, i)
          /\ Rested(e, i)' <=> Rested(e, i)
      BY <2>1 DEF Busy, Given, Rested
    <3> QED BY <1>3, <1>11, <2>3, <3>2, <3>3, StaysFit
  <2>4. {e} \in SUBSET Launchers BY <1>11
  <2>5. \A m \in {e} : /\ threads'[m] = threads[m]
                       /\ pc[m] # "free" /\ (pc'[m] = "free" => pos'[m] = 1)
                       /\ \A i \in DOMAIN threads[m] : Fits(m, i) => Fits(m, i)'
    BY <1>3, <2>1, <2>3
  <2>6. \A m \in Launchers \ {e} : Still(m) \/ Aside(m) BY <1>7
  <2> QED BY <1>1, <1>8, <2>2, <2>4, <2>5, <2>6, LaunchersFrame
<1>12. CASE e = Nobody
  <2>1. {} \in SUBSET Launchers OBVIOUS
  <2>2. \A m \in Launchers : Still(m) \/ Aside(m) BY <1>7, <1>12, Processes
  <2>3. \A w \in Workers : Same(w) BY <1>9, <1>12, Processes
  <2> QED BY <1>1, <1>8, <2>1, <2>2, <2>3, LaunchersFrame
<1> QED BY <1>10, <1>11, <1>12 DEF Executors

\* The constructor goes on: a worker it locks is quiet.
LEMMA LockNextSignals ==
    ASSUME Safe, Safe', TypeOK, Far, Signals, NEW l \in Launchers, LockNext(l)
    PROVE  Signals'
<1>1. /\ pc[l] = "lock" /\ size' = size
      /\ UNCHANGED <<started, wakeEvent, idleEvent, job>>
  BY DEF LockNext, pool
<1>2. threads[l] \in Seq(Workers) /\ pos[l] \in Nat \ {0} /\ l \in DOMAIN pc
  BY DEF Safe, Typed, Executors
<1>3. pc' = pc \/ pc' = [pc EXCEPT ![l] = "ready"] BY DEF LockNext, Goto
<1>4. /\ \A q \in (Launchers \ {l}) \cup Workers \cup {Owner} : pc'[q] = pc[q]
      /\ pc'[l] \in {"lock", "ready"}
  BY <1>1, <1>2, <1>3, Processes DEF Safe, Typed, Executors
<1>5. \A m \in Launchers \ {l} : pos'[m] = pos[m] /\ threads'[m] = threads[m]
  BY DEF LockNext, Safe, Typed
<1>6. \A w \in Workers : Same(w) BY <1>1, <1>4 DEF Same
<1>7. Releasing' <=> Releasing BY <1>4 DEF Releasing
<1>8. \A i : /\ ~Busy(l, i) /\ ~Given(l, i) /\ ~Rested(l, i)
             /\ ~Busy(l, i)' /\ ~Given(l, i)' /\ ~Rested(l, i)'
  BY <1>1, <1>4 DEF Busy, Given, Rested
<1>9. CASE threads' = threads
  <2>1. ASSUME NEW i \in DOMAIN threads[l], Fits(l, i) PROVE Fits(l, i)'
    <3>1. Same(threads[l][i]) BY <1>2, <1>6
    <3> QED BY <1>8, <1>9, <2>1, <3>1, StaysFit
  <2>2. pc[l] # "free" /\ pc'[l] # "free" BY <1>1, <1>4
  <2> QED BY <1>1, <1>4, <1>5, <1>6, <1>9, <2>1, <2>2, OneLauncher
<1>10. CASE threads' # threads
  <2>0. PICK v : v = pos[l] OBVIOUS
  <2>1. /\ v <= size /\ usage[v] = 0 /\ threads' = [threads EXCEPT ![l] = Append(@, v)]
        /\ pc' = pc
    BY <1>10, <2>0 DEF LockNext, Lockable
  <2>2. v \in Workers BY <1>2, <2>0, <2>1, Processes DEF Safe, Typed, Workers
  <2>3. Holders(v) = {} BY <2>1, <2>2 DEF Safe, Apart
  <2>4. ~(Releasing /\ v <= size)
    <3>1. Releasing => Owner \in Holders(v)
      BY <2>1 DEF Safe, Placed, Releasing, Holders
    <3> QED BY <2>3, <3>1
  <2>5. Quiet(v) BY <2>2, <2>3, <2>4 DEF Signals
  <2>6. threads'[l] = Append(threads[l], v) BY <2>1 DEF Safe, Typed
  <2>7. ASSUME NEW m \in Launchers, NEW i \in DOMAIN threads'[m], Holds(m, i)' PROVE Fits(m, i)'
    <3>1. CASE m = l
      <4>0. PICK w : w = threads'[l][i] OBVIOUS
      <4>1. w = v \/ (i \in DOMAIN threads[l] /\ w = threads[l][i])
        BY <1>2, <2>2, <2>6, <2>7, <3>1, <4>0
      <4>2. w \in Workers /\ Quiet(w)
        <5>1. CASE w = v BY <2>2, <2>5, <5>1
        <5>2. CASE i \in DOMAIN threads[l] /\ w = threads[l][i]
          <6>1. Holds(l, i) BY <1>1, <5>2 DEF Holds
          <6>2. Fits(l, i) BY <5>2, <6>1 DEF Signals
          <6>3. w \in Workers BY <1>2, <5>2
          <6> QED BY <1>8, <5>2, <6>2, <6>3 DEF Fits
        <5> QED BY <4>1, <5>1, <5>2
      <4>3. Quiet(w)' BY <1>6, <4>2, SameQuiet
      <4> QED BY <1>8, <3>1, <4>0, <4>3 DEF Fits
    <3>2. CASE m # l
      <4>1. Still(m) BY <1>4, <1>5, <3>2 DEF Still
      <4>2. i \in DOMAIN threads[m] /\ Holds(m, i) BY <2>7, <4>1 DEF Still, Holds
      <4>3. Fits(m, i) BY <4>2 DEF Signals
      <4>4. Same(threads[m][i]) BY <1>6, <4>2, OnePlace
      <4> QED BY <4>1, <4>2, <4>3, <4>4, SameFits
    <3> QED BY <3>1, <3>2
  <2>8. ASSUME NEW w \in Workers, Holders(w)' \cap Launchers = {}, ~(Releasing' /\ w <= size')
        PROVE  Quiet(w)'
    <3>1. ASSUME NEW m \in Launchers, m \in Holders(w) PROVE FALSE
      <4>1. PICK i \in DOMAIN threads[m] : Holds(m, i) /\ threads[m][i] = w BY <3>1, HolderOf
      <4>2. i \in DOMAIN threads'[m] /\ threads'[m][i] = w /\ Holds(m, i)'
        <5>1. CASE m = l
          <6>1. i \in DOMAIN threads'[l] /\ threads'[l][i] = threads[l][i]
            BY <1>2, <2>2, <2>6, <4>1, <5>1
          <6> QED BY <1>4, <4>1, <5>1, <6>1 DEF Holds
        <5>2. CASE m # l BY <1>4, <1>5, <4>1, <5>2 DEF Holds
        <5> QED BY <5>1, <5>2
      <4>3. m \in Holders(w)' BY <4>2, Processes DEF Holders, Holds
      <4> QED BY <2>8, <4>3
    <3>2. Quiet(w) BY <1>1, <1>7, <2>8, <3>1 DEF Signals
    <3> QED BY <1>6, <3>2, SameQuiet
  <2>9. ASSUME NEW w \in Workers, Releasing', w <= size'
        PROVE  job'[w] = Nobody /\ pc'[w] \in {"off", "wait", "reset", "exited"}
    BY <1>1, <1>6, <1>7, <2>9 DEF Signals, Same
  <2> QED BY <2>7, <2>8, <2>9 DEF Signals
<1> QED BY <1>9, <1>10

\* The destructor goes on: the workers it frees are quiet, and the functor the
\* launcher was made in goes on.
LEMMA FreeNextSignals ==
    ASSUME Safe, Safe', TypeOK, Far, Signals, WorkersWait, NEW l \in Launchers, FreeNext(l)
    PROVE  Signals'
<1>1. /\ pc[l] = "free" /\ size' = size
      /\ UNCHANGED <<started, wakeEvent, idleEvent, job>>
  BY DEF FreeNext, pool
<1>2. threads[l] \in Seq(Workers) /\ pos[l] \in Nat \ {0} /\ l \in DOMAIN pc
  BY DEF Safe, Typed, Executors
<1>3. \A i \in DOMAIN threads[l] : i \in 1 .. Len(threads[l]) BY <1>2
<1>4. CASE /\ pos[l] <= Len(threads[l]) /\ pos' = [pos EXCEPT ![l] = pos[l] + 1]
           /\ UNCHANGED <<threads, pc>>
  <2>1. \A w \in Workers : Same(w) BY <1>1, <1>4 DEF Same
  <2>2. pos'[l] = pos[l] + 1 /\ \A m \in Launchers \ {l} : Still(m)
    BY <1>4 DEF Still, Safe, Typed
  <2>3. \A i : /\ ~Busy(l, i) /\ ~Given(l, i) /\ ~Rested(l, i)
               /\ ~Busy(l, i)' /\ ~Given(l, i)' /\ ~Rested(l, i)'
    BY <1>1, <1>4 DEF Busy, Given, Rested
  <2>4. \A i \in DOMAIN threads[l] : Holds(l, i)' <=> Holds(l, i) /\ i # pos[l]
    BY <1>1, <1>2, <1>3, <1>4, <2>2 DEF Holds
  <2>5. ASSUME NEW m \in Launchers, NEW i \in DOMAIN threads[m], Holds(m, i)' PROVE Fits(m, i)'
    <3>1. Holds(m, i) BY <2>2, <2>4, <2>5 DEF Still, Holds
    <3>2. Same(threads[m][i]) /\ Fits(m, i) BY <2>1, <3>1, OnePlace DEF Signals
    <3>3. CASE m = l BY <1>4, <2>3, <3>2, <3>3, StaysFit
    <3>4. CASE m # l BY <2>2, <3>2, <3>4, SameFits
    <3> QED BY <3>3, <3>4
  <2>6. ASSUME NEW w \in Workers, Holders(w)' \cap Launchers = {}, ~(Releasing' /\ w <= size')
        PROVE  Quiet(w)'
    <3>1. CASE w = threads[l][pos[l]]
      <4>1. pos[l] \in DOMAIN threads[l] BY <1>2, <1>4
      <4>2. Holds(l, pos[l]) BY <1>2, <4>1 DEF Holds
      <4>3. Quiet(w) BY <2>3, <3>1, <4>1, <4>2 DEF Signals, Fits
      <4> QED BY <2>1, <4>3, SameQuiet
    <3>2. CASE w # threads[l][pos[l]]
      <4>1. ASSUME NEW m \in Launchers, m \in Holders(w) PROVE FALSE
        <5>1. PICK i \in DOMAIN threads[m] : Holds(m, i) /\ threads[m][i] = w BY <4>1, HolderOf
        <5>2. Holds(m, i)'
          <6>1. CASE m = l BY <2>4, <3>2, <5>1, <6>1
          <6>2. CASE m # l BY <2>2, <5>1, <6>2 DEF Still, Holds
          <6> QED BY <6>1, <6>2
        <5>3. m \in Holders(w)' BY <1>4, <5>1, <5>2, Processes DEF Holders, Holds
        <5> QED BY <2>6, <5>3
      <4>2. Quiet(w) BY <1>1, <1>4, <2>6, <4>1 DEF Signals, Releasing
      <4> QED BY <2>1, <4>2, SameQuiet
    <3> QED BY <3>1, <3>2
  <2>7. ASSUME NEW w \in Workers, Releasing', w <= size'
        PROVE  job'[w] = Nobody /\ pc'[w] \in {"off", "wait", "reset", "exited"}
    BY <1>1, <1>4, <2>1, <2>7 DEF Signals, Same, Releasing
  <2> QED BY <1>4, <2>5, <2>6, <2>7 DEF Signals
<1>5. CASE /\ pos[l] > Len(threads[l]) /\ pos' = pos
           /\ threads' = [threads EXCEPT ![l] = << >>]
           /\ pc' = IF parent[l] = Nobody THEN [pc EXCEPT ![l] = "none"]
                    ELSE [pc EXCEPT ![l] = "none", ![parent[l]] = "call"]
  <2>0. PICK e : e = parent[l] OBVIOUS
  <2>1. e \in Executors \cup {Nobody} BY <2>0 DEF Safe, Typed
  <2>2. Aside(l)
    <3>1. \A i \in DOMAIN threads[l] : ~Holds(l, i) BY <1>1, <1>2, <1>3, <1>5 DEF Holds
    <3>2. DOMAIN threads'[l] = {} BY <1>5 DEF Safe, Typed
    <3> QED BY <3>1, <3>2 DEF Aside
  <2>3. e \in Executors => pc[e] = "nested"
    BY <2>0 DEF Executors, WorkersWait, Safe, Waits
  <2>4. e # l BY <1>1, <2>1, <2>3, Processes
  <2>5. /\ \A q \in Launchers \cup Workers \cup {Owner} : q \notin {l, e} => pc'[q] = pc[q]
        /\ e \in Executors => pc'[e] = "call"
        /\ pc'[Owner] = pc[Owner]
    <3>1. CASE e = Nobody
      <4>1. pc' = [pc EXCEPT ![l] = "none"] BY <1>5, <2>0, <3>1
      <4> QED BY <3>1, <4>1, Processes DEF Safe, Typed, Executors
    <3>2. CASE e # Nobody
      <4>1. pc' = [pc EXCEPT ![l] = "none", ![e] = "call"] BY <1>5, <2>0, <3>2
      <4> QED BY <2>1, <2>4, <3>2, <4>1, Processes DEF Safe, Typed, Executors
    <3> QED BY <3>1, <3>2
  <2>6. \A m \in Launchers \ {l} : threads'[m] = threads[m] /\ pos'[m] = pos[m]
    BY <1>5 DEF Safe, Typed
  <2>7. ASSUME NEW m \in Launchers, m # e PROVE Still(m) \/ Aside(m)
    <3>1. CASE m = l BY <2>2, <3>1
    <3>2. CASE m # l
      <4>1. m \notin {l, e} BY <2>7, <3>2
      <4>2. pc'[m] = pc[m] BY <2>5, <4>1
      <4> QED BY <2>6, <3>2, <4>2 DEF Still
    <3> QED BY <3>1, <3>2
  <2>8. \A v \in Workers : v # e => Same(v) BY <1>1, <2>5, Processes DEF Same
  <2>9. Releasing' <=> Releasing BY <2>5 DEF Releasing
  <2>10. CASE e \in Workers
    <3>1. pc[e] = "nested" /\ pc'[e] = "call" BY <2>3, <2>5, <2>10 DEF Executors
    <3>2. ~Asleep(e) BY <3>1 DEF Asleep
    <3>3. \A m \in Launchers : Working(e, m) => Working(e, m)' BY <1>1, <3>1 DEF Working
    <3>4. \A m \in Launchers : m # e BY <2>10, Processes
    <3> QED BY <1>1, <2>7, <2>8, <2>9, <2>10, <3>1, <3>2, <3>3, <3>4, WorkerFrame
  <2>11. CASE e \in Launchers
    <3>1. /\ pc[e] = "nested" /\ pc'[e] = "call" /\ pos'[e] = pos[e] /\ threads'[e] = threads[e]
      BY <2>3, <2>4, <2>5, <2>6, <2>11 DEF Executors
    <3>2. \A w \in Workers : Same(w) BY <2>8, <2>11, Processes
    <3>3. ASSUME NEW i \in DOMAIN threads[e], Fits(e, i) PROVE Fits(e, i)'
      <4>1. threads[e] \in Seq(Workers) BY <2>11 DEF Safe, Typed
      <4>2. Same(threads[e][i]) BY <3>2, <4>1
      <4>3. /\ Busy(e, i)' <=> Busy(e, i)
            /\ Given(e, i)' <=> Given(e, i)
            /\ Rested(e, i)' <=> Rested(e, i)
        BY <3>1 DEF Busy, Given, Rested
      <4> QED BY <2>11, <3>1, <3>3, <4>2, <4>3, StaysFit
    <3>4. {e} \in SUBSET Launchers BY <2>11
    <3>5. \A m \in {e} : /\ threads'[m] = threads[m]
                         /\ pc[m] # "free" /\ (pc'[m] = "free" => pos'[m] = 1)
                         /\ \A i \in DOMAIN threads[m] : Fits(m, i) => Fits(m, i)'
      BY <3>1, <3>3
    <3>6. \A m \in Launchers \ {e} : Still(m) \/ Aside(m) BY <2>7
    <3> QED BY <1>1, <2>9, <3>2, <3>4, <3>5, <3>6, LaunchersFrame
  <2>12. CASE e = Nobody
    <3>1. {} \in SUBSET Launchers OBVIOUS
    <3>2. \A m \in Launchers : Still(m) \/ Aside(m) BY <2>7, <2>12, Processes
    <3>3. \A w \in Workers : Same(w) BY <2>8, <2>12, Processes
    <3> QED BY <1>1, <2>9, <3>1, <3>2, <3>3, LaunchersFrame
  <2> QED BY <2>1, <2>10, <2>11, <2>12 DEF Executors
<1> QED BY <1>4, <1>5 DEF FreeNext

-----------------------------------------------------------------------------
(* Queries, and Init.                                                      *)

\* Nobody's worker changes, nor any launcher.
LEMMA BesideSignals ==
    ASSUME Safe, Safe', Signals, UNCHANGED <<size, threads, started, wakeEvent, idleEvent, job>>,
           Releasing' <=> Releasing,
           \A q \in Launchers \cup Workers : pc'[q] = pc[q],
           \A m \in Launchers : pos'[m] = pos[m]
    PROVE  Signals'
<1>1. {} \in SUBSET Launchers OBVIOUS
<1>2. \A m \in Launchers : Still(m)
  BY DEF Still
<1>3. \A w \in Workers : Same(w) BY DEF Same
<1>4. size' = size OBVIOUS
<1> QED BY <1>1, <1>2, <1>3, <1>4, LaunchersFrame

LEMMA ProbeSignals ==
    ASSUME Safe, Safe', Signals, NEW p \in Probes, IsInUse(p) \/ ProbeStep(p)
    PROVE  Signals'
<1>1. /\ UNCHANGED <<size, threads, started, wakeEvent, idleEvent, job>>
      /\ pc' = pc \/ \E to : pc' = [pc EXCEPT ![p] = to]
      /\ pos' = pos \/ \E to : pos' = [pos EXCEPT ![p] = to]
  BY DEF IsInUse, ProbeStep, ProbeNext, ProbeFree, Goto, pool, worker, launcher
<1>2. /\ \A q \in Launchers \cup Workers \cup {Owner} : pc'[q] = pc[q]
      /\ \A m \in Launchers : pos'[m] = pos[m]
  BY <1>1, Processes DEF Safe, Typed, Executors
<1>3. Releasing' <=> Releasing BY <1>2 DEF Releasing
<1> QED BY <1>1, <1>2, <1>3, BesideSignals

\* Init has locked every worker: none is a launcher's, so all are quiet.
LEMMA AllLocked ==
    ASSUME Safe, Signals, pc[Owner] = "lock", pos[Owner] > size
    PROVE  \A w \in Workers : w <= size => Quiet(w)
<1> TAKE w \in Workers
<1> HAVE w <= size
<1>1. locked = pos[Owner] - 1 /\ locked \in 0 .. size BY DEF Safe, Placed, Typed
<1>2. pos[Owner] \in Nat /\ size \in Nat BY DEF Safe, Typed
<1>3. w <= locked BY <1>1, <1>2, Processes
<1>4. Owner \in Holders(w) BY <1>3 DEF Holders
<1>5. Holders(w) \cap Launchers = {} BY <1>4, Processes DEF Safe, Apart
<1>6. ~Releasing BY DEF Releasing
<1> QED BY <1>5, <1>6 DEF Signals

LEMMA OwnerSignals ==
    ASSUME Safe, Safe', TypeOK, Signals,
           (\E n \in Sizes : Reinit(n)) \/ OwnerStep
    PROVE  Signals'
<1>1. ASSUME UNCHANGED <<size, threads, started, wakeEvent, idleEvent, job>>,
             pc' = pc \/ \E to : pc' = [pc EXCEPT ![Owner] = to],
             pos' = pos \/ \E to : pos' = [pos EXCEPT ![Owner] = to]
      PROVE  /\ \A q \in Launchers \cup Workers : pc'[q] = pc[q]
             /\ \A m \in Launchers : pos'[m] = pos[m]
  BY <1>1, Processes DEF Safe, Typed, Executors
<1>2. Owner \in DOMAIN pc BY DEF Safe, Typed
<1>3. CASE \/ \E n \in Sizes : Reinit(n)
           \/ ReinitLock /\ pc'[Owner] # "release"
           \/ ReinitUnlock \/ ReleaseJoin
  <2>1. /\ UNCHANGED <<size, threads, started, wakeEvent, idleEvent, job>>
        /\ pc' = pc \/ \E to : pc' = [pc EXCEPT ![Owner] = to]
        /\ pos' = pos \/ \E to : pos' = [pos EXCEPT ![Owner] = to]
    <3>2. CASE \E n \in Sizes : Reinit(n) BY <3>2 DEF Reinit, Goto, worker, launcher
    <3>3. CASE ReinitLock /\ pc'[Owner] # "release" BY <3>3 DEF ReinitLock, Goto, launcher
    <3>4. CASE ReinitUnlock BY <3>4 DEF ReinitUnlock, Goto, launcher
    <3>5. CASE ReleaseJoin BY <3>5 DEF ReleaseJoin, Goto, pool, worker, launcher
    <3> QED BY <1>3, <3>2, <3>3, <3>4, <3>5
  <2>2. Releasing' <=> Releasing
    BY <1>2, <1>3 DEF Releasing, Reinit, ReinitLock, ReinitUnlock, ReleaseJoin, Goto
  <2>3. /\ \A q \in Launchers \cup Workers : pc'[q] = pc[q]
        /\ \A m \in Launchers : pos'[m] = pos[m]
    BY <1>1, <2>1
  <2> QED BY <2>1, <2>2, <2>3, BesideSignals
<1>4. CASE ReinitLock /\ pc'[Owner] = "release"
  <2>1. pc[Owner] = "lock" /\ pos[Owner] > size BY <1>2, <1>4 DEF ReinitLock, Goto
  <2>2. /\ UNCHANGED <<size, threads, started, wakeEvent, idleEvent, job>>
        /\ pc' = [pc EXCEPT ![Owner] = "release"]
        /\ pos' = [pos EXCEPT ![Owner] = 1]
    BY <1>4, <2>1 DEF ReinitLock, Goto, launcher, Safe, Typed
  <2>3. /\ \A q \in Launchers \cup Workers : pc'[q] = pc[q]
        /\ \A m \in Launchers : pos'[m] = pos[m]
    BY <1>1, <2>2
  <2>4. Releasing' /\ ~Releasing BY <1>4, <2>1 DEF Releasing
  <2>5. ASSUME NEW w \in Workers PROVE Same(w) BY <2>2, <2>3 DEF Same
  <2>6. ASSUME NEW m \in Launchers, NEW i \in DOMAIN threads'[m], Holds(m, i)' PROVE FALSE
    <3>1. ~Releasing' BY <2>6, OnePlaceNext
    <3> QED BY <2>4, <3>1
  <2>7. ASSUME NEW w \in Workers, Holders(w)' \cap Launchers = {}, ~(Releasing' /\ w <= size')
        PROVE  Quiet(w)'
    <3>1. \A m \in Launchers : m \notin Holders(w)
      BY <2>2, <2>3, <2>7, Processes DEF Holders
    <3>2. Quiet(w) BY <2>4, <3>1 DEF Signals
    <3> QED BY <2>5, <3>2, SameQuiet
  <2>8. ASSUME NEW w \in Workers, Releasing', w <= size'
        PROVE  job'[w] = Nobody /\ pc'[w] \in {"off", "wait", "reset", "exited"}
    <3>1. Quiet(w) BY <2>1, <2>2, <2>8, AllLocked
    <3> QED BY <2>5, <3>1 DEF Quiet, Asleep, Same
  <2> QED BY <2>6, <2>7, <2>8 DEF Signals
<1>5. CASE ReleaseWake
  <2>0. PICK v : v = pos[Owner] OBVIOUS
  <2>1. /\ UNCHANGED <<size, threads, pos, started, idleEvent>>
        /\ pc[Owner] = "release" /\ v <= size
        /\ job' = [job EXCEPT ![v] = Nobody] /\ wakeEvent' = [wakeEvent EXCEPT ![v] = TRUE]
        /\ pc' = [pc EXCEPT ![Owner] = "joining"]
    BY <1>5, <2>0 DEF ReleaseWake, Goto, pool, launcher
  <2>2. Releasing /\ Releasing' BY <1>2, <2>1 DEF Releasing
  <2>3. \A q \in Launchers \cup Workers : pc'[q] = pc[q]
    BY <2>1, Processes DEF Safe, Typed, Executors
  <2>4. ASSUME NEW m \in Launchers, NEW i \in DOMAIN threads'[m], Holds(m, i)' PROVE FALSE
    <3>1. ~Releasing' BY <2>4, OnePlaceNext
    <3> QED BY <2>2, <3>1
  <2>5. ASSUME NEW w \in Workers, Holders(w)' \cap Launchers = {}, ~(Releasing' /\ w <= size')
        PROVE  Quiet(w)'
    <3>1. \A m \in Launchers : m \notin Holders(w)
      BY <2>1, <2>3, <2>5, Processes DEF Holders
    <3>2. Quiet(w) BY <2>1, <2>2, <2>5, <3>1 DEF Signals
    <3>3. w # v BY <2>1, <2>2, <2>5
    <3>4. Same(w) BY <2>1, <2>3, <3>3 DEF Same, TypeOK
    <3> QED BY <3>2, <3>4, SameQuiet
  <2>6. ASSUME NEW w \in Workers, Releasing', w <= size'
        PROVE  job'[w] = Nobody /\ pc'[w] \in {"off", "wait", "reset", "exited"}
    <3>1. job[w] = Nobody /\ pc[w] \in {"off", "wait", "reset", "exited"}
      BY <2>1, <2>2, <2>6 DEF Signals
    <3> QED BY <2>1, <2>3, <3>1 DEF TypeOK
  <2> QED BY <2>4, <2>5, <2>6 DEF Signals
<1>6. CASE Resize
  <2>1. /\ pc[Owner] = "release" /\ locked' = 0 /\ usage' = [w \in Workers |-> 0]
        /\ started' = [w \in Workers |-> FALSE] /\ wakeEvent' = [w \in Workers |-> FALSE]
        /\ idleEvent' = [w \in Workers |-> FALSE] /\ job' = [w \in Workers |-> Nobody]
        /\ \A w \in Workers : pc'[w] = "off"
        /\ pc'[Owner] = "none"
    BY <1>6, Processes DEF Resize, Safe, Typed, Executors
  <2>2. \A w \in Workers : Quiet(w)' BY <2>1 DEF Quiet, Asleep
  <2>3. ~Releasing' BY <2>1 DEF Releasing
  <2>4. ASSUME NEW m \in Launchers, NEW i \in DOMAIN threads'[m], Holds(m, i)' PROVE FALSE
    <3>1. PICK w : w = threads'[m][i] OBVIOUS
    <3>2. w \in Workers /\ m \in Holders(w)' BY <2>4, <3>1, OnePlaceNext
    <3>3. usage'[w] = 0 BY <2>1, <3>2
    <3> QED BY <3>2, <3>3 DEF Safe, Apart
  <2> QED BY <2>2, <2>3, <2>4 DEF Signals
<1> QED BY <1>3, <1>4, <1>5, <1>6 DEF OwnerStep

-----------------------------------------------------------------------------
(* Every step.                                                             *)

LEMMA NextSignals ==
    ASSUME Safe, Safe', TypeOK, Far, Signals, WorkersWait, [Next]_vars PROVE Signals'
<1>1. CASE UNCHANGED vars
  <2>1. UNCHANGED <<size, threads, started, wakeEvent, idleEvent, job, pc, pos>>
    BY <1>1 DEF vars, pool, worker, launcher
  <2>2. Releasing' <=> Releasing BY <2>1 DEF Releasing
  <2> QED BY <2>1, <2>2, BesideSignals
<1>2. ASSUME NEW l \in Launchers, NEW max \in MaxThreads, New(l, max) PROVE Signals'
  BY <1>2, ConstructSignals DEF New, Goto
<1>3. ASSUME NEW l \in Launchers, NEW max \in MaxThreads, NEW e \in Executors, Nest(e, l, max)
      PROVE  Signals'
  <2>1. e # Nobody BY Processes DEF Executors
  <2> QED BY <1>3, <2>1, ConstructSignals DEF Nest
<1>4. ASSUME NEW l \in Launchers,
             (\E r \in Ranges : Perform(l, r)) \/ Release(l) \/ LauncherStep(l)
      PROVE  Signals'
  BY <1>4, TurnSignals, ServeSignals, LockNextSignals, FreeNextSignals DEF LauncherStep
<1>5. ASSUME NEW w \in Workers, WorkerStep(w) PROVE Signals'
  BY <1>5, WorkerSignals
<1>6. ASSUME NEW p \in Probes, IsInUse(p) \/ ProbeStep(p) PROVE Signals'
  BY <1>6, ProbeSignals
<1>7. CASE (\E n \in Sizes : Reinit(n)) \/ OwnerStep BY <1>7, OwnerSignals
<1>8. CASE Next BY <1>2, <1>3, <1>4, <1>5, <1>6, <1>7, <1>8 DEF Next
<1> QED BY <1>1, <1>8

LEMMA NextWaits ==
    ASSUME Safe, TypeOK, Far, Signals, WorkersWait, [Next]_vars PROVE WorkersWait'
<1>1. ASSUME parent' = parent, \A w \in Workers : pc[w] = "nested" => pc'[w] = "nested"
      PROVE  WorkersWait'
  BY <1>1 DEF WorkersWait
<1>2. CASE UNCHANGED vars BY <1>1, <1>2 DEF vars, launcher
<1>3. ASSUME NEW l \in Launchers, NEW max, New(l, max) PROVE WorkersWait'
  <2>1. parent' = [parent EXCEPT ![l] = Nobody] /\ pc' = [pc EXCEPT ![l] = "lock"]
    BY <1>3 DEF New, Construct, Goto
  <2>2. \A m \in Launchers : parent'[m] \in Workers => m # l /\ parent'[m] = parent[m]
    BY <2>1, Processes DEF Safe, Typed
  <2>3. \A w \in Workers : pc'[w] = pc[w] BY <2>1, Processes DEF Safe, Typed, Executors
  <2> QED BY <2>2, <2>3 DEF WorkersWait
<1>4. ASSUME NEW l \in Launchers, NEW max, NEW e \in Executors, Nest(e, l, max)
      PROVE  WorkersWait'
  <2>1. /\ pc[e] = "call" /\ parent' = [parent EXCEPT ![l] = e]
        /\ pc' = [pc EXCEPT ![e] = "nested", ![l] = "lock"]
    BY <1>4 DEF Nest, Construct
  <2>2. /\ parent'[l] = e
        /\ \A m \in Launchers \ {l} : parent'[m] = parent[m]
    BY <2>1 DEF Safe, Typed
  <2>3. /\ \A w \in Workers \ {e} : pc'[w] = pc[w]
        /\ e \in Workers => pc'[e] = "nested"
    BY <2>1, Processes DEF Safe, Typed, Executors
  <2>4. \A m \in Launchers : parent[m] \in Workers => parent[m] # e
    BY <2>1 DEF WorkersWait
  <2> QED BY <2>2, <2>3, <2>4 DEF WorkersWait
<1>5. ASSUME NEW l \in Launchers, FreeNext(l) PROVE WorkersWait'
  <2>1. CASE UNCHANGED <<parent, pc>> BY <1>1, <2>1
  <2>2. CASE /\ parent' = [parent EXCEPT ![l] = Nobody]
             /\ pc' = IF parent[l] = Nobody THEN [pc EXCEPT ![l] = "none"]
                      ELSE [pc EXCEPT ![l] = "none", ![parent[l]] = "call"]
    <3>1. \A m \in Launchers : parent'[m] \in Workers => m # l /\ parent'[m] = parent[m]
      BY <2>2, Processes DEF Safe, Typed
    <3>2. \A w \in Workers : w # parent[l] => pc'[w] = pc[w]
      BY <2>2, Processes DEF Safe, Typed, Executors
    <3> QED BY <3>1, <3>2 DEF WorkersWait
  <2> QED BY <1>5, <2>1, <2>2 DEF FreeNext
<1>6. ASSUME NEW q \in Launchers \cup Probes \cup {Owner}, parent' = parent,
             pc' = pc \/ \E to : pc' = [pc EXCEPT ![q] = to]
      PROVE  WorkersWait'
  <2>1. \A w \in Workers : pc'[w] = pc[w] BY <1>6, Processes DEF Safe, Typed, Executors
  <2> QED BY <1>1, <1>6, <2>1
<1>7. ASSUME NEW l \in Launchers,
             \/ \E r \in Ranges : Perform(l, r)
             \/ Release(l) \/ LockNext(l) \/ WakeJob(l) \/ Join(l) \/ ResetIdle(l) \/ Report(l)
             \/ Runs(l)
      PROVE  WorkersWait'
  <2>1. parent' = parent /\ (pc' = pc \/ \E to : pc' = [pc EXCEPT ![l] = to])
    BY <1>7 DEF Perform, Release, LockNext, WakeJob, Join, ResetIdle, Report, Runs, Take,
                CallReturns, CallThrows, Goto, launcher
  <2> QED BY <1>6, <2>1
<1>8. ASSUME NEW l \in Launchers, Signal(l) PROVE WorkersWait'
  <2>0. PICK v : v = threads[l][pos[l]] OBVIOUS
  <2>1. pc[l] = "signal" /\ pos[l] \in DOMAIN threads[l]
    <3>1. pos[l] <= Len(threads[l]) /\ pos[l] \in Nat \ {0} /\ threads[l] \in Seq(Workers)
      BY <1>8 DEF Signal, Safe, Placed, Typed
    <3> QED BY <1>8, <3>1 DEF Signal
  <2>2. Assigned(v, l)
    <3>1. Holds(l, pos[l]) /\ Given(l, pos[l]) BY <2>1 DEF Holds, Given
    <3> QED BY <2>0, <2>1, <3>1 DEF Signals, Fits
  <2>3. pc[v] # "nested" BY <2>2 DEF Assigned, Asleep
  <2>4. parent' = parent BY <1>8 DEF Signal, launcher
  <2>5. \A w \in Workers : w # v => pc'[w] = pc[w]
    <3>1. pc' = [pc EXCEPT ![l] = "wake"] \/ pc' = [pc EXCEPT ![l] = "wake", ![v] = "wait"]
      BY <1>8, <2>0 DEF Signal
    <3> QED BY <3>1, Processes DEF Safe, Typed, Executors
  <2> QED BY <1>1, <2>3, <2>4, <2>5
<1>9. ASSUME NEW w \in Workers, WorkerStep(w) PROVE WorkersWait'
  <2>1. /\ parent' = parent /\ pc[w] # "nested"
        /\ \E to : pc' = [pc EXCEPT ![w] = to]
    BY <1>9 DEF WorkerStep, WaitWake, ResetWake, BeginJob, ClearJob, SetIdle, Runs, Take,
                CallReturns, CallThrows, Goto, launcher
  <2>2. \A v \in Workers : v # w => pc'[v] = pc[v] BY <2>1 DEF Safe, Typed, Executors
  <2> QED BY <1>1, <2>1, <2>2
<1>10. ASSUME NEW p \in Probes, IsInUse(p) \/ ProbeStep(p) PROVE WorkersWait'
  <2>1. parent' = parent /\ (pc' = pc \/ \E to : pc' = [pc EXCEPT ![p] = to])
    BY <1>10 DEF IsInUse, ProbeStep, ProbeNext, ProbeFree, Goto, launcher
  <2> QED BY <1>6, <2>1
<1>11. CASE \/ \E n \in Sizes : Reinit(n)
            \/ ReinitLock \/ ReinitUnlock \/ ReleaseWake \/ ReleaseJoin
  <2>1. parent' = parent /\ (pc' = pc \/ \E to : pc' = [pc EXCEPT ![Owner] = to])
    BY <1>11 DEF Reinit, ReinitLock, ReinitUnlock, ReleaseWake, ReleaseJoin, Goto, launcher
  <2> QED BY <1>6, <2>1
<1>12. CASE Resize
  <2>1. Releasing BY <1>12 DEF Resize, Releasing
  <2>2. ASSUME NEW w \in Workers PROVE pc[w] # "nested"
    <3>1. CASE w <= size BY <2>1, <3>1 DEF Signals
    <3>2. CASE ~(w <= size)
      <4>1. Holders(w) \cap Launchers = {} BY <3>2 DEF Safe, Within
      <4> QED BY <3>2, <4>1 DEF Signals, Quiet, Asleep
    <3> QED BY <3>1, <3>2
  <2>3. parent' = parent BY <1>12 DEF Resize, launcher
  <2> QED BY <1>1, <2>2, <2>3
<1>13. CASE Next
  BY <1>3, <1>4, <1>5, <1>7, <1>8, <1>9, <1>10, <1>11, <1>12, <1>13
     DEF Next, LauncherStep, OwnerStep
<1> QED BY <1>2, <1>13

FarOf(m) ==
    /\ Len(threads[m]) <= MaxSize
    /\ pc[m] = "none" => threads[m] = << >>
    /\ pc[m] = "lock" => Len(threads[m]) < pos[m]
    /\ pc[m] = "rest" => pos[m] <= Len(threads[m])

\* A launcher that does not move, or moves among the steps of a loop.
LEMMA FarStays ==
    ASSUME NEW m \in Launchers, FarOf(m), threads'[m] = threads[m],
           \/ pc'[m] = pc[m] /\ pos'[m] = pos[m]
           \/ pc'[m] \notin {"none", "lock", "rest"}
    PROVE  FarOf(m)'
  BY DEF FarOf

LEMMA LaunchersFar ==
    ASSUME Safe, Far, Next PROVE \A m \in Launchers : FarOf(m)'
<1>0. \A m \in Launchers : FarOf(m) BY DEF Far, FarOf
<1>1. ASSUME UNCHANGED threads,
             \A m \in Launchers : \/ pc'[m] = pc[m] /\ pos'[m] = pos[m]
                                  \/ pc'[m] \notin {"none", "lock", "rest"}
      PROVE  \A m \in Launchers : FarOf(m)'
  BY <1>0, <1>1, FarStays
<1>2. ASSUME NEW q \in Executors \cup Probes \cup {Owner}, UNCHANGED threads,
             \E to : to \notin {"none", "lock", "rest"} /\ pc' = [pc EXCEPT ![q] = to],
             pos' = pos \/ \E i : pos' = [pos EXCEPT ![q] = i]
      PROVE  \A m \in Launchers : FarOf(m)'
  BY <1>1, <1>2 DEF Safe, Typed, Executors
<1>3. ASSUME NEW q \in Workers \cup Probes \cup {Owner}, UNCHANGED threads,
             pc' = pc \/ \E to : pc' = [pc EXCEPT ![q] = to],
             pos' = pos \/ \E i : pos' = [pos EXCEPT ![q] = i]
      PROVE  \A m \in Launchers : FarOf(m)'
  <2>1. \A m \in Launchers : m # q BY <1>3, Processes
  <2>2. \A m \in Launchers : pc'[m] = pc[m] /\ pos'[m] = pos[m]
    BY <1>3, <2>1 DEF Safe, Typed, Executors
  <2> QED BY <1>1, <1>3, <2>2
<1>4. ASSUME NEW l \in Launchers, NEW max, NEW e \in Executors \cup {Nobody}, Construct(l, max, e),
             \/ e = Nobody /\ pc' = [pc EXCEPT ![l] = "lock"]
             \/ e # Nobody /\ pc[e] = "call" /\ pc' = [pc EXCEPT ![e] = "nested", ![l] = "lock"]
      PROVE  \A m \in Launchers : FarOf(m)'
  <2>1. /\ pc[l] = "none" /\ threads' = [threads EXCEPT ![l] = << >>]
        /\ pos' = [pos EXCEPT ![l] = 1]
    BY <1>4 DEF Construct
  <2>2. e # l BY <1>4, <2>1, Processes
  <2>3. FarOf(l)'
    <3>1. threads'[l] = << >> /\ pos'[l] = 1 /\ pc'[l] = "lock"
      BY <1>4, <2>1, <2>2, Processes DEF Safe, Typed, Executors
    <3> QED BY <3>1, Processes DEF FarOf
  <2>4. ASSUME NEW m \in Launchers \ {l} PROVE FarOf(m)'
    <3>1. threads'[m] = threads[m] /\ pos'[m] = pos[m] BY <2>1 DEF Safe, Typed
    <3>2. CASE m = e
      <4>1. pc'[m] = "nested"
        BY <1>4, <2>2, <3>2, Processes DEF Safe, Typed, Executors
      <4> QED BY <1>0, <3>1, <4>1, FarStays
    <3>3. CASE m # e
      <4>1. pc'[m] = pc[m]
        BY <1>4, <2>2, <3>3, Processes DEF Safe, Typed, Executors
      <4> QED BY <1>0, <3>1, <4>1, FarStays
    <3> QED BY <3>2, <3>3
  <2> QED BY <2>3, <2>4
<1>5. ASSUME NEW l \in Launchers, LockNext(l) PROVE \A m \in Launchers : FarOf(m)'
  <2>1. \A m \in Launchers \ {l} :
           threads'[m] = threads[m] /\ pos'[m] = pos[m] /\ pc'[m] = pc[m]
    BY <1>5 DEF LockNext, Goto, Safe, Typed, Executors
  <2>2. FarOf(l)'
    <3>1. CASE pc'[l] = "ready" /\ threads' = threads
      <4>1. threads'[l] = threads[l] BY <3>1
      <4> QED BY <1>0, <3>1, <4>1, FarStays
    <3>2. CASE /\ pos[l] <= size /\ pc' = pc /\ pos' = [pos EXCEPT ![l] = pos[l] + 1]
               /\ \/ threads' = threads
                  \/ threads' = [threads EXCEPT ![l] = Append(threads[l], pos[l])]
      <4>1. /\ threads[l] \in Seq(Workers) /\ pos[l] \in Nat \ {0}
            /\ size \in Nat /\ size <= MaxSize /\ MaxSize \in Nat
        BY Processes DEF Safe, Typed
      <4>2. pos'[l] = pos[l] + 1 BY <3>2 DEF Safe, Typed
      <4>3. threads'[l] = threads[l] \/ threads'[l] = Append(threads[l], pos[l])
        BY <3>2 DEF Safe, Typed
      <4>4. pc[l] = "lock" /\ Len(threads[l]) < pos[l] BY <1>5 DEF LockNext, Far
      <4>5. Len(threads'[l]) <= Len(threads[l]) + 1
        <5>1. pos[l] \in Workers BY <3>2, <4>1 DEF Workers
        <5>2. Len(Append(threads[l], pos[l])) = Len(threads[l]) + 1 BY <4>1, <5>1
        <5> QED BY <4>1, <4>3, <5>2
      <4>6. Len(threads'[l]) \in Nat
        <5>1. threads'[l] \in Seq(Workers)
          <6>1. pos[l] \in Workers BY <3>2, <4>1 DEF Workers
          <6>2. Append(threads[l], pos[l]) \in Seq(Workers) BY <4>1, <6>1
          <6> QED BY <4>1, <4>3, <6>2
        <5>2. PICK s : s = threads'[l] OBVIOUS
        <5>3. Len(s) \in Nat BY <5>1, <5>2
        <5> QED BY <5>2, <5>3
      <4>7. Len(threads[l]) \in Nat BY <4>1
      <4>8. Len(threads'[l]) <= MaxSize /\ Len(threads'[l]) < pos'[l]
        BY <3>2, <4>1, <4>2, <4>4, <4>5, <4>6, <4>7
      <4>9. pc'[l] = "lock" BY <3>2, <4>4
      <4> QED BY <4>8, <4>9 DEF FarOf
    <3>3. l \in DOMAIN pc BY DEF Safe, Typed, Executors
    <3> QED BY <1>5, <3>1, <3>2, <3>3 DEF LockNext, Goto
  <2> QED BY <2>1, <2>2, <1>0, FarStays
<1>6. ASSUME NEW l \in Launchers, FreeNext(l) PROVE \A m \in Launchers : FarOf(m)'
  <2>1. CASE pos' = [pos EXCEPT ![l] = pos[l] + 1] /\ UNCHANGED <<threads, pc>>
    <3>1. \A m \in Launchers : m # l => pos'[m] = pos[m] BY <2>1 DEF Safe, Typed
    <3>2. pc'[l] = "free" BY <1>6, <2>1 DEF FreeNext
    <3> QED BY <1>1, <2>1, <3>1, <3>2
  <2>2. CASE /\ threads' = [threads EXCEPT ![l] = << >>] /\ pos' = pos
             /\ pc' = IF parent[l] = Nobody THEN [pc EXCEPT ![l] = "none"]
                      ELSE [pc EXCEPT ![l] = "none", ![parent[l]] = "call"]
    <3>1. FarOf(l)'
      <4>1. threads'[l] = << >> BY <2>2 DEF Safe, Typed
      <4>2. pc[l] = "free" /\ (parent[l] \in Launchers => parent[l] # l)
        BY <1>6 DEF FreeNext, Safe, Waits
      <4>3. pc'[l] = "none" \/ pc'[l] = "call"
        <5>1. CASE pc' = [pc EXCEPT ![l] = "none"] BY <5>1 DEF Safe, Typed, Executors
        <5>2. CASE pc' = [pc EXCEPT ![l] = "none", ![parent[l]] = "call"]
          BY <5>2 DEF Safe, Typed, Executors
        <5> QED BY <2>2, <5>1, <5>2
      <4> QED BY <4>1, <4>3, Processes DEF FarOf
    <3>2. ASSUME NEW m \in Launchers \ {l} PROVE FarOf(m)'
      <4>1. threads'[m] = threads[m] /\ pos'[m] = pos[m] BY <2>2 DEF Safe, Typed
      <4>2. pc'[m] = pc[m] \/ pc'[m] = "call"
        <5>1. CASE pc' = [pc EXCEPT ![l] = "none"] BY <5>1 DEF Safe, Typed, Executors
        <5>2. CASE pc' = [pc EXCEPT ![l] = "none", ![parent[l]] = "call"]
          BY <5>2 DEF Safe, Typed, Executors
        <5> QED BY <2>2, <5>1, <5>2
      <4> QED BY <1>0, <4>1, <4>2, FarStays
    <3> QED BY <3>1, <3>2
  <2> QED BY <1>6, <2>1, <2>2 DEF FreeNext
<1>7. ASSUME NEW l \in Launchers, Join(l) PROVE \A m \in Launchers : FarOf(m)'
  <2>1. UNCHANGED <<threads, pos>> BY <1>7 DEF Join, launcher
  <2>2. CASE pc' = [pc EXCEPT ![l] = "report"] BY <1>2, <2>1, <2>2 DEF Executors
  <2>3. CASE pos[l] <= Len(threads[l]) /\ pc' = [pc EXCEPT ![l] = "rest"]
    <3>1. pc'[l] = "rest" /\ \A m \in Launchers : m # l => pc'[m] = pc[m]
      BY <2>3 DEF Safe, Typed, Executors
    <3>2. FarOf(l)' BY <1>0, <2>1, <2>3, <3>1 DEF FarOf
    <3> QED BY <1>0, <2>1, <3>1, <3>2, FarStays
  <2> QED BY <1>7, <2>2, <2>3 DEF Join, Goto
<1>8. ASSUME NEW l \in Launchers,
             \/ \E r \in Ranges : Perform(l, r)
             \/ Release(l) \/ WakeJob(l) \/ ResetIdle(l) \/ Report(l) \/ Runs(l)
      PROVE  \A m \in Launchers : FarOf(m)'
  <2>1. /\ threads' = threads
        /\ \E to : to \notin {"none", "lock", "rest"} /\ pc' = [pc EXCEPT ![l] = to]
        /\ pos' = pos \/ \E i : pos' = [pos EXCEPT ![l] = i]
    BY <1>8, Processes
       DEF Perform, Release, WakeJob, ResetIdle, Report, Runs, Take, CallReturns,
           CallThrows, AfterJob, Goto, launcher
  <2> QED BY <1>2, <2>1 DEF Executors
<1>9. ASSUME NEW l \in Launchers, Signal(l) PROVE \A m \in Launchers : FarOf(m)'
  <2>0. PICK v : v = threads[l][pos[l]] OBVIOUS
  <2>1. /\ threads' = threads /\ pos' = [pos EXCEPT ![l] = pos[l] + 1]
        /\ pc' = [pc EXCEPT ![l] = "wake"] \/ pc' = [pc EXCEPT ![l] = "wake", ![v] = "wait"]
    BY <1>9, <2>0 DEF Signal, launcher
  <2>2. \A m \in Launchers : m # l => pos'[m] = pos[m] BY <2>1 DEF Safe, Typed
  <2>3. \A m \in Launchers : (m # l /\ pc'[m] = pc[m]) \/ pc'[m] \in {"wake", "wait"}
    BY <2>1 DEF Safe, Typed, Executors
  <2> QED BY <1>1, <2>1, <2>2, <2>3
<1>10. ASSUME NEW w \in Workers, WorkerStep(w) PROVE \A m \in Launchers : FarOf(m)'
  <2>1. threads' = threads /\ pos' = pos /\ \E to : pc' = [pc EXCEPT ![w] = to]
    BY <1>10 DEF WorkerStep, WaitWake, ResetWake, BeginJob, ClearJob, SetIdle, Runs, Take,
                 CallReturns, CallThrows, Goto, launcher
  <2> QED BY <1>3, <2>1
<1>11. ASSUME NEW p \in Probes, IsInUse(p) \/ ProbeStep(p)
       PROVE  \A m \in Launchers : FarOf(m)'
  <2>1. /\ threads' = threads
        /\ pc' = pc \/ \E to : pc' = [pc EXCEPT ![p] = to]
        /\ pos' = pos \/ \E i : pos' = [pos EXCEPT ![p] = i]
    BY <1>11 DEF IsInUse, ProbeStep, ProbeNext, ProbeFree, Goto, launcher
  <2> QED BY <1>3, <2>1
<1>12. ASSUME \/ \E n \in Sizes : Reinit(n)
              \/ ReinitLock \/ ReinitUnlock \/ ReleaseWake \/ ReleaseJoin
       PROVE  \A m \in Launchers : FarOf(m)'
  <2>1. /\ threads' = threads
        /\ pc' = pc \/ \E to : pc' = [pc EXCEPT ![Owner] = to]
        /\ pos' = pos \/ \E i : pos' = [pos EXCEPT ![Owner] = i]
    <3>1. CASE \E n \in Sizes : Reinit(n) BY <3>1 DEF Reinit, Goto, launcher
    <3>2. CASE ReinitLock BY <3>2 DEF ReinitLock, Goto, launcher
    <3>3. CASE ReinitUnlock BY <3>3 DEF ReinitUnlock, Goto, launcher
    <3>4. CASE ReleaseWake \/ ReleaseJoin BY <3>4 DEF ReleaseWake, ReleaseJoin, Goto, launcher
    <3> QED BY <1>12, <3>1, <3>2, <3>3, <3>4
  <2> QED BY <1>3, <2>1
<1>13. ASSUME Resize PROVE \A m \in Launchers : FarOf(m)'
  <2>1. UNCHANGED <<threads, pos>> BY <1>13 DEF Resize, launcher
  <2>2. \A m \in Launchers : pc'[m] = pc[m]
    BY <1>13, Processes DEF Resize, Safe, Typed, Executors
  <2> QED BY <1>1, <2>1, <2>2
<1>14. ASSUME NEW l \in Launchers, NEW max,
              New(l, max) \/ \E e \in Executors : Nest(e, l, max)
       PROVE  \A m \in Launchers : FarOf(m)'
  <2>1. CASE New(l, max) BY <1>4, <2>1 DEF New, Goto
  <2>2. ASSUME NEW e \in Executors, Nest(e, l, max) PROVE \A m \in Launchers : FarOf(m)'
    <3>1. e # Nobody BY Processes DEF Executors
    <3> QED BY <1>4, <2>2, <3>1 DEF Nest
  <2> QED BY <1>14, <2>1, <2>2
<1> QED
  BY <1>5, <1>6, <1>7, <1>8, <1>9, <1>10, <1>11, <1>12, <1>13, <1>14
     DEF Next, LauncherStep, OwnerStep

LEMMA OwnerFar ==
    ASSUME Safe, Far, Next
    PROVE  /\ pc'[Owner] = "joining" => pos'[Owner] <= size'
           /\ shutDown' <=> Releasing' /\ size' > 0
<1> DEFINE OK == /\ pc'[Owner] = "joining" => pos'[Owner] <= size'
                 /\ shutDown' <=> Releasing' /\ size' > 0
<1>0. Owner \in DOMAIN pc BY DEF Safe, Typed
<1>1. ASSUME UNCHANGED <<size, shutDown>>, pc'[Owner] = pc[Owner], pos'[Owner] = pos[Owner]
      PROVE  OK
  BY <1>1 DEF Far, Releasing
<1>2. ASSUME UNCHANGED <<size, shutDown>>, pc'[Owner] # "joining", ~Releasing, ~Releasing'
      PROVE  OK
  BY <1>2 DEF Far
<1> HIDE DEF OK
<1>3. ASSUME NEW q \in Executors \cup Probes, UNCHANGED <<size, shutDown>>,
             pc' = pc \/ \E to : pc' = [pc EXCEPT ![q] = to],
             pos' = pos \/ \E i : pos' = [pos EXCEPT ![q] = i]
      PROVE  OK
  <2>1. Owner # q BY <1>3, Processes DEF Executors
  <2>2. pc'[Owner] = pc[Owner] /\ pos'[Owner] = pos[Owner]
    BY <1>3, <2>1 DEF Safe, Typed
  <2> QED BY <1>1, <1>3, <2>2
<1>4. ASSUME NEW l \in Launchers, NEW max,
             New(l, max) \/ \E e \in Executors : Nest(e, l, max)
      PROVE  OK
  <2>1. UNCHANGED <<size, shutDown>> /\ pos' = [pos EXCEPT ![l] = 1]
        /\ \/ pc' = [pc EXCEPT ![l] = "lock"]
           \/ \E e \in Executors : pc' = [pc EXCEPT ![e] = "nested", ![l] = "lock"]
    BY <1>4 DEF New, Nest, Construct, Goto, pool
  <2>2. pc'[Owner] = pc[Owner] /\ pos'[Owner] = pos[Owner]
    BY <2>1, Processes DEF Safe, Typed, Executors
  <2> QED BY <1>1, <2>1, <2>2
<1>5. ASSUME NEW l \in Launchers,
             \/ \E r \in Ranges : Perform(l, r)
             \/ Release(l) \/ LockNext(l) \/ WakeJob(l) \/ ResetIdle(l) \/ Join(l) \/ Report(l)
      PROVE  OK
  <2>1. UNCHANGED <<size, shutDown>>
        /\ (pc' = pc \/ \E to : pc' = [pc EXCEPT ![l] = to])
        /\ (pos' = pos \/ \E i : pos' = [pos EXCEPT ![l] = i])
    BY <1>5 DEF Perform, Release, LockNext, WakeJob, ResetIdle, Join, Report, Goto, pool, launcher
  <2> QED BY <1>3, <2>1 DEF Executors
<1>6. ASSUME NEW l \in Launchers, Signal(l) PROVE OK
  <2>0. PICK v : v = threads[l][pos[l]] OBVIOUS
  <2>1. /\ UNCHANGED <<size, shutDown>> /\ pos' = [pos EXCEPT ![l] = pos[l] + 1]
        /\ pc' = [pc EXCEPT ![l] = "wake"] \/ pc' = [pc EXCEPT ![l] = "wake", ![v] = "wait"]
    BY <1>6, <2>0 DEF Signal, pool
  <2>2. v \in Workers
    <3>1. pos[l] <= Len(threads[l]) /\ pos[l] \in Nat \ {0} /\ threads[l] \in Seq(Workers)
      BY <1>6 DEF Signal, Safe, Placed, Typed
    <3> QED BY <2>0, <3>1
  <2>3. pc'[Owner] = pc[Owner] /\ pos'[Owner] = pos[Owner]
    BY <2>1, <2>2, Processes DEF Safe, Typed, Executors
  <2> QED BY <1>1, <2>1, <2>3
<1>7. ASSUME NEW l \in Launchers, FreeNext(l) PROVE OK
  <2>1. /\ UNCHANGED <<size, shutDown>> /\ (pos' = pos \/ \E i : pos' = [pos EXCEPT ![l] = i])
        /\ \/ pc' = pc \/ pc' = [pc EXCEPT ![l] = "none"]
           \/ parent[l] # Nobody /\ pc' = [pc EXCEPT ![l] = "none", ![parent[l]] = "call"]
    BY <1>7 DEF FreeNext, pool
  <2>2. parent[l] # Nobody => parent[l] # Owner
    BY Processes DEF Safe, Typed, Executors
  <2>3. pc'[Owner] = pc[Owner] /\ pos'[Owner] = pos[Owner]
    BY <2>1, <2>2, Processes DEF Safe, Typed, Executors
  <2> QED BY <1>1, <2>1, <2>3
<1>8. ASSUME NEW e \in Executors, Runs(e) PROVE OK
  <2>1. UNCHANGED <<size, shutDown>>
        /\ (pc' = pc \/ \E to : pc' = [pc EXCEPT ![e] = to])
        /\ (pos' = pos \/ \E i : pos' = [pos EXCEPT ![e] = i])
    BY <1>8 DEF Runs, Take, CallReturns, CallThrows, Goto, pool
  <2> QED BY <1>3, <2>1
<1>9. ASSUME NEW w \in Workers,
             WaitWake(w) \/ ResetWake(w) \/ BeginJob(w) \/ ClearJob(w) \/ SetIdle(w)
      PROVE  OK
  <2>1. UNCHANGED <<size, shutDown, pos>> /\ \E to : pc' = [pc EXCEPT ![w] = to]
    BY <1>9 DEF WaitWake, ResetWake, BeginJob, ClearJob, SetIdle, Goto, pool
  <2> QED BY <1>3, <2>1 DEF Executors
<1>10. ASSUME NEW p \in Probes, IsInUse(p) \/ ProbeStep(p) PROVE OK
  <2>1. /\ UNCHANGED <<size, shutDown>>
        /\ pc' = pc \/ \E to : pc' = [pc EXCEPT ![p] = to]
        /\ pos' = pos \/ \E i : pos' = [pos EXCEPT ![p] = i]
    BY <1>10 DEF IsInUse, ProbeStep, ProbeNext, ProbeFree, Goto, pool
  <2> QED BY <1>3, <2>1
<1>11. ASSUME (\E n \in Sizes : Reinit(n)) \/ ReinitUnlock PROVE OK
  <2>1. /\ UNCHANGED <<size, shutDown>>
        /\ pc[Owner] \in {"none", "unlock"} /\ pc'[Owner] \in {"none", "lock", "unlock"}
    BY <1>0, <1>11 DEF Reinit, ReinitUnlock, Goto
  <2> QED BY <1>2, <2>1 DEF Releasing
<1>12. ASSUME ReinitLock PROVE OK
  <2>1. size' = size /\ pc[Owner] = "lock" BY <1>12 DEF ReinitLock
  <2>2. CASE shutDown' = shutDown /\ pc'[Owner] \in {"lock", "unlock"}
    BY <1>2, <2>1, <2>2 DEF Releasing
  <2>3. CASE shutDown' = (size > 0) /\ pc'[Owner] = "release"
    <3>1. shutDown' <=> size' > 0 BY <2>1, <2>3
    <3> QED BY <2>3, <3>1 DEF OK, Releasing
  <2> QED BY <1>0, <1>12, <2>1, <2>2, <2>3 DEF ReinitLock, Goto
<1>13. ASSUME ReleaseWake PROVE OK
  <2>1. /\ UNCHANGED <<size, shutDown, pos>> /\ pc[Owner] = "release" /\ pc'[Owner] = "joining"
        /\ pos[Owner] <= size
    BY <1>0, <1>13 DEF ReleaseWake, Goto, pool
  <2> QED BY <2>1 DEF OK, Far, Releasing
<1>14. ASSUME ReleaseJoin PROVE OK
  <2>1. /\ UNCHANGED <<size, shutDown>> /\ pc[Owner] = "joining" /\ pc'[Owner] = "release"
    BY <1>0, <1>14 DEF ReleaseJoin, Goto, pool
  <2> QED BY <2>1 DEF OK, Far, Releasing
<1>15. ASSUME Resize PROVE OK
  <2>1. ~shutDown' /\ pc'[Owner] = "none"
    BY <1>0, <1>15, Processes DEF Resize
  <2> QED BY <2>1 DEF OK, Releasing
<1>16. OK
  BY <1>4, <1>5, <1>6, <1>7, <1>8, <1>9, <1>10, <1>11, <1>12, <1>13, <1>14, <1>15
     DEF Next, LauncherStep, WorkerStep, OwnerStep, Executors
<1> QED BY <1>16 DEF OK

-----------------------------------------------------------------------------

Kept == Safe /\ TypeOK /\ Far /\ Signals /\ WorkersWait

LEMMA InitKept == Init => Kept
<1> SUFFICES ASSUME Init PROVE Kept OBVIOUS
<1>1. Safe /\ TypeOK /\ Far BY InitSafe, InitTyped
<1>2. \A l \in Launchers : threads[l] = << >> /\ DOMAIN threads[l] = {} /\ parent[l] = Nobody
  BY DEF Init
<1>3. ~Releasing
  <2>1. pc[Owner] = "none" BY Processes DEF Init
  <2>2. "none" \notin {"release", "joining"} OBVIOUS
  <2> QED BY <2>1, <2>2 DEF Releasing
<1>4. \A w \in Workers : Quiet(w)
  BY Processes DEF Init, Quiet, Asleep, Executors
<1>5. Signals BY <1>2, <1>3, <1>4 DEF Signals
<1>6. WorkersWait BY <1>2, Processes DEF WorkersWait
<1> QED BY <1>1, <1>5, <1>6 DEF Kept

LEMMA NextKept == ASSUME Kept, [Next]_vars PROVE Kept'
<1>1. Safe' BY NextSafe DEF Kept
<1>2. Signals' BY <1>1, NextSignals DEF Kept
<1>3. WorkersWait' BY NextWaits DEF Kept
<1>4. TypeOK' /\ Far'
  <2>1. CASE Next
    <3>1. TypeOK' BY <1>1, <2>1, TypeKept DEF Kept
    <3>2. Far'
      <4>1. \A m \in Launchers : FarOf(m)' BY <2>1, LaunchersFar DEF Kept
      <4>2. /\ pc'[Owner] = "joining" => pos'[Owner] <= size'
            /\ shutDown' <=> Releasing' /\ size' > 0
        BY <2>1, OwnerFar DEF Kept
      <4> QED BY <4>1, <4>2 DEF Far, FarOf
    <3> QED BY <3>1, <3>2
  <2>2. CASE UNCHANGED vars
    <3>1. UNCHANGED <<size, shutDown, target, locked, usage, started, wakeEvent, idleEvent, job,
                      index, failure, threads, it, parent, pos, pc>>
      BY <2>2 DEF vars, pool, worker, launcher
    <3>2. TypeOK' BY <3>1 DEF Kept, TypeOK
    <3>3. Far' BY <3>1 DEF Kept, Far, Releasing
    <3> QED BY <3>2, <3>3
  <2> QED BY <2>1, <2>2
<1> QED BY <1>1, <1>2, <1>3, <1>4 DEF Kept

LEMMA KeptInvariance == Spec => []Kept
<1> QED BY InitKept, NextKept, PTL DEF Spec

\* Who a worker's job is from, and where the worker is among that launcher's.
LEMMA HasJob ==
    ASSUME Kept, NEW w \in Workers, job[w] # Nobody
    PROVE  \E i \in DOMAIN threads[job[w]] :
              /\ job[w] \in Launchers /\ Holds(job[w], i) /\ threads[job[w]][i] = w
              /\ \/ Busy(job[w], i) /\ Working(w, job[w])
                 \/ Given(job[w], i) /\ Assigned(w, job[w])
<1>1. ~Quiet(w) BY DEF Quiet
<1>2. ~(Releasing /\ w <= size) BY DEF Kept, Signals
<1>3. PICK l \in Launchers : l \in Holders(w) BY <1>1, <1>2 DEF Kept, Signals
<1>4. PICK i \in DOMAIN threads[l] : Holds(l, i) /\ threads[l][i] = w BY <1>3, HolderOf
<1>5. Fits(l, i) BY <1>4 DEF Kept, Signals
<1>6. (Busy(l, i) /\ Working(w, l)) \/ (Given(l, i) /\ Assigned(w, l))
  BY <1>1, <1>4, <1>5 DEF Fits, Finished
<1>7. job[w] = l BY <1>6 DEF Working, Assigned
<1> QED BY <1>4, <1>6, <1>7

\* No worker has the job of a loop that has come back: in a pool of any size,
\* however launchers nest, throw, or meet queries and Init.
THEOREM JobsEndWithLoops == Spec => []NoJobLeft
<1>1. ASSUME Kept, NEW w \in Workers, job[w] # Nobody PROVE pc[job[w]] \in Active
  BY <1>1, HasJob DEF Busy, Given, Active
<1>2. Kept => NoJobLeft BY <1>1 DEF NoJobLeft, Kept
<1> QED BY <1>2, KeptInvariance, PTL

\* A worker that nobody has locked has neither an event set nor a job, so that
\* the next loop to lock it does not take an old signal for its own.
THEOREM FreeWorkersAreQuiet == Spec => []NoStaleSignal
<1>1. ASSUME Kept, NEW w \in Workers, usage[w] = 0 PROVE Quiet(w)
  <2>1. Holders(w) = {} BY <1>1 DEF Kept, Safe, Apart
  <2>2. ~(Releasing /\ w <= size)
    <3>1. Releasing /\ w <= size => Owner \in Holders(w)
      BY <1>1 DEF Kept, Safe, Placed, Releasing, Holders
    <3> QED BY <2>1, <3>1
  <2> QED BY <1>1, <2>1, <2>2 DEF Kept, Signals
<1>2. Kept => NoStaleSignal BY <1>1 DEF NoStaleSignal, Quiet, Asleep
<1> QED BY <1>2, KeptInvariance, PTL

-----------------------------------------------------------------------------
(* The loops do what ParallelFor promises.                                 *)

\* What ParallelFor sees of a launcher.
PhaseOf(l) == IF pc[l] \in Active THEN "running" ELSE "idle"
LeftOf(l) ==
    IF pc[l] \in Active THEN {i \in range[l].begin .. range[l].end - 1 : i >= it[l]} ELSE {}
Callers(l) == {x \in Executors : pc[x] \in {"call", "nested"} /\ JobOf(x) = l}
CallsOf(l) == {<<index[e], cur[e]>> : e \in Callers(l)}

-----------------------------------------------------------------------------
(* The steps of ParallelFor, launcher by launcher.                         *)

LEMMA AbstractInit ==
    ASSUME \A l \in Launchers : PhaseOf(l) = "idle" /\ LeftOf(l) = {} /\ CallsOf(l) = {},
           threw = [l \in Launchers |-> FALSE], outcome = [l \in Launchers |-> "none"]
    PROVE  Loop!Init
<1>1. [l \in Launchers |-> PhaseOf(l)] = [l \in Launchers |-> "idle"] OBVIOUS
<1>2. [l \in Launchers |-> LeftOf(l)] = [l \in Launchers |-> {}] OBVIOUS
<1>3. [l \in Launchers |-> CallsOf(l)] = [l \in Launchers |-> {}] OBVIOUS
<1> QED BY <1>1, <1>2, <1>3 DEF Loop!Init, PhaseOf, LeftOf, CallsOf, Callers

LEMMA AbstractStutter ==
    ASSUME \A l \in Launchers :
              PhaseOf(l)' = PhaseOf(l) /\ LeftOf(l)' = LeftOf(l) /\ CallsOf(l)' = CallsOf(l),
           UNCHANGED <<threw, outcome>>
    PROVE  UNCHANGED Loop!vars
<1>1. [l \in Launchers |-> PhaseOf(l)]' = [l \in Launchers |-> PhaseOf(l)] OBVIOUS
<1>2. [l \in Launchers |-> LeftOf(l)]' = [l \in Launchers |-> LeftOf(l)] OBVIOUS
<1>3. [l \in Launchers |-> CallsOf(l)]' = [l \in Launchers |-> CallsOf(l)] OBVIOUS
<1> QED BY <1>1, <1>2, <1>3 DEF Loop!vars, PhaseOf, LeftOf, CallsOf, Callers

LEMMA AbstractPerform ==
    ASSUME NEW l \in Launchers, NEW r \in Ranges, PhaseOf(l) = "idle",
           PhaseOf(l)' = "running", LeftOf(l)' = r.begin .. r.end - 1,
           \A m \in Launchers \ {l} : PhaseOf(m)' = PhaseOf(m) /\ LeftOf(m)' = LeftOf(m),
           \A m \in Launchers : CallsOf(m)' = CallsOf(m),
           threw' = [threw EXCEPT ![l] = FALSE], outcome' = [outcome EXCEPT ![l] = "none"]
    PROVE  Loop!Next
<1> DEFINE phase == [m \in Launchers |-> PhaseOf(m)]
           left  == [m \in Launchers |-> LeftOf(m)]
           calls == [m \in Launchers |-> CallsOf(m)]
<1>1. phase[l] = "idle" OBVIOUS
<1>2. phase' = [phase EXCEPT ![l] = "running"] OBVIOUS
<1>3. left' = [left EXCEPT ![l] = r.begin .. r.end - 1] OBVIOUS
<1>4. calls' = calls OBVIOUS
<1>5. Loop!Perform(l)
  BY <1>1, <1>2, <1>3, <1>4 DEF Loop!Perform, PhaseOf, LeftOf, CallsOf, Callers
<1> QED BY <1>5 DEF Loop!Next

LEMMA AbstractCall ==
    ASSUME NEW l \in Launchers, NEW t \in 0 .. MaxSize, NEW i \in LeftOf(l),
           \A c \in CallsOf(l) : c[1] # t, UNCHANGED <<threw, outcome>>,
           \A m \in Launchers : PhaseOf(m)' = PhaseOf(m),
           LeftOf(l)' = LeftOf(l) \ {i}, CallsOf(l)' = CallsOf(l) \cup {<<t, i>>},
           \A m \in Launchers \ {l} : LeftOf(m)' = LeftOf(m) /\ CallsOf(m)' = CallsOf(m)
    PROVE  Loop!Next
<1> DEFINE phase == [m \in Launchers |-> PhaseOf(m)]
           left  == [m \in Launchers |-> LeftOf(m)]
           calls == [m \in Launchers |-> CallsOf(m)]
<1>1. phase[l] = "running" /\ i \in left[l] /\ \A c \in calls[l] : c[1] # t
  BY DEF PhaseOf, LeftOf
<1>2. phase' = phase OBVIOUS
<1>3. left' = [left EXCEPT ![l] = @ \ {i}] OBVIOUS
<1>4. calls' = [calls EXCEPT ![l] = @ \cup {<<t, i>>}] OBVIOUS
<1>5. Loop!Call(l, t, i)
  BY <1>1, <1>2, <1>3, <1>4 DEF Loop!Call, PhaseOf, LeftOf, CallsOf, Callers
<1> QED BY <1>1, <1>5 DEF Loop!Next, LeftOf

LEMMA AbstractEnd ==
    ASSUME NEW l \in Launchers, NEW c \in CallsOf(l), NEW failed \in BOOLEAN,
           threw' = [threw EXCEPT ![l] = @ \/ failed], UNCHANGED outcome,
           \A m \in Launchers : PhaseOf(m)' = PhaseOf(m) /\ LeftOf(m)' = LeftOf(m),
           CallsOf(l)' = CallsOf(l) \ {c},
           \A m \in Launchers \ {l} : CallsOf(m)' = CallsOf(m)
    PROVE  Loop!Next
<1> DEFINE phase == [m \in Launchers |-> PhaseOf(m)]
           left  == [m \in Launchers |-> LeftOf(m)]
           calls == [m \in Launchers |-> CallsOf(m)]
<1>1. c \in calls[l] OBVIOUS
<1>2. phase' = phase OBVIOUS
<1>3. left' = left OBVIOUS
<1>4. calls' = [calls EXCEPT ![l] = @ \ {c}] OBVIOUS
<1>5. Loop!EndCall(l, c, failed)
  BY <1>1, <1>2, <1>3, <1>4 DEF Loop!EndCall, PhaseOf, LeftOf, CallsOf, Callers
<1> QED BY <1>1, <1>5 DEF Loop!Next, CallsOf, Callers

LEMMA AbstractReturn ==
    ASSUME NEW l \in Launchers, PhaseOf(l) = "running", CallsOf(l) = {},
           threw[l] \/ LeftOf(l) = {}, PhaseOf(l)' = "idle", LeftOf(l)' = {},
           \A m \in Launchers \ {l} : PhaseOf(m)' = PhaseOf(m) /\ LeftOf(m)' = LeftOf(m),
           \A m \in Launchers : CallsOf(m)' = CallsOf(m), UNCHANGED threw,
           outcome' = [outcome EXCEPT ![l] = IF threw[l] THEN "threw" ELSE "returned"]
    PROVE  Loop!Next
<1> DEFINE phase == [m \in Launchers |-> PhaseOf(m)]
           left  == [m \in Launchers |-> LeftOf(m)]
           calls == [m \in Launchers |-> CallsOf(m)]
<1>1. phase[l] = "running" /\ calls[l] = {} /\ (threw[l] \/ left[l] = {}) OBVIOUS
<1>2. phase' = [phase EXCEPT ![l] = "idle"] OBVIOUS
<1>3. left' = [left EXCEPT ![l] = {}] OBVIOUS
<1>4. calls' = calls OBVIOUS
<1>5. Loop!Return(l)
  BY <1>1, <1>2, <1>3, <1>4 DEF Loop!Return, PhaseOf, LeftOf, CallsOf, Callers
<1> QED BY <1>5 DEF Loop!Next

-----------------------------------------------------------------------------
(* What is true of a loop in progress.                                     *)

\* The i-th worker of a launcher was sent the loop, but did not begin it; it
\* began it; or it may yet ask for an index.
Signalled(l, i) == pc[l] \in {"wake", "signal"} => i < pos[l]
Unbegun(w, l)   == job[w] = l /\ pc[w] \in {"wait", "reset", "begin"}
Begun(l, i)     == Signalled(l, i) /\ ~Unbegun(threads[l][i], l)
Failed(l, i)    == Begun(l, i) /\ failure[threads[l][i]]
Asks(w, l) == job[w] = l /\ pc[w] \in {"wait", "reset", "begin", "take", "call", "nested"}
MayAsk(l, i) == ~Signalled(l, i) \/ Asks(threads[l][i], l)
Yet(l) ==
    {i \in 1 .. Len(threads[l]) + 1 :
        IF i \in DOMAIN threads[l] THEN MayAsk(l, i)
        ELSE pc[l] \in {"wake", "signal", "take", "call", "nested"}}

Ended == {"join", "rest", "report"}

\* The thread indices of a launcher's executors differ.
Numbered(l) ==
    /\ \A i \in DOMAIN threads[l] : Holds(l, i) => index[threads[l][i]] = i - 1
    /\ pc[l] \in Active \cup {"ready"} => index[l] = Len(threads[l])

\* The loop's counter: each executor may pass the range's end once.
Most(r) == IF r.begin < r.end THEN r.end ELSE r.begin
Counted(l) ==
    pc[l] \in Active =>
        /\ range[l] \in Ranges /\ range[l].begin <= it[l]
        /\ it[l] + Cardinality(Yet(l)) <= Most(range[l]) + Len(threads[l]) + 1
        /\ pc[l] \in Ended => threw[l] \/ it[l] >= range[l].end

\* A loop threw if and only if an executor that began it has a failure.
Blamed(l) == failure[l] \/ \E i \in DOMAIN threads[l] : Failed(l, i)
Told(l) ==
    /\ failure[l] => l \in Throwers /\ performs[l] >= 1
    /\ pc[l] \in Active => performs[l] >= 1 /\ (threw[l] <=> Blamed(l))

InLoop(l) == Numbered(l) /\ Counted(l) /\ Told(l)

Tables ==
    /\ DOMAIN range = Launchers /\ DOMAIN cur = Executors
    /\ performs \in [Launchers -> Nat] /\ threw \in [Launchers -> BOOLEAN]

Loops == Tables /\ \A l \in Launchers : InLoop(l)

\* The ranges leave room for each executor to pass their ends.
Room == \A r \in Ranges : r.begin + MaxSize < MaxInt /\ r.end + MaxSize < MaxInt

\* No launcher whose own thread may throw runs two loops.
FirstFailure == MaxPerforms \in Nat /\ (Throwers \cap Launchers # {} => MaxPerforms <= 1)

-----------------------------------------------------------------------------
(* A launcher a step lets go on.                                           *)

LEMMA Spread ==
    ASSUME Kept, NEW l \in Launchers
    PROVE  /\ threads[l] \in Seq(Workers) /\ Len(threads[l]) \in Nat /\ Len(threads[l]) <= MaxSize
           /\ DOMAIN threads[l] = 1 .. Len(threads[l])
           /\ \A i \in DOMAIN threads[l] : threads[l][i] \in Workers
           /\ IsFiniteSet(Yet(l)) /\ Cardinality(Yet(l)) \in 0 .. Len(threads[l]) + 1
<1>1. threads[l] \in Seq(Workers) /\ Len(threads[l]) <= MaxSize BY DEF Kept, Safe, Typed, Far
<1>2. /\ Len(threads[l]) \in Nat /\ DOMAIN threads[l] = 1 .. Len(threads[l])
      /\ \A i \in DOMAIN threads[l] : threads[l][i] \in Workers
  BY <1>1
<1>3. IsFiniteSet(1 .. Len(threads[l]) + 1)
      /\ Cardinality(1 .. Len(threads[l]) + 1) = Len(threads[l]) + 1
  BY <1>2, FS_Interval
<1>4. Yet(l) \subseteq 1 .. Len(threads[l]) + 1 BY DEF Yet
<1>5. IsFiniteSet(Yet(l)) /\ Cardinality(Yet(l)) <= Len(threads[l]) + 1
  BY <1>3, <1>4, FS_Subset
<1>6. Cardinality(Yet(l)) \in Nat BY <1>5, FS_CardinalityType
<1> QED BY <1>1, <1>2, <1>5, <1>6

\* A launcher stays where it is, or goes from one place of a loop to another.
Moves(l) == Still(l) \/ (pc[l] \in Active /\ pc'[l] \in Active)

LEMMA KeepsNumbers ==
    ASSUME Loops, NEW l \in Launchers, threads'[l] = threads[l],
           Moves(l),
           index'[l] = index[l], failure'[l] = failure[l],
           threw'[l] = threw[l], performs'[l] = performs[l],
           \A i \in DOMAIN threads[l] : Holds(l, i) =>
              /\ index'[threads[l][i]] = index[threads[l][i]]
              /\ pc[l] \in Active => (Failed(l, i)' <=> Failed(l, i))
    PROVE  Numbered(l)' /\ Told(l)'
<1>1. Numbered(l) /\ Told(l) BY DEF Loops, InLoop
<1>2. \A i \in DOMAIN threads[l] : pc[l] \in Active => Holds(l, i) BY DEF Active, Holds
<1>3. pc'[l] \in Active => pc[l] \in Active BY DEF Moves, Still
<1>4. Numbered(l)'
  <2>1. \A i \in DOMAIN threads[l] : Holds(l, i)' => Holds(l, i)
    BY <1>2 DEF Moves, Still, Holds
  <2>2. pc'[l] \in Active \cup {"ready"} => pc[l] \in Active \cup {"ready"} BY DEF Moves, Still
  <2> QED BY <1>1, <2>1, <2>2 DEF Numbered
<1>5. Told(l)'
  <2>1. pc'[l] \in Active => (Blamed(l)' <=> Blamed(l))
    BY <1>2, <1>3 DEF Blamed
  <2> QED BY <1>1, <1>3, <2>1 DEF Told
<1> QED BY <1>4, <1>5

LEMMA KeepsCount ==
    ASSUME Kept, Loops, NEW l \in Launchers, threads'[l] = threads[l],
           Moves(l), pc'[l] \in Ended => threw'[l] \/ pc[l] \in Ended,
           threw[l] => threw'[l], range'[l] = range[l], it'[l] = it[l],
           pc'[l] \in {"wake", "signal", "take", "call", "nested"} =>
              pc[l] \in {"wake", "signal", "take", "call", "nested"},
           \A i \in DOMAIN threads[l] : Holds(l, i) /\ pc[l] \in Active =>
              (MayAsk(l, i)' => MayAsk(l, i))
    PROVE  Counted(l)'
<1> SUFFICES ASSUME pc'[l] \in Active PROVE Counted(l)' BY DEF Counted
<1>1. pc[l] \in Active BY DEF Moves, Still
<1>2. \A i \in DOMAIN threads[l] : Holds(l, i) BY <1>1 DEF Active, Holds
<1>3. Yet(l)' \subseteq Yet(l) BY <1>1, <1>2 DEF Yet
<1>4. Cardinality(Yet(l)') <= Cardinality(Yet(l)) BY <1>3, Spread, FS_Subset
<1>5. Cardinality(Yet(l)') \in Nat BY <1>3, Spread, FS_Subset, FS_CardinalityType
<1>6. pc'[l] \in Ended => threw'[l] \/ pc[l] \in Ended BY DEF Moves, Still
<1>7. /\ range[l] \in Ranges /\ range[l].begin <= it[l]
      /\ it[l] + Cardinality(Yet(l)) <= Most(range[l]) + Len(threads[l]) + 1
      /\ pc[l] \in Ended => threw[l] \/ it[l] >= range[l].end
  BY <1>1 DEF Loops, InLoop, Counted
<1>8. /\ it[l] \in Int /\ Cardinality(Yet(l)) \in Nat /\ Len(threads[l]) \in Nat
      /\ Most(range[l]) \in Int
  <2>1. it[l] \in Int BY SizeAssumption DEF Kept, TypeOK
  <2>2. Most(range[l]) \in Int BY <1>7, SizeAssumption DEF Most
  <2> QED BY <2>1, <2>2, Spread
<1>9. it[l] + Cardinality(Yet(l)') <= Most(range[l]) + Len(threads[l]) + 1
  BY <1>4, <1>5, <1>7, <1>8
<1>10. Most(range[l])' = Most(range[l]) BY DEF Most
<1> QED BY <1>6, <1>7, <1>9, <1>10 DEF Counted

LEMMA GoesOn ==
    ASSUME Kept, Loops, NEW l \in Launchers, threads'[l] = threads[l],
           Moves(l), pc'[l] \in Ended => pc[l] \in Ended,
           index'[l] = index[l], failure'[l] = failure[l], range'[l] = range[l],
           it'[l] = it[l], threw'[l] = threw[l], performs'[l] = performs[l],
           pc'[l] \in {"wake", "signal", "take", "call", "nested"} =>
              pc[l] \in {"wake", "signal", "take", "call", "nested"},
           \A i \in DOMAIN threads[l] : Holds(l, i) =>
              /\ index'[threads[l][i]] = index[threads[l][i]]
              /\ pc[l] \in Active => (Failed(l, i)' <=> Failed(l, i))
              /\ pc[l] \in Active => (MayAsk(l, i)' => MayAsk(l, i))
    PROVE  InLoop(l)'
<1>1. Numbered(l)' /\ Told(l)' BY KeepsNumbers
<1>2. Counted(l)' BY KeepsCount
<1> QED BY <1>1, <1>2 DEF InLoop

\* A launcher, and workers, that a step leaves alone.
LEMMA LeftAlone ==
    ASSUME Kept, Loops, NEW l \in Launchers, Still(l),
           index'[l] = index[l], failure'[l] = failure[l], range'[l] = range[l],
           it'[l] = it[l], threw'[l] = threw[l], performs'[l] = performs[l],
           \A i \in DOMAIN threads[l] : Holds(l, i) =>
              /\ Same(threads[l][i])
              /\ index'[threads[l][i]] = index[threads[l][i]]
              /\ failure'[threads[l][i]] = failure[threads[l][i]]
    PROVE  InLoop(l)'
<1>1. threads'[l] = threads[l] BY DEF Still
<1>2. ASSUME NEW i \in DOMAIN threads[l], Holds(l, i)
      PROVE  (Failed(l, i)' <=> Failed(l, i)) /\ (MayAsk(l, i)' <=> MayAsk(l, i))
  BY <1>1, <1>2 DEF Still, Same, Failed, Begun, Unbegun, MayAsk, Signalled, Asks
<1>3. pc'[l] = pc[l] /\ Moves(l) BY DEF Still, Moves
<1> QED BY <1>1, <1>2, <1>3, GoesOn

\* A launcher that is not in a loop after the step.
LEMMA NotInLoop ==
    ASSUME NEW l \in Launchers, pc'[l] \notin Active, Numbered(l)',
           failure'[l] => l \in Throwers /\ performs'[l] >= 1
    PROVE  InLoop(l)'
  BY DEF InLoop, Counted, Told

-----------------------------------------------------------------------------
(* The executors of a loop.                                                *)

\* A launcher's worker that does not sleep is at its loop.
LEMMA AtWork ==
    ASSUME Kept, NEW l \in Launchers, NEW i \in DOMAIN threads[l], Holds(l, i),
           ~Asleep(threads[l][i])
    PROVE  Busy(l, i) /\ Signalled(l, i) /\ Working(threads[l][i], l) /\ pc[l] \in Active
<1>1. Fits(l, i) BY DEF Kept, Signals
<1>2. Busy(l, i) /\ Working(threads[l][i], l)
  BY <1>1 DEF Fits, Finished, Assigned, Quiet
<1> QED BY <1>2 DEF Busy, Signalled, Active

\* e is the k-th executor of l, whose own thread is the last.
At(l, k, e) ==
    \/ e = l /\ k = Len(threads[l]) + 1
    \/ k \in DOMAIN threads[l] /\ Holds(l, k) /\ e = threads[l][k]

LEMMA Place ==
    ASSUME Kept, NEW e \in Executors, pc[e] \in {"take", "call", "nested"}
    PROVE  /\ JobOf(e) \in Launchers /\ pc[JobOf(e)] \in Active
           /\ \E k \in 1 .. Len(threads[JobOf(e)]) + 1 :
                 /\ At(JobOf(e), k, e)
                 /\ k \in Yet(JobOf(e))
                 /\ e \in Workers => k \in DOMAIN threads[JobOf(e)] /\ Signalled(JobOf(e), k)
<1>1. CASE e \in Workers
  <2>1. ~Quiet(e) /\ ~Asleep(e) BY DEF Quiet, Asleep
  <2>2. ~(Releasing /\ e <= size) BY <1>1 DEF Kept, Signals
  <2>3. PICK l \in Launchers : l \in Holders(e) BY <1>1, <2>1, <2>2 DEF Kept, Signals
  <2>4. PICK i \in DOMAIN threads[l] : Holds(l, i) /\ threads[l][i] = e BY <1>1, <2>3, HolderOf
  <2>5. Signalled(l, i) /\ Working(e, l) /\ pc[l] \in Active BY <2>1, <2>4, AtWork
  <2>6. job[e] = l BY <2>5 DEF Working
  <2>7. JobOf(e) = l BY <1>1, <2>6 DEF JobOf
  <2>8. i \in 1 .. Len(threads[l]) + 1 BY <2>4, Spread
  <2>9. i \in Yet(l) BY <2>4, <2>6, <2>8 DEF Yet, MayAsk, Asks
  <2>10. At(l, i, e) BY <2>4 DEF At
  <2> QED BY <2>4, <2>5, <2>7, <2>8, <2>9, <2>10
<1>2. CASE e \in Launchers
  <2>1. JobOf(e) = e /\ pc[e] \in Active BY <1>2, Processes DEF JobOf, Active
  <2>2. /\ Len(threads[e]) + 1 \in 1 .. Len(threads[e]) + 1
        /\ Len(threads[e]) + 1 \notin DOMAIN threads[e]
    BY <1>2, Spread
  <2>3. Len(threads[e]) + 1 \in Yet(e) BY <2>2 DEF Yet
  <2>4. At(e, Len(threads[e]) + 1, e) BY DEF At
  <2> QED BY <1>2, <2>1, <2>2, <2>3, <2>4, Processes
<1> QED BY <1>1, <1>2 DEF Executors

LEMMA OnePosition ==
    ASSUME Kept, Loops, NEW l \in Launchers, pc[l] \in Active, NEW e \in Executors,
           NEW k \in 1 .. Len(threads[l]) + 1, At(l, k, e)
    PROVE  /\ index[e] = k - 1
           /\ \A j \in 1 .. Len(threads[l]) + 1 : At(l, j, e) => j = k
           /\ \A m \in Launchers : \A j : m # l => ~At(m, j, e)
           /\ \A f \in Executors : At(l, k, f) => f = e
<1>1. Len(threads[l]) \in Nat /\ DOMAIN threads[l] = 1 .. Len(threads[l])
      /\ \A i \in DOMAIN threads[l] : threads[l][i] \in Workers
  BY Spread
<1>2. Numbered(l) BY DEF Loops, InLoop
<1>3. Safe BY DEF Kept
<1>4. CASE e = l /\ k = Len(threads[l]) + 1
  <2>1. index[e] = k - 1 BY <1>1, <1>2, <1>4 DEF Numbered
  <2>2. e \notin Workers BY <1>4, Processes
  <2>3. \A m \in Launchers : \A j : At(m, j, e) => m = l
    <3> SUFFICES ASSUME NEW m \in Launchers, NEW j, At(m, j, e) PROVE m = l OBVIOUS
    <3>1. CASE e = m BY <1>4, <3>1
    <3>2. CASE j \in DOMAIN threads[m] /\ e = threads[m][j] BY <2>2, <3>2, Spread
    <3> QED BY <3>1, <3>2 DEF At
  <2> QED BY <1>1, <1>4, <2>1, <2>2, <2>3 DEF At
<1>5. CASE k \in DOMAIN threads[l] /\ Holds(l, k) /\ e = threads[l][k]
  <2>1. index[e] = k - 1 BY <1>2, <1>5 DEF Numbered
  <2>2. e \in Workers /\ e \notin Launchers BY <1>1, <1>5, Processes
  <2>3. \A m \in Launchers : \A j : At(m, j, e) => m = l /\ j = k
    <3> SUFFICES ASSUME NEW m \in Launchers, NEW j, At(m, j, e) PROVE m = l /\ j = k OBVIOUS
    <3>1. j \in DOMAIN threads[m] /\ Holds(m, j) /\ e = threads[m][j] BY <2>2 DEF At
    <3> QED BY <1>3, <1>5, <3>1, OnePlace
  <2>4. \A f \in Executors : At(l, k, f) => f = e BY <1>1, <1>5 DEF At
  <2> QED BY <2>1, <2>3, <2>4
<1> QED BY <1>4, <1>5 DEF At

\* The counter does not wrap, and the executor that asks is one that may.
LEMMA NoWrap ==
    ASSUME Kept, Loops, Room, NEW l \in Launchers, pc[l] \in Active, NEW k \in Yet(l)
    PROVE  /\ it[l] \in Int /\ range[l].begin \in Int /\ range[l].end \in Int
           /\ range[l].begin <= it[l]
           /\ Wrapped(it[l]) = it[l] + 1
<1>1. /\ range[l] \in Ranges /\ range[l].begin <= it[l]
      /\ it[l] + Cardinality(Yet(l)) <= Most(range[l]) + Len(threads[l]) + 1
  BY DEF Loops, InLoop, Counted
<1>2. Cardinality(Yet(l)) >= 1
  <2>1. IsFiniteSet(Yet(l)) /\ Cardinality(Yet(l)) \in Nat BY Spread
  <2>2. Cardinality(Yet(l)) # 0 BY <2>1, FS_EmptySet
  <2> QED BY <2>1, <2>2
<1>3. it[l] \in MinInt .. MaxInt BY DEF Kept, TypeOK
<1>4. /\ range[l].begin \in Int /\ range[l].end \in Int /\ MaxInt \in Int /\ MinInt \in Int
      /\ range[l].begin + MaxSize < MaxInt /\ range[l].end + MaxSize < MaxInt
  BY <1>1, SizeAssumption DEF Room
<1>5. Most(range[l]) \in Int /\ Most(range[l]) + MaxSize < MaxInt BY <1>4 DEF Most
<1>6. Len(threads[l]) \in Nat /\ Len(threads[l]) <= MaxSize /\ Cardinality(Yet(l)) \in Nat
  BY Spread
<1>7. it[l] < MaxInt BY <1>1, <1>2, <1>3, <1>4, <1>5, <1>6, Processes
<1> QED BY <1>1, <1>3, <1>4, <1>7 DEF Wrapped

-----------------------------------------------------------------------------
(* Each step.                                                              *)

LEMMA TablesKept == ASSUME Tables, [Next]_vars PROVE Tables'
<1>1. /\ range' = range \/ \E l, r : range' = [range EXCEPT ![l] = r]
      /\ cur' = cur \/ \E e, i : cur' = [cur EXCEPT ![e] = i]
      /\ \/ performs' = performs \/ \E l : performs' = [performs EXCEPT ![l] = 0]
         \/ \E l \in Launchers : performs' = [performs EXCEPT ![l] = @ + 1]
      /\ threw' = threw \/ \E l : \E b \in BOOLEAN : threw' = [threw EXCEPT ![l] = b]
      => Tables'
  BY DEF Tables
<1>2. CASE UNCHANGED vars BY <1>2 DEF Tables, vars, launcher, seen, count
<1>3. ASSUME NEW l \in Launchers, NEW m, New(l, m) \/ \E e \in Executors : Nest(e, l, m)
      PROVE  Tables'
  BY <1>1, <1>3 DEF New, Nest, Construct, seen
<1>4. ASSUME NEW l \in Launchers,
             (\E r \in Ranges : Perform(l, r)) \/ Release(l)
      PROVE  Tables'
  BY <1>1, <1>4 DEF Perform, Release, launcher, seen, count
<1>5. ASSUME NEW l \in Launchers,
             LockNext(l) \/ WakeJob(l) \/ Signal(l) \/ Join(l) \/ ResetIdle(l)
      PROVE  Tables'
  BY <1>1, <1>5 DEF LockNext, WakeJob, Signal, Join, ResetIdle, launcher, seen, count
<1>6. ASSUME NEW l \in Launchers, Report(l) \/ FreeNext(l) PROVE Tables'
  BY <1>1, <1>6 DEF Report, FreeNext, launcher, seen, count
<1>7. ASSUME NEW e \in Executors, Runs(e) PROVE Tables'
  BY <1>1, <1>7 DEF Runs, Take, CallReturns, CallThrows, launcher, seen, count
<1>8. ASSUME NEW w \in Workers,
             WaitWake(w) \/ ResetWake(w) \/ BeginJob(w) \/ ClearJob(w) \/ SetIdle(w)
      PROVE  Tables'
  BY <1>8 DEF Tables, WaitWake, ResetWake, BeginJob, ClearJob, SetIdle, launcher, seen, count
<1>9. ASSUME NEW p \in Probes, IsInUse(p) \/ ProbeStep(p) PROVE Tables'
  BY <1>9 DEF Tables, IsInUse, ProbeStep, ProbeNext, ProbeFree, launcher, seen, count
<1>10. ASSUME (\E n \in Sizes : Reinit(n)) \/ OwnerStep PROVE Tables'
  BY <1>10 DEF Tables, Reinit, OwnerStep, ReinitLock, ReinitUnlock, ReleaseWake, ReleaseJoin,
               Resize, launcher, seen, count
<1>11. CASE Next
  BY <1>3, <1>4, <1>5, <1>6, <1>7, <1>8, <1>9, <1>10, <1>11
     DEF Next, LauncherStep, WorkerStep, Executors
<1> QED BY <1>2, <1>11

\* Nobody in a loop, nor a worker of one, is touched.
LEMMA BesideLoops ==
    ASSUME Kept, Loops, UNCHANGED <<threads, index, failure, range, it, threw, performs>>,
           \A m \in Launchers : Still(m),
           \A m \in Launchers : \A i \in DOMAIN threads[m] : Holds(m, i) => Same(threads[m][i])
    PROVE  \A m \in Launchers : InLoop(m)'
  BY LeftAlone

LEMMA ProbeLoops ==
    ASSUME Kept, Loops, NEW p \in Probes, IsInUse(p) \/ ProbeStep(p)
    PROVE  \A m \in Launchers : InLoop(m)'
<1>1. /\ UNCHANGED <<threads, index, failure, range, it, threw, performs, started, wakeEvent,
                     idleEvent, job>>
      /\ pc' = pc \/ \E to : pc' = [pc EXCEPT ![p] = to]
      /\ pos' = pos \/ \E to : pos' = [pos EXCEPT ![p] = to]
  BY DEF IsInUse, ProbeStep, ProbeNext, ProbeFree, Goto, pool, worker, launcher, seen, count
<1>2. /\ \A q \in Launchers \cup Workers : pc'[q] = pc[q]
      /\ \A m \in Launchers : pos'[m] = pos[m]
  BY <1>1, Processes DEF Kept, Safe, Typed, Executors
<1>3. \A m \in Launchers : Still(m) BY <1>1, <1>2 DEF Still
<1>4. \A w \in Workers : Same(w) BY <1>1, <1>2 DEF Same
<1>5. \A m \in Launchers : \A i \in DOMAIN threads[m] : Same(threads[m][i]) BY <1>4, Spread
<1> QED BY <1>1, <1>3, <1>5, BesideLoops

LEMMA OwnerLoops ==
    ASSUME Kept, Loops, (\E n \in Sizes : Reinit(n)) \/ OwnerStep
    PROVE  \A m \in Launchers : InLoop(m)'
<1>1. ASSUME NEW m \in Launchers, NEW i \in DOMAIN threads[m], Holds(m, i), Releasing PROVE FALSE
  BY <1>1, OnePlace DEF Kept
<1>2. CASE \/ \E n \in Sizes : Reinit(n)
           \/ ReinitLock \/ ReinitUnlock \/ ReleaseJoin \/ ReleaseWake
  <2>1. /\ UNCHANGED <<threads, index, failure, range, it, threw, performs, started, idleEvent>>
        /\ UNCHANGED <<wakeEvent, job>> \/ Releasing
        /\ pc' = pc \/ \E to : pc' = [pc EXCEPT ![Owner] = to]
        /\ pos' = pos \/ \E to : pos' = [pos EXCEPT ![Owner] = to]
    <3>1. CASE \E n \in Sizes : Reinit(n)
      BY <3>1 DEF Reinit, Goto, worker, launcher, seen, count
    <3>2. CASE ReinitLock BY <3>2 DEF ReinitLock, Goto, launcher, seen, count
    <3>3. CASE ReinitUnlock BY <3>3 DEF ReinitUnlock, Goto, launcher, seen, count
    <3>4. CASE ReleaseJoin BY <3>4 DEF ReleaseJoin, Goto, worker, launcher, seen, count
    <3>5. CASE ReleaseWake BY <3>5 DEF ReleaseWake, Releasing, Goto, launcher, seen, count
    <3> QED BY <1>2, <3>1, <3>2, <3>3, <3>4, <3>5
  <2>2. /\ \A q \in Launchers \cup Workers : pc'[q] = pc[q]
        /\ \A m \in Launchers : pos'[m] = pos[m]
    BY <2>1, Processes DEF Kept, Safe, Typed, Executors
  <2>3. \A m \in Launchers : Still(m) BY <2>1, <2>2 DEF Still
  <2>4. ASSUME NEW m \in Launchers, NEW i \in DOMAIN threads[m], Holds(m, i)
        PROVE  Same(threads[m][i])
    <3>1. UNCHANGED <<wakeEvent, job>> BY <1>1, <2>1, <2>4
    <3>2. threads[m][i] \in Workers BY Spread
    <3> QED BY <2>1, <2>2, <3>1, <3>2 DEF Same
  <2> QED BY <2>1, <2>3, <2>4, BesideLoops
<1>3. CASE Resize
  <2>1. Releasing BY <1>3 DEF Resize, Releasing
  <2>2. /\ UNCHANGED <<threads, range, it, threw, performs, pos>>
        /\ \A m \in Launchers : index'[m] = index[m] /\ failure'[m] = failure[m] /\ pc'[m] = pc[m]
    BY <1>3, Processes DEF Resize, launcher, seen, count, Kept, Safe, Typed, Executors
  <2>3. \A m \in Launchers : Still(m) BY <2>2 DEF Still
  <2> QED BY <1>1, <2>1, <2>2, <2>3, LeftAlone
<1> QED BY <1>2, <1>3 DEF OwnerStep

LEMMA WorkerLoops ==
    ASSUME Kept, Loops, NEW w \in Workers,
           WaitWake(w) \/ ResetWake(w) \/ BeginJob(w) \/ ClearJob(w) \/ SetIdle(w)
    PROVE  \A m \in Launchers : InLoop(m)'
<1>0. w \in DOMAIN pc BY DEF Kept, Safe, Typed, Executors
<1>1. /\ UNCHANGED <<threads, index, range, it, threw, performs, pos>>
      /\ \E to : pc' = [pc EXCEPT ![w] = to]
      /\ failure' = failure \/ \E b : failure' = [failure EXCEPT ![w] = b]
      /\ job' = job \/ \E b : job' = [job EXCEPT ![w] = b]
      /\ wakeEvent' = wakeEvent \/ \E b : wakeEvent' = [wakeEvent EXCEPT ![w] = b]
      /\ idleEvent' = idleEvent \/ \E b : idleEvent' = [idleEvent EXCEPT ![w] = b]
      /\ started' = started
  BY DEF WaitWake, ResetWake, BeginJob, ClearJob, SetIdle, Goto, worker, launcher, seen, count
<1>2. \A m \in Launchers : Still(m) /\ Moves(m) /\ failure'[m] = failure[m] /\ pc'[m] = pc[m]
  BY <1>1, Processes DEF Still, Moves, Kept, Safe, Typed, TypeOK, Executors
<1>3. \A v \in Workers : v # w => Same(v) /\ failure'[v] = failure[v]
  BY <1>1 DEF Same, Kept, Safe, Typed, TypeOK, Executors
<1>4. ASSUME NEW m \in Launchers, NEW i \in DOMAIN threads[m], Holds(m, i), pc[m] \in Active
      PROVE  (Failed(m, i)' <=> Failed(m, i)) /\ (MayAsk(m, i)' => MayAsk(m, i))
  <2>0. PICK v : v = threads[m][i] OBVIOUS
  <2>1. v \in Workers /\ threads'[m][i] = v BY <1>1, <2>0, Spread
  <2>2. Signalled(m, i)' <=> Signalled(m, i) BY <1>2 DEF Still, Signalled
  <2>3. CASE v # w
    <3>1. Same(v) /\ failure'[v] = failure[v] BY <1>3, <2>1, <2>3
    <3> QED BY <2>0, <2>1, <2>2, <3>1 DEF Same, Failed, Begun, Unbegun, MayAsk, Asks
  <2>4. CASE v = w
    <3>1. ~Asleep(w) => Signalled(m, i) /\ Working(w, m) BY <1>4, <2>0, <2>4, AtWork
    <3>2. m # Nobody BY Processes
    <3>3. CASE WaitWake(w) \/ SetIdle(w)
      <4>1. /\ failure' = failure /\ job' = job
            /\ \/ pc[w] = "wait" /\ pc'[w] = "reset"
               \/ pc[w] = "idle" /\ pc'[w] = "wait"
        BY <1>0, <3>3 DEF WaitWake, SetIdle, Goto, worker
      <4>2. pc[w] = "idle" => job[w] # m
        <5>1. pc[w] = "idle" => ~Asleep(w) BY DEF Asleep
        <5> QED BY <3>1, <3>2, <5>1 DEF Working
      <4> QED BY <2>0, <2>1, <2>2, <2>4, <4>1, <4>2 DEF Failed, Begun, Unbegun, MayAsk, Asks
    <3>4. CASE ResetWake(w)
      <4>1. ~Releasing BY <1>4, OnePlace DEF Kept
      <4>2. ~shutDown BY <4>1 DEF Kept, Far
      <4>3. failure' = failure /\ job' = job /\ pc[w] = "reset" /\ pc'[w] = "begin"
        BY <1>0, <3>4, <4>2 DEF ResetWake, AfterWake, Goto
      <4> QED BY <2>0, <2>1, <2>2, <2>4, <4>3 DEF Failed, Begun, Unbegun, MayAsk, Asks
    <3>5. CASE ClearJob(w)
      <4>1. failure' = failure /\ job'[w] = Nobody /\ pc[w] = "clear" /\ pc'[w] = "idle"
        BY <1>0, <3>5 DEF ClearJob, Goto, Kept, TypeOK
      <4> QED BY <2>0, <2>1, <2>2, <2>4, <3>2, <4>1 DEF Failed, Begun, Unbegun, MayAsk, Asks
    <3>6. CASE BeginJob(w)
      <4>1. /\ failure'[w] = FALSE /\ job' = job /\ pc[w] = "begin"
            /\ job[w] # Nobody => pc'[w] = "take"
        BY <1>0, <3>6 DEF BeginJob, Goto, Kept, TypeOK, Executors
      <4>2. job[w] = m
        <5>1. ~Asleep(w) BY <4>1 DEF Asleep
        <5> QED BY <3>1, <4>1, <5>1 DEF Working
      <4>3. ~Failed(m, i)' BY <2>1, <2>4, <4>1 DEF Failed
      <4>4. ~Failed(m, i) BY <2>0, <2>4, <4>1, <4>2 DEF Failed, Begun, Unbegun
      <4>5. MayAsk(m, i) BY <2>0, <2>4, <4>1, <4>2 DEF MayAsk, Asks
      <4> QED BY <4>3, <4>4, <4>5
    <3> QED BY <3>3, <3>4, <3>5, <3>6
  <2> QED BY <2>3, <2>4
<1>5. ASSUME NEW m \in Launchers PROVE InLoop(m)' BY <1>1, <1>2, <1>4, GoesOn
<1> QED BY <1>5

\* A step of a launcher, or of a worker of its.
LEMMA OthersAlone ==
    ASSUME Kept, Loops, NEW l \in Launchers,
           \A m \in Launchers \ {l} :
              /\ Still(m) /\ index'[m] = index[m] /\ failure'[m] = failure[m]
              /\ range'[m] = range[m] /\ it'[m] = it[m]
              /\ threw'[m] = threw[m] /\ performs'[m] = performs[m],
           \A w \in Workers : l \notin Holders(w) =>
              Same(w) /\ index'[w] = index[w] /\ failure'[w] = failure[w]
    PROVE  \A m \in Launchers \ {l} : InLoop(m)'
<1>1. SUFFICES ASSUME NEW m \in Launchers \ {l} PROVE InLoop(m)' OBVIOUS
<1>2. ASSUME NEW i \in DOMAIN threads[m], Holds(m, i)
      PROVE  /\ Same(threads[m][i])
             /\ index'[threads[m][i]] = index[threads[m][i]]
             /\ failure'[threads[m][i]] = failure[threads[m][i]]
  <2>1. threads[m][i] \in Workers /\ m \in Holders(threads[m][i]) BY <1>2, OnePlace DEF Kept
  <2>2. l \notin Holders(threads[m][i]) BY <2>1 DEF Kept, Safe, Apart
  <2> QED BY <2>1, <2>2
<1> QED BY <1>2, LeftAlone

LEMMA ServeLoops ==
    ASSUME Kept, Loops, NEW l \in Launchers,
           WakeJob(l) \/ Signal(l) \/ Join(l) \/ ResetIdle(l)
    PROVE  \A m \in Launchers : InLoop(m)'
<1>0. PICK v : v = threads[l][pos[l]] OBVIOUS
<1>1. /\ UNCHANGED <<threads, index, failure, range, it, threw, performs>>
      /\ pc[l] \in {"wake", "signal", "join", "rest"}
      /\ pos' = pos \/ pos' = [pos EXCEPT ![l] = @ + 1]
  BY DEF WakeJob, Signal, Join, ResetIdle, worker, launcher, seen, count
<1>2. /\ l \in DOMAIN pc /\ pos[l] \in Nat \ {0}
      /\ \A m \in Launchers \ {l} : pos'[m] = pos[m]
  BY <1>1 DEF Kept, Safe, Typed, Executors
<1>3. \A i \in DOMAIN threads[l] : Holds(l, i) BY <1>1 DEF Holds
<1>4. /\ Len(threads[l]) \in Nat /\ DOMAIN threads[l] = 1 .. Len(threads[l])
      /\ \A i \in DOMAIN threads[l] : threads[l][i] \in Workers
  BY Spread
<1>5. ASSUME pos[l] \in DOMAIN threads[l]
      PROVE  /\ v \in Workers /\ l \in Holders(v) /\ Fits(l, pos[l])
             /\ \A i \in DOMAIN threads[l] : i # pos[l] => threads[l][i] # v
  <2>1. v \in Workers /\ l \in Holders(v) BY <1>0, <1>3, <1>5, OnePlace DEF Kept
  <2>2. Fits(l, pos[l]) BY <1>3, <1>5 DEF Kept, Signals
  <2>3. \A i \in DOMAIN threads[l] : i # pos[l] => threads[l][i] # v
    BY <1>0, <1>5 DEF Kept, Safe, Distinct
  <2> QED BY <2>1, <2>2, <2>3
<1>6. ASSUME NEW w \in Workers, pc'[w] = pc[w], job'[w] = job[w],
             NEW i \in DOMAIN threads[l], threads[l][i] = w,
             Signalled(l, i)' <=> Signalled(l, i)
      PROVE  (Failed(l, i)' <=> Failed(l, i)) /\ (MayAsk(l, i)' => MayAsk(l, i))
  BY <1>1, <1>6 DEF Failed, Begun, Unbegun, MayAsk, Asks
<1>7. CASE Join(l) \/ ResetIdle(l) \/ (WakeJob(l) /\ pos[l] > Len(threads[l]))
  <2>1. /\ UNCHANGED <<started, wakeEvent, job>>
        /\ \/ /\ pc[l] \in {"join", "rest"} /\ pos[l] <= Len(threads[l])
              /\ \E to \in {"join", "rest", "report"} : pc' = [pc EXCEPT ![l] = to]
           \/ /\ pc[l] = "join" /\ pc' = [pc EXCEPT ![l] = "report"]
           \/ pc[l] = "wake" /\ pos[l] > Len(threads[l]) /\ pc' = [pc EXCEPT ![l] = "take"]
        /\ idleEvent' = idleEvent
           \/ (pos[l] <= Len(threads[l]) /\ idleEvent' = [idleEvent EXCEPT ![v] = FALSE])
    <3>1. CASE Join(l) BY <3>1 DEF Join, Goto, worker
    <3>2. CASE ResetIdle(l)
      <4>1. pos[l] <= Len(threads[l]) BY <3>2 DEF ResetIdle, Kept, Far
      <4> QED BY <1>0, <3>2, <4>1 DEF ResetIdle, Goto
    <3>3. CASE WakeJob(l) /\ pos[l] > Len(threads[l])
      BY <1>2, <1>4, <3>3 DEF WakeJob, Goto
    <3> QED BY <1>7, <3>1, <3>2, <3>3
  <2>2. /\ \/ pc[l] \in {"join", "rest"} /\ pc'[l] \in {"join", "rest", "report"}
           \/ pc[l] = "wake" /\ pc'[l] = "take"
        /\ \A q \in (Launchers \ {l}) \cup Workers : pc'[q] = pc[q]
    <3>1. \E to : pc' = [pc EXCEPT ![l] = to] BY <2>1
    <3>2. \A q \in (Launchers \ {l}) \cup Workers : pc'[q] = pc[q]
      BY <3>1, Processes DEF Kept, Safe, Typed, Executors
    <3>3. \/ pc[l] \in {"join", "rest"} /\ pc'[l] \in {"join", "rest", "report"}
          \/ pc[l] = "wake" /\ pc'[l] = "take"
      BY <1>2, <2>1
    <3> QED BY <3>2, <3>3
  <2>3. \A w \in Workers : l \notin Holders(w) => Same(w)
    <3>1. pos[l] <= Len(threads[l]) => v \in Workers /\ l \in Holders(v) BY <1>2, <1>4, <1>5
    <3> QED BY <2>1, <2>2, <3>1 DEF Same, Kept, TypeOK
  <2>4. \A i \in DOMAIN threads[l] : Signalled(l, i)' <=> Signalled(l, i)
    BY <1>2, <1>4, <2>1, <2>2 DEF Signalled, Ended
  <2>5. InLoop(l)'
    <3>1. \A i \in DOMAIN threads[l] :
             (Failed(l, i)' <=> Failed(l, i)) /\ (MayAsk(l, i)' => MayAsk(l, i))
      BY <1>4, <1>6, <2>1, <2>2, <2>4
    <3>2. Moves(l) BY <1>1, <2>2 DEF Moves, Active, Ended
    <3>3. /\ pc'[l] \in Ended => pc[l] \in Ended
          /\ pc'[l] \in {"wake", "signal", "take", "call", "nested"} =>
               pc[l] \in {"wake", "signal", "take", "call", "nested"}
      BY <2>2 DEF Ended
    <3> QED BY <1>1, <3>1, <3>2, <3>3, GoesOn
  <2>6. \A m \in Launchers \ {l} : Still(m) BY <1>1, <1>2, <2>2 DEF Still
  <2>7. \A m \in Launchers \ {l} : InLoop(m)' BY <1>1, <2>3, <2>6, OthersAlone
  <2> QED BY <2>5, <2>7
<1>8. CASE WakeJob(l) /\ ~(pos[l] > Len(threads[l]))
  <2>1. /\ UNCHANGED <<started, wakeEvent, idleEvent, pos>>
        /\ pc[l] = "wake" /\ pc' = [pc EXCEPT ![l] = "signal"]
        /\ job' = [job EXCEPT ![v] = l]
    BY <1>0, <1>8 DEF WakeJob, Goto
  <2>2. pc'[l] = "signal" /\ \A q \in (Launchers \ {l}) \cup Workers : pc'[q] = pc[q]
    BY <1>2, <2>1, Processes DEF Kept, Safe, Typed, Executors
  <2>3. pos[l] \in DOMAIN threads[l] BY <1>2, <1>4, <1>8
  <2>4. \A w \in Workers : w # v => Same(w)
    BY <2>1, <2>2 DEF Same, Kept, TypeOK
  <2>5. \A w \in Workers : l \notin Holders(w) => Same(w) BY <1>5, <2>3, <2>4
  <2>6. \A i \in DOMAIN threads[l] : Signalled(l, i)' <=> Signalled(l, i)
    BY <2>1, <2>2 DEF Signalled
  <2>7. ~Signalled(l, pos[l]) BY <1>2, <2>1 DEF Signalled
  <2>8. ASSUME NEW i \in DOMAIN threads[l]
        PROVE  (Failed(l, i)' <=> Failed(l, i)) /\ (MayAsk(l, i)' => MayAsk(l, i))
    <3>1. CASE i = pos[l] BY <2>6, <2>7, <3>1 DEF Failed, Begun, MayAsk
    <3>2. CASE i # pos[l]
      <4>1. Same(threads[l][i]) BY <1>4, <1>5, <2>3, <2>4, <3>2
      <4> QED BY <1>4, <1>6, <2>6, <4>1 DEF Same
    <3> QED BY <3>1, <3>2
  <2>9. Moves(l) BY <2>1, <2>2 DEF Moves, Active
  <2>10. pc'[l] \notin Ended BY <2>2 DEF Ended
  <2>11. InLoop(l)' BY <1>1, <2>1, <2>8, <2>9, <2>10, GoesOn
  <2>12. \A m \in Launchers \ {l} : Still(m) BY <1>1, <1>2, <2>2 DEF Still
  <2>13. \A m \in Launchers \ {l} : InLoop(m)' BY <1>1, <2>5, <2>12, OthersAlone
  <2> QED BY <2>11, <2>13
<1>9. CASE Signal(l)
  <2>1. /\ pc[l] = "signal" /\ pos' = [pos EXCEPT ![l] = pos[l] + 1]
        /\ pc' = IF started[v] THEN [pc EXCEPT ![l] = "wake"]
                 ELSE [pc EXCEPT ![l] = "wake", ![v] = "wait"]
        /\ wakeEvent' = [wakeEvent EXCEPT ![v] = TRUE]
        /\ started' = [started EXCEPT ![v] = TRUE]
        /\ UNCHANGED <<idleEvent, job>>
    BY <1>0, <1>9 DEF Signal
  <2>2. pos[l] \in DOMAIN threads[l]
    <3>1. pos[l] <= Len(threads[l]) BY <2>1 DEF Kept, Safe, Placed
    <3> QED BY <1>2, <1>4, <3>1
  <2>3. Assigned(v, l) BY <1>0, <1>5, <2>1, <2>2 DEF Fits, Given
  <2>4. v \in Workers BY <1>5, <2>2
  <2>5. pc'[l] = "wake" /\ pos'[l] = pos[l] + 1 /\ pc'[v] = "wait"
    BY <1>2, <2>1, <2>3, <2>4, Processes DEF Kept, Safe, Typed, Executors, Assigned, Asleep
  <2>6. \A q \in Launchers \cup Workers : q \notin {l, v} => pc'[q] = pc[q]
    BY <2>1, Processes DEF Kept, Safe, Typed, Executors
  <2>7. \A w \in Workers : w # v => Same(w)
    BY <2>1, <2>6, Processes DEF Same, Kept, TypeOK
  <2>8. \A w \in Workers : l \notin Holders(w) => Same(w) BY <1>5, <2>2, <2>7
  <2>9. ASSUME NEW i \in DOMAIN threads[l]
        PROVE  (Failed(l, i)' <=> Failed(l, i)) /\ (MayAsk(l, i)' => MayAsk(l, i))
    <3>1. CASE i = pos[l]
      <4>1. ~Signalled(l, i) BY <1>2, <2>1, <3>1 DEF Signalled
      <4>2. Unbegun(v, l)' BY <2>1, <2>3, <2>5 DEF Unbegun, Assigned
      <4>3. threads'[l][i] = v BY <1>0, <1>1, <3>1
      <4> QED BY <4>1, <4>2, <4>3 DEF Failed, Begun, MayAsk
    <3>2. CASE i # pos[l]
      <4>1. Same(threads[l][i]) BY <1>4, <1>5, <2>2, <2>7, <3>2
      <4>2. Signalled(l, i)' <=> Signalled(l, i)
        BY <1>2, <1>4, <2>1, <2>5, <3>2 DEF Signalled
      <4> QED BY <1>4, <1>6, <4>1, <4>2 DEF Same
    <3> QED BY <3>1, <3>2
  <2>10. Moves(l) BY <2>1, <2>5 DEF Moves, Active
  <2>11. pc'[l] \notin Ended BY <2>5 DEF Ended
  <2>12. InLoop(l)' BY <1>1, <2>1, <2>9, <2>10, <2>11, GoesOn
  <2>13. \A m \in Launchers \ {l} : Still(m)
    BY <1>1, <1>2, <2>4, <2>6, Processes DEF Still
  <2>14. \A m \in Launchers \ {l} : InLoop(m)' BY <1>1, <2>8, <2>13, OthersAlone
  <2> QED BY <2>12, <2>14
<1> QED BY <1>7, <1>8, <1>9

\* What the steps of an executor in a loop have in common.
LEMMA RunsInLoop ==
    ASSUME Kept, Loops, NEW e \in Executors, Runs(e), NEW l, l = JobOf(e)
    PROVE  /\ l \in Launchers /\ pc[l] \in Active /\ Moves(l)
           /\ UNCHANGED <<threads, index, range, performs, job>>
           /\ pc[e] \in {"take", "call"} /\ e \in DOMAIN pc
           /\ e = l \/ (e \in Workers /\ e # l)
           /\ e # l => pc'[l] = pc[l] /\ job[e] = l
           /\ \A w \in Workers : w # e => pc'[w] = pc[w]
           /\ \A i \in DOMAIN threads[l] : Holds(l, i) /\ (Signalled(l, i)' <=> Signalled(l, i))
           /\ \A m \in Launchers \ {l} : InLoop(m)'
<1>1. /\ UNCHANGED <<threads, index, range, performs, job, started, wakeEvent, idleEvent>>
      /\ pc[e] \in {"take", "call"}
      /\ \E to : pc' = [pc EXCEPT ![e] = to]
      /\ pos' = pos \/ (e \notin Workers /\ pos' = [pos EXCEPT ![e] = 1])
      /\ it' = it \/ \E to : it' = [it EXCEPT ![l] = to]
      /\ threw' = threw \/ \E to : threw' = [threw EXCEPT ![l] = to]
      /\ failure' = failure \/ \E to : failure' = [failure EXCEPT ![e] = to]
  BY DEF Runs, Take, CallReturns, CallThrows, Goto, worker, launcher, seen, count
<1>2. l \in Launchers /\ pc[l] \in Active BY <1>1, Place
<1>3. e = l \/ (e \in Workers /\ e # l /\ job[e] = l) BY <1>2, Processes DEF JobOf, Executors
<1>4. e \in DOMAIN pc /\ l \in DOMAIN pc BY <1>2 DEF Kept, Safe, Typed, Executors
<1>5. \A q \in Launchers \cup Workers : q # e => pc'[q] = pc[q]
  BY <1>1 DEF Kept, Safe, Typed, Executors
<1>6. \A i \in DOMAIN threads[l] : Holds(l, i) BY <1>2 DEF Active, Holds
<1>7. pc'[e] \in {"take", "call", AfterJob(e)}
  BY <1>4 DEF Runs, Take, CallReturns, CallThrows, Goto
<1>8. /\ e = l => pc[l] \in {"take", "call"} /\ pc'[l] \in {"take", "call", "join"}
      /\ e # l => pc'[l] = pc[l] /\ pos'[l] = pos[l]
  BY <1>1, <1>2, <1>3, <1>5, <1>7, Processes DEF AfterJob
<1>9. Moves(l) BY <1>1, <1>2, <1>8 DEF Moves, Active
<1>10. \A i \in DOMAIN threads[l] : Signalled(l, i)' <=> Signalled(l, i)
  BY <1>8 DEF Signalled
<1>11. \A m \in Launchers \ {l} : InLoop(m)'
  <2>1. e \in Workers => l \in Holders(e)
    <3>1. PICK k \in 1 .. Len(threads[l]) + 1 : At(l, k, e) BY <1>1, Place
    <3>2. e \in Workers => k \in DOMAIN threads[l] /\ Holds(l, k) /\ e = threads[l][k]
      BY <1>2, <3>1, Processes DEF At
    <3> QED BY <1>2, <3>2, OnePlace DEF Kept
  <2>2. \A w \in Workers : w # e => Same(w) /\ index'[w] = index[w] /\ failure'[w] = failure[w]
    BY <1>1, <1>5 DEF Same, Kept, TypeOK, Executors
  <2>3. ASSUME NEW m \in Launchers \ {l}
        PROVE  /\ Still(m) /\ index'[m] = index[m] /\ failure'[m] = failure[m]
               /\ range'[m] = range[m] /\ it'[m] = it[m]
               /\ threw'[m] = threw[m] /\ performs'[m] = performs[m]
    <3>1. m # e BY <1>3, Processes
    <3>2. pc'[m] = pc[m] /\ pos'[m] = pos[m] /\ threads'[m] = threads[m]
      BY <1>1, <1>5, <3>1 DEF Kept, Safe, Typed
    <3>3. failure'[m] = failure[m] BY <1>1, <3>1 DEF Kept, TypeOK, Executors
    <3>4. it'[m] = it[m] BY <1>1 DEF Kept, TypeOK
    <3>5. threw'[m] = threw[m] BY <1>1 DEF Loops, Tables
    <3> QED BY <1>1, <3>2, <3>3, <3>4, <3>5 DEF Still
  <2> QED BY <1>2, <2>1, <2>2, <2>3, OthersAlone
<1> QED BY <1>1, <1>2, <1>3, <1>4, <1>5, <1>6, <1>8, <1>9, <1>10, <1>11

LEMMA ReturnsLoops ==
    ASSUME Kept, Loops, NEW e \in Executors, CallReturns(e)
    PROVE  \A m \in Launchers : InLoop(m)'
<1>0. PICK l : l = JobOf(e) OBVIOUS
<1>1. Runs(e) BY DEF Runs
<1>2. UNCHANGED <<failure, it, threw>> /\ pc[e] = "call" /\ pc'[e] = "take"
  BY <1>0, <1>1, RunsInLoop DEF CallReturns, Goto, worker, launcher, seen
<1>3. ASSUME NEW i \in DOMAIN threads[l]
      PROVE  (Failed(l, i)' <=> Failed(l, i)) /\ (MayAsk(l, i)' => MayAsk(l, i))
  <2>1. PICK w : w = threads[l][i] OBVIOUS
  <2>2. w \in Workers /\ threads'[l][i] = w BY <1>0, <1>1, <2>1, RunsInLoop, Spread
  <2>3. job' = job /\ (Signalled(l, i)' <=> Signalled(l, i)) BY <1>0, <1>1, RunsInLoop
  <2>4. CASE w = e
    <3>1. job[e] = l BY <1>0, <2>2, <2>4 DEF JobOf
    <3> QED BY <1>2, <2>1, <2>2, <2>3, <2>4, <3>1 DEF Failed, Begun, Unbegun, MayAsk, Asks
  <2>5. CASE w # e
    <3>1. pc'[w] = pc[w] BY <1>0, <1>1, <2>2, <2>5, RunsInLoop
    <3> QED BY <1>2, <2>1, <2>2, <2>3, <3>1 DEF Failed, Begun, Unbegun, MayAsk, Asks
  <2> QED BY <2>4, <2>5
<1>4. /\ pc'[l] \in Ended => pc[l] \in Ended
      /\ pc'[l] \in {"wake", "signal", "take", "call", "nested"} =>
           pc[l] \in {"wake", "signal", "take", "call", "nested"}
  <2>1. e # l => pc'[l] = pc[l] BY <1>0, <1>1, RunsInLoop
  <2> QED BY <1>2, <2>1 DEF Ended
<1>5. InLoop(l)'
  <2>1. l \in Launchers /\ Moves(l) /\ UNCHANGED <<threads, index, range, performs>>
    BY <1>0, <1>1, RunsInLoop
  <2> QED BY <1>2, <1>3, <1>4, <2>1, GoesOn
<1> QED BY <1>0, <1>1, <1>5, RunsInLoop

LEMMA ThrowsLoops ==
    ASSUME Kept, Loops, NEW e \in Executors, CallThrows(e)
    PROVE  \A m \in Launchers : InLoop(m)'
<1>0. PICK l : l = JobOf(e) OBVIOUS
<1>1. Runs(e) BY DEF Runs
<1>2. /\ it' = it /\ e \in Throwers /\ pc[e] = "call" /\ pc'[e] = AfterJob(e)
      /\ failure' = [failure EXCEPT ![e] = TRUE] /\ threw' = [threw EXCEPT ![l] = TRUE]
  BY <1>0, <1>1, RunsInLoop DEF CallThrows, Goto, launcher
<1>3. /\ l \in Launchers /\ Moves(l) /\ pc[l] \in Active
      /\ UNCHANGED <<threads, index, range, performs, job>>
      /\ e = l \/ (e \in Workers /\ e # l /\ pc'[l] = pc[l] /\ job[e] = l)
  BY <1>0, <1>1, RunsInLoop
<1>4. failure'[e] /\ threw'[l] BY <1>2, <1>3 DEF Kept, TypeOK, Loops, Tables
<1>5. ASSUME NEW i \in DOMAIN threads[l], MayAsk(l, i)' PROVE MayAsk(l, i)
  <2>1. PICK w : w = threads[l][i] OBVIOUS
  <2>2. w \in Workers /\ threads'[l][i] = w BY <1>0, <1>1, <2>1, RunsInLoop, Spread
  <2>3. Signalled(l, i)' <=> Signalled(l, i) BY <1>0, <1>1, RunsInLoop
  <2>4. CASE w = e
    <3>1. job[e] = l BY <1>0, <2>2, <2>4 DEF JobOf
    <3> QED BY <1>2, <2>1, <2>4, <3>1 DEF MayAsk, Asks
  <2>5. CASE w # e
    <3>1. pc'[w] = pc[w] BY <1>0, <1>1, <2>2, <2>5, RunsInLoop
    <3> QED BY <1>3, <1>5, <2>1, <2>2, <2>3, <3>1 DEF MayAsk, Asks
  <2> QED BY <2>4, <2>5
<1>6. Counted(l)'
  <2>1. pc'[l] \in {"wake", "signal", "take", "call", "nested"} =>
           pc[l] \in {"wake", "signal", "take", "call", "nested"}
    BY <1>2, <1>3
  <2> QED BY <1>2, <1>3, <1>4, <1>5, <2>1, KeepsCount
<1>7. Numbered(l)'
  <2>1. Numbered(l) BY <1>3 DEF Loops, InLoop
  <2>2. \A i \in DOMAIN threads[l] : Holds(l, i) BY <1>0, <1>1, RunsInLoop
  <2>3. pc[l] \in Active \cup {"ready"} BY <1>3
  <2> QED BY <1>3, <2>1, <2>2, <2>3 DEF Numbered
<1>8. Told(l)'
  <2>1. Told(l) BY <1>3 DEF Loops, InLoop
  <2>2. failure'[l] => l \in Throwers /\ performs[l] >= 1
    <3>1. CASE e = l BY <1>2, <1>3, <2>1, <3>1 DEF Told
    <3>2. CASE e # l
      <4>1. failure'[l] = failure[l] BY <1>2, <3>2, <1>3 DEF Kept, TypeOK, Executors
      <4> QED BY <2>1, <4>1 DEF Told
    <3> QED BY <3>1, <3>2
  <2>3. Blamed(l)'
    <3>1. CASE e = l BY <1>4, <3>1 DEF Blamed
    <3>2. CASE e # l
      <4>1. e \in Workers /\ pc[e] \in {"take", "call", "nested"} BY <1>2, <1>3, <3>2
      <4>2. PICK k \in DOMAIN threads[l] : At(l, k, e) /\ Signalled(l, k)
        BY <1>0, <4>1, Place
      <4>3. e = threads'[l][k] /\ k \in DOMAIN threads'[l] BY <1>3, <3>2, <4>2 DEF At
      <4>4. Signalled(l, k)' BY <1>0, <1>1, <4>2, RunsInLoop
      <4>5. pc'[e] = "clear" BY <1>2, <4>1 DEF AfterJob
      <4>6. ~Unbegun(e, l)' BY <4>5 DEF Unbegun
      <4>7. Failed(l, k)' BY <1>4, <4>3, <4>4, <4>6 DEF Failed, Begun
      <4> QED BY <4>3, <4>7 DEF Blamed
    <3> QED BY <3>1, <3>2
  <2>4. performs[l] >= 1 BY <1>3, <2>1 DEF Told
  <2> QED BY <1>3, <1>4, <2>2, <2>3, <2>4 DEF Told
<1>9. InLoop(l)' BY <1>6, <1>7, <1>8 DEF InLoop
<1> QED BY <1>0, <1>1, <1>9, RunsInLoop

\* An index is taken, or the range's end is passed: an executor's loop ends.
LEMMA TakeLoops ==
    ASSUME Kept, Loops, Room, NEW e \in Executors, Take(e)
    PROVE  \A m \in Launchers : InLoop(m)'
<1>0. PICK l : l = JobOf(e) OBVIOUS
<1>1. Runs(e) BY DEF Runs
<1>2. /\ l \in Launchers /\ Moves(l) /\ pc[l] \in Active
      /\ UNCHANGED <<threads, index, range, performs, job>>
      /\ e = l \/ (e \in Workers /\ e # l /\ pc'[l] = pc[l] /\ job[e] = l)
  BY <1>0, <1>1, RunsInLoop
<1>3. PICK k \in 1 .. Len(threads[l]) + 1 :
         /\ At(l, k, e) /\ k \in Yet(l)
         /\ e \in Workers => k \in DOMAIN threads[l] /\ Signalled(l, k)
  BY <1>0, Place DEF Take
<1>4. /\ it[l] \in Int /\ range[l].begin \in Int /\ range[l].end \in Int
      /\ range[l].begin <= it[l] /\ Wrapped(it[l]) = it[l] + 1
  BY <1>2, <1>3, NoWrap
<1>5. /\ it'[l] = it[l] + 1 /\ UNCHANGED <<failure, threw>> /\ pc[e] = "take"
      /\ \/ it[l] < range[l].end /\ pc'[e] = "call"
         \/ ~(it[l] < range[l].end) /\ pc'[e] = AfterJob(e)
  <2>1. e \in DOMAIN pc BY <1>0, <1>1, RunsInLoop
  <2>2. it' = [it EXCEPT ![l] = it[l] + 1] BY <1>0, <1>4 DEF Take
  <2>3. it'[l] = it[l] + 1 BY <1>2, <2>2 DEF Kept, TypeOK
  <2> QED BY <1>0, <2>1, <2>3 DEF Take, Goto, worker, seen
<1>6. ASSUME NEW i \in DOMAIN threads[l]
      PROVE  /\ Failed(l, i)' <=> Failed(l, i)
             /\ MayAsk(l, i)' => MayAsk(l, i)
  <2>1. PICK w : w = threads[l][i] OBVIOUS
  <2>2. w \in Workers /\ threads'[l][i] = w BY <1>2, <2>1, Spread
  <2>3. Signalled(l, i)' <=> Signalled(l, i) BY <1>0, <1>1, RunsInLoop
  <2>4. CASE w = e
    <3>1. job[e] = l BY <1>0, <2>2, <2>4 DEF JobOf
    <3>2. pc'[e] \in {"call", "clear"} BY <1>5, <2>2, <2>4 DEF AfterJob
    <3> QED BY <1>2, <1>5, <2>1, <2>2, <2>3, <2>4, <3>1, <3>2
            DEF Failed, Begun, Unbegun, MayAsk, Asks
  <2>5. CASE w # e
    <3>1. pc'[w] = pc[w] BY <1>0, <1>1, <2>2, <2>5, RunsInLoop
    <3> QED BY <1>2, <1>5, <2>1, <2>2, <2>3, <3>1 DEF Failed, Begun, Unbegun, MayAsk, Asks
  <2> QED BY <2>4, <2>5
<1>7. Numbered(l)' /\ Told(l)'
  <2>1. /\ index'[l] = index[l] /\ failure'[l] = failure[l] /\ threw'[l] = threw[l]
        /\ performs'[l] = performs[l] /\ threads'[l] = threads[l]
    BY <1>2, <1>5
  <2> QED BY <1>2, <1>6, <2>1, KeepsNumbers
<1>8. Yet(l)' \subseteq Yet(l)
  <2>1. pc'[l] \in {"wake", "signal", "take", "call", "nested"} =>
           pc[l] \in {"wake", "signal", "take", "call", "nested"}
    BY <1>2, <1>5
  <2> QED BY <1>2, <1>6, <2>1 DEF Yet
<1>9. /\ IsFiniteSet(Yet(l)) /\ Cardinality(Yet(l)) \in 0 .. Len(threads[l]) + 1
      /\ Len(threads[l]) \in Nat
  BY <1>2, Spread
<1>10. /\ range[l] \in Ranges
       /\ it[l] + Cardinality(Yet(l)) <= Most(range[l]) + Len(threads[l]) + 1
       /\ pc[l] \in Ended => threw[l] \/ it[l] >= range[l].end
  BY <1>2 DEF Loops, InLoop, Counted
<1>11. Most(range[l]) \in Int BY <1>4 DEF Most
<1>12. Cardinality(Yet(l)') \in Nat /\ Cardinality(Yet(l)') <= Cardinality(Yet(l))
  BY <1>8, <1>9, FS_Subset, FS_CardinalityType
<1>13. Counted(l)'
  <2>1. CASE it[l] < range[l].end /\ pc'[e] = "call"
    <3>1. it[l] + 1 <= Most(range[l]) BY <1>4, <2>1 DEF Most
    <3>2. it[l] + 1 + Cardinality(Yet(l)') <= Most(range[l]) + Len(threads[l]) + 1
      BY <1>4, <1>9, <1>11, <1>12, <3>1
    <3>3. pc'[l] \in Ended => threw[l]
      <4>1. CASE e = l BY <2>1, <4>1 DEF Ended
      <4>2. CASE e # l BY <1>2, <1>4, <1>10, <2>1, <4>2
      <4> QED BY <4>1, <4>2
    <3> QED BY <1>2, <1>4, <1>5, <1>10, <3>2, <3>3 DEF Counted, Most
  <2>2. CASE ~(it[l] < range[l].end) /\ pc'[e] = AfterJob(e)
    <3>1. k \notin Yet(l)'
      <4>1. CASE e = l /\ k = Len(threads[l]) + 1
        <5>1. pc'[l] = "join" BY <1>2, <2>2, <4>1, Processes DEF AfterJob
        <5>2. k \notin DOMAIN threads'[l] BY <1>2, <4>1, Spread
        <5> QED BY <5>1, <5>2 DEF Yet
      <4>2. CASE k \in DOMAIN threads[l] /\ e = threads[l][k]
        <5>1. e \in Workers BY <1>2, <4>2, Spread
        <5>2. pc'[e] = "clear" BY <2>2, <5>1 DEF AfterJob
        <5>3. Signalled(l, k)' BY <1>0, <1>1, <1>3, <4>2, <5>1, RunsInLoop
        <5>4. threads'[l] = threads[l] /\ k \in DOMAIN threads'[l] /\ e = threads'[l][k]
          BY <1>2, <4>2
        <5>5. ~Asks(e, l)' BY <5>2 DEF Asks
        <5>6. ~MayAsk(l, k)' BY <5>3, <5>4, <5>5 DEF MayAsk
        <5> QED BY <5>4, <5>6 DEF Yet
      <4> QED BY <1>3, <4>1, <4>2 DEF At
    <3>2. Yet(l)' \subseteq Yet(l) \ {k} BY <1>8, <3>1
    <3>3. /\ IsFiniteSet(Yet(l) \ {k})
          /\ Cardinality(Yet(l) \ {k}) = Cardinality(Yet(l)) - 1
      BY <1>3, <1>9, FS_RemoveElement
    <3>4. Cardinality(Yet(l)') <= Cardinality(Yet(l)) - 1 BY <3>2, <3>3, FS_Subset
    <3>5. it[l] + 1 + Cardinality(Yet(l)') <= Most(range[l]) + Len(threads[l]) + 1
      BY <1>4, <1>9, <1>10, <1>11, <1>12, <3>4
    <3> QED BY <1>2, <1>4, <1>5, <1>10, <2>2, <3>5 DEF Counted, Most
  <2> QED BY <1>5, <2>1, <2>2
<1>14. InLoop(l)' BY <1>7, <1>13 DEF InLoop
<1> QED BY <1>0, <1>1, <1>14, RunsInLoop

\* A launcher that is not in a loop steps, and a call goes into a nested
\* launcher or comes back from it.
LEMMA OthersGoOn ==
    ASSUME Kept, Loops, NEW l \in Launchers, UNCHANGED job,
           \A m \in Launchers \ {l} :
              /\ threads'[m] = threads[m] /\ pos'[m] = pos[m]
              /\ index'[m] = index[m] /\ failure'[m] = failure[m]
              /\ range'[m] = range[m] /\ it'[m] = it[m]
              /\ threw'[m] = threw[m] /\ performs'[m] = performs[m],
           \A q \in (Launchers \ {l}) \cup Workers :
              pc'[q] = pc[q] \/ {pc[q], pc'[q]} \subseteq {"call", "nested"},
           \A w \in Workers : failure'[w] = failure[w] /\ (index'[w] = index[w] \/ usage[w] = 0)
    PROVE  \A m \in Launchers \ {l} : InLoop(m)'
<1>1. SUFFICES ASSUME NEW m \in Launchers \ {l} PROVE InLoop(m)' OBVIOUS
<1>2. Moves(m) BY DEF Moves, Still, Active
<1>3. /\ pc'[m] \in Ended => pc[m] \in Ended
      /\ pc'[m] \in {"wake", "signal", "take", "call", "nested"} =>
           pc[m] \in {"wake", "signal", "take", "call", "nested"}
  BY DEF Ended
<1>4. ASSUME NEW i \in DOMAIN threads[m], Holds(m, i)
      PROVE  /\ index'[threads[m][i]] = index[threads[m][i]]
             /\ Failed(m, i)' <=> Failed(m, i)
             /\ MayAsk(m, i)' => MayAsk(m, i)
  <2>1. PICK w : w = threads[m][i] OBVIOUS
  <2>2. w \in Workers /\ threads'[m][i] = w /\ usage[w] # 0
    BY <1>4, <2>1, OnePlace DEF Kept, Safe, Apart
  <2>3. Signalled(m, i)' <=> Signalled(m, i) BY DEF Signalled
  <2>4. index'[w] = index[w] /\ failure'[w] = failure[w] BY <2>2
  <2>5. pc'[w] = pc[w] \/ {pc[w], pc'[w]} \subseteq {"call", "nested"} BY <2>2
  <2>6. (Unbegun(w, m)' <=> Unbegun(w, m)) /\ (Asks(w, m)' <=> Asks(w, m))
    BY <2>5 DEF Unbegun, Asks
  <2> QED BY <2>1, <2>2, <2>3, <2>4, <2>6 DEF Failed, Begun, MayAsk
<1> QED BY <1>2, <1>3, <1>4, GoesOn

LEMMA PerformLoops ==
    ASSUME Kept, Loops, FirstFailure, NEW l \in Launchers, NEW r \in Ranges, Perform(l, r)
    PROVE  \A m \in Launchers : InLoop(m)'
<1>1. /\ UNCHANGED <<threads, index, failure, job>>
      /\ pc[l] = "ready" /\ performs[l] < MaxPerforms
      /\ performs' = [performs EXCEPT ![l] = performs[l] + 1]
      /\ range' = [range EXCEPT ![l] = r] /\ it' = [it EXCEPT ![l] = r.begin]
      /\ threw' = [threw EXCEPT ![l] = FALSE] /\ pos' = [pos EXCEPT ![l] = 1]
      /\ pc' = [pc EXCEPT ![l] = "wake"]
  BY DEF Perform, Goto, worker
<1>2. /\ pc'[l] = "wake" /\ pos'[l] = 1
      /\ \A q \in (Launchers \ {l}) \cup Workers : pc'[q] = pc[q]
      /\ \A m \in Launchers \ {l} : pos'[m] = pos[m]
  BY <1>1, Processes DEF Kept, Safe, Typed, Executors
<1>3. /\ range'[l] = r /\ it'[l] = r.begin /\ ~threw'[l]
      /\ performs[l] \in Nat /\ performs'[l] = performs[l] + 1
      /\ \A m \in Launchers \ {l} : /\ range'[m] = range[m] /\ it'[m] = it[m]
                                    /\ threw'[m] = threw[m] /\ performs'[m] = performs[m]
  BY <1>1 DEF Kept, TypeOK, Loops, Tables
<1>4. Numbered(l) /\ Told(l) BY DEF Loops, InLoop
<1>5. Len(threads[l]) \in Nat /\ DOMAIN threads[l] = 1 .. Len(threads[l]) BY Spread
<1>6. Numbered(l)'
  <2>1. \A i \in DOMAIN threads[l] : Holds(l, i) BY <1>1 DEF Holds
  <2> QED BY <1>1, <1>2, <1>4, <2>1 DEF Numbered
<1>7. Told(l)'
  <2>1. ~failure[l]
    <3> SUFFICES ASSUME failure[l] PROVE FALSE OBVIOUS
    <3>1. l \in Throwers /\ performs[l] >= 1 BY <1>4 DEF Told
    <3> QED BY <1>1, <1>3, <3>1 DEF FirstFailure
  <2>2. \A i \in DOMAIN threads[l] : ~Signalled(l, i)' BY <1>2, <1>5 DEF Signalled
  <2>3. ~Blamed(l)' BY <1>1, <2>1, <2>2 DEF Blamed, Failed, Begun
  <2>4. failure'[l] = failure[l] BY <1>1
  <2> QED BY <1>3, <2>1, <2>3, <2>4 DEF Told
<1>8. Counted(l)'
  <2>1. Yet(l)' \subseteq 1 .. Len(threads[l]) + 1 BY <1>1 DEF Yet
  <2>2. /\ IsFiniteSet(1 .. Len(threads[l]) + 1)
        /\ Cardinality(1 .. Len(threads[l]) + 1) = Len(threads[l]) + 1
    BY <1>5, FS_Interval
  <2>3. Cardinality(Yet(l)') <= Len(threads[l]) + 1 BY <2>1, <2>2, FS_Subset
  <2>4. Cardinality(Yet(l)') \in Nat BY <2>1, <2>2, FS_Subset, FS_CardinalityType
  <2>5. r.begin \in Int /\ r.end \in Int BY SizeAssumption
  <2>6. r.begin <= Most(r) /\ Most(r) \in Int BY <2>5 DEF Most
  <2>7. r.begin + Cardinality(Yet(l)') <= Most(r) + Len(threads[l]) + 1
    BY <1>5, <2>3, <2>4, <2>5, <2>6
  <2>8. Most(range[l])' = Most(r) BY <1>3 DEF Most
  <2>9. threads'[l] = threads[l] BY <1>1
  <2>10. pc'[l] \notin Ended BY <1>2 DEF Ended
  <2> QED BY <1>3, <2>5, <2>7, <2>8, <2>9, <2>10 DEF Counted
<1>9. InLoop(l)' BY <1>6, <1>7, <1>8 DEF InLoop
<1>10. \A m \in Launchers \ {l} : InLoop(m)'
  BY <1>1, <1>2, <1>3, OthersGoOn
<1> QED BY <1>9, <1>10

LEMMA LeaveLoops ==
    ASSUME Kept, Loops, NEW l \in Launchers, Report(l) \/ Release(l)
    PROVE  \A m \in Launchers : InLoop(m)'
<1>1. /\ UNCHANGED <<threads, index, failure, job, range, it, threw, performs>>
      /\ \/ pc[l] = "report" /\ pc' = [pc EXCEPT ![l] = "ready"]
         \/ pc[l] = "ready" /\ pc' = [pc EXCEPT ![l] = "free"]
      /\ pos' = pos \/ pos' = [pos EXCEPT ![l] = 1]
  BY DEF Report, Release, Goto, worker, launcher, seen, count
<1>2. /\ \/ pc[l] = "report" /\ pc'[l] = "ready"
         \/ pc[l] = "ready" /\ pc'[l] = "free"
      /\ \A q \in (Launchers \ {l}) \cup Workers : pc'[q] = pc[q]
      /\ \A m \in Launchers \ {l} : pos'[m] = pos[m]
  BY <1>1, Processes DEF Kept, Safe, Typed, Executors
<1>3. Numbered(l) /\ Told(l) BY DEF Loops, InLoop
<1>4. Numbered(l)'
  <2>1. \A i \in DOMAIN threads[l] : Holds(l, i) BY <1>2 DEF Holds
  <2> QED BY <1>1, <1>2, <1>3, <2>1 DEF Numbered, Active
<1>5. InLoop(l)'
  <2>1. pc'[l] \notin Active BY <1>2 DEF Active
  <2> QED BY <1>1, <1>3, <1>4, <2>1, NotInLoop DEF Told
<1>6. \A m \in Launchers \ {l} : InLoop(m)' BY <1>1, <1>2, OthersGoOn
<1> QED BY <1>5, <1>6

LEMMA ConstructLoops ==
    ASSUME Kept, Loops, NEW l \in Launchers, NEW max, NEW e,
           New(l, max) \/ (e \in Executors /\ Nest(e, l, max))
    PROVE  \A m \in Launchers : InLoop(m)'
<1>1. /\ UNCHANGED <<index, job, range, it, threw>> /\ pc[l] = "none"
      /\ threads' = [threads EXCEPT ![l] = << >>] /\ pos' = [pos EXCEPT ![l] = 1]
      /\ failure' = [failure EXCEPT ![l] = FALSE] /\ performs' = [performs EXCEPT ![l] = 0]
  BY DEF New, Nest, Construct, seen
<1>2. /\ pc'[l] = "lock"
      /\ \A q \in (Launchers \ {l}) \cup Workers :
            pc'[q] = pc[q] \/ {pc[q], pc'[q]} \subseteq {"call", "nested"}
  <2>1. CASE New(l, max)
    <3>1. pc' = [pc EXCEPT ![l] = "lock"] BY <2>1 DEF New, Goto
    <3> QED BY <3>1, Processes DEF Kept, Safe, Typed, Executors
  <2>2. CASE e \in Executors /\ Nest(e, l, max)
    <3>1. pc[e] = "call" /\ e # l /\ pc' = [pc EXCEPT ![e] = "nested", ![l] = "lock"]
      BY <1>1, <2>2 DEF Nest
    <3> QED BY <2>2, <3>1, Processes DEF Kept, Safe, Typed, Executors
  <2> QED BY <2>1, <2>2
<1>3. /\ threads'[l] = << >> /\ ~failure'[l]
      /\ \A m \in Launchers \ {l} : /\ threads'[m] = threads[m] /\ pos'[m] = pos[m]
                                    /\ failure'[m] = failure[m] /\ performs'[m] = performs[m]
      /\ \A w \in Workers : failure'[w] = failure[w]
  <2>1. /\ threads'[l] = << >>
        /\ \A m \in Launchers \ {l} : threads'[m] = threads[m] /\ pos'[m] = pos[m]
    BY <1>1 DEF Kept, Safe, Typed
  <2>2. ~failure'[l] /\ \A x \in Executors : x # l => failure'[x] = failure[x]
    BY <1>1 DEF Kept, TypeOK, Executors
  <2>3. \A m \in Launchers \ {l} : performs'[m] = performs[m] BY <1>1 DEF Loops, Tables
  <2> QED BY <2>1, <2>2, <2>3, Processes DEF Executors
<1>4. Numbered(l)'
  <2>1. DOMAIN threads'[l] = {} BY <1>3
  <2> QED BY <1>2, <2>1 DEF Numbered, Active
<1>5. InLoop(l)'
  <2>1. pc'[l] \notin Active BY <1>2 DEF Active
  <2> QED BY <1>3, <1>4, <2>1, NotInLoop
<1>6. \A m \in Launchers \ {l} : InLoop(m)' BY <1>1, <1>2, <1>3, OthersGoOn
<1> QED BY <1>5, <1>6

LEMMA FreeNextLoops ==
    ASSUME Kept, Loops, NEW l \in Launchers, FreeNext(l)
    PROVE  \A m \in Launchers : InLoop(m)'
<1>1. UNCHANGED <<index, failure, job, range, it, threw, performs>> /\ pc[l] = "free"
  BY DEF FreeNext, seen, count
<1>2. Numbered(l) /\ Told(l) BY DEF Loops, InLoop
<1>3. CASE /\ pos' = [pos EXCEPT ![l] = @ + 1] /\ UNCHANGED <<threads, pc>>
  <2>1. /\ pos[l] \in Nat /\ pos'[l] = pos[l] + 1
        /\ \A m \in Launchers \ {l} : pos'[m] = pos[m]
    BY <1>3 DEF Kept, Safe, Typed
  <2>2. Numbered(l)'
    <3>1. ASSUME NEW i \in DOMAIN threads[l], Holds(l, i)' PROVE Holds(l, i)
      <4>1. i \in Nat BY Spread
      <4> QED BY <1>1, <1>3, <2>1, <3>1, <4>1 DEF Holds
    <3> QED BY <1>1, <1>2, <1>3, <3>1 DEF Numbered
  <2>3. InLoop(l)'
    <3>1. pc'[l] \notin Active BY <1>1, <1>3 DEF Active
    <3> QED BY <1>1, <1>2, <2>2, <3>1, NotInLoop DEF Told
  <2>4. \A m \in Launchers \ {l} : InLoop(m)' BY <1>1, <1>3, <2>1, OthersGoOn
  <2> QED BY <2>3, <2>4
<1>4. CASE /\ pos' = pos /\ threads' = [threads EXCEPT ![l] = << >>]
           /\ pc' = IF parent[l] = Nobody THEN [pc EXCEPT ![l] = "none"]
                    ELSE [pc EXCEPT ![l] = "none", ![parent[l]] = "call"]
  <2>0. PICK e : e = parent[l] OBVIOUS
  <2>1. e \in Executors => pc[e] = "nested"
    BY <2>0 DEF Executors, Kept, WorkersWait, Safe, Waits
  <2>2. e \in Executors \cup {Nobody} BY <2>0 DEF Kept, Safe, Typed
  <2>3. /\ pc'[l] = "none"
        /\ \A q \in (Launchers \ {l}) \cup Workers :
              pc'[q] = pc[q] \/ {pc[q], pc'[q]} \subseteq {"call", "nested"}
    <3>1. CASE e = Nobody
      <4>1. pc' = [pc EXCEPT ![l] = "none"] BY <1>4, <2>0, <3>1
      <4> QED BY <4>1, Processes DEF Kept, Safe, Typed, Executors
    <3>2. CASE e # Nobody
      <4>1. pc' = [pc EXCEPT ![l] = "none", ![e] = "call"] BY <1>4, <2>0, <3>2
      <4>2. pc[e] = "nested" /\ e # l BY <1>1, <2>1, <2>2, <3>2
      <4> QED BY <4>1, <4>2, Processes DEF Kept, Safe, Typed, Executors
    <3> QED BY <3>1, <3>2
  <2>4. threads'[l] = << >> /\ \A m \in Launchers \ {l} : threads'[m] = threads[m]
    BY <1>4 DEF Kept, Safe, Typed
  <2>5. Numbered(l)'
    <3>1. DOMAIN threads'[l] = {} BY <2>4
    <3> QED BY <2>3, <3>1 DEF Numbered, Active
  <2>6. InLoop(l)'
    <3>1. pc'[l] \notin Active BY <2>3 DEF Active
    <3> QED BY <1>1, <1>2, <2>5, <3>1, NotInLoop DEF Told
  <2>7. \A m \in Launchers \ {l} : InLoop(m)' BY <1>1, <1>4, <2>3, <2>4, OthersGoOn
  <2> QED BY <2>6, <2>7
<1> QED BY <1>3, <1>4 DEF FreeNext

LEMMA LockNextLoops ==
    ASSUME Kept, Loops, NEW l \in Launchers, LockNext(l)
    PROVE  \A m \in Launchers : InLoop(m)'
<1>0. PICK v : v = pos[l] OBVIOUS
<1>1. /\ UNCHANGED <<failure, job, range, it, threw, performs>> /\ pc[l] = "lock"
      /\ pos' = pos \/ pos' = [pos EXCEPT ![l] = @ + 1]
      /\ \/ /\ index' = [index EXCEPT ![l] = Len(threads[l])]
            /\ threads' = threads /\ pc' = [pc EXCEPT ![l] = "ready"]
         \/ UNCHANGED <<threads, index, pc>>
         \/ /\ v <= size /\ usage[v] = 0
            /\ threads' = [threads EXCEPT ![l] = Append(threads[l], v)]
            /\ index' = [index EXCEPT ![v] = Len(threads[l])] /\ pc' = pc
  BY <1>0 DEF LockNext, Lockable, Indexed, Goto, seen, count
<1>2. /\ pc'[l] \in {"lock", "ready"}
      /\ \A q \in (Launchers \ {l}) \cup Workers : pc'[q] = pc[q]
  BY <1>1, Processes DEF Kept, Safe, Typed, Executors
<1>3. \A m \in Launchers \ {l} : pos'[m] = pos[m] /\ threads'[m] = threads[m]
  BY <1>1 DEF Kept, Safe, Typed
<1>4. v <= size => v \in Workers
  <2>1. v \in Nat \ {0} /\ size \in 0 .. MaxSize BY <1>0 DEF Kept, Safe, Typed
  <2> QED BY <2>1, Processes DEF Workers
<1>5. /\ \A m \in Launchers \ {l} : index'[m] = index[m]
      /\ \A w \in Workers : index'[w] = index[w] \/ usage[w] = 0
  BY <1>1, <1>4, Processes DEF Kept, TypeOK, Executors
<1>6. Numbered(l) /\ Told(l) BY DEF Loops, InLoop
<1>7. threads[l] \in Seq(Workers) /\ \A i \in DOMAIN threads[l] : Holds(l, i)
  BY <1>1, Spread DEF Holds
<1>8. Numbered(l)'
  <2>1. CASE UNCHANGED <<threads, index, pc>> BY <1>1, <1>6, <1>7, <2>1 DEF Numbered, Active
  <2>2. CASE /\ index' = [index EXCEPT ![l] = Len(threads[l])]
             /\ threads' = threads /\ pc' = [pc EXCEPT ![l] = "ready"]
    <3>1. index'[l] = Len(threads[l]) BY <2>2 DEF Kept, TypeOK, Executors
    <3>2. \A i \in DOMAIN threads[l] : threads[l][i] \in Workers BY Spread
    <3>3. \A w \in Workers : index'[w] = index[w]
      BY <2>2, Processes DEF Kept, TypeOK, Executors
    <3> QED BY <1>6, <1>7, <2>2, <3>1, <3>2, <3>3 DEF Numbered
  <2>3. CASE /\ v <= size /\ usage[v] = 0
             /\ threads' = [threads EXCEPT ![l] = Append(threads[l], v)]
             /\ index' = [index EXCEPT ![v] = Len(threads[l])] /\ pc' = pc
    <3>1. v \in Workers /\ threads'[l] = Append(threads[l], v)
      BY <1>4, <2>3 DEF Kept, Safe, Typed
    <3>2. index'[v] = Len(threads[l]) BY <2>3, <3>1 DEF Kept, TypeOK, Executors
    <3>3. pc'[l] \notin Active \cup {"ready"} BY <1>1, <2>3 DEF Active
    <3>4. ASSUME NEW i \in DOMAIN threads'[l] PROVE index'[threads'[l][i]] = i - 1
      <4>1. CASE i = Len(threads[l]) + 1
        <5>1. threads'[l][i] = v BY <1>7, <3>1, <4>1
        <5>2. i - 1 = Len(threads[l]) BY <1>7, <4>1
        <5> QED BY <3>2, <5>1, <5>2
      <4>2. CASE i # Len(threads[l]) + 1
        <5>0. PICK w : w = threads[l][i] OBVIOUS
        <5>1. i \in DOMAIN threads[l] /\ threads'[l][i] = w
          BY <1>7, <3>1, <3>4, <4>2, <5>0
        <5>2. w \in Workers /\ usage[w] # 0
          BY <1>7, <5>0, <5>1, OnePlace DEF Kept, Safe, Apart
        <5>3. index[w] = i - 1 BY <1>6, <1>7, <5>0, <5>1 DEF Numbered
        <5>4. index'[w] = index[w] BY <2>3, <5>2 DEF Kept, TypeOK, Executors
        <5> QED BY <5>1, <5>3, <5>4
      <4> QED BY <4>1, <4>2
    <3> QED BY <3>3, <3>4 DEF Numbered
  <2> QED BY <1>1, <2>1, <2>2, <2>3
<1>9. InLoop(l)'
  <2>1. pc'[l] \notin Active BY <1>2 DEF Active
  <2> QED BY <1>1, <1>6, <1>8, <2>1, NotInLoop DEF Told
<1>10. \A m \in Launchers \ {l} : InLoop(m)' BY <1>1, <1>2, <1>3, <1>5, OthersGoOn
<1> QED BY <1>9, <1>10

-----------------------------------------------------------------------------
(* The invariant.                                                          *)

LEMMA InitLoops == Init => Loops
<1> SUFFICES ASSUME Init PROVE Loops OBVIOUS
<1> USE Processes DEF Init
<1>1. Tables BY DEF Tables
<1>2. \A l \in Launchers : threads[l] = << >> /\ pc[l] = "none" /\ ~failure[l]
  BY DEF Executors
<1>3. ASSUME NEW l \in Launchers PROVE InLoop(l)
  <2>1. Numbered(l)
    <3>1. DOMAIN threads[l] = {} BY <1>2
    <3> QED BY <1>2, <3>1 DEF Numbered, Active
  <2>2. pc[l] \notin Active BY <1>2 DEF Active
  <2> QED BY <1>2, <2>1, <2>2 DEF InLoop, Counted, Told
<1> QED BY <1>1, <1>3 DEF Loops

LEMMA NextLoops ==
    ASSUME Room, FirstFailure, Kept, Loops, [Next]_vars
    PROVE  Loops'
<1>1. Tables' BY TablesKept DEF Loops
<1>2. CASE UNCHANGED vars
  <2>1. UNCHANGED <<threads, index, failure, range, it, threw, performs, pos, pc, started,
                    wakeEvent, idleEvent, job>>
    BY <1>2 DEF vars, worker, launcher, seen, count
  <2>2. \A m \in Launchers : Still(m) BY <2>1 DEF Still
  <2>3. \A w \in Workers : Same(w) BY <2>1 DEF Same
  <2>4. \A m \in Launchers : \A i \in DOMAIN threads[m] : Same(threads[m][i]) BY <2>3, Spread
  <2> QED BY <1>1, <2>1, <2>2, <2>4, BesideLoops DEF Loops
<1>3. ASSUME NEW l \in Launchers, NEW max, New(l, max) \/ \E e \in Executors : Nest(e, l, max)
      PROVE  \A m \in Launchers : InLoop(m)'
  BY <1>3, ConstructLoops
<1>4. ASSUME NEW l \in Launchers,
             \/ LockNext(l) \/ WakeJob(l) \/ Signal(l) \/ Join(l) \/ ResetIdle(l)
             \/ Report(l) \/ Release(l) \/ FreeNext(l) \/ \E r \in Ranges : Perform(l, r)
      PROVE  \A m \in Launchers : InLoop(m)'
  BY <1>4, LockNextLoops, ServeLoops, LeaveLoops, FreeNextLoops, PerformLoops
<1>5. ASSUME NEW e \in Executors, Runs(e) PROVE \A m \in Launchers : InLoop(m)'
  BY <1>5, TakeLoops, ReturnsLoops, ThrowsLoops DEF Runs
<1>6. CASE Next
  <2>1. \A m \in Launchers : InLoop(m)'
    BY <1>3, <1>4, <1>5, <1>6, WorkerLoops, ProbeLoops, OwnerLoops
       DEF Next, LauncherStep, WorkerStep, Executors
  <2> QED BY <1>1, <2>1 DEF Loops
<1> QED BY <1>2, <1>6

-----------------------------------------------------------------------------
(* Each step is one of ParallelFor, or none.                               *)

Calling(x) == pc[x] \in {"call", "nested"}

LEMMA SameCalls ==
    ASSUME \A x \in Executors :
              /\ Calling(x)' <=> Calling(x)
              /\ Calling(x) => JobOf(x)' = JobOf(x) /\ index'[x] = index[x] /\ cur'[x] = cur[x]
    PROVE  \A m \in Launchers : CallsOf(m)' = CallsOf(m)
<1>1. ASSUME NEW m \in Launchers PROVE CallsOf(m)' = CallsOf(m)
  <2>1. Callers(m)' = Callers(m) BY DEF Callers, Calling
  <2>2. \A x \in Callers(m) : index'[x] = index[x] /\ cur'[x] = cur[x]
    BY DEF Callers, Calling
  <2> QED BY <2>1, <2>2 DEF CallsOf
<1> QED BY <1>1

LEMMA SamePhase ==
    ASSUME NEW m \in Launchers, pc'[m] \in Active <=> pc[m] \in Active,
           pc[m] \in Active => range'[m] = range[m] /\ it'[m] = it[m]
    PROVE  PhaseOf(m)' = PhaseOf(m) /\ LeftOf(m)' = LeftOf(m)
  BY DEF PhaseOf, LeftOf

\* Nothing happens that ParallelFor could see.
LEMMA Unseen ==
    ASSUME UNCHANGED <<range, it, threw, outcome, cur>>,
           \A m \in Launchers : pc'[m] \in Active <=> pc[m] \in Active,
           \A x \in Executors :
              /\ Calling(x)' <=> Calling(x)
              /\ Calling(x) => JobOf(x)' = JobOf(x) /\ index'[x] = index[x]
    PROVE  UNCHANGED Loop!vars
<1>1. \A m \in Launchers : CallsOf(m)' = CallsOf(m) BY SameCalls
<1>2. \A m \in Launchers : PhaseOf(m)' = PhaseOf(m) /\ LeftOf(m)' = LeftOf(m) BY SamePhase
<1> QED BY <1>1, <1>2, AbstractStutter

\* A worker in a call is somebody's, and awake.
LEMMA CallingHeld ==
    ASSUME Kept, NEW w \in Workers, Calling(w)
    PROVE  usage[w] # 0 /\ ~Asleep(w) /\ ~Releasing /\ w \in Executors
<1>1. PICK l \in Launchers : \E k \in DOMAIN threads[l] : Holds(l, k) /\ threads[l][k] = w
  <2>1. w \in Executors /\ pc[w] \in {"take", "call", "nested"} BY DEF Executors, Calling
  <2>2. PICK l : l = JobOf(w) OBVIOUS
  <2>3. PICK k \in DOMAIN threads[l] : At(l, k, w) BY <2>1, <2>2, Place
  <2>4. l \in Launchers BY <2>1, <2>2, Place
  <2>5. Holds(l, k) /\ threads[l][k] = w BY <2>3, <2>4, Processes DEF At
  <2> QED BY <2>4, <2>5
<1>2. l \in Holders(w) /\ ~Releasing BY <1>1, OnePlace DEF Kept
<1>3. usage[w] # 0 BY <1>2 DEF Kept, Safe, Apart
<1>4. ~Asleep(w) BY DEF Asleep, Calling
<1> QED BY <1>2, <1>3, <1>4 DEF Executors

LEMMA WorkerUnseen ==
    ASSUME Kept, NEW w \in Workers,
           WaitWake(w) \/ ResetWake(w) \/ BeginJob(w) \/ ClearJob(w) \/ SetIdle(w)
    PROVE  UNCHANGED Loop!vars
<1>1. /\ UNCHANGED <<range, it, threw, outcome, cur, index>>
      /\ job' = job \/ job' = [job EXCEPT ![w] = Nobody]
      /\ \E to \in {"reset", "exited", "begin", "idle", "take", "wait"} :
            pc' = [pc EXCEPT ![w] = to]
      /\ pc[w] \in {"wait", "reset", "begin", "clear", "idle"}
  BY DEF WaitWake, ResetWake, AfterWake, BeginJob, ClearJob, SetIdle, Goto, worker, launcher, seen
<1>2. w \in DOMAIN pc BY DEF Kept, Safe, Typed, Executors
<1>3. /\ ~Calling(w) /\ ~Calling(w)'
      /\ \A q \in Executors : q # w => pc'[q] = pc[q]
  BY <1>1, <1>2 DEF Calling, Kept, Safe, Typed, Executors
<1>4. \A m \in Launchers : pc'[m] = pc[m] BY <1>3, Processes DEF Executors
<1>5. \A x \in Executors : x # w => JobOf(x)' = JobOf(x)
  BY <1>1 DEF JobOf, Kept, TypeOK
<1> QED BY <1>1, <1>3, <1>4, <1>5, Unseen DEF Calling

LEMMA ProbeUnseen ==
    ASSUME Kept, NEW p \in Probes, IsInUse(p) \/ ProbeStep(p)
    PROVE  UNCHANGED Loop!vars
<1>1. /\ UNCHANGED <<range, it, threw, outcome, cur, index, job>>
      /\ pc' = pc \/ \E to : pc' = [pc EXCEPT ![p] = to]
  BY DEF IsInUse, ProbeStep, ProbeNext, ProbeFree, Goto, worker, launcher, seen
<1>2. \A q \in Executors : pc'[q] = pc[q]
  BY <1>1, Processes DEF Kept, Safe, Typed, Executors
<1>3. \A m \in Launchers : pc'[m] = pc[m] BY <1>2 DEF Executors
<1>4. \A x \in Executors : JobOf(x)' = JobOf(x) BY <1>1 DEF JobOf
<1> QED BY <1>1, <1>2, <1>3, <1>4, Unseen DEF Calling

LEMMA OwnerUnseen ==
    ASSUME Kept, (\E n \in Sizes : Reinit(n)) \/ OwnerStep
    PROVE  UNCHANGED Loop!vars
<1>1. CASE (\E n \in Sizes : Reinit(n)) \/ ReinitLock \/ ReinitUnlock \/ ReleaseJoin \/ ReleaseWake
  <2>1. /\ UNCHANGED <<range, it, threw, outcome, cur, index>>
        /\ job' = job \/ (Releasing /\ job' = [job EXCEPT ![pos[Owner]] = Nobody])
        /\ pc' = pc \/ \E to : pc' = [pc EXCEPT ![Owner] = to]
    <3>1. CASE \E n \in Sizes : Reinit(n)
      BY <3>1 DEF Reinit, Goto, worker, launcher, seen
    <3>2. CASE ReinitLock BY <3>2 DEF ReinitLock, Goto, launcher, seen
    <3>3. CASE ReinitUnlock BY <3>3 DEF ReinitUnlock, Goto, launcher, seen
    <3>4. CASE ReleaseJoin BY <3>4 DEF ReleaseJoin, Goto, worker, launcher, seen
    <3>5. CASE ReleaseWake BY <3>5 DEF ReleaseWake, Releasing, Goto, launcher, seen
    <3> QED BY <1>1, <3>1, <3>2, <3>3, <3>4, <3>5
  <2>2. \A q \in Executors : pc'[q] = pc[q]
    BY <2>1, Processes DEF Kept, Safe, Typed, Executors
  <2>3. \A m \in Launchers : pc'[m] = pc[m] BY <2>2 DEF Executors
  <2>4. ASSUME NEW x \in Executors, Calling(x) PROVE JobOf(x)' = JobOf(x)
    <3>1. CASE x \in Workers
      <4>1. ~Releasing BY <2>4, <3>1, CallingHeld
      <4> QED BY <2>1, <4>1 DEF JobOf
    <3>2. CASE x \notin Workers BY <3>2 DEF JobOf
    <3> QED BY <3>1, <3>2
  <2> QED BY <2>1, <2>2, <2>3, <2>4, Unseen DEF Calling
<1>2. CASE Resize
  <2>1. /\ UNCHANGED <<range, it, threw, outcome, cur>> /\ Releasing
        /\ \A m \in Launchers : index'[m] = index[m] /\ pc'[m] = pc[m]
        /\ \A w \in Workers : pc'[w] = "off"
    BY <1>2, Processes DEF Resize, Releasing, launcher, seen, Kept, Safe, Typed, Executors
  <2>2. ASSUME NEW x \in Executors
        PROVE  /\ Calling(x)' <=> Calling(x)
               /\ Calling(x) => JobOf(x)' = JobOf(x) /\ index'[x] = index[x]
    <3>1. CASE x \in Workers
      <4>1. ~Calling(x) BY <2>1, <3>1, CallingHeld
      <4>2. ~Calling(x)' BY <2>1, <3>1 DEF Calling
      <4> QED BY <4>1, <4>2
    <3>2. CASE x \in Launchers BY <2>1, <3>2, Processes DEF Calling, JobOf
    <3> QED BY <3>1, <3>2 DEF Executors
  <2> QED BY <2>1, <2>2, Unseen
<1> QED BY <1>1, <1>2 DEF OwnerStep

\* A launcher's steps outside its loop, and those that serve its workers.
LEMMA LauncherUnseen ==
    ASSUME Kept, NEW l \in Launchers, NEW max,
           \/ New(l, max) \/ \E e \in Executors : Nest(e, l, max)
           \/ LockNext(l) \/ WakeJob(l) \/ Signal(l) \/ Join(l) \/ ResetIdle(l)
           \/ Release(l) \/ FreeNext(l)
    PROVE  UNCHANGED Loop!vars
<1>0. l \in DOMAIN pc /\ l \in Executors /\ l \notin Workers
  BY Processes DEF Kept, Safe, Typed, Executors
<1>1. UNCHANGED <<range, it, threw, outcome, cur>>
  BY DEF New, Nest, Construct, LockNext, WakeJob, Signal, Join, ResetIdle, Release, FreeNext,
         worker, launcher, seen
<1>2. CASE New(l, max) \/ \E e \in Executors : Nest(e, l, max)
  <2>1. UNCHANGED <<job, index>> /\ pc[l] = "none"
    BY <1>2 DEF New, Nest, Construct
  <2>2. PICK e \in Executors \cup {Nobody} :
           \/ e = Nobody /\ pc' = [pc EXCEPT ![l] = "lock"]
           \/ e # Nobody /\ pc[e] = "call" /\ pc' = [pc EXCEPT ![e] = "nested", ![l] = "lock"]
    BY <1>2, Processes DEF New, Nest, Goto, Executors
  <2>3. /\ pc'[l] = "lock"
        /\ \A q \in Executors : q # l =>
              pc'[q] = pc[q] \/ {pc[q], pc'[q]} \subseteq {"call", "nested"}
    BY <1>0, <2>1, <2>2 DEF Kept, Safe, Typed, Executors
  <2>4. \A q \in Executors : Calling(q)' <=> Calling(q) BY <2>1, <2>3 DEF Calling
  <2>5. \A m \in Launchers : pc'[m] \in Active <=> pc[m] \in Active
    BY <2>1, <2>3 DEF Active, Executors
  <2> QED BY <1>1, <2>1, <2>4, <2>5, Unseen DEF JobOf
<1>3. CASE FreeNext(l)
  <2>1. UNCHANGED <<job, index>> /\ pc[l] = "free" BY <1>3 DEF FreeNext
  <2>2. PICK e : e = parent[l] OBVIOUS
  <2>3. e \in Executors \cup {Nobody} /\ (e \in Executors => pc[e] = "nested")
    BY <2>2 DEF Executors, Kept, WorkersWait, Safe, Typed, Waits
  <2>4. \/ pc' = pc
        \/ pc' = [pc EXCEPT ![l] = "none"]
        \/ e # Nobody /\ pc' = [pc EXCEPT ![l] = "none", ![e] = "call"]
    BY <1>3, <2>2 DEF FreeNext
  <2>5. /\ pc'[l] \in {"free", "none"}
        /\ \A q \in Executors : q # l =>
              pc'[q] = pc[q] \/ {pc[q], pc'[q]} \subseteq {"call", "nested"}
    <3>1. CASE pc' = pc \/ pc' = [pc EXCEPT ![l] = "none"]
      BY <1>0, <2>1, <3>1 DEF Kept, Safe, Typed, Executors
    <3>2. CASE e # Nobody /\ pc' = [pc EXCEPT ![l] = "none", ![e] = "call"]
      <4>1. pc[e] = "nested" /\ e # l BY <2>1, <2>3, <3>2
      <4> QED BY <1>0, <3>2, <4>1 DEF Kept, Safe, Typed, Executors
    <3> QED BY <2>4, <3>1, <3>2
  <2>6. \A q \in Executors : Calling(q)' <=> Calling(q) BY <2>1, <2>5 DEF Calling
  <2>7. \A m \in Launchers : pc'[m] \in Active <=> pc[m] \in Active
    BY <2>1, <2>5 DEF Active, Executors
  <2> QED BY <1>1, <2>1, <2>6, <2>7, Unseen DEF JobOf
<1>4. CASE LockNext(l) \/ Join(l) \/ ResetIdle(l) \/ Release(l)
  <2>1. /\ job' = job
        /\ \E from, to : /\ pc[l] = from /\ (pc' = pc \/ pc' = [pc EXCEPT ![l] = to])
                         /\ \/ {from, to} \subseteq {"lock", "ready", "free"}
                            \/ {from, to} \subseteq {"join", "rest", "report"}
    BY <1>4 DEF LockNext, Join, ResetIdle, Release, Goto, worker
  <2>2. /\ \/ {pc[l], pc'[l]} \subseteq {"lock", "ready", "free"}
           \/ {pc[l], pc'[l]} \subseteq {"join", "rest", "report"}
        /\ \A q \in Executors : q # l => pc'[q] = pc[q]
    BY <1>0, <2>1 DEF Kept, Safe, Typed, Executors
  <2>3. \A q \in Executors : Calling(q)' <=> Calling(q) BY <2>2 DEF Calling
  <2>4. \A m \in Launchers : pc'[m] \in Active <=> pc[m] \in Active
    BY <2>2 DEF Active, Executors
  <2>5. ASSUME NEW x \in Executors, Calling(x) PROVE index'[x] = index[x]
    <3>1. CASE LockNext(l)
      <4>1. x # l BY <2>5, <3>1 DEF LockNext, Calling
      <4>2. x \in Workers => usage[x] # 0 BY <2>5, CallingHeld
      <4>3. PICK v : v = pos[l] OBVIOUS
      <4>4. \/ index' = index
            \/ index' = [index EXCEPT ![l] = Len(threads[l])]
            \/ v <= size /\ usage[v] = 0 /\ index' = [index EXCEPT ![v] = Len(threads[l])]
        BY <3>1, <4>3 DEF LockNext, Lockable, Indexed
      <4>5. v <= size => v \in Workers
        <5>1. v \in Nat \ {0} /\ size \in 0 .. MaxSize BY <4>3 DEF Kept, Safe, Typed
        <5> QED BY <5>1, Processes DEF Workers
      <4> QED BY <4>1, <4>2, <4>4, <4>5 DEF Kept, TypeOK
    <3>2. CASE Join(l) \/ ResetIdle(l) \/ Release(l)
      BY <3>2 DEF Join, ResetIdle, Release, worker
    <3> QED BY <1>4, <3>1, <3>2
  <2> QED BY <1>1, <2>1, <2>3, <2>4, <2>5, Unseen DEF JobOf
<1>5. CASE WakeJob(l) \/ Signal(l)
  <2>0. PICK v : v = threads[l][pos[l]] OBVIOUS
  <2>1. /\ index' = index /\ pc[l] \in {"wake", "signal"}
        /\ job' = job \/ (pos[l] <= Len(threads[l]) /\ job' = [job EXCEPT ![v] = l])
        /\ \/ \E to \in {"signal", "take", "wake"} : pc' = [pc EXCEPT ![l] = to]
           \/ pos[l] <= Len(threads[l]) /\ pc' = [pc EXCEPT ![l] = "wake", ![v] = "wait"]
    <3>1. CASE WakeJob(l) BY <2>0, <3>1 DEF WakeJob, Goto
    <3>2. CASE Signal(l)
      <4>1. pos[l] <= Len(threads[l]) BY <3>2 DEF Signal, Kept, Safe, Placed
      <4> QED BY <2>0, <3>2, <4>1 DEF Signal
    <3> QED BY <1>5, <3>1, <3>2
  <2>2. pos[l] <= Len(threads[l]) => v \in Workers /\ Asleep(v)
    <3> SUFFICES ASSUME pos[l] <= Len(threads[l]) PROVE v \in Workers /\ Asleep(v) OBVIOUS
    <3>1. pos[l] \in DOMAIN threads[l]
      <4>1. pos[l] \in Nat \ {0} BY DEF Kept, Safe, Typed
      <4>2. Len(threads[l]) \in Nat /\ DOMAIN threads[l] = 1 .. Len(threads[l]) BY Spread
      <4> QED BY <4>1, <4>2
    <3>2. Holds(l, pos[l]) BY <2>1, <3>1 DEF Holds
    <3>3. v \in Workers /\ Fits(l, pos[l]) BY <2>0, <3>1, <3>2, OnePlace DEF Kept, Signals
    <3>4. ~Busy(l, pos[l]) /\ ~Rested(l, pos[l])
      <4>1. pos[l] \in Nat BY DEF Kept, Safe, Typed
      <4> QED BY <2>1, <4>1 DEF Busy, Rested
    <3> QED BY <2>0, <3>3, <3>4 DEF Fits, Assigned, Quiet
  <2>3. v \in Workers /\ Asleep(v) => ~Calling(v)
    BY CallingHeld
  <2>4. /\ pc'[l] \in {"signal", "take", "wake"}
        /\ \A q \in Executors : q \notin {l, v} => pc'[q] = pc[q]
        /\ pc'[v] = pc[v] \/ v = l \/ (v \in Workers /\ Asleep(v) /\ pc'[v] = "wait")
    <3>1. CASE \E to \in {"signal", "take", "wake"} : pc' = [pc EXCEPT ![l] = to]
      BY <1>0, <3>1 DEF Kept, Safe, Typed, Executors
    <3>2. CASE pos[l] <= Len(threads[l]) /\ pc' = [pc EXCEPT ![l] = "wake", ![v] = "wait"]
      <4>1. v \in Workers /\ Asleep(v) /\ v # l BY <1>0, <2>2, <3>2
      <4> QED BY <1>0, <3>2, <4>1 DEF Kept, Safe, Typed, Executors
    <3> QED BY <2>1, <3>1, <3>2
  <2>5. ASSUME NEW x \in Executors
        PROVE  /\ Calling(x)' <=> Calling(x)
               /\ Calling(x) => JobOf(x)' = JobOf(x)
    <3>1. CASE x = l BY <2>1, <2>4, <3>1 DEF Calling
    <3>2. CASE x # l /\ x = v BY <2>1, <2>2, <2>3, <2>4, <3>2 DEF Calling, JobOf
    <3>3. CASE x # l /\ x # v BY <2>1, <2>4, <3>3 DEF Calling, JobOf, Kept, TypeOK
    <3> QED BY <3>1, <3>2, <3>3
  <2>6. \A m \in Launchers : pc'[m] \in Active <=> pc[m] \in Active
    <3>1. \A m \in Launchers : m \in Executors /\ m \notin Workers BY Processes DEF Executors
    <3>2. ASSUME NEW m \in Launchers, m # l PROVE pc'[m] = pc[m]
      BY <2>4, <3>1, <3>2
    <3>3. pc[l] \in Active /\ pc'[l] \in Active BY <2>1, <2>4 DEF Active
    <3> QED BY <3>2, <3>3
  <2> QED BY <1>1, <2>1, <2>5, <2>6, Unseen
<1> QED BY <1>2, <1>3, <1>4, <1>5

LEMMA PerformSeen ==
    ASSUME Kept, Loops, NEW l \in Launchers, NEW r \in Ranges, Perform(l, r)
    PROVE  Loop!Next
<1>1. /\ UNCHANGED <<job, index, cur>> /\ pc[l] = "ready" /\ pc' = [pc EXCEPT ![l] = "wake"]
      /\ range' = [range EXCEPT ![l] = r] /\ it' = [it EXCEPT ![l] = r.begin]
      /\ threw' = [threw EXCEPT ![l] = FALSE] /\ outcome' = [outcome EXCEPT ![l] = "none"]
  BY DEF Perform, Goto, worker
<1>2. pc'[l] = "wake" /\ \A q \in Executors : q # l => pc'[q] = pc[q]
  BY <1>1, Processes DEF Kept, Safe, Typed, Executors
<1>3. range'[l] = r /\ it'[l] = r.begin
      /\ \A m \in Launchers : m # l => range'[m] = range[m] /\ it'[m] = it[m]
  BY <1>1 DEF Kept, TypeOK, Loops, Tables
<1>4. PhaseOf(l) = "idle" /\ PhaseOf(l)' = "running" BY <1>1, <1>2 DEF PhaseOf, Active
<1>5. LeftOf(l)' = r.begin .. r.end - 1
  <2>1. r.begin \in Int /\ r.end \in Int BY SizeAssumption
  <2>2. LeftOf(l)' = {i \in r.begin .. r.end - 1 : i >= r.begin}
    BY <1>2, <1>3 DEF LeftOf, Active
  <2> QED BY <2>1, <2>2
<1>6. \A m \in Launchers \ {l} : PhaseOf(m)' = PhaseOf(m) /\ LeftOf(m)' = LeftOf(m)
  BY <1>2, <1>3, SamePhase DEF Executors
<1>7. \A m \in Launchers : CallsOf(m)' = CallsOf(m)
  BY <1>1, <1>2, SameCalls DEF Calling, JobOf
<1> QED BY <1>1, <1>4, <1>5, <1>6, <1>7, AbstractPerform

\* The calls of a launcher when one of its executors goes into one.
LEMMA OneMoreCall ==
    ASSUME NEW l \in Launchers, NEW e \in Executors, e \in Callers(l)', e \notin Callers(l),
           \A x \in Executors : x # e => (x \in Callers(l)' <=> x \in Callers(l)),
           \A x \in Executors : x # e => index'[x] = index[x] /\ cur'[x] = cur[x]
    PROVE  CallsOf(l)' = CallsOf(l) \cup {<<index'[e], cur'[e]>>}
<1>1. Callers(l) \subseteq Executors /\ Callers(l)' \subseteq Executors BY DEF Callers, Executors
<1>2. Callers(l)' = Callers(l) \cup {e} BY <1>1
<1>3. \A x \in Callers(l) : index'[x] = index[x] /\ cur'[x] = cur[x] BY <1>1
<1> QED BY <1>2, <1>3 DEF CallsOf

\* When one of them comes back.
LEMMA OneCallLess ==
    ASSUME NEW l \in Launchers, NEW e \in Executors, e \in Callers(l), e \notin Callers(l)',
           \A x \in Executors : x # e => (x \in Callers(l)' <=> x \in Callers(l)),
           UNCHANGED <<index, cur>>,
           \A x \in Callers(l) : index[x] = index[e] => x = e
    PROVE  CallsOf(l)' = CallsOf(l) \ {<<index[e], cur[e]>>}
<1>1. Callers(l) \subseteq Executors /\ Callers(l)' \subseteq Executors BY DEF Callers, Executors
<1>2. Callers(l)' = Callers(l) \ {e} BY <1>1
<1> QED BY <1>2 DEF CallsOf

\* Executors of a loop have different thread indices.
LEMMA OneCaller ==
    ASSUME Kept, Loops, NEW e \in Executors, NEW x \in Executors,
           pc[e] \in {"take", "call", "nested"}, pc[x] \in {"take", "call", "nested"},
           JobOf(x) = JobOf(e), index[x] = index[e]
    PROVE  x = e
<1>0. PICK l : l = JobOf(e) OBVIOUS
<1>1. l \in Launchers /\ pc[l] \in Active BY <1>0, Place
<1>2. PICK i \in 1 .. Len(threads[l]) + 1 : At(l, i, e) BY <1>0, Place
<1>3. PICK j \in 1 .. Len(threads[l]) + 1 : At(l, j, x) BY <1>0, Place
<1>4. index[e] = i - 1 /\ index[x] = j - 1 BY <1>1, <1>2, <1>3, OnePosition
<1>5. i = j
  <2>1. Len(threads[l]) \in Nat BY <1>1, Spread
  <2> QED BY <1>4, <2>1
<1> QED BY <1>1, <1>2, <1>3, <1>5, OnePosition

LEMMA TakeSeen ==
    ASSUME Kept, Loops, Room, NEW e \in Executors, Take(e)
    PROVE  Loop!Next \/ UNCHANGED Loop!vars
<1>0. PICK l : l = JobOf(e) OBVIOUS
<1>1. Runs(e) BY DEF Runs
<1>2. /\ l \in Launchers /\ Moves(l) /\ pc[l] \in Active /\ e \in DOMAIN pc
      /\ UNCHANGED <<threads, index, range, job>>
      /\ e = l \/ (e \in Workers /\ e # l /\ pc'[l] = pc[l])
  BY <1>0, <1>1, RunsInLoop
<1>3. PICK k \in Yet(l) : TRUE BY <1>0, Place DEF Take
<1>4. /\ it[l] \in Int /\ range[l].begin \in Int /\ range[l].end \in Int
      /\ range[l].begin <= it[l] /\ Wrapped(it[l]) = it[l] + 1
  BY <1>2, <1>3, NoWrap
<1>5. /\ UNCHANGED <<threw, outcome>> /\ pc[e] = "take"
      /\ it'[l] = it[l] + 1 /\ \A m \in Launchers : m # l => it'[m] = it[m]
  <2>1. it' = [it EXCEPT ![l] = it[l] + 1] BY <1>0, <1>4 DEF Take
  <2>2. it'[l] = it[l] + 1 /\ \A m \in Launchers : m # l => it'[m] = it[m]
    BY <1>2, <2>1 DEF Kept, TypeOK
  <2> QED BY <2>2 DEF Take, seen
<1>6. \A x \in Executors : x # e => pc'[x] = pc[x]
  BY <1>0, <1>2 DEF Take, Goto, Kept, Safe, Typed, Executors
<1>7. \A x \in Executors : JobOf(x)' = JobOf(x) BY <1>2 DEF JobOf
<1>8. \A m \in Launchers : pc'[m] \in Active <=> pc[m] \in Active
  <2>1. \A m \in Launchers : m # l => m # e BY <1>2, Processes
  <2>2. \A m \in Launchers : m # l => pc'[m] = pc[m] BY <1>6, <2>1 DEF Executors
  <2>3. pc'[l] \in Active BY <1>2 DEF Moves, Still
  <2> QED BY <1>2, <2>2, <2>3
<1>9. \A m \in Launchers : PhaseOf(m)' = PhaseOf(m) BY <1>8 DEF PhaseOf
<1>10. \A m \in Launchers : m # l => LeftOf(m)' = LeftOf(m)
  BY <1>2, <1>5, <1>8, SamePhase
<1>11. /\ LeftOf(l) = {i \in range[l].begin .. range[l].end - 1 : i >= it[l]}
       /\ LeftOf(l)' = {i \in range[l].begin .. range[l].end - 1 : i >= it[l] + 1}
  BY <1>2, <1>5, <1>8 DEF LeftOf
<1>12. CASE it[l] < range[l].end
  <2>1. cur' = [cur EXCEPT ![e] = it[l]] /\ pc'[e] = "call"
    BY <1>0, <1>2, <1>12 DEF Take, Goto
  <2>2. cur'[e] = it[l] /\ \A x \in Executors : x # e => cur'[x] = cur[x]
    BY <2>1 DEF Loops, Tables
  <2>3. it[l] \in LeftOf(l) BY <1>4, <1>11, <1>12
  <2>4. LeftOf(l)' = LeftOf(l) \ {it[l]} BY <1>4, <1>11
  <2>5. \A m \in Launchers, x \in Executors : x # e => (x \in Callers(m)' <=> x \in Callers(m))
    BY <1>6, <1>7 DEF Callers
  <2>6. \A m \in Launchers : e \notin Callers(m) BY <1>5 DEF Callers
  <2>7. e \in Callers(l)' /\ \A m \in Launchers : m # l => e \notin Callers(m)'
    BY <1>0, <1>7, <2>1 DEF Callers
  <2>8. CallsOf(l)' = CallsOf(l) \cup {<<index[e], it[l]>>}
    BY <1>2, <2>2, <2>5, <2>6, <2>7, OneMoreCall
  <2>9. ASSUME NEW m \in Launchers, m # l PROVE CallsOf(m)' = CallsOf(m)
    <3>1. Callers(m) \subseteq Executors /\ Callers(m)' \subseteq Executors
      BY DEF Callers, Executors
    <3>2. \A x \in Executors : x \in Callers(m)' <=> x \in Callers(m)
      BY <2>5, <2>6, <2>7, <2>9
    <3>3. Callers(m)' = Callers(m) BY <3>1, <3>2
    <3>4. \A x \in Callers(m) : index'[x] = index[x] /\ cur'[x] = cur[x]
      BY <1>2, <2>2, <2>6, <3>1
    <3> QED BY <3>3, <3>4 DEF CallsOf
  <2>10. \A c \in CallsOf(l) : c[1] # index[e]
    <3> SUFFICES ASSUME NEW c \in CallsOf(l), c[1] = index[e] PROVE FALSE OBVIOUS
    <3>1. PICK x \in Callers(l) : c = <<index[x], cur[x]>> BY DEF CallsOf
    <3>2. x \in Executors /\ pc[x] \in {"call", "nested"} /\ JobOf(x) = l
      BY <3>1 DEF Callers, Executors
    <3>3. index[x] = index[e] BY <3>1
    <3>4. x = e BY <1>0, <1>5, <3>2, <3>3, OneCaller
    <3> QED BY <1>5, <3>2, <3>4
  <2>11. index[e] \in 0 .. MaxSize BY DEF Kept, TypeOK
  <2>12. \A m \in Launchers \ {l} : LeftOf(m)' = LeftOf(m) /\ CallsOf(m)' = CallsOf(m)
    BY <1>10, <2>9
  <2>13. UNCHANGED <<threw, outcome>> BY <1>5
  <2>14. Loop!Next
    BY <1>2, <1>9, <2>3, <2>4, <2>8, <2>10, <2>11, <2>12, <2>13, AbstractCall
  <2> QED BY <2>14
<1>13. CASE ~(it[l] < range[l].end)
  <2>1. cur' = cur /\ pc'[e] \in {"clear", "join"}
    BY <1>0, <1>2, <1>13 DEF Take, Goto, AfterJob
  <2>2. LeftOf(l) = {} /\ LeftOf(l)' = {} BY <1>4, <1>11, <1>13
  <2>3. \A m \in Launchers : CallsOf(m)' = CallsOf(m)
    BY <1>2, <1>5, <1>6, <1>7, <2>1, SameCalls DEF Calling
  <2>4. \A m \in Launchers : LeftOf(m)' = LeftOf(m) BY <1>10, <2>2
  <2> QED BY <1>5, <1>9, <2>3, <2>4, AbstractStutter
<1> QED BY <1>12, <1>13

LEMMA EndSeen ==
    ASSUME Kept, Loops, NEW e \in Executors, CallReturns(e) \/ CallThrows(e)
    PROVE  Loop!Next
<1>0. PICK l : l = JobOf(e) OBVIOUS
<1>1. Runs(e) BY DEF Runs
<1>2. /\ l \in Launchers /\ Moves(l) /\ pc[l] \in Active /\ e \in DOMAIN pc
      /\ UNCHANGED <<range, job, index>>
      /\ e = l \/ (e \in Workers /\ e # l /\ pc'[l] = pc[l])
  BY <1>0, <1>1, RunsInLoop
<1>3. /\ UNCHANGED <<it, cur, outcome>> /\ pc[e] = "call" /\ pc'[e] \in {"take", "clear", "join"}
      /\ \E to : pc' = [pc EXCEPT ![e] = to]
  BY <1>2 DEF CallReturns, CallThrows, Goto, AfterJob, launcher, seen
<1>4. \A x \in Executors : x # e => pc'[x] = pc[x]
  BY <1>3 DEF Kept, Safe, Typed, Executors
<1>5. \E failed \in BOOLEAN : threw' = [threw EXCEPT ![l] = @ \/ failed]
  <2>1. CASE CallReturns(e)
    <3>1. threw' = threw /\ threw \in [Launchers -> BOOLEAN]
      BY <2>1 DEF CallReturns, seen, Loops, Tables
    <3>2. threw' = [threw EXCEPT ![l] = @ \/ FALSE] BY <1>2, <3>1
    <3> QED BY <3>2
  <2>2. CASE CallThrows(e)
    <3>1. threw' = [threw EXCEPT ![l] = TRUE] BY <1>0, <2>2 DEF CallThrows
    <3>2. threw' = [threw EXCEPT ![l] = @ \/ TRUE] BY <3>1
    <3> QED BY <3>2
  <2> QED BY <2>1, <2>2
<1>6. \A x \in Executors : JobOf(x)' = JobOf(x) BY <1>2 DEF JobOf
<1>7. \A m \in Launchers : PhaseOf(m)' = PhaseOf(m) /\ LeftOf(m)' = LeftOf(m)
  <2>1. \A m \in Launchers : m # l => m # e BY <1>2, Processes
  <2>2. \A m \in Launchers : m # l => pc'[m] = pc[m] BY <1>4, <2>1 DEF Executors
  <2>3. pc'[l] \in Active BY <1>2 DEF Moves, Still
  <2> QED BY <1>2, <1>3, <2>2, <2>3, SamePhase
<1>8. \A m \in Launchers, x \in Executors : x # e => (x \in Callers(m)' <=> x \in Callers(m))
  BY <1>4, <1>6 DEF Callers
<1>9. \A m \in Launchers : e \notin Callers(m)' BY <1>3 DEF Callers
<1>10. e \in Callers(l) /\ \A m \in Launchers : m # l => e \notin Callers(m)
  BY <1>0, <1>3 DEF Callers
<1>11. \A x \in Callers(l) : index[x] = index[e] => x = e
  BY <1>0, <1>3, OneCaller DEF Callers
<1>12. CallsOf(l)' = CallsOf(l) \ {<<index[e], cur[e]>>}
  BY <1>2, <1>3, <1>8, <1>9, <1>10, <1>11, OneCallLess
<1>13. ASSUME NEW m \in Launchers \ {l} PROVE CallsOf(m)' = CallsOf(m)
  <2>1. Callers(m) \subseteq Executors /\ Callers(m)' \subseteq Executors
    BY DEF Callers, Executors
  <2>2. \A x \in Executors : x \in Callers(m)' <=> x \in Callers(m)
    BY <1>8, <1>9, <1>10
  <2>3. Callers(m)' = Callers(m) BY <2>1, <2>2
  <2> QED BY <1>2, <1>3, <2>3 DEF CallsOf
<1>14. <<index[e], cur[e]>> \in CallsOf(l) BY <1>10 DEF CallsOf
<1> QED BY <1>2, <1>3, <1>5, <1>7, <1>12, <1>13, <1>14, AbstractEnd

LEMMA ReportSeen ==
    ASSUME Kept, Loops, NEW l \in Launchers, Report(l)
    PROVE  Loop!Next
<1>1. /\ UNCHANGED <<range, it, cur, index, job, threw>> /\ pc[l] = "report"
      /\ pc' = [pc EXCEPT ![l] = "ready"]
      /\ outcome' = [outcome EXCEPT ![l] = IF Failures(l) = {} THEN "returned" ELSE "threw"]
  BY DEF Report, Goto, worker, launcher
<1>2. pc'[l] = "ready" /\ \A q \in Executors : q # l => pc'[q] = pc[q]
  BY <1>1, Processes DEF Kept, Safe, Typed, Executors
<1>3. PhaseOf(l) = "running" /\ PhaseOf(l)' = "idle" /\ LeftOf(l)' = {}
  BY <1>1, <1>2 DEF PhaseOf, LeftOf, Active
<1>4. \A m \in Launchers \ {l} : PhaseOf(m)' = PhaseOf(m) /\ LeftOf(m)' = LeftOf(m)
  BY <1>1, <1>2, SamePhase DEF Executors
<1>5. \A m \in Launchers : CallsOf(m)' = CallsOf(m)
  BY <1>1, <1>2, SameCalls DEF Calling, JobOf
<1>6. ASSUME NEW i \in DOMAIN threads[l]
      PROVE  threads[l][i] \in Workers /\ Quiet(threads[l][i])
  <2>1. Holds(l, i) BY <1>1 DEF Holds
  <2>2. Fits(l, i) /\ threads[l][i] \in Workers BY <2>1, OnePlace DEF Kept, Signals
  <2>3. ~Busy(l, i) /\ ~Given(l, i) /\ ~Rested(l, i) BY <1>1 DEF Busy, Given, Rested
  <2> QED BY <2>2, <2>3 DEF Fits
<1>7. CallsOf(l) = {}
  <2> SUFFICES ASSUME NEW x \in Callers(l) PROVE FALSE BY DEF CallsOf
  <2>1. x \in Executors /\ pc[x] \in {"take", "call", "nested"} /\ JobOf(x) = l
    BY DEF Callers, Executors
  <2>2. PICK k \in 1 .. Len(threads[l]) + 1 : At(l, k, x) BY <2>1, Place
  <2>3. x # l BY <1>1, <2>1
  <2>4. k \in DOMAIN threads[l] /\ x = threads[l][k] BY <2>2, <2>3 DEF At
  <2>5. Quiet(x) BY <1>6, <2>4
  <2> QED BY <2>1, <2>5 DEF Quiet, Asleep
<1>8. Told(l) /\ Counted(l) /\ pc[l] \in Active /\ pc[l] \in Ended
  BY <1>1 DEF Loops, InLoop, Active, Ended
<1>9. threw[l] \/ LeftOf(l) = {}
  <2> SUFFICES ASSUME ~threw[l] PROVE LeftOf(l) = {} OBVIOUS
  <2>1. it[l] >= range[l].end /\ range[l] \in Ranges BY <1>8 DEF Counted
  <2>2. range[l].begin \in Int /\ range[l].end \in Int /\ it[l] \in Int
    BY <2>1, SizeAssumption DEF Kept, TypeOK
  <2>3. \A i \in range[l].begin .. range[l].end - 1 : ~(i >= it[l]) BY <2>1, <2>2
  <2> QED BY <2>3 DEF LeftOf
<1>10. threw[l] <=> Failures(l) # {}
  <2>1. \A i \in DOMAIN threads[l] : Failed(l, i) <=> failure[threads[l][i]]
    <3> TAKE i \in DOMAIN threads[l]
    <3>1. Signalled(l, i) BY <1>1 DEF Signalled
    <3>2. ~Unbegun(threads[l][i], l) BY <1>6, Processes DEF Quiet, Unbegun
    <3> QED BY <3>1, <3>2 DEF Failed, Begun
  <2>2. threw[l] <=> failure[l] \/ \E i \in DOMAIN threads[l] : failure[threads[l][i]]
    BY <1>8, <2>1 DEF Told, Blamed
  <2> QED BY <2>2 DEF Failures
<1>11. outcome' = [outcome EXCEPT ![l] = IF threw[l] THEN "threw" ELSE "returned"]
  BY <1>1, <1>10
<1> QED BY <1>1, <1>3, <1>4, <1>5, <1>7, <1>9, <1>11, AbstractReturn

LEMMA StepSeen ==
    ASSUME Room, Kept, Loops, [Next]_vars
    PROVE  [Loop!Next]_(Loop!vars)
<1>1. CASE UNCHANGED vars
  <2>1. UNCHANGED <<range, it, threw, outcome, cur, pc, job, index>>
    BY <1>1 DEF vars, worker, launcher, seen
  <2> QED BY <2>1, Unseen DEF Calling, JobOf
<1>2. ASSUME NEW l \in Launchers, NEW max,
             \/ New(l, max) \/ \E e \in Executors : Nest(e, l, max)
             \/ LockNext(l) \/ WakeJob(l) \/ Signal(l) \/ Join(l) \/ ResetIdle(l)
             \/ Release(l) \/ FreeNext(l)
      PROVE  UNCHANGED Loop!vars
  BY <1>2, LauncherUnseen
<1>3. ASSUME NEW l \in Launchers, Report(l) \/ \E r \in Ranges : Perform(l, r)
      PROVE  Loop!Next
  BY <1>3, ReportSeen, PerformSeen
<1>4. ASSUME NEW e \in Executors, Runs(e) PROVE Loop!Next \/ UNCHANGED Loop!vars
  BY <1>4, TakeSeen, EndSeen DEF Runs
<1>5. CASE Next
  BY <1>2, <1>3, <1>4, <1>5, WorkerUnseen, ProbeUnseen, OwnerUnseen
     DEF Next, LauncherStep, WorkerStep, Executors
<1> QED BY <1>1, <1>5

LEMMA InitSeen == Init => Loop!Init
<1> SUFFICES ASSUME Init PROVE Loop!Init OBVIOUS
<1>1. \A x \in Executors : ~Calling(x) BY DEF Init, Calling
<1>2. \A l \in Launchers : pc[l] = "none" BY Processes DEF Init, Executors
<1>3. \A l \in Launchers : PhaseOf(l) = "idle" /\ LeftOf(l) = {}
  BY <1>2 DEF PhaseOf, LeftOf, Active
<1>4. \A l \in Launchers : CallsOf(l) = {} BY <1>1 DEF CallsOf, Callers, Calling
<1> QED BY <1>3, <1>4, AbstractInit DEF Init

\* LoopSpec, in any pool: a launcher's Perform gives every index of the range
\* to the functor once, to calls whose thread indices differ while they run
\* together, and comes back when none runs any more, having thrown if and only
\* if one of them did.  It is so where the loops' ranges leave room for every
\* executor to pass their ends, and where a launcher whose own thread may throw
\* runs one loop only: the failure of its own thread is never reset.
THEOREM LoopsKeepPromise == Room /\ FirstFailure => (Spec => LoopSpec)
<1> SUFFICES ASSUME Room, FirstFailure PROVE Spec => LoopSpec OBVIOUS
<1>1. Init => Loops /\ Loop!Init BY InitLoops, InitSeen
<1>2. Kept /\ Loops /\ [Next]_vars => Loops' BY NextLoops
<1>3. Kept /\ Loops /\ [Next]_vars => [Loop!Next]_(Loop!vars) BY StepSeen
<1> QED BY <1>1, <1>2, <1>3, KeptInvariance, PTL DEF Spec, LoopSpec, Loop!Spec

=============================================================================
