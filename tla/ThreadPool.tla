----------------------------- MODULE ThreadPool -----------------------------
(***************************************************************************)
(* OSD_ThreadPool (src/src/FoundationClasses/TKernel/OSD): a pool of       *)
(* worker threads, launchers that lock some of them and run a parallel     *)
(* loop on them and on the caller's own thread, queries whether the pool   *)
(* is in use, and its reinitialisation with another number of threads.     *)
(*                                                                         *)
(* A launcher's caller is a process of its own, whether an application     *)
(* thread or a functor of another launcher's loop that runs a loop of its  *)
(* own (nested).  An action is one access to what threads share: an atomic *)
(* usage counter, an event (Standard_Condition), the loop's next index.    *)
(***************************************************************************)
EXTENDS Integers, Sequences, FiniteSets

CONSTANTS
    MaxSize,     \* bound: the worker threads of the largest pool
    Sizes,       \* the sizes `Init` may be asked for
    Launchers,   \* bound: the launchers alive at once
    Nested,      \* the launchers a functor creates
    Probes,      \* the threads that call IsInUse
    Ranges,      \* the loops' [begin, end) as records
    MaxThreads,  \* the arguments of Launcher's constructor
    Throwers,    \* the executors whose functor may throw
    MaxUses,     \* bound: the times a launcher is constructed
    MaxPerforms, \* bound: the loops a launcher runs in its life
    DefThreads,  \* myNbDefThreads
    MinInt, MaxInt,  \* the range of `int`
    Owner,       \* the thread that calls Init
    Nobody       \* no launcher, or no executor

Workers   == 1 .. MaxSize
Executors == Workers \cup Launchers

ASSUME SizeAssumption ==
    /\ MaxSize \in Nat /\ Sizes \subseteq 0 .. MaxSize
    /\ Nested \subseteq Launchers
    /\ Throwers \subseteq Executors
    /\ Launchers \cap (Workers \cup Probes \cup {Owner, Nobody}) = {}
    /\ Workers \cap (Probes \cup {Owner, Nobody}) = {} /\ Owner \notin Probes
    /\ MinInt \in Int /\ MaxInt \in Int /\ 0 \in MinInt .. MaxInt
    /\ \A r \in Ranges : r.begin \in MinInt .. MaxInt /\ r.end \in MinInt .. MaxInt

VARIABLES
    size,        \* myThreads.Length()
    shutDown,    \* myShutDown
    \* of each worker
    usage,       \* myUsageCounter
    started,     \* myIsStarted
    wakeEvent, idleEvent,
    job,         \* myJob: the launcher whose loop it is to run, or Nobody
    index,       \* myThreadIndex, of each executor
    failure,     \* myFailure is set, of each executor
    \* of each launcher
    threads,     \* myThreads without the self thread
    wanted,      \* aNbThreads
    range,       \* the loop's range
    it,          \* JobRange::myIt
    parent,      \* the executor whose functor created it, or Nobody
    \* of each process
    pc,
    pos,         \* its place in the pool or in its own threads
    cur,         \* the index given to the functor, of each executor
    \* what processes returned, and the bounds' counters
    outcome,     \* of the launcher's last loop
    threw,       \* history: a call of the launcher's loop threw
    target,      \* the size asked of Init
    locked,      \* how many of aLockThreads Init has set
    uses, performs

pool     == <<size, shutDown, target, locked>>
worker   == <<usage, started, wakeEvent, idleEvent, job, index, failure>>
launcher == <<threads, wanted, range, it, parent>>
seen     == <<outcome, threw>>
count    == <<uses, performs>>
vars     == <<pool, worker, launcher, pc, pos, cur, seen, count>>

Init ==
    /\ size = MaxSize /\ shutDown = FALSE /\ target = MaxSize /\ locked = 0
    /\ usage = [w \in Workers |-> 0]
    /\ started = [w \in Workers |-> FALSE]
    /\ wakeEvent = [w \in Workers |-> FALSE]
    /\ idleEvent = [w \in Workers |-> FALSE]
    /\ job = [w \in Workers |-> Nobody]
    /\ index = [e \in Executors |-> IF e \in Workers THEN e - 1 ELSE 0]
    /\ failure = [e \in Executors |-> FALSE]
    /\ threads = [l \in Launchers |-> << >>]
    /\ wanted = [l \in Launchers |-> 0]
    /\ range = [l \in Launchers |-> [begin |-> 0, end |-> 0]]
    /\ it = [l \in Launchers |-> 0]
    /\ parent = [l \in Launchers |-> Nobody]
    /\ pc = [p \in Executors \cup Probes \cup {Owner} |->
                IF p \in Workers THEN "off" ELSE "none"]
    /\ pos = [p \in Launchers \cup Probes \cup {Owner} |-> 1]
    /\ cur = [e \in Executors |-> 0]
    /\ outcome = [l \in Launchers |-> "none"]
    /\ threw = [l \in Launchers |-> FALSE]
    /\ uses = [l \in Launchers |-> 0]
    /\ performs = [l \in Launchers |-> 0]

Goto(p, label) == pc' = [pc EXCEPT ![p] = label]

\* The launcher whose loop an executor runs.
JobOf(e) == IF e \in Workers THEN job[e] ELSE e

Least(m, n) == IF m < n THEN m ELSE n

-----------------------------------------------------------------------------
(* Faulty forms of the operators below, as a plausible bug would write     *)
(* them; no action uses one.                                               *)

FaultyLockable(w) == TRUE
FaultyWrapped(i) == i
FaultyResting(w) == wakeEvent[w]
FaultyFailures(l) == {e \in {l} : failure[e]}
FaultyAfterJob(e) == IF e \in Workers THEN "wait" ELSE "join"
FaultyAfterWake(w) == IF shutDown /\ job[w] # Nobody THEN "exited" ELSE "begin"

\* `Lock` exchanges the counter for 1, and succeeds if it was 0.
Locked(w)   == [usage EXCEPT ![w] = 1]
Lockable(w) == usage[w] = 0

\* `Free`.
Freed(w) == [usage EXCEPT ![w] = 0]

\* The thread index that fits the launcher's array.
Indexed(l, w) == Len(threads[l])

\* fetch_add on an atomic int wraps around.
Wrapped(i) == IF i = MaxInt THEN MinInt ELSE i + 1

-----------------------------------------------------------------------------
(* A launcher's caller.                                                    *)

\* "The pool should not be used" while Init replaces its array.
Stable == pc[Owner] \notin {"release", "joining"}

\* How many threads a launcher wants, its caller's included.
NbWanted(max) ==
    IF max > 0 THEN Least(max, size + 1)
    ELSE IF max < 0 /\ DefThreads > 1 THEN DefThreads ELSE 1

\* `Launcher(thePool, theMaxThreads)`.
Construct(l, max, e) ==
    /\ pc[l] = "none"
    /\ Stable
    /\ uses[l] < MaxUses
    /\ uses' = [uses EXCEPT ![l] = @ + 1]
    /\ performs' = [performs EXCEPT ![l] = 0]
    /\ wanted' = [wanted EXCEPT ![l] = NbWanted(max)]
    /\ threads' = [threads EXCEPT ![l] = << >>]
    /\ failure' = [failure EXCEPT ![l] = FALSE]
    /\ parent' = [parent EXCEPT ![l] = e]
    /\ pos' = [pos EXCEPT ![l] = 1]
    /\ UNCHANGED <<pool, usage, started, wakeEvent, idleEvent, job, index,
                   range, it, cur, seen>>

New(l, max) ==
    /\ l \notin Nested
    /\ Construct(l, max, Nobody)
    /\ Goto(l, "lock")

\* A functor creates a launcher on the same pool.
Nest(e, l, max) ==
    /\ l \in Nested
    /\ pc[e] = "call"
    /\ Construct(l, max, e)
    /\ pc' = [pc EXCEPT ![e] = "nested", ![l] = "lock"]

\* The constructor locks free workers one by one, in the pool's order.
LockNext(l) ==
    /\ pc[l] = "lock"
    /\ \/ /\ pos[l] > size \/ Len(threads[l]) + 1 >= wanted[l]
          /\ index' = [index EXCEPT ![l] = Len(threads[l])]
          /\ Goto(l, "ready")
          /\ UNCHANGED <<usage, threads, pos>>
       \/ /\ pos[l] <= size /\ Len(threads[l]) + 1 < wanted[l]
          /\ usage' = Locked(pos[l])
          /\ IF Lockable(pos[l])
             THEN /\ threads' = [threads EXCEPT ![l] = Append(@, pos[l])]
                  /\ index' = [index EXCEPT ![pos[l]] = Indexed(l, pos[l])]
             ELSE UNCHANGED <<threads, index>>
          /\ pos' = [pos EXCEPT ![l] = @ + 1]
          /\ UNCHANGED pc
    /\ UNCHANGED <<pool, started, wakeEvent, idleEvent, job, failure, wanted,
                   range, it, parent, cur, seen, count>>

\* `Perform`: the range and the job are made on the caller's stack.
Perform(l, r) ==
    /\ pc[l] = "ready"
    /\ performs[l] < MaxPerforms
    /\ performs' = [performs EXCEPT ![l] = @ + 1]
    /\ range' = [range EXCEPT ![l] = r]
    /\ it' = [it EXCEPT ![l] = r.begin]
    /\ outcome' = [outcome EXCEPT ![l] = "none"]
    /\ threw' = [threw EXCEPT ![l] = FALSE]
    /\ pos' = [pos EXCEPT ![l] = 1]
    /\ Goto(l, "wake")
    /\ UNCHANGED <<pool, worker, threads, wanted, parent, cur, uses>>

\* `run`: WakeUp gives the next worker the job ...
WakeJob(l) ==
    /\ pc[l] = "wake"
    /\ \/ /\ pos[l] <= Len(threads[l])
          /\ job' = [job EXCEPT ![threads[l][pos[l]]] = l]
          /\ Goto(l, "signal")
       \/ /\ pos[l] > Len(threads[l])
          /\ Goto(l, "take")
          /\ UNCHANGED job
    /\ UNCHANGED <<pool, usage, started, wakeEvent, idleEvent, index, failure,
                   launcher, pos, cur, seen, count>>

\* ... and sets its event, starting the thread on its first job.
Signal(l) ==
    /\ pc[l] = "signal"
    /\ LET w == threads[l][pos[l]] IN
       /\ wakeEvent' = [wakeEvent EXCEPT ![w] = TRUE]
       /\ started' = [started EXCEPT ![w] = TRUE]
       /\ pc' = IF started[w] THEN [pc EXCEPT ![l] = "wake"]
                ELSE [pc EXCEPT ![l] = "wake", ![w] = "wait"]
    /\ pos' = [pos EXCEPT ![l] = @ + 1]
    /\ UNCHANGED <<pool, usage, idleEvent, job, index, failure, launcher, cur,
                   seen, count>>

\* `wait`: WaitIdle on each worker, the self thread having finished.
Resting(w) == idleEvent[w]

Join(l) ==
    /\ pc[l] = "join"
    /\ \/ /\ pos[l] <= Len(threads[l])
          /\ Resting(threads[l][pos[l]])
          /\ Goto(l, "rest")
       \/ /\ pos[l] > Len(threads[l])
          /\ Goto(l, "report")
    /\ UNCHANGED <<pool, worker, launcher, pos, cur, seen, count>>

ResetIdle(l) ==
    /\ pc[l] = "rest"
    /\ idleEvent' = [idleEvent EXCEPT ![threads[l][pos[l]]] = FALSE]
    /\ pos' = [pos EXCEPT ![l] = @ + 1]
    /\ Goto(l, "join")
    /\ UNCHANGED <<pool, usage, started, wakeEvent, job, index, failure,
                   launcher, cur, seen, count>>

\* The executors of l whose `myFailure` is set.
Failures(l) ==
    {e \in {threads[l][i] : i \in DOMAIN threads[l]} \cup {l} : failure[e]}

\* `wait` rethrows a failure it found, or returns.
Report(l) ==
    /\ pc[l] = "report"
    /\ outcome' = [outcome EXCEPT ![l] =
           IF Failures(l) = {} THEN "returned" ELSE "threw"]
    /\ Goto(l, "ready")
    /\ UNCHANGED <<pool, worker, launcher, pos, cur, threw, count>>

\* `Release`, and the destructor: the workers are freed one by one.
Release(l) ==
    /\ pc[l] = "ready"
    /\ pos' = [pos EXCEPT ![l] = 1]
    /\ Goto(l, "free")
    /\ UNCHANGED <<pool, worker, launcher, cur, seen, count>>

FreeNext(l) ==
    /\ pc[l] = "free"
    /\ \/ /\ pos[l] <= Len(threads[l])
          /\ usage' = Freed(threads[l][pos[l]])
          /\ pos' = [pos EXCEPT ![l] = @ + 1]
          /\ UNCHANGED <<threads, parent, pc>>
       \/ /\ pos[l] > Len(threads[l])
          /\ threads' = [threads EXCEPT ![l] = << >>]
          /\ parent' = [parent EXCEPT ![l] = Nobody]
          /\ pc' = IF parent[l] = Nobody THEN [pc EXCEPT ![l] = "none"]
                   ELSE [pc EXCEPT ![l] = "none", ![parent[l]] = "call"]
          /\ UNCHANGED <<usage, pos>>
    /\ UNCHANGED <<pool, started, wakeEvent, idleEvent, job, index, failure,
                   wanted, range, it, cur, seen, count>>

-----------------------------------------------------------------------------
(* `Job::Perform`, run by a worker or by the launcher's own thread.        *)

AfterJob(e) == IF e \in Workers THEN "clear" ELSE "join"

\* `JobRange::It`: the next index, or the end of the loop.
Take(e) ==
    /\ pc[e] = "take"
    /\ LET l == JobOf(e) IN
       /\ it' = [it EXCEPT ![l] = Wrapped(it[l])]
       /\ IF it[l] < range[l].end
          THEN /\ cur' = [cur EXCEPT ![e] = it[l]]
               /\ Goto(e, "call")
               /\ UNCHANGED pos
          ELSE /\ Goto(e, AfterJob(e))
               /\ pos' = IF e \in Workers THEN pos ELSE [pos EXCEPT ![e] = 1]
               /\ UNCHANGED cur
    /\ UNCHANGED <<pool, worker, threads, wanted, range, parent, seen, count>>

CallReturns(e) ==
    /\ pc[e] = "call"
    /\ Goto(e, "take")
    /\ UNCHANGED <<pool, worker, launcher, pos, cur, seen, count>>

\* `performJob` catches what the functor throws: the executor's job ends.
CallThrows(e) ==
    /\ pc[e] = "call"
    /\ e \in Throwers
    /\ failure' = [failure EXCEPT ![e] = TRUE]
    /\ threw' = [threw EXCEPT ![JobOf(e)] = TRUE]
    /\ pos' = IF e \in Workers THEN pos ELSE [pos EXCEPT ![e] = 1]
    /\ Goto(e, AfterJob(e))
    /\ UNCHANGED <<pool, usage, started, wakeEvent, idleEvent, job, index,
                   launcher, cur, outcome, count>>

-----------------------------------------------------------------------------
(* A worker thread, `performThread`.                                       *)

WaitWake(w) ==
    /\ pc[w] = "wait"
    /\ wakeEvent[w]
    /\ Goto(w, "reset")
    /\ UNCHANGED <<pool, worker, launcher, pos, cur, seen, count>>

AfterWake(w) == IF shutDown THEN "exited" ELSE "begin"

ResetWake(w) ==
    /\ pc[w] = "reset"
    /\ wakeEvent' = [wakeEvent EXCEPT ![w] = FALSE]
    /\ Goto(w, AfterWake(w))
    /\ UNCHANGED <<pool, usage, started, idleEvent, job, index, failure,
                   launcher, pos, cur, seen, count>>

BeginJob(w) ==
    /\ pc[w] = "begin"
    /\ failure' = [failure EXCEPT ![w] = FALSE]
    /\ Goto(w, IF job[w] = Nobody THEN "idle" ELSE "take")
    /\ UNCHANGED <<pool, usage, started, wakeEvent, idleEvent, job, index,
                   launcher, pos, cur, seen, count>>

ClearJob(w) ==
    /\ pc[w] = "clear"
    /\ job' = [job EXCEPT ![w] = Nobody]
    /\ Goto(w, "idle")
    /\ UNCHANGED <<pool, usage, started, wakeEvent, idleEvent, index, failure,
                   launcher, pos, cur, seen, count>>

SetIdle(w) ==
    /\ pc[w] = "idle"
    /\ idleEvent' = [idleEvent EXCEPT ![w] = TRUE]
    /\ Goto(w, "wait")
    /\ UNCHANGED <<pool, usage, started, wakeEvent, job, index, failure,
                   launcher, pos, cur, seen, count>>

-----------------------------------------------------------------------------
(* `IsInUse`: each worker is locked and freed again, up to a busy one.     *)

IsInUse(p) ==
    /\ pc[p] = "none"
    /\ Stable
    /\ pos' = [pos EXCEPT ![p] = 1]
    /\ Goto(p, "probe")
    /\ UNCHANGED <<pool, worker, launcher, cur, seen, count>>

ProbeNext(p) ==
    /\ pc[p] = "probe"
    /\ \/ /\ pos[p] > size
          /\ Goto(p, "none")
          /\ UNCHANGED usage
       \/ /\ pos[p] <= size
          /\ usage' = Locked(pos[p])
          /\ Goto(p, IF Lockable(pos[p]) THEN "unprobe" ELSE "none")
    /\ UNCHANGED <<pool, started, wakeEvent, idleEvent, job, index, failure,
                   launcher, pos, cur, seen, count>>

ProbeFree(p) ==
    /\ pc[p] = "unprobe"
    /\ usage' = Freed(pos[p])
    /\ pos' = [pos EXCEPT ![p] = @ + 1]
    /\ Goto(p, "probe")
    /\ UNCHANGED <<pool, started, wakeEvent, idleEvent, job, index, failure,
                   launcher, cur, seen, count>>

-----------------------------------------------------------------------------
(* `Init` with another size, called by the pool's owner.                   *)

\* Somebody walks the pool's array, which Init is about to replace.
Walked == \E p \in Launchers \cup Probes : pc[p] \in {"lock", "probe", "unprobe"}

Reinit(n) ==
    /\ pc[Owner] = "none"
    /\ n # size
    /\ target' = n
    /\ locked' = 0
    /\ pos' = [pos EXCEPT ![Owner] = 1]
    /\ Goto(Owner, "lock")
    /\ UNCHANGED <<size, shutDown, worker, launcher, cur, seen, count>>

\* All workers are locked, or those locked are freed and Init throws.
ReinitLock ==
    /\ pc[Owner] = "lock"
    /\ \/ /\ pos[Owner] <= size
          /\ usage' = Locked(pos[Owner])
          /\ IF Lockable(pos[Owner])
             THEN /\ locked' = pos[Owner]
                  /\ pos' = [pos EXCEPT ![Owner] = @ + 1]
                  /\ UNCHANGED pc
             ELSE /\ pos' = [pos EXCEPT ![Owner] = 1]
                  /\ Goto(Owner, "unlock")
                  /\ UNCHANGED locked
          /\ UNCHANGED shutDown
       \/ /\ pos[Owner] > size
          /\ ~Walked
          /\ shutDown' = (size > 0)
          /\ pos' = [pos EXCEPT ![Owner] = 1]
          /\ Goto(Owner, "release")
          /\ UNCHANGED <<usage, locked>>
    /\ UNCHANGED <<size, target, started, wakeEvent, idleEvent, job, index,
                   failure, launcher, cur, seen, count>>

ReinitUnlock ==
    /\ pc[Owner] = "unlock"
    /\ \/ /\ pos[Owner] <= locked
          /\ usage' = Freed(pos[Owner])
          /\ pos' = [pos EXCEPT ![Owner] = @ + 1]
          /\ UNCHANGED <<pc, locked>>
       \/ /\ pos[Owner] > locked
          /\ locked' = 0
          /\ Goto(Owner, "none")
          /\ UNCHANGED <<usage, pos>>
    /\ UNCHANGED <<size, shutDown, target, started, wakeEvent, idleEvent, job,
                   index, failure, launcher, cur, seen, count>>

\* `release`: each worker is woken without a job, and joined.
ReleaseWake ==
    /\ pc[Owner] = "release"
    /\ pos[Owner] <= size
    /\ job' = [job EXCEPT ![pos[Owner]] = Nobody]
    /\ wakeEvent' = [wakeEvent EXCEPT ![pos[Owner]] = TRUE]
    /\ Goto(Owner, "joining")
    /\ UNCHANGED <<pool, usage, started, idleEvent, index, failure, launcher,
                   pos, cur, seen, count>>

ReleaseJoin ==
    /\ pc[Owner] = "joining"
    /\ started[pos[Owner]] => pc[pos[Owner]] = "exited"
    /\ pos' = [pos EXCEPT ![Owner] = @ + 1]
    /\ Goto(Owner, "release")
    /\ UNCHANGED <<pool, worker, launcher, cur, seen, count>>

\* The array is resized: every worker is a new object.
Resize ==
    /\ pc[Owner] = "release"
    /\ pos[Owner] > size
    /\ size' = target
    /\ shutDown' = FALSE
    /\ locked' = 0
    /\ usage' = [w \in Workers |-> 0]
    /\ started' = [w \in Workers |-> FALSE]
    /\ wakeEvent' = [w \in Workers |-> FALSE]
    /\ idleEvent' = [w \in Workers |-> FALSE]
    /\ job' = [w \in Workers |-> Nobody]
    /\ index' = [e \in Executors |-> IF e \in Workers THEN e - 1 ELSE index[e]]
    /\ failure' = [e \in Executors |-> IF e \in Workers THEN FALSE ELSE failure[e]]
    /\ pc' = [p \in DOMAIN pc |-> IF p \in Workers THEN "off"
                                  ELSE IF p = Owner THEN "none" ELSE pc[p]]
    /\ UNCHANGED <<target, launcher, pos, cur, seen, count>>

-----------------------------------------------------------------------------

Runs(e) == Take(e) \/ CallReturns(e) \/ CallThrows(e)

LauncherStep(l) ==
    \/ LockNext(l) \/ WakeJob(l) \/ Signal(l) \/ Join(l) \/ ResetIdle(l)
    \/ Report(l)   \/ FreeNext(l) \/ Runs(l)

WorkerStep(w) ==
    WaitWake(w) \/ ResetWake(w) \/ BeginJob(w) \/ Runs(w) \/ ClearJob(w) \/ SetIdle(w)

ProbeStep(p) == ProbeNext(p) \/ ProbeFree(p)

OwnerStep == ReinitLock \/ ReinitUnlock \/ ReleaseWake \/ ReleaseJoin \/ Resize

Next ==
    \/ \E l \in Launchers :
          \/ \E m \in MaxThreads : New(l, m)
          \/ \E m \in MaxThreads, e \in Executors : Nest(e, l, m)
          \/ \E r \in Ranges : Perform(l, r)
          \/ Release(l)
          \/ LauncherStep(l)
    \/ \E w \in Workers : WorkerStep(w)
    \/ \E p \in Probes : IsInUse(p) \/ ProbeStep(p)
    \/ \E n \in Sizes : Reinit(n)
    \/ OwnerStep

Spec == Init /\ [][Next]_vars

\* Every thread is scheduled and functors come back, a nested loop's launcher
\* being destroyed; what the application calls next is its choice.
Fairness ==
    /\ \A l \in Launchers : WF_vars(LauncherStep(l))
    /\ \A l \in Nested : WF_vars(Release(l))
    /\ \A w \in Workers : WF_vars(WorkerStep(w))
    /\ \A p \in Probes : WF_vars(ProbeStep(p))
    /\ WF_vars(OwnerStep)

FairSpec == Spec /\ Fairness

-----------------------------------------------------------------------------
(* Properties.                                                             *)

Active == {"wake", "signal", "take", "call", "nested", "join", "rest", "report"}

TypeOK ==
    /\ size \in 0 .. MaxSize /\ target \in 0 .. MaxSize /\ locked \in 0 .. size
    /\ shutDown \in BOOLEAN
    /\ usage \in [Workers -> {0, 1}]
    /\ {started, wakeEvent, idleEvent} \subseteq [Workers -> BOOLEAN]
    /\ job \in [Workers -> Launchers \cup {Nobody}]
    /\ index \in [Executors -> 0 .. MaxSize]
    /\ failure \in [Executors -> BOOLEAN]
    /\ \A l \in Launchers : threads[l] \in Seq(Workers)
    /\ it \in [Launchers -> MinInt .. MaxInt]
    /\ parent \in [Launchers -> Executors \cup {Nobody}]
    /\ pos \in [Launchers \cup Probes \cup {Owner} -> 0 .. MaxSize + 1]

\* Who has locked worker w and not freed it yet.
Holders(w) ==
    {l \in Launchers : \E i \in DOMAIN threads[l] :
        threads[l][i] = w /\ (pc[l] = "free" => i >= pos[l])}
    \cup {p \in Probes : pc[p] = "unprobe" /\ pos[p] = w}
    \cup {o \in {Owner} : w <= locked /\ (pc[o] = "unlock" => w >= pos[o])}

\* A worker belongs to one launcher, query or reinitialisation at a time,
\* and is never free for another while it does: nobody frees another's.
OneHolder == \A w \in Workers :
    /\ Cardinality(Holders(w)) <= 1
    /\ usage[w] = 0 => Holders(w) = {}

\* A loop's job and range live on the caller's stack: no worker holds them
\* any more when Perform has come back, by an exception or not.
NoJobLeft ==
    /\ TypeOK
    /\ \A w \in Workers : job[w] # Nobody => pc[job[w]] \in Active

\* A worker that is not in a loop has no wake-up or idle signal left over,
\* which a later loop would take for its own.
NoStaleSignal == \A w \in Workers :
    usage[w] = 0 => ~wakeEvent[w] /\ ~idleEvent[w] /\ job[w] = Nobody

\* Perform does what ParallelFor promises.
Loop == INSTANCE ParallelFor WITH
    Ranges  <- {r.begin .. r.end - 1 : r \in Ranges},
    Indices <- 0 .. MaxSize,
    phase   <- [l \in Launchers |-> IF pc[l] \in Active THEN "running" ELSE "idle"],
    left    <- [l \in Launchers |-> IF pc[l] \in Active
                   THEN {i \in range[l].begin .. range[l].end - 1 : i >= it[l]}
                   ELSE {}],
    calls   <- [l \in Launchers |->
                   {<<index[e], cur[e]>> : e \in
                       {x \in Executors : pc[x] \in {"call", "nested"} /\ JobOf(x) = l}}],
    failed  <- threw,
    outcome <- outcome

LoopSpec == Loop!Spec

\* Every loop comes back, whoever holds the workers it did not get.
LoopsReturn == \A l \in Launchers : pc[l] = "wake" ~> pc[l] = "ready"

\* Init comes back: the threads it wakes to leave do leave.
ReinitReturns == pc[Owner] = "lock" ~> pc[Owner] = "none"

-----------------------------------------------------------------------------
(* What the documentation says and the code does not do.                   *)

\* "Each working thread catches exceptions occurred during job execution,
\* and Launcher will throw Standard_Failure in a caller thread on completed
\* execution" (OSD_ThreadPool.hxx).  The self thread's failure is never
\* reset: a second loop of the same launcher throws it again.
ThrowsOwnFailures == \A l \in Launchers : outcome[l] = "threw" => threw[l]

=============================================================================
