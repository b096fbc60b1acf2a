# A verification development for rustyOCCT

TLA+ models of the parts of this repository whose correctness is a matter of
order, of interleaving or of remembered state; the TLC configurations that
check them on small instances; and theorems checked by the TLA+ proof system.

The repository holds two programs: a geometry kernel in Rust
(`src/rust/kernel`) and Open CASCADE Technology in C++ (`src/src`). Both are
mostly pure geometry on unbounded numbers, which a finite model cannot say much
about. What surrounds the geometry is another matter: work budgets charged from
several threads, computations kept between operations, pools of worker threads with nested
loops, builders and a player in the background of a viewer, progress handed out
in parts, documents whose commands are undone and redone, a graph of functions
that threads regenerate. Those are modelled here, from the code and not from
its documentation.

## Inventory

| Component | State it keeps | Operations | What is hard about it | What makes it correct | Here |
|---|---|---|---|---|---|
| Work budgets (`budget.rs`) | per count: `spent`, `exhausted`; per thread: `INSTALLED`; tokens, deadlines | `run`, `charge`, `check`, `refuse`, `cancel`, `unit`, `unit_ok` | lock-free charge on several threads; racing refusals of different causes; swallowed refusals | never more units than given; one exact refusal; no result of an operation that was refused a unit | modelled, checked, proved |
| Kept computations (`budget.rs` `recorded`/`replay`, the curved Booleans' caches) | `RECORDING`, `ARMED`, the caches | record, replay, evict | a hit must cost what the computation cost; recordings nest; refusals, cancellations and deadlines in the middle | what is kept is whole; a caller cannot tell a hit from a miss | modelled in part, checked, proved |
| Thread pool (`OSD_ThreadPool`) | the array of workers with usage counters, two events, a job; launchers; the loop's next index | construct/release a launcher, `Perform`, `IsInUse`, `Init` | workers locked one by one by several threads; events waited for and reset in two steps; jobs on a caller's stack; nested loops; functors that throw | every index once; no shared thread index; failures reported; everything comes back | modelled in part, checked, proved in part |
| Selection builders (`SelectMgr_BVHThreadPool`) | the list of entities, two events, a mutex per builder, the stop flag | `AddEntity`, `WaitThreads`, the sentry, `StopThreads`, `performThread` | events of one list set and reset by several builders; a builder between its list and its mutex; a stop between two looks at the flag | no tree built by two; the events match the list; what is queued is built | modelled, checked, proved |
| Media player (`Media_PlayerContext`, `Graphic3d_MediaTextureSet`) | input path and event under a mutex, two events, the pair of frames, the timer | `SetInput`, pause, resume, seek, `SwapFrames`, the thread's loop, destruction | one thread decodes into a frame while another shows its pair; one event variable for all commands; a frame kept from file to file; order of destruction | no frame shown while written; pictures of their own file; calls come back | modelled, checked, proved in part |
| Progress (`Message_ProgressIndicator`, scopes, ranges) | the position; ranges used or not; scopes with a local value | `Start`, `Next`, copy, assign, close, destroy | parts handed to several threads and closed in any order, linear or infinite scopes | the parts never overlap and add up to the whole | modelled, checked, proved |
| Function mechanism (`TFunction`) | functions' numbers, the two-sided graph, statuses, the logbook | create, delete, update dependencies; iterate, execute | links kept on both sides, updated from either; deletions and updates that throw half way; threads ending functions while the next list is made; cycles | links are mutual and the drivers'; arguments first, nothing twice, all that is stale executed | modelled in part, checked, proved |
| Data framework (`TDF`) | labels, attributes with backups, flags, the transaction and the time | add, modify, forget; open, commit, abort; undo a delta | what a commit may skip; order of a delta's parts; modified-then-forgotten attributes | abort and undo bring back the former contents | transactions of a document modelled, checked, proved |
| Documents (`TDocStd_Document`) | the lists of undos and redos, compound deltas of nested commands, the limit, compaction marks, the saved time | commands, `Undo`, `Redo`, limits, clearing, compaction, `SetSaved` | undo with open (nested) commands; limits and compaction against each other; times that repeat | the promise of `UndoStack` | modelled in part, checked, proved |
| Documents and applications (`CDM`, `CDF`, `TDocStd_MultiTransactionManager`) | references between documents; commands over several documents | open, store, close, commit and undo over documents | one document of several failing | all documents step together | planned |
| Bodies, identity, history (Rust) | immutable bodies, ids, history relations | operations produce histories that compose | completeness over splits and merges | composition is associative and complete | planned |
| Topology and validation (Rust) | the cell complex | validate | a verdict of many checks that ask geometry | the verdict does not depend on order | planned, control only |
| Parallel loops (`OSD_Parallel`) | iterators behind a mutex | `For`, `ForEach` | as the pool | as the pool | planned |
| Certified/exact arithmetic, curves, surfaces, intersection, Booleans, tessellation, profiles | none | pure functions | numbers of unbounded precision | geometric theorems | not modelled |
| Import, export, data exchange, rendering, Draw, meshing, healing, fuzzing tools | files, drivers | parse, write, render | I/O and geometry | — | not modelled |

How they interact. Every Rust operation runs under the budget installed on its
thread and charges it at its work points, at every use of a kept computation
too. An OCCT algorithm that runs in parallel makes a launcher on the shared
pool; a functor of its loop may run a loop of its own, and takes a range of the
caller's progress. A document owns one data framework, opens its transaction
when a command opens, and stores the deltas the framework's commits return; the
functions of a parametric model are attributes of its labels, which a solver's
threads go through with an iterator. A viewer queues what it can select for the
builders and waits for them or holds them off before it picks; a texture of its
scene may be a film that the player decodes.

## Modules

| Module | What it is |
|---|---|
| `Budget` | `budget.rs`: counts, handles, threads; `charge` one access at a time |
| `CountedWork` | abstract: what an operation under a budget shows its caller |
| `KeptWork` | recording, replay and bounded caches; implements `CountedWork` |
| `ParallelFor` | abstract: what a parallel loop promises |
| `ThreadPool` | `OSD_ThreadPool`; its `Perform` implements `ParallelFor` |
| `BvhBuilders` | `SelectMgr_BVHThreadPool` |
| `MediaPlayer` | `Media_PlayerContext` and its pair of frames |
| `Progress` | the progress indicator, its scopes and ranges |
| `FunctionGraph` | how the graph of functions is made |
| `FunctionIterator` | how a solver's threads go through it |
| `UndoStack` | abstract: what commands, undo and redo promise |
| `DataFramework` | `TDF`: operations as functions from frameworks to frameworks |
| `Document` | `TDocStd_Document` over one framework; implements `UndoStack` |
| `SavedDocument` | `Document` with `SetSaved` and `IsChanged` |
| `*Proofs` | invariants and theorems of the module they are named for, `FunctionProofs` of both modules about functions, `VisualizationProofs` of `BvhBuilders` and `MediaPlayer`, which is why the latter's own names begin with `Player` |
| `DocumentUndoProofs` | on `DocumentProofs`: that undo never fails, and the refinement of `UndoStack` |
| `MC*` | small instances for TLC |

`PROJECT.json` maps each definition to the lines it stands for. Operators whose
name begins with `Faulty` are wrong on purpose, a plausible bug each; no action
uses one. Each checked property has one that violates it.

### Budget

A `Budget` value is a handle: it has a count (the shared `Arc<State>`), perhaps
a token and perhaps a deadline; clones share the count. `spent` and `exhausted`
are the atomic and the `OnceLock`; `installed` is the thread-local stack of
budgets, with a history of whether a unit of each open operation was refused.
`Run`, `Unit` and `Finish` are what application code calls; `ReadExhausted`,
`ReadToken`, `ReadSpent`, `FetchAdd`, `StoreOver`, `ReadDeadline` and `Refuse`
are the accesses of `Budget::charge` in its order, with every other thread's
accesses between them. `run`'s own `check` is a charge of no unit, as in the
code. The stage a refusal names is left out. Counts are not bounded by `u64`:
no process lives to count 2^64 units.

### CountedWork and KeptWork

`KeptWork` has one thread, since recordings and caches are thread-local. `Body`
says what each operation and kept computation counts and uses, in order: a
function of the inputs, as the geometry is deterministic. `Hit`, `Miss`,
`EndCompute` and `EndReplay` are `shared` in `curved/mod.rs` with `recorded` and
`replay` in `budget.rs`; a refused unit may end the computation or be swallowed
(`unit_ok`). A budget's deadline is no variable: `charge` counts its unit before
it reads the clock, any charge may be the first to find the deadline passed, and
the refusal it records answers every later one before the clock is read again.
The refinement shows `CountedWork` the state between operations:
`spent`, the refusal and the result are what they are when nothing is kept.

### ParallelFor and ThreadPool

The processes are the callers of launchers, the worker threads, threads that
ask `IsInUse` and the owner that calls `Init`. An action is one access to what
they share. The loop's range and job are the launcher's, as they are objects on
its caller's stack. A nested launcher's caller is the functor that created it:
its executor stays at "nested" until the launcher is destroyed. The refinement
mapping gives `ParallelFor` the indices not yet taken, and as calls in progress
the pairs of an executor's thread index and its data index.

The class's rule that the pool is not used while it is reinitialised is the
guard `Stable`/`Walked`: nobody walks the array while `Init` replaces it.

### BvhBuilders

Processes: the viewer's thread and the builders. `AddEntity`, `WaitThreads`,
`TraverseSensitives` and `StopThreads` are the viewer's calls, of which the
longer ones go on one lock or event at a time (`WaitIdle`, `SentryLock`,
`Pick`, `SentryUnlock`, `StopWake`, `StopJoin`). `WakeUp`, `CheckStop`,
`TakeFirst`, `LockOwn` and `Build` are `performThread`. The sections under the
list's mutex are one action. `dirty` are the entities whose `ToBuildBVH()` is
true; some trees cannot be built, and their exceptions are caught in the
builder, or leave `Pick` through the sentry.

### MediaPlayer

Processes: the viewer's thread and the player's. `SetInput`, `pushPlayEvent`,
`SwapFrames` and the destruction (`DestroySet`, then `ShutDown`, `ShutDownWake`
and `Join`: C++ destroys the set's frames and mutex, declared after the player,
before it) are the former's; the rest is `doThreadLoop`, one section under a
mutex or one access to an event at a time. FFmpeg is a choice: whether a file
opens, has video, whether a packet is of the video stream and completes a
frame. Whether a frame is due (`ReleaseFrame` or `NotYet`) is a choice while
the timer runs. After the set's members are destroyed the player goes on as it
would have, the memory being as it was. Left out: seeking positions,
durations, pixel formats, the sound.

`Habits` are ways to use the player, one per behaviour: some properties hold
only of a viewer that always waits.

### Progress

`position` is the indicator's; `range` and `scope` are the objects alive. A
call is one action, as a scope is used by one thread at a time and `Increment`
locks a mutex; so an order of actions is an order of calls on all threads. The
scale is whole numbers where the code has doubles, rounded down where a scope
maps its value to it: what is checked of sums holds with the doubles' rounding
for what they approximate. `Conserved` counts the places of the scale that
ranges and scopes answer for, which is the sum of their lengths as they are
apart (`PartsApart`). `Start` takes the place of a new use of the
indicator, its root scope kept. What an infinite scope shows, names and user
breaks are left out: a user break changes no position.

### FunctionGraph and FunctionIterator

`FunctionGraph` has the scope's numbers and both sides of each link. Which
results a function has as arguments is its driver's answer, the application's
choice (`SetArgument`, external). `functions` are the labels whose function attribute
is there, without which `GetDriver` throws. `NewFunction` on a function that
exists empties its node and not its neighbours'. `DeleteFunction` forgets the
attribute first and then goes through its neighbours, and throws at a number no
function has: `Interrupted` is that, after any of them. An update that meets a
function without its attribute throws as well, after any of the others. Three
histories say what the graph is then worth: `unsettled` are the links that may
differ from the arguments as no update looked at them since they changed;
`parted` those whose two ends may differ, by a function created anew or an
operation that threw; `lost` the numbers of functions deleted with such a link.

`FunctionIterator` takes a graph as given and adds statuses, the iterator's
lists, the logbook's impacted results and threads that begin and end the
functions of the current list, as the class's comment and `Dump` use it. `Next`
takes no lock: with the status it is a step for each function of the current
list (`LookAt`) and for each that follows one (`LookAtFollower`), which read the
status of that one and of those before it while threads change them. The user
modified some functions' arguments before (`touched`). In an initial state part
of the model may be up to date, and functions may have the status
`WrongDefinition` that `NewFunction` gives. Without execution status a solver
goes to the next list when it is through with this one.

### DataFramework, Document and UndoStack

A framework is a record: attribute objects (handles) with slot, value, backup
and transaction, the flags `AttributesModified` and `MayBeModified` of label
nodes, and the time. The operations are functions from records to records,
since nothing runs concurrently and a handler is one step for the application.
`AddTo`, `Forget`, `Modify`, `Commit`, `Undo` and `Abort` follow `AddToNode`,
`ForgetFromNode`, `Backup`, `CommitTransaction`, `Undo` and `AbortTransaction`
with their early returns; an exception, or a null delta dereferenced, sets
`fault` and nothing more happens. `Document` composes them into the handlers of
`TDocStd_Document`, trailing "deny or allow modifications" included.

Left out: the order of attributes on a label; callbacks of attributes
(`AfterAddition`, `BeforeUndo`...), which do nothing unless overridden;
notifications to the application; transactions inside the document's own.

`back` of a delta and `was` of a framework are history variables: the contents
the delta ought to bring back. `UndoStack` sees them as its lists, so that
`PromiseKept` says: undoing does bring back those contents, whatever the deltas
have gone through, and no list loses or gains an entry in the middle.

The environment is what the documentation allows, and less where the code is
known to fail: in `MCDocument` (`Careful = TRUE`) the application does not
forget or add an attribute in a command where an enclosing one already forgot
or changed one of that slot, and compacts only deltas of which undoing the
first undoes the rest, and not none (see "What the models found"). In all runs undo is
enabled while the nested mode is on, edits are made inside commands and
`SetModificationMode(true)` has been called.

## Runs

| Run | Question | Bounds |
|---|---|---|
| `budget` | do racing charges keep the count, the refusal and the results right, and does a cancellation land? | two threads, two clones (one with a token, one with a deadline), one unit, runs of 1 or 2 units, fairness |
| `kept_work` | can a caller tell a hit from a miss? | two operations, three nested kept computations, caches of one entry, six sizes of budget |
| `pool_nested` | does `Perform` do what it promises when loops nest and functors throw, and do loops and `Init` come back? | two workers, a launcher and a nested one, ranges of two, sizes 1 and 2, fairness |
| `pool_shared` | do launchers, queries and `Init` share workers safely? | two workers, two launchers, one query thread, sizes 1 and 2 |
| `bvh` | do builders and viewer keep apart, do the events match the list, is what is queued built? | one or two builders, three entities, one unbuildable, five calls, fairness |
| `bvh_stop` | *violated*: the destructor comes back | one or two builders, two entities, one call, fairness |
| `media` | is a frame ever torn or of another file, do calls come back? | three inputs, one without video, two packets, three calls, three habits, fairness |
| `progress` | do the parts of a scale stay apart and whole? | three ranges, two scopes, scale of seven, steps of 1 and 2, both laws, two starts |
| `graph` | are links mutual, exact and to functions that exist, and functions wholly deleted? | three labels, three numbers |
| `functions` | is every function taken up after its arguments, once, and all that is stale executed? | the 25 connected or paired graphs of four functions without cycles and nine of three with one, each once up to the functions' names; with and without the status; fairness |
| `document` | do undo, redo and abort bring back what they promise? | one slot two labels deep, two values, two attribute objects, time up to 3, two nested commands, limits 0 and 2 |
| `document_saved` | *violated*: a document that differs from its last saving says so | as `document`, flat |

Why the bounds are enough. `budget`: a race on a count needs two threads, one
on each side of an access; a unit and a run of two reach the limit from below
and pass it by one and by two. Operations are one deep in the run; a refusal
that is swallowed inside and found outside is left to the theorems, which hold
for every depth. `kept_work`: a cache of one entry evicts at each new key, the
inner computation is reached directly, in a computation and in a replay, and
the sizes of budget run out in each of those places. `pool_*`: a launcher that
gets one worker where it wanted two, none, or both; two indices for two
executors to take at once, a third executor finding the loop finished, and in
`pool_nested` a largest integer that just lets all three pass the end. `bvh`:
one builder and two differ in what a wait means, and two race for the events;
five calls queue three entities, wait and pick. `media`: two packets let a
frame be left over from a file; three calls set an input over another and
over a pause. `progress`: a scope in a scope, a range passed on and one
assigned over; seven is not a multiple of the steps, so rounding happens; a
scope is advanced past its maximum. `graph`: a third function sees the first
two change; three numbers let a label be used again, and a number be lost whose
holder's deletion throws before or after another neighbour forgot it.
`functions`: four are a diamond, the least graph in which a follower waits for
two functions of one list and is reached twice; three are a cycle with a way in.
`document`: three
commits fill a list of limit two and drop its oldest; two objects let one be
added where a delta keeps another. One slot is enough for what deltas do, as
the parts of different slots never touch each other, but it does not exercise
flags shared between sibling labels; a second slot is planned.

Symmetry is used in `document`, `graph` and `progress`, where values, labels or
objects are interchangeable and nothing of liveness is checked. Deadlock is
checked where the system cannot stop (`budget`, `kept_work`, `document`).
Elsewhere it may: a pool's launchers have used up their bound; the builders'
pool and the player are destroyed; a progress has been started as often as the
bound allows and all is closed; the iteration is over; all numbers of the graph
are given. A thread that waits for ever in
those is what the liveness properties look for.

Fairness. `budget`: a thread inside the kernel is scheduled; nothing is assumed
of what the application calls. `pool_nested`: every thread with a step to take
is scheduled (weak fairness per thread), a functor that was called returns or
throws, and one that made a nested launcher destroys it. A new use of the pool
is never assumed. `bvh`: the builders and a viewer inside a call are scheduled;
the viewer need not call anything. `media`: both threads are scheduled, and a
frame becomes due while the timer runs, though the player asks again and again
before it is (strong fairness of `ReleaseFrame`: time passes); the viewer never
has to take a frame. `functions`: the solver goes on while there is more, and a
thread ends, well or not, what it began.

## What is proved

Each proof module has the inductive invariant, a lemma per action or group of
actions, and the theorems. The assumptions are those on the constants that the
modules name (`HandleAssumption`, `SizeAssumption`...), which TLC evaluates in
the runs.

`BudgetProofs`, for any number of threads, counts, handles, tokens, units and
depth:

- `Typing`: `TypeOK`, through `TypeInv == TypeOK /\ Attached`. `Attached` says
  that a thread charging a unit charges the innermost open operation, and that
  one leaving `run` has just recorded the operation it leaves; without it the
  refusal of a unit would mark an operation that does not exist, so `TypeOK`
  alone is not inductive.
- `UnitsBounded`, `CountSettles`, `WorkRefusalsExact`: through `CountInv`. Of
  each count (`CountOK`) it says that the units handed out are at most the
  budget's; that while the count is within the budget it is exactly what was
  handed out; that once it has passed the budget a refusal is recorded or on
  its way (`Passing`), and once it has passed it by more than one, a thread is
  about to correct it (`Correcting`). Of each thread (`ChargeOK`), what its
  place inside `charge` has established. The count is not monotone: the point
  is that once past the budget it never comes back within it, since every
  corrective store puts it at units + 1.
- `NeverPartial`: through `Recorded`: whenever an operation, open or ended, was
  refused a unit, its count has a refusal recorded, and the error it returned
  is that one (`FramesRecorded`, `OutcomeRecorded`).

`ThreadPoolProofs`, for pools of any size, any launchers and any nesting:

- `WorkersHeldOnce`: `OneHolder`. Its inductive invariant `Safe` adds to it
  that nobody walks the array while `Init` replaces it (`Placed`), that the
  caller of a nested launcher does nothing else (`Waits`, since a functor's
  steps would move the launcher's caller out of "nested" and free it twice),
  that a launcher has each worker once (`Distinct`) and only workers of the
  pool as it is (`Within`: otherwise a resized pool would have a worker that a
  launcher of the former pool still frees). `Apart` is `OneHolder` without
  counting; `Taking` and `Freeing` say what an exchange of the usage counter
  does to it.

- `JobsEndWithLoops`: `NoJobLeft`, and `FreeWorkersAreQuiet`: `NoStaleSignal`.
  Neither says enough of a worker that is locked to be inductive. Their
  invariant `Signals`, over `Safe`, gives, for each place of a launcher in its loop, the state
  its i-th worker is in: `Quiet` before the wake-up, `Assigned` between the job
  and the event, `Working` or `Finished` until it has been waited for, `Finished`
  between the wait and the reset, `Quiet` again after. A worker nobody's
  launcher has is `Quiet`, and one that `Init` releases has no job and is on its
  way out. `WorkersWait` keeps a worker whose functor made a launcher out of
  the other places; `Far` bounds each process in the array it walks, and ties
  `myShutDown` to the release. A step that moves one launcher or one worker
  disturbs nobody else's (`LaunchersFrame`, `WorkerFrame`), since a worker has
  its place with one launcher (`OnePlace`, from `Safe`).

- `LoopsKeepPromise`: `LoopSpec`, the refinement of `ParallelFor`, under two
  assumptions that the code needs. `Room`: each executor passes the end of the
  range once, so the largest `int` must leave the range that much room, or the
  counter wraps and an executor that comes late is given a negative index.
  `FirstFailure`: a launcher whose own thread may throw runs one loop, since
  the failure of its own thread is never reset (`ThrowsOwnFailures`, below).
  The invariant `Loops`, over `Signals`, says of each launcher: that its executors' thread
  indices are their places (`Numbered`, so calls at one time have different
  ones); that the counter is past the end by no more than the executors that
  will not ask again (`Counted`, by the cardinality of `Yet`, those that may
  ask: this is what keeps it from wrapping); and that the loop threw if and
  only if an executor that began it has its failure set (`Told`; a worker that
  was not woken yet still has the failure of its last loop, whence `Begun`).
  Then each step is one of `ParallelFor` (`PerformSeen`, `TakeSeen`, `EndSeen`,
  `ReportSeen`) or changes nothing it sees (`Unseen`).

`VisualizationProofs`, of `BvhBuilders`, for any number of builders, entities and calls: `TreesApart`,
`EventsTrue` and `WaitEmpties`, from `Safe`: who holds which mutex at each place
of the sentry (`Locks`), which builders run (`Running`), that an entity is once
in the list or in one hand (`Single`), and that a wait which came back left
nothing to take and one builder with nothing in its hand (`Drained`): whoever
set the idle event had an empty list and an empty hand, and neither fills before
the next `AddEntity`, which the waiting viewer would have to call.

`VisualizationProofs`, of `MediaPlayer`, for any inputs, packets and habits: `Typing`;
`FramesApart`, from `NoTearing` with `TypeOK`, inductive together;
`PicturesOwn`; and `Released`, from `ReleaseInv`: for the viewer that always
waits, the property's own condition, `SetInput`'s event and the thread's answer
are never both out (`Answering`: a last input is either answered, and then no
wake-up is left and the thread is past it, or not, and then it is on its way
and the answer is not set), the file is closed wherever the thread waits or
takes an input (`FileClosed`), and only the destructor ends it (`EndsAtLast`).

`ProgressProofs`, for any scale, steps, ranges and scopes, nested to any depth:
`ScaleConserved` and `ScaleParted`, from `ScaleInv`. `Conserved` alone is not
inductive, as places answered for twice would be given up once, nor is `Apart`
without what is known of the objects' numbers (`Objects`), of the root, which
takes the scale anew at each start (`RootStays`), and of where parts end
(`OnScale`). Each action hands a part on, divides it in two, or gives it to the
indicator; what the cardinality of the covered places does then is
`Cardinality` of intervals (`FiniteSetTheorems`). That `localToGlobal` is
monotone and stays within the portion, under both laws, are lemmas.

`KeptWorkProofs`, for any operations, any kept computations, caches, budgets and
nesting, if computations end (`EndsAssumption`: any set of computations has one
that uses none of the set):

- `EntriesWhole`: `KeptWhole`, from `Sound`. An entry is made of what a
  recording has when its computation ends, so `Sums` says, for every
  computation on the stack, that what is recorded of it and what it has left
  (`Ahead`, the rest of a replay in progress included) are its units, in order,
  as long as no unit was refused; and that nothing is marred then. `Stacked`
  and `Recorded` are the shape of the stack and of the recordings, one for each
  computation on it, `armed` included; `KeptRight` is what a hit relies on.
- `CountsAsPromised`: `CountsAlike`, the refinement of `CountedWork`, from
  `Sound` with `Counting`: while no unit was refused, what an operation has
  counted and what each call on the stack leaves to those below it are the
  operation's units; once one was, it is the first past the budget, or a
  cancellation or the deadline within it (`Stopped`). A hit then takes as many units from what is owed as
  the computation would (`CallGoing`, `PopGoing`, `UnitCounting`).
- What they rest on is about data: `Work` is defined by recursion over the
  computations, and records by recursion over their runs. `WorkRecursion` shows
  that `Work` has the values its equation gives, by the least computation it
  might fail for, which `EndsAssumption` provides; `PrefixRecursion` does the
  same over numbers, for `FlattenSeq` and `Extended`. Induction is by the least
  element of a set of numbers (`FromZero`, `FromEmpty`), as the library's
  theorems about it take operators.

`FunctionProofs`, for any labels, arguments and numbers, or any functions, any
graphs and any threads:

- `Typing`, `NoneDangling`, `LinksMutual`, `LinksExact` and `NoneHalfDeleted`
  from `GraphSafe`, their conjunction with `NoneToItself` (no function is linked
  to itself). None is inductive alone: deleting a function removes its number
  where its own links say, so that a link known to one side only would dangle
  (`Forgetting`); a deletion throws only at a number no function has, so that
  `NoneHalfDeleted` needs `NoneDangling`; and an update is whole only if every
  function has its attribute, so that what it leaves needs `NoneHalfDeleted`.
- `TakenInOrder` and `NoneTwice`, from `Tied`: with the status, what was begun
  and ended is what the nodes' statuses say, and what is current or begun, or
  was found by a `Next` that is not through yet, has its arguments; without it,
  only what was passed is begun. What `Next` read stays true while it reads on,
  as a function that is through remains so (`ReadSafe`).
- `AllRegenerated`, that is `Regenerated`, from `Tied` and `Propagated`: of the
  functions taken up those were executed that had to be, by their own arguments
  or by another's execution, and all of them are in any set that holds the
  modified ones and is closed along the graph. `Stale` is the least such set
  (`StaleLeast`), and closed because a step that adds no function is the last
  that could (`StaleClosed`, by the number of functions); once every function is
  through, the executed ones are closed too.

`DocumentProofs`, for any tree of labels, slots, values, attribute objects,
modes and limits, careful applications or not, and any depth of commands:
`NothingLeft`, that is `NothingLeftOpen`. A commit clears what it visits, and it
visits what the labels' flags lead it to, so the invariant is about the flags:
`Chain`, a label flagged `MayBeModified` has its ancestors flagged, without
which `Reached` would miss labels; and `AttributeSound`, an attribute touched
since the transaction opened has its label flagged both ways, one not touched
has no backup and is not forgotten. `Sound` is both; `Frames(S)` are the
frameworks that are sound and whose objects `S` have been in a slot, and each
operation of `DataFramework` maps it to itself (`AddToFrame`, `ForgetFrame`,
`ModifyFrame`, `ApplyFrame`, `CommitFacts`, `UndoFacts`, `AbortFrame`...). The
document's lists come in because undoing applies them: `Stored(S)` are the
deltas whose parts are finitely many and whose removals name objects of `S`,
which a delta keeps alive (`BecomeInv`), and in the nested mode an open
transaction has a compound delta (`Documents`). Four definitions are recursive,
and their equations are proved where they are used: `Reached` goes down the tree
(`ReachedMarked`), `Marks` goes up it (`MarksFacts`, which `TreeAssumption`'s
well-foundedness provides), `ApplyAll` folds over a finite set (`FoldTyped`),
`AllAborted` aborts one command after another (`PrefixRecursion`).

`DocumentUndoProofs`, for any tree of labels, slots, values, attribute objects,
modes and limits and any depth of commands, and for a careful application:
`NeverFailing`, that is `NeverFails`, and `PromiseIsKept`, that is
`PromiseKept`, the refinement of `UndoStack`. `Careful` is a hypothesis and not
an assumption about the code: without it both fail, as "What the models found"
tells. The lemmas about frameworks, lists of deltas, commits and aborts are in
`DocumentProofs`, and hold of every application.

Neither property is inductive: that the next undo applies says nothing of the
one after it. Their invariant is `Keeping`, that the document is in `Kept(S)`
for the objects `S` that have been in a slot, and its parts are:

- `Fine`, of the framework: two attributes of one slot are one that the
  transaction forgot and one that it added (`Distinct`); `Start` is what the
  document held when the transaction opened, and each attribute tells it.
- `Piled`, of the lists. A delta `Fits` between two contents if each of its
  parts finds what it changes and leaves what it promises, and is `Whole` if
  the objects its removals attach again are detached and have the promised
  values. The compound deltas of the open commands lead from `Start`, one after
  another and at the right times, to what the outermost command started from;
  from there the redos lead on one way, and the undos the other (`Stacks`). A
  detached object is named by one removal of one list, or attaching it would
  break another delta (`Apart`).
- `Tuned`: the open transaction knows when and from what it began.
- `Spares` and `Layered`: what a compound delta forgot or changed, the commands
  inside it neither forget nor add. It is what being careful gives, and why one
  delta may be made of two (`BlendedHere`): for each slot the older part, which
  alone leads back past both.
- `Shaped`: in the nested mode a transaction is open when a command is.

A framework's undo is a fold over the parts of a delta in an order that nobody
fixes, but for the removals coming last: `Halfway` says what is seen after any
number of them, and `Replay` that the delta made on the way leads back
(`FixOrder` is what keeps an attribute from being attached where another is).
A commit leaves a delta that `Fits` from what is now to `Start`; an abort leaves
`Start`; a list shortened from its far end leads where it led (`Slice`); a
compaction keeps the first part of each slot of what it merges, by induction
over how many deltas were looked at (`Upto`).

`PromiseIsKept` rests on `Keeping`: then `Opens`, what the open commands started
from, `Backing`, what stored deltas bring back, and `Outermost` are
`UndoStack`'s `open`, `undos` or `redos`, and `Base`, and each call is one of its
steps (`OpenCommandShown`, `CommitCommandShown`, `UndoCommandShown`...). An undo
aborts all that is open first, one command after another, so that what it finds
is `Outermost` (`AllAbortedKept`).

The proofs about documents assume of the constants that labels are a tree, that
objects are finitely many and that `None` is no value, object or slot
(`TreeAssumption`).

Every invariant and action property that a passing run checks is proved, and so
are the three refinements, of `CountedWork`, `ParallelFor` and `UndoStack`, under
the hypotheses named above. Only model-checked is liveness (`CancellationLands`, `LoopsReturn`, `ReinitReturns`,
`WaitReturns`, `QueuedIsBuilt`, `CallsReturn`, `IterationEnds`), which is out of
the prover's reach. `SavedDocument` is there for a property that fails.

## What the models found

Two disagreements are kept as runs:

- `document_saved`: save, undo, commit another command: the time is that of the
  saving, and `IsChanged` is false.
- `bvh_stop`: a builder that looked at the stop flag before `StopThreads` set it
  finds the list empty and resets the wake event it was to be stopped with; the
  destructor waits for it for ever.

Others are stated in the modules, under a heading that says so, or follow from
dropping a condition of a property. No run checks them; each can be seen by the
change named here to a configuration.

| Statement | What the code does | What is said of it | To see it |
|---|---|---|---|
| `Budget!ReportsAtMostOneOver` | a cancelled charge reports `spent()` while another thread's overshoot is not corrected (`src/rust/kernel/src/budget.rs:208`) | `src/rust/BUDGETS.md:110` "no operation exceeds its budget by more than the one refused unit" | `MCBudget.cfg` with two units |
| `ThreadPool!ThrowsOwnFailures` | the caller's own failure flag is not reset between the loops of one launcher (`OSD_ThreadPool.cxx:48`) | `OSD_ThreadPool.hxx:54` "Launcher will throw Standard_Failure in a caller thread on completed execution" | `MCThreadPool.cfg` with `Launchers = {a}`, `Throwers = {a}`, `MaxPerforms = 2` |
| `Document!UndoWithoutExceptions` | a command forgets an attribute, a nested one adds another of the same ID; aborting the outer command throws (`TDocStd_Document.cxx:830`) | `TDF_Data.hxx:155` "Fixes order of Attributes' Deltas to perform undo/redo without exceptions" | `MCDocument.cfg` with `Careful = FALSE`, `Modes = {TRUE}` |
| `Document!UndoneWhenStored` | compacting when no delta follows the marked one appends an empty delta that never applies; the next `Undo` dereferences null (`TDocStd_Document.cxx:729`) | `TDocStd_Document.hxx:158` "Will UNDO one step, returns False if no undo was done (Undos == 0)" | `MCDocument.cfg` with `Careful = FALSE`, `Modes = {FALSE}` |
| `BvhBuilders!WaitMeansBuilt` | with two builders, one that took the last entity and does not hold its own mutex yet is not waited for (`SelectMgr_BVHThreadPool.cxx:128`) | `SelectMgr_BVHThreadPool.hxx:97` "Waits for all threads finish their jobs" | `MCBvhBuilders.cfg` |
| `MediaPlayer!InputReleased` | the event that answers an earlier `SetInput`, or a wake-up for another event, brings back the one that waits (`Media_PlayerContext.cxx:517`) | `Media_PlayerContext.hxx:132` "released file handles of previous input" | `MCMediaPlayer.cfg` |
| `MediaPlayer!InputIsTaken` | `Pause` overwrites the event of `SetInput` that the thread has not read: the old file pauses (`Media_PlayerContext.cxx:302`) | `Media_PlayerContext.hxx:65` "Set new input for playback" | `MCMediaPlayer.cfg` |
| `MediaPlayer!UsesLiveQueue` | frames and mutex, declared after the player, are destroyed before its thread ends (`Graphic3d_MediaTextureSet.hxx:93`) | `Media_PlayerContext.hxx:58` "it is expected that this context is stored as a class field of Frame Queue" | `MCMediaPlayer.cfg` |
| `Progress!Conserved` without `dropped` | a range that is assigned over does not advance the indicator (`Message_ProgressRange.hxx:63`) | `Message_ProgressIndicator.hxx:45` "will automatically advance the indicator if it is not passed to any Message_ProgressScope" | `dropped` dropped from the sum |
| `FunctionIterator!InOrder` without the status | a function reached by a short way is returned before its other arguments (`TFunction_Iterator.cxx:228`) | `TFunction_Iterator.hxx:53` "returns the functions following their dependencies" | its condition on `usesStatus` dropped |
| `FunctionIterator!IterationEnds` for models in part up to date | `More` asks the whole scope, `Next` goes on from roots that are not executed: none may be left (`TFunction_Iterator.cxx:142`) | `TFunction_Iterator.hxx:70` "Returns false if the graph of functions is fully iterated" | its condition `NothingDone` dropped |
| `FunctionGraph!DeletionCompletes` | a function created anew where it was and then deleted leaves its number with its former neighbours; deleting one of these throws half way, and every update of the whole scope throws until it is created again (`TFunction_IFunction.cxx:34`, `:70`) | `TFunction_IFunction.hxx:48` "It deletes the functions from the scope of function of this document." | `MCFunctionGraph.cfg` |
| `FunctionGraph!OneUpdated` | the member `UpdateDependencies` adds links and removes none (`TFunction_IFunction.cxx:246`) | `TFunction_IFunction.hxx:68` "Updates the dependencies of this function only" | `MCFunctionGraph.cfg` |

## Not modelled, and why

- Thread pool: a thread that cannot be created, `Perform` after `Release`, the
  pool's destruction, the answer of `IsInUse`, and which failures the message
  of an exception names: a loop throws or returns.
- Kept computations: the validator's cache (`mass.rs`), emptied when full; two
  budgets nested around one recording.
- Media player: decoding, durations, the callback that asks for a redraw,
  `DumpFirstFrame`, which uses no thread.
- Function mechanism: the table of drivers; the logbook as an attribute, whose
  `Restore` only adds to what it has; `GetMaxNbThreads`, which iterates with a
  scope that was never set.
- Data framework and documents: attribute order, closures, copying, access by
  entries, attributes' own callbacks; closing a document; transactions inside a
  document's.
- Geometry, files, rendering (see the inventory): most of the repository. They
  have no order, no interleaving and no state between calls for a finite model
  to check.

## Plan

Written, in this order: `Budget` (the kernel's one shared mutable state) and its
proofs; `KeptWork` against `CountedWork`; `ThreadPool` against `ParallelFor`;
`DataFramework` and `Document` against `UndoStack`; `BvhBuilders`,
`MediaPlayer`, `Progress`, `FunctionIterator` and `FunctionGraph`; the proofs of
all, those of `ThreadPool`, `KeptWork` and `Document` with their refinements.

Next:

1. Transactions inside the document's in `DataFramework`, with
   `ResumeAttribute` (hazard at `TDF_Label.cxx:655`).
2. `FunctionIterator` over a `FunctionGraph` that changes between iterations.
3. `MultiTransaction`: `TDocStd_MultiTransactionManager` over several
   `Document`s, against `UndoStack` for the whole, with one document failing;
   references between documents (`CDM`).
4. `History` and `Lineage`: composition of histories in the Rust kernel as
   operators, against a reference definition over bounded bodies.
5. `ParallelRange`: `OSD_Parallel` on `ThreadPool`'s promise, `ParallelFor`.
6. The validator's cache in `KeptWork`.
