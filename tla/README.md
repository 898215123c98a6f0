# TLA+ models of SwiftUSD

SwiftUSD is a packaging of Pixar's OpenUSD (with its execution system, OpenExec)
for Swift: about 9700 files, most of them C++ libraries under `src/Sources`, with a
layer of Swift products on top.  This directory holds TLA+ models of the parts whose
correctness depends on the interleaving of threads and on the order of steps, TLC
configurations that check them on small instances, and proofs for every value of the
constants.

The modules model the code as it is.  `PROJECT.json` maps every definition to the
lines it stands for.

## 1. Inventory

| Part | State it keeps | Operations and interactions | What is hard |
|---|---|---|---|
| Base: Arch, Tf, Gf, Js, Trace, Plug, Vt, Ts | Token and type registries, notice listeners, plugin tables, copy-on-write arrays | Called by everything; `TfNotice` calls back listeners; `TfRegistryManager` runs registry functions as libraries load | Reference counts, lock upgrades (`TfBigRWMutex`), re-entrant registration |
| **Work** | Per-dispatcher task group and error list, wait flag, reference counts of tasks | `Run`, `Wait`, `Cancel`; singular tasks (`Wake`), task graphs with recycled tasks, detached tasks | A wake-up that meets the end of a run, `Wait` from two threads, a recycled task that is run again |
| Ar, Kind, Sdr | Resolver contexts, registries | Resolve and open assets; called by Sdf and Usd | Scoped caches per thread |
| **Sdf** | **Layer registry**, layer data, thread-local lists of changes, path node tables | `FindOrOpen`, `Reload`, edits within change blocks, notices to Pcp and Usd | Several threads open one layer; initialization that fails half way; listeners that edit |
| Pcp | Prim indexes, layer stacks and their registry, dependencies | Composition from Sdf layers, change processing from Sdf notices | Two threads create one layer stack; dependency tables in step with the indexes |
| Usd and its schemas, UsdUtils, UsdValidation | Stages: prims, instance cache, load rules, clips; stage cache | Composes with Pcp in parallel, sends notices; read by UsdImaging and Exec | Registration of instances from worker threads, applied later in one place |
| Vdf, Ef | Data-flow networks, schedules, executors and their buffers, page caches | Evaluation in parallel with claimed tasks and wait lists | The same claim and wait protocol as Exec, over recycled tasks |
| Esf, EsfUsd, ExecGeom, ExecUsd | Adapters from Exec to the stage | Value lookups, journaling of what was read, change notices | Journals complete enough for invalidation |
| **Exec** | Compiled network and output cache, per round: compilation tasks, claims and wait lists, cycle detector; between rounds: requests, invalidation | `Compile` starts a round on the dispatcher; tasks create subtasks, claim keys, wait for each other, delete themselves | Lost wake-ups, re-entry, use after deletion, deadlock among tasks and its detection |
| **Exec definition registry** and Swift bridge | Computations per schema, which schemas are complete, composed definitions | Registration by registry functions of linked libraries and plugins, or through the C bridge from Swift; lookups compose and cache definitions | Construction behind a singleton and a barrier; a worklist that threads of other registries share; completeness after the first computation |
| **Hd** | Render index, change tracker, scene indices, resource buffers; **`HdRenderThread`** | Sync, then execute; render delegates run a background thread that is started, stopped and paused | Stop requests that race with the end of a frame; edits during a render |
| hdEmbree (`src/Sources/Plugin`) | Scene version, tiles, framebuffer | Restarts the render thread when the scene version has changed | Polls for stop and pause from its loops |
| Garch, Hgi and back ends, Hio, Glf, PxOsd, CameraUtil, GeomUtil, HdSt, HdStorm, Hdx, HdGp, HdSi, HdAr, HdMtlx | GPU resources, command buffers, garbage lists | Driver calls, per-frame submission and collection | Resources freed while commands in flight use them |
| UsdImaging, UsdImagingGL, UsdShaders, UsdBakeMtlx and others | Tables from prims to scene index prims | Translate stage notices into render index changes | Order of notices |
| Swift layer: PixarUSD, PixarMacros, the OpenUSD tool, UsdView, Examples | View state, frame semaphore | Wrap the C++ libraries | A frame that is started and not ended |
| Python bindings | None of their own | Wrap the C++ libraries | The interpreter lock |
| Vendored code (MaterialX, Pegtl, ThirdParty) | | | Not this project's code |

Properties that make the parts correct, by part:

* *Exec task sync*: a key is claimed once; a task that waits is woken exactly once and
  never while it runs; the output is there when it wakes; nobody holds a pointer to a
  deleted task.
* *Exec compilation*: a round over an acyclic graph completes; nodes are compiled after
  their inputs; a round that cannot make progress is reported, and only such a round.
* *Hd render thread*: no scene edit during a render; a start is never lost, a stop never
  hits a later frame, every stop returns.
* *Work*: a wake-up leads to a run that begins after it; `Wait` returns only when every
  task has run; a recycled task is run once per recycling.
* *Vdf evaluation*: as Exec task sync, with reference counts of recycled tasks.
* *Sdf layer registry*: one layer per identifier; a thread that finds a layer gets it
  only initialized, and does not wait for ever.  *Change manager*: every change is in
  exactly one notice.
* *Pcp layer stacks, Usd instance cache*: the maps between instances and prototypes are
  inverse to each other and do not depend on the order of registration.
* *Exec definition registry*: no computation is registered after its schema was declared
  complete, whoever registers; a definition that is cached has every computation.
* *Crate output*: the file holds what was written last at each position, or an error is
  posted, although buffers are written by another thread while the saver goes on.

## 2. Modules

| Module | What it is |
|---|---|
| `TaskSyncSpec` | What the task sync promises: each request for a key is told Claimed, Wait or Done; waiters are released once, after the key is done |
| `ExecTaskSync` | `Exec_CompilerTaskSyncBase` and the part of the tasks that use it, one action per atomic operation; refines `TaskSyncSpec` |
| `ExecTaskSync_proofs` | Theorems about `ExecTaskSync`, the refinement theorem among them |
| `ExecBusyCounter` | The word of the cycle detector that packs two signed counters |
| `ExecCompilation` | A round of `Exec_Compiler::Compile`: all kinds of tasks, stacks of nested invocations, the cycle detector |
| `ExecCompilation_proofs` | Theorems about the task graph of `ExecCompilation` |
| `ExecCycleDetector_proofs` | Theorems about its cycle detector: the counters, the alarm, and the rounds without one |
| `ExecDefinitionRegistry` | The construction of `Exec_DefinitionRegistry`, the registry functions that fill it, and lookups |
| `ExecDefinitionRegistry_proofs` | It is constructed once, and cached definitions are complete |
| `HdRenderThread` | `HdRenderThread`, the application and the syncing threads that use it, and a render callback |
| `HdRenderThread_proofs` | Theorems about `HdRenderThread` |
| `SdfLayerRegistry` | Opening, finding, creating and destroying `SdfLayer` objects from several threads |
| `SdfLayerRegistry_proofs` | Theorems about `SdfLayerRegistry` |
| `WorkSingularTask` | `WorkSingularTask`: a task that never runs concurrently with itself |
| `WorkSingularTask_proofs` | It does not, and it loses no `Wake` |
| `CrateBufferedOutput` | The buffered output of a crate file: a saver, and a singular task that writes its buffers; extends `WorkSingularTask` |
| `CrateBufferedOutput_proofs` | The buffered output uses the singular task as specified |
| `MCExecTaskSync`, `MCExecCompilation`, `MCExecDefinitionRegistry`, `MCSdfLayerRegistry`, `MCCrateBufferedOutput` | Task graphs, registry functions, symmetry for TLC |

A definition whose comment begins "As a bug would have it" is a deliberately wrong
variant of the definition after it; no `Next` uses it.  Each one is what a property
must notice.

### ExecTaskSync

An input resolving task resolves to a sequence of output keys and asks for each in turn;
`slot` is the one it is at, `result` what it was told.  State and code:

| TLA+ | Code (`compilerTaskSyncBase.cpp`, `compilationTask.cpp`) |
|---|---|
| `state`, `waiting` | `_Entry::state`, `_Entry::waiting`; `NotifiedTag` is the sentinel head |
| `numDependents`, `dispatched`, `taskPhase` | `_numDependents`, tasks given to `WorkDispatcher::Run`, `_taskPhase` |
| `pc` | where the task is inside `operator()`: `Lookup` the output cache, `Load`/`Cas` in `_Claim`, `Head`/`Push` in `_WaitOn`, `Release` at the end of `operator()`, `Populate` phase 2 |
| `pub`, `notify` | the output providing task of a claimed key: `CompileNode`, `_MarkDone`, `_CloseAndNotify`, the final `RemoveDependency` of its parent |

Abstractions, each of them sound for the properties stated:

* A waiting list is the *set* of its nodes.  The list only grows until it is closed and
  its nodes are not freed within a round, so a compare-exchange on the head pointer
  succeeds iff the set has not changed.  (No ABA: a node is pushed once.)  Notification
  is in any order, a superset of the list's order.
* A spurious failure of the weak compare-exchange changes nothing but the copy of the
  head, which it reloads: it is a stutter.
* The increment of `numDependents` that precedes the loop of `_WaitOn` is part of
  reading the head: the task runs, so its count is at least 1, nobody can observe the
  count between the two, and other tasks only decrement it.
* Memory is sequentially consistent.  The orders the code asks for are left to a later
  step of the plan.
* The publisher of a key compiles "at any time after the claim": what it depends on is
  the subject of `ExecCompilation`.

### ExecCompilation

Tasks are named by what they compute: a root, an output key, or `<<owner, i>>` for the
i-th input of an owner.  A thread is a stack of frames of `operator()`, because a task
invokes its last subtask, itself or its parent recursively until `depth` reaches
`MaxDepth` (50 in the code).  `local` are the thread's counters of
`Exec_TaskCycleDetector`, `blockedTasks` and `packed` the shared ones; `packed` is the word
of `_BusyThreadsAndUnblockedTasks`, which `ExecBusyCounter` adds to and unpacks as the code
does: two counters with a bias, amounts that may be negative, arithmetic modulo the word.
`Bias` is 2^31 in the code and 64 in the runs, where there are 18 tasks: it has to be more than twice
the number of tasks (`CountersAssumption`), which the code takes for granted.
`FlushBlocked` and `FlushBusy` are the two steps of `EndThreadBusy`, in the order
of the code.  `aborted` is the fatal report.

Claiming a key, waiting for it and marking it done are single actions here, and the lookup in
the output cache is one with the claim.  That is justified by `ExecTaskSync`, which implements `TaskSyncSpec`
and has the lookup as a step of its own, so that the window between a miss and the claim is
there; the notifications of the
waiting tasks stay separate steps because they run tasks.  The task graph is a constant:
what an input resolves to depends on the scene, which does not change in a round.  A round
is one of `Rounds`, the sets of roots that may be asked for.
The main thread creates the roots one after the other and does not run tasks meanwhile,
while other threads may already run the first ones.  The code creates them in a parallel
loop, inside a busy scope of the main thread that encloses the loop: as in the model, the
count of busy threads cannot reach 0 before the last root has been created.  A thread does
not pick up another task inside a frame of `operator()`; nothing in there waits for the
dispatcher.

### HdRenderThread

Three kinds of actors: the application thread, which alternates sync and execute and
starts, stops, pauses; the threads of a sync (`Hydra`), which call
`AcquireSceneForEdit` (that is, `StopRender`) before each edit, several at a time; and the render
thread, which holds the mutex during the callback.  The
callback is the one the header and the render delegates describe: wait while paused,
poll for stop, render, end the frame unless the pause state changed.  `_rendering`,
`_stopRequested`, `_enableRender`, `_pauseRender` and `_pauseDirty` are variables of
the same names; `stopAsked` and `polledPause` are history variables.  The mutex of the
framebuffer guards data only and is left out.

### SdfLayerRegistry

Threads call `FindOrOpen`, `Find` and `CreateNew` for identifiers, and drop what they
got when they like.  State and code (`Sdf/layer.cpp`):

| TLA+ | Code |
|---|---|
| `registry`, `identifier` | `_layerRegistry`, and the identifier of a layer |
| `readers`, `writer`, `queue` | `_GetLayerRegistryMutex()`, a `tbb::queuing_rw_mutex` |
| `life` | `Alive` while the reference count is positive, `Expiring` from its last decrement until `~SdfLayer` has erased the layer from the registry |
| `complete`, `success` | `_initializationComplete`, `_initializationWasSuccessful` |
| `pc` | where a thread is: `FindAsReader`, `Upgrade`, `FindAsWriter` in `_TryToFindLayer`, `Open` and `Read` in `_OpenLayerAndUnlockRegistry`, `Create` and `Save` in `_CreateNew`, `Finish` between the two stores of `_FinishInitialization`, `WantDestroy` and `Destroy` in `~SdfLayer` |
| `ref`, `dying` | the reference a thread holds, the layer whose destructor it runs |

`Take` is a lookup whose `AddRefIfNonzero` succeeds; `NeedsWriter`, `UpgradeAtOnce` or
`UpgradeReleased`, and `Evict` are the other way through `_TryToFindLayer`: an expiring
layer is found, the lock upgraded (with a second search when it was released in between) and
the entry erased.

Abstractions:

* A layer has one key.  The registry indexes layers by identifier, repository path and
  real path; which of them a search uses depends on the resolver, which is data.
* The reference count is the number of threads that hold the layer.  A thread holds at
  most one; a second reference of the same thread would only keep the layer alive.
  `Find` returns a weak pointer: its reference is dropped at some time after the search.
* The mutex serves waiting threads in the order of their arrival, as a queueing mutex
  does.  Whether an upgrade succeeds at once or releases the lock is
  nondeterministic.  Between two steps under the lock nothing is assumed but what the
  lock gives.
* A layer object is used once, so that memory that is freed and allocated anew is not
  taken for the old object.
* What can go wrong is said per identifier: its asset may fail to be read (`Unreadable`),
  its reading may throw (`Throwing`), its first save may fail (`Unsavable`); an asset that
  cannot be resolved, or that no file format reads, is `Missing`.

### ExecDefinitionRegistry

The registry is a singleton that threads ask for when they look up computations.  State
and code:

| TLA+ | Code |
|---|---|
| `instance`, `initializing` | `TfSingleton::_instance` and `isInitializing` of `_CreateInstance` (`Tf/include/Tf/instantiateSingleton.h`); `built` counts the calls of the constructor |
| `open`, `barrier`, `sleeping` | `Exec_RegistrationBarrier`: flag, mutex, waiters of its condition variable |
| `functions`, `worklist`, `mutex` | `TfRegistryManager`: functions nobody has subscribed to, the shared worklist, the mutex that is released while a function runs (`running`, `left`) |
| `loader`, `loaded` | the lock of `PlugPlugin::Load` and its result |
| `definitions`, `recorded` | the computations per schema, and `_computationsRegisteredForSchema` |
| `composed`, `found` | the cache of composed definitions, and the one a thread is composing |
| `script`, `rejected` | what the application registers through `Exec_Swift_RegisterComputation`, and what that refused |

A thread's `pc` says where it is: `Create` to `Built` in the singleton, `Loop` to `Relock`
in the registry manager, `Barrier` to `Sleep` in the barrier, `Find` to `Emplace` in a
lookup, `Register` and `Complete` in the Swift bridge.  `Others` are threads that enter the
registry manager on behalf of another registry; they take functions from the same worklist.

A computation is a pair of schema and name.  The tables for attribute and dispatched
computations are filled and searched like the one for prims and are not told apart;
builtin computations are registered by the constructor and cannot be missed.  One plugin
stands for all: each has its own lock and its functions reach the same worklist.

### WorkSingularTask and CrateBufferedOutput

`WorkSingularTask` has one action per atomic operation: the increment of `Wake`, the `Run`
of the dispatcher by whoever incremented from 0, and in the task the load, the call of the
function and the compare-exchange of the count to 0.  `due` is history: a wake-up was counted since the
function last began.

`CrateBufferedOutput` extends it: `_BufferedOutput` (`Usd/crateFile.cpp`) has one waker,
the saver, and its `_DoWrites` is the function of the task.  Each of its steps is a step of
the singular task or leaves it alone.  The saver's calls are `Write`, split as the code
does when a buffer is full, `Seek` (`Align` seeks, too), which stays in the buffer or
flushes it, and `Flush`, the last call.  A buffer is `buffer` (the saver's), in
`freeBuffers`, in `writeQueue` or with the thread that writes it (`op`).  The bytes of a
call are told apart by a stamp, the number of the call.  `Store` is what the asset does with
a write (`ArFilesystemWritableAsset::Write`, `Ar/filesystemWritableAsset.cpp:72`): it stores all bytes, or,
as `ArchPWrite` repeats a short write until an error, a prefix of them and returns 0.  The second is
`WriteOpShort`; the error is the task's until it ends, then the dispatcher's, and
`WaitReturns` posts it to the saver.  When there is no free buffer the saver waits for the
dispatcher and may run the task itself.

## 3. Runs

| Run | Instance | What it shows |
|---|---|---|
| `exec_task_sync` | Three tasks, two keys asked for in crossed order, one of which cannot be compiled | Exact counts, no re-entry, no lost wake-up, unique claims, no dangling pointers; outputs are there when read; every task completes or waits for the failed key; `TaskSyncSpec` is implemented with its fairness |
| `exec_compilation` | Two threads, two roots: over an acyclic graph with sharing, or over two keys that need each other and a leaf | The acyclic round completes, in dependency order, with exact counters; the detector fires for the cycle, and only when no task can run |
| `exec_compilation_nullnode` | The acyclic graph with a key that cannot be compiled | *Violation*: a cycle is reported that does not exist (finding 1) |
| `hd_render_thread` | Two syncing threads, three edits, two starts of the thread | Edits exclude renders; starts, stops and frames are neither lost nor stale; stops return |
| `hd_render_thread_pause` | As above, one edit | *Violation*: a change of the pause state is not reported (finding 2) |
| `sdf_layer_registry` | Two threads, three layer objects, three identifiers: one missing, one that may fail to be read, one that may throw and may fail to be saved | One live layer per identifier, always registered; no dangling entry or reference; callers get initialized layers only; nobody waits but for a layer that threw or was not saved; every other call and destructor ends |
| `sdf_layer_registry_throw` | Three threads, one identifier, three layer objects, reads throw | *Violation*: a thread waits for ever (finding 3) |
| `sdf_layer_registry_save` | As above, saves fail and reads do not throw | *Violation*: the failed layer is not destroyed (finding 4) |
| `exec_definition_registry` | Two threads that look up two keys, one of which may register from Swift first, for a linked schema or one without a function; two linked schemas, one in a plugin, one without a function; a thread of another registry | One construction; a cached definition is complete unless that thread ran one of its functions; every call returns |
| `exec_definition_registry_other` | As above, nothing registered from Swift | *Violation*: the barrier opens while a function still runs (finding 5) |
| `exec_definition_registry_swift` | Two computations registered from Swift for one schema | *Violation*: the second one is refused (finding 6) |
| `crate_buffered_output` | A saver and a worker, three buffers of two bytes, five positions, three writes or seeks, one short write | One writer at a time; the file holds the last write at each position or an error is posted; every call returns |

**Bounds.**  Three tasks and two keys give every race of the protocol: two claimants, a
waiter that meets the close, two waiters on one list, a task that is claimant and
waiter, and two claimants that wait for each other's keys; the key that fails leaves its
waiters waiting.  In the compilation run the
graph has a shared leaf, a key wanted through two paths, a task with two inputs, and
`MaxDepth` 1, so that both the nested and the dispatched branch of each invocation are
taken; in the cyclic round one of the roots also asks for a leaf, so that the round
ends after work elsewhere.  A third thread would only add to the counters.
The render thread has no counters: three edits allow a stop in every state of two
consecutive frames, two restarts allow a thread that is stopped and started again, and
one spurious wake-up covers the loop of the condition variable.  `MaxEdits`,
`MaxPauses`, `MaxRestarts` and `MaxSpurious` bound the environment only.
In the layer registry a call begins only while an unused layer object is
left for it, so that a behaviour makes at most as many layers as there are objects: with
two threads and three objects one of them destroys a layer while the other opens its
successor, or finds either.  The proofs cover more threads.
In the definition registry the stronger schema of a key overrides a name of the weaker one,
both keys want the plugin's schema, so that one thread loads it while the other waits for
the lock or composes, and the thread that registers from Swift may be the one that
constructs.  A thread wakes spuriously once, another registry's thread comes once, and
lookups begin after the Swift registrations, as their documentation asks for.
Three buffers are one being filled, one queued and one being written.  Two bytes each and five
positions make a write span buffers and a seek come back to a buffer that is
pending, so that writes overlap across buffers; three calls are the shortest such story
and one more; one short write meets each of the stages.

**Deadlock** is checked in every run but `crate_buffered_output`: a save ends, and then
nothing happens any more.

**Fairness.**  Weak fairness of a running task and of a publisher: the operating system
runs every thread, and the dispatcher runs what it is given.  In `ExecCompilation`, of
every thread.  In `HdRenderThread`, of the render thread and of calls already begun;
nothing is assumed of what the application chooses to call, so that a render paused for
ever stays paused.  In `SdfLayerRegistry`, of a thread inside a call or a destructor;
the two steps by which a thread can take the lock are separate from the others only for
readability.  Callers need never call, nor drop what they hold.  In
`ExecDefinitionRegistry`, of every thread that is inside a call; calls and spurious wake-ups
are not promised.  In `CrateBufferedOutput`, of the saver, of a task that has been started, and of
the saver taking up the task while it waits for the dispatcher; workers need not take up
any, since the concurrency limit may be 1.

**Properties that are only true under a condition** say so: a task that waits for a key
whose compilation failed is `Stranded`, a thread that waits for a layer nobody initializes is
`Stuck`, and `RendersEnd` is about renders that
are not paused.

## 4. Findings

1. **A failed compilation is reported as a task cycle.**  `taskCycleDetector.h:31-33`
   says that tasks left blocked mean a cycle.  `outputProvidingCompilationTask.cpp:79-81`
   returns before `_MarkDone` when the node is null (an invalid metadata key does that,
   `builtinObjectComputations.cpp:72-76`), and the tasks that wait for the key stay blocked:
   the detector ends the process.  It takes two tasks that want the same key.
2. **A change of the pause state can be missed.**  `PauseRender` stores `_pauseDirty`
   before `_pauseRender` (`renderThread.cpp:108-109`).  A poll between the two consumes the flag while
   the value is still the old one, contrary to `renderThread.h:241-242`.
3. **A read that throws leaves waiting threads spinning.**  `layer.cpp:3459-3462` demands
   that `_FinishInitialization` be called on every way out.  An exception from `_Read`
   (line 3492) is caught in `FindOrOpen` (lines 839-841), which does not call it; a thread that found
   the layer meanwhile spins at line 281, keeps the layer alive, and every later call for
   the identifier joins it.  `OpenAsAnonymous` (lines 914-917) does it right.
4. **A layer whose first save failed can survive.**  `layer.cpp:622-623` says that
   dropping the reference destroys the layer.  The lock is released before that (it has
   to be: the destructor takes it), and another thread may find the layer in between.
   Its initialization never ends, with the consequences of finding 3.
5. **The registry can open before its computations are registered.**
   `definitionRegistry.h:66-68` has `GetInstance` ensure "that all currently-loaded plugins
   have registered their computations".  The registry manager runs each function with its
   mutex released, and a thread that initializes another registry takes functions from the
   same worklist (`registryManager.cpp:474-488`).  The constructing thread then finds the
   worklist empty and opens the barrier while a function still runs; a lookup may record the
   schema as one without computations, and what the function registers is refused.
6. **A Swift program can register one computation per schema.**  `swiftBridge.h:186` has
   `Exec_Swift_RegisterComputation` fail for an invalid schema type and the like.
   `swiftComputationBridge.cpp:237` declares the schema complete after each
   registration, so that the second one is refused (`definitionRegistry.cpp:494-501`); and a
   plugin that registers for the schema is not loaded any more.

Not a run, because no property of a run is about it: `crateFile.h:925-927` says that
`Close` returns true "if the writing completed successfully", but `_Write` returns true
(`crateFile.cpp:2743-2790`) also when the writer task's write has failed; the error
that `Wait` posts is the only sign.

Nor is this one, because renaming is not modelled: `layer.cpp:2653-2655` says that a write
lock on the registry is held when `SetIdentifier` calls `_InitializeFromIdentifier`.  It is
when `_Find` found no layer; when it found the very layer that is renamed (the case the
comment at 2636-2640 allows), `_TryToFindLayer` has released the lock
before it returned (`lock.release()`), and the registry is updated without it.

## 5. Proofs

`ExecTaskSync_proofs` proves, for all `Tasks`, `Keys`,
`OutputKeys`, `Cached` and `Failing`, the theorems listed in `PROJECT.json`:
`TypeCorrect`, `CountCorrect`, `NoReentrance`, `WakeupsKept`, `OutputsFound`,
`ClaimsExclusive`, `DeletionSafe`, and `SafetyRefinement` (the initial states and every
step of `ExecTaskSync` are initial states and steps, or stutters, of
`TaskSyncSpec`).

*Assumptions.*  `KeysAssumption` (each task resolves to a sequence of keys) and
`SentinelAssumption` (the sentinel is no list, `NoNode` no node), both declared in
`ExecTaskSync` and evaluated by TLC.  `Tasks` and `Keys` may be infinite; the set of slots of one
task is finite because a sequence is, and the counting argument needs no more.

*The argument.*  None of the properties is inductive by itself.  The invariant `IInv` is
the conjunction of `TypeOK`, of a statement per key (`KeyOK`: what `state`, `waiting`,
`compiled`, `parent`, `notify` are where the publisher is), per node (`NodeOK`: where a
request can be for each answer, and that a node stays enlisted only while its task waits for
it), per task (`TaskOK`: what `dispatched`, `taskPhase` and the count are where the task is),
and of `CountIsExact`.  The core is counting: `numDependents[t]` is the cardinality of the set
`Pending(t)`, plus one while the task runs.  Every increment goes with one slot that
enters `Pending(t)`, every decrement with one that leaves it; so a decrement to zero
happens when the set is empty and the task asleep, and it happens once.  From that
follow that no run is dispatched twice (`NoReentrance`) or too early (`OutputsFound`: an empty
set means that every key was released, hence compiled), and that a sleeping task with an empty set has
been dispatched (`WakeupsKept`).  What adding and removing a dependency does to a task is proved
once (`DependencyAdded`, `DependencyRemoved`, `Notified`) and used for each action.  There is one
lemma per action (`RunPreserves`, `PushWonPreserves`, ...).

The refinement adds `LostClaim` to the invariant: the state of a key that a task lost or read
as pending is never again `Unclaimed`, which makes the later `Wait` or `Done` a step of the
abstract specification.  The mapping calls a waiter `Released` once it is no longer enlisted.

`SdfLayerRegistry_proofs` proves, for all threads, identifiers, layers and failures
(`LayersAssumption`: `None` is none of them), `TypeCorrect`, `OneLayerOnly`,
`EntriesValid`, `InitializedOnly`, and `WaitersServed`.  Its `IInv` has, besides types: who
holds the mutex, by where a thread is (`LockOK`); what a thread holds and what it calls (`ThreadOK`); that what it found under the
lock is still so (`FoundOK`), which is why a layer is registered over no other and only entries of
expiring layers are erased; what it knows of its layer's initialization
(`KnowsOK`); that a layer has one initializer and one destroyer (`Exclusive`); and what a
layer and an entry of the registry have in common (`LayerOK`, `EntryOK`).  `FoundOK` is stable only
because of `LockOK`: the actions that change the registry or make a layer `Alive` need the lock
exclusively, and an entry of an expiring layer cannot become one of a live layer.
`WaitersServed` (whoever is stuck waits for a layer of an identifier in `Unsavable` or
`Throwing`) needs more, `PInv`: a live layer that is not complete has a thread that
initializes it (`InProgress`), and a thread that drops a layer after a failure has
completed it (`NoneDropped`), unless it failed in one of those two ways, which are the ones of
findings 3 and 4.

`HdRenderThread_proofs` proves the five invariants of `HdRenderThread` for any number of
syncing threads and any bounds: `TypeCorrect`, `EditsExcludeRenders`, `StopsAreFresh`,
`StartsAreKept`, `RendersAreServed`.  The assumption is `BoundsAssumption`: the render thread
and the application thread are none of the syncing threads, and the render thread is not
nobody.  The argument is in the parts of `IInv`.  The render thread holds
the mutex from its test to the end of the frame (`MutexOK`), so that the requested state
changes only between frames; the callback therefore runs in the state Rendering
(`ThreadOK`), with `_rendering` true until it has returned (`RenderingOK`).  A syncing thread edits
only while `_rendering` is false (`SyncOK`), which it stays: only the application starts
renders, and not during a sync.  Whatever the callback takes for a stop request was
one since the last start, because requests that come too late are overwritten by it
(`StopOK`); and between two starts the scene stays the one that was started as
long as the render goes on (`FrameOK`).

`ExecDefinitionRegistry_proofs` proves `ConstructedOnce` for any threads, registry functions
and keys (`RegistryAssumption`).  The flag `isInitializing` is given up with a plain
store, by the constructing thread and by every thread that came late; it is a lock all the
same, since only a thread that won the exchange gets there (`InsideAlone`).  The registry
functions run inside; a thread that runs functions for the plugin does the same
steps outside, and what tells the two apart is the plugin's lock (`LoaderOK`).

It also proves `TypeCorrect` and `ComposesAll`: a definition that a lookup has cached has everything
that the schemas of its key offer (`Offered`), unless another registry's thread ran one of their functions
(`Stolen`, finding 5).  The argument goes from the worklist to the cache.

* `TInv` says who holds what: a thread in the manager's loop its mutex, a thread that loads the
  plugin's lock, a thread that tests the barrier's flag the barrier's (`Manages`, `Asks`).
* `Pending`: a function that the constructing thread put on the worklist is still there, or is run by that
  thread, or has run (`Provided`).  A thread that takes a function from the list and is not the one
  that put it there is another registry's, because of two threads of this
  registry one is inside and the other one waits for the barrier or comes from it; that makes the schema `stolen`.
* `Opened`: when the loop ends the list is empty, so that every linked function has run when the
  barrier opens, and every one of the plugin when it is loaded.  `InstanceOpens`: a thread that finds the instance
  set and the barrier closed finds a constructing thread; with `InsideAlone`,
  whoever is inside and does not construct may take the barrier for open.
* `Tables`: what is recorded as complete has all that its function registers, because a schema
  that is complete accepts nothing more.  A lookup records a schema as one without computations only if
  it has no function or its function was stolen.
* `CInv` then goes over the schemas of a key with the lookup: what it has collected so far is what
  the schemas before `index` offer, and it stays so, because what is complete does not change any more.

Each step of a thread leaves to the others what they hold (`Frame`), what is recorded stays (`Grows`), and
only a thread inside constructs and opens (`Quiet`); with these three the conjuncts of one thread survive
the steps of the others without a look at the actions.  The theorem has one hypothesis, `SwiftElsewhere`:
Swift registers for no schema of the plugin.  It is needed.  A registration from
Swift completes its schema (finding 6), so that the plugin is not loaded and what it would have registered is
missing in the cache; with such a script in the run TLC finds that violation.  For the linked schemas
and those without a function there is no restriction.

`WorkSingularTask_proofs` proves `SingularTask` for any wakers and runners: no two threads are
in the function, and after a `Wake` a thread is still to call it.  The invariant: the task exists
at most once, to be run, queued or taken (`AtMostOne`); it exists exactly while the count is
positive (`Counted`); and what the runner has seen of the count is at least 1 and at most the
count (`OldIsSeen`), so that the compare-exchange to 0 fails iff a wake-up came since.
`CrateBufferedOutput_proofs` proves that every behaviour of the buffered output is a behaviour of the
singular task (`WriterIsSingular`), hence that `_DoWrites` never runs twice at once and no
queued buffer is forgotten (`OneWriter`).

`CrateBufferedOutput_proofs` also proves `TypeCorrect` and `WrittenToFile`, for any number of
buffers, runners and bytes (`OutputAssumption`).  The invariant is `OInv`, next to that of the singular task.  Every
buffer is in exactly one place (`Apart`, `Complete`), hence the count of `NumberOK`, which
bounds the queue.  `Content` says of every position what the file will hold there: what the
saver's buffer has, if it covers the position; else what the last buffer of the queue
that covers it has; else the one that is being written; else the file, unless there was
`Trouble` (an error of the task, of the dispatcher or posted).  It is the order of the queue,
first in and first out with one writer, that makes it inductive: the writer takes the first
buffer, so that what it writes is never newer than what waits behind it.  When `Close` returns the queue is empty (`DoneOK`):
this is where the singular task comes in, because a buffer in the queue has a wake-up that the
function has not seen or a thread in the function (`Looked`), and `Wait` returns only when no
task is left.

`ExecCompilation_proofs` proves `TasksNotReentrant`, `TasksAliveWhenUsed` and `SourcesCompiledFirst`,
that is, the invariants `NotReentrant`, `NoUseAfterDelete` and `CompiledInOrder` of the run, for any
task graph, cyclic or not, any keys cached or failing, any threads and any depth (`InputsAssumption`:
the names of roots, keys and input resolving tasks differ, `None` is none of them, and `Cached` are
keys).  Each of them needs all of the invariant, `GInv`, whose core is again counting, now over
the stacks of nested invocations: `numDependents[t]` is the cardinality of `Deps(t)` (`CountOK`), the set of
what `t` depends on: itself, while a frame runs it; each of its subtasks, until that one has told
it; each place it has on a waiting list.  A place is counted from the end of the list, so that
pushing at the head, taking the list over into a frame and removing its head leave the other places
where they are.  The other parts say that

* a task has one place (`Exclusive`): a frame that uses it, a frame that has it as its last subtask,
  or the dispatcher; this is `NotReentrant`, once a task that is handed over is known to depend on
  nothing;
* a task that exists is run, is going to be run, or waits between its phases for something, and one
  that does not exist does none of this (`TaskOK`); this is `NoUseAfterDelete`;
* every request that a task has gone past is met (`Met`): the output is compiled or failed, or the
  task depends on it.  When a task is run again nothing but itself is left in `Deps(t)`, so that everything
  it asked for is there; this is `CompiledInOrder`, by way of the input resolving tasks of a key
  (`InputDone`), and no induction over the graph is needed;
* what the pc, the depth and the last subtask of a frame are by its position on the stack (`StackOK`) and
  by where it is in the code (`FrameOK`), and how a key's claim, its list and its task go
  together (`KeyOK`).

There is one lemma per action.  They share what a step that changes one frame does to everything
else (`PlainStep`), what a removed dependency does (`RemovalStep`: `_numDependents` reaches 0 exactly
when `Deps` becomes empty, and only then is the task run, nested or by the dispatcher), and what a new
subtask does (`NewSubtaskStep`).

`ExecCycleDetector_proofs` proves the rest of the safety invariants of `ExecCompilation`, those that depend on the
counters of the cycle detector, from a second invariant, `CInv`, which is inductive
together with `GInv` (`CounterInvariant`).

* `AddIsExact`, for a half word of any even width: an atomic addition to the packed word adds
  each amount, of any sign, to its own counter, as long as both sums fit.
* That they fit is `Budget`.  The shared counter of unblocked tasks alone has no obvious bound: a thread may flush
  that a task is unblocked while the thread that saw it blocked has not flushed yet, and such
  credits add up.  But a task becomes unblocked at most twice, when it is created and when it goes on
  with its second phase, so that the positive part of the counter and the credits of the busy threads
  (`Credits`) never exceed the tasks that are `Created` and `Resumed`.  What a flush leaves is at most that, and at
  least its negative, since with the other threads' amounts it makes up a number of tasks.  `CountersAssumption`
  (twice as many tasks, and the threads, are fewer than 2^31) is then enough; the code asserts neither.
* `CountersExact` (`DetectorCountsRight`) follows step by step: a step of a busy thread changes its own amounts by what it
  changes in the numbers of blocked and unblocked tasks (`CountStep`), which `GInv` determines, since
  a task is blocked exactly when it depends on something; a flush moves an amount from a
  thread to the shared counter (`LeaveStep`); a thread that joins brings nothing (`JoinStep`).
* `CheckOK`: whoever finds no busy thread and no unblocked task is alone, and stays alone, because what
  another thread could take from the dispatcher would be counted as unblocked.  With the
  counters exact, what it finds in `_blockedTasks` is the number of the tasks left, all of them asleep:
  this is `NoFalseAlarm` (`AlarmIsJustified`).
* `NoneLost`: a thread that stops being busy without that check leaves another busy thread, or an
  unblocked task.  Such a task is handled by somebody (`TaskOK`), and with no frame left that is the
  dispatcher, so that `dispatcher.Wait` does not return.  Hence `NoSilentLoss` (`RoundsLoseNothing`).
* `AlarmMeansCycle`: when the process is ended, `Blocked` itself is a set of tasks that wait for each other, or a
  null node has left waiters behind, which is the disagreement that the run `exec_compilation_nullnode` shows; without failing keys
  there is only the cycle (`AlarmsAreCycles`, for `Failing = {}` as in the run).  No frame is left, so that a dependency
  is a subtask or a place on the list of a key that is claimed; the task of either is alive, hence blocked.

The model is sequentially consistent, and so are these theorems: what the memory orders of the counters
allow is not covered (see the hazard at `taskCycleDetector.cpp:103`).

*Only model-checked.*  The liveness properties and the fairness part of `KeepsPromise`
(liveness and `ENABLED` are outside of what the prover does).  Every invariant that a passing run
checks is stated by a theorem.

## 6. Plan

In this order; each step is a module, its configurations, then what is worth proving.

1. Done: `TaskSyncSpec`, `ExecTaskSync` with invariants and refinement proved;
   `ExecCompilation` with the packed counters, its task graph and cycle detector proved; `HdRenderThread` and `SdfLayerRegistry` with their invariants
   proved; `WorkSingularTask` proved and composed with `CrateBufferedOutput`;
   `ExecDefinitionRegistry` with its construction and its lookups proved.
2. `Work`: `WorkTaskGraph` (child references and recycling), `WorkDispatcher::Wait` from
   several threads.
3. `Vdf` evaluation: `VdfParallelTaskSync` and the wait list as a second implementation of
   `TaskSyncSpec`, composed with the task graph.
4. `Sdf`: change manager (nested blocks, edits inside notices); renaming and reloading of
   layers in the registry.
5. `Usd` instance cache (pending registrations against the abstract maps), load rules
   (minimal representation against its meaning), `Pcp` layer stack registry.
6. The memory orders of the cycle detector; `HdRenderThread` with
   worker threads and with calls out of order; `TfBigRWMutex`; the Vulkan queue.

## 7. Not modelled

The repository has 1.7 million lines, most of them vendored or generated (OpenEXR and image
codecs, lookup tables, MaterialX, schema classes, Python wrappers) or sequential and numeric
(parsing and printing of scene description, composition arcs, schemas, geometry); others
are drivers of graphics interfaces, whose behaviour is that of the driver.  Models of those
parts would repeat the code and show nothing, so that the modules cover a small share of all
lines by intent: the parts where threads, callbacks and failures meet.  Of these the ones still
missing are in the plan.  `PROJECT.json` gives the reason for each component.
