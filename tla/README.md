# A verification project for the NPU compiler

This directory holds TLA+ models of the three parts of the NPU (VPUX) compiler
whose correctness does not follow from reading one function at a time:

* **background constant folding**, the compiler's only long-lived threads: a
  listener, pool tasks, a shared cache and the destructor that stops them;
* **barrier management** in the VPURT dialect: the simulation by which virtual
  barriers of a function receive physical ones, in the ways in which the passes
  use it, and the passes that rewrite barriers until the physical ones suffice;
* **feasible allocation** in the VPUIP dialect: the scheduler that gives every
  operation cycles and every buffer a place in CMX, prefetches data, spills what
  does not fit, and orders operations that come to share memory.

`PROJECT.json` lists every component, run, mutant, mapped definition, finding,
hazard and theorem. Paths below are relative to `src/src/vpux_compiler/`.

## 1. Inventory

The repository is an MLIR compiler: a frontend imports a model into the IE
dialect, passes lower it through VPU and VPUIP to VPURT (tasks, barriers), and
back ends write ELF. Nearly all of it is sequential rewriting of large graphs.
What keeps state over many steps is this:

| component | state | operations | what makes it hard | what makes it correct |
|---|---|---|---|---|
| `BackgroundConstantFolding` (`src/dialect/const/utils/constant_folding_in_background.cpp`) | `_isEnabled`, `_activeTasks`, `_mutex`, `_cv`, listener future | constructor, destructor, `initFoldingListener`, `processFoldingRequest`, `stopFoldingListener` | compiling thread, listener and pool tasks share a counter that is decremented without the lock; the pool is bounded; the destructor races the tasks | the counter is exact and bounded, no request is lost, the destructor outlives every use of the object (but a last notification, section 6), the destructor returns |
| `ConstantFoldingCache` (`…/constant_folding_cache.cpp`) | tbb hash map, atomic `_memoryUsedCache`, request queue | `hasContent`, `getContent`, `addContent`, `removeContent`, `cleanUpCache`, `replaceContentAttr` | map and counter change in separate steps; clean-ups work from stale snapshots; contents are handed out by reference | contents are right, the limit holds once the tasks are done, tasks end |
| users of the cache (`content_setup.cpp`, `attributes/content.cpp`) | none | `enqueueCache`, `ContentAttr::fold` | run on the compiling threads beside the tasks | as above |
| `BarrierSimulator` (`src/dialect/VPURT/interfaces/barrier_simulator.cpp`) | physical to virtual mapping, last use, ring buffer of free barriers, slot counts, FIFO positions, batches, programming order | `simulateBarriers`, `processSim`, `generateBarrierOrderWithSimulation`, `BarrierWlmHandler` | FIFOs advance in turns; in legalization the number of physical barriers grows and shrinks and everything is renumbered | no barrier is shared by two, none leaks, tasks pass only after their producers, every simulation ends |
| barrier passes (`AddFinalBarrier`, `AssignPhysicalBarriers`, `BarrierSimulation`) | the IR between them | one simulation each | each relies on what the one before has established | what one pass accepts the next can process |
| barrier legalization (`SplitExceedingVariantCountBarriers`, `SatisfyOneWaitBarrierPerTask`, `ReduceExceedingActiveCountBarriers`, `barrier_legalization_utils.cpp`) | the IR, the batches of this and the previous iteration, the control map | split, merge, optimise, share, linearize, reorder, simulate again | every rewriting renumbers tasks and barriers; progress is judged by comparing batches; WLM restricts reuse | the order of tasks is kept, the iterations end, the result can be assigned |
| `BarrierInfo` (`src/core/barrier_info.cpp`) | wait/update and producer/consumer maps, control maps | build, optimise, split, merge | graph algorithms on bit sets | orderings are preserved |
| colour-bin assignment | bins | assign, reorder | a mapping found by a heuristic must be programmable | the validation passes |
| linear scan (`include/…/utils/linear_scan.hpp`, `src/utils/partitioner.cpp`, `src/core/linear_scan_handler.cpp`) | gaps, live ranges, marks and addresses | `alloc`, `canAlloc`, `freeNonAlive`, `deallocate` | tries that are undone range by range, alignment from both ends, gaps that join | live ranges are disjoint, no memory is lost |
| `FeasibleMemoryScheduler` (`src/core/feasible_memory_scheduler.cpp`) | ready lists, two cycle heaps, executor pipelines, spilled buffers, live ranges | `schedulingLoop`, prefetching, eviction | several bodies of bookkeeping that are updated at different moments of a turn | cycles respect dependencies and executors, data is where it is read |
| `PrefetchDataOps` (`src/core/prefetch_data_ops.cpp`) | two FIFOs of cycles, stalls | two replays of a schedule, a new order of the function | the second schedule goes by the order found here | the order keeps dependencies, nothing is left out |
| spilling, control edges (`feasible_memory_scheduler_spilling.cpp`, `…_control_edges.cpp`, `control_edge_generator.hpp`, `feasible_allocation.cpp`) | the schedule, the IR, dependencies | three optimisations, insertion of spill DMAs, control edges, moving of spills, final cycles | each relies on cycles and addresses that the one before has changed | whatever the executors do first, the function computes what it did |
| `AsyncDepsInfo` | dependency bit sets | build, optimise | transitive reduction | reachability is kept |
| WLM for NPU40XX | enqueue points, pages | passes of VPUMI40XX | register-level descriptors | an enqueue is never early |
| constant resource management, parallel loops, profiling, ELF, driver, IE/VPU/VPUIP passes | see `PROJECT.json` | | | |

### How the modelled components interact

A pass that builds a constant calls `enqueueCache`, which pushes a request on
the context's cache queue. The listener, a task of the MLIR thread pool, pops
it, waits until fewer than `_maxConcurrentTasks` tasks are active and submits a
task. The task looks the attribute up, folds it, adds it to the cache and may
have to clean up. Compiling threads look contents up through
`ContentAttr::fold` at any time. The destructor pushes a termination token,
waits for the listener, removes the cache and waits for the counter to be zero.

In the barrier pipeline barriers with too many slots are split, parallel wait
barriers merged, and `ReduceExceedingActiveCountBarriers` simulates the
function. While the simulation needs more than the physical barriers, the tasks
of the batches it collected are linearized and the function is optimized,
reordered and simulated again. Then `AddFinalBarrier` declares one more barrier, `AssignPhysicalBarriers` gives each virtual barrier
a physical one (round robin by another simulation, or by `BarrierColorBin` and
a simulation that looks for a programming order), and `BarrierSimulation`
executes the result.

Feasible allocation comes earlier in the pipeline. The pass makes the dependencies
of the asynchronous operations explicit, links the compute operations of an
executor and schedules. From that schedule `PrefetchDataOps` finds an order of the
operations in which data operations come early; the function is rewritten in it
and scheduled once more. The schedule names spills only: they are optimised,
inserted as DMA operations whose result takes the spilled buffer's place for all
later users, and then every two operations that share memory are given an edge
unless the scheduler let them overlap. What is left is to move the new operations
up and to compute the cycles once more. The barriers above are made from those
edges.

## 2. Modules

| module | models |
|---|---|
| `FoldingService` | abstract: what background folding promises |
| `BackgroundConstantFolding` | threads, lock, condition variable, counter, pool, lifetime |
| `BackgroundConstantFolding_proofs` | its theorems |
| `ConstantFoldingCache` | the cache under tasks and callers |
| `ConstantFoldingCache_proofs` | its theorems on contents, types, bytes and the limit |
| `BarrierProgram` | functions: tasks, FIFOs, barriers, control paths |
| `BarrierInfo` | how barriers are optimized, split, merged, shared, linearized and reordered |
| `BarrierLegalization` | the legalization passes: `BarrierInfo` and `BarrierSimulator` composed |
| `BarrierFunctions` | families of functions for the instances |
| `TaskSchedule` | abstract: the orders of tasks that barriers and FIFOs allow |
| `BarrierSimulator` | the simulation and the passes around it |
| `BarrierInfo_proofs` | theorems on `optimizeBarriers` |
| `BarrierRewriting_proofs` | theorems on splitting, sharing, merging and linearizing |
| `BarrierLegalization_proofs` | renumbering, and the theorem on the passes together |
| `BarrierProgram_proofs` | lemmas on slots, sorted sets and control paths |
| `BarrierSimulator_proofs` | theorems on every simulation, on assignments and their validation |
| `Partitioner` | the partitioner: gaps, addresses in a gap, taking and giving back |
| `LinearScan` | the allocator and its handler, one step per live range |
| `LinearScan_proofs` | its theorems |
| `MemoryProgram` | functions of asynchronous operations: executors, buffers, dependencies |
| `MemoryScheduler` | the feasible memory scheduler |
| `Prefetching` | `PrefetchDataOps` |
| `FeasibleAllocation` | the rest of the pass, and the execution of what it leaves |
| `Dataflow` | abstract: operations complete after those whose results they take |
| `MCMemoryPrograms` | families of functions for the instances |
| `MC…` | the instances for TLC |

Definitions introduced by a comment that starts with *Variant:* are faulty
forms of the definition that follows them. No specification uses them; they are
the mutants of `PROJECT.json`, with which each property is shown to be able to
fail.

### BackgroundConstantFolding

`main` is the compiling thread inside the constructor, a pass or the destructor,
`listener` the listener thread and `task[r]` the pool task of request `r`. A
label is a point where another thread can intervene: before a lock, between
evaluating a predicate of `_cv.wait` and blocking (`to_wait`), between the atomic
decrement in `~TaskCompletionNotifier` and `notify_one` (`notify`). Blocking
releases the mutex in one step, as `std::condition_variable` promises, and a
waiter may wake spuriously. A task starts only on a free pool thread, and the
listener keeps one to itself. Statistics and the body of a task are left out;
the body is the subject of the next module.

### ConstantFoldingCache

A step is what the code does under one accessor of the concurrent map or one
operation on the atomic counter. Only `replaceContentAttr` keeps an accessor
over two steps (`Locked`). `size_t` is arithmetic modulo `SizeModulus`. A buffer
is named by the task that made it; `borrowed` is a reference to one without
ownership, as `getContent` returns it, and reading a freed one yields the right
value or `Garbage`. The snapshot of `cleanUpCache` takes in all entries that are
there from its beginning to its end, and any of those that come or go meanwhile.
Requests come in three kinds, as `processFoldingRequest` distinguishes them. At
this commit `enqueueCache` produces only plain ones. Equivalence requests are
enqueued by a unit test, and no caller or test passes a `newTransformation`, so
partial requests are modelled from the code that would serve them.

### BarrierProgram and BarrierSimulator

A function gives each task its FIFO, the barriers it waits for and updates and
its slot count (variants of a DPU task). Barriers and FIFOs are numbered from 1
and `None` is the code's −1. `simulateBarriers` is a loop: `pc = "map"` maps
barriers while it can (`MapBarrier`, `EndMapping`), `"tasks"` lets each FIFO in
turn run as far as it can (`ProcessTask`, `NextFifo`), `"round"` looks at what
the round has done (`EndRound`: grow, shrink, go on, or stop). `AddFinalBarrier`
and `Validate` are the passes between two simulations. `mode` says which
simulation it is:

* `trial` — the first one of `ReduceExceedingActiveCountBarriers`, without
  growth; only `BarrierLegalization` uses it;
* `legalize` — with `barrierLegalization`, where the number of physical
  barriers may grow beyond the limit and the barriers that are too many are
  collected in batches;
* `assign` — dynamic barriers, with or without `_wlmPidProgramming`;
* `order` — `generateBarrierOrderWithSimulation` for a given mapping. The
  mapping is any function of the barriers to the physical ones, which includes
  whatever `BarrierColorBin` computes;
* `validate` — configured barriers, executed as they are.

The order in which a task that frees several physical barriers pushes them on
the ring buffer is left open. The thresholds that switch WLM off are replaced by
the choice of `Wlm`, until `BarrierLegalization` composes the passes. DMA tasks on several queues and `linkNextIds`, which only
annotates, are left out.

### BarrierInfo and BarrierLegalization

A function keeps only the wait and update barriers of its tasks; producers and
consumers follow. An operator of `BarrierInfo` takes a function to the function
the method of that name leaves, or to the set of them where the code follows
the iteration order of a `TaskSet` (`eliminateParallelWaitBarriers`). New
barriers are numbered after all others, as `addNewBarrier` does, and a reset
barrier stays declared until `postProcessBarrierOps`.

`BarrierLegalization` runs the passes in the order of
`buildBarrierLegalizationPipeline`. `todo` is the list of steps still to be made;
a pass replaces its own name by its steps, an exception leaves
`<<"throw", what>>`. `iteration`, `toLegalize` (`barrierBatchesToLegalize`) and
`modified` are the code's variables; `required` and `origin` are history: the
control paths of the first function and what each task was called in it. Since
`orderExecutionTasksAndBarriers` renumbers everything, batches are renumbered
with it, as pointers to operations need not be. It also replaces `barrierInfo`
and so loses `_enableUnevenVariantSplit`: the option has its effect only in
`SatisfyOneWaitBarrierPerTask`.
`WlmWith` is the threshold on the number of barriers above which WLM is off; three
passes ask it, each of the function it finds, `Assign` with the final barrier
included.

Slots of a SHAVE task are counted per kernel run by `BarrierInfo` and as one by
the simulator; the model has one count per task. There is one control graph
block, so sync points and the rebuilding of the control map for the next block
are left out. The pass options that no pipeline sets keep their defaults, and
`verifyBarrierSlots` after splitting, whose result the code ignores, is no step.

### Partitioner and LinearScan

A gap is an interval of free addresses, and the partitioner is the set of them: the
code's sorted vector. `ChosenGaps` is the choice of `chooseMinimalGap`; where two
gaps are equally good the model takes either. `LinearScan` works a call off one
live range at a time (`Place`, `GiveUp`, `Release`), so that every intermediate
state of a failing call can be looked at; the client (a scheduler) acts while
`mode` is `"idle"`. Every caller in the compiler passes `allowSpills = false` and
the handler throws on a spill, so the spilling loop of the template is left out,
as are fixed ranges, which come after the allocator has run. `MemoryScheduler`
uses the partitioner directly: there a call is one step.

### MemoryProgram and MemoryScheduler

A program is a sequence of operations, each with its executor, its buffers and
its cost, and `Analysed` adds what `AsyncDepsInfo`, `MemLiveRangeInfo` and `init`
compute. Two operations that write one buffer fill a concatenation. `links` says
how `linearizeComputeOps` was called.

The members of `FeasibleMemoryScheduler` are the fields of `s`, its methods are
operators from one such record to the next, and the actions are the arms of
`schedulingLoop`: `Move` (the begin heap into the end heap), `Unschedule`,
`Schedule`, `Evict`. The heaps are sets in which an element equivalent to one that
is there is not inserted, as in the `std::set` of the code: `allocation_two_ports`
depends on it. `readySpilledOps`, `spillBufferMap` and the handler's record of
dynamic spills always change together and are one field. An internal error
(`VPUX_THROW`) is a value of `error`.

`_prefetchingLevelLimit` (35) and the number of barriers per cluster (8) are the
constants `LevelLimit` and `BarrierLimit`; cycles are numbers modulo `CyclesMod`,
which stands for 2^64. The spilled buffers of one operation are read back in the
order of their numbers where the code follows a `DenseSet`. A buffer's first
coming into use is taken to be where its operation is scheduled: operations that
work in place, buffers shared by several results and chains of views are left out,
and so is the option that keeps memory unfragmented. `scheduleNonComputeOps` is
never reached.

### Prefetching and FeasibleAllocation

`Prefetching` replays a schedule twice with an unlimited memory: first with a
FIFO for data operations that wait for nothing, where each ends as its consumer
can begin and gaps are remembered as stalls that can be given up, then with one
FIFO in the order thus found. `NewOrder` distributes the data operations over the
compute operations. `FeasibleAllocation` takes that order, renumbers the program
(`Reordered`) and starts the scheduler again; `given` keeps the program as it was.
`stage` then goes through `OptimizeSpills`, `InsertSpills`, `InsertControlEdges`,
`MoveSpills` and `UpdateCycles`; `func` is the schedule with its dependencies. A
spill DMA is an operation with a new number, and a buffer that was spilled lives on
in copies, each with its place.

`Begin(k)` and `End(k)` are the device, which the repository does not contain: an
executor instance runs its operations in order and starts one when everything it
depends on has ended. An output is spoilt from the moment its operation begins and
holds data when it has ended, addresses remember whose data they hold, and a spill
write saves that in DDR. So a data race is an operation that finds something else
where it reads, in some order of the executors.

## 3. Runs

| run | instance | shows |
|---|---|---|
| `folding` | 3 requests, 2 concurrent tasks, pools of 1–3 threads, fair threads | `TasksCounted`, `OneWaiter`, `TeardownUpToNotify` (no request lost, and the destructor outlives all uses of the object but a last notification) in every interleaving; the destructor returns and requests are folded unless a wakeup is missed; the threads implement `FoldingService` |
| `folding_lost_wakeup` | 2 requests | **violation**: a missed wakeup blocks the destructor |
| `folding_cache_removed` | 1 request | **violation**: the cache is destroyed under running tasks |
| `cache` | 3 tasks, one caller, limit 8 bytes, fair tasks; distinct attributes, one folded while it is to replace another, one folded by all tasks, one partial folding | the counter is exact up to steps under way although it wraps below zero, and never short; the limit holds at the end; contents are right; every task ends |
| `cache_dangling` | 2 tasks, one caller | **violation**, see section 6 |
| `barrier_pipeline` | 5 tasks, 3 barriers and the final one, 2 physical, with and without WLM, fair; from legalization or assignment on; round robin or any mapping | `PidsExact`: ring buffer exact, barriers held until consumed; `SimulationsSucceed`: no internal error, and validation blocks only on the final barrier; reuse follows control paths; every simulation ends; tasks run in an order of `TaskSchedule`; the final barrier means the end |
| `barrier_prev_vid` | 5 tasks, 4 barriers, 2 physical | **violation**, see section 6 |
| `legalization` | 5 tasks, 4 barriers with one producer and one consumer and room for 12 more, 2 physical, with and without WLM, uneven variant split, fair | `FunctionSound`: control paths and FIFO orders are kept, barriers form no cycle and are not half used; `BatchesRight`; no exception but for identical batches with WLM; the iterations end with no batch left; `FitForAssignment`: the result has one wait barrier per task with WLM and can be assigned unless the final barrier prevents it |
| `linear_scan` | 3 ranges of sizes 1–3, two of them aligned, in 8 addresses with one reserved, requests of up to 2 ranges | live ranges are disjoint, the gaps are the free memory in as few pieces as can be, addresses are aligned, `canAlloc` and a failing `alloc` leave no trace |
| `feasible_allocation` | some 1,600 programs of 3–7 compute operations in 3–6 units of memory, each with and without prefetching and spill optimisation, fair | no internal error; the schedule is valid; operations that overlap share no memory; data reaches its readers in the schedule and in every order of execution; the bookkeepings agree; the function executed implements `Dataflow` |
| `allocation_two_ports` | chains with two outputs spilled, 2 DMA ports | **violation**, see section 6 |
| `allocation_relocation` | two branches on two executors | **violation**, see section 6 |

Five configurations are kept for use by hand: `FoldingLateNotify.cfg`
(`BackgroundConstantFolding`, `NotifiesLiveObject`), `BarrierFinal.cfg`
(`MCBarrierSimulator`, `AssignmentSucceeds`), `LegalizationWlm.cfg`
(`MCBarrierLegalization`, `ActiveCountReduced`), `PrefetchStalls.cfg`
(`MCFeasibleAllocation`, `PrefetchedNoLater`) and `CacheMoved.cfg`
(`MCConstantFoldingCache`, `EverythingBelowLimit`). Each shows a violation that
section 6 describes.

**Bounds.** Three requests are one more than the task limit, so the listener
waits while tasks run; pools of one to three threads include the refused size
and one where tasks queue. In the cache the limit is what three
contents fill, and an equivalence request can move a content before it has been
counted, the smallest case in which a subtraction precedes its addition and the
counter wraps; then all tasks clean up. The contents of the batch with a partial
folding stay below the limit. Two physical barriers with
three or more virtual ones force reuse; legalization with four on two grows twice and shrinks by two at once, which is
the case `RemovedFromPrev` is about. Two FIFOs, one a DMA queue and one with
tasks of two slots, give both kinds of control path (`buildTaskControlMap` knows
DMA queues only) and both kinds of slot count. Larger functions would add length
and no other case of a round. Legalization starts from four barriers because
three on two hardly ever need linearization; tasks that wait for several of
them are merged, with slots for three variants on each side so that some merges
fit, some are chained and some barriers are split. A bound of sixteen barriers is
never exceeded (`LegalizationTypeOK`). `BarrierInfo` also reaches barriers with several producers and
consumers, from merging and sharing. Without WLM the run also holds with
`Uneven = {TRUE, FALSE}`, and as it is with `Span = 4` (twice the states).

Eight addresses, one reserved in the middle, and ranges of one to three make the
allocator choose between gaps, pad for alignment, and join a freed range with
the gap on either side and on both.

The programs of `MCMemoryPrograms` are chains of compute operations with weights,
a second executor, second outputs, concatenations, results that are read again
later (in CMX, over a copy in DDR, or the network input), one or two DMA ports with
or without two channels, and buffers split over clusters; `MCFeasibleAllocation`
adds two branches that are joined. Memory always suffices for one operation with
its inputs and hardly for more, so that nearly every program spills, and many spill
one buffer twice, spill what was prefetched, or read back what another operation
just displaced. `LevelLimit` 2 and `BarrierLimit` 4 cut prefetching off within such
chains. Programs whose features differ without effect are not repeated
(`Sensible`). In the passing run two kinds of program are left out, because they
fail: second outputs with two ports (`allocation_two_ports`), and branches at work
together with optimised spills (`allocation_relocation`); prefetching can bring
branches together, so branches are not optimised after prefetching either. A chain
begins with a load, so a spill never becomes the second operation of a schedule,
for which `createSpillWrite` finds no location. 256 cycles are never reached by
honest times; the wraparound is met by the barrier count of `Prefetch` and by the
stalls.

**Deadlock** is checked in every run: `Terminated`, `Ended`, `Over` and
`AllocStopped` are the states in which the system may stop.

**Fairness.** `BackgroundConstantFolding!Fairness` and
`ConstantFoldingCache!FairSpec` say that a thread with a step to take
eventually takes it, which the operating system's scheduler provides. A pass
need not enqueue anything, a spurious wakeup need not come, and a task that has
not begun need not begin (in the cache module). `BarrierSimulator!FairSpec` says
that the pass goes on running; whether another pass follows is left open.
`FairLegalizationSpec` says that the passes go on until they are over. It is weak
fairness written without `ENABLED`, which TLC evaluates too slowly for steps that
rewrite a whole function; the deadlock check shows that a step is enabled until
then. `FairAllocSpec` says the same of the allocation pass and of the executors,
which go on with what may begin until everything has ended: that is what makes
`<>(completed = Op(program))` of `Dataflow` a statement about cycles in the control
edges and executor orders.

## 4. Proofs

`BackgroundConstantFolding_proofs`, for every finite set of requests, every
limit and every pool size:

* `Invariance` — `Spec => []IndInv`;
* `TypeCorrectness`, `TaskCounting` (`TasksCounted`), `SingleWaiter`,
  `RequestsReachPool`, `DestructorDrains` and, from these, `TeardownWaits`
  (`TeardownUpToNotify`). They say what the destructor waits for, not that nothing
  comes after it: a task's `notify_one` can (section 6);
* `Refinement` — `Spec => ImplementsService`.

`IndInv` is needed because none of the properties is inductive. That the limit
holds when the listener submits needs that nobody but the listener adds tasks
since it looked (`LockInv`, and `listener = "submit" => activeTasks < …` in
`CountInv`); that the counter is exact needs that the request the listener holds
has no task yet (`CustodyInv`); that in turn needs that requests are queued once
(`QueueInv`); that the destructor drains needs that the listener has ended
(`PhaseInv`) and that the token is the last of the queue (`QueueInv`). The proof
has a lemma per thread, and per thread one for the structure and one for the
counter. The refinement maps a request to `unsent`, `pending`, `active` or
`folded` by where it is, and the object's life to `open`, `closed`, `gone`.

`ConstantFoldingCache_proofs`: `ContentsAreRight` — with any number of tasks,
callers and attributes, any sizes and limits, plain and equivalence requests and
evictions, the cache holds for every attribute what folding it yields. It assumes
`NoPartialRequests` (with them the property fails, see section 6)
and the assumption on equivalence requests in `BatchAssumption`, which their
documentation states. `ContentInv` adds what each stage of a task knows of its
content and that the accessor of `replaceContentAttr` keeps the original entry
where it is, from the test that finds it to the move. `TypesKept` (`TypeOK`) holds
with partial requests as well: `TypeInv` adds to the types that an attribute under
that accessor has an entry, whatever evictions run, and that removed bytes are
those of an attribute that was there.

On bytes, for any number of tasks, callers and attributes, any sizes and requests,
partial and equivalence ones included, the same module proves:

* `CounterIsRight` (`AccountingRight`);
* `LimitHolds` (`BelowLimitWhenQuiescent`), under the hypothesis
  `CleanTo < Limit`: the code takes the threshold (0.8 unless configured) as it is
  given, and with one of 1 a clean-up may stop at the limit;
* `CacheBelowLimit` — without equivalence requests the whole cache is below the
  limit (`EverythingBelowLimit`). With them it need not be, see section 6.

`CountInv` accounts for every byte: counter plus additions to come is removals to
come plus bytes cached plus a number `g` of bytes that replaced others, up to turns
of `size_t`, and all but the first of these together are no more than tasks have
added. `g` is zero when attributes are folded once, which needs that such an
attribute is cached by nobody before its task adds it. `LimitInv` says that the
limit holds, or somebody is about to count what he added, or some clean-up has not
ended that sees everything (`Cleans`): that the last of these may end needs that the
counter covers the cache (`CounterCovers`), and there that it has not wrapped, for
which the contents of a batch must fit `size_t` (`WidthAssumption`). `Total` is the
size of a set of bytes, not a recursive sum, so that the library's theorems on
finite sets say how it grows and shrinks.

`BarrierSimulator_proofs`, for every function that is well formed, any number of
physical barriers above one, and every sequence of simulations from legalization or
assignment on: `Types` (`TypeOK`), `PidsAgree` (`PidsExact`), `NothingFails`
(`NoInternalError`), `BatchesAreRight` (`BatchesRight`), `FinalMeansFinished`
(`FinalBarrierMeansFinished`) and `Refinement` (`ImplementsSchedule`), all from
`Invariant`, `Spec => []IInv`. `IInv` has five parts, each of which the ones after
it use:

* `ProgramInv` — the function is sound: producers of a barrier come before its
  consumers, nobody waits for the final barrier, which is declared last, and every
  last task of a FIFO produces some barrier;
* `CountInv` — `producerCount` and `consumerCount` are the slots of the tasks yet to
  run; a task that has run had its barriers mapped, their producers past and its
  FIFO's earlier tasks run. A count of zero therefore means that all producers are
  past, which is what the refinement needs, and no count falls short of a task's
  slots, so that `processSim` never fails;
* `PidsInv` — `toVirtual`, `realId` and the ring buffer are one matching of the
  needed barriers and physical ones, through growth and through shrinkage, where
  entries are erased and everything above is renumbered (`Moved`);
* `RoundInv` — what a round's flags say of it: one that has changed nothing found
  nothing to map and no task to run, and a legalization that begins a round with too
  many physical barriers has at most one free (`EndMappingNeverThrows` needs this);
* `BatchInv` — barriers of a batch have been mapped, and once the next batch is
  opened none of them is active.

On assignments, it proves `UsesAreOrdered` (`ReuseOrdered`) and `Validated`
(`SimulationsSucceed`). For the first, `LastUseInv` says that `prevVidOfPhysBar` is
the last barrier mapped to each physical one, the only one the code compares with;
earlier ones follow because paths compose (`PathTransitive`). A path in the wrong
direction, which `canBarrierReusePidFromBarrier` would accept as well, is excluded
because the earlier barrier has been consumed and tasks run in an order of the paths
(`PathsKeepDone`). For the second, the assignment has
to be compared with its execution, which maps barriers by the same rule but not at
the same moments. `AssignInv` dates the assignment: there are numbers `ran` for
tasks and `got` for barriers such that a task ran after its barriers were mapped and
a physical barrier was given on after the last consumer of its former use ran.
`ReplayInv` keeps those dates through the validation; were it to block, the step
with the least date among those still to be made could be made after all. The least
element of a set of numbers (`LeastElement`) stands in for induction.

`BarrierInfo_proofs`, for every function with declared barriers that lead to later
tasks (`Ordered`) and, for the last two, are used on both sides or on none
(`Paired`): `OptimizedControl` — `optimizeBarriers` has the control map of the
function it is given; `FifoDependenciesGo` — the barriers made for the DMA queues
can be taken back, so that the pass does not throw; `OptimizedSound` — `Ordered`
and `Paired` hold of the result. With the barriers made
for the queues, paths over barriers alone are the control paths of before
(`PathsWithFifoDependencies`). A producer that drops a barrier has another
path to each of its consumers behind an earlier step, which may be over a dropped
barrier as well, so the argument takes the first consumer without a path
(`PathsWithOptimizedProducers`; `PathsWithOptimizedConsumers` is its mirror image). Merging
keeps every step (`StepsMerged`). What is left of a made barrier is alone between
its two neighbours (`FifoBarriersAlone`), whose order the queue keeps. The
recursions of the code's two passes over the tasks, and of the control maps, are
instances of one equation (`Gathers`), solved by chains of neighbours (`Gathered`).
That the functions legalization hands it are of this kind is proved next.

`BarrierRewriting_proofs` and `BarrierLegalization_proofs` lead to
`LegalizationKeepsFunction` (`FunctionSound`): for every function whose tasks fit
the slots, any number of FIFOs and physical barriers, any slots and any threshold,
with and without WLM and uneven split,

    LegalizationSpec /\ []BarriersLeft => []FunctionSound

`BarriersLeft` is the model's own bound: virtual barriers are numbered up to
`FinalBarrier`, and the passes must not have used up the numbers before the final
one is added. The code has no such limit; whatever number of barriers an execution
declares, there are values of the constants for which it is met, and TLC checks it
for those of the run (`LegalizationTypeOK`). `TaskFitAssumption`, that no task alone
needs more slots than there are, is what the splitting pass throws without.

The first module says of each rewriting that it `Grows` a function: whatever
barriers ordered they still order, barriers lead to later tasks and have both ends,
tasks keep their FIFOs and slots, and none of the barriers declared disappears. It
is enough to show that of direct successors: what has another path to each of them
keeps all its paths (`KeepsBySteps`). `SplitGrows`, `ShareGrows`,
`EliminationGrows` and `LinearizedGrows` are the results. The loops of the code are
instances of `Iterate`; that a loop keeps what each step of it keeps is
`LoopSolves`, by a least counterexample, and each loop has an invariant of its own:
for sharing, that the tasks passed so far come before (or after) those whose barrier
they will share; for batches (`Parts`), that each is of earlier tasks than the next;
for the batches chained, that producers stay in front of the consumers whichever
batch they are in. Of the control map `linearizeBarriers` uses, though it is stale,
only this is needed: a barrier may be left out where it says there is a path, and
adding barriers takes no path away.

The second module turns to `orderExecutionTasksAndBarriers`. A round of
`findReadyOpsFromTaskOpQueues` always finds a task, the first of those left, as
barriers lead to later tasks; so no task is left over (`TaskOrderExecutes`) and
every task comes behind those it depends on. `ReindexedIs` carries the function
over to the new numbers. The inductive invariant `LegalizationInv` has five parts:

* `ProgramKept` — the function is in order, its tasks fit, and every control path of
  the first function is one of this function between the tasks that have these names
  now (`Requires`). FIFO orders have to be in it: paths may be over a DMA queue, and
  the queue's order is that of numbers that change;
* `BarriersKept` — barriers have both ends, until the final one, which has no
  consumer, is added;
* `PlanKept` — the steps still to be made are a sequence the pipeline can have
  planned (`MayFollow`), or something was thrown that may be. Without it a step
  could be taken on a function the steps before it have not prepared;
* `PackedKept` — where unused barriers are erased they are behind all others, so that
  no number shifts: a reordering has been made since a barrier was last reset, or
  `modified` says that one is still to come;
* `BatchesKept` — a simulation that succeeded leaves no batches, so that
  `Decide` does not find any.

`FunctionSound` includes `NeverStuck`: three of the seven errors the passes can
throw never are, for any values of the constants — a task that is never executed, a
dependency of the queues that cannot be taken back, batches of a simulation that
succeeded.

`LinearScan_proofs`, for any set of ranges, any sizes and alignments, any memory
and any disjoint reserved intervals: `TypeCorrect`, `RangesDisjoint`
(`LiveRangesDisjoint`), `FreeSpaceKept` (`FreeSpaceExact`), `RollbackExact`
(`CanAllocRestores`) and `AddressesAligned` (`Aligned`), all from `Invariance`,
`Spec => []IInv`, the last with `AlignInv`, which says the same of what a call in
progress holds. `IInv` says that the
gaps are canonical (not empty, not touching, within the memory), that an address is
in a gap exactly when nobody holds it, and that what is held is apart (`HeldApart`),
the ranges of a call in progress included: without these a step of `Place` could
collide with what the same call has placed. `CallShape` says which variables are
in use in which mode, and `Restorable` that the addresses free when a call began
are those in gaps now and those the call holds. That the gaps, not only the
addresses, come back after a rollback is `CanonicalUnique`: two canonical sets of
gaps that cover the same addresses are equal. `CarveOK` and `FreeOK` are what the
partitioner's two operations do to a canonical set.

Assumptions on constants are the named `ASSUME`s of the modules.

The inductive invariants of the barrier simulation and of the cache have been
checked by TLC as well, before they were proved; `AssignInv` and `ReplayInv`
quantify over functions to the natural numbers, which TLC cannot enumerate.

**Only model-checked**: the liveness properties (fairness and `ENABLED` are
beyond the prover); of legalization, that the other errors are not thrown
(`NothingThrown`: that merging makes progress, that slots suffice, that batches
differ), that its iterations are enough (`NoBatchLeft`) and that what they leave can
be assigned (`FitForAssignment`), all of which speak of how few barriers a rewriting
leaves rather than of what it keeps; and feasible allocation, which rests on
recursion over data (the reordering of spills is a recursive operator, schedules are
built by folds), out of the provers' reach. `LegalizationTypeOK` includes the bound
`BarriersLeft`, which holds for large enough constants only.

## 5. Properties and what they are about

The comment above each property says what it states of which code, and
`PROJECT.json` assigns them to the hazards. The ones that carry most:

* `ReturnsUnlessWakeupMissed` — one order of steps and no other can block the
  destructor. With the violation `DestructorReturns` it locates the defect
  exactly.
* `AccountingRight` — the counter is exact but for additions and subtractions
  under way, and can say too much, never too little, unless two tasks fold one
  attribute at the same time.
* `ReuseOrdered` — `canBarrierReusePidFromBarrier` accepts a control path in
  either direction; the wrong one never occurs, because the simulation has
  consumed the earlier barrier.
* `PidsExact` — the bookkeeping of physical barriers survives growth, shrinkage
  and renumbering.
* `FunctionSound` — after any sequence of optimizing, splitting, merging, sharing,
  linearizing and renumbering, every task that had to run before another still
  does, and barriers still form no cycle. TLC shows it on small functions, section 4
  for all.
* `NoBatchLeft`, `FitForAssignment` — the loop of
  `ReduceExceedingActiveCountBarriers` stops without an error at its bound and
  what it leaves is assigned by another simulation: neither may leave a function
  that needs too many barriers.
* `ImplementsSchedule` — a task never passes before a producer of a barrier it
  waits for, whatever used the physical barrier before.
* `FreeSpaceExact`, `CanAllocRestores` — the allocator neither loses nor doubles
  an address, through tries and rollbacks that touch the same gaps.
* `DataReachesReaders` — in the schedule, every reader finds a buffer where its
  writer, or the last read-back of it, put it, and nothing was put there since.
  It relates addresses looked up at three different moments.
* `MemoryRight`, `ImplementsDataflow` — after all optimisations and reordering the
  dependencies alone, not the cycles, keep operations apart that share memory, and
  do not form a cycle with the executors' orders.

## 6. Findings

Each is a run that TLC refutes; `PROJECT.json` quotes the line it contradicts.

1. `folding_lost_wakeup`: `~TaskCompletionNotifier` decrements and notifies
   without `_mutex`, so a waiter between its predicate and its wait misses it.
2. `folding_cache_removed`: `removeCache` precedes the wait for the tasks that
   hold a reference to the cache.
3. `cache_dangling`: a second folding of an attribute frees the buffer that
   `getContent` has handed out.
4. `barrier_prev_vid`: indexes found in the shortened `toVirtual` are applied to
   the full `prevVidOfPhysBar`.
5. `allocation_two_ports`: two outputs of one operation that were spilled can be
   read back in the same cycle on two ports. The elements of the begin heap are then
   equivalent and the second is dropped: its buffer has memory and nothing in it.
6. `allocation_relocation`: a result is sent to the place it was to be read back
   to, though an operation that began earlier on another executor still uses that
   memory: the search looks only at operations that begin in the cycle of the
   spilled operation or later. The control edge between the two is dropped because
   their cycles overlap.

By hand (section 3):

* `FoldingLateNotify.cfg`: `~TaskCompletionNotifier` decrements `_activeTasks` and
  then calls `_cv->notify_one()`. Between the two the destructor can evaluate its
  predicate, find the counter at 0 and return; the notification is then made on a
  destroyed condition variable, which is undefined. `TeardownUpToNotify` states what
  is left of a clean teardown: this notification is the only use of the object that
  can come after the destructor. The model lets it wake nobody, as no waiter is left.
* `BarrierFinal.cfg`: the final barrier can make a function that was legalized
  impossible to assign. `SimulationsSucceed` states the corresponding limit of what
  the validation promises after colour binning.
* `CacheMoved.cfg`: a task folds `x` and fills the cache to its limit; its clean-up
  lists `x`. Before it gets there another task moves the content to `y`
  (`replaceContentAttr`). `removeContent` does not find `x`, the list is at its end,
  and the cache stays at its limit until something is added. This is why
  `BelowLimitWhenQuiescent` speaks of contents that were not moved.
* `LegalizationWlm.cfg`: with WLM a barrier consumed by a task with no control path
  to later ones keeps its physical barrier for good. It is not among the active
  barriers of the batch, the batch is linear already, and the pass throws
  "identical barrier batches" where its description promises linearization of
  "all tasks linked to active barriers". Without WLM it never happens
  (`NothingThrown`).
* `PrefetchStalls.cfg`: `reducePrefetchPipelineStalls` subtracts the whole of a
  stall from the cycles it still wants to free. When the last stall is larger than
  that, the `size_t` wraps, and with a second stall to give up the data operations
  before it are moved by the wrapped number, to later cycles, where the comment of
  `updatePrefetchPipeline` says "move DMAs earlier". The order of the function stays
  legal; prefetching is worse than meant.

What a larger choice of `Batch` would refute: two tasks that fold one attribute at
the same time count its bytes twice (hence the conditions of `AccountingRight`);
two partial foldings of one prefix interfere through its buffer, and two opposite
equivalence requests can wait for each other's accessor. Neither can happen at this
commit: equivalence requests come from one unit test only, and nobody makes partial
ones.

## 7. Not modelled

In the parts that are modelled: the colour-bin heuristic itself; DMA tasks on
several queues in the barrier simulator; `splitControlGraphToBlocks`, sync points
and several control graph blocks; in feasible allocation the linearized schedule,
operations that work in place, buffers shared by several results, chains of views,
the fragmentation option and the transitive reduction of dependencies. Statistics,
logging, profiling operations and the cost model are left out throughout. A hash
collision of two attributes and the undefined behaviour of iterating over a tbb map
while entries are erased are outside the models.

Of the other parts `PROJECT.json` lists, WLM on NPU40XX and constant resource
management keep some state of their own and could be modelled. The rest, by far
the largest share of the source (378,000 lines, of which the dialects' rewriting
passes, the import of networks, per-network strategy tables, code generation and
binary formats are nearly all), has no protocol, no concurrency and no failure
handling: these are functions from one large graph to another, whose correctness is
that of each rewriting rule on tensors and layouts. A state machine says nothing
about them that the code does not, and their data is out of TLC's reach. The map
therefore covers a small part of the lines, and most of those that decide in many
steps.

## 8. Plan

What could follow:

1. `BarrierRuntime`: the hardware that programs each physical barrier anew
   (external), and that an assignment with WLM needs no more than its own order.
2. `BarrierInfo`: control graph blocks and sync points, so that the rebuilding of
   the control map per block and per batch can be checked against reachability.
3. `ColorBin`: the bins in place of an arbitrary mapping; whether
   `barrier_pipeline` then still needs its exception.
4. `FoldingSystem`: the threads composed with the cache, so that the lifetime of
   the cache and of its contents are one question.
5. Constant resource counts, multi-queue DMA, in-place operations of the memory
   scheduler; then WLM enqueue points.
6. Proofs: that merging parallel waits makes progress, so that SatisfyOneWait
   cannot throw without WLM; the memory scheduler's `BuffersAgree`, whose evictions
   would first have to be written without folds.
