----------------------------- MODULE Prefetching -----------------------------
(***************************************************************************)
(* PrefetchDataOps (core/prefetch_data_ops.cpp): from a first schedule of  *)
(* a program to an order of its operations in which data operations come   *)
(* early enough to run beside earlier compute operations.                  *)
(*                                                                         *)
(* The schedule is replayed with an unlimited memory.  In the first replay *)
(* data operations that wait for nothing have a FIFO of their own, the     *)
(* prefetch pipeline, where each ends as its consumer can begin; this      *)
(* leaves stalls, which are given up when a later one comes too late.  The *)
(* second replay issues all data operations in the order thus found.       *)
(*                                                                         *)
(* f is the state of the class: cycles has an entry for each operation     *)
(* that isScheduled, fifo is _executorPipelineCycles.                      *)
(***************************************************************************)
EXTENDS MemoryScheduler

EndOf(c) == (c.begin + c.cost) % CyclesMod

CycleInfo(o, begin, cost, exec) == [op |-> o, begin |-> begin, cost |-> cost, exec |-> exec]

NoCycles == [cycles |-> <<>>, fifo |-> [e \in {"DMA"} \cup ComputeExec |-> <<>>],
             prefetch |-> <<>>, stalls |-> <<>>, defined |-> FALSE, error |-> ""]

(* init: the cycles of an operation are those of the last it has in the    *)
(* schedule, be it a spill.                                                *)
CostOf(sched, o) ==
    LET last == sched[Top({k \in DOMAIN sched : sched[k].op = o})]
    IN  last.end - last.begin

IsScheduled(f, o) == o \in DOMAIN f.cycles

NextFree(fifo) == IF fifo = <<>> THEN 0 ELSE EndOf(fifo[Len(fifo)])

DependencyEnd(p, f, o) == Max0({EndOf(f.cycles[d]) : d \in {q \in p.deps[o] : IsScheduled(f, q)}})

Scheduled(f, c) == [f EXCEPT !.fifo[c.exec] = Append(@, c), !.cycles = (c.op :> c) @@ @]

------------------------------------------------------------------------------
(* updatePrefetchPipeline: what lies between two stalls begins earlier.    *)
MovedEarlier(pipe, from, to, cycles) ==
    LET met == {k \in DOMAIN pipe : EndOf(pipe[k]) <= to}
        moved == {k \in met : \A j \in met : j >= k => pipe[j].begin >= from}
    IN  [k \in DOMAIN pipe |-> IF k \in moved THEN [pipe[k] EXCEPT !.begin = (@ - cycles) % CyclesMod] ELSE pipe[k]]

(* reducePrefetchPipelineStalls: the last stalls are given up, as many as  *)
(* it takes; a stall is erased when what is left to free, a size_t, is not *)
(* below it.                                                               *)
GiveUpStall(acc) ==
    LET n == Len(acc.stalls)
        stall == acc.stalls[n]
        left == (acc.freed - stall.cost) % CyclesMod
    IN  IF n <= acc.keep THEN acc
        ELSE [acc EXCEPT !.prefetch = MovedEarlier(@, EndOf(stall), acc.to, acc.freed),
                         !.freed = left, !.to = stall.begin,
                         !.stalls = IF left >= stall.cost THEN Front(@) ELSE @]

ReduceStalls(f, target) ==
    LET n == Len(f.stalls)
        freed(k) == FoldLeft(LAMBDA m, c : m + c.cost, 0, SubSeq(f.stalls, k + 1, n))
        keep == Max0({k \in 0..n : freed(k) >= target})
        all == FoldLeft(LAMBDA acc, i : GiveUpStall(acc),
                        [prefetch |-> f.prefetch, stalls |-> f.stalls, keep |-> keep, to |-> Never,
                         freed |-> Bottom({freed(keep), target})],
                        [i \in 1..(2 * n) |-> i])
    IN  [f EXCEPT !.prefetch = all.prefetch, !.stalls = all.stalls]

SchedulePrefetchDMA(f, o, cost, optimal) ==
    LET free == NextFree(f.prefetch)
        late == ((free + cost) % CyclesMod) - optimal
        t == IF late < 0 THEN [f EXCEPT !.stalls = Append(@, CycleInfo(0, free, 0 - late, "DMA"))]
             ELSE IF late > 0 THEN ReduceStalls(f, late) ELSE f
        end == IF late > 0 THEN Top({cost, optimal}) ELSE optimal
        c == CycleInfo(o, (end - cost) % CyclesMod, cost, "DMA")
    IN  [t EXCEPT !.prefetch = Append(@, c), !.cycles = (o :> c) @@ @]

IssueDMA(p, f, o, cost, optimal) ==
    LET begin == Top({NextFree(f.fifo["DMA"]), DependencyEnd(p, f, o), optimal - cost})
    IN  IF \E d \in p.deps[o] : ~IsScheduled(f, d)
        THEN [f EXCEPT !.error = "Dependency was not scheduled"]
        ELSE Scheduled(f, CycleInfo(o, begin, cost, "DMA"))

(* prefetchDataOps: the pipeline up to a cycle, without what has to wait.  *)
IssuePrefetched(p, sched, f, target) ==
    LET one(acc, c) ==
            IF acc.stop \/ \E d \in p.deps[c.op] : ~IsScheduled(acc.f, d)
            THEN [acc EXCEPT !.kept = Append(@, c)]
            ELSE IF IsScheduled(acc.f, c.op) THEN acc
            ELSE IF c.begin > target THEN [acc EXCEPT !.kept = Append(@, c), !.stop = TRUE]
            ELSE [acc EXCEPT !.f = IssueDMA(p, @, c.op, CostOf(sched, c.op), 0)]
        all == FoldLeft(one, [f |-> f, kept |-> <<>>, stop |-> FALSE], f.prefetch)
    IN  [all.f EXCEPT !.prefetch = all.kept]

(* scheduleComputeOperation: a compute operation, or a DMA that is no data *)
(* operation, after the data operations it depends on.                     *)
AfterDependency(acc, d, f) ==
    [f |-> f, cycle |-> IF IsScheduled(f, d) THEN Top({acc.cycle, EndOf(f.cycles[d])}) ELSE acc.cycle]

ScheduleDependency(p, sched, acc, d) ==
    IF acc.f.error # "" \/ IsScheduled(acc.f, d) THEN acc
    ELSE AfterDependency(acc, d,
             IF acc.f.defined \/ p.deps[d] # {} THEN IssueDMA(p, acc.f, d, CostOf(sched, d), acc.cycle)
             ELSE SchedulePrefetchDMA(acc.f, d, CostOf(sched, d), acc.cycle))

DependenciesScheduled(p, sched, f, o) ==
    FoldLeft(LAMBDA acc, d : ScheduleDependency(p, sched, acc, d),
             [f |-> f, cycle |-> Top({NextFree(f.fifo[p.ops[o].exec]), DependencyEnd(p, f, o)})],
             Ascending(p.deps[o]))

BeginBeside(f, o, cycle, cost, exec) ==
    Scheduled(f, CycleInfo(o, Top({cycle, NextFree(f.fifo["DMA"]) - cost}), cost, exec))

BeginAfter(p, sched, ready, o, cost, exec) ==
    IF ready.f.error # "" THEN ready.f
    ELSE IF ~ready.f.defined \/ exec = "DMA" THEN Scheduled(ready.f, CycleInfo(o, ready.cycle, cost, exec))
    ELSE BeginBeside(IssuePrefetched(p, sched, ready.f, ready.cycle + cost), o, ready.cycle, cost, exec)

ScheduleComputeOperation(p, sched, f, o) ==
    BeginAfter(p, sched, DependenciesScheduled(p, sched, f, o), o, CostOf(sched, o), p.ops[o].exec)

PerformCycleScheduling(p, sched, f) ==
    LET one(g, info) == IF ~IsOriginal(info) \/ info.op \in p.data \/ g.error # "" \/ (g.defined /\ IsScheduled(g, info.op))
                        THEN g ELSE ScheduleComputeOperation(p, sched, g, info.op)
    IN  FoldLeft(one, f, sched)

------------------------------------------------------------------------------
(* createDataOpPipeline: from the last to the first, the data operation of *)
(* either FIFO that is later, each ending before the one that follows.     *)
CreateDataOpPipeline(p, f) ==
    LET dma == SelectSeq(f.fifo["DMA"], LAMBDA c : c.op \in p.data)
        one(acc, i) ==
            LET takePrefetch == acc.prefetch # <<>> /\ (acc.dma = <<>> \/ Last(acc.prefetch).begin >= EndOf(Last(acc.dma)))
                c == IF takePrefetch THEN Last(acc.prefetch) ELSE Last(acc.dma)
                end == Top({c.cost, Bottom({acc.end, EndOf(c)})})
            IN  [prefetch |-> IF takePrefetch THEN Front(acc.prefetch) ELSE acc.prefetch,
                 dma |-> IF takePrefetch THEN acc.dma ELSE Front(acc.dma),
                 end |-> end - c.cost,
                 merged |-> <<CycleInfo(c.op, end - c.cost, c.cost, "DMA")>> \o acc.merged]
        all == FoldLeft(one, [prefetch |-> f.prefetch, dma |-> dma, end |-> Never, merged |-> <<>>],
                        [i \in 1..(Len(f.prefetch) + Len(dma)) |-> i])
    IN  [NoCycles EXCEPT !.prefetch = all.merged, !.stalls = f.stalls, !.defined = TRUE]

------------------------------------------------------------------------------
(* getNewOrder: a data operation comes in front of the compute operation   *)
(* before last that begins after it.                                       *)
Earlier(c, d) ==
    LET key(x) == <<x.begin, IF x.exec = "DMA" THEN 0 ELSE 1, EndOf(x), x.op>>
    IN  \E i \in 1..4 : key(c)[i] < key(d)[i] /\ \A j \in 1..(i - 1) : key(c)[j] = key(d)[j]

AdvanceComputeOps == 2

(* The begin of the second compute operation from the k-th on; of the last *)
(* operation if there is none.                                             *)
NextComputeBegin(p, list, k) ==
    LET second == {j \in k..Len(list) : /\ IsCompute(p, list[j].op)
                                        /\ Cardinality({i \in k..j : IsCompute(p, list[i].op)}) = AdvanceComputeOps}
    IN  list[Bottom(second \cup {Len(list)})].begin

NewOrder(p, f) ==
    LET all == {f.cycles[o] : o \in DOMAIN f.cycles}
        list == Sorted({c \in all : c.op \notin p.data}, Earlier)
        take(until, acc, c) ==
            IF acc.stop \/ c.begin >= until THEN [acc EXCEPT !.kept = Append(@, c), !.stop = TRUE]
            ELSE IF ~(p.deps[c.op] \subseteq Range(acc.order)) THEN [acc EXCEPT !.kept = Append(@, c)]
            ELSE [acc EXCEPT !.order = Append(@, c.op)]
        one(acc, k) ==
            LET taken == FoldLeft(LAMBDA t, c : take(NextComputeBegin(p, list, k), t, c),
                                  [order |-> acc.order, kept |-> <<>>, stop |-> FALSE], acc.data)
            IN  [order |-> Append(taken.order, list[k].op), data |-> taken.kept]
        done == FoldLeft(one, [order |-> <<>>, data |-> Sorted({c \in all : c.op \in p.data}, Earlier)],
                         [k \in DOMAIN list |-> k])
    IN  [order |-> done.order,
         error |-> IF done.data = <<>> THEN "" ELSE "Data operations are left when the others have been placed"]

------------------------------------------------------------------------------
Order(p, f) == IF f.error # "" THEN [order |-> <<>>, error |-> f.error] ELSE NewOrder(p, f)

ReplayAgain(p, sched, f) ==
    IF f.error # "" THEN f ELSE PerformCycleScheduling(p, sched, CreateDataOpPipeline(p, f))

EnableDataOpPrefetching(p, sched) ==
    Order(p, ReplayAgain(p, sched, PerformCycleScheduling(p, sched, NoCycles)))

(* reorderToPrefetch, and the AsyncDepsInfo of the new IR, which numbers   *)
(* operations anew and is linearized only without pipelining.              *)
Reordered(p, order) ==
    Analysed([ops |-> [n \in DOMAIN order |-> p.ops[order[n]]], bufs |-> p.bufs,
              links |-> IF p.links = "executor" THEN "none" ELSE p.links,
              memory |-> p.memory, ports |-> p.ports, split |-> p.split])
=============================================================================
