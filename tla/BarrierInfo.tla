----------------------------- MODULE BarrierInfo -----------------------------
(***************************************************************************)
(* The rewriting of barriers by BarrierInfo (core/barrier_info.cpp), as    *)
(* the legalization passes use it, and orderExecutionTasksAndBarriers      *)
(* (dialect/VPURT/utils/barrier_legalization_utils.cpp).                   *)
(*                                                                         *)
(* The wait and update barriers of the tasks and the producers and         *)
(* consumers of the barriers say the same twice; a function keeps the      *)
(* former.  A barrier that was reset has neither and stays declared.       *)
(* There is one control graph block.                                       *)
(***************************************************************************)
EXTENDS BarrierProgram, Sequences

\* A loop: Step is taken for 1, 2 and so on up to n.
Iterate(Step(_, _), base, n) ==
    LET after[i \in 0 .. n] == IF i = 0 THEN base ELSE Step(after[i - 1], i)
    IN  after[n]

\* VPUIP::getAvailableSlots
AvailableSlots == (IF TotalSlots < ProducerSlots THEN TotalSlots ELSE ProducerSlots) \div 2

Barriers(p) == 1 .. p.bars
Used(p) == {v \in Barriers(p) : Producers(p, v) \cup Consumers(p, v) # {}}
Least(S) == CHOOSE x \in S : \A y \in S : x <= y

\* addProducers and addConsumers
Linked(p, v, producers, consumers) ==
    [p EXCEPT !.posts = [t \in Task |-> IF t \in producers THEN p.posts[t] \cup {v} ELSE p.posts[t]],
              !.waits = [t \in Task |-> IF t \in consumers THEN p.waits[t] \cup {v} ELSE p.waits[t]]]

\* New barriers, one for each pair of entries.
WithBarriers(p, producers, consumers) ==
    [p EXCEPT !.bars = @ + Len(producers),
              !.posts = [t \in Task |->
                  p.posts[t] \cup {p.bars + i : i \in {j \in DOMAIN producers : t \in producers[j]}}],
              !.waits = [t \in Task |->
                  p.waits[t] \cup {p.bars + i : i \in {j \in DOMAIN consumers : t \in consumers[j]}}]]

WithBarrier(p, producers, consumers) == WithBarriers(p, <<producers>>, <<consumers>>)

\* resetBarrier
WithoutBarriers(p, S) ==
    [p EXCEPT !.posts = [t \in Task |-> p.posts[t] \ S],
              !.waits = [t \in Task |-> p.waits[t] \ S]]

\* New barriers from each set of tasks to the next.
Chained(p, sets) ==
    WithBarriers(p, [i \in 1 .. Len(sets) - 1 |-> sets[i]], [i \in 1 .. Len(sets) - 1 |-> sets[i + 1]])

\* createLegalVariantBatches: tasks in order, as many to a batch as fit; byKind
\* is considerTaskExecutorType.
Kind(p, t) == IF p.fifo[t] \in DmaFifos THEN None ELSE p.fifo[t]

Batched(p, batches, t, byKind) ==
    LET last == batches[Len(batches)]
    IN  IF /\ SlotCount(p, last \cup {t}) <= AvailableSlots
           /\ byKind => \A u \in last : Kind(p, u) = Kind(p, t)
        THEN [batches EXCEPT ![Len(batches)] = last \cup {t}]
        ELSE Append(batches, {t})

LegalVariantBatches(p, tasks, byKind) ==
    Iterate(LAMBDA batches, i : Batched(p, batches, Increasing(tasks)[i], byKind),
            <<{}>>, Cardinality(tasks))

-----------------------------------------------------------------------------
(* optimizeBarriers, with considerTaskFifoDependency.                      *)

\* createBarrierDependenciesImpliedByFIFO: a barrier for now between neighbours
\* on a DMA queue that have none in common.
NextInQueue(p, t) ==
    {u \in Task : /\ u > t /\ p.fifo[u] = p.fifo[t] /\ p.fifo[t] \in DmaFifos
                  /\ \A w \in t + 1 .. u - 1 : p.fifo[w] # p.fifo[t]
                  /\ p.posts[t] \cap p.waits[u] = {}}

WithFifoDependencies(p) ==
    LET heads == {t \in Task : NextInQueue(p, t) # {}}
        new(t) == p.bars + 1 + Cardinality({s \in heads : s < t})
    IN  [p EXCEPT !.bars = @ + Cardinality(heads),
                  !.posts = [t \in Task |-> p.posts[t] \cup {new(s) : s \in heads \cap {t}}],
                  !.waits = [u \in Task |->
                      p.waits[u] \cup {new(s) : s \in {t \in heads : u \in NextInQueue(p, t)}}]]

\* The barriers that each task or one behind it updates.
Updated(p) ==
    LET updated[t \in Task] ==
            p.posts[t] \cup UNION {updated[u] : u \in BarrierSuccessors(p, t)}
    IN  updated

\* A task need not update a barrier that a task behind it updates.
OptimizedProducers(p) ==
    LET updated == Updated(p)
    IN  [p EXCEPT !.posts = [t \in Task |->
            p.posts[t] \ UNION {updated[u] : u \in BarrierSuccessors(p, t)}]]

\* The first barrier with the same producers.
MergedInto(p, v) ==
    IF Producers(p, v) = {} THEN v
    ELSE Least({w \in Barriers(p) : Producers(p, w) = Producers(p, v)})

\* Barriers with the same producers become one.
MergedSameProducers(p) ==
    [p EXCEPT !.posts = [t \in Task |-> {v \in p.posts[t] : MergedInto(p, v) = v}],
              !.waits = [t \in Task |-> {MergedInto(p, v) : v \in p.waits[t]}]]

Predecessors(p, t) == UNION {Producers(p, v) : v \in p.waits[t]}

\* The barriers that each task or one before it waits for.
Awaited(p) ==
    LET awaited[t \in Task] ==
            p.waits[t] \cup UNION {awaited[u] : u \in Predecessors(p, t)}
    IN  awaited

\* A task need not wait for a barrier that a task before it waits for.
OptimizedConsumers(p) ==
    LET awaited == Awaited(p)
    IN  [p EXCEPT !.waits = [t \in Task |->
            p.waits[t] \ UNION {awaited[u] : u \in Predecessors(p, t)}]]

WithAllOptimizations(p) ==
    OptimizedConsumers(MergedSameProducers(OptimizedProducers(WithFifoDependencies(p))))

\* Otherwise removeBarrierDependenciesImpliedByFIFO finds users of a barrier it
\* should remove.
FifoDependenciesRemovable(p) ==
    LET q == WithAllOptimizations(p)
    IN  \A v \in p.bars + 1 .. q.bars :
            /\ Producers(q, v) = {} <=> Consumers(q, v) = {}
            /\ \A t \in Producers(q, v), u \in Consumers(q, v) : q.posts[t] \cap q.waits[u] = {v}

optimizeBarriers(p) ==
    LET q == WithAllOptimizations(p)
    IN  [WithoutBarriers(q, p.bars + 1 .. q.bars) EXCEPT !.bars = p.bars]

-----------------------------------------------------------------------------
(* shareWaitAndUpdateBarriers: tasks of a DMA queue without barriers share *)
(* those of the next task that updates some, and of the previous one that  *)
(* waits for some.                                                         *)

\* linkTasksToBarriers for update barriers: one of them, then all.
ProducersLinked(p, tasks, v) ==
    LET producers == LegalVariantBatches(p, Producers(p, v) \cup tasks, FALSE)
    IN  IF Len(producers) = 1 THEN Linked(p, v, tasks, {})
        ELSE WithoutBarriers(Chained(p, Append(producers, Consumers(p, v))), {v})

LinkedProducers(p, tasks, barriers) ==
    Iterate(LAMBDA q, i : ProducersLinked(q, tasks, Increasing(barriers)[i]), p, Cardinality(barriers))

\* linkTasksToBarriers for wait barriers.
ConsumersLinked(p, tasks, v) ==
    LET consumers == LegalVariantBatches(p, Consumers(p, v) \cup tasks, FALSE)
    IN  IF Len(consumers) = 1 THEN Linked(p, v, {}, tasks)
        ELSE WithoutBarriers(Chained(p, <<Producers(p, v)>> \o consumers), {v})

LinkedConsumers(p, tasks, barriers) ==
    Iterate(LAMBDA q, i : ConsumersLinked(q, tasks, Increasing(barriers)[i]), p, Cardinality(barriers))

\* idle are the tasks passed since the last one with barriers.
UpdatesShared(shared, t) ==
    LET updates == shared.p.posts[t]
    IN  IF updates = {} THEN [shared EXCEPT !.idle = @ \cup {t}]
        ELSE [p |-> IF shared.idle = {} THEN shared.p
                    ELSE LinkedProducers(shared.p, shared.idle, updates),
              idle |-> {}]

SharedUpdates(p, queue) ==
    Iterate(LAMBDA shared, i : UpdatesShared(shared, queue[i]), [p |-> p, idle |-> {}], Len(queue)).p

WaitsShared(shared, t) ==
    LET waits == shared.p.waits[t]
    IN  IF waits = {} THEN [shared EXCEPT !.idle = @ \cup {t}]
        ELSE [p |-> IF shared.idle = {} THEN shared.p
                    ELSE LinkedConsumers(shared.p, shared.idle, waits),
              idle |-> {}]

\* The queue from its end.
SharedWaits(p, queue) ==
    Iterate(LAMBDA shared, i : WaitsShared(shared, queue[Len(queue) + 1 - i]),
            [p |-> p, idle |-> {}], Len(queue)).p

QueueShared(p, f) ==
    LET queue == Increasing({t \in Task : p.fifo[t] = f})
    IN  SharedWaits(SharedUpdates(p, queue), queue)

shareWaitAndUpdateBarriers(p) ==
    Iterate(LAMBDA q, i : QueueShared(q, Increasing(DmaFifos)[i]), p, Cardinality(DmaFifos))

-----------------------------------------------------------------------------
(* splitBarriersWithExceedingVariantCount                                  *)

\* Whether a barrier with that many slots on one side is left as it is.
LegalSide(p, v, tasks) ==
    \/ SlotCount(p, tasks) <= AvailableSlots
    \/ /\ TotalSlots < ProducerSlots
       /\ SlotCount(p, Producers(p, v)) + SlotCount(p, Consumers(p, v)) <= TotalSlots

ProducersSplit(p, v) ==
    LET producers == LegalVariantBatches(p, Producers(p, v), FALSE)
    IN  IF LegalSide(p, v, Producers(p, v)) THEN p
        ELSE WithoutBarriers(
                WithBarriers(p, producers, [i \in DOMAIN producers |-> Consumers(p, v)]), {v})

SplitProducers(p) == Iterate(ProducersSplit, p, p.bars)

ConsumersSplit(p, v) ==
    LET consumers == LegalVariantBatches(p, Consumers(p, v), FALSE)
    IN  IF LegalSide(p, v, Consumers(p, v)) THEN p
        ELSE WithoutBarriers(
                WithBarriers(p, [i \in DOMAIN consumers |-> Producers(p, v)], consumers), {v})

SplitConsumers(p) == Iterate(ConsumersSplit, p, p.bars)

splitBarriersWithExceedingVariantCount(p) == SplitConsumers(SplitProducers(p))

-----------------------------------------------------------------------------
(* eliminateParallelWaitBarriers: a task with several wait barriers gets   *)
(* one for all their producers, or a chain of them.                        *)

\* createProducerBatches takes the wait barriers as the set of the task lists
\* them, and gives up unless their producers follow one another.
ProducersInOrder(p, waits) ==
    \A i \in 1 .. Len(waits) - 1 :
        \A t \in Producers(p, waits[i]), u \in Producers(p, waits[i + 1]) : t < u

ProducersBatched(p, batches, v, byKind) ==
    LET producers == Producers(p, v)
        together == producers \cup (IF batches = <<>> THEN {} ELSE batches[Len(batches)])
    IN  IF batches # <<>> /\ SlotCount(p, together) <= AvailableSlots
        THEN [batches EXCEPT ![Len(batches)] = together]
        ELSE batches \o IF SlotCount(p, producers) <= AvailableSlots THEN <<producers>>
                        ELSE LegalVariantBatches(p, producers, byKind)

ProducerBatches(p, waits, byKind) ==
    Iterate(LAMBDA batches, i : ProducersBatched(p, batches, waits[i], byKind), <<>>, Len(waits))

\* The sequences that list each member of S once.
Listings(S) == {s \in [1 .. Cardinality(S) -> S] : \A x \in S : \E i \in DOMAIN s : s[i] = x}

\* The batches of producers linearizeLegalParallelProducers may chain.
LinearizedProducers(p, t, byKind) ==
    {IF ProducersInOrder(p, waits) THEN ProducerBatches(p, waits, byKind)
     ELSE LegalVariantBatches(p, Predecessors(p, t), byKind) : waits \in Listings(p.waits[t])}

\* Variant: whether the consumers fit in what is left is not asked.
AllLeft(p, t, uneven) ==
    LET left == 2 * AvailableSlots - SlotCount(p, Predecessors(p, t))
    IN  IF uneven /\ left > 0 THEN left ELSE AvailableSlots

\* Half of the slots are for consumers; with _enableUnevenVariantSplit those the
\* producers leave, if each consumer fits in them.
ConsumerSlots(p, t, uneven) ==
    LET left == 2 * AvailableSlots - SlotCount(p, Predecessors(p, t))
    IN  IF uneven /\ left > 0 /\ \A c \in Task : p.waits[c] = p.waits[t] => p.count[c] <= left
        THEN left ELSE AvailableSlots

\* Tasks with the same wait barriers, in any order as many as fit.
ParallelConsumers(p, t, uneven) ==
    LET alike == {c \in Task : p.waits[c] = p.waits[t]}
        Fit(tasks) == SlotCount(p, tasks) <= ConsumerSlots(p, t, uneven)
    IN  {merged \in SUBSET alike :
            Fit(merged) /\ (merged = alike \/ \E c \in alike \ merged : ~Fit(merged \cup {c}))}

\* Variant: a barrier nobody waits for any more is not reset.
NoneReset(p, waits, tasks) ==
    [p EXCEPT !.waits = [t \in Task |-> IF t \in tasks THEN p.waits[t] \ waits ELSE p.waits[t]]]

\* unlinkTaskFromParallelBarriers
Unlinked(p, waits, tasks) ==
    WithoutBarriers([p EXCEPT !.waits = [t \in Task |->
                        IF t \in tasks THEN p.waits[t] \ waits ELSE p.waits[t]]],
                    {v \in waits : Consumers(p, v) = tasks})

\* All outcomes.
eliminateParallelWaitBarriers(p, t, byKind, uneven) ==
    LET mergeable == SlotCount(p, Predecessors(p, t))
                         <= 2 * AvailableSlots - ConsumerSlots(p, t, uneven)
        LinkedTo(merged) ==
            IF mergeable THEN {WithBarrier(p, Predecessors(p, t), merged)}
            ELSE {Chained(p, Append(batches, merged)) :
                     batches \in LinearizedProducers(p, t, byKind)}
    IN  UNION {{Unlinked(q, p.waits[t], merged) : q \in LinkedTo(merged)} :
                  merged \in ParallelConsumers(p, t, uneven)}

\* Variant: two wait barriers are let through.
ManyWaits(p) == {t \in Task : Cardinality(p.waits[t]) > 2}

ParallelWaits(p) == {t \in Task : Cardinality(p.waits[t]) > 1}

TaskEnsured(outcomes, t, byKind, uneven) ==
    UNION {IF t \in ParallelWaits(q) THEN eliminateParallelWaitBarriers(q, t, byKind, uneven)
           ELSE {q} : q \in outcomes}

\* One walk of ensureTasksDrivenBySingleBarrier through the tasks.
ParallelWaitsEliminated(p, byKind, uneven) ==
    Iterate(LAMBDA outcomes, t : TaskEnsured(outcomes, t, byKind, uneven), {p}, NumTasks)

-----------------------------------------------------------------------------
(* ReduceExceedingActiveCountBarriers: linearizeBarriers, linearizeTasks.  *)

\* findEndItr: where the tasks that use the same barriers as the i-th end, or do
\* not fit any more.
GroupEnd(p, tasks, i) ==
    Least({Len(tasks) + 1} \cup
          {j \in i + 1 .. Len(tasks) :
              \/ p.waits[tasks[j]] # p.waits[tasks[i]]
              \/ p.posts[tasks[j]] # p.posts[tasks[i]]
              \/ SlotCount(p, {tasks[k] : k \in i .. j}) > AvailableSlots})

\* A barrier from each group of tasks to the next, unless there is a path.
GroupLinearized(linear, i, tasks, paths) ==
    LET p == linear.p
        next == GroupEnd(p, tasks, i)
        group(from) == {tasks[k] : k \in from .. GroupEnd(p, tasks, from) - 1}
    IN  IF i # linear.group \/ next > Len(tasks) THEN linear
        ELSE [p |-> IF tasks[next] \in paths[tasks[i]] THEN p
                    ELSE WithBarrier(p, group(i), group(next)),
              group |-> next]

LinearizedTasks(p, tasks, paths) ==
    Iterate(LAMBDA linear, i : GroupLinearized(linear, i, tasks, paths),
            [p |-> p, group |-> 1], Len(tasks)).p

BatchLinearized(p, batch, paths) ==
    LinearizedTasks(p, Increasing(UNION {Producers(p, v) \cup Consumers(p, v) : v \in batch}), paths)

\* The control map is that of before the first batch.
linearizeBarriers(p, batches) ==
    Iterate(LAMBDA q, i : BatchLinearized(q, batches[i], BarrierControlMap(p)), p, Len(batches))

-----------------------------------------------------------------------------
(* orderExecutionTasksAndBarriers: tasks in the order they become ready,   *)
(* barriers in that of their first producers.                              *)

\* Those with keys in the order of the keys, which are distinct.
InOrder(key) ==
    [i \in 1 .. Cardinality(DOMAIN key) |->
        CHOOSE x \in DOMAIN key : Cardinality({y \in DOMAIN key : key[y] < key[x]}) = i - 1]

\* Variant: a task does not wait for those before it on its FIFO.
ReadyAnywhere(p, issued) ==
    {t \in Task \ issued : \A v \in p.waits[t] :
        Producers(p, v) # {} /\ Producers(p, v) \subseteq issued}

\* findReadyOpsFromTaskOpQueues: a barrier is gone with its last producer.
ReadyOps(p, issued) ==
    {t \in Task \ issued : \A u \in Task \ issued : p.fifo[u] = p.fifo[t] /\ u <= t =>
        \A v \in p.waits[u] : Producers(p, v) # {} /\ Producers(p, v) \subseteq issued}

\* One from each FIFO in turn.
InTurn(p, ready) ==
    InOrder([t \in ready |->
        NumFifos * Cardinality({u \in ready : p.fifo[u] = p.fifo[t] /\ u < t}) + p.fifo[t]])

WithReady(p, tasks) == tasks \o InTurn(p, ReadyOps(p, {tasks[i] : i \in DOMAIN tasks}))

\* Shorter than the function if the simulation fails.
TaskOrder(p) == Iterate(LAMBDA tasks, round : WithReady(p, tasks), <<>>, NumTasks)

\* Barriers without use stay behind the others.
BarrierOrder(p, tasks) ==
    InOrder([v \in Barriers(p) |->
        p.bars * Least({NumTasks + 1} \cup {i \in DOMAIN tasks : tasks[i] \in Producers(p, v)}) + v])

\* BarrierInfo{funcOp} with tasks and barriers in that order.
Reindexed(p, tasks, bars) ==
    LET numbers(S) == {j \in DOMAIN bars : bars[j] \in S}
    IN  [p EXCEPT !.fifo = [t \in Task |-> p.fifo[tasks[t]]],
                  !.count = [t \in Task |-> p.count[tasks[t]]],
                  !.waits = [t \in Task |-> numbers(p.waits[tasks[t]])],
                  !.posts = [t \in Task |-> numbers(p.posts[tasks[t]])]]

\* postProcessBarrierOps after ordering: barriers without use are erased.
postProcessBarrierOps(p) == [p EXCEPT !.bars = Cardinality(Used(p))]
=============================================================================
