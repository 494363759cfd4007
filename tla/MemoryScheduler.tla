--------------------------- MODULE MemoryScheduler ---------------------------
(***************************************************************************)
(* The feasible memory scheduler (core/feasible_memory_scheduler.cpp): a   *)
(* list scheduler that gives the operations of a program cycles, executor  *)
(* instances and CMX addresses, and spills buffers to DDR when nothing     *)
(* fits.                                                                   *)
(*                                                                         *)
(* The members of the class are the fields of the record s, which the      *)
(* operators below take and return; an action is one arm of schedulingLoop *)
(* or one of its calls.  The allocator is the atomic face of LinearScan: a *)
(* call of alloc or canAlloc is one step here.  readySpilledOps,           *)
(* spillBufferMap and the handler's dynamic spills always change together, *)
(* so `spilled` is the set of spilled buffers, each under its producer.    *)
(*                                                                         *)
(* CyclesMod stands for 2^64.                                              *)
(***************************************************************************)
EXTENDS MemoryProgram, Partitioner

CONSTANTS
    Programs,       \* the programs considered
    BarrierLimit,   \* barriers per cluster times clusters
    LevelLimit      \* _prefetchingLevelLimit

ASSUME ProgramsAssumption == \A p \in Programs : IsProgram(p)

VARIABLES
    prog,   \* the program, analysed
    pc,     \* where schedulingLoop is
    s       \* the members of the scheduler, its handler and its allocator

vars == <<prog, pc, s>>

CyclesMod == 256
Never == CyclesMod - 1     \* std::numeric_limits<size_t>::max()

Max0(S) == Top(S \cup {0})

Fail(st, what) == [st EXCEPT !.error = what]

------------------------------------------------------------------------------
(***************************************************************************)
(* Executors.                                                              *)
(***************************************************************************)
DmaQueue(p, fromDDR) == IF ~p.split THEN "DMA" ELSE IF fromDDR THEN "DMA_DDR" ELSE "DMA_CMX"

DmaQueues(p) == {DmaQueue(p, fromDDR) : fromDDR \in BOOLEAN}

QueueType(p, o) == IF p.ops[o].exec = "DMA" THEN DmaQueue(p, FromDDR(p, o)) ELSE p.ops[o].exec

(* All ports for a buffer split over the clusters, else the one that is    *)
(* free first; compute executors have one instance.                        *)
InstanceMask(st, queue, all) ==
    LET pipe == st.pipes[queue]
        earliest == {i \in DOMAIN pipe : \A j \in DOMAIN pipe : pipe[i] <= pipe[j]}
    IN  IF all THEN DOMAIN pipe ELSE {Bottom(earliest)}

\* Variant: the first of the instances that is free decides.
SlotOfFirstFree(st, queue, all, cycle) ==
    LET mask == InstanceMask(st, queue, all)
    IN  [queue |-> queue, mask |-> mask,
         cycle |-> Top({cycle, Bottom({st.pipes[queue][i] : i \in mask})})]

Slot(st, queue, all, cycle) ==
    LET mask == InstanceMask(st, queue, all)
    IN  [queue |-> queue, mask |-> mask, cycle |-> Top({cycle} \cup {st.pipes[queue][i] : i \in mask})]

OpSlot(p, st, o, cycle) ==
    Slot(st, QueueType(p, o),
         p.ops[o].exec = "DMA" /\ \E b \in st.used[o] : p.bufs[b].wide,
         Top({cycle} \cup {st.opEnd[d] : d \in p.deps[o]}))

SpillSlot(p, st, b, type, cycle) == Slot(st, DmaQueue(p, type = "READ"), p.bufs[b].wide, cycle)

Occupy(st, slot, cycle) ==
    [st EXCEPT !.pipes[slot.queue] = [i \in DOMAIN @ |-> IF i \in slot.mask THEN cycle ELSE @[i]]]

\* Variant: the other executors go on in the past.
NotAligned(st, cycle) == st

AlignExecutors(st, cycle) ==
    [st EXCEPT !.pipes = [q \in DOMAIN @ |-> [i \in DOMAIN @[q] |-> Top({@[q][i], cycle})]]]

------------------------------------------------------------------------------
(***************************************************************************)
(* The heaps are std::set: an element that neither precedes nor follows    *)
(* one that is there already is not inserted.                              *)
(***************************************************************************)
TieBefore(a, b) ==
    IF a.type = "PREFETCHED" <=> b.type = "PREFETCHED" THEN a.op < b.op ELSE a.type = "PREFETCHED"

BeginBefore(a, b) == a.begin < b.begin \/ (a.begin = b.begin /\ TieBefore(a, b))
EndBefore(a, b) == a.end < b.end \/ (a.end = b.end /\ TieBefore(a, b))

Inserted(heap, e, before(_, _)) ==
    IF \E x \in heap : ~before(x, e) /\ ~before(e, x) THEN heap ELSE heap \cup {e}

Element(o, type, slot, cost, b) ==
    [op |-> o, type |-> type, buf |-> b, queue |-> slot.queue, mask |-> slot.mask,
     begin |-> slot.cycle, end |-> slot.cycle + cost]

IsOriginal(e) == e.type \in {"ORIGINAL", "PREFETCHED"}

\* Variant: reading a buffer is no use of it.
PushedCountingWrites(p, st, e) ==
    LET made == IF e.type = "READ" THEN {e.buf} ELSE IF IsOriginal(e) THEN OutBufs(p, e.op) ELSE {}
    IN  [st EXCEPT !.begin = Inserted(@, e, BeginBefore),
                   !.producer = [b \in DOMAIN @ |-> IF b \in made THEN e.op ELSE @[b]],
                   !.opEnd[e.op] = Top({@, e.end})]

Pushed(p, st, e) ==
    LET made == IF e.type = "READ" THEN {e.buf} ELSE IF IsOriginal(e) THEN OutBufs(p, e.op) ELSE {}
        touched == IF IsOriginal(e) THEN made \cup InBufs(p, e.op) ELSE made
    IN  [st EXCEPT !.begin = Inserted(@, e, BeginBefore),
                   !.producer = [b \in DOMAIN @ |-> IF b \in made THEN e.op ELSE @[b]],
                   !.lastUse = [b \in DOMAIN @ |-> IF b \in touched THEN Top({@[b], e.end}) ELSE @[b]],
                   !.opEnd[e.op] = Top({@, e.end})]

------------------------------------------------------------------------------
(***************************************************************************)
(* The allocator and its handler.                                          *)
(***************************************************************************)
(* Buffers that hold much of the graph first, then the large ones.         *)
SortUsedBuffers(p, B) ==
    LET outDegree(b) == FoldSet(LAMBDA o, n : n + Cardinality(p.cons[o]), 0, Writers(p, b))
        sooner(a, b) == \/ outDegree(a) > outDegree(b)
                        \/ outDegree(a) = outDegree(b) /\ p.bufs[a].size > p.bufs[b].size
                        \/ outDegree(a) = outDegree(b) /\ p.bufs[a].size = p.bufs[b].size /\ a < b
    IN  Sorted(B, sooner)

Placed(acc, b, found) ==
    [gaps |-> found.gaps, addr |-> [acc.addr EXCEPT ![b] = found.addr], ok |-> acc.ok /\ found.addr # InvalidAddress]

Place(p, acc, b) == Placed(acc, b, Alloc(acc.gaps, p.bufs[b].size, 1, "Up"))

PlaceAll(p, st, B) ==
    FoldLeft(LAMBDA acc, b : Place(p, acc, b),
             [gaps |-> st.gaps, addr |-> st.addr, ok |-> TRUE], SortUsedBuffers(p, B))

CanAlloc(p, st, B) == PlaceAll(p, st, B).ok

Allocated(st, B, placed) ==
    IF ~placed.ok THEN Fail(st, "Failed to statically allocate memory")
    ELSE IF \E b \in B : st.addr[b] # InvalidAddress THEN Fail(st, "Value was already allocated")
    ELSE [st EXCEPT !.alive = @ \cup B, !.live = @ \cup B, !.gaps = placed.gaps, !.addr = placed.addr]

SortAndAllocate(p, st, B) == Allocated(st, B, PlaceAll(p, st, B))

FreeNonAlive(p, st) ==
    [st EXCEPT !.live = @ \cap st.alive,
               !.gaps = FoldSet(LAMBDA b, g : Free(g, st.addr[b], p.bufs[b].size), @, st.live \ st.alive)]

------------------------------------------------------------------------------
(***************************************************************************)
(* Ready lists.                                                            *)
(***************************************************************************)
AddReady(p, st, o) ==
    LET list == IF IsCompute(p, o) THEN "readyC" ELSE "readyDMA"
    IN  IF o \in st[list] THEN Fail(st, "Operation already in ready list") ELSE [st EXCEPT ![list] = @ \cup {o}]

\* Variant: an operation is ready when one dependency is still missing.
UnlockedEarly(p, st, o) == {q \in p.cons[o] : st.inDeg[q] < 3}

Unlocked(p, st, o) == {q \in p.cons[o] : st.inDeg[q] < 2}

ReduceInDegree(p, st, o) ==
    [st EXCEPT !.inDeg = [q \in DOMAIN @ |-> IF q \in p.cons[o] /\ @[q] > 0 THEN @[q] - 1 ELSE @[q]]]

(* A data operation unlocks its consumers at once; none of them is a data  *)
(* operation.                                                              *)
Distribute(p, st, o) ==
    IF o \notin p.data THEN AddReady(p, st, o)
    ELSE FoldLeft(LAMBDA t, q : AddReady(p, t, q),
                  [ReduceInDegree(p, st, o) EXCEPT !.readyData = @ \cup {o}],
                  Ascending(Unlocked(p, st, o)))

UnlockConsumers(p, st, o) ==
    FoldLeft(LAMBDA t, q : Distribute(p, t, q), ReduceInDegree(p, st, o), Ascending(Unlocked(p, st, o)))

------------------------------------------------------------------------------
(***************************************************************************)
(* Scheduling one operation.                                               *)
(***************************************************************************)
NonAlive(st, o) == st.used[o] \ st.alive

Unscheduled(p, st, o) == {d \in p.deps[o] : st.opEnd[d] = 0}

BuffersToAllocate(p, st, o) == NonAlive(st, o) \cup UNION {NonAlive(st, d) : d \in Unscheduled(p, st, o)}

SpillRead(p, st, b) ==
    LET slot == SpillSlot(p, st, b, "READ", 0)
        cost == p.bufs[b].size
    IN  Pushed(p, Occupy([st EXCEPT !.spilled = @ \ {b}], slot, slot.cycle + cost),
               Element(st.producer[b], "READ", slot, cost, b))

(* scheduleDependencies, first half: what the operation uses comes alive,  *)
(* and what was spilled is read back.                                      *)
ReadBack(p, st, o) ==
    FoldLeft(LAMBDA t, b : LET alive == [t EXCEPT !.alive = @ \cup {b}]
                           IN  IF b \in t.spilled THEN SpillRead(p, alive, b) ELSE alive,
             st, Ascending(NonAlive(st, o)))

EarliestBegin(p, st, o) ==
    Top({OpSlot(p, st, o, 0).cycle} \cup
        {st.opEnd[st.producer[b]] : b \in {c \in st.used[o] : st.producer[c] # 0}})

Issue(p, st, o, type) ==
    LET slot == OpSlot(p, st, o, EarliestBegin(p, st, o))
    IN  Pushed(p, Occupy(st, slot, slot.cycle + p.ops[o].cost), Element(o, type, slot, p.ops[o].cost, 0))

ScheduleData(p, st, o, type) ==
    [Issue(p, ReadBack(p, st, o), o, type) EXCEPT !.readyData = @ \ {o}]

(* The data operations it depends on go first, by the cycle they could     *)
(* begin at.                                                               *)
ScheduleWithDemand(p, back, o) ==
    LET demand == Unscheduled(p, back, o)
        cycle == [d \in demand |-> OpSlot(p, back, d, 0).cycle]
        sooner(d, e) == cycle[d] < cycle[e] \/ (cycle[d] = cycle[e] /\ d < e)
    IN  IF ~(demand \subseteq back.readyData)
        THEN Fail(back, "Failed to schedule dependencies - operation not ready")
        ELSE Issue(p, FoldLeft(LAMBDA t, d : ScheduleData(p, t, d, "ORIGINAL"), back, Sorted(demand, sooner)),
                   o, "ORIGINAL")

ScheduleOp(p, st, o) == ScheduleWithDemand(p, ReadBack(p, st, o), o)

------------------------------------------------------------------------------
(***************************************************************************)
(* Prefetching: data operations and spilled buffers of the next levels are *)
(* brought in while memory and barriers last.  The walk over the           *)
(* candidates ends (stop) at the first that does not fit.                  *)
(***************************************************************************)
RemainingLevel(p, st, o) ==
    LET left == {q \in p.cons[o] : st.opEnd[q] = 0}
    IN  IF left = {} THEN Never ELSE Bottom({p.level[q] : q \in left})

SpilledOf(st, o) == {b \in st.spilled : st.producer[b] = o}

AliveDataOps(p, st) == p.data \cap {st.producer[b] : b \in st.alive}

(* Candidates as <<level, operation>>.                                     *)
PrefetchCandidates(p, st, last, limit) ==
    {c \in {<<p.level[o], o>> : o \in st.readyData}
           \cup {<<RemainingLevel(p, st, st.producer[b]), st.producer[b]>> : b \in st.spilled \ st.alive} :
        c[2] <= last /\ c[1] <= limit}

PrefetchOne(p, acc, o, limit, lastLevel, lastCycle) ==
    LET st == acc.st
        data == o \in st.readyData
        bufs == IF data THEN BuffersToAllocate(p, st, o) ELSE SpilledOf(st, o)
        cycle == IF data THEN OpSlot(p, st, o, 0).cycle
                 ELSE Max0({SpillSlot(p, st, b, "READ", 0).cycle : b \in bufs})
        late == lastCycle # 0 /\ lastLevel + 1 < p.level[o] /\ cycle >= lastCycle
        readIn(t, b) == SpillRead(p, [t EXCEPT !.alive = @ \cup {b}], b)
        count == acc.count + (IF data THEN 1 ELSE Cardinality(bufs))
    IN  IF acc.stop THEN acc
        ELSE IF bufs = {}
        THEN IF data \/ \E e \in st.begin : e.op = o THEN acc
             ELSE [acc EXCEPT !.st = Fail(st, "Failed to find spill candidate")]
        ELSE IF late \/ ~CanAlloc(p, st, bufs \cup acc.bufs) THEN [acc EXCEPT !.stop = TRUE]
        ELSE [st    |-> IF data THEN ScheduleData(p, st, o, "PREFETCHED")
                        ELSE FoldLeft(readIn, st, Ascending(bufs)),
              bufs  |-> bufs \cup acc.bufs,
              count |-> count,
              stop  |-> limit <= count]

(* done: the operations this turn has scheduled; B: the buffers it will    *)
(* allocate.                                                               *)
Prefetch(p, st, done, B) ==
    LET limit == (BarrierLimit - Cardinality(done)) % CyclesMod
        compute == {o \in done : IsCompute(p, o) /\ SpilledOf(st, o) = {}}
        lastLevel == Max0({p.level[o] : o \in compute})
        lastCycle == Max0({st.opEnd[o] : o \in {q \in compute : p.ops[q].cost > 1}})
        order(c, d) == c[1] < d[1] \/ (c[1] = d[1] /\ c[2] < d[2])
        candidates == Sorted(PrefetchCandidates(p, st, Max0(compute), lastLevel + LevelLimit), order)
        alive == Cardinality(AliveDataOps(p, st))
    IN  FoldLeft(LAMBDA acc, c : PrefetchOne(p, acc, c[2], limit, lastLevel, lastCycle),
                 [st |-> st, bufs |-> B, count |-> alive, stop |-> limit <= alive], candidates)

------------------------------------------------------------------------------
(***************************************************************************)
(* scheduleComputeOps.                                                     *)
(***************************************************************************)
ComputeQueues == <<"DPU", "SHAVE">>

\* Variant: each operation is tried by itself.
ChooseIfFitsAlone(p, st, acc, o) ==
    LET bufs == BuffersToAllocate(p, st, o)
    IN  IF CanAlloc(p, st, bufs) THEN [bufs |-> bufs \cup acc.bufs, ops |-> Append(acc.ops, o)] ELSE acc

ChooseIfFits(p, st, acc, o) ==
    LET bufs == BuffersToAllocate(p, st, o) \cup acc.bufs
    IN  IF CanAlloc(p, st, bufs) THEN [bufs |-> bufs, ops |-> Append(acc.ops, o)] ELSE acc

(* The first operation of each queue that is ready and alone there.        *)
ChooseCompute(p, st) ==
    LET first(q) == Head(st.order[q])
        choose(acc, q) == IF /\ st.order[q] # <<>> /\ first(q) \in st.readyC
                             /\ \A e \in st.end : e.queue # q
                          THEN ChooseIfFits(p, st, acc, first(q)) ELSE acc
    IN  FoldLeft(choose, [bufs |-> {}, ops |-> <<>>], ComputeQueues)

ScheduleCompute(p, st, o) ==
    [ScheduleOp(p, st, o) EXCEPT !.readyC = @ \ {o}, !.order[QueueType(p, o)] = Tail(@)]

ChooseDMA(p, st, B) ==
    FoldLeft(LAMBDA acc, o : ChooseIfFits(p, st, acc, o), [bufs |-> B, ops |-> <<>>], Ascending(st.readyDMA))

(* What a DMA unlocks is distributed after all of them in the code; the    *)
(* operations chosen do not look at it.                                    *)
ScheduleDMA(p, st, o) == UnlockConsumers(p, [ScheduleOp(p, st, o) EXCEPT !.readyDMA = @ \ {o}], o)

AliveNow(t) == [t EXCEPT !.st.alive = @ \cup t.bufs]

(* A turn t is the state and the buffers the turn will allocate.           *)
TakeCompute(p, st, chosen) ==
    IF chosen.ops = <<>> THEN [st |-> st, bufs |-> {}]
    ELSE AliveNow(Prefetch(p, FoldLeft(LAMBDA t, o : ScheduleCompute(p, t, o), st, chosen.ops),
                           Range(chosen.ops), chosen.bufs))

TakeDMA(p, t, done, chosen) ==
    IF chosen.ops = <<>> THEN t
    ELSE Prefetch(p, FoldLeft(LAMBDA u, o : ScheduleDMA(p, u, o), t.st, chosen.ops),
                  done \cup Range(chosen.ops), chosen.bufs)

WithDMA(p, t, done) == TakeDMA(p, t, done, ChooseDMA(p, t.st, t.bufs))

WithCompute(p, st, chosen) == WithDMA(p, TakeCompute(p, st, chosen), Range(chosen.ops))

AllocateTurn(p, t) == SortAndAllocate(p, t.st, t.bufs)

ScheduleComputeOps(p, st) == AllocateTurn(p, WithCompute(p, st, ChooseCompute(p, st)))

------------------------------------------------------------------------------
(***************************************************************************)
(* Completing operations, and what they leave behind.                      *)
(***************************************************************************)
FreeMemoryResources(p, st, o) ==
    LET users == [b \in DOMAIN st.users |-> IF b \in st.used[o] THEN st.users[b] \ {o} ELSE st.users[b]]
        dead == {b \in st.used[o] : users[b] = {}}
        erased == [st EXCEPT !.users = users, !.used[o] = {}, !.alive = @ \ dead]
    IN  [st |-> IF dead = {} THEN erased ELSE FreeNonAlive(p, erased), freed |-> dead # {}]

Complete(p, st, e) ==
    LET free == FreeMemoryResources(p, st, e.op)
        aligned == IF free.freed THEN AlignExecutors(free.st, e.end) ELSE free.st
        unlocked == IF IsOriginal(e) /\ IsCompute(p, e.op) THEN UnlockConsumers(p, aligned, e.op) ELSE aligned
    IN  [unlocked EXCEPT !.end = @ \ {e}]

UnscheduleAllCompletingOps(p, st) ==
    LET ends == UNION {{st.pipes[e.queue][i] : i \in e.mask} : e \in st.end}
        completing == {e \in st.end : e.end <= Bottom(ends)}
    IN  FoldLeft(LAMBDA t, e : Complete(p, t, e), st, Sorted(completing, EndBefore))

(* populateScheduledOps: the addresses are those of now, and a spilled     *)
(* buffer loses its own.                                                   *)
Intervals(p, st, B) == {[buf |-> b, begin |-> st.addr[b], end |-> st.addr[b] + p.bufs[b].size] : b \in B}

Info(p, st, e) ==
    LET ins == IF e.type = "WRITE" THEN {e.buf}
               ELSE IF IsOriginal(e) THEN {b \in InBufs(p, e.op) : st.producer[b] # 0} ELSE {}
        outs == IF e.type = "READ" THEN {e.buf} ELSE IF IsOriginal(e) THEN OutBufs(p, e.op) ELSE {}
    IN  [op |-> e.op, type |-> e.type, queue |-> e.queue, mask |-> e.mask, begin |-> e.begin, end |-> e.end,
         ins |-> Intervals(p, st, ins), outs |-> Intervals(p, st, outs)]

MoveOne(p, st, e) ==
    LET info == Info(p, st, e)
    IN  IF \E i \in info.ins \cup info.outs : i.begin = InvalidAddress
        THEN Fail(st, "Value was not allocated")
        ELSE [st EXCEPT !.sched = Append(@, info), !.opEnd[e.op] = Top({@, e.end}),
                        !.end = Inserted(@, e, EndBefore), !.outputs = @ \ {e.op},
                        !.addr = IF e.type = "WRITE" THEN [@ EXCEPT ![e.buf] = InvalidAddress] ELSE @]

MoveFromBeginToEnd(p, st) ==
    [FoldLeft(LAMBDA t, e : MoveOne(p, t, e), st, Sorted(st.begin, BeginBefore)) EXCEPT !.begin = {}]

------------------------------------------------------------------------------
(***************************************************************************)
(* Dynamic spilling.                                                       *)
(***************************************************************************)
EvictionPriority(p, st, b) ==
    IF Cardinality(Writers(p, b)) > 1 THEN 0 ELSE IF st.producer[b] \in p.data THEN 3 ELSE 2

(* An operation with a spilled buffer counts as a DMA (getExecutorType).   *)
EarliestConsumer(p, st, o) ==
    LET left == {q \in p.cons[o] : IsCompute(p, q) /\ SpilledOf(st, q) = {} /\ st.opEnd[q] = 0}
    IN  IF left = {} THEN Never ELSE Bottom(left)

EvictionCandidates(p, st) ==
    LET key(b) == <<EvictionPriority(p, st, b), EarliestConsumer(p, st, st.producer[b]),
                    0 - p.bufs[b].size, st.producer[b], b>>
        sooner(a, b) == \E i \in 1..5 : key(a)[i] > key(b)[i] /\ \A j \in 1..(i - 1) : key(a)[j] = key(b)[j]
    IN  Sorted(st.alive, sooner)

(* The candidates of the last search serve while nothing but spill writes  *)
(* was scheduled since.                                                    *)
ChooseCandidates(p, st) ==
    IF st.cache # <<>> /\ st.sched[Len(st.sched)].type = "WRITE" THEN st.cache ELSE EvictionCandidates(p, st)

\* Variant: the spilled buffer is not freed.
EvictWithoutFree(p, st, b) == [st EXCEPT !.spilled = @ \cup {b}, !.alive = @ \ {b}]

EvictActiveOp(p, st, b) ==
    FreeNonAlive(p, [st EXCEPT !.spilled = @ \cup {b}, !.alive = @ \ {b}])

ForceScheduleActiveOpEviction(p, st) ==
    LET candidates == ChooseCandidates(p, st)
        b == Head(candidates)
        evicted == [EvictActiveOp(p, st, b) EXCEPT !.cache = Tail(candidates)]
        slot == SpillSlot(p, evicted, b, "WRITE", st.lastUse[b])
        cost == p.bufs[b].size
    IN  IF st.alive = {} THEN Fail(st, "Cannot schedule anything and there is no buffer to spill")
        ELSE AlignExecutors(Occupy(Pushed(p, evicted, Element(st.producer[b], "WRITE", slot, cost, b)),
                                   slot, slot.cycle + cost),
                            slot.cycle + cost)

------------------------------------------------------------------------------
(***************************************************************************)
(* schedulingLoop.                                                         *)
(***************************************************************************)
NewScheduler(p) ==
    [begin |-> {}, end |-> {}, readyC |-> {}, readyDMA |-> {}, readyData |-> {},
     spilled |-> {}, cache |-> <<>>, sched |-> <<>>,
     inDeg |-> [o \in Op(p) |-> Cardinality(p.deps[o])],
     outputs |-> {o \in Op(p) : p.cons[o] = {}},
     order |-> [q \in ComputeExec |-> Ascending({o \in Op(p) : p.ops[o].exec = q})],
     pipes |-> [q \in DmaQueues(p) \cup ComputeExec |-> [i \in IF q \in ComputeExec THEN {1} ELSE 1..p.ports |-> 1]],
     opEnd |-> [o \in Op(p) |-> 0],
     producer |-> [b \in p.cmx |-> 0], lastUse |-> [b \in p.cmx |-> 0],
     users |-> [b \in p.cmx |-> {o \in Op(p) : b \in p.used[o]}], used |-> p.used,
     alive |-> {}, live |-> {}, addr |-> [b \in p.cmx |-> InvalidAddress],
     gaps |-> {[begin |-> 0, end |-> p.memory]}, error |-> ""]

Init ==
    /\ \E p \in Programs : prog = Analysed(p)
    /\ pc = "init"
    /\ s = NewScheduler(prog)

InitializeReadyLists ==
    /\ pc = "init"
    /\ s' = FoldLeft(LAMBDA t, o : Distribute(prog, t, o), s, Ascending({o \in Op(prog) : s.inDeg[o] = 0}))
    /\ pc' = "loop"
    /\ UNCHANGED prog

Looping == pc = "loop" /\ s.outputs # {} /\ s.error = ""

Move ==
    /\ Looping /\ s.begin # {}
    /\ s' = MoveFromBeginToEnd(prog, s)
    /\ UNCHANGED <<prog, pc>>

Unschedule ==
    /\ Looping /\ s.begin = {}
    /\ s' = UnscheduleAllCompletingOps(prog, s)
    /\ pc' = "schedule"
    /\ UNCHANGED prog

Schedule ==
    /\ pc = "schedule" /\ s.error = ""
    /\ s' = ScheduleComputeOps(prog, s)
    /\ pc' = IF s'.begin = {} /\ s'.end = {} THEN "evict" ELSE "loop"
    /\ UNCHANGED prog

Evict ==
    /\ pc = "evict" /\ s.error = ""
    /\ s' = ForceScheduleActiveOpEviction(prog, s)
    /\ pc' = "loop"
    /\ UNCHANGED prog

(* generateSchedule sorts what it returns.                                 *)
ScheduleOrder(i, j) ==
    LET key(k) == <<s.sched[k].begin, s.sched[k].end, s.sched[k].op, k>>
    IN  \E n \in 1..4 : key(i)[n] < key(j)[n] /\ \A m \in 1..(n - 1) : key(i)[m] = key(j)[m]

Finish ==
    /\ pc = "loop" /\ s.outputs = {} /\ s.error = ""
    /\ s' = [s EXCEPT !.sched = LET order == Sorted(DOMAIN @, ScheduleOrder)
                                IN  [i \in DOMAIN @ |-> @[order[i]]]]
    /\ pc' = "done"
    /\ UNCHANGED prog

Stopped == pc = "done" \/ s.error # ""

Ended == Stopped /\ UNCHANGED vars

Next == InitializeReadyLists \/ Move \/ Unschedule \/ Schedule \/ Evict \/ Finish \/ Ended

Spec == Init /\ [][Next]_vars

------------------------------------------------------------------------------
(***************************************************************************)
(* Properties.                                                             *)
(***************************************************************************)
TypeOK ==
    /\ pc \in {"init", "loop", "schedule", "evict", "done"}
    /\ s.alive \subseteq prog.cmx /\ s.live \subseteq prog.cmx /\ s.spilled \subseteq prog.cmx
    /\ s.readyC \cup s.readyDMA \cup s.readyData \cup s.outputs \subseteq Op(prog)
    /\ s.addr \in [prog.cmx -> Int] /\ s.gaps \subseteq Gap
    /\ \A g \in s.gaps : g.begin < g.end /\ g.end <= prog.memory
    /\ s.opEnd \in [Op(prog) -> Nat]

Infos == Range(s.sched)

Overlap(x, y) == x.begin < y.end /\ y.begin < x.end

(* What generateSchedule returns has every operation once, an operation    *)
(* begins when what it depends on has ended, and an executor instance does *)
(* one thing at a time.                                                    *)
ScheduleValid ==
    pc = "done" =>
        /\ \A o \in Op(prog) : Cardinality({i \in DOMAIN s.sched : s.sched[i].op = o /\ IsOriginal(s.sched[i])}) = 1
        /\ \A x, y \in Infos : IsOriginal(x) /\ IsOriginal(y) /\ x.op \in prog.deps[y.op] => x.end <= y.begin
        /\ \A i, j \in DOMAIN s.sched :
               i # j /\ s.sched[i].queue = s.sched[j].queue /\ s.sched[i].mask \cap s.sched[j].mask # {} =>
                   ~Overlap(s.sched[i], s.sched[j])

Touch(i, j) == i.begin < j.end /\ j.begin < i.end

(* Two operations at work in the same cycles never touch the same memory,  *)
(* unless they use one buffer.                                             *)
NoConflict ==
    \A x, y \in Infos :
        Overlap(x, y) =>
            \A i \in x.outs, j \in y.ins \cup y.outs : Touch(i, j) => i.buf = j.buf

(* The writes that put what o wrote to b into the place where x reads it:  *)
(* o itself, or the last read-back when b was spilled in between.          *)
Saves(b, o, x) ==
    {z \in Infos : /\ z.type = "WRITE" /\ z.end <= x.begin
                   /\ \E i \in z.ins : i.buf = b
                   /\ \E y \in Infos : y.op = o /\ IsOriginal(y) /\ y.end <= z.begin}

Sources(b, o, x) ==
    LET saves == Saves(b, o, x)
    IN  {y \in Infos :
            /\ y.end <= x.begin
            /\ \E i \in y.outs : i.buf = b
            /\ IF saves = {} THEN y.op = o /\ IsOriginal(y)
                             ELSE y.type = "READ" /\ \A z \in saves : z.end <= y.begin}

(* Whatever reads a buffer finds there what the writers of the buffer put  *)
(* there: the last place the data was brought to, which nothing else has   *)
(* written to since.                                                       *)
ReadsFind(x, i, o) ==
    \E y \in Sources(i.buf, o, x) :
        /\ \E j \in y.outs : j = i
        /\ \A z \in Infos : z.begin < x.end /\ y.begin < z.end =>
              \A j \in z.outs : Touch(i, j) => j.buf = i.buf

DataReachesReaders ==
    pc = "done" =>
        \A x \in Infos : \A i \in x.ins :
            \A o \in Writers(prog, i.buf) :
                (IsOriginal(x) \/ \E y \in Infos : y.op = o /\ y.end <= x.begin) => ReadsFind(x, i, o)

(* Between the turns the handler, the allocator and the live ranges agree: *)
(* a buffer has memory exactly when it is alive, alive buffers still have  *)
(* users, and a spilled buffer is not alive and will be read again.        *)
BuffersAgree ==
    pc = "loop" /\ s.error = "" =>
        /\ s.alive = s.live
        /\ \A b \in s.alive : s.addr[b] # InvalidAddress /\ s.users[b] # {}
        /\ \A b \in s.spilled : b \notin s.alive /\ s.users[b] # {}

(* What is ready waits for nothing but data operations that are ready.     *)
ReadyIsReady ==
    \A o \in s.readyC \cup s.readyDMA : Unscheduled(prog, s, o) \subseteq s.readyData
=============================================================================
