-------------------------- MODULE BarrierSimulator --------------------------
(***************************************************************************)
(* BarrierSimulator::simulateBarriers                                      *)
(* (dialect/VPURT/interfaces/barrier_simulator.cpp): the virtual barriers  *)
(* of a function are given physical ones by executing its FIFOs.  The      *)
(* passes that call it follow one another here as in the pipeline:         *)
(*   trial     ReduceExceedingActiveCountBarriers looks whether there is   *)
(*             anything to do (see BarrierLegalization);                   *)
(*   legalize  ReduceExceedingActiveCountBarriers simulates with a number  *)
(*             of physical barriers that may grow, and collects batches of *)
(*             barriers that are too many;                                 *)
(*   assign    AssignPhysicalBarriers, after AddFinalBarrier, gives every  *)
(*             virtual barrier a free physical one, with _wlmPidProgramming*)
(*             only one whose last use is ordered before it;               *)
(*   order     generateBarrierOrderWithSimulation looks for an order in    *)
(*             which a given mapping can be programmed;                    *)
(*   validate  BarrierSimulation executes the result.                      *)
(*                                                                         *)
(* A round of the main loop maps barriers while it can, then lets each     *)
(* FIFO run as far as it can, then looks at what the round has done.       *)
(***************************************************************************)
EXTENDS BarrierProgram, Sequences

CONSTANTS NumPids,     \* activeBarrierLimit
          StartMode,   \* simulations the pipeline may start with
          AssignMode,  \* how physical barriers are assigned after legalization
          Wlm          \* settings of _wlmPidProgramming

ASSUME PidAssumption == NumPids \in Nat /\ NumPids > 1
ASSUME ModeAssumption ==
    /\ StartMode \subseteq {"legalize", "assign"}
    /\ AssignMode \subseteq {"assign", "order"}
    /\ Wlm \subseteq BOOLEAN

VARIABLES
    program,          \* the function
    declared,         \* its barriers in the order they are declared
    mode,             \* which simulation this is
    wlmPidProgramming,\* _wlmPidProgramming
    toVirtual,        \* the virtual barrier each physical one is mapped to
    prevVidOfPhysBar, \* the virtual barrier it was mapped to last
    nextReal,         \* ring buffer of the free physical barriers
    realId,           \* _barriers[v].realId
    producerCount,    \* _barriers[v].producerCount
    consumerCount,    \* _barriers[v].consumerCount
    bar,              \* the next barrier to map
    done,             \* tasks the FIFOs have passed (dma, dpu, act, m2i)
    fifo,             \* the FIFO that is run
    progressed,       \* this round has changed something
    batches,          \* _barrierBatchesToLegalize
    order,            \* _barrierProgrammingOrder
    pc                \* the part of the loop, or how the simulation ended

vars == <<program, declared, mode, wlmPidProgramming, toVirtual, prevVidOfPhysBar,
          nextReal, realId, producerCount, consumerCount, bar, done, fifo,
          progressed, batches, order, pc>>

passVars == <<program, declared, mode, wlmPidProgramming>>

isDynamicBarriers == mode \in {"trial", "legalize", "assign"}
barrierLegalizationSim == mode = "legalize"

Pids == DOMAIN toVirtual
Unmapped == {p \in Pids : toVirtual[p] = None}
Active == {toVirtual[p] : p \in Pids} \ {None}

\* checkProducerCount and checkProducerAndConsumerCount
SlotsFit(p) ==
    \A v \in Vid :
        /\ SlotCount(p, Producers(p, v)) <= ProducerSlots
        /\ SlotCount(p, Producers(p, v)) + SlotCount(p, Consumers(p, v)) <= TotalSlots

\* AssignPhysicalBarriers and BarrierSimulation check the slots first;
\* legalization has split the barriers that use too many.
StartPc(p, m) == IF m \in {"trial", "legalize"} \/ SlotsFit(p) THEN "map" ELSE "refused"

\* parseTasks and the first lines of simulateBarriers.
StartSimulation(p) ==
    /\ toVirtual' = [i \in 1 .. NumPids |-> None]
    /\ prevVidOfPhysBar' = [i \in 1 .. NumPids |-> None]
    /\ nextReal' = [i \in 1 .. NumPids |-> i]
    /\ producerCount' = [v \in Vid |-> SlotCount(p, Producers(p, v))]
    /\ consumerCount' = [v \in Vid |-> SlotCount(p, Consumers(p, v))]
    /\ bar' = 1
    /\ done' = {}
    /\ fifo' = 1
    /\ progressed' = FALSE
    /\ batches' = <<>>
    /\ order' = <<>>
    /\ pc' = StartPc(p, mode')

Init ==
    /\ program \in Program
    /\ declared = [i \in 1 .. program.bars |-> i]
    /\ mode \in StartMode
    /\ wlmPidProgramming \in Wlm
    /\ toVirtual = [i \in 1 .. NumPids |-> None]
    /\ prevVidOfPhysBar = [i \in 1 .. NumPids |-> None]
    /\ nextReal = [i \in 1 .. NumPids |-> i]
    /\ realId = [v \in Vid |-> None]
    /\ producerCount = [v \in Vid |-> SlotCount(program, Producers(program, v))]
    /\ consumerCount = [v \in Vid |-> SlotCount(program, Consumers(program, v))]
    /\ bar = 1
    /\ done = {}
    /\ fifo = 1
    /\ progressed = FALSE
    /\ batches = <<>>
    /\ order = <<>>
    /\ pc = StartPc(program, mode)

-----------------------------------------------------------------------------
(* Map new barriers.                                                       *)

\* Variant: the dependency with the previous use is not looked at.
UsableAnyway(p, v) == TRUE

\* Whether the search through nextReal takes p for barrier v.
Usable(p, v) ==
    \/ ~wlmPidProgramming
    \/ prevVidOfPhysBar[p] = None
    \/ canBarrierReusePidFromBarrier(program, v, prevVidOfPhysBar[p])

\* _barrierPidToVidInstancesQueueMap[p]: the declared barriers configured on p
\* that have not been popped yet.
Instances(p) ==
    {v \in {declared[i] : i \in DOMAIN declared} : realId[v] = p}
        \ {order[i] : i \in DOMAIN order}

Map(p, v) ==
    /\ toVirtual' = [toVirtual EXCEPT ![p] = v]
    /\ prevVidOfPhysBar' = [prevVidOfPhysBar EXCEPT ![p] = v]
    /\ bar' = bar + 1
    /\ progressed' = TRUE
    /\ UNCHANGED <<passVars, producerCount, consumerCount, done, fifo, batches, pc>>

\* The first usable physical barrier of the ring; those tried before it go to
\* the end.
MapToFree ==
    /\ isDynamicBarriers
    /\ \E i \in DOMAIN nextReal :
        /\ Usable(nextReal[i], declared[bar])
        /\ \A j \in 1 .. i - 1 : ~Usable(nextReal[j], declared[bar])
        /\ nextReal' = SubSeq(nextReal, i + 1, Len(nextReal)) \o SubSeq(nextReal, 1, i - 1)
        /\ realId' = [realId EXCEPT ![declared[bar]] = nextReal[i]]
        /\ Map(nextReal[i], declared[bar])
    /\ UNCHANGED order

\* The lowest free physical barrier with an instance left, and its next one.
MapNextInstance ==
    /\ mode = "order"
    /\ \E p \in Unmapped :
        /\ Instances(p) # {}
        /\ \A q \in Unmapped : q < p => Instances(q) = {}
        /\ \E v \in Instances(p) :
            /\ \A w \in Instances(p) : v <= w
            /\ order' = Append(order, v)
            /\ Map(p, v)
    /\ UNCHANGED <<nextReal, realId>>

\* A configured barrier is mapped to its own physical one.
MapConfigured ==
    /\ mode = "validate"
    /\ realId[declared[bar]] \in Unmapped
    /\ Map(realId[declared[bar]], declared[bar])
    /\ UNCHANGED <<nextReal, realId, order>>

MapBarrier ==
    /\ pc = "map"
    /\ bar <= Len(declared)
    /\ MapToFree \/ MapNextInstance \/ MapConfigured

CanMap ==
    /\ bar <= Len(declared)
    /\ CASE isDynamicBarriers -> \E i \in DOMAIN nextReal : Usable(nextReal[i], declared[bar])
         [] mode = "order" -> \E p \in Unmapped : Instances(p) # {}
         [] OTHER -> realId[declared[bar]] \in Unmapped

-----------------------------------------------------------------------------
(* Store the barriers to legalize.                                         *)

LastBatch == batches[Len(batches)]

\* Variant: the last batch is not searched for active barriers.
NewBatchEveryRound == batches = <<>> \/ (LastBatch # {} /\ Active # {})

isNewBatchNeeded ==
    \/ batches = <<>>
    \/ LastBatch # {} /\ Active # {} /\ Active \cap LastBatch = {}

WithActiveStored ==
    IF isNewBatchNeeded THEN Append(batches, Active)
    ELSE [batches EXCEPT ![Len(batches)] = @ \cup Active]

\* Variant: all physical barriers in use is already too many.
ExceedingAtLimit == barrierLegalizationSim /\ Len(toVirtual) >= NumPids

\* More physical barriers are in use than there are.
Exceeding == barrierLegalizationSim /\ Len(toVirtual) > NumPids

\* No more barrier can be mapped: the tasks' turn.
EndMapping ==
    /\ pc = "map"
    /\ ~CanMap
    /\ IF Exceeding /\ ~wlmPidProgramming /\ Unmapped # {}
       THEN /\ pc' = "throw"
            /\ UNCHANGED batches
       ELSE /\ pc' = "tasks"
            /\ batches' = IF Exceeding THEN WithActiveStored ELSE batches
    /\ fifo' = 1
    /\ UNCHANGED <<passVars, toVirtual, prevVidOfPhysBar, nextReal, realId,
                   producerCount, consumerCount, bar, done, progressed, order>>

-----------------------------------------------------------------------------
(* Process DMAs, DPUs, Act Kernels and M2I tasks (processSim).             *)

\* Variant: a FIFO's tasks are processed in any order.
AnywhereInFifo(f) == {t \in Task \ done : program.fifo[t] = f}

\* The tasks at the head of the FIFO: one, or none when it is at its end.
AtHead(f) ==
    {t \in Task \ done : program.fifo[t] = f
                         /\ \A u \in Task \ done : program.fifo[u] = f => t <= u}

isBarrierMapped(v) ==
    /\ realId[v] \in Pids
    /\ isDynamicBarriers \/ toVirtual[realId[v]] = v

\* Variant: a barrier still to be produced does not hold the task.
ReadyWhenMapped(t) == \A v \in program.waits[t] \cup program.posts[t] : isBarrierMapped(v)

\* Otherwise processSim answers Status::Skip.
Ready(t) ==
    /\ \A v \in program.waits[t] : isBarrierMapped(v) /\ producerCount[v] <= 0
    /\ \A v \in program.posts[t] : isBarrierMapped(v)

\* Otherwise processSim answers Status::Fail.
CountsSuffice(t) ==
    /\ \A v \in program.waits[t] :
        producerCount[v] = 0 /\ consumerCount[v] >= program.count[t]
    /\ \A v \in program.posts[t] : producerCount[v] >= program.count[t]

\* Variant: toVirtual is reset with the ring buffer, for dynamic barriers only.
ReleasedIfDynamic(t) ==
    {realId[v] : v \in {w \in program.waits[t] :
        isDynamicBarriers /\ consumerCount[w] = program.count[t]}}

\* The physical barriers that become free when t has consumed its barriers.
Released(t) == {realId[v] : v \in {w \in program.waits[t] : consumerCount[w] = program.count[t]}}

\* The sequences in which the members of S may be pushed.
Arrangements(S) == {s \in [1 .. Cardinality(S) -> S] : \A x \in S : \E i \in DOMAIN s : s[i] = x}

ProcessTask ==
    /\ pc = "tasks"
    /\ \E t \in AtHead(fifo) :
        /\ Ready(t)
        /\ IF CountsSuffice(t)
           THEN /\ consumerCount' = [v \in Vid |->
                       consumerCount[v] - (IF v \in program.waits[t] THEN program.count[t] ELSE 0)]
                /\ producerCount' = [v \in Vid |->
                       producerCount[v] - (IF v \in program.posts[t] THEN program.count[t] ELSE 0)]
                /\ toVirtual' = [p \in Pids |->
                       IF p \in Released(t) THEN None ELSE toVirtual[p]]
                /\ IF isDynamicBarriers
                   THEN \E pushed \in Arrangements(Released(t)) : nextReal' = nextReal \o pushed
                   ELSE UNCHANGED nextReal
                /\ done' = done \cup {t}
                /\ progressed' = TRUE
                /\ UNCHANGED pc
           ELSE /\ pc' = "failed"
                /\ UNCHANGED <<consumerCount, producerCount, toVirtual, nextReal, done, progressed>>
    /\ UNCHANGED <<passVars, prevVidOfPhysBar, realId, bar, fifo, batches, order>>

\* Variant: one FIFO too many.
NextFifoPastEnd ==
    /\ pc = "tasks"
    /\ \A t \in AtHead(fifo) : ~Ready(t)
    /\ IF fifo <= NumFifos
       THEN fifo' = fifo + 1 /\ UNCHANGED pc
       ELSE pc' = "round" /\ UNCHANGED fifo
    /\ UNCHANGED <<passVars, toVirtual, prevVidOfPhysBar, nextReal, realId,
                   producerCount, consumerCount, bar, done, progressed, batches, order>>

\* The FIFO is at its end, or its head has to wait.
NextFifo ==
    /\ pc = "tasks"
    /\ \A t \in AtHead(fifo) : ~Ready(t)
    /\ IF fifo < NumFifos
       THEN fifo' = fifo + 1 /\ UNCHANGED pc
       ELSE pc' = "round" /\ UNCHANGED fifo
    /\ UNCHANGED <<passVars, toVirtual, prevVidOfPhysBar, nextReal, realId,
                   producerCount, consumerCount, bar, done, progressed, batches, order>>

-----------------------------------------------------------------------------
(* The end of a round.                                                     *)

\* seq without the entries at the positions S.
Without(seq, S) ==
    LET kept == Increasing(DOMAIN seq \ S)
    IN  [i \in DOMAIN kept |-> seq[kept[i]]]

\* Variant: the ring buffer is not reset before it is filled.
FreeAndEarlier(mapping) == nextReal \o Increasing({p \in DOMAIN mapping : mapping[p] = None})

\* updateNextReal
FreeOf(mapping) == Increasing({p \in DOMAIN mapping : mapping[p] = None})

\* Variant: progressed stays TRUE from one round to the next.
LoopStillProgressed ==
    /\ UNCHANGED progressed
    /\ pc' = IF bar <= Len(declared) \/ done # Task THEN "map"
             ELSE IF batches # <<>> THEN "batches" ELSE "success"

\* The loop's condition, and the result after it.
Loop ==
    /\ progressed' = FALSE
    /\ pc' = IF bar <= Len(declared) \/ done # Task THEN "map"
             ELSE IF batches # <<>> THEN "batches" ELSE "success"

Grow ==
    /\ barrierLegalizationSim /\ ~progressed
    /\ wlmPidProgramming \/ Unmapped = {}
    /\ toVirtual' = Append(toVirtual, None)
    /\ prevVidOfPhysBar' = Append(prevVidOfPhysBar, None)
    /\ nextReal' = FreeOf(Append(toVirtual, None))
    /\ Loop
    /\ UNCHANGED realId

\* The free physical barriers erased from toVirtual: the first ones.
Removed ==
    {p \in Unmapped : Cardinality({q \in Unmapped : q < p}) < Len(toVirtual) - NumPids}

\* What is erased from prevVidOfPhysBar: the positions found in the vector that
\* is being shortened, collected in a set.
RemovedFromPrev == {p - Cardinality({q \in Removed : q < p}) : p \in Removed}

\* Variant: the barriers keep their numbers in the shorter vector.
NotRemapped == realId

\* realId of the barriers behind those that are erased.
Remapped ==
    [v \in Vid |->
        IF v \in Active
        THEN LET p == CHOOSE q \in Pids : toVirtual[q] = v
             IN  p - Cardinality({q \in Removed : q < p})
        ELSE realId[v]]

Shrink ==
    /\ progressed /\ Exceeding /\ Unmapped # {}
    /\ toVirtual' = Without(toVirtual, Removed)
    /\ prevVidOfPhysBar' = Without(prevVidOfPhysBar, RemovedFromPrev)
    /\ nextReal' = FreeOf(Without(toVirtual, Removed))
    /\ realId' = Remapped
    /\ Loop

Continue ==
    /\ progressed
    /\ ~Exceeding \/ Unmapped = {}
    /\ Loop
    /\ UNCHANGED <<toVirtual, prevVidOfPhysBar, nextReal, realId>>

\* "Barrier simulation blocked", or the exception of a legalization that is
\* stuck with physical barriers to spare.
Stop ==
    /\ ~progressed
    /\ IF barrierLegalizationSim
       THEN ~wlmPidProgramming /\ Unmapped # {} /\ pc' = "throw"
       ELSE pc' = "blocked"
    /\ UNCHANGED <<toVirtual, prevVidOfPhysBar, nextReal, realId, progressed>>

EndRound ==
    /\ pc = "round"
    /\ Grow \/ Shrink \/ Continue \/ Stop
    /\ UNCHANGED <<passVars, producerCount, consumerCount, bar, done, fifo, batches, order>>

-----------------------------------------------------------------------------
(* The passes.                                                             *)

\* Variant: the last task of the function only.
LastTask == {NumTasks}

\* The last tasks of the FIFOs, getTaskQueuesFirstAndLastOp.
LastInFifo == {t \in Task : \A u \in Task : program.fifo[u] = program.fifo[t] => u <= t}

\* AddFinalBarrierPass::safeRunOnFunc
WithFinalBarrier ==
    [program EXCEPT !.bars = FinalBarrier, !.posts = [t \in Task |->
        IF t \in LastInFifo /\ program.posts[t] = {} THEN {FinalBarrier} ELSE program.posts[t]]]

\* After legalization the final barrier is declared last, and physical barriers
\* are assigned: round robin, or with the mapping of BarrierColorBin, which may
\* be any.
AssignPhysicalBarriers(wlm) ==
    /\ pc = "success"
    /\ mode = "legalize"
    /\ program' = WithFinalBarrier
    /\ declared' = Append(declared, FinalBarrier)
    /\ mode' \in AssignMode
    /\ realId' \in IF mode' = "order" THEN [Vid -> 1 .. NumPids] ELSE [Vid -> {None}]
    /\ wlmPidProgramming' = wlm
    /\ StartSimulation(WithFinalBarrier)

AddFinalBarrier == AssignPhysicalBarriers(wlmPidProgramming)

\* Variant: the barriers stay as they are declared.
NotReordered == declared

\* BarrierColorBin::reorderBarriers: the order found, the final barrier at its
\* end.
Reordered ==
    LET final == {i \in DOMAIN order : order[i] = FinalBarrier}
    IN  Without(order, final) \o [i \in 1 .. Cardinality(final) |-> FinalBarrier]

\* The virtual barriers become ConfigureBarrierOps, which BarrierSimulation
\* then executes.
Validate ==
    /\ pc = "success"
    /\ mode \in {"assign", "order"}
    /\ mode' = "validate"
    /\ declared' = IF mode = "order" THEN Reordered ELSE declared
    /\ UNCHANGED <<program, wlmPidProgramming, realId>>
    /\ StartSimulation(program)

Ended ==
    /\ \/ pc \in {"refused", "blocked", "failed", "throw", "batches"}
       \/ pc = "success" /\ mode = "validate"
    /\ UNCHANGED vars

SimulationStep == MapBarrier \/ EndMapping \/ ProcessTask \/ NextFifo \/ EndRound

Next == SimulationStep \/ AddFinalBarrier \/ Validate \/ Ended

Spec == Init /\ [][Next]_vars

\* The passes run one after the other on one thread.
FairSpec == Spec /\ WF_vars(SimulationStep)

-----------------------------------------------------------------------------
Range1(seq) == {seq[i] : i \in DOMAIN seq}

\* The barriers that have been mapped in this simulation.
Mapped ==
    IF mode = "order" THEN Range1(order) ELSE {declared[i] : i \in 1 .. bar - 1}

TypeOK ==
    /\ IsProgram(program)
    /\ declared \in Seq(Vid)
    /\ mode \in {"trial", "legalize", "assign", "order", "validate"}
    /\ wlmPidProgramming \in BOOLEAN
    /\ toVirtual \in Seq(Vid \cup {None})
    /\ prevVidOfPhysBar \in Seq(Vid \cup {None})
    /\ nextReal \in Seq(Nat)
    /\ realId \in [Vid -> Nat]
    /\ producerCount \in [Vid -> Nat]
    /\ consumerCount \in [Vid -> Nat]
    /\ bar \in 1 .. Len(declared) + 1
    /\ done \subseteq Task
    /\ fifo \in Fifo
    /\ progressed \in BOOLEAN
    /\ batches \in Seq(SUBSET Vid)
    /\ order \in Seq(Vid)
    /\ pc \in {"map", "tasks", "round", "refused", "success", "batches", "blocked", "failed", "throw"}

\* The ring buffer, which does not check its capacity, holds every free physical
\* barrier once and no other, through any number of grown and shrunk rounds.
FreePidsExact ==
    isDynamicBarriers => Range1(nextReal) = Unmapped /\ Len(nextReal) = Cardinality(Unmapped)

\* A mapped barrier keeps its physical one until its last consumer is past, and
\* no two barriers hold the same, also when legalization renumbers them.
HeldUntilConsumed ==
    /\ \A v \in Mapped : consumerCount[v] > 0 => realId[v] \in Pids /\ toVirtual[realId[v]] = v
    /\ \A p \in Pids : toVirtual[p] # None => realId[toVirtual[p]] = p /\ toVirtual[p] \in Mapped

\* The three records of who has which physical barrier agree.
PidsExact == FreePidsExact /\ HeldUntilConsumed

\* processSim never answers Status::Fail, and none of simulateBarriers'
\* exceptions is thrown.
NoInternalError == pc \notin {"failed", "throw"}

\* With _wlmPidProgramming, everything that consumes a barrier is ordered before
\* everything that produces the next one on the same physical barrier, though
\* canBarrierReusePidFromBarrier accepts a path in either direction.
ReuseOrdered ==
    mode = "assign" /\ wlmPidProgramming =>
        \A i, j \in 1 .. bar - 1 :
            i < j /\ realId[declared[i]] = realId[declared[j]] =>
                \A c \in Consumers(program, declared[i]), t \in Producers(program, declared[j]) :
                    controlPathExists(program, c, t)

\* A task that could run but for the final barrier, which is not mapped yet.
HeldByFinalBarrier(t) ==
    /\ program.posts[t] = {FinalBarrier} /\ FinalBarrier \notin Mapped
    /\ \A v \in program.waits[t] : isBarrierMapped(v) /\ producerCount[v] = 0

\* What BarrierSimulation executes after an assignment does not block.  After
\* BarrierColorBin it can only be waiting for the final barrier, which
\* reorderBarriers has moved behind barriers that are programmed later.
ValidationSucceeds ==
    mode = "validate" /\ pc = "blocked" =>
        "order" \in AssignMode /\ \E f \in Fifo : \E t \in AtHead(f) : HeldByFinalBarrier(t)

\* No simulation throws or fails, and none blocks that should not.
SimulationsSucceed == NoInternalError /\ ValidationSucceeds

\* The final barrier has no producer left only when every task has run, whatever
\* FIFOs the last tasks are on.
FinalBarrierMeansFinished ==
    FinalBarrier \in Range1(declared) /\ producerCount[FinalBarrier] = 0 => done = Task

\* A barrier is in one batch only.
BatchesDisjoint ==
    \A i, j \in DOMAIN batches : i # j => batches[i] \cap batches[j] = {}

\* A batch holds more barriers than there are physical ones.
BatchesExceed ==
    ~wlmPidProgramming => \A i \in DOMAIN batches : Cardinality(batches[i]) > NumPids

\* What legalization is given to linearize: disjoint batches, each too large.
BatchesRight == BatchesDisjoint /\ BatchesExceed

\* Every simulation ends, however often it grows and shrinks.
SimulationEnds ==
    pc = "map" ~> pc \in {"success", "batches", "blocked", "failed", "throw"}

\* A function that was legalized can be assigned physical barriers.
AssignmentSucceeds == mode = "assign" => pc # "blocked"

\* prevVidOfPhysBar is the last use of each physical barrier.
PrevVidIsLastUse ==
    \A p \in Pids : toVirtual[p] # None => prevVidOfPhysBar[p] = toVirtual[p]

-----------------------------------------------------------------------------
(* The schedule this implements.                                           *)

needsBar ==
    [t \in Task |-> {u \in Task : u < t /\ program.fifo[u] = program.fifo[t]}
                        \cup UNION {Producers(program, v) : v \in program.waits[t]}]

Schedule == INSTANCE TaskSchedule WITH needs <- needsBar, executed <- done

\* Every simulation passes the tasks in an order the barriers allow.
ImplementsSchedule == Schedule!Spec
=============================================================================
