------------------------ MODULE BarrierLegalization ------------------------
(***************************************************************************)
(* buildBarrierLegalizationPipeline (dialect/VPURT/transforms/             *)
(* pipelines.cpp) and the passes behind it:                                *)
(*   SplitExceedingVariantCount      no barrier uses too many slots;       *)
(*   SatisfyOneWaitBarrierPerTask    tasks wait for one barrier: as far as *)
(*                                   one walk gets, all of them for WLM;   *)
(*   ReduceExceedingActiveCount      if a simulation with the physical     *)
(*                                   barriers is blocked, barriers are     *)
(*                                   optimized and linearized batch by     *)
(*                                   batch until a simulation finds none;  *)
(*   AddFinalBarrier, AssignPhysicalBarriers    as in BarrierSimulator.    *)
(*                                                                         *)
(* todo lists what the passes still have to do, in order.  BarrierInfo     *)
(* says how barriers are rewritten, BarrierSimulator how simulations run.  *)
(***************************************************************************)
EXTENDS BarrierSimulator, BarrierInfo

CONSTANTS WlmThreshold,   \* _virtualBarrierThresholdforWlm
          Uneven          \* settings of unevenVariantSplitFlag

ASSUME ThresholdAssumption == WlmThreshold \in Nat /\ Uneven \subseteq BOOLEAN

\* SplitExceedingVariantCount throws for a task that alone uses too many slots.
ASSUME TaskFitAssumption ==
    \A p \in Program : \A t \in Task : p.count[t] <= AvailableSlots

VARIABLES
    todo,               \* the steps of the passes still to be made
    wlmFlag,            \* partial workload management is requested
    unevenFlag,         \* unevenVariantSplitFlag of the pipeline
    unevenVariantSplit, \* _enableUnevenVariantSplit of the current BarrierInfo
    modified,           \* parallel wait barriers were eliminated
    toLegalize,         \* barrierBatchesToLegalize
    iteration,          \* loops of ReduceExceedingActiveCount
    required,           \* the control paths of the first function
    origin              \* the number each task had in it

passState == <<todo, wlmFlag, unevenFlag, unevenVariantSplit, modified, toLegalize,
               iteration, required, origin>>
simulation == <<declared, mode, toVirtual, prevVidOfPhysBar, nextReal, realId, producerCount,
                consumerCount, bar, done, fifo, progressed, batches, order, pc>>
legalizationVars == <<vars, passState>>

ControlPaths(p) == {path \in Task \X Task : path[2] \in TaskControlMap(p)[path[1]]}

LegalizationInit ==
    /\ Init
    /\ todo = <<"split", "order", "erase", "satisfyOneWait", "reduceExceeding">>
    /\ wlmFlag = wlmPidProgramming
    /\ unevenFlag \in Uneven
    /\ unevenVariantSplit = FALSE
    /\ modified = FALSE
    /\ toLegalize = <<>>
    /\ iteration = 0
    /\ required = ControlPaths(program)
    /\ origin = [t \in Task |-> t]

Now(step) == todo # <<>> /\ Head(todo) = step
Then(steps) == todo' = steps \o Tail(todo)
Throw(what) == todo' = <<"throw", what>>

\* WLM is only tried below the threshold.
WlmWith(bars) == wlmFlag /\ bars <= WlmThreshold

-----------------------------------------------------------------------------
(* Steps the passes share.                                                 *)

Split ==
    /\ Now("split")
    /\ program' = splitBarriersWithExceedingVariantCount(program)
    /\ Then(<<>>)
    /\ UNCHANGED <<simulation, wlmPidProgramming, wlmFlag, unevenFlag, unevenVariantSplit,
                   modified, toLegalize, iteration, required, origin>>

\* barrierInfo becomes a new BarrierInfo, without enableUnevenVariantSplit.
OrderExecution ==
    /\ Now("order")
    /\ LET tasks == TaskOrder(program)
           bars == BarrierOrder(program, tasks)
       IN  IF Len(tasks) < NumTasks
           THEN Throw("not executed") /\ UNCHANGED <<program, origin, toLegalize>>
           ELSE /\ program' = Reindexed(program, tasks, bars)
                /\ origin' = [t \in Task |-> origin[tasks[t]]]
                /\ toLegalize' = [i \in DOMAIN toLegalize |->
                                    {j \in DOMAIN bars : bars[j] \in toLegalize[i]}]
                /\ Then(<<>>)
    /\ unevenVariantSplit' = FALSE
    /\ UNCHANGED <<simulation, wlmPidProgramming, wlmFlag, unevenFlag, modified, iteration,
                   required>>

Erase ==
    /\ Now("erase")
    /\ program' = postProcessBarrierOps(program)
    /\ Then(<<>>)
    /\ UNCHANGED <<simulation, wlmPidProgramming, wlmFlag, unevenFlag, unevenVariantSplit,
                   modified, toLegalize, iteration, required, origin>>

\* One walk; with WLM as many as it takes.
EnsureSingleBarrier ==
    /\ Now("singleWait")
    /\ IF ParallelWaits(program) = {}
       THEN Then(<<>>) /\ UNCHANGED <<program, modified>>
       ELSE /\ program' \in ParallelWaitsEliminated(program, wlmPidProgramming, unevenVariantSplit)
            /\ modified' = TRUE
            /\ IF ParallelWaits(program') = ParallelWaits(program) THEN Throw("identical tasks")
               ELSE Then(IF wlmPidProgramming THEN <<"singleWait">> ELSE <<>>)
    /\ UNCHANGED <<simulation, wlmPidProgramming, wlmFlag, unevenFlag, unevenVariantSplit,
                   toLegalize, iteration, required, origin>>

\* verifyBarrierSlots, and what follows a modification.
Check ==
    /\ \/ Now("orderIfModified") /\ Then(IF modified THEN <<"order">> ELSE <<>>)
       \/ /\ Now("finishOneWait")
          /\ Then(IF modified THEN <<"order", "erase", "verifySlots">> ELSE <<>>)
       \/ /\ Now("verifySlots")
          /\ IF SlotsFit(program) THEN Then(<<>>) ELSE Throw("slots")
       \/ /\ Now("verifyOneWait")
          /\ IF wlmPidProgramming => ParallelWaits(program) = {} THEN Then(<<>>)
             ELSE Throw("parallel waits")
    /\ UNCHANGED <<vars, wlmFlag, unevenFlag, unevenVariantSplit, modified, toLegalize,
                   iteration, required, origin>>

-----------------------------------------------------------------------------
(* The passes.                                                             *)

SatisfyOneWaitBarrierPerTask ==
    /\ Now("satisfyOneWait")
    /\ unevenVariantSplit' = unevenFlag
    /\ wlmPidProgramming' = WlmWith(program.bars)
    /\ modified' = FALSE
    /\ Then(<<"singleWait", "finishOneWait">>)
    /\ UNCHANGED <<program, simulation, wlmFlag, unevenFlag, toLegalize, iteration, required, origin>>

\* A BarrierSimulator for the function as it is.
Simulate(m) ==
    /\ mode' = m
    /\ declared' = [i \in 1 .. program.bars |-> i]
    /\ realId' = [v \in Vid |-> None]
    /\ StartSimulation(program)
    /\ UNCHANGED program

updateAnalysis == <<"optimize", "share", "order", "checkSlots", "singleWait", "orderIfModified", "simulate">>

\* Variant: one barrier too many is let through.
FewBarriersOrOneMore == program.bars <= NumPids + 1

FewBarriers == program.bars <= NumPids

ReduceExceedingActiveCount ==
    /\ Now("reduceExceeding")
    /\ wlmPidProgramming' = WlmWith(program.bars)
    /\ IF FewBarriers
       THEN Then(<<"assign">>) /\ UNCHANGED <<program, simulation, unevenVariantSplit>>
       ELSE /\ unevenVariantSplit' = unevenFlag
            /\ Simulate("trial")
            /\ Then(<<"trial">>)
    /\ UNCHANGED <<wlmFlag, unevenFlag, modified, toLegalize, iteration, required, origin>>

\* The first simulation is over.
Tried ==
    /\ Now("trial")
    /\ pc \in {"success", "blocked", "failed"}
    /\ Then(IF pc = "success" THEN <<"assign">> ELSE updateAnalysis)
    /\ UNCHANGED <<vars, wlmFlag, unevenFlag, unevenVariantSplit, modified, toLegalize,
                   iteration, required, origin>>

Optimize ==
    /\ Now("optimize")
    /\ IF FifoDependenciesRemovable(program)
       THEN program' = optimizeBarriers(program) /\ Then(<<>>)
       ELSE Throw("FIFO dependencies") /\ UNCHANGED program
    /\ UNCHANGED <<simulation, wlmPidProgramming, wlmFlag, unevenFlag, unevenVariantSplit,
                   modified, toLegalize, iteration, required, origin>>

Share ==
    /\ Now("share")
    /\ program' = shareWaitAndUpdateBarriers(program)
    /\ Then(<<>>)
    /\ UNCHANGED <<simulation, wlmPidProgramming, wlmFlag, unevenFlag, unevenVariantSplit,
                   modified, toLegalize, iteration, required, origin>>

CheckSlots ==
    /\ Now("checkSlots")
    /\ Then(IF SlotsFit(program) THEN <<>> ELSE <<"split", "order">>)
    /\ modified' = FALSE
    /\ UNCHANGED <<vars, wlmFlag, unevenFlag, unevenVariantSplit, toLegalize,
                   iteration, required, origin>>

StartLegalization ==
    /\ Now("simulate")
    /\ Simulate("legalize")
    /\ Then(<<"decide">>)
    /\ UNCHANGED <<wlmPidProgramming, wlmFlag, unevenFlag, unevenVariantSplit, modified,
                   toLegalize, iteration, required, origin>>

\* getBarrierBatchesToLegalize: barriers without use, and batches of them, are
\* left out.
BatchesFound ==
    LET found == Increasing({i \in DOMAIN batches : batches[i] \cap Used(program) # {}})
    IN  [j \in DOMAIN found |-> batches[found[j]] \cap Used(program)]

\* Variant: the batches are not compared.
NotCompared == FALSE

SameAsBefore == iteration > 0 /\ BatchesFound = toLegalize

\* Another iteration as long as there are batches, and no more than barriers.
Decide ==
    /\ Now("decide")
    /\ pc \in {"success", "batches", "failed"}
    /\ toLegalize' = BatchesFound
    /\ IF pc = "success" /\ BatchesFound # <<>> THEN Throw("batches of a success")
       ELSE IF SameAsBefore THEN Throw("identical batches")
       ELSE Then(IF toLegalize' # <<>> /\ iteration < program.bars THEN <<"linearize">>
                 ELSE <<"erase", "verifySlots", "verifyOneWait", "assign">>)
    /\ UNCHANGED <<vars, wlmFlag, unevenFlag, unevenVariantSplit, modified,
                   iteration, required, origin>>

Linearize ==
    /\ Now("linearize")
    /\ program' = linearizeBarriers(program, toLegalize)
    /\ iteration' = iteration + 1
    /\ Then(updateAnalysis)
    /\ UNCHANGED <<simulation, wlmPidProgramming, wlmFlag, unevenFlag, unevenVariantSplit,
                   modified, toLegalize, required, origin>>

\* The passes after legalization.
Legalized ==
    /\ Now("assign")
    /\ mode' = "legalize"
    /\ declared' = [i \in 1 .. program.bars |-> i]
    /\ bar' = 1
    /\ pc' = "success"
    /\ Then(<<>>)
    /\ UNCHANGED <<program, wlmPidProgramming, toVirtual, prevVidOfPhysBar, nextReal, realId,
                   producerCount, consumerCount, done, fifo, progressed, batches, order,
                   wlmFlag, unevenFlag, unevenVariantSplit, modified, toLegalize, iteration,
                   required, origin>>

Assign ==
    /\ todo = <<>>
    /\ AssignPhysicalBarriers(WlmWith(program.bars + 1))
    /\ UNCHANGED passState

RunSimulation ==
    /\ todo = <<>> \/ Now("trial") \/ Now("decide")
    /\ SimulationStep
    /\ UNCHANGED passState

LegalizationStep ==
    \/ Split \/ OrderExecution \/ Erase \/ EnsureSingleBarrier \/ Check
    \/ SatisfyOneWaitBarrierPerTask \/ ReduceExceedingActiveCount \/ Tried
    \/ Optimize \/ Share \/ CheckSlots \/ StartLegalization \/ Decide \/ Linearize
    \/ Legalized \/ Assign \/ RunSimulation

\* The compilation has ended or thrown.
Over ==
    \/ Now("throw")
    \/ todo = <<>> /\ mode = "assign" /\ pc \notin {"map", "tasks", "round"}
    \/ pc = "throw"

LegalizationNext == LegalizationStep \/ (Over /\ UNCHANGED legalizationVars)

LegalizationSpec == LegalizationInit /\ [][LegalizationNext]_legalizationVars

\* The passes run one after the other on one thread.  This is weak fairness of
\* LegalizationStep, which can be taken until they are over.
FairLegalizationSpec ==
    LegalizationSpec /\ ([]<>Over \/ []<><<TRUE>>_legalizationVars)

-----------------------------------------------------------------------------
Simulating ==
    /\ todo = <<>> \/ Now("trial") \/ Now("decide")
    /\ pc \in {"map", "tasks", "round"}

\* The bound: the passes do not add so many barriers that none is left to be the
\* final one.
BarriersLeft == todo # <<>> => program.bars < FinalBarrier

LegalizationTypeOK ==
    /\ TypeOK
    /\ BarriersLeft
    /\ todo \in Seq(STRING)
    /\ toLegalize \in Seq(SUBSET Vid)
    /\ iteration \in 0 .. NumBarriers
    /\ origin \in [Task -> Task]

\* Whatever is split, merged, optimized, shared, linearized and reordered, a task
\* that had to run before another one still does: control paths and the order
\* of every FIFO are kept.
OrderKept ==
    ~Simulating =>
        /\ required \subseteq {<<origin[path[1]], origin[path[2]]>> : path \in ControlPaths(program)}
        /\ \A t, u \in Task : t < u /\ program.fifo[t] = program.fifo[u] => origin[t] < origin[u]

\* Barriers keep being produced before they are consumed in the order of tasks:
\* no rewriting closes a cycle or leaves a barrier half used.
BarriersSound ==
    ~Simulating => \A v \in Used(program) :
        /\ Producers(program, v) # {}
        /\ Consumers(program, v) # {} \/ v = FinalBarrier
        /\ \A t \in Producers(program, v), u \in Consumers(program, v) : t < u

\* What is rewritten can be executed, FIFO dependencies can be taken back, slots
\* fit and parallel waits go away.  An iteration that changes nothing is met
\* with WLM only.
NothingThrown ==
    /\ pc # "throw"
    /\ Now("throw") => wlmPidProgramming /\ todo[2] = "identical batches"

\* The pass reduces the number of active barriers of every function, "all tasks
\* linked to active barriers will be linearized" if need be.
ActiveCountReduced == todo # <<"throw", "identical batches">>

\* When the passes are done no batch is left, though the iterations are bounded
\* by the number of barriers.
NoBatchLeft == Now("assign") => toLegalize = <<>>

\* No rewriting stops the passes: a function can always be executed in order, what
\* was added for its FIFOs taken back, and a simulation that succeeds leaves no
\* batch.
NeverStuck ==
    Now("throw") => todo[2] \notin {"not executed", "FIFO dependencies", "batches of a success"}

\* The function that is handed from pass to pass.
FunctionSound == OrderKept /\ BarriersSound /\ NeverStuck

\* A legalized function is assigned physical barriers unless the final barrier
\* is in the way.
LegalizedIsAssigned ==
    mode = "assign" /\ pc = "blocked" => \E f \in Fifo : \E t \in AtHead(f) : HeldByFinalBarrier(t)

\* With WLM every task of a legalized function has one wait barrier at most.
OneWaitForWlm ==
    mode = "assign" /\ wlmPidProgramming => \A t \in Task : Cardinality(program.waits[t]) <= 1

\* What legalization has to establish for the assignment.
FitForAssignment == LegalizedIsAssigned /\ OneWaitForWlm

\* The passes end.
LegalizationEnds == <>Over
=============================================================================
