--------------------------- MODULE BarrierProgram ---------------------------
(***************************************************************************)
(* What the barrier passes of the VPURT dialect work on: the tasks of a    *)
(* function in IR order, each on one hardware FIFO, and the virtual        *)
(* barriers they wait for and update.                                      *)
(*                                                                         *)
(* Barriers and FIFOs are counted from 1.  None stands for the -1 of the   *)
(* code.  A function declares the barriers up to bars; the one after all   *)
(* others is kept for AddFinalBarrier.                                     *)
(***************************************************************************)
EXTENDS Integers, FiniteSets

CONSTANTS NumTasks,     \* VPURT.Task operations
          NumBarriers,  \* most virtual barriers before AddFinalBarrier
          NumFifos,     \* DMA queues first, then DPU, SHAVE_ACT and M2I
          DmaFifos,     \* the FIFOs among them that are DMA queues
          ProducerSlots,\* getBarrierMaxVariantCount, _barrierProducerSlotCount
          TotalSlots,   \* getBarrierMaxVariantSum, _barrierTotalSlotCount
          Program       \* the functions considered

Task == 1 .. NumTasks
FinalBarrier == NumBarriers + 1
Vid == 1 .. FinalBarrier
Fifo == 1 .. NumFifos
None == 0

\* The numbers in S in increasing order.
Increasing(S) ==
    [i \in 1 .. Cardinality(S) |-> CHOOSE x \in S : Cardinality({y \in S : y < x}) = i - 1]

IsProgram(p) ==
    p \in [fifo : [Task -> Fifo], waits : [Task -> SUBSET Vid], posts : [Task -> SUBSET Vid],
          count : [Task -> Nat \ {0}], bars : 0 .. FinalBarrier]

ASSUME SizeAssumption == NumTasks \in Nat \ {0} /\ NumBarriers \in Nat /\ NumFifos \in Nat \ {0}
ASSUME FifoAssumption == DmaFifos \subseteq Fifo
ASSUME SlotAssumption == ProducerSlots \in Nat /\ TotalSlots \in Nat

Producers(p, v) == {t \in Task : v \in p.posts[t]}
Consumers(p, v) == {t \in Task : v \in p.waits[t]}

\* The IR the barrier passes leave: every barrier is produced before it is
\* consumed, in the order of tasks, and nobody uses the final barrier yet.
WellFormed(p) ==
    /\ IsProgram(p)
    /\ p.bars < FinalBarrier
    /\ \A v \in 1 .. p.bars :
        /\ Producers(p, v) # {} /\ Consumers(p, v) # {}
        /\ \A t \in Producers(p, v), u \in Consumers(p, v) : t < u
    /\ \A t \in Task : p.waits[t] \cup p.posts[t] \subseteq 1 .. p.bars

ASSUME ProgramAssumption == \A p \in Program : WellFormed(p)

\* A DPU task takes one slot of its barriers per variant, other tasks one.
Slots(p, tasks) == UNION {{t} \X (1 .. p.count[t]) : t \in tasks}
SlotCount(p, tasks) == Cardinality(Slots(p, tasks))

-----------------------------------------------------------------------------
(* BarrierInfo::buildTaskControlMap for one control graph block.           *)

\* Tasks that wait for a barrier t updates.
BarrierSuccessors(p, t) == UNION {Consumers(p, v) : v \in p.posts[t]}

\* And those behind t on its DMA queue: buildTaskQueueTypeMap knows no other
\* FIFO.
DirectSuccessors(p, t) ==
    BarrierSuccessors(p, t)
        \cup {u \in Task : u > t /\ p.fifo[u] = p.fifo[t] /\ p.fifo[t] \in DmaFifos}

\* All tasks that a control path leads to from each task.
TaskControlMap(p) ==
    LET reach[t \in Task] ==
            DirectSuccessors(p, t) \cup UNION {reach[u] : u \in DirectSuccessors(p, t)}
    IN  reach

\* The same without _considerTaskFifoDependency.
BarrierControlMap(p) ==
    LET reach[t \in Task] ==
            BarrierSuccessors(p, t) \cup UNION {reach[u] : u \in BarrierSuccessors(p, t)}
    IN  reach

controlPathExists(p, a, b) == b \in TaskControlMap(p)[a]

\* BarrierWlmHandler: every consumer of prevVid and every producer of vid are
\* on one control path, in whichever direction.
canBarrierReusePidFromBarrier(p, vid, prevVid) ==
    \A c \in Consumers(p, prevVid), t \in Producers(p, vid) :
        controlPathExists(p, c, t) \/ controlPathExists(p, t, c)
=============================================================================
