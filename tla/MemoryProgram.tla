---------------------------- MODULE MemoryProgram ----------------------------
(***************************************************************************)
(* What the feasible-allocation pass works on: the async.execute           *)
(* operations of a function in IR order, each on one executor, and the     *)
(* buffers they read and write.  Operations are numbered in IR order, and  *)
(* buffers in the order of their allocations.  A program is                *)
(*                                                                         *)
(*   ops      sequence of [exec, ins, outs, cost]; ins and outs are      *)
(*            sets of buffers; two operations write the same buffer when   *)
(*            they fill a concatenation                                    *)
(*   bufs     [buffer -> [size, mem, wide]]; wide: split over the clusters *)
(*   links    how linearizeComputeOps was called: "none", "executor",      *)
(*            "all"                                                        *)
(*   memory   size of CMX in units of the alignment                        *)
(*   ports    DMA ports                                                    *)
(*   split    each port has two channels, for DDR and for CMX as source    *)
(*                                                                         *)
(* Network inputs and constants are not buffers: an operation without      *)
(* inputs reads them from DDR.                                             *)
(***************************************************************************)
EXTENDS Integers, FiniteSets, Sequences, SequencesExt

ComputeExec == {"DPU", "SHAVE"}

Op(p) == DOMAIN p.ops
Buf(p) == DOMAIN p.bufs

(* The elements of S in the order less, and numbers in increasing order. *)
Sorted(S, less(_, _)) ==
    [i \in 1..Cardinality(S) |-> CHOOSE x \in S : Cardinality({y \in S : less(y, x)}) = i - 1]

Ascending(S) == Sorted(S, <)

Top(S) == CHOOSE x \in S : \A y \in S : y <= x
Bottom(S) == CHOOSE x \in S : \A y \in S : x <= y

InCMX(p, b) == p.bufs[b].mem = "CMX"

(* Buffers of the memory that is scheduled: MemLiveRangeInfo. *)
InBufs(p, o) == {b \in p.ops[o].ins : InCMX(p, b)}
OutBufs(p, o) == {b \in p.ops[o].outs : InCMX(p, b)}
UsedBufs(p, o) == InBufs(p, o) \cup OutBufs(p, o)

IsCompute(p, o) == p.ops[o].exec \in ComputeExec

(***************************************************************************)
(* AsyncDepsInfo: an operation depends on the writers of what it reads,    *)
(* and linearizeComputeOps makes compute operations follow one another.    *)
(***************************************************************************)
Writers(p, b) == {o \in Op(p) : b \in p.ops[o].outs}

Previous(p, o) ==
    LET before == {q \in 1..(o - 1) : /\ IsCompute(p, q)
                                      /\ p.links = "executor" => p.ops[q].exec = p.ops[o].exec}
    IN  IF ~IsCompute(p, o) \/ p.links = "none" \/ before = {} THEN {} ELSE {Top(before)}

\* Variant: only what is read in CMX makes a dependency.
DepsInCMX(p, o) == UNION {Writers(p, b) : b \in InBufs(p, o)} \cup Previous(p, o)

Deps(p, o) == UNION {Writers(p, b) : b \in p.ops[o].ins} \cup Previous(p, o)

(***************************************************************************)
(* isDataOp: a DMA from DDR to CMX with users, behind no other data op.    *)
(***************************************************************************)
FromDDR(p, o) == InBufs(p, o) = {}

DataOps(p) ==
    LET needed == UNION {Deps(p, q) : q \in Op(p)}
        data[o \in Op(p)] ==
            /\ p.ops[o].exec = "DMA" /\ FromDDR(p, o) /\ OutBufs(p, o) # {}
            /\ o \in needed
            /\ \A d \in Deps(p, o) : ~data[d]
    IN  {o \in Op(p) : data[o]}

(***************************************************************************)
(* The levels init gives to compute operations and what they depend on:    *)
(* the first that is not zero.                                             *)
(***************************************************************************)
Levels(p) ==
    LET compute == Ascending({o \in Op(p) : IsCompute(p, o)})
        at(o) == {i \in 2..Len(compute) : o = compute[i] \/ o \in Deps(p, compute[i])}
    IN  [o \in Op(p) |-> IF at(o) = {} THEN 0 ELSE Bottom(at(o)) - 1]

(* What the scheduler asks of a program again and again. *)
Analysed(p) ==
    p @@ [deps  |-> [o \in Op(p) |-> Deps(p, o)],
          cons  |-> [o \in Op(p) |-> {q \in Op(p) : o \in Deps(p, q)}],
          data  |-> DataOps(p),
          level |-> Levels(p),
          cmx   |-> {b \in Buf(p) : InCMX(p, b)},
          used  |-> [o \in Op(p) |-> UsedBufs(p, o)]]

(***************************************************************************)
(* Programs that make sense: single assignment except for concatenations,  *)
(* reads after writes, and room for every operation by itself.             *)
(***************************************************************************)
Demand(p, data, o) ==
    LET held == UsedBufs(p, o) \cup UNION {OutBufs(p, d) : d \in Deps(p, o) \cap data}
    IN  FoldSet(LAMBDA b, n : n + p.bufs[b].size, 0, held)

IsProgram(p) ==
    /\ \A o \in Op(p) : /\ p.ops[o].exec \in {"DMA"} \cup ComputeExec
                        /\ p.ops[o].ins \cup p.ops[o].outs \subseteq Buf(p)
                        /\ \A d \in Deps(p, o) : d < o
    /\ LET data == DataOps(p)
       IN  \A o \in Op(p) : Demand(p, data, o) <= p.memory
    /\ \A b \in Buf(p) : Writers(p, b) # {} /\ p.bufs[b].size > 0
    /\ p.ports > 0
=============================================================================
