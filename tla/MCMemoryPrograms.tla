--------------------------- MODULE MCMemoryPrograms ---------------------------
(***************************************************************************)
(* Chains of compute operations: a data operation brings the input, others *)
(* bring weights in front of the compute operations, and a DMA takes the   *)
(* result out.  A chain may have                                           *)
(*   two     second outputs of the first two steps (sparsity maps)         *)
(*   concat  the first two steps fill one buffer                           *)
(*   skip    the last step also reads what the first one wrote: "cmx"      *)
(*           directly, "ddr" over a copy the program keeps in DDR, "twice" *)
(*           as an earlier one does already; or it reads the input again:  *)
(*           "input"                                                       *)
(***************************************************************************)
EXTENDS MemoryProgram

(* Buffers: 1 is the input; step i has weights 3i-1, output 3i and a       *)
(* second output 3i+1; 24 is in DDR and 25 is its copy.                    *)
W(i) == 3 * i - 1
A(i) == IF i = 0 THEN 1 ELSE 3 * i
M(i) == 3 * i + 1
Kept == 24
Again == 25

Dma(ins, outs, cost) == [exec |-> "DMA", ins |-> ins, outs |-> outs, cost |-> cost]

Chain(f) ==
    LET size(b) == IF b \in {Kept, Again} THEN f.size[1] ELSE f.size[(b + 1) \div 3]
        outs(i) == (IF f.shape = "concat" /\ i = 1 THEN {A(2)} ELSE {A(i)})
                       \cup (IF f.shape = "two" /\ i < 3 THEN {M(i)} ELSE {})
        ins(i) == CASE i = 1 \/ (i = 2 /\ f.shape = "concat") -> {A(0)}
                    [] (i = f.steps /\ f.skip \in {"cmx", "twice"}) \/ (i = f.steps - 3 /\ f.skip = "twice") -> outs(i - 1) \cup outs(1)
                    [] i = f.steps /\ f.skip = "input" -> outs(i - 1) \cup {A(0)}
                    [] i = f.steps /\ f.skip = "ddr" -> outs(i - 1) \cup {Again}
                    [] OTHER -> outs(i - 1)
        load(i) == IF i \in f.weights THEN <<Dma({}, {W(i)}, size(W(i)))>> ELSE <<>>
        compute(i) == <<[exec |-> IF i \in f.shave THEN "SHAVE" ELSE "DPU", outs |-> outs(i), cost |-> f.cost,
                         ins |-> ins(i) \cup (IF i \in f.weights THEN {W(i)} ELSE {})]>>
        keep == IF f.skip = "ddr" THEN <<Dma({A(1)}, {Kept}, f.size[1])>> ELSE <<>>
        copy == IF f.skip = "ddr" THEN <<Dma({Kept}, {Again}, f.size[1])>> ELSE <<>>
        step(i) == (IF i = f.steps THEN copy ELSE <<>>) \o load(i) \o compute(i) \o (IF i = 1 THEN keep ELSE <<>>)
        body == FlattenSeq([i \in 1..f.steps |-> step(i)])
        ops == <<Dma({}, {A(0)}, size(1))>> \o body \o <<Dma({A(f.steps)}, {}, size(A(f.steps)))>>
    IN  [ops |-> ops,
         bufs |-> [b \in UNION {ops[o].outs : o \in DOMAIN ops} |->
                      [size |-> size(b), mem |-> IF b = Kept THEN "DDR" ELSE "CMX", wide |-> f.wide /\ b = A(1)]],
         links |-> f.links, memory |-> f.memory, ports |-> f.hw.ports, split |-> f.hw.split]

(* Sizes of the input and of the steps.                                    *)
Sizes == {[i \in 0..7 |-> IF i \in big THEN 2 ELSE 1] : big \in {{1}, {2}, {4}, {2, 3, 5, 6}}}

Hardware == {[ports |-> 1, split |-> FALSE], [ports |-> 2, split |-> FALSE], [ports |-> 2, split |-> TRUE]}

Features ==
    [steps : {3, 4, 7}, shave : {{}, {2}}, weights : {{}, {2, 3}, {1, 3, 4}}, cost : {1, 3},
     shape : {"plain", "two", "concat"}, skip : {"none", "input", "cmx", "ddr", "twice"},
     hw : Hardware, wide : BOOLEAN, size : Sizes, memory : {3, 4, 5, 6}, links : {"executor", "all"}]

(* Programs with no feature that makes no difference, and no room to spill *)
(* to where nothing is spilled.                                            *)
Sensible(f) ==
    /\ f.shape = "concat" => f.skip \in {"none", "cmx", "twice"} /\ ~f.wide /\ (f.steps = 3 \/ f.skip # "none")
    /\ f.skip = "twice" <=> f.steps = 7
    /\ f.skip = "twice" => f.weights = {} /\ ~f.wide /\ f.shape # "two" /\ f.memory < 6
    /\ f.size[5] = 2 <=> f.skip = "twice"
    /\ f.memory = 3 => f.weights = {}
    /\ f.wide => f.hw.ports = 2
    /\ f.cost = 1 => f.steps = 4 /\ f.weights = {1, 3, 4} /\ f.skip = "cmx"

Chains(F) == {p \in {Chain(f) : f \in F} : IsProgram(p)}
=============================================================================
