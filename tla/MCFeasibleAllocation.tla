------------------------- MODULE MCFeasibleAllocation -------------------------
(***************************************************************************)
(* Chains of MCMemoryPrograms, and two branches on two executors, each     *)
(* with its own input, whose results a last operation joins.               *)
(***************************************************************************)
EXTENDS FeasibleAllocation, MCMemoryPrograms

(* Buffers 1 and 3 are the inputs, 2 and 4 the results of the second and   *)
(* of the first branch.                                                    *)
Branch(f) ==
    [ops |-> <<Dma({}, {3}, f.size[3]), [exec |-> f.exec[1], ins |-> {3}, outs |-> {4}, cost |-> f.cost],
               Dma({}, {1}, f.size[1]), [exec |-> f.exec[2], ins |-> {1}, outs |-> {2}, cost |-> 3],
               [exec |-> "DPU", ins |-> {2, 4}, outs |-> {5}, cost |-> 3],
               Dma({5}, {}, f.size[5])>>,
     bufs |-> [b \in 1..5 |-> [size |-> f.size[b], mem |-> "CMX", wide |-> FALSE]],
     links |-> "executor", memory |-> f.memory, ports |-> 1, split |-> FALSE]

Branches(cost) ==
    {p \in {Branch(f) : f \in [size : [1..5 -> {1, 2}], exec : {<<"DPU", "SHAVE">>, <<"SHAVE", "DPU">>},
                               cost : {cost}, memory : {4, 5}]} : IsProgram(p)}

(* The first branch has ended when the second one begins, or it has not.   *)
BranchesInTurn == Branches(1)
BranchesTogether == Branches(3)
Branching == BranchesInTurn \cup BranchesTogether

(* Two buffers of one operation may be spilled and read back in the same   *)
(* cycle.                                                                  *)
TwoSpillsAtOnce(f) == f.shape = "two" /\ f.hw.ports = 2

MCPrograms ==
    Chains({f \in Features : /\ Sensible(f) /\ ~TwoSpillsAtOnce(f) /\ (f.memory < 6 \/ f.cost = 1)
                             /\ (f.skip # "none" \/ f.shape = "concat")
                             /\ (f.links = "executor" => f.hw.ports = 1)})
        \cup Branching

TwoPortPrograms == Chains({f \in Features : Sensible(f) /\ TwoSpillsAtOnce(f) /\ f.memory < 6})

(* Prefetching and the optimisation of spills are tried in all but one     *)
(* combination.  Branches at work together are not optimised in the        *)
(* passing run, and prefetching brings them together.                      *)
Forks(p) == p.ops[1].outs = {3}
Together(p) == Forks(p) /\ p.ops[2].cost = 3
MCOptions(p) ==
    {[prefetch |-> TRUE, optimize |-> FALSE], [prefetch |-> FALSE, optimize |-> ~Together(p)]}
        \cup (IF Forks(p) THEN {} ELSE {[prefetch |-> TRUE, optimize |-> TRUE]})

(* The last weights need cycles of two stalls of the prefetch pipeline.    *)
Starved ==
    {Chain([steps |-> 5, shave |-> {}, weights |-> {2, 4, 5}, cost |-> 3, shape |-> "plain", skip |-> "none",
            wide |-> FALSE, hw |-> [ports |-> 1, split |-> FALSE], links |-> "executor", memory |-> 24,
            size |-> [i \in 0..7 |-> IF i = 5 THEN 9 ELSE 1]])}

Defaults(p) == {[prefetch |-> TRUE, optimize |-> TRUE]}
=============================================================================
