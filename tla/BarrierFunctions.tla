-------------------------- MODULE BarrierFunctions --------------------------
(* Families of functions small enough for TLC.                             *)
EXTENDS BarrierProgram

CONSTANTS Width,    \* producers, and consumers, a barrier may have
          Span,     \* the tasks from its producers to its consumers
          OneWait   \* whether tasks wait for one barrier at most

\* A wiring gives each barrier its producers and its consumers.  FIFO 1 is a
\* DMA queue; FIFO 2 runs DPU tasks of two variants.
Function(fifos, wiring) ==
    [fifo |-> fifos,
     waits |-> [t \in Task |-> {v \in DOMAIN wiring : t \in wiring[v][2]}],
     posts |-> [t \in Task |-> {v \in DOMAIN wiring : t \in wiring[v][1]}],
     count |-> [t \in Task |-> fifos[t]],
     bars |-> Cardinality(DOMAIN wiring)]

First(S) == CHOOSE t \in S : \A u \in S : t <= u

\* Barriers with up to Width producers and consumers.
Ends ==
    LET users == {S \in SUBSET Task : S # {} /\ Cardinality(S) <= Width}
    IN  {pair \in users \X users : \A t \in pair[1], u \in pair[2] : u \in t + 1 .. t + Span}

\* Barriers are declared in the order of their first producers, as
\* orderExecutionTasksAndBarriers leaves them, and none repeats another one,
\* as optimizeBarriers sees to.
Wirings(n) ==
    {w \in [1 .. n -> Ends] :
        \A u, v \in 1 .. n : u < v => First(w[u][1]) <= First(w[v][1]) /\ w[u] # w[v]}

\* ensureTasksDrivenBySingleBarrier
SingleWait(wiring) ==
    \A u, v \in DOMAIN wiring : u # v => wiring[u][2] \cap wiring[v][2] = {}

FunctionsWith(n) ==
    {Function(f, w) : f \in {g \in [Task -> Fifo] : g[1] = 1},
                      w \in {x \in Wirings(n) : OneWait => SingleWait(x)}}
=============================================================================
