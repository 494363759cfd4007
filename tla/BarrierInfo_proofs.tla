------------------------- MODULE BarrierInfo_proofs -------------------------
(***************************************************************************)
(* optimizeBarriers does what it is for, on functions of any size: the     *)
(* barriers it adds for the DMA queues can be taken back, and no control   *)
(* path appears or disappears.                                             *)
(***************************************************************************)
EXTENDS BarrierInfo, BarrierProgram_proofs

(* What the optimizations work on: barriers that are declared and lead to  *)
(* later tasks.  There may be more of them than AddFinalBarrier could do   *)
(* with as long as those for the queues are there.                         *)
Ordered(p) ==
    /\ p \in [fifo : [Task -> Fifo], waits : [Task -> SUBSET Nat], posts : [Task -> SUBSET Nat],
              count : [Task -> Nat \ {0}], bars : Nat]
    /\ \A t \in Task : p.waits[t] \cup p.posts[t] \subseteq Barriers(p)
    /\ \A t, u \in Task : p.posts[t] \cap p.waits[u] # {} => t < u

(* No barrier is half used.                                                *)
Paired(p) == \A v \in Barriers(p) : Producers(p, v) = {} <=> Consumers(p, v) = {}

-----------------------------------------------------------------------------
(* Tasks in order, and what is gathered along them.                        *)

\* What holds for a task if it holds for all later ones holds for all.
LEMMA FromTheLast ==
    ASSUME NEW G, \A t \in Task : (\A u \in Task : t < u => u \in G) => t \in G
    PROVE  \A t \in Task : t \in G
<1> DEFINE Bad == {t \in Task : t \notin G}
<1> SUFFICES ASSUME Bad # {} PROVE FALSE
  OBVIOUS
<1>1. Bad \in SUBSET (1 .. NumTasks) /\ NumTasks \in Nat
  BY SizeAssumption DEF Task
<1>2. \E t \in Bad : \A x \in Bad : x <= t
  <2> HIDE DEF Bad
  <2> QED BY ONLY <1>1, Bad # {}, GreatestElement
<1>3. PICK t \in Bad : \A x \in Bad : x <= t
  BY <1>2
<1>4. \A u \in Task : t < u => u \in G
  <2> SUFFICES ASSUME NEW u \in Task, t < u, u \notin G PROVE FALSE
    OBVIOUS
  <2>1. u <= t /\ t \in Nat /\ u \in Nat
    BY <1>3 DEF Task
  <2> QED BY <2>1
<1> QED BY <1>4

\* What holds for a task if it holds for all earlier ones holds for all.
LEMMA FromTheFirst ==
    ASSUME NEW G, \A t \in Task : (\A u \in Task : u < t => u \in G) => t \in G
    PROVE  \A t \in Task : t \in G
<1> DEFINE Bad == {t \in Task : t \notin G}
<1> SUFFICES ASSUME Bad # {} PROVE FALSE
  OBVIOUS
<1>1. Bad \in SUBSET Nat
  BY DEF Task
<1>2. \E t \in Bad : \A x \in Bad : t <= x
  <2> HIDE DEF Bad
  <2> QED BY ONLY <1>1, Bad # {}, LeastElement
<1>3. PICK t \in Bad : \A x \in Bad : t <= x
  BY <1>2
<1>4. \A u \in Task : u < t => u \in G
  <2> SUFFICES ASSUME NEW u \in Task, u < t, u \notin G PROVE FALSE
    OBVIOUS
  <2>1. t <= u /\ t \in Nat /\ u \in Nat
    BY <1>3 DEF Task
  <2> QED BY <2>1
<1> QED BY <1>4

(* What the recursions of BarrierInfo have in common.                      *)
Gathers(f, own, next) == f = [t \in Task |-> own[t] \cup UNION {f[u] : u \in next[t]}]

Chain(next) ==
    [t \in Task |-> {u \in Task : \A U \in SUBSET Task :
        t \in U /\ (\A x \in U : next[x] \subseteq U) => u \in U}]

\* A chain goes nowhere, or on from a neighbour.
LEMMA ChainUnfolds ==
    ASSUME NEW next \in [Task -> SUBSET Task]
    PROVE  \A t \in Task : Chain(next)[t] = {t} \cup UNION {Chain(next)[u] : u \in next[t]}
<1> DEFINE C == Chain(next)
           F(t) == {t} \cup UNION {C[u] : u \in next[t]}
<1>1. \A t, u \in Task : u \in C[t] <=> \A U \in SUBSET Task :
          t \in U /\ (\A x \in U : next[x] \subseteq U) => u \in U
  BY DEF Chain
<1>2. \A t \in Task : C[t] \subseteq Task /\ next[t] \subseteq Task
  BY DEF Chain
<1> HIDE DEF C
<1>3. \A t \in Task : F(t) \subseteq Task
  BY <1>2
<1>4. ASSUME NEW t \in Task PROVE F(t) \subseteq C[t]
  <2> SUFFICES ASSUME NEW u \in F(t), NEW U \in SUBSET Task, t \in U,
                      \A x \in U : next[x] \subseteq U
               PROVE  u \in U
    BY <1>1, <1>3
  <2>1. CASE u = t
    BY <2>1
  <2>2. ASSUME NEW x \in next[t], u \in C[x] PROVE u \in U
    <3>1. x \in Task /\ u \in Task /\ x \in U
      BY <1>2, <2>2
    <3> QED BY <1>1, <2>2, <3>1
  <2> QED BY <2>1, <2>2
<1>5. \A t \in Task : t \in C[t]
  BY <1>1
<1>6. ASSUME NEW t \in Task, NEW x \in C[t] PROVE next[x] \subseteq C[t]
  <2> SUFFICES ASSUME NEW u \in next[x], NEW U \in SUBSET Task, t \in U,
                      \A y \in U : next[y] \subseteq U
               PROVE  u \in U
    BY <1>1, <1>2
  <2>1. x \in U
    BY <1>1, <1>2, <1>6
  <2> QED BY <2>1
<1>7. ASSUME NEW t \in Task PROVE C[t] \subseteq F(t)
  <2>1. ASSUME NEW x \in F(t) PROVE next[x] \subseteq F(t)
    <3>1. CASE x = t
      BY <3>1, <1>2, <1>5
    <3>2. ASSUME NEW y \in next[t], x \in C[y] PROVE next[x] \subseteq F(t)
      BY <1>2, <1>6, <3>2
    <3> QED BY <3>1, <3>2
  <2>2. t \in F(t) /\ F(t) \in SUBSET Task
    BY <1>3
  <2> HIDE DEF F
  <2> QED BY <1>1, <1>2, <2>1, <2>2
<1> QED BY <1>4, <1>7 DEF C

\* Whatever the neighbours are, something is gathered.
LEMMA Gathered ==
    ASSUME NEW own, NEW next \in [Task -> SUBSET Task]
    PROVE  \E f : Gathers(f, own, next)
<1> DEFINE C == Chain(next)
           f == [t \in Task |-> UNION {own[u] : u \in C[t]}]
<1>1. \A t \in Task : C[t] = {t} \cup UNION {C[u] : u \in next[t]}
  BY ChainUnfolds
<1> HIDE DEF C
<1>2. \A t \in Task : next[t] \subseteq Task
  OBVIOUS
<1>3. ASSUME NEW t \in Task
      PROVE  f[t] = own[t] \cup UNION {f[u] : u \in next[t]}
  <2>1. ASSUME NEW x \in f[t] PROVE x \in own[t] \cup UNION {f[u] : u \in next[t]}
    <3>1. PICK y \in C[t] : x \in own[y]
      OBVIOUS
    <3>2. CASE y = t
      BY <3>1, <3>2
    <3>3. CASE y # t
      <4>1. PICK u \in next[t] : y \in C[u]
        BY <1>1, <3>3
      <4>2. x \in f[u]
        BY <1>2, <3>1, <4>1
      <4> QED BY <4>2
    <3> QED BY <3>2, <3>3
  <2>2. own[t] \subseteq f[t]
    <3>1. t \in C[t]
      BY <1>1
    <3> QED BY <3>1
  <2>3. ASSUME NEW u \in next[t] PROVE f[u] \subseteq f[t]
    <3>1. u \in Task /\ C[u] \subseteq C[t]
      BY <1>1, <1>2
    <3> QED BY <3>1
  <2> HIDE DEF f
  <2>4. UNION {f[u] : u \in next[t]} \subseteq f[t]
    BY <2>3
  <2> QED BY <2>1, <2>2, <2>4
<1>4. f = [t \in Task |-> f[t]]
  OBVIOUS
<1> HIDE DEF f
<1>5. Gathers(f, own, next)
  BY <1>3, <1>4 DEF Gathers
<1> QED BY <1>5
-----------------------------------------------------------------------------
(* Control paths, whether FIFOs count or barriers only.                    *)

Reach(R, next) ==
    /\ next \in [Task -> SUBSET Task]
    /\ \A t \in Task : \A u \in next[t] : t < u
    /\ Gathers(R, next, next)

\* A path starts with a step.
LEMMA ReachUnfolds ==
    ASSUME NEW R, NEW D, Reach(R, D)
    PROVE  /\ R = [t \in Task |-> R[t]]
           /\ \A t \in Task : /\ R[t] = D[t] \cup UNION {R[u] : u \in D[t]}
                              /\ \A u \in D[t] : u \in Task /\ t < u
BY DEF Reach, Gathers

\* Paths lead to later tasks.
LEMMA ReachLater ==
    ASSUME NEW R, NEW D, Reach(R, D)
    PROVE  \A t \in Task : \A u \in R[t] : u \in Task /\ t < u
<1> DEFINE G == {t \in Task : \A u \in R[t] : u \in Task /\ t < u}
<1>1. ASSUME NEW t \in Task, \A u \in Task : t < u => u \in G PROVE t \in G
  <2> SUFFICES ASSUME NEW u \in R[t] PROVE u \in Task /\ t < u
    OBVIOUS
  <2>1. CASE u \in D[t]
    BY <2>1, ReachUnfolds
  <2>2. ASSUME NEW x \in D[t], u \in R[x] PROVE u \in Task /\ t < u
    <3>1. x \in Task /\ t < x
      BY ReachUnfolds
    <3>2. u \in Task /\ x < u
      BY <1>1, <2>2, <3>1
    <3> QED BY <3>1, <3>2 DEF Task
  <2> QED BY <2>1, <2>2, ReachUnfolds
<1> HIDE DEF G
<1>2. \A t \in Task : t \in G
  BY <1>1, FromTheLast
<1> QED BY <1>2 DEF G

\* Paths compose.
LEMMA ReachTransitive ==
    ASSUME NEW R, NEW D, Reach(R, D)
    PROVE  \A t \in Task : \A u \in R[t] : R[u] \subseteq R[t]
<1> DEFINE G == {t \in Task : \A u \in R[t] : R[u] \subseteq R[t]}
<1>1. ASSUME NEW t \in Task, \A u \in Task : t < u => u \in G PROVE t \in G
  <2> SUFFICES ASSUME NEW u \in R[t] PROVE R[u] \subseteq R[t]
    OBVIOUS
  <2>1. CASE u \in D[t]
    BY <2>1, ReachUnfolds
  <2>2. ASSUME NEW x \in D[t], u \in R[x] PROVE R[u] \subseteq R[t]
    <3>1. x \in Task /\ t < x /\ R[x] \subseteq R[t]
      BY ReachUnfolds
    <3>2. R[u] \subseteq R[x]
      BY <1>1, <2>2, <3>1
    <3> QED BY <3>1, <3>2
  <2> QED BY <2>1, <2>2, ReachUnfolds
<1> HIDE DEF G
<1>2. \A t \in Task : t \in G
  BY <1>1, FromTheLast
<1> QED BY <1>2 DEF G

\* Paths of one kind whose steps are paths of another kind are such paths.
LEMMA ReachWithin ==
    ASSUME NEW R, NEW D, Reach(R, D), NEW Q, NEW E, Reach(Q, E),
           \A t \in Task : D[t] \subseteq Q[t]
    PROVE  \A t \in Task : R[t] \subseteq Q[t]
<1> DEFINE G == {t \in Task : R[t] \subseteq Q[t]}
<1>1. ASSUME NEW t \in Task, \A u \in Task : t < u => u \in G PROVE t \in G
  <2> SUFFICES ASSUME NEW u \in R[t] PROVE u \in Q[t]
    OBVIOUS
  <2>1. CASE u \in D[t]
    BY <2>1
  <2>2. ASSUME NEW x \in D[t], u \in R[x] PROVE u \in Q[t]
    <3>1. x \in Task /\ t < x /\ x \in Q[t]
      BY ReachUnfolds
    <3>2. u \in Q[x]
      BY <1>1, <2>2, <3>1
    <3> QED BY <3>1, <3>2, ReachTransitive
  <2> QED BY <2>1, <2>2, ReachUnfolds
<1> HIDE DEF G
<1>2. \A t \in Task : t \in G
  BY <1>1, FromTheLast
<1> QED BY <1>2 DEF G

\* Paths are the same if the steps of each kind are paths of the other.
LEMMA ReachSame ==
    ASSUME NEW R, NEW D, Reach(R, D), NEW Q, NEW E, Reach(Q, E),
           \A t \in Task : D[t] \subseteq Q[t], \A t \in Task : E[t] \subseteq R[t]
    PROVE  R = Q
<1>1. \A t \in Task : R[t] = Q[t]
  <2>1. \A t \in Task : R[t] \subseteq Q[t]
    BY ReachWithin
  <2>2. \A t \in Task : Q[t] \subseteq R[t]
    BY ReachWithin
  <2> QED BY <2>1, <2>2
<1>2. R = [t \in Task |-> R[t]] /\ Q = [t \in Task |-> Q[t]]
  BY ReachUnfolds
<1> QED BY <1>1, <1>2

Steps(p) == [t \in Task |-> BarrierSuccessors(p, t)]
StepsWithFifos(p) == [t \in Task |-> DirectSuccessors(p, t)]

\* The control map of the barriers has their paths.
LEMMA BarrierReach ==
    ASSUME NEW p, Ordered(p)
    PROVE  Reach(BarrierControlMap(p), Steps(p))
<1> DEFINE S(f) == f = [t \in Task |-> BarrierSuccessors(p, t)
                                       \cup UNION {f[u] : u \in BarrierSuccessors(p, t)}]
<1>1. Steps(p) \in [Task -> SUBSET Task] /\ \A t \in Task : \A u \in Steps(p)[t] : t < u
  BY DEF Steps, Ordered, BarrierSuccessors, Consumers
<1>2. \E f : Gathers(f, Steps(p), Steps(p))
  BY <1>1, Gathered
<1>3. \A f : Gathers(f, Steps(p), Steps(p)) <=> S(f)
  BY DEF Gathers, Steps
<1>4. BarrierControlMap(p) = CHOOSE f : S(f)
  BY DEF BarrierControlMap
<1> HIDE DEF S
<1>5. S(BarrierControlMap(p))
  BY <1>2, <1>3, <1>4
<1> QED BY <1>1, <1>3, <1>5 DEF Reach

\* And so has the one with the FIFOs.
LEMMA TaskReach ==
    ASSUME NEW p, Sound(p)
    PROVE  Reach(TaskControlMap(p), StepsWithFifos(p))
<1> DEFINE S(f) == f = [t \in Task |-> DirectSuccessors(p, t)
                                       \cup UNION {f[u] : u \in DirectSuccessors(p, t)}]
<1>1. /\ StepsWithFifos(p) \in [Task -> SUBSET Task]
      /\ \A t \in Task : \A u \in StepsWithFifos(p)[t] : t < u
  BY SuccessorsLater DEF StepsWithFifos
<1>2. \E f : Gathers(f, StepsWithFifos(p), StepsWithFifos(p))
  BY <1>1, Gathered
<1>3. \A f : Gathers(f, StepsWithFifos(p), StepsWithFifos(p)) <=> S(f)
  BY DEF Gathers, StepsWithFifos
<1>4. TaskControlMap(p) = CHOOSE f : S(f)
  BY DEF TaskControlMap
<1> HIDE DEF S
<1>5. S(TaskControlMap(p))
  BY <1>2, <1>3, <1>4
<1> QED BY <1>1, <1>3, <1>5 DEF Reach
-----------------------------------------------------------------------------
(* The barriers for the DMA queues.                                        *)

Heads(p) == {t \in Task : NextInQueue(p, t) # {}}
NewBarrier(p, t) == p.bars + 1 + Rank(Heads(p), t)

\* Each head of a pair gets a barrier of its own.
LEMMA NewBarriers ==
    ASSUME NEW p, Ordered(p)
    PROVE  /\ Cardinality(Heads(p)) \in Nat
           /\ \A t \in Heads(p) :
                 NewBarrier(p, t) \in p.bars + 1 .. p.bars + Cardinality(Heads(p))
           /\ \A s, t \in Heads(p) : NewBarrier(p, s) = NewBarrier(p, t) => s = t
<1> DEFINE H == Heads(p)
<1>1. H \in SUBSET Nat /\ H \in SUBSET Task /\ IsFiniteSet(H) /\ Cardinality(H) \in Nat
  <2>1. H \in SUBSET Task
    BY DEF Heads
  <2> HIDE DEF H
  <2>2. IsFiniteSet(H)
    BY <2>1, TasksFinite
  <2> QED BY <2>1, <2>2, FS_CardinalityType DEF Task
<1> HIDE DEF H
<1>2. \A t \in H : Rank(H, t) \in Nat /\ Rank(H, t) < Cardinality(H)
  BY <1>1, RankType
<1>3. \A s, t \in H : Rank(H, s) = Rank(H, t) => s = t
  BY <1>1, RankInjective
<1>4. p.bars \in Nat
  BY DEF Ordered
<1>5. \A t \in H : NewBarrier(p, t) = p.bars + 1 + Rank(H, t)
  BY DEF NewBarrier, H
<1>6. ASSUME NEW t \in H
      PROVE  NewBarrier(p, t) \in p.bars + 1 .. p.bars + Cardinality(H)
  BY <1>1, <1>2, <1>4, <1>5
<1>7. ASSUME NEW s \in H, NEW t \in H, NewBarrier(p, s) = NewBarrier(p, t) PROVE s = t
  <2>1. Rank(H, s) = Rank(H, t)
    BY <1>2, <1>4, <1>5, <1>7
  <2> QED BY <1>3, <2>1
<1> QED BY <1>1, <1>6, <1>7 DEF H

\* What the function looks like with them.
LEMMA WithFifoDependenciesIs ==
    ASSUME NEW p, Ordered(p), NEW q, q = WithFifoDependencies(p)
    PROVE  /\ q.fifo = p.fifo /\ q.count = p.count
           /\ q.bars = p.bars + Cardinality(Heads(p))
           /\ q \in [fifo : [Task -> Fifo], waits : [Task -> SUBSET Nat],
                     posts : [Task -> SUBSET Nat], count : [Task -> Nat \ {0}], bars : Nat]
           /\ \A t \in Task : \A v : v \in q.posts[t] <=>
                 v \in p.posts[t] \/ (t \in Heads(p) /\ v = NewBarrier(p, t))
           /\ \A u \in Task : \A v : v \in q.waits[u] <=>
                 v \in p.waits[u] \/ \E s \in Heads(p) : u \in NextInQueue(p, s) /\ v = NewBarrier(p, s)
<1> DEFINE H == Heads(p)
           new(t) == NewBarrier(p, t)
           posts == [t \in Task |-> p.posts[t] \cup {new(s) : s \in H \cap {t}}]
           waits == [u \in Task |->
                        p.waits[u] \cup {new(s) : s \in {t \in H : u \in NextInQueue(p, t)}}]
           n == p.bars + Cardinality(H)
<1>1. q = [p EXCEPT !.bars = n, !.posts = posts, !.waits = waits]
  BY DEF WithFifoDependencies, Heads, NewBarrier, Rank
<1>2. /\ p.bars \in Nat /\ p.posts \in [Task -> SUBSET Nat] /\ p.waits \in [Task -> SUBSET Nat]
      /\ p.fifo \in [Task -> Fifo] /\ p.count \in [Task -> Nat \ {0}]
      /\ p = [fifo |-> p.fifo, waits |-> p.waits, posts |-> p.posts, count |-> p.count,
              bars |-> p.bars]
  BY DEF Ordered
<1>3. n \in Nat /\ \A t \in H : new(t) \in Nat
  <2>1. Cardinality(H) \in Nat
    BY NewBarriers
  <2>2. \A t \in H : new(t) \in p.bars + 1 .. p.bars + Cardinality(H)
    BY NewBarriers
  <2> QED BY <1>2, <2>1, <2>2
<1>4. H \subseteq Task
  BY DEF Heads
<1> HIDE DEF H, new, n
<1>5. posts \in [Task -> SUBSET Nat] /\ waits \in [Task -> SUBSET Nat]
  BY <1>2, <1>3
<1>6. \A t \in Task : \A v : v \in posts[t] <=> v \in p.posts[t] \/ (t \in H /\ v = new(t))
  OBVIOUS
<1>7. \A u \in Task : \A v : v \in waits[u] <=>
          v \in p.waits[u] \/ \E s \in H : u \in NextInQueue(p, s) /\ v = new(s)
  OBVIOUS
<1> HIDE DEF posts, waits
<1>8. q = [fifo |-> p.fifo, waits |-> waits, posts |-> posts, count |-> p.count, bars |-> n]
  BY <1>1, <1>2
<1> QED BY <1>2, <1>3, <1>5, <1>6, <1>7, <1>8 DEF H, new, n
\* A barrier of both a producer and a consumer was there before, or is the new
\* one between neighbours.
LEMMA SharedBarriers ==
    ASSUME NEW p, Ordered(p), NEW q, q = WithFifoDependencies(p), NEW t \in Task, NEW u \in Task, NEW v
    PROVE  v \in q.posts[t] \cap q.waits[u] <=>
               \/ v \in p.posts[t] \cap p.waits[u]
               \/ u \in NextInQueue(p, t) /\ v = NewBarrier(p, t)
<1> DEFINE H == Heads(p)
           new(s) == NewBarrier(p, s)
           Next(s) == NextInQueue(p, s)
<1>1. /\ v \in q.posts[t] <=> v \in p.posts[t] \/ (t \in H /\ v = new(t))
      /\ v \in q.waits[u] <=> v \in p.waits[u] \/ \E s \in H : u \in Next(s) /\ v = new(s)
  BY WithFifoDependenciesIs
<1>2. \A s \in H : new(s) \in p.bars + 1 .. p.bars + Cardinality(H)
  BY NewBarriers
<1>3. \A r, s \in H : new(r) = new(s) => r = s
  BY NewBarriers
<1>4. p.bars \in Nat /\ p.posts[t] \subseteq 1 .. p.bars /\ p.waits[u] \subseteq 1 .. p.bars
  BY DEF Ordered, Barriers
<1>5. \A s \in H : new(s) \notin p.posts[t] /\ new(s) \notin p.waits[u]
  <2> HIDE DEF H, new
  <2> QED BY <1>2, <1>4
<1>6. u \in Next(t) => t \in H
  BY DEF Heads
<1> HIDE DEF H, new, Next
<1>7. v \in q.posts[t] \cap q.waits[u] <=>
          v \in p.posts[t] \cap p.waits[u] \/ (u \in Next(t) /\ v = new(t))
  BY <1>1, <1>3, <1>5, <1>6
<1> QED BY <1>7 DEF new, Next

\* The new barriers lead to later tasks like the old ones.
LEMMA WithFifoDependenciesOrdered ==
    ASSUME NEW p, Ordered(p), NEW q, q = WithFifoDependencies(p)
    PROVE  Ordered(q)
<1> DEFINE H == Heads(p)
           c == Cardinality(H)
<1>1. /\ q \in [fifo : [Task -> Fifo], waits : [Task -> SUBSET Nat], posts : [Task -> SUBSET Nat],
                count : [Task -> Nat \ {0}], bars : Nat]
      /\ q.bars = p.bars + c
  BY WithFifoDependenciesIs
<1>2. \A s \in H : NewBarrier(p, s) \in 1 .. q.bars
  <2>1. \A s \in H : NewBarrier(p, s) \in p.bars + 1 .. p.bars + c
    BY NewBarriers
  <2>2. p.bars \in Nat /\ c \in Nat
    BY NewBarriers DEF Ordered
  <2> HIDE DEF H, c
  <2> QED BY <1>1, <2>1, <2>2
<1>3. ASSUME NEW t \in Task PROVE q.waits[t] \cup q.posts[t] \subseteq Barriers(q)
  <2>1. p.waits[t] \cup p.posts[t] \subseteq 1 .. q.bars
    <3>1. c \in Nat /\ p.bars \in Nat /\ p.waits[t] \cup p.posts[t] \subseteq 1 .. p.bars
      BY NewBarriers DEF Ordered, Barriers
    <3> HIDE DEF c
    <3> QED BY <1>1, <3>1
  <2>2. /\ \A v \in q.posts[t] : v \in p.posts[t] \/ (t \in H /\ v = NewBarrier(p, t))
        /\ \A v \in q.waits[t] : v \in p.waits[t] \/ \E s \in H : v = NewBarrier(p, s)
    BY WithFifoDependenciesIs
  <2> HIDE DEF H
  <2> QED BY <1>2, <2>1, <2>2 DEF Barriers
<1>4. ASSUME NEW t \in Task, NEW u \in Task, q.posts[t] \cap q.waits[u] # {} PROVE t < u
  <2>1. PICK v : v \in q.posts[t] \cap q.waits[u]
    BY <1>4
  <2>2. CASE v \in p.posts[t] \cap p.waits[u]
    BY <2>2 DEF Ordered
  <2>3. CASE u \in NextInQueue(p, t)
    BY <2>3 DEF NextInQueue, Task
  <2> QED BY <2>1, <2>2, <2>3, SharedBarriers
<1> QED BY <1>1, <1>3, <1>4 DEF Ordered

\* A barrier leads from a task to the neighbour behind it.
LEMMA StepsWithFifoDependencies ==
    ASSUME NEW p, Ordered(p), NEW q, q = WithFifoDependencies(p), NEW t \in Task
    PROVE  Steps(q)[t] = Steps(p)[t] \cup NextInQueue(p, t)
<1>1. ASSUME NEW u \in Task
      PROVE  u \in Steps(q)[t] <=> u \in Steps(p)[t] \/ u \in NextInQueue(p, t)
  <2>1. u \in Steps(q)[t] <=> \E v : v \in q.posts[t] \cap q.waits[u]
    BY DEF Steps, BarrierSuccessors, Consumers
  <2>2. u \in Steps(p)[t] <=> \E v : v \in p.posts[t] \cap p.waits[u]
    BY DEF Steps, BarrierSuccessors, Consumers
  <2>3. \A v : v \in q.posts[t] \cap q.waits[u] <=>
               \/ v \in p.posts[t] \cap p.waits[u]
               \/ u \in NextInQueue(p, t) /\ v = NewBarrier(p, t)
    BY SharedBarriers
  <2> QED BY <2>1, <2>2, <2>3
<1>2. Steps(q)[t] \subseteq Task /\ Steps(p)[t] \subseteq Task /\ NextInQueue(p, t) \subseteq Task
  BY DEF Steps, BarrierSuccessors, Consumers, NextInQueue
<1> QED BY <1>1, <1>2

\* A task behind another one on a DMA queue is its neighbour or behind that.
LEMMA NeighbourBetween ==
    ASSUME NEW p, Ordered(p), NEW t \in Task, NEW u \in Task, u > t, p.fifo[u] = p.fifo[t],
           p.fifo[t] \in DmaFifos
    PROVE  \E n \in Task : /\ t < n /\ p.fifo[n] = p.fifo[t]
                           /\ n \in Steps(p)[t] \cup NextInQueue(p, t)
                           /\ n = u \/ n < u
<1> DEFINE S == {x \in Task : x > t /\ p.fifo[x] = p.fifo[t]}
<1>1. S \in SUBSET Nat /\ u \in S
  BY DEF Task
<1>2. \E n \in S : \A x \in S : n <= x
  <2> HIDE DEF S
  <2> QED BY ONLY <1>1, LeastElement
<1>3. PICK n \in S : \A x \in S : n <= x
  BY <1>2
<1>4. n \in Task /\ n > t /\ p.fifo[n] = p.fifo[t] /\ (n = u \/ n < u)
  BY <1>1, <1>3 DEF Task
<1>5. \A w \in t + 1 .. n - 1 : p.fifo[w] # p.fifo[t]
  <2> SUFFICES ASSUME NEW w \in t + 1 .. n - 1, p.fifo[w] = p.fifo[t] PROVE FALSE
    OBVIOUS
  <2>1. NumTasks \in Nat /\ t \in 1 .. NumTasks /\ n \in 1 .. NumTasks
    BY <1>4, SizeAssumption DEF Task
  <2>2. w \in 1 .. NumTasks /\ w > t /\ w < n
    BY <2>1
  <2>3. w \in S
    BY <2>2 DEF Task
  <2> QED BY <1>3, <2>1, <2>2, <2>3
<1>6. n \in Steps(p)[t] \cup NextInQueue(p, t)
  <2>1. CASE p.posts[t] \cap p.waits[n] = {}
    BY <1>4, <1>5, <2>1 DEF NextInQueue
  <2>2. CASE p.posts[t] \cap p.waits[n] # {}
    BY <1>4, <2>2 DEF Steps, BarrierSuccessors, Consumers
  <2> QED BY <2>1, <2>2
<1> QED BY <1>4, <1>6

(* With the new barriers the paths of barriers alone are those of barriers *)
(* and DMA queues.                                                         *)
LEMMA PathsWithFifoDependencies ==
    ASSUME NEW p, Sound(p), Ordered(p), NEW q, q = WithFifoDependencies(p)
    PROVE  BarrierControlMap(q) = TaskControlMap(p)
<1> DEFINE B == BarrierControlMap(q)
           M == TaskControlMap(p)
           D == StepsWithFifos(p)
           E == Steps(q)
<1>1. Ordered(q)
  BY WithFifoDependenciesOrdered
<1>2. Reach(B, E) /\ Reach(M, D)
  BY <1>1, BarrierReach, TaskReach
<1>3. \A t \in Task : E[t] = Steps(p)[t] \cup NextInQueue(p, t)
  BY StepsWithFifoDependencies
<1>4. \A t \in Task : D[t] = Steps(p)[t] \cup {u \in Task : u > t /\ p.fifo[u] = p.fifo[t]
                                                            /\ p.fifo[t] \in DmaFifos}
  BY DEF StepsWithFifos, Steps, DirectSuccessors
<1>5. \A t \in Task : E[t] \subseteq D[t]
  <2>1. \A t \in Task : NextInQueue(p, t) \subseteq D[t]
    BY <1>4 DEF NextInQueue
  <2> QED BY <1>3, <1>4, <2>1
<1> HIDE DEF B, M, D, E
<1>6. \A t \in Task : E[t] \subseteq M[t]
  BY <1>2, <1>5, ReachUnfolds
<1> DEFINE G == {t \in Task : D[t] \subseteq B[t]}
<1>7. ASSUME NEW t \in Task, \A u \in Task : t < u => u \in G PROVE t \in G
  <2> SUFFICES ASSUME NEW u \in D[t] PROVE u \in B[t]
    OBVIOUS
  <2>1. E[t] \subseteq B[t]
    BY <1>2, ReachUnfolds
  <2>2. CASE u \in Steps(p)[t]
    BY <1>3, <2>1, <2>2
  <2>3. CASE u \in Task /\ u > t /\ p.fifo[u] = p.fifo[t] /\ p.fifo[t] \in DmaFifos
    <3>1. PICK n \in Task : /\ t < n /\ p.fifo[n] = p.fifo[t]
                            /\ n \in Steps(p)[t] \cup NextInQueue(p, t)
                            /\ n = u \/ n < u
      BY <2>3, NeighbourBetween
    <3>2. n \in B[t]
      BY <1>3, <2>1, <3>1
    <3>3. CASE n < u
      <4>1. u \in D[n]
        BY <1>4, <2>3, <3>1, <3>3 DEF Task
      <4>2. u \in B[n]
        BY <1>7, <3>1, <4>1
      <4> QED BY <1>2, <3>2, <4>2, ReachTransitive
    <3> QED BY <3>1, <3>2, <3>3
  <2> QED BY <1>4, <2>2, <2>3
<1> HIDE DEF G
<1>8. \A t \in Task : t \in G
  BY <1>7, FromTheLast
<1>9. \A t \in Task : D[t] \subseteq B[t]
  BY <1>8 DEF G
<1>10. B = M
  BY <1>2, <1>6, <1>9, ReachSame
<1> QED BY <1>10 DEF B, M
-----------------------------------------------------------------------------
(* Producers.                                                              *)

\* What a task or one behind it updates is updated by the task or by one behind
\* a barrier of it.
LEMMA UpdatedGathers ==
    ASSUME NEW p, Ordered(p)
    PROVE  /\ \A t \in Task : Updated(p)[t] = p.posts[t] \cup UNION {Updated(p)[u] : u \in Steps(p)[t]}
           /\ \A t \in Task : \A u \in Steps(p)[t] : u \in Task /\ t < u
<1> DEFINE S(f) == f = [t \in Task |-> p.posts[t] \cup UNION {f[u] : u \in BarrierSuccessors(p, t)}]
<1>1. Steps(p) \in [Task -> SUBSET Task] /\ \A t \in Task : \A u \in Steps(p)[t] : t < u
  BY DEF Steps, Ordered, BarrierSuccessors, Consumers
<1>2. \E f : Gathers(f, p.posts, Steps(p))
  BY <1>1, Gathered
<1>3. \A f : Gathers(f, p.posts, Steps(p)) <=> S(f)
  BY DEF Gathers, Steps
<1>4. Updated(p) = CHOOSE f : S(f)
  BY DEF Updated
<1> HIDE DEF S
<1>5. Gathers(Updated(p), p.posts, Steps(p))
  BY <1>2, <1>3, <1>4
<1> QED BY <1>1, <1>5 DEF Gathers

\* The barrier is updated then or later, and its consumers are behind.
LEMMA UpdatedBehind ==
    ASSUME NEW p, Ordered(p)
    PROVE  \A t \in Task : \A v \in Updated(p)[t] :
               /\ \E s \in Task : t <= s /\ v \in p.posts[s]
               /\ Consumers(p, v) \subseteq BarrierControlMap(p)[t]
<1> DEFINE B == BarrierControlMap(p)
           D == Steps(p)
           Behind(t, v) == /\ \E s \in Task : t <= s /\ v \in p.posts[s]
                           /\ Consumers(p, v) \subseteq B[t]
           G == {t \in Task : \A v \in Updated(p)[t] : Behind(t, v)}
<1>1. Reach(B, D)
  BY BarrierReach
<1>2. ASSUME NEW t \in Task, \A u \in Task : t < u => u \in G PROVE t \in G
  <2> SUFFICES ASSUME NEW v \in Updated(p)[t] PROVE Behind(t, v)
    OBVIOUS
  <2>1. CASE v \in p.posts[t]
    <3>1. Consumers(p, v) \subseteq D[t]
      BY <2>1 DEF Steps, BarrierSuccessors
    <3>2. D[t] \subseteq B[t]
      BY <1>1, ReachUnfolds
    <3>3. t <= t
      BY DEF Task
    <3> QED BY <2>1, <3>1, <3>2, <3>3
  <2>2. ASSUME NEW u \in D[t], v \in Updated(p)[u] PROVE Behind(t, v)
    <3>1. u \in Task /\ t < u /\ u \in B[t]
      <4> HIDE DEF B
      <4> QED BY <1>1, UpdatedGathers, ReachUnfolds
    <3>2. Behind(u, v)
      BY <1>2, <2>2, <3>1
    <3>3. PICK s \in Task : u <= s /\ v \in p.posts[s]
      BY <3>2
    <3>4. t <= s
      BY <3>1, <3>3 DEF Task
    <3>5. B[u] \subseteq B[t]
      <4> HIDE DEF B, D
      <4> QED BY <1>1, <3>1, ReachTransitive
    <3> QED BY <3>2, <3>3, <3>4, <3>5
  <2> QED BY <2>1, <2>2, UpdatedGathers
<1> HIDE DEF G, Behind
<1>3. \A t \in Task : t \in G
  BY <1>2, FromTheLast
<1> QED BY <1>3 DEF G, Behind

\* What the function looks like.
LEMMA OptimizedProducersIs ==
    ASSUME NEW p, Ordered(p), NEW q, q = OptimizedProducers(p)
    PROVE  /\ q.fifo = p.fifo /\ q.count = p.count /\ q.bars = p.bars /\ q.waits = p.waits
           /\ \A t \in Task : q.posts[t] = p.posts[t] \ UNION {Updated(p)[u] : u \in Steps(p)[t]}
           /\ Ordered(q)
<1> DEFINE posts == [t \in Task |->
                        p.posts[t] \ UNION {Updated(p)[u] : u \in BarrierSuccessors(p, t)}]
<1>1. q = [p EXCEPT !.posts = posts]
  BY DEF OptimizedProducers
<1>2. p = [fifo |-> p.fifo, waits |-> p.waits, posts |-> p.posts, count |-> p.count,
           bars |-> p.bars]
  BY DEF Ordered
<1>3. \A t \in Task : posts[t] = p.posts[t] \ UNION {Updated(p)[u] : u \in Steps(p)[t]}
  BY DEF Steps
<1>4. posts = [t \in Task |-> posts[t]]
  OBVIOUS
<1> HIDE DEF posts
<1>5. q = [fifo |-> p.fifo, waits |-> p.waits, posts |-> posts, count |-> p.count,
           bars |-> p.bars]
  BY <1>1, <1>2
<1>6. \A t \in Task : posts[t] \subseteq p.posts[t]
  BY <1>3
<1>7. posts \in [Task -> SUBSET Nat]
  <2>1. \A t \in Task : p.posts[t] \subseteq Nat
    BY DEF Ordered
  <2> QED BY <1>4, <1>6, <2>1
<1>8. /\ q.fifo = p.fifo /\ q.count = p.count /\ q.bars = p.bars /\ q.waits = p.waits
      /\ q.posts = posts
  BY <1>5
<1>9. Ordered(q)
  <2>1. q \in [fifo : [Task -> Fifo], waits : [Task -> SUBSET Nat], posts : [Task -> SUBSET Nat],
               count : [Task -> Nat \ {0}], bars : Nat]
    BY <1>5, <1>7 DEF Ordered
  <2>2. \A t \in Task : q.waits[t] \cup q.posts[t] \subseteq Barriers(q)
    BY <1>6, <1>8 DEF Ordered, Barriers
  <2>3. \A t, u \in Task : q.posts[t] \cap q.waits[u] # {} => t < u
    BY <1>6, <1>8 DEF Ordered
  <2> QED BY <2>1, <2>2, <2>3 DEF Ordered
<1> QED BY <1>3, <1>8, <1>9

(* A barrier that is not updated any more led nowhere another path does    *)
(* not lead.                                                               *)
LEMMA PathsWithOptimizedProducers ==
    ASSUME NEW p, Ordered(p), NEW q, q = OptimizedProducers(p)
    PROVE  BarrierControlMap(q) = BarrierControlMap(p)
<1> DEFINE B == BarrierControlMap(p)
           Q == BarrierControlMap(q)
           D == Steps(p)
           E == Steps(q)
<1>1. Ordered(q) /\ q.waits = p.waits
  BY OptimizedProducersIs
<1>2. Reach(B, D) /\ Reach(Q, E)
  BY <1>1, BarrierReach
<1>3. \A t \in Task : q.posts[t] = p.posts[t] \ UNION {Updated(p)[u] : u \in D[t]}
  BY OptimizedProducersIs
<1>4. \A t, u \in Task : /\ u \in D[t] <=> p.posts[t] \cap p.waits[u] # {}
                         /\ u \in E[t] <=> q.posts[t] \cap p.waits[u] # {}
  BY <1>1 DEF Steps, BarrierSuccessors, Consumers
<1>5. \A v : \A u \in Task : u \in Consumers(p, v) <=> v \in p.waits[u]
  BY DEF Consumers
<1>6. \A t \in Task : \A v \in Updated(p)[t] : Consumers(p, v) \subseteq B[t]
  BY UpdatedBehind
<1> HIDE DEF B, Q, D, E
<1>7. \A t \in Task : E[t] \subseteq D[t] /\ D[t] \subseteq Task /\ D[t] \subseteq B[t]
                      /\ E[t] \subseteq Q[t]
  <2>1. \A t \in Task : D[t] \subseteq Task /\ E[t] \subseteq Task
    BY <1>2 DEF Reach
  <2>2. \A t \in Task : q.posts[t] \subseteq p.posts[t]
    BY <1>3
  <2> QED BY <1>2, <1>4, <2>1, <2>2, ReachUnfolds
<1>8. \A t \in Task : E[t] \subseteq B[t]
  BY <1>7
<1> DEFINE G == {t \in Task : B[t] \subseteq Q[t]}
<1>9. ASSUME NEW t \in Task, \A u \in Task : t < u => u \in G PROVE t \in G
  <2>1. \A x \in Task : t < x => B[x] \subseteq Q[x]
    BY <1>9
  \* A step over a barrier that t does not update any more is a path behind an
  \* earlier step.
  <2> DEFINE N == {u \in Task : u \in D[t] => u \in Q[t]}
  <2>2. ASSUME NEW u \in Task, \A x \in Task : x < u => x \in N PROVE u \in N
    <3> SUFFICES ASSUME u \in D[t] PROVE u \in Q[t]
      OBVIOUS
    <3>1. PICK v : v \in p.posts[t] \cap p.waits[u]
      BY <1>4
    <3>2. CASE v \in q.posts[t]
      BY <1>4, <1>7, <3>1, <3>2
    <3>3. CASE v \notin q.posts[t]
      <4>1. PICK x \in D[t] : v \in Updated(p)[x]
        BY <1>3, <3>1, <3>3
      <4>2. x \in Task /\ t < x
        BY <1>2, ReachUnfolds
      <4>3. u \in B[x]
        BY <1>5, <1>6, <3>1, <4>1, <4>2
      <4>4. x < u
        BY <1>2, <4>2, <4>3, ReachLater
      <4>5. x \in Q[t]
        BY <2>2, <4>2, <4>4
      <4>6. u \in Q[x]
        BY <2>1, <4>2, <4>3
      <4> QED BY <1>2, <4>5, <4>6, ReachTransitive
    <3> QED BY <3>2, <3>3
  <2> HIDE DEF N
  <2>3. \A u \in Task : u \in N
    BY <2>2, FromTheFirst
  <2>4. D[t] \subseteq Q[t]
    BY <1>7, <2>3 DEF N
  <2>5. ASSUME NEW x \in D[t], NEW u \in B[x] PROVE u \in Q[t]
    <3>1. x \in Task /\ t < x /\ x \in Q[t]
      BY <1>2, <2>4, ReachUnfolds
    <3>2. u \in Q[x]
      BY <2>1, <3>1
    <3> QED BY <1>2, <3>1, <3>2, ReachTransitive
  <2> QED BY <1>2, <2>4, <2>5, ReachUnfolds
<1> HIDE DEF G
<1>10. \A t \in Task : t \in G
  BY <1>9, FromTheLast
<1>11. \A t \in Task : D[t] \subseteq Q[t]
  BY <1>7, <1>10 DEF G
<1>12. B = Q
  BY <1>2, <1>8, <1>11, ReachSame
<1> QED BY <1>12 DEF B, Q

\* The last producer of a barrier keeps it.
LEMMA ProducersRemain ==
    ASSUME NEW p, Ordered(p), NEW q, q = OptimizedProducers(p), NEW v
    PROVE  /\ Producers(q, v) \subseteq Producers(p, v)
           /\ Producers(p, v) # {} => Producers(q, v) # {}
<1>1. \A t \in Task : q.posts[t] = p.posts[t] \ UNION {Updated(p)[u] : u \in Steps(p)[t]}
  BY OptimizedProducersIs
<1>2. Producers(q, v) \subseteq Producers(p, v)
  BY <1>1 DEF Producers
<1>3. ASSUME Producers(p, v) # {} PROVE Producers(q, v) # {}
  <2> DEFINE S == Producers(p, v)
  <2>1. S \in SUBSET (1 .. NumTasks) /\ NumTasks \in Nat /\ S # {}
    BY <1>3, SizeAssumption DEF Producers, Task
  <2>2. \E t \in S : \A s \in S : s <= t
    <3> HIDE DEF S
    <3> QED BY ONLY <2>1, GreatestElement
  <2>3. PICK t \in S : \A s \in S : s <= t
    BY <2>2
  <2>4. t \in Task /\ v \in p.posts[t]
    BY <2>3 DEF Producers
  <2>5. ASSUME NEW u \in Steps(p)[t], v \in Updated(p)[u] PROVE FALSE
    <3>1. u \in Task /\ t < u
      BY <2>4, UpdatedGathers
    <3>2. PICK s \in Task : u <= s /\ v \in p.posts[s]
      BY <2>5, <3>1, UpdatedBehind
    <3>3. s <= t
      BY <2>3, <3>2 DEF Producers
    <3> QED BY <2>4, <3>1, <3>2, <3>3 DEF Task
  <2>6. v \in q.posts[t]
    BY <1>1, <2>4, <2>5
  <2> QED BY <2>4, <2>6 DEF Producers
<1> QED BY <1>2, <1>3
-----------------------------------------------------------------------------
(* Barriers with the same producers.                                       *)

\* A barrier is merged into the first with its producers, which stays.
LEMMA MergedIntoIs ==
    ASSUME NEW p, Ordered(p), NEW v \in Barriers(p)
    PROVE  /\ MergedInto(p, v) \in Barriers(p) /\ MergedInto(p, v) <= v
           /\ Producers(p, MergedInto(p, v)) = Producers(p, v)
           /\ MergedInto(p, MergedInto(p, v)) = MergedInto(p, v)
<1> DEFINE S == {w \in Barriers(p) : Producers(p, w) = Producers(p, v)}
           m == Least(S)
<1>1. v \in Nat /\ Barriers(p) \subseteq Nat
  BY DEF Ordered, Barriers
<1>2. CASE Producers(p, v) = {}
  BY <1>1, <1>2 DEF MergedInto
<1>3. CASE Producers(p, v) # {}
  <2>1. S \in SUBSET Nat /\ v \in S
    BY <1>1
  <2>2. \E x \in S : \A y \in S : x <= y
    <3> HIDE DEF S
    <3> QED BY ONLY <2>1, LeastElement
  <2>3. m \in S /\ \A y \in S : m <= y
    <3> HIDE DEF S
    <3> QED BY <2>2 DEF Least
  <2>4. MergedInto(p, v) = m
    BY <1>3 DEF MergedInto
  <2> HIDE DEF m
  <2>5. m \in Barriers(p) /\ m <= v /\ Producers(p, m) = Producers(p, v)
    BY <2>1, <2>3
  <2>6. MergedInto(p, m) = m
    <3>1. MergedInto(p, m) = Least(S)
      BY <1>3, <2>5 DEF MergedInto
    <3> QED BY <3>1 DEF m
  <2> QED BY <2>4, <2>5, <2>6
<1> QED BY <1>2, <1>3

\* A barrier that shares a producer is merged into one with the same producers.
LEMMA MergedAlike ==
    ASSUME NEW p, Ordered(p), NEW v \in Barriers(p), NEW w \in Barriers(p),
           Producers(p, v) = Producers(p, w), Producers(p, v) # {}
    PROVE  MergedInto(p, v) = MergedInto(p, w)
BY DEF MergedInto

\* What the function looks like.
LEMMA MergedSameProducersIs ==
    ASSUME NEW p, Ordered(p), NEW q, q = MergedSameProducers(p)
    PROVE  /\ q.fifo = p.fifo /\ q.count = p.count /\ q.bars = p.bars
           /\ \A t \in Task : q.posts[t] = {v \in p.posts[t] : MergedInto(p, v) = v}
           /\ \A t \in Task : q.waits[t] = {MergedInto(p, v) : v \in p.waits[t]}
           /\ q \in [fifo : [Task -> Fifo], waits : [Task -> SUBSET Nat], posts : [Task -> SUBSET Nat],
                     count : [Task -> Nat \ {0}], bars : Nat]
           /\ \A t \in Task : q.waits[t] \cup q.posts[t] \subseteq Barriers(q)
<1> DEFINE posts == [t \in Task |-> {v \in p.posts[t] : MergedInto(p, v) = v}]
           waits == [t \in Task |-> {MergedInto(p, v) : v \in p.waits[t]}]
<1>1. q = [p EXCEPT !.posts = posts, !.waits = waits]
  BY DEF MergedSameProducers
<1>2. p = [fifo |-> p.fifo, waits |-> p.waits, posts |-> p.posts, count |-> p.count,
           bars |-> p.bars]
  BY DEF Ordered
<1>3. \A t \in Task : posts[t] \subseteq Barriers(p) /\ waits[t] \subseteq Barriers(p)
  <2>1. \A t \in Task : p.posts[t] \cup p.waits[t] \subseteq Barriers(p)
    BY DEF Ordered
  <2>2. \A v \in Barriers(p) : MergedInto(p, v) \in Barriers(p)
    BY MergedIntoIs
  <2> QED BY <2>1, <2>2
<1>4. /\ posts = [t \in Task |-> posts[t]]
      /\ waits = [t \in Task |-> waits[t]]
      /\ \A t \in Task : posts[t] = {v \in p.posts[t] : MergedInto(p, v) = v}
      /\ \A t \in Task : waits[t] = {MergedInto(p, v) : v \in p.waits[t]}
  OBVIOUS
<1> HIDE DEF posts, waits
<1>5. q = [fifo |-> p.fifo, waits |-> waits, posts |-> posts, count |-> p.count, bars |-> p.bars]
  BY <1>1, <1>2
<1>6. posts \in [Task -> SUBSET Nat] /\ waits \in [Task -> SUBSET Nat]
  <2>1. Barriers(p) \subseteq Nat
    BY DEF Barriers, Ordered
  <2> QED BY <1>3, <1>4, <2>1
<1>7. /\ q.fifo = p.fifo /\ q.count = p.count /\ q.bars = p.bars /\ q.posts = posts
      /\ q.waits = waits
  BY <1>5
<1>8. q \in [fifo : [Task -> Fifo], waits : [Task -> SUBSET Nat], posts : [Task -> SUBSET Nat],
             count : [Task -> Nat \ {0}], bars : Nat]
  BY <1>5, <1>6 DEF Ordered
<1>9. \A t \in Task : q.waits[t] \cup q.posts[t] \subseteq Barriers(q)
  BY <1>3, <1>7 DEF Barriers
<1> QED BY <1>4, <1>7, <1>8, <1>9

\* A barrier of a producer and a consumer stands for one they had, with the
\* same producers.
LEMMA SharedMerged ==
    ASSUME NEW p, Ordered(p), NEW q, q = MergedSameProducers(p), NEW t \in Task, NEW u \in Task, NEW v,
           v \in q.posts[t] \cap q.waits[u]
    PROVE  /\ v \in p.posts[t] /\ MergedInto(p, v) = v
           /\ \E w \in p.posts[t] \cap p.waits[u] :
                 MergedInto(p, w) = v /\ Producers(p, w) = Producers(p, v)
<1>1. v \in p.posts[t] /\ MergedInto(p, v) = v
  BY MergedSameProducersIs
<1>2. PICK w \in p.waits[u] : MergedInto(p, w) = v
  BY MergedSameProducersIs
<1>3. w \in Barriers(p)
  BY DEF Ordered
<1>4. Producers(p, w) = Producers(p, v)
  BY <1>2, <1>3, MergedIntoIs
<1>5. w \in p.posts[t]
  BY <1>1, <1>4 DEF Producers
<1> QED BY <1>1, <1>2, <1>4, <1>5

\* Merging takes no step away and adds none.
LEMMA StepsMerged ==
    ASSUME NEW p, Ordered(p), NEW q, q = MergedSameProducers(p)
    PROVE  Steps(q) = Steps(p)
<1>1. ASSUME NEW t \in Task, NEW u \in Task
      PROVE  q.posts[t] \cap q.waits[u] # {} <=> p.posts[t] \cap p.waits[u] # {}
  <2>1. ASSUME NEW v, v \in q.posts[t] \cap q.waits[u] PROVE p.posts[t] \cap p.waits[u] # {}
    BY <2>1, SharedMerged
  <2>2. ASSUME NEW v, v \in p.posts[t] \cap p.waits[u] PROVE q.posts[t] \cap q.waits[u] # {}
    <3> DEFINE m == MergedInto(p, v)
    <3>1. v \in Barriers(p) /\ t \in Producers(p, v)
      BY <2>2 DEF Ordered, Producers
    <3>2. Producers(p, m) = Producers(p, v) /\ MergedInto(p, m) = m
      BY <3>1, MergedIntoIs
    <3>3. m \in p.posts[t]
      BY <3>1, <3>2 DEF Producers
    <3>4. m \in q.posts[t] /\ m \in q.waits[u]
      BY <2>2, <3>2, <3>3, MergedSameProducersIs
    <3> QED BY <3>4
  <2> QED BY <2>1, <2>2
<1>2. \A t, u \in Task : u \in BarrierSuccessors(p, t) <=> p.posts[t] \cap p.waits[u] # {}
  BY DEF BarrierSuccessors, Consumers
<1>3. \A t, u \in Task : u \in BarrierSuccessors(q, t) <=> q.posts[t] \cap q.waits[u] # {}
  BY DEF BarrierSuccessors, Consumers
<1>4. \A t \in Task : BarrierSuccessors(p, t) \subseteq Task /\ BarrierSuccessors(q, t) \subseteq Task
  BY DEF BarrierSuccessors, Consumers
<1>5. \A t \in Task : BarrierSuccessors(p, t) = BarrierSuccessors(q, t)
  BY <1>1, <1>2, <1>3, <1>4
<1> QED BY <1>5 DEF Steps

\* So the paths are the same.
LEMMA PathsMerged ==
    ASSUME NEW p, Ordered(p), NEW q, q = MergedSameProducers(p)
    PROVE  Ordered(q) /\ BarrierControlMap(q) = BarrierControlMap(p)
<1>1. Ordered(q)
  <2>1. \A t, u \in Task : q.posts[t] \cap q.waits[u] # {} => t < u
    <3> SUFFICES ASSUME NEW t \in Task, NEW u \in Task, q.posts[t] \cap q.waits[u] # {}
                 PROVE  t < u
      OBVIOUS
    <3>1. p.posts[t] \cap p.waits[u] # {}
      BY SharedMerged
    <3> QED BY <3>1 DEF Ordered
  <2> QED BY <2>1, MergedSameProducersIs DEF Ordered
<1>2. Reach(BarrierControlMap(p), Steps(p)) /\ Reach(BarrierControlMap(q), Steps(p))
  BY <1>1, BarrierReach, StepsMerged
<1>3. /\ \A t \in Task : Steps(p)[t] \subseteq BarrierControlMap(p)[t]
      /\ \A t \in Task : Steps(p)[t] \subseteq BarrierControlMap(q)[t]
  BY <1>2, ReachUnfolds
<1> QED BY <1>1, <1>2, <1>3, ReachSame

\* Barriers remain that have both ends.
LEMMA PairedMerged ==
    ASSUME NEW p, Ordered(p), Paired(p), NEW q, q = MergedSameProducers(p)
    PROVE  Paired(q)
<1> SUFFICES ASSUME NEW v \in Barriers(q) PROVE Producers(q, v) = {} <=> Consumers(q, v) = {}
  BY DEF Paired
<1>1. v \in Barriers(p)
  BY MergedSameProducersIs DEF Barriers
<1>2. \A t \in Task : /\ t \in Producers(q, v) <=> t \in Producers(p, v) /\ MergedInto(p, v) = v
                      /\ t \in Consumers(q, v) <=> \E w \in p.waits[t] : MergedInto(p, w) = v
  BY MergedSameProducersIs DEF Producers, Consumers
<1>3. \A w \in Barriers(p) : Producers(p, w) = {} <=> Consumers(p, w) = {}
  BY DEF Paired
<1>4. ASSUME NEW t \in Producers(q, v) PROVE Consumers(q, v) # {}
  <2>1. t \in Task /\ t \in Producers(p, v) /\ MergedInto(p, v) = v
    BY <1>2 DEF Producers
  <2>2. PICK u \in Task : v \in p.waits[u]
    BY <1>1, <1>3, <2>1 DEF Consumers
  <2> QED BY <1>2, <2>1, <2>2
<1>5. ASSUME NEW t \in Consumers(q, v) PROVE Producers(q, v) # {}
  <2>1. PICK w \in p.waits[t] : t \in Task /\ MergedInto(p, w) = v
    BY <1>2 DEF Consumers
  <2>2. w \in Barriers(p) /\ t \in Consumers(p, w)
    BY <2>1 DEF Ordered, Consumers
  <2>3. Producers(p, w) # {}
    BY <1>3, <2>2
  <2>4. Producers(p, v) # {} /\ MergedInto(p, v) = v
    BY <2>1, <2>2, <2>3, MergedIntoIs
  <2>5. \A s \in Producers(p, v) : s \in Task
    BY DEF Producers
  <2> QED BY <1>2, <2>4, <2>5
<1> QED BY <1>4, <1>5
-----------------------------------------------------------------------------
(* Consumers.                                                              *)

Back(p) == [t \in Task |-> Predecessors(p, t)]

\* What a task or one before it waits for is awaited by the task or by one
\* before a barrier of it.
LEMMA AwaitedGathers ==
    ASSUME NEW p, Ordered(p)
    PROVE  /\ \A t \in Task : Awaited(p)[t] = p.waits[t] \cup UNION {Awaited(p)[s] : s \in Back(p)[t]}
           /\ \A t \in Task : \A s \in Back(p)[t] : s \in Task /\ s < t /\ t \in Steps(p)[s]
<1> DEFINE S(f) == f = [t \in Task |-> p.waits[t] \cup UNION {f[u] : u \in Predecessors(p, t)}]
<1>1. \A t \in Task : \A s \in Back(p)[t] : s \in Task /\ s < t /\ t \in Steps(p)[s]
  <2> SUFFICES ASSUME NEW t \in Task, NEW s \in Back(p)[t]
               PROVE  s \in Task /\ s < t /\ t \in Steps(p)[s]
    OBVIOUS
  <2>1. PICK v \in p.waits[t] : s \in Task /\ v \in p.posts[s]
    BY DEF Back, Predecessors, Producers
  <2>2. s < t
    BY <2>1 DEF Ordered
  <2> QED BY <2>1, <2>2 DEF Steps, BarrierSuccessors, Consumers
<1>2. Back(p) \in [Task -> SUBSET Task]
  BY DEF Back, Predecessors, Producers
<1>3. \E f : Gathers(f, p.waits, Back(p))
  BY <1>2, Gathered
<1>4. \A f : Gathers(f, p.waits, Back(p)) <=> S(f)
  BY DEF Gathers, Back
<1>5. Awaited(p) = CHOOSE f : S(f)
  BY DEF Awaited
<1> HIDE DEF S
<1>6. Gathers(Awaited(p), p.waits, Back(p))
  BY <1>3, <1>4, <1>5
<1> QED BY <1>1, <1>6 DEF Gathers

\* The barrier is awaited then or earlier, and its producers are before.
LEMMA AwaitedBefore ==
    ASSUME NEW p, Ordered(p)
    PROVE  \A t \in Task : \A v \in Awaited(p)[t] :
               /\ \E s \in Task : s <= t /\ v \in p.waits[s]
               /\ \A s \in Producers(p, v) : t \in BarrierControlMap(p)[s]
<1> DEFINE B == BarrierControlMap(p)
           D == Steps(p)
           Before(t, v) == /\ \E s \in Task : s <= t /\ v \in p.waits[s]
                           /\ \A s \in Producers(p, v) : t \in B[s]
           G == {t \in Task : \A v \in Awaited(p)[t] : Before(t, v)}
<1>1. Reach(B, D)
  BY BarrierReach
<1>2. \A v : Producers(p, v) \subseteq Task
  BY DEF Producers
<1>3. ASSUME NEW t \in Task, \A u \in Task : u < t => u \in G PROVE t \in G
  <2> SUFFICES ASSUME NEW v \in Awaited(p)[t] PROVE Before(t, v)
    OBVIOUS
  <2>1. CASE v \in p.waits[t]
    <3>1. ASSUME NEW s \in Producers(p, v) PROVE t \in B[s]
      <4>1. s \in Task /\ t \in D[s]
        BY <2>1 DEF Steps, BarrierSuccessors, Producers, Consumers
      <4> HIDE DEF B, D
      <4> QED BY <1>1, <4>1, ReachUnfolds
    <3>2. t <= t
      BY DEF Task
    <3> QED BY <2>1, <3>1, <3>2
  <2>2. ASSUME NEW r \in Back(p)[t], v \in Awaited(p)[r] PROVE Before(t, v)
    <3>1. r \in Task /\ r < t /\ t \in B[r]
      <4>1. r \in Task /\ r < t /\ t \in D[r]
        BY AwaitedGathers
      <4> HIDE DEF B, D
      <4> QED BY <1>1, <4>1, ReachUnfolds
    <3>2. Before(r, v)
      BY <1>3, <2>2, <3>1
    <3>3. PICK s \in Task : s <= r /\ v \in p.waits[s]
      BY <3>2
    <3>4. s <= t
      BY <3>1, <3>3 DEF Task
    <3>5. ASSUME NEW x \in Producers(p, v) PROVE t \in B[x]
      <4>1. x \in Task /\ r \in B[x]
        BY <1>2, <3>2
      <4> HIDE DEF B, D
      <4> QED BY <1>1, <3>1, <4>1, ReachTransitive
    <3> QED BY <3>3, <3>4, <3>5
  <2> QED BY <2>1, <2>2, AwaitedGathers
<1> HIDE DEF G, Before
<1>4. \A t \in Task : t \in G
  BY <1>3, FromTheFirst
<1> QED BY <1>4 DEF G, Before

\* What the function looks like.
LEMMA OptimizedConsumersIs ==
    ASSUME NEW p, Ordered(p), NEW q, q = OptimizedConsumers(p)
    PROVE  /\ q.fifo = p.fifo /\ q.count = p.count /\ q.bars = p.bars /\ q.posts = p.posts
           /\ \A t \in Task : q.waits[t] = p.waits[t] \ UNION {Awaited(p)[s] : s \in Back(p)[t]}
           /\ Ordered(q)
<1> DEFINE waits == [t \in Task |->
                        p.waits[t] \ UNION {Awaited(p)[u] : u \in Predecessors(p, t)}]
<1>1. q = [p EXCEPT !.waits = waits]
  BY DEF OptimizedConsumers
<1>2. p = [fifo |-> p.fifo, waits |-> p.waits, posts |-> p.posts, count |-> p.count,
           bars |-> p.bars]
  BY DEF Ordered
<1>3. \A t \in Task : waits[t] = p.waits[t] \ UNION {Awaited(p)[s] : s \in Back(p)[t]}
  BY DEF Back
<1>4. waits = [t \in Task |-> waits[t]]
  OBVIOUS
<1> HIDE DEF waits
<1>5. q = [fifo |-> p.fifo, waits |-> waits, posts |-> p.posts, count |-> p.count,
           bars |-> p.bars]
  BY <1>1, <1>2
<1>6. \A t \in Task : waits[t] \subseteq p.waits[t]
  BY <1>3
<1>7. waits \in [Task -> SUBSET Nat]
  <2>1. \A t \in Task : p.waits[t] \subseteq Nat
    BY DEF Ordered
  <2> QED BY <1>4, <1>6, <2>1
<1>8. /\ q.fifo = p.fifo /\ q.count = p.count /\ q.bars = p.bars /\ q.posts = p.posts
      /\ q.waits = waits
  BY <1>5
<1>9. Ordered(q)
  <2>1. q \in [fifo : [Task -> Fifo], waits : [Task -> SUBSET Nat], posts : [Task -> SUBSET Nat],
               count : [Task -> Nat \ {0}], bars : Nat]
    BY <1>5, <1>7 DEF Ordered
  <2>2. \A t \in Task : q.waits[t] \cup q.posts[t] \subseteq Barriers(q)
    BY <1>6, <1>8 DEF Ordered, Barriers
  <2>3. \A t, u \in Task : q.posts[t] \cap q.waits[u] # {} => t < u
    BY <1>6, <1>8 DEF Ordered
  <2> QED BY <2>1, <2>2, <2>3 DEF Ordered
<1> QED BY <1>3, <1>8, <1>9

\* A path ends with a step.
LEMMA ReachLastStep ==
    ASSUME NEW R, NEW D, Reach(R, D)
    PROVE  \A t \in Task : \A u \in R[t] : u \in D[t] \/ \E x \in R[t] : u \in D[x]
<1> DEFINE G == {t \in Task : \A u \in R[t] : u \in D[t] \/ \E x \in R[t] : u \in D[x]}
<1>1. ASSUME NEW t \in Task, \A u \in Task : t < u => u \in G PROVE t \in G
  <2> SUFFICES ASSUME NEW u \in R[t], u \notin D[t] PROVE \E x \in R[t] : u \in D[x]
    OBVIOUS
  <2>1. PICK x \in D[t] : u \in R[x]
    BY ReachUnfolds
  <2>2. x \in Task /\ t < x /\ x \in R[t] /\ R[x] \subseteq R[t]
    BY ReachUnfolds
  <2>3. u \in D[x] \/ \E y \in R[x] : u \in D[y]
    BY <1>1, <2>1, <2>2
  <2> QED BY <2>2, <2>3
<1> HIDE DEF G
<1>2. \A t \in Task : t \in G
  BY <1>1, FromTheLast
<1> QED BY <1>2 DEF G

(* A barrier that is not awaited any more came from nowhere another path   *)
(* does not come from.                                                     *)
LEMMA PathsWithOptimizedConsumers ==
    ASSUME NEW p, Ordered(p), NEW q, q = OptimizedConsumers(p)
    PROVE  BarrierControlMap(q) = BarrierControlMap(p)
<1> DEFINE B == BarrierControlMap(p)
           Q == BarrierControlMap(q)
           D == Steps(p)
           E == Steps(q)
<1>1. Ordered(q) /\ q.posts = p.posts
  BY OptimizedConsumersIs
<1>2. Reach(B, D) /\ Reach(Q, E)
  BY <1>1, BarrierReach
<1>3. \A t \in Task : q.waits[t] = p.waits[t] \ UNION {Awaited(p)[s] : s \in Back(p)[t]}
  BY OptimizedConsumersIs
<1>4. \A t, u \in Task : /\ u \in D[t] <=> p.posts[t] \cap p.waits[u] # {}
                         /\ u \in E[t] <=> p.posts[t] \cap q.waits[u] # {}
  BY <1>1 DEF Steps, BarrierSuccessors, Consumers
<1>5. \A t \in Task : \A v \in p.posts[t] : t \in Producers(p, v)
  BY DEF Producers
<1>6. \A t \in Task : \A v \in Awaited(p)[t] : \A s \in Producers(p, v) : t \in B[s]
  BY AwaitedBefore
<1>7. \A t \in Task : \A s \in Back(p)[t] : s \in Task /\ s < t /\ t \in D[s]
  BY AwaitedGathers
<1> HIDE DEF B, Q, D, E
<1>8. \A t \in Task : E[t] \subseteq D[t] /\ D[t] \subseteq Task /\ D[t] \subseteq B[t]
                      /\ E[t] \subseteq Q[t]
  <2>1. \A t \in Task : D[t] \subseteq Task /\ E[t] \subseteq Task
    BY <1>2 DEF Reach
  <2>2. \A t \in Task : q.waits[t] \subseteq p.waits[t]
    BY <1>3
  <2> QED BY <1>2, <1>4, <2>1, <2>2, ReachUnfolds
<1>9. \A t \in Task : E[t] \subseteq B[t]
  BY <1>8
<1> DEFINE G == {u \in Task : \A t \in Task : u \in B[t] => u \in Q[t]}
<1>10. ASSUME NEW u \in Task, \A x \in Task : x < u => x \in G PROVE u \in G
  <2>1. \A x, t \in Task : x < u /\ x \in B[t] => x \in Q[t]
    BY <1>10
  \* A step over a barrier that u does not await any more is a path before a
  \* later step.
  <2> DEFINE N == {t \in Task : u \in D[t] => u \in Q[t]}
  <2>2. ASSUME NEW t \in Task, \A x \in Task : t < x => x \in N PROVE t \in N
    <3> SUFFICES ASSUME u \in D[t] PROVE u \in Q[t]
      OBVIOUS
    <3>1. PICK v : v \in p.posts[t] \cap p.waits[u]
      BY <1>4
    <3>2. CASE v \in q.waits[u]
      BY <1>4, <1>8, <3>1, <3>2
    <3>3. CASE v \notin q.waits[u]
      <4>1. PICK x \in Back(p)[u] : v \in Awaited(p)[x]
        BY <1>3, <3>1, <3>3
      <4>2. x \in Task /\ x < u /\ u \in D[x]
        BY <1>7
      <4>3. x \in B[t]
        BY <1>5, <1>6, <3>1, <4>1, <4>2
      <4>4. t < x
        BY <1>2, <4>3, ReachLater
      <4>5. u \in Q[x]
        BY <2>2, <4>2, <4>4
      <4>6. x \in Q[t]
        BY <2>1, <4>2, <4>3
      <4> QED BY <1>2, <4>5, <4>6, ReachTransitive
    <3> QED BY <3>2, <3>3
  <2> HIDE DEF N
  <2>3. \A t \in Task : t \in N
    BY <2>2, FromTheLast
  <2>4. \A t \in Task : u \in D[t] => u \in Q[t]
    BY <2>3 DEF N
  <2>5. ASSUME NEW t \in Task, u \in B[t] PROVE u \in Q[t]
    <3>1. CASE u \in D[t]
      BY <2>4, <3>1
    <3>2. ASSUME NEW x \in B[t], u \in D[x] PROVE u \in Q[t]
      <4>1. x \in Task
        BY <1>2, ReachLater
      <4>2. x < u
        BY <1>2, <3>2, <4>1, ReachUnfolds
      <4>3. x \in Q[t] /\ u \in Q[x]
        BY <2>1, <2>4, <3>2, <4>1, <4>2
      <4> QED BY <1>2, <4>3, ReachTransitive
    <3> QED BY <1>2, <2>5, <3>1, <3>2, ReachLastStep
  <2> QED BY <2>5
<1> HIDE DEF G
<1>11. \A u \in Task : u \in G
  BY <1>10, FromTheFirst
<1>12. \A t \in Task : D[t] \subseteq Q[t]
  BY <1>8, <1>11 DEF G
<1>13. B = Q
  BY <1>2, <1>9, <1>12, ReachSame
<1> QED BY <1>13 DEF B, Q

\* The first consumer of a barrier keeps it.
LEMMA ConsumersRemain ==
    ASSUME NEW p, Ordered(p), NEW q, q = OptimizedConsumers(p), NEW v
    PROVE  /\ Consumers(q, v) \subseteq Consumers(p, v)
           /\ Consumers(p, v) # {} => Consumers(q, v) # {}
<1>1. \A t \in Task : q.waits[t] = p.waits[t] \ UNION {Awaited(p)[s] : s \in Back(p)[t]}
  BY OptimizedConsumersIs
<1>2. Consumers(q, v) \subseteq Consumers(p, v)
  BY <1>1 DEF Consumers
<1>3. ASSUME Consumers(p, v) # {} PROVE Consumers(q, v) # {}
  <2> DEFINE S == Consumers(p, v)
  <2>1. S \in SUBSET Nat /\ S # {}
    BY <1>3 DEF Consumers, Task
  <2>2. \E t \in S : \A s \in S : t <= s
    <3> HIDE DEF S
    <3> QED BY ONLY <2>1, LeastElement
  <2>3. PICK t \in S : \A s \in S : t <= s
    BY <2>2
  <2>4. t \in Task /\ v \in p.waits[t]
    BY <2>3 DEF Consumers
  <2>5. ASSUME NEW u \in Back(p)[t], v \in Awaited(p)[u] PROVE FALSE
    <3>1. u \in Task /\ u < t
      BY <2>4, AwaitedGathers
    <3>2. PICK s \in Task : s <= u /\ v \in p.waits[s]
      BY <2>5, <3>1, AwaitedBefore
    <3>3. t <= s
      BY <2>3, <3>2 DEF Consumers
    <3> QED BY <2>4, <3>1, <3>2, <3>3 DEF Task
  <2>6. v \in q.waits[t]
    BY <1>1, <2>4, <2>5
  <2> QED BY <2>4, <2>6 DEF Consumers
<1> QED BY <1>2, <1>3
-----------------------------------------------------------------------------
(* optimizeBarriers.                                                       *)

\* The function between the optimizations.
LEMMA OptimizationStages ==
    ASSUME NEW p, IsProgram(p), Ordered(p),
           NEW q1, q1 = WithFifoDependencies(p), NEW q2, q2 = OptimizedProducers(q1),
           NEW q3, q3 = MergedSameProducers(q2), NEW q4, q4 = OptimizedConsumers(q3)
    PROVE  /\ q4 = WithAllOptimizations(p)
           /\ Ordered(q1) /\ Ordered(q2) /\ Ordered(q3) /\ Ordered(q4)
           /\ q4.fifo = p.fifo /\ q4.count = p.count
           /\ q1.bars = p.bars + Cardinality(Heads(p))
           /\ q2.bars = q1.bars /\ q3.bars = q1.bars /\ q4.bars = q1.bars
           /\ BarrierControlMap(q4) = TaskControlMap(p)
<1>1. Sound(p)
  BY DEF Sound, Ordered
<1>2. q4 = WithAllOptimizations(p)
  BY DEF WithAllOptimizations
<1>3. /\ Ordered(q1) /\ BarrierControlMap(q1) = TaskControlMap(p)
      /\ q1.fifo = p.fifo /\ q1.count = p.count /\ q1.bars = p.bars + Cardinality(Heads(p))
  BY <1>1, WithFifoDependenciesOrdered, PathsWithFifoDependencies, WithFifoDependenciesIs
<1>4. /\ Ordered(q2) /\ BarrierControlMap(q2) = BarrierControlMap(q1)
      /\ q2.fifo = q1.fifo /\ q2.count = q1.count /\ q2.bars = q1.bars
  BY <1>3, OptimizedProducersIs, PathsWithOptimizedProducers
<1>5. /\ Ordered(q3) /\ BarrierControlMap(q3) = BarrierControlMap(q2)
      /\ q3.fifo = q2.fifo /\ q3.count = q2.count /\ q3.bars = q2.bars
  BY <1>4, MergedSameProducersIs, PathsMerged
<1>6. /\ Ordered(q4) /\ BarrierControlMap(q4) = BarrierControlMap(q3)
      /\ q4.fifo = q3.fifo /\ q4.count = q3.count /\ q4.bars = q3.bars
  BY <1>5, OptimizedConsumersIs, PathsWithOptimizedConsumers
<1> QED BY <1>2, <1>3, <1>4, <1>5, <1>6

(* What is left of a barrier for a queue is between the two neighbours it  *)
(* was made for, and the only barrier there.                               *)
LEMMA FifoBarriersAlone ==
    ASSUME NEW p, IsProgram(p), Ordered(p), NEW q, q = WithAllOptimizations(p),
           NEW v \in p.bars + 1 .. q.bars, NEW t \in Producers(q, v), NEW u \in Consumers(q, v)
    PROVE  u \in NextInQueue(p, t) /\ q.posts[t] \cap q.waits[u] = {v}
<1>1. PICK q1 : q1 = WithFifoDependencies(p)
  OBVIOUS
<1>2. PICK q2 : q2 = OptimizedProducers(q1)
  OBVIOUS
<1>3. PICK q3 : q3 = MergedSameProducers(q2)
  OBVIOUS
<1>4. q = OptimizedConsumers(q3)
  BY <1>1, <1>2, <1>3 DEF WithAllOptimizations
<1>5. Ordered(q1) /\ Ordered(q2) /\ Ordered(q3) /\ Ordered(q)
  BY <1>1, <1>2, <1>3, <1>4, OptimizationStages
<1>6. t \in Task /\ u \in Task /\ v \in q.posts[t] \cap q.waits[u]
  BY DEF Producers, Consumers
<1>7. q.posts[t] = q3.posts[t] /\ q.waits[u] \subseteq q3.waits[u]
  BY <1>4, <1>5, <1>6, OptimizedConsumersIs
<1>8. q2.posts[t] \subseteq q1.posts[t] /\ q2.waits[u] = q1.waits[u]
  BY <1>2, <1>5, <1>6, OptimizedProducersIs
\* A barrier of both is one that a barrier they had has been merged into.
<1>9. ASSUME NEW w \in q.posts[t] \cap q.waits[u]
      PROVE  \E x : /\ x \in Barriers(q2) /\ x \in q1.posts[t] \cap q1.waits[u]
                    /\ MergedInto(q2, x) = w
  <2>1. \E x \in q2.posts[t] \cap q2.waits[u] : MergedInto(q2, x) = w
    BY <1>3, <1>5, <1>6, <1>7, <1>9, SharedMerged
  <2>2. q2.posts[t] \subseteq Barriers(q2)
    BY <1>5, <1>6 DEF Ordered
  <2> QED BY <1>8, <2>1, <2>2
<1>10. PICK x : x \in Barriers(q2) /\ x \in q1.posts[t] \cap q1.waits[u] /\ MergedInto(q2, x) = v
  BY <1>6, <1>9
\* It is no old one, as it comes after the new one.
<1>11. x \notin p.posts[t]
  <2>1. v <= x
    BY <1>5, <1>10, MergedIntoIs
  <2>2. p.bars \in Nat /\ p.posts[t] \subseteq 1 .. p.bars
    BY <1>6 DEF Ordered, Barriers
  <2>3. x \in Nat /\ v > p.bars
    BY <1>5, <1>10, <2>2 DEF Ordered, Barriers
  <2> QED BY <2>1, <2>2, <2>3
<1>12. u \in NextInQueue(p, t) /\ x = NewBarrier(p, t)
  BY <1>1, <1>6, <1>10, <1>11, SharedBarriers
<1>13. p.posts[t] \cap p.waits[u] = {}
  BY <1>12 DEF NextInQueue
<1>14. ASSUME NEW w \in q.posts[t] \cap q.waits[u] PROVE w = v
  <2>1. PICK y : y \in q1.posts[t] \cap q1.waits[u] /\ MergedInto(q2, y) = w
    BY <1>9
  <2>2. y = NewBarrier(p, t)
    BY <1>1, <1>6, <1>13, <2>1, SharedBarriers
  <2> QED BY <1>10, <1>12, <2>1, <2>2
<1> QED BY <1>6, <1>12, <1>14

\* Optimizing takes neither all producers nor all consumers from a barrier and
\* leaves it the others.
LEMMA PairedOptimized ==
    ASSUME NEW p, IsProgram(p), Ordered(p), Paired(p), NEW q, q = WithAllOptimizations(p)
    PROVE  Paired(q)
<1>1. PICK q1 : q1 = WithFifoDependencies(p)
  OBVIOUS
<1>2. PICK q2 : q2 = OptimizedProducers(q1)
  OBVIOUS
<1>3. PICK q3 : q3 = MergedSameProducers(q2)
  OBVIOUS
<1>4. q = OptimizedConsumers(q3)
  BY <1>1, <1>2, <1>3 DEF WithAllOptimizations
<1>5. /\ Ordered(q1) /\ Ordered(q2) /\ Ordered(q3)
      /\ q2.bars = q1.bars /\ q.bars = q3.bars
  BY <1>1, <1>2, <1>3, <1>4, OptimizationStages
<1>6. Paired(q1)
  <2> SUFFICES ASSUME NEW v \in Barriers(q1) PROVE Producers(q1, v) = {} <=> Consumers(q1, v) = {}
    BY DEF Paired
  <2>1. \A t \in Task : v \in q1.posts[t] <=>
            v \in p.posts[t] \/ (t \in Heads(p) /\ v = NewBarrier(p, t))
    BY <1>1, WithFifoDependenciesIs
  <2>2. \A u \in Task : v \in q1.waits[u] <=>
            v \in p.waits[u] \/ \E s \in Heads(p) : u \in NextInQueue(p, s) /\ v = NewBarrier(p, s)
    BY <1>1, WithFifoDependenciesIs
  <2>3. \A s \in Heads(p) : s \in Task /\ \E u \in Task : u \in NextInQueue(p, s)
    BY DEF Heads, NextInQueue
  <2>4. (\E t \in Task : v \in p.posts[t]) <=> (\E u \in Task : v \in p.waits[u])
    <3>1. CASE v \in Barriers(p)
      BY <3>1 DEF Paired, Producers, Consumers
    <3>2. CASE v \notin Barriers(p)
      BY <3>2 DEF Ordered
    <3> QED BY <3>1, <3>2
  <2>5. (\E t \in Task : v \in q1.posts[t]) <=> (\E u \in Task : v \in q1.waits[u])
    BY <2>1, <2>2, <2>3, <2>4
  <2> QED BY <2>5 DEF Producers, Consumers
<1>7. Paired(q2)
  <2> SUFFICES ASSUME NEW v \in Barriers(q2) PROVE Producers(q2, v) = {} <=> Consumers(q2, v) = {}
    BY DEF Paired
  <2>1. Producers(q1, v) = {} <=> Consumers(q1, v) = {}
    BY <1>5, <1>6 DEF Paired, Barriers
  <2>2. Consumers(q2, v) = Consumers(q1, v)
    BY <1>2, <1>5, OptimizedProducersIs DEF Consumers
  <2>3. Producers(q2, v) = {} <=> Producers(q1, v) = {}
    BY <1>2, <1>5, ProducersRemain
  <2> QED BY <2>1, <2>2, <2>3
<1>8. Paired(q3)
  BY <1>3, <1>5, <1>7, PairedMerged
<1> SUFFICES ASSUME NEW v \in Barriers(q) PROVE Producers(q, v) = {} <=> Consumers(q, v) = {}
  BY DEF Paired
<1>9. Producers(q3, v) = {} <=> Consumers(q3, v) = {}
  BY <1>5, <1>8 DEF Paired, Barriers
<1>10. Producers(q, v) = Producers(q3, v)
  BY <1>4, <1>5, OptimizedConsumersIs DEF Producers
<1>11. Consumers(q, v) = {} <=> Consumers(q3, v) = {}
  BY <1>4, <1>5, ConsumersRemain
<1> QED BY <1>9, <1>10, <1>11

(* removeBarrierDependenciesImpliedByFIFO finds every barrier for a queue  *)
(* unused or alone between its two tasks: optimizeBarriers does not throw. *)
THEOREM FifoDependenciesGo ==
    ASSUME NEW p, IsProgram(p), Ordered(p), Paired(p)
    PROVE  FifoDependenciesRemovable(p)
<1> DEFINE q == WithAllOptimizations(p)
<1>1. Ordered(q) /\ Paired(q)
  BY OptimizationStages, PairedOptimized
<1>2. \A v \in p.bars + 1 .. q.bars : v \in Barriers(q)
  BY <1>1 DEF Barriers, Ordered
<1>3. \A v \in p.bars + 1 .. q.bars : Producers(q, v) = {} <=> Consumers(q, v) = {}
  BY <1>1, <1>2 DEF Paired
<1>4. \A v \in p.bars + 1 .. q.bars : \A t \in Producers(q, v), u \in Consumers(q, v) :
          q.posts[t] \cap q.waits[u] = {v}
  BY FifoBarriersAlone
<1> QED BY <1>3, <1>4 DEF FifoDependenciesRemovable
\* What the optimized function looks like.
LEMMA OptimizedIs ==
    ASSUME NEW p, IsProgram(p), Ordered(p), NEW q, q = WithAllOptimizations(p),
           NEW o, o = optimizeBarriers(p)
    PROVE  /\ o.fifo = p.fifo /\ o.count = p.count /\ o.bars = p.bars
           /\ \A t \in Task : /\ o.posts[t] = q.posts[t] \ (p.bars + 1 .. q.bars)
                              /\ o.waits[t] = q.waits[t] \ (p.bars + 1 .. q.bars)
           /\ IsProgram(o) /\ Ordered(o)
<1> DEFINE N == p.bars + 1 .. q.bars
           posts == [t \in Task |-> q.posts[t] \ N]
           waits == [t \in Task |-> q.waits[t] \ N]
           n == p.bars
<1>1. /\ Ordered(q) /\ q.fifo = p.fifo /\ q.count = p.count
      /\ q.bars = p.bars + Cardinality(Heads(p))
  BY OptimizationStages
<1>2. o = [[q EXCEPT !.posts = posts, !.waits = waits] EXCEPT !.bars = n]
  BY DEF optimizeBarriers, WithoutBarriers
<1>3. q = [fifo |-> q.fifo, waits |-> q.waits, posts |-> q.posts, count |-> q.count,
           bars |-> q.bars]
  BY <1>1 DEF Ordered
<1>4. /\ posts = [t \in Task |-> posts[t]] /\ waits = [t \in Task |-> waits[t]]
      /\ \A t \in Task : posts[t] = q.posts[t] \ N /\ waits[t] = q.waits[t] \ N
  OBVIOUS
<1>5. \A t \in Task : posts[t] \subseteq 1 .. n /\ waits[t] \subseteq 1 .. n
  <2>1. n \in Nat /\ q.bars \in Nat
    BY <1>1 DEF Ordered
  <2>2. \A t \in Task : q.posts[t] \subseteq 1 .. q.bars /\ q.waits[t] \subseteq 1 .. q.bars
    BY <1>1 DEF Ordered, Barriers
  <2>3. \A v \in 1 .. q.bars : v \in N \/ v \in 1 .. n
    BY <2>1
  <2> HIDE DEF N, n, posts, waits
  <2> QED BY <1>4, <2>2, <2>3
<1> HIDE DEF posts, waits, n
<1>6. o = [fifo |-> q.fifo, waits |-> waits, posts |-> posts, count |-> q.count, bars |-> n]
  BY <1>2, <1>3
<1>7. /\ o.fifo = p.fifo /\ o.count = p.count /\ o.bars = p.bars
      /\ o.posts = posts /\ o.waits = waits
  BY <1>1, <1>6 DEF n
<1>8. n \in 0 .. FinalBarrier /\ n \in Nat /\ 1 .. n \subseteq Vid /\ 1 .. n \subseteq Nat
  <2>1. n \in 0 .. FinalBarrier /\ FinalBarrier \in Nat
    BY SizeAssumption DEF IsProgram, n, FinalBarrier
  <2> QED BY <2>1 DEF Vid
<1>9. /\ posts \in [Task -> SUBSET Vid] /\ waits \in [Task -> SUBSET Vid]
      /\ posts \in [Task -> SUBSET Nat] /\ waits \in [Task -> SUBSET Nat]
  BY <1>4, <1>5, <1>8
<1>10. q.fifo \in [Task -> Fifo] /\ q.count \in [Task -> Nat \ {0}]
  BY <1>1 DEF Ordered
<1>11. IsProgram(o)
  BY <1>6, <1>8, <1>9, <1>10 DEF IsProgram
<1>12. Ordered(o)
  <2>1. o \in [fifo : [Task -> Fifo], waits : [Task -> SUBSET Nat], posts : [Task -> SUBSET Nat],
               count : [Task -> Nat \ {0}], bars : Nat]
    BY <1>6, <1>8, <1>9, <1>10
  <2>2. \A t \in Task : o.waits[t] \cup o.posts[t] \subseteq Barriers(o)
    BY <1>5, <1>7 DEF Barriers, n
  <2>3. \A t, u \in Task : o.posts[t] \cap o.waits[u] # {} => t < u
    <3>1. \A t, u \in Task : q.posts[t] \cap q.waits[u] # {} => t < u
      BY <1>1 DEF Ordered
    <3> QED BY <1>4, <1>7, <3>1
  <2> QED BY <2>1, <2>2, <2>3 DEF Ordered
<1> QED BY <1>4, <1>7, <1>11, <1>12

(* optimizeBarriers takes barriers away and keeps every control path, and  *)
(* adds none: its function has the control map it had.                     *)
THEOREM OptimizedControl ==
    ASSUME NEW p, IsProgram(p), Ordered(p)
    PROVE  TaskControlMap(optimizeBarriers(p)) = TaskControlMap(p)
<1>1. PICK q : q = WithAllOptimizations(p)
  OBVIOUS
<1>2. PICK o : o = optimizeBarriers(p)
  OBVIOUS
<1> DEFINE M == TaskControlMap(p)
           O == TaskControlMap(o)
           D == StepsWithFifos(p)
           E == StepsWithFifos(o)
           F == Steps(q)
           N == p.bars + 1 .. q.bars
<1>3. /\ o.fifo = p.fifo
      /\ \A t \in Task : o.posts[t] = q.posts[t] \ N /\ o.waits[t] = q.waits[t] \ N
      /\ Sound(p) /\ Sound(o)
  BY <1>1, <1>2, OptimizedIs DEF Sound, Ordered
<1>4. Ordered(q) /\ BarrierControlMap(q) = M
  BY <1>1, OptimizationStages
<1>5. Reach(M, D) /\ Reach(O, E) /\ Reach(M, F)
  BY <1>3, <1>4, TaskReach, BarrierReach
<1> DEFINE Queued(t) == {u \in Task : u > t /\ p.fifo[u] = p.fifo[t] /\ p.fifo[t] \in DmaFifos}
<1>6. \A t \in Task : D[t] = Steps(p)[t] \cup Queued(t) /\ E[t] = Steps(o)[t] \cup Queued(t)
  BY <1>3 DEF StepsWithFifos, Steps, DirectSuccessors
<1>7. \A t, u \in Task : /\ u \in F[t] <=> q.posts[t] \cap q.waits[u] # {}
                         /\ u \in Steps(o)[t] <=> o.posts[t] \cap o.waits[u] # {}
  BY DEF Steps, BarrierSuccessors, Consumers
<1>8. \A t \in Task : F[t] \subseteq Task /\ Steps(o)[t] \subseteq Task
  BY DEF Steps, BarrierSuccessors, Consumers
<1>9. ASSUME NEW t \in Task, NEW u \in Task, NEW v \in q.posts[t] \cap q.waits[u], v \in N
      PROVE  u \in Queued(t)
  <2>1. t \in Producers(q, v) /\ u \in Consumers(q, v)
    BY DEF Producers, Consumers
  <2>2. u \in NextInQueue(p, t)
    BY <1>1, <1>9, <2>1, FifoBarriersAlone
  <2> QED BY <2>2 DEF NextInQueue
<1> HIDE DEF M, O, D, E, F, N, Queued
<1>10. \A t \in Task : F[t] \subseteq E[t]
  <2> SUFFICES ASSUME NEW t \in Task, NEW u \in F[t] PROVE u \in E[t]
    OBVIOUS
  <2>1. u \in Task
    BY <1>8
  <2>2. PICK v : v \in q.posts[t] \cap q.waits[u]
    BY <1>7, <2>1
  <2>3. CASE v \in N
    BY <1>6, <1>9, <2>1, <2>2, <2>3
  <2>4. CASE v \notin N
    <3>1. v \in o.posts[t] \cap o.waits[u]
      BY <1>3, <2>1, <2>2, <2>4
    <3> QED BY <1>6, <1>7, <2>1, <3>1
  <2> QED BY <2>3, <2>4
<1>11. \A t \in Task : Steps(o)[t] \subseteq F[t]
  <2> SUFFICES ASSUME NEW t \in Task, NEW u \in Steps(o)[t] PROVE u \in F[t]
    OBVIOUS
  <2>1. u \in Task
    BY <1>8
  <2>2. q.posts[t] \cap q.waits[u] # {}
    BY <1>3, <1>7, <2>1
  <2> QED BY <1>7, <2>1, <2>2
<1>12. \A t \in Task : E[t] \subseteq M[t]
  <2>1. \A t \in Task : D[t] \subseteq M[t] /\ F[t] \subseteq M[t]
    BY <1>5, ReachUnfolds
  <2> QED BY <1>6, <1>11, <2>1
<1>13. \A t \in Task : F[t] \subseteq O[t]
  <2>1. \A t \in Task : E[t] \subseteq O[t]
    BY <1>5, ReachUnfolds
  <2> QED BY <1>10, <2>1
<1>14. O = M
  BY <1>5, <1>12, <1>13, ReachSame
<1> QED BY <1>2, <1>14 DEF O, M

(* The barriers that are left are declared, lead to later tasks and have   *)
(* producers and consumers, or neither.                                    *)
THEOREM OptimizedSound ==
    ASSUME NEW p, IsProgram(p), Ordered(p), Paired(p)
    PROVE  /\ IsProgram(optimizeBarriers(p))
           /\ Ordered(optimizeBarriers(p))
           /\ Paired(optimizeBarriers(p))
<1>1. PICK q : q = WithAllOptimizations(p)
  OBVIOUS
<1>2. PICK o : o = optimizeBarriers(p)
  OBVIOUS
<1>3. IsProgram(o) /\ Ordered(o)
  BY <1>1, <1>2, OptimizedIs
<1>4. Paired(o)
  <2> SUFFICES ASSUME NEW v \in Barriers(o) PROVE Producers(o, v) = {} <=> Consumers(o, v) = {}
    BY DEF Paired
  <2>1. /\ o.bars = p.bars
        /\ \A t \in Task : /\ o.posts[t] = q.posts[t] \ (p.bars + 1 .. q.bars)
                           /\ o.waits[t] = q.waits[t] \ (p.bars + 1 .. q.bars)
    BY <1>1, <1>2, OptimizedIs
  <2>2. p.bars \in Nat /\ v \in 1 .. p.bars
    BY <2>1 DEF Ordered, Barriers
  <2>3. v \notin p.bars + 1 .. q.bars
    BY <2>2
  <2>4. Producers(o, v) = Producers(q, v) /\ Consumers(o, v) = Consumers(q, v)
    BY <2>1, <2>3 DEF Producers, Consumers
  <2>5. v \in Barriers(q)
    <3>1. q.bars = p.bars + Cardinality(Heads(p)) /\ Cardinality(Heads(p)) \in Nat
      BY <1>1, OptimizationStages, NewBarriers
    <3> DEFINE c == Cardinality(Heads(p))
    <3> HIDE DEF c
    <3>2. q.bars = p.bars + c /\ c \in Nat
      BY <3>1 DEF c
    <3> QED BY <2>2, <3>2 DEF Barriers
  <2>6. Paired(q)
    BY <1>1, PairedOptimized
  <2> QED BY <2>4, <2>5, <2>6 DEF Paired
<1> QED BY <1>2, <1>3, <1>4
=============================================================================
