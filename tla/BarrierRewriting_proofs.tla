----------------------- MODULE BarrierRewriting_proofs ----------------------
(***************************************************************************)
(* What the passes do to barriers, on functions of any size: splitting a   *)
(* barrier with too many slots, sharing wait and update barriers along a   *)
(* queue, giving a task one wait barrier and linearizing batches of tasks  *)
(* each leave a function in which every barrier leads to later tasks, none *)
(* is half used, and a task that had to wait for another still has to.     *)
(***************************************************************************)
EXTENDS BarrierInfo_proofs, SequenceTheorems

-----------------------------------------------------------------------------
(* Rewritings.                                                             *)

(* Every task in S comes before every task in U.                           *)
InFront(S, U) == \A s \in S, u \in U : s < u

(* What a rewriting has to do: task t still runs before task u if barriers *)
(* ordered them, and no barrier is half used or leads back.                *)
Keeps(p, q) ==
    /\ Ordered(q) /\ Paired(q)
    /\ q.fifo = p.fifo /\ q.count = p.count
    /\ \A t \in Task : BarrierControlMap(p)[t] \subseteq BarrierControlMap(q)[t]

(* The records that describe functions.                                    *)
Shape == [fifo : [Task -> Fifo], waits : [Task -> SUBSET Nat], posts : [Task -> SUBSET Nat],
          count : [Task -> Nat \ {0}], bars : Nat]

\* The control map with FIFOs is closed under its direct successors.
LEMMA ControlReach ==
    ASSUME NEW p, Ordered(p)
    PROVE  Reach(TaskControlMap(p), StepsWithFifos(p))
<1> DEFINE S(f) == f = [t \in Task |-> DirectSuccessors(p, t)
                                       \cup UNION {f[u] : u \in DirectSuccessors(p, t)}]
<1>1. /\ StepsWithFifos(p) \in [Task -> SUBSET Task]
      /\ \A t \in Task : \A u \in StepsWithFifos(p)[t] : t < u
  BY DEF StepsWithFifos, DirectSuccessors, BarrierSuccessors, Consumers, Ordered
<1>2. \E f : Gathers(f, StepsWithFifos(p), StepsWithFifos(p))
  BY <1>1, Gathered
<1>3. \A f : Gathers(f, StepsWithFifos(p), StepsWithFifos(p)) <=> S(f)
  BY DEF Gathers, StepsWithFifos
<1>4. TaskControlMap(p) = CHOOSE f : S(f)
  BY DEF TaskControlMap
<1> HIDE DEF S
<1>5. S(TaskControlMap(p))
  BY <1>2, <1>3, <1>4
<1> QED BY <1>1, <1>3, <1>5 DEF Reach

\* A barrier is a step from its producers to its consumers.
LEMMA StepIs ==
    ASSUME NEW p, Ordered(p), NEW t \in Task
    PROVE  /\ Steps(p)[t] \subseteq Task
           /\ \A u \in Task : u \in Steps(p)[t] <=> \E v : v \in p.posts[t] /\ v \in p.waits[u]
BY DEF Steps, BarrierSuccessors, Consumers

\* Paths start with steps and go on.
LEMMA PathsGoOn ==
    ASSUME NEW p, Ordered(p), NEW t \in Task
    PROVE  /\ BarrierControlMap(p)[t] \subseteq Task
           /\ Steps(p)[t] \subseteq BarrierControlMap(p)[t]
           /\ \A x \in BarrierControlMap(p)[t] : BarrierControlMap(p)[x] \subseteq BarrierControlMap(p)[t]
<1>1. Reach(BarrierControlMap(p), Steps(p))
  BY BarrierReach
<1> QED BY <1>1, ReachUnfolds, ReachLater, ReachTransitive

\* It is enough that the steps are kept as paths.
LEMMA KeepsBySteps ==
    ASSUME NEW p, Ordered(p), NEW q, Ordered(q), Paired(q), q.fifo = p.fifo, q.count = p.count,
           \A t \in Task : Steps(p)[t] \subseteq BarrierControlMap(q)[t]
    PROVE  Keeps(p, q)
<1>1. Reach(BarrierControlMap(p), Steps(p)) /\ Reach(BarrierControlMap(q), Steps(q))
  BY BarrierReach
<1> QED BY <1>1, ReachWithin DEF Keeps

\* A function keeps itself.
LEMMA KeepsItself == ASSUME NEW p, Ordered(p), Paired(p) PROVE Keeps(p, p)
BY DEF Keeps

\* Rewritings can follow one another.
LEMMA KeepsTransitive ==
    ASSUME NEW p, NEW q, NEW r, Keeps(p, q), Keeps(q, r)
    PROVE  Keeps(p, r)
BY DEF Keeps

\* What barriers and FIFOs order is kept with what barriers order.
LEMMA KeepsControl ==
    ASSUME NEW p, Ordered(p), NEW q, Keeps(p, q)
    PROVE  \A t \in Task : TaskControlMap(p)[t] \subseteq TaskControlMap(q)[t]
<1>1. Reach(TaskControlMap(p), StepsWithFifos(p)) /\ Reach(TaskControlMap(q), StepsWithFifos(q))
  BY ControlReach DEF Keeps
<1>2. Reach(BarrierControlMap(q), Steps(q)) /\ Reach(BarrierControlMap(p), Steps(p))
  BY BarrierReach DEF Keeps
<1>3. \A t \in Task : BarrierControlMap(q)[t] \subseteq TaskControlMap(q)[t]
  <2>1. \A t \in Task : Steps(q)[t] \subseteq TaskControlMap(q)[t]
    <3>1. \A t \in Task : Steps(q)[t] \subseteq StepsWithFifos(q)[t]
      BY DEF Steps, StepsWithFifos, DirectSuccessors
    <3>2. \A t \in Task : StepsWithFifos(q)[t] \subseteq TaskControlMap(q)[t]
      BY <1>1, ReachUnfolds
    <3> QED BY <3>1, <3>2
  <2> QED BY <1>1, <1>2, <2>1, ReachWithin
<1>4. \A t \in Task : StepsWithFifos(p)[t] \subseteq TaskControlMap(q)[t]
  <2> SUFFICES ASSUME NEW t \in Task, NEW u \in StepsWithFifos(p)[t] PROVE u \in TaskControlMap(q)[t]
    OBVIOUS
  <2>1. CASE u \in Steps(p)[t]
    <3>1. u \in BarrierControlMap(p)[t]
      BY <2>1, PathsGoOn
    <3> QED BY <3>1, <1>3 DEF Keeps
  <2>2. CASE u \notin Steps(p)[t]
    <3>1. u \in StepsWithFifos(q)[t]
      BY <2>2 DEF StepsWithFifos, Steps, DirectSuccessors, Keeps
    <3> QED BY <3>1, <1>1, ReachUnfolds
  <2> QED BY <2>1, <2>2
<1> QED BY <1>1, <1>4, ReachWithin

-----------------------------------------------------------------------------
(* Barriers that are added, linked and taken away.                         *)

\* The users of new barriers are those given, of others as before.
LEMMA WithBarriersIs ==
    ASSUME NEW p, Ordered(p), NEW P \in Seq(SUBSET Task), NEW C \in Seq(SUBSET Task), Len(C) = Len(P),
           NEW q, q = WithBarriers(p, P, C)
    PROVE  /\ q \in Shape /\ q.fifo = p.fifo /\ q.count = p.count /\ q.bars = p.bars + Len(P)
           /\ \A t \in Task : q.waits[t] \cup q.posts[t] \subseteq Barriers(q)
           /\ \A t \in Task : \A v : v \in q.posts[t] <=>
                  v \in p.posts[t] \/ \E j \in 1 .. Len(P) : t \in P[j] /\ v = p.bars + j
           /\ \A t \in Task : \A v : v \in q.waits[t] <=>
                  v \in p.waits[t] \/ \E j \in 1 .. Len(P) : t \in C[j] /\ v = p.bars + j
           /\ \A v \in Barriers(p) : Producers(q, v) = Producers(p, v) /\ Consumers(q, v) = Consumers(p, v)
           /\ \A j \in 1 .. Len(P) : Producers(q, p.bars + j) = P[j] /\ Consumers(q, p.bars + j) = C[j]
<1>1. p.bars \in Nat /\ Len(P) \in Nat /\ DOMAIN P = 1 .. Len(P) /\ DOMAIN C = 1 .. Len(P)
      /\ \A j \in 1 .. Len(P) : P[j] \subseteq Task /\ C[j] \subseteq Task
  BY DEF Ordered
<1>2. /\ p.posts \in [Task -> SUBSET Nat] /\ p.waits \in [Task -> SUBSET Nat]
      /\ \A t \in Task : p.posts[t] \subseteq 1 .. p.bars /\ p.waits[t] \subseteq 1 .. p.bars
  BY DEF Ordered, Barriers
<1>3. /\ q.fifo = p.fifo /\ q.count = p.count /\ q.bars = p.bars + Len(P)
      /\ q.posts = [t \in Task |-> p.posts[t] \cup {p.bars + i : i \in {j \in DOMAIN P : t \in P[j]}}]
      /\ q.waits = [t \in Task |-> p.waits[t] \cup {p.bars + i : i \in {j \in DOMAIN C : t \in C[j]}}]
      /\ q = [fifo |-> q.fifo, waits |-> q.waits, posts |-> q.posts, count |-> q.count, bars |-> q.bars]
  BY DEF WithBarriers, Ordered
<1>4. \A t \in Task : \A v : v \in q.posts[t] <=>
          v \in p.posts[t] \/ \E j \in 1 .. Len(P) : t \in P[j] /\ v = p.bars + j
  BY <1>1, <1>3
<1>5. \A t \in Task : \A v : v \in q.waits[t] <=>
          v \in p.waits[t] \/ \E j \in 1 .. Len(P) : t \in C[j] /\ v = p.bars + j
  BY <1>1, <1>3
<1>6. \A t \in Task : q.waits[t] \cup q.posts[t] \subseteq 1 .. q.bars
  BY <1>1, <1>2, <1>3, <1>4, <1>5
<1>7. q \in Shape
  <2>1. q.posts = [t \in Task |-> q.posts[t]] /\ q.waits = [t \in Task |-> q.waits[t]]
    BY <1>3
  <2>2. \A t \in Task : q.posts[t] \in SUBSET Nat /\ q.waits[t] \in SUBSET Nat
    BY <1>6
  <2>3. q.posts \in [Task -> SUBSET Nat] /\ q.waits \in [Task -> SUBSET Nat]
    BY ONLY <2>1, <2>2
  <2> QED BY <1>1, <1>3, <2>3 DEF Ordered, Shape
<1>8. \A v \in Barriers(p) : Producers(q, v) = Producers(p, v) /\ Consumers(q, v) = Consumers(p, v)
  BY <1>1, <1>4, <1>5 DEF Barriers, Producers, Consumers
<1>9. \A j \in 1 .. Len(P) : Producers(q, p.bars + j) = P[j] /\ Consumers(q, p.bars + j) = C[j]
  <2> SUFFICES ASSUME NEW j \in 1 .. Len(P)
               PROVE  Producers(q, p.bars + j) = P[j] /\ Consumers(q, p.bars + j) = C[j]
    OBVIOUS
  <2>1. \A t \in Task : p.bars + j \notin p.posts[t] /\ p.bars + j \notin p.waits[t]
    BY <1>1, <1>2
  <2>2. \A i \in 1 .. Len(P) : p.bars + j = p.bars + i => i = j
    BY <1>1
  <2> QED BY <1>1, <1>4, <1>5, <2>1, <2>2 DEF Producers, Consumers
<1> QED BY <1>3, <1>4, <1>5, <1>6, <1>7, <1>8, <1>9 DEF Barriers

\* New barriers between tasks that come in order do no harm.
LEMMA WithBarriersKeeps ==
    ASSUME NEW p, Ordered(p), Paired(p), NEW P \in Seq(SUBSET Task), NEW C \in Seq(SUBSET Task),
           Len(C) = Len(P), NEW q, q = WithBarriers(p, P, C),
           \A j \in 1 .. Len(P) : P[j] # {} /\ C[j] # {} /\ \A t \in P[j], u \in C[j] : t < u
    PROVE  Keeps(p, q)
<1>1. /\ q \in Shape /\ q.fifo = p.fifo /\ q.count = p.count /\ q.bars = p.bars + Len(P)
      /\ \A t \in Task : q.waits[t] \cup q.posts[t] \subseteq Barriers(q)
      /\ \A v \in Barriers(p) : Producers(q, v) = Producers(p, v) /\ Consumers(q, v) = Consumers(p, v)
      /\ \A j \in 1 .. Len(P) : Producers(q, p.bars + j) = P[j] /\ Consumers(q, p.bars + j) = C[j]
  BY WithBarriersIs
<1>2. p.bars \in Nat /\ Len(P) \in Nat
  BY DEF Ordered
<1>3. \A v \in Barriers(q) : v \in Barriers(p) \/ \E j \in 1 .. Len(P) : v = p.bars + j
  <2> SUFFICES ASSUME NEW v \in 1 .. p.bars + Len(P), ~(v \in 1 .. p.bars)
               PROVE  \E j \in 1 .. Len(P) : v = p.bars + j
    BY <1>1 DEF Barriers
  <2>1. v - p.bars \in 1 .. Len(P) /\ v = p.bars + (v - p.bars)
    BY <1>2
  <2> QED BY <2>1
<1>4. \A t, u \in Task : q.posts[t] \cap q.waits[u] # {} => t < u
  <2> SUFFICES ASSUME NEW t \in Task, NEW u \in Task, NEW v \in q.posts[t] \cap q.waits[u] PROVE t < u
    OBVIOUS
  <2>1. v \in Barriers(q) /\ t \in Producers(q, v) /\ u \in Consumers(q, v)
    BY <1>1 DEF Producers, Consumers
  <2>2. CASE v \in Barriers(p)
    <3>1. v \in p.posts[t] /\ v \in p.waits[u]
      BY <1>1, <2>1, <2>2 DEF Producers, Consumers
    <3> QED BY <3>1 DEF Ordered
  <2>3. CASE \E j \in 1 .. Len(P) : v = p.bars + j
    BY <1>1, <2>1, <2>3
  <2> QED BY <1>3, <2>1, <2>2, <2>3
<1>5. Ordered(q)
  BY <1>1, <1>4 DEF Ordered, Shape
<1>6. Paired(q)
  BY <1>1, <1>3 DEF Paired
<1>7. \A t \in Task : Steps(p)[t] \subseteq BarrierControlMap(q)[t]
  <2> SUFFICES ASSUME NEW t \in Task, NEW u \in Steps(p)[t] PROVE u \in Steps(q)[t]
    BY <1>5, PathsGoOn
  <2>1. u \in Task
    BY StepIs
  <2>2. PICK v : v \in p.posts[t] /\ v \in p.waits[u]
    BY <2>1, StepIs
  <2>3. v \in Barriers(p)
    BY <2>2 DEF Ordered
  <2>4. v \in q.posts[t] /\ v \in q.waits[u]
    BY <1>1, <2>1, <2>2, <2>3 DEF Producers, Consumers
  <2> QED BY <1>5, <2>1, <2>4, StepIs
<1> QED BY <1>1, <1>5, <1>6, <1>7, KeepsBySteps

\* A barrier that was reset is not used, others as before.
LEMMA WithoutBarriersIs ==
    ASSUME NEW p, Ordered(p), Paired(p), NEW S, NEW q, q = WithoutBarriers(p, S)
    PROVE  /\ q.fifo = p.fifo /\ q.count = p.count /\ q.bars = p.bars
           /\ \A t \in Task : q.posts[t] = p.posts[t] \ S /\ q.waits[t] = p.waits[t] \ S
           /\ Ordered(q) /\ Paired(q)
           /\ \A v : v \notin S => Producers(q, v) = Producers(p, v) /\ Consumers(q, v) = Consumers(p, v)
<1>1. /\ q.fifo = p.fifo /\ q.count = p.count /\ q.bars = p.bars
      /\ q.posts = [t \in Task |-> p.posts[t] \ S] /\ q.waits = [t \in Task |-> p.waits[t] \ S]
      /\ q = [fifo |-> q.fifo, waits |-> q.waits, posts |-> q.posts, count |-> q.count, bars |-> q.bars]
  BY DEF WithoutBarriers, Ordered
<1>2. \A t \in Task : p.posts[t] \subseteq Barriers(p) /\ p.waits[t] \subseteq Barriers(p)
      /\ p.posts[t] \subseteq Nat /\ p.waits[t] \subseteq Nat
  BY DEF Ordered
<1>3. q.posts \in [Task -> SUBSET Nat] /\ q.waits \in [Task -> SUBSET Nat]
  BY <1>1, <1>2
<1>4. Ordered(q)
  <2>1. \A t, u \in Task : q.posts[t] \cap q.waits[u] # {} => t < u
    BY <1>1 DEF Ordered
  <2>2. \A t \in Task : q.waits[t] \cup q.posts[t] \subseteq Barriers(q)
    BY <1>1, <1>2 DEF Barriers
  <2> QED BY <1>1, <1>3, <2>1, <2>2 DEF Ordered
<1>5. \A v : v \notin S => Producers(q, v) = Producers(p, v) /\ Consumers(q, v) = Consumers(p, v)
  BY <1>1 DEF Producers, Consumers
<1>6. \A v \in S : Producers(q, v) = {} /\ Consumers(q, v) = {}
  BY <1>1 DEF Producers, Consumers
<1>7. Paired(q)
  BY <1>1, <1>5, <1>6 DEF Paired, Barriers
<1> QED BY <1>1, <1>4, <1>5, <1>7

\* Barriers may go whose producers come before their consumers anyway.
LEMMA WithoutBarriersKeeps ==
    ASSUME NEW p, Ordered(p), Paired(p), NEW S, NEW q, q = WithoutBarriers(p, S),
           \A v \in S : \A t \in Producers(p, v), u \in Consumers(p, v) : u \in BarrierControlMap(q)[t]
    PROVE  Keeps(p, q)
<1>1. /\ q.fifo = p.fifo /\ q.count = p.count
      /\ \A t \in Task : q.posts[t] = p.posts[t] \ S /\ q.waits[t] = p.waits[t] \ S
      /\ Ordered(q) /\ Paired(q)
  BY WithoutBarriersIs
<1>2. \A t \in Task : Steps(p)[t] \subseteq BarrierControlMap(q)[t]
  <2> SUFFICES ASSUME NEW t \in Task, NEW u \in Steps(p)[t] PROVE u \in BarrierControlMap(q)[t]
    OBVIOUS
  <2>1. u \in Task
    BY StepIs
  <2>2. PICK v : v \in p.posts[t] /\ v \in p.waits[u]
    BY <2>1, StepIs
  <2>3. CASE v \in S
    BY <2>1, <2>2, <2>3 DEF Producers, Consumers
  <2>4. CASE v \notin S
    <3>1. u \in Steps(q)[t]
      BY <1>1, <2>1, <2>2, <2>4, StepIs
    <3> QED BY <1>1, <3>1, PathsGoOn
  <2> QED BY <2>3, <2>4
<1> QED BY <1>1, <1>2, KeepsBySteps

(* Barriers except v are used as before.                                   *)
OthersAlone(p, q, v) ==
    \A w \in Barriers(p) \ {v} : Producers(q, w) = Producers(p, w) /\ Consumers(q, w) = Consumers(p, w)

\* More tasks may use a barrier as long as they come in order.
LEMMA LinkedKeeps ==
    ASSUME NEW p, Ordered(p), Paired(p), NEW v \in Barriers(p),
           NEW P \in SUBSET Task, NEW C \in SUBSET Task,
           Producers(p, v) # {}, Consumers(p, v) # {},
           InFront(Producers(p, v) \cup P, Consumers(p, v) \cup C),
           NEW q, q = Linked(p, v, P, C)
    PROVE  Keeps(p, q) /\ q.bars = p.bars /\ OthersAlone(p, q, v)
<1>1. /\ q.fifo = p.fifo /\ q.count = p.count /\ q.bars = p.bars
      /\ q.posts = [t \in Task |-> IF t \in P THEN p.posts[t] \cup {v} ELSE p.posts[t]]
      /\ q.waits = [t \in Task |-> IF t \in C THEN p.waits[t] \cup {v} ELSE p.waits[t]]
      /\ q = [fifo |-> q.fifo, waits |-> q.waits, posts |-> q.posts, count |-> q.count, bars |-> q.bars]
  BY DEF Linked, Ordered
<1>2. v \in Nat /\ \A t \in Task : p.posts[t] \subseteq Barriers(p) /\ p.waits[t] \subseteq Barriers(p)
      /\ p.posts[t] \subseteq Nat /\ p.waits[t] \subseteq Nat
  BY DEF Ordered, Barriers
<1>3. q.posts \in [Task -> SUBSET Nat] /\ q.waits \in [Task -> SUBSET Nat]
  BY <1>1, <1>2
<1>4. \A w : w # v => Producers(q, w) = Producers(p, w) /\ Consumers(q, w) = Consumers(p, w)
  BY <1>1 DEF Producers, Consumers
<1>5. Producers(q, v) = Producers(p, v) \cup P /\ Consumers(q, v) = Consumers(p, v) \cup C
  BY <1>1 DEF Producers, Consumers
<1>6. \A t, u \in Task : q.posts[t] \cap q.waits[u] # {} => t < u
  <2> SUFFICES ASSUME NEW t \in Task, NEW u \in Task, NEW w \in q.posts[t] \cap q.waits[u] PROVE t < u
    OBVIOUS
  <2>1. t \in Producers(q, w) /\ u \in Consumers(q, w)
    BY DEF Producers, Consumers
  <2>2. CASE w = v
    BY <1>5, <2>1, <2>2 DEF InFront
  <2>3. CASE w # v
    <3>1. w \in p.posts[t] /\ w \in p.waits[u]
      BY <1>4, <2>1, <2>3 DEF Producers, Consumers
    <3> QED BY <3>1 DEF Ordered
  <2> QED BY <2>2, <2>3
<1>7. Ordered(q)
  <2>1. \A t \in Task : q.waits[t] \cup q.posts[t] \subseteq Barriers(q)
    BY <1>1, <1>2 DEF Barriers
  <2> QED BY <1>1, <1>3, <1>6, <2>1 DEF Ordered
<1>8. Paired(q)
  BY <1>1, <1>4, <1>5 DEF Paired, Barriers
<1>9. \A t \in Task : Steps(p)[t] \subseteq BarrierControlMap(q)[t]
  <2> SUFFICES ASSUME NEW t \in Task, NEW u \in Steps(p)[t] PROVE u \in Steps(q)[t]
    BY <1>7, PathsGoOn
  <2>1. u \in Task
    BY StepIs
  <2>2. PICK w : w \in p.posts[t] /\ w \in p.waits[u]
    BY <2>1, StepIs
  <2>4. w \in q.posts[t] /\ w \in q.waits[u]
    BY <1>1, <2>1, <2>2
  <2> QED BY <1>7, <2>1, <2>4, StepIs
<1>10. OthersAlone(p, q, v)
  BY <1>4 DEF OthersAlone
<1> QED BY <1>1, <1>7, <1>8, <1>9, <1>10, KeepsBySteps

-----------------------------------------------------------------------------
(* Loops: what every step keeps holds at the end.                          *)

(* The recursion of Iterate, for a step that is a function.                *)
Loops(f, n, base, step) == f = [i \in 0 .. n |-> IF i = 0 THEN base ELSE step[i][f[i - 1]]]

\* The recursion of Iterate has a solution, with values where the steps stay.
LEMMA LoopSolves ==
    ASSUME NEW n \in Nat, NEW T, NEW base \in T[0], NEW step,
           \A i \in 1 .. n : \A q \in T[i - 1] : step[i][q] \in T[i]
    PROVE  \E f : Loops(f, n, base, step) /\ \A i \in 0 .. n : f[i] \in T[i]
<1> DEFINE Solves(f, m) == /\ f = [i \in 0 .. m |-> IF i = 0 THEN base ELSE step[i][f[i - 1]]]
                           /\ \A i \in 0 .. m : f[i] \in T[i]
           Bad == {m \in 0 .. n : ~ \E f : Solves(f, m)}
<1> SUFFICES ASSUME Bad # {} PROVE FALSE
  <2>1. n \in 0 .. n
    OBVIOUS
  <2> QED BY <2>1 DEF Loops
<1>1. PICK m \in Bad : \A k \in Bad : m <= k
  <2>1. Bad \in SUBSET Nat
    OBVIOUS
  <2> HIDE DEF Bad
  <2> QED BY <2>1, LeastElement
<1>2. CASE m = 0
  <2> DEFINE f == [i \in 0 .. 0 |-> base]
  <2>1. f = [i \in 0 .. 0 |-> IF i = 0 THEN base ELSE step[i][f[i - 1]]]
    OBVIOUS
  <2>2. Solves(f, 0)
    BY <2>1
  <2> HIDE DEF f, Solves
  <2> QED BY <1>1, <1>2, <2>2
<1>3. CASE m # 0
  <2>1. m - 1 \in 0 .. n /\ m - 1 \notin Bad /\ m \in 1 .. n
    BY <1>1, <1>3
  <2>2. PICK f : Solves(f, m - 1)
    BY <2>1
  <2> DEFINE g == [i \in 0 .. m |-> IF i = m THEN step[m][f[m - 1]] ELSE f[i]]
  <2>3. \A i \in 0 .. m - 1 : g[i] = f[i]
    BY <2>1
  <2>4. g[m] = step[m][f[m - 1]] /\ g[m - 1] = f[m - 1]
    BY <2>1
  <2>5. \A i \in 0 .. m : g[i] = IF i = 0 THEN base ELSE step[i][g[i - 1]]
    <3> SUFFICES ASSUME NEW i \in 0 .. m PROVE g[i] = IF i = 0 THEN base ELSE step[i][g[i - 1]]
      OBVIOUS
    <3>1. CASE i = m
      BY <1>3, <2>4, <3>1
    <3>2. CASE i # m
      <4>1. i \in 0 .. m - 1 /\ (i # 0 => i - 1 \in 0 .. m - 1)
        BY <2>1, <3>2
      <4>2. f[i] = IF i = 0 THEN base ELSE step[i][f[i - 1]]
        BY <2>2, <4>1
      <4> QED BY <2>3, <4>1, <4>2
    <3> QED BY <3>1, <3>2
  <2>6. \A i \in 0 .. m : g[i] \in T[i]
    <3> SUFFICES ASSUME NEW i \in 0 .. m PROVE g[i] \in T[i]
      OBVIOUS
    <3>1. CASE i = m
      <4>1. f[m - 1] \in T[m - 1]
        BY <2>1, <2>2
      <4> QED BY <2>1, <2>4, <3>1, <4>1
    <3>2. CASE i # m
      <4>1. i \in 0 .. m - 1
        BY <2>1, <3>2
      <4> QED BY <2>2, <2>3, <4>1
    <3> QED BY <3>1, <3>2
  <2>7. g = [i \in 0 .. m |-> IF i = 0 THEN base ELSE step[i][g[i - 1]]]
    BY <2>5
  <2>8. Solves(g, m)
    BY <2>6, <2>7
  <2> HIDE DEF g, Solves
  <2> QED BY <1>1, <2>8
<1> QED BY <1>2, <1>3

\* Where the steps stay the values are.
LEMMA LoopStays ==
    ASSUME NEW n \in Nat, NEW T, NEW f, f[0] \in T[0],
           \A i \in 1 .. n : f[i - 1] \in T[i - 1] => f[i] \in T[i]
    PROVE  f[n] \in T[n]
<1> DEFINE Bad == {m \in 0 .. n : f[m] \notin T[m]}
<1> SUFFICES ASSUME Bad # {} PROVE FALSE
  OBVIOUS
<1>1. PICK m \in Bad : \A k \in Bad : m <= k
  <2>1. Bad \in SUBSET Nat
    OBVIOUS
  <2> HIDE DEF Bad
  <2> QED BY <2>1, LeastElement
<1>2. m # 0
  BY <1>1
<1>3. m \in 1 .. n /\ m - 1 \in 0 .. n /\ m - 1 \notin Bad
  BY <1>1, <1>2
<1> QED BY <1>1, <1>3

-----------------------------------------------------------------------------
(* Batches of tasks.                                                       *)

(* The tasks in S, some to each entry, earlier tasks in earlier entries.   *)
Parts(parts, S) ==
    /\ parts \in Seq(SUBSET Task) /\ Len(parts) >= 1
    /\ \A i \in 1 .. Len(parts) : parts[i] # {}
    /\ \A i, j \in 1 .. Len(parts) : i < j => \A t \in parts[i], u \in parts[j] : t < u
    /\ \A t : t \in S <=> \E i \in 1 .. Len(parts) : t \in parts[i]

(* No task alone uses too many slots.                                      *)
Fits(p) == \A t \in Task : p.count[t] <= AvailableSlots

\* There is a number of slots for one side of a barrier.
LEMMA AvailableSlotsType == AvailableSlots \in Nat
BY SlotAssumption DEF AvailableSlots

\* A task uses as many slots as it has variants.
LEMMA CountSlots ==
    ASSUME NEW c \in Nat \ {0}, NEW t
    PROVE  IsFiniteSet({t} \X (1 .. c)) /\ Cardinality({t} \X (1 .. c)) = c
<1>1. IsFiniteSet({t}) /\ Cardinality({t}) = 1
  BY FS_Singleton
<1>2. IsFiniteSet(1 .. c) /\ Cardinality(1 .. c) = IF 1 > c THEN 0 ELSE c - 1 + 1
  BY FS_Interval
<1>3. IsFiniteSet(1 .. c) /\ Cardinality(1 .. c) = c
  BY <1>2
<1> DEFINE A == {t}
           B == 1 .. c
<1>4. IsFiniteSet(A) /\ IsFiniteSet(B) /\ Cardinality(A) = 1 /\ Cardinality(B) = c
  BY <1>1, <1>3
<1> HIDE DEF A, B
<1>5. IsFiniteSet(A \X B) /\ Cardinality(A \X B) = Cardinality(A) * Cardinality(B)
  BY ONLY <1>4, FS_Product
<1>6. IsFiniteSet(A \X B) /\ Cardinality(A \X B) = c
  BY <1>4, <1>5
<1> QED BY <1>6 DEF A, B

\* One task takes as many slots as it has variants.
LEMMA SlotsOfOne ==
    ASSUME NEW p, Ordered(p), NEW t \in Task
    PROVE  SlotCount(p, {t}) = p.count[t]
<1>1. p.count[t] \in Nat \ {0}
  BY DEF Ordered
<1>2. Slots(p, {t}) = {t} \X (1 .. p.count[t])
  BY DEF Slots
<1> QED BY <1>1, <1>2, CountSlots DEF SlotCount

\* No tasks take no slots.
LEMMA SlotsOfNone == ASSUME NEW p PROVE SlotCount(p, {}) = 0
<1>1. Slots(p, {}) = {}
  BY DEF Slots
<1> QED BY <1>1, FS_EmptySet DEF SlotCount

\* A later task goes into the last batch or into a new one.
LEMMA BatchedParts ==
    ASSUME NEW p, NEW S, NEW parts, Parts(parts, S), NEW t \in Task, \A s \in S : s < t, NEW byKind
    PROVE  Parts(Batched(p, parts, t, byKind), S \cup {t})
<1> DEFINE n == Len(parts)
<1>1. /\ parts \in Seq(SUBSET Task) /\ n \in Nat /\ n >= 1
      /\ \A i \in 1 .. n : parts[i] # {}
      /\ \A i, j \in 1 .. n : i < j => \A s \in parts[i], u \in parts[j] : s < u
      /\ \A s : s \in S <=> \E i \in 1 .. n : s \in parts[i]
  BY DEF Parts
<1>2. \A i \in 1 .. n : parts[i] \in SUBSET Task /\ \A s \in parts[i] : s < t
  BY <1>1
<1>3. ASSUME NEW r, r = [parts EXCEPT ![n] = parts[n] \cup {t}] PROVE Parts(r, S \cup {t})
  <2>1. n \in 1 .. n /\ parts[n] \cup {t} \in SUBSET Task
    BY <1>1, <1>2
  <2>2. r \in Seq(SUBSET Task) /\ Len(r) = n
    BY <1>1, <1>3, <2>1
  <2>3. \A i \in 1 .. n : r[i] = IF i = n THEN parts[n] \cup {t} ELSE parts[i]
    BY <1>1, <1>3
  <2> HIDE DEF n
  <2>4. \A i, j \in 1 .. n : i < j => \A s \in r[i], u \in r[j] : s < u
    BY <1>1, <1>2, <2>3
  <2>5. \A i \in 1 .. n : r[i] # {}
    BY <1>1, <2>3
  <2>6. \A s : s \in S \cup {t} <=> \E i \in 1 .. n : s \in r[i]
    BY <1>1, <2>1, <2>3
  <2> QED BY <1>1, <2>2, <2>4, <2>5, <2>6 DEF Parts
<1>4. ASSUME NEW r, r = Append(parts, {t}) PROVE Parts(r, S \cup {t})
  <2>2. r \in Seq(SUBSET Task) /\ Len(r) = n + 1
    BY <1>1, <1>4
  <2>3. \A i \in 1 .. n + 1 : r[i] = IF i = n + 1 THEN {t} ELSE parts[i]
    BY <1>1, <1>4
  <2> HIDE DEF n
  <2>4. \A i, j \in 1 .. n + 1 : i < j => \A s \in r[i], u \in r[j] : s < u
    BY <1>1, <1>2, <2>3
  <2>5. ASSUME NEW i \in 1 .. n + 1 PROVE r[i] # {}
    <3>1. CASE i = n + 1
      BY <2>3, <3>1
    <3>2. CASE i # n + 1
      <4>1. i \in 1 .. n /\ r[i] = parts[i]
        BY <1>1, <2>3, <3>2
      <4> QED BY <1>1, <4>1
    <3> QED BY <3>1, <3>2
  <2>6. \A s : s \in S \cup {t} <=> \E i \in 1 .. n + 1 : s \in r[i]
    <3>1. 1 .. n + 1 = (1 .. n) \cup {n + 1} /\ n + 1 \notin 1 .. n
      BY <1>1
    <3> QED BY <1>1, <2>3, <3>1
  <2> QED BY <1>1, <2>2, <2>4, <2>5, <2>6 DEF Parts
<1> QED BY <1>3, <1>4 DEF Batched

\* The first task fits into the empty batch.
LEMMA FirstBatched ==
    ASSUME NEW p, Ordered(p), Fits(p), NEW t \in Task, NEW byKind
    PROVE  Parts(Batched(p, <<{}>>, t, byKind), {t})
<1>1. Len(<<{}>>) = 1 /\ <<{}>>[1] = {} /\ {} \cup {t} = {t}
  OBVIOUS
<1>2. SlotCount(p, {t}) <= AvailableSlots
  BY SlotsOfOne DEF Fits
<1>3. Batched(p, <<{}>>, t, byKind) = [<<{}>> EXCEPT ![1] = {t}]
  BY <1>1, <1>2 DEF Batched
<1>4. [<<{}>> EXCEPT ![1] = {t}] = <<{t}>>
  OBVIOUS
<1> DEFINE r == <<{t}>>
<1>5. r \in Seq(SUBSET Task) /\ Len(r) = 1 /\ r[1] = {t}
  OBVIOUS
<1> HIDE DEF r
<1>6. Parts(r, {t})
  BY <1>5 DEF Parts
<1> QED BY <1>3, <1>4, <1>6 DEF r

\* createLegalVariantBatches distributes the tasks in their order.
LEMMA LegalBatches ==
    ASSUME NEW p, Ordered(p), Fits(p), NEW tasks \in SUBSET Task, tasks # {}, NEW byKind
    PROVE  Parts(LegalVariantBatches(p, tasks, byKind), tasks)
<1> DEFINE base == <<{}>>
           n == Cardinality(tasks)
           w == Increasing(tasks)
           S(i) == {w[k] : k \in 1 .. i}
           T == [i \in 0 .. n |-> IF i = 0 THEN {<<{}>>} ELSE {b \in Seq(SUBSET Task) : Parts(b, S(i))}]
           step == [i \in 1 .. n |-> [b \in T[i - 1] |-> Batched(p, b, w[i], byKind)]]
           f == CHOOSE g : g = [i \in 0 .. n |-> IF i = 0 THEN base ELSE Batched(p, g[i - 1], w[i], byKind)]
<1>1. IsFiniteSet(tasks) /\ tasks \in SUBSET Nat
  BY TasksFinite DEF Task
<1>2. /\ n \in Nat /\ \A i \in 1 .. n : w[i] \in tasks /\ Rank(tasks, w[i]) = i - 1
      /\ \A x \in tasks : Rank(tasks, x) + 1 \in 1 .. n /\ w[Rank(tasks, x) + 1] = x
  BY <1>1, IncreasingOrders
<1>0. n \in Nat
  BY <1>2
<1>3. \A i, j \in 1 .. n : i < j => w[i] < w[j]
  <2> SUFFICES ASSUME NEW i \in 1 .. n, NEW j \in 1 .. n, i < j, ~(w[i] < w[j]) PROVE FALSE
    OBVIOUS
  <2>1. w[i] \in tasks /\ w[j] \in tasks /\ w[i] \in Nat /\ w[j] \in Nat
        /\ Rank(tasks, w[i]) = i - 1 /\ Rank(tasks, w[j]) = j - 1
    BY <1>1, <1>2
  <2>2. w[j] < w[i] \/ w[j] = w[i]
    BY <2>1
  <2>3. w[j] # w[i]
    BY <1>2, <2>1
  <2>4. Rank(tasks, w[j]) < Rank(tasks, w[i])
    BY <1>1, <2>1, <2>2, <2>3, RankGrows
  <2> QED BY <1>2, <2>1, <2>4
<1>4. \A i \in 1 .. n : \A b \in T[i - 1] : Batched(p, b, w[i], byKind) \in T[i]
  <2> SUFFICES ASSUME NEW i \in 1 .. n, NEW b \in T[i - 1] PROVE Batched(p, b, w[i], byKind) \in T[i]
    OBVIOUS
  <2>1. w[i] \in Task /\ i \in 0 .. n /\ i - 1 \in 0 .. n /\ i # 0
    BY <1>2
  <2>2. Parts(Batched(p, b, w[i], byKind), S(i))
    <3>1. CASE i = 1
      <4>1. b = <<{}>> /\ S(1) = {w[1]}
        BY <2>1, <3>1
      <4> HIDE DEF w, T, S
      <4> QED BY <2>1, <3>1, <4>1, FirstBatched
    <3>2. CASE i # 1
      <4>1. Parts(b, S(i - 1))
        BY <2>1, <3>2
      <4>2. \A s \in S(i - 1) : s < w[i]
        <5>1. \A k \in 1 .. i - 1 : w[k] < w[i]
          BY <1>2, <1>3
        <5> QED BY <5>1
      <4>3. S(i) = S(i - 1) \cup {w[i]}
        <5>1. 1 .. i = (1 .. i - 1) \cup {i}
          BY <1>2
        <5> QED BY <5>1
      <4> HIDE DEF w, T, S
      <4> QED BY <2>1, <4>1, <4>2, <4>3, BatchedParts
    <3> QED BY <3>1, <3>2
  <2>3. Batched(p, b, w[i], byKind) \in Seq(SUBSET Task)
    BY <2>2 DEF Parts
  <2> HIDE DEF S, w
  <2> QED BY <2>1, <2>2, <2>3
<1>5. \E g : g = [i \in 0 .. n |-> IF i = 0 THEN base ELSE Batched(p, g[i - 1], w[i], byKind)]
  <2>1. base \in T[0]
    BY <1>0
  <2>2. \A i \in 1 .. n : \A b \in T[i - 1] : step[i][b] = Batched(p, b, w[i], byKind)
    OBVIOUS
  <2>3. \A i \in 1 .. n : \A b \in T[i - 1] : step[i][b] \in T[i]
    BY <1>4, <2>2
  <2> HIDE DEF T, step, w, n, base
  <2>4. PICK g : Loops(g, n, base, step) /\ \A i \in 0 .. n : g[i] \in T[i]
    BY ONLY <1>0, <2>1, <2>3, LoopSolves
  <2>5. \A i \in 1 .. n : g[i - 1] \in T[i - 1] /\ step[i][g[i - 1]] = Batched(p, g[i - 1], w[i], byKind)
    BY <1>0, <2>2, <2>4
  <2> QED BY <1>0, <2>4, <2>5 DEF Loops
<1>6. f = [i \in 0 .. n |-> IF i = 0 THEN base ELSE Batched(p, f[i - 1], w[i], byKind)]
  BY <1>5
<1>7. LegalVariantBatches(p, tasks, byKind) = f[n]
  BY DEF LegalVariantBatches, Iterate
<1>8. f[n] \in T[n]
  <2>1. T[0] = {<<{}>>}
    BY <1>2
  <2>2. f[0] \in T[0]
    <3> HIDE DEF f
    <3> QED BY <1>0, <1>6, <2>1
  <2> HIDE DEF f, T, w, n, base
  <2>3. \A i \in 1 .. n : f[i] = Batched(p, f[i - 1], w[i], byKind)
    BY ONLY <1>0, <1>6
  <2>4. \A i \in 1 .. n : f[i - 1] \in T[i - 1] => f[i] \in T[i]
    BY <1>4, <2>3
  <2> QED BY ONLY <1>0, <2>2, <2>4, LoopStays
<1>9. n # 0
  BY <1>1, FS_EmptySet
<1>10. Parts(f[n], S(n))
  BY <1>2, <1>8, <1>9
<1>11. S(n) = tasks
  BY <1>2
<1> QED BY <1>7, <1>10, <1>11

-----------------------------------------------------------------------------
(* One barrier replaced by others.                                         *)

(* q orders what p orders and has its barriers, and perhaps more.          *)
Grows(p, q) == Keeps(p, q) /\ p.bars <= q.bars

\* A function grows from itself.
LEMMA GrowsItself == ASSUME NEW p, Ordered(p), Paired(p) PROVE Grows(p, p)
BY KeepsItself DEF Grows, Ordered

\* Rewritings that add barriers can follow one another.
LEMMA GrowsTransitive ==
    ASSUME NEW p, Ordered(p), NEW q, NEW r, Grows(p, q), Grows(q, r)
    PROVE  Grows(p, r)
<1>1. Keeps(p, q) /\ Keeps(q, r) /\ p.bars <= q.bars /\ q.bars <= r.bars
  BY DEF Grows
<1>2. p.bars \in Nat /\ q.bars \in Nat /\ r.bars \in Nat
  BY <1>1 DEF Keeps, Ordered
<1> QED BY <1>1, <1>2, KeepsTransitive DEF Grows

\* Tasks need no more slots than before.
LEMMA FitsKept == ASSUME NEW p, NEW q, Keeps(p, q), Fits(p) PROVE Fits(q)
BY DEF Keeps, Fits

(* What new barriers are for: tasks in order.                              *)
Links(P, C) ==
    /\ P \in Seq(SUBSET Task) /\ C \in Seq(SUBSET Task) /\ Len(C) = Len(P)
    /\ \A j \in 1 .. Len(P) : P[j] # {} /\ C[j] # {} /\ \A t \in P[j], u \in C[j] : t < u

(* There is a path for each of them.                                       *)
Linking(q, P, C) == \A j \in 1 .. Len(P) : \A t \in P[j], u \in C[j] : u \in BarrierControlMap(q)[t]

(* And for each pair of tasks that use barrier v.                          *)
Bridged(q, p, v) == \A t \in Producers(p, v), u \in Consumers(p, v) : u \in BarrierControlMap(q)[t]

\* The new barriers order what they are for, and the others are left alone.
LEMMA Replaced ==
    ASSUME NEW p, Ordered(p), Paired(p), NEW P, NEW C, Links(P, C), NEW v \in Barriers(p),
           NEW r, r = WithBarriers(p, P, C), NEW S, S = {v}, NEW q, q = WithoutBarriers(r, S)
    PROVE  /\ Ordered(q) /\ Paired(q) /\ OthersAlone(p, q, v) /\ Linking(q, P, C)
           /\ Bridged(q, p, v) => Grows(p, q)
<1>0. /\ P \in Seq(SUBSET Task) /\ C \in Seq(SUBSET Task) /\ Len(C) = Len(P)
      /\ \A j \in 1 .. Len(P) : P[j] # {} /\ C[j] # {} /\ \A t \in P[j], u \in C[j] : t < u
  BY DEF Links
<1>1. /\ r.bars = p.bars + Len(P)
      /\ \A w \in Barriers(p) : Producers(r, w) = Producers(p, w) /\ Consumers(r, w) = Consumers(p, w)
      /\ \A j \in 1 .. Len(P) : Producers(r, p.bars + j) = P[j] /\ Consumers(r, p.bars + j) = C[j]
  BY <1>0, WithBarriersIs
<1>2. Keeps(p, r)
  BY <1>0, WithBarriersKeeps
<1>3. Ordered(r) /\ Paired(r)
  BY <1>2 DEF Keeps
<1>4. q = WithoutBarriers(r, S) /\ \A w : w \in S <=> w = v
  OBVIOUS
<1>5. /\ q.bars = r.bars /\ Ordered(q) /\ Paired(q)
      /\ \A w : w \notin S => Producers(q, w) = Producers(r, w) /\ Consumers(q, w) = Consumers(r, w)
  BY ONLY <1>3, <1>4, WithoutBarriersIs
<1>6. p.bars \in Nat /\ v \in 1 .. p.bars /\ Len(P) \in Nat
  BY <1>0 DEF Ordered, Barriers
<1>7. OthersAlone(p, q, v)
  BY <1>1, <1>4, <1>5 DEF OthersAlone
<1>8. ASSUME NEW j \in 1 .. Len(P), NEW t \in P[j], NEW u \in C[j] PROVE u \in BarrierControlMap(q)[t]
  <2>0. P[j] \subseteq Task /\ C[j] \subseteq Task
    BY <1>0
  <2>1. p.bars + j # v
    BY <1>6
  <2>2. t \in Producers(q, p.bars + j) /\ u \in Consumers(q, p.bars + j)
    BY <1>1, <1>4, <1>5, <2>1
  <2>3. t \in Task /\ u \in Task /\ u \in Steps(q)[t]
    BY <1>5, <2>2, StepIs DEF Producers, Consumers
  <2> QED BY <1>5, <2>3, PathsGoOn
<1>9. ASSUME Bridged(q, p, v) PROVE Grows(p, q)
  <2>1. \A w \in S : \A t \in Producers(r, w), u \in Consumers(r, w) : u \in BarrierControlMap(q)[t]
    BY <1>1, <1>4, <1>9 DEF Bridged
  <2>2. Keeps(r, q)
    BY ONLY <1>3, <1>4, <2>1, WithoutBarriersKeeps
  <2>3. p.bars <= q.bars
    BY <1>1, <1>5, <1>6
  <2> QED BY <1>2, <2>2, <2>3, KeepsTransitive DEF Grows
<1> QED BY <1>5, <1>7, <1>8, <1>9 DEF Linking

\* Along a chain of steps there are paths from each set to each later one.
LEMMA ChainPaths ==
    ASSUME NEW q, Ordered(q), NEW sets \in Seq(SUBSET Task), \A i \in 1 .. Len(sets) : sets[i] # {},
           \A i \in 1 .. Len(sets) - 1 : \A t \in sets[i], u \in sets[i + 1] : u \in BarrierControlMap(q)[t]
    PROVE  \A i, j \in 1 .. Len(sets) : i < j =>
               \A t \in sets[i], u \in sets[j] : u \in BarrierControlMap(q)[t]
<1> SUFFICES ASSUME NEW i \in 1 .. Len(sets), NEW t \in sets[i]
             PROVE  \A j \in i + 1 .. Len(sets) : \A u \in sets[j] : u \in BarrierControlMap(q)[t]
  OBVIOUS
<1> DEFINE Bad == {j \in i + 1 .. Len(sets) : ~ \A u \in sets[j] : u \in BarrierControlMap(q)[t]}
<1> SUFFICES ASSUME Bad # {} PROVE FALSE
  OBVIOUS
<1>1. PICK j \in Bad : \A k \in Bad : j <= k
  <2>1. Bad \in SUBSET Nat
    OBVIOUS
  <2> HIDE DEF Bad
  <2> QED BY <2>1, LeastElement
<1>2. PICK u \in sets[j] : u \notin BarrierControlMap(q)[t]
  BY <1>1
<1>3. t \in Task /\ Len(sets) \in Nat
  OBVIOUS
<1>4. CASE j = i + 1
  <2>1. i \in 1 .. Len(sets) - 1
    BY <1>1, <1>3, <1>4
  <2> QED BY <1>2, <1>4, <2>1
<1>5. CASE j # i + 1
  <2>1. j - 1 \in i + 1 .. Len(sets) /\ j - 1 \in 1 .. Len(sets) - 1 /\ j - 1 + 1 = j
    BY <1>1, <1>3, <1>5
  <2>2. j - 1 \notin Bad
    BY <1>1, <2>1
  <2>3. PICK x \in sets[j - 1] : x \in BarrierControlMap(q)[t]
    BY <2>1, <2>2, <1>3
  <2>4. u \in BarrierControlMap(q)[x]
    BY <1>2, <2>1
  <2> QED BY <1>2, <1>3, <2>3, <2>4, PathsGoOn
<1> QED BY <1>4, <1>5

\* A chain of barriers may replace one between tasks it leads past.
LEMMA ChainReplaces ==
    ASSUME NEW p, Ordered(p), Paired(p), NEW sets, NEW S, Parts(sets, S), NEW v \in Barriers(p),
           \A t \in Producers(p, v), u \in Consumers(p, v) :
               \E i, j \in 1 .. Len(sets) : i < j /\ t \in sets[i] /\ u \in sets[j],
           NEW q, q = WithoutBarriers(Chained(p, sets), {v})
    PROVE  Grows(p, q) /\ OthersAlone(p, q, v)
<1> DEFINE n == Len(sets) - 1
           P == [i \in 1 .. n |-> sets[i]]
           C == [i \in 1 .. n |-> sets[i + 1]]
<1>0. Ordered(p) /\ Paired(p) /\ v \in Barriers(p)
  OBVIOUS
<1>1. /\ sets \in Seq(SUBSET Task) /\ n \in Nat /\ Len(sets) = n + 1
      /\ \A i \in 1 .. n + 1 : sets[i] # {} /\ sets[i] \in SUBSET Task
      /\ \A i, j \in 1 .. n + 1 : i < j => \A t \in sets[i], u \in sets[j] : t < u
  BY DEF Parts
<1> HIDE DEF n
<1>2. /\ P \in Seq(SUBSET Task) /\ C \in Seq(SUBSET Task) /\ Len(P) = n /\ Len(C) = n
      /\ \A j \in 1 .. n : P[j] = sets[j] /\ C[j] = sets[j + 1]
  BY <1>1
<1> DEFINE r == WithBarriers(p, P, C)
           W == {v}
<1>3. q = WithoutBarriers(r, W) /\ r = WithBarriers(p, P, C) /\ W = {v} /\ Len(C) = Len(P)
  BY <1>2 DEF Chained, n
<1>4. Links(P, C)
  BY <1>1, <1>2 DEF Links
<1> HIDE DEF P, C, r, W
<1>5. Ordered(q) /\ OthersAlone(p, q, v) /\ Linking(q, P, C) /\ (Bridged(q, p, v) => Grows(p, q))
  BY ONLY <1>0, <1>3, <1>4, Replaced
<1>6. \A i, j \in 1 .. n + 1 : i < j =>
          \A t \in sets[i], u \in sets[j] : u \in BarrierControlMap(q)[t]
  <2>1. \A i \in 1 .. n : \A t \in sets[i], u \in sets[i + 1] : u \in BarrierControlMap(q)[t]
    BY <1>2, <1>5 DEF Linking
  <2>2. Len(sets) - 1 = n
    BY <1>1
  <2> QED BY <1>1, <1>5, <2>1, <2>2, ChainPaths
<1>7. Bridged(q, p, v)
  BY <1>1, <1>6 DEF Bridged
<1> QED BY <1>5, <1>7

-----------------------------------------------------------------------------
(* splitBarriersWithExceedingVariantCount.                                 *)

\* A barrier that is to be split is used.
LEMMA IllegalIsUsed ==
    ASSUME NEW p, NEW v, NEW S, ~LegalSide(p, v, S)
    PROVE  S # {}
BY SlotsOfNone, AvailableSlotsType DEF LegalSide

\* One barrier of splitBarriersWithExceedingVariantCount, its producers.
LEMMA ProducersSplitGrows ==
    ASSUME NEW p, Ordered(p), Paired(p), Fits(p), NEW v \in Barriers(p)
    PROVE  Grows(p, ProducersSplit(p, v))
<1> DEFINE P == LegalVariantBatches(p, Producers(p, v), FALSE)
           C == [i \in DOMAIN P |-> Consumers(p, v)]
<1>0. Ordered(p) /\ Paired(p) /\ v \in Barriers(p)
  OBVIOUS
<1>1. CASE LegalSide(p, v, Producers(p, v))
  BY <1>1, GrowsItself DEF ProducersSplit
<1>2. CASE ~LegalSide(p, v, Producers(p, v))
  <2>1. Producers(p, v) # {} /\ Consumers(p, v) # {} /\ Producers(p, v) \in SUBSET Task
        /\ Consumers(p, v) \in SUBSET Task
    BY <1>2, IllegalIsUsed DEF Paired, Producers, Consumers
  <2>2. Parts(P, Producers(p, v))
    BY <2>1, LegalBatches
  <2> DEFINE q == ProducersSplit(p, v)
  <2> DEFINE r == WithBarriers(p, P, C)
             W == {v}
  <2>3. q = WithoutBarriers(r, W) /\ r = WithBarriers(p, P, C) /\ W = {v}
    BY <1>2 DEF ProducersSplit
  <2> HIDE DEF P
  <2>4. P \in Seq(SUBSET Task) /\ DOMAIN P = 1 .. Len(P) /\ Len(P) \in Nat
        /\ \A i \in 1 .. Len(P) : P[i] # {}
    BY <2>2 DEF Parts
  <2>10. \A x \in Producers(p, v) : \E i \in 1 .. Len(P) : x \in P[i]
    BY <2>2 DEF Parts
  <2>11. \A i \in 1 .. Len(P) : P[i] \subseteq Producers(p, v)
    BY <2>2 DEF Parts
  <2>5. C \in Seq(SUBSET Task) /\ Len(C) = Len(P) /\ \A j \in 1 .. Len(P) : C[j] = Consumers(p, v)
    BY <2>1, <2>4
  <2>6. \A t \in Producers(p, v), u \in Consumers(p, v) : t < u
    BY DEF Ordered, Producers, Consumers
  <2>7. Links(P, C)
    BY <2>1, <2>4, <2>5, <2>6, <2>11 DEF Links
  <2> HIDE DEF C, q, r, W
  <2>8. Linking(q, P, C) /\ (Bridged(q, p, v) => Grows(p, q))
    BY ONLY <1>0, <2>3, <2>7, Replaced
  <2>9. ASSUME NEW t \in Producers(p, v), NEW u \in Consumers(p, v) PROVE u \in BarrierControlMap(q)[t]
    <3>1. PICK j \in 1 .. Len(P) : t \in P[j]
      BY <2>10
    <3>2. j \in 1 .. Len(P) /\ t \in P[j] /\ u \in C[j]
      BY <2>5, <3>1
    <3> QED BY <2>8, <3>2 DEF Linking
  <2> QED BY <2>8, <2>9 DEF q, Bridged
<1> QED BY <1>1, <1>2

\* The same for its consumers.
LEMMA ConsumersSplitGrows ==
    ASSUME NEW p, Ordered(p), Paired(p), Fits(p), NEW v \in Barriers(p)
    PROVE  Grows(p, ConsumersSplit(p, v))
<1> DEFINE C == LegalVariantBatches(p, Consumers(p, v), FALSE)
           P == [i \in DOMAIN C |-> Producers(p, v)]
<1>0. Ordered(p) /\ Paired(p) /\ v \in Barriers(p)
  OBVIOUS
<1>1. CASE LegalSide(p, v, Consumers(p, v))
  BY <1>1, GrowsItself DEF ConsumersSplit
<1>2. CASE ~LegalSide(p, v, Consumers(p, v))
  <2>1. Producers(p, v) # {} /\ Consumers(p, v) # {} /\ Producers(p, v) \in SUBSET Task
        /\ Consumers(p, v) \in SUBSET Task
    BY <1>2, IllegalIsUsed DEF Paired, Producers, Consumers
  <2>2. Parts(C, Consumers(p, v))
    BY <2>1, LegalBatches
  <2> DEFINE q == ConsumersSplit(p, v)
  <2> DEFINE r == WithBarriers(p, P, C)
             W == {v}
  <2>3. q = WithoutBarriers(r, W) /\ r = WithBarriers(p, P, C) /\ W = {v}
    BY <1>2 DEF ConsumersSplit
  <2> HIDE DEF C
  <2>4. C \in Seq(SUBSET Task) /\ DOMAIN C = 1 .. Len(C) /\ Len(C) \in Nat
        /\ \A i \in 1 .. Len(C) : C[i] # {}
    BY <2>2 DEF Parts
  <2>10. \A x \in Consumers(p, v) : \E i \in 1 .. Len(C) : x \in C[i]
    BY <2>2 DEF Parts
  <2>11. \A i \in 1 .. Len(C) : C[i] \subseteq Consumers(p, v)
    BY <2>2 DEF Parts
  <2>5. P \in Seq(SUBSET Task) /\ Len(P) = Len(C) /\ \A j \in 1 .. Len(C) : P[j] = Producers(p, v)
    BY <2>1, <2>4
  <2>6. \A t \in Producers(p, v), u \in Consumers(p, v) : t < u
    BY DEF Ordered, Producers, Consumers
  <2>7. Links(P, C)
    BY <2>1, <2>4, <2>5, <2>6, <2>11 DEF Links
  <2> HIDE DEF P, q, r, W
  <2>8. Linking(q, P, C) /\ (Bridged(q, p, v) => Grows(p, q))
    BY ONLY <1>0, <2>3, <2>7, Replaced
  <2>9. ASSUME NEW t \in Producers(p, v), NEW u \in Consumers(p, v) PROVE u \in BarrierControlMap(q)[t]
    <3>1. PICK j \in 1 .. Len(C) : u \in C[j]
      BY <2>10
    <3>2. j \in 1 .. Len(P) /\ t \in P[j] /\ u \in C[j]
      BY <2>5, <3>1
    <3> QED BY <2>8, <3>2 DEF Linking
  <2> QED BY <2>8, <2>9 DEF q, Bridged
<1> QED BY <1>1, <1>2

\* What the loops keep of a function p.
LEMMA GrownIs ==
    ASSUME NEW p, Ordered(p), Paired(p), Fits(p), NEW q, Grows(p, q)
    PROVE  /\ q \in Shape /\ Ordered(q) /\ Paired(q) /\ Fits(q)
           /\ q.bars \in Nat /\ p.bars \in Nat /\ Barriers(p) \subseteq Barriers(q)
<1>1. Keeps(p, q) /\ p.bars <= q.bars
  BY DEF Grows
<1>2. Ordered(q) /\ Paired(q) /\ Fits(q)
  BY <1>1, FitsKept DEF Keeps
<1>3. q.bars \in Nat /\ p.bars \in Nat /\ q \in Shape
  BY <1>2 DEF Ordered, Shape
<1> QED BY <1>1, <1>2, <1>3 DEF Barriers

\* The first loop of splitBarriersWithExceedingVariantCount keeps the function in
\* order.
LEMMA SplitProducersGrows ==
    ASSUME NEW p, Ordered(p), Paired(p), Fits(p)
    PROVE  Grows(p, SplitProducers(p))
<1> DEFINE base == p
           n == p.bars
           T == [i \in 0 .. n |-> {q \in Shape : Grows(p, q)}]
           step == [i \in 1 .. n |-> [q \in T[i - 1] |-> ProducersSplit(q, i)]]
           f == CHOOSE g : g = [i \in 0 .. n |-> IF i = 0 THEN base ELSE ProducersSplit(g[i - 1], i)]
<1>1. n \in Nat
  BY DEF Ordered
<1>2. base \in T[0]
  <2>1. Grows(p, p)
    BY GrowsItself
  <2> QED BY <1>1, <2>1, GrownIs
<1>3. \A i \in 1 .. n : \A q \in T[i - 1] : ProducersSplit(q, i) \in T[i]
  <2> SUFFICES ASSUME NEW i \in 1 .. n, NEW q \in T[i - 1] PROVE ProducersSplit(q, i) \in T[i]
    OBVIOUS
  <2>1. Grows(p, q)
    BY <1>1
  <2>2. Ordered(q) /\ Paired(q) /\ Fits(q) /\ i \in Barriers(q)
    BY <2>1, GrownIs DEF Barriers
  <2>3. Grows(q, ProducersSplit(q, i))
    BY <2>2, ProducersSplitGrows
  <2>4. Grows(p, ProducersSplit(q, i))
    BY <2>1, <2>3, GrowsTransitive
  <2>5. ProducersSplit(q, i) \in Shape
    BY <2>4, GrownIs
  <2> QED BY <1>1, <2>4, <2>5
<1>4. \E g : g = [i \in 0 .. n |-> IF i = 0 THEN base ELSE ProducersSplit(g[i - 1], i)]
  <2>1. \A i \in 1 .. n : \A q \in T[i - 1] : step[i][q] = ProducersSplit(q, i)
    OBVIOUS
  <2> HIDE DEF step, base, n, T
  <2>2. \A i \in 1 .. n : \A q \in T[i - 1] : step[i][q] \in T[i]
    BY <1>3, <2>1
  <2>3. PICK g : Loops(g, n, base, step) /\ \A i \in 0 .. n : g[i] \in T[i]
    BY ONLY <1>1, <1>2, <2>2, LoopSolves
  <2>4. \A i \in 1 .. n : g[i - 1] \in T[i - 1] /\ step[i][g[i - 1]] = ProducersSplit(g[i - 1], i)
    BY <1>1, <2>1, <2>3
  <2>5. g = [i \in 0 .. n |-> IF i = 0 THEN base ELSE step[i][g[i - 1]]]
    BY <2>3 DEF Loops
  <2>6. \A i \in 0 .. n : i # 0 => i \in 1 .. n
    BY <1>1
  <2>7. \A i \in 0 .. n : i # 0 => step[i][g[i - 1]] = ProducersSplit(g[i - 1], i)
    BY <2>4, <2>6
  <2> QED BY <2>5, <2>7
<1>5. f = [i \in 0 .. n |-> IF i = 0 THEN base ELSE ProducersSplit(f[i - 1], i)]
  BY <1>4
<1>6. SplitProducers(p) = f[n]
  BY DEF SplitProducers, Iterate
<1>7. f[n] \in T[n]
  <2> HIDE DEF f, base, n, T
  <2>1. f[0] \in T[0]
    BY <1>1, <1>2, <1>5
  <2>2. \A i \in 1 .. n : f[i] = ProducersSplit(f[i - 1], i)
    BY ONLY <1>1, <1>5
  <2>3. \A i \in 1 .. n : f[i - 1] \in T[i - 1] => f[i] \in T[i]
    BY <1>3, <2>2
  <2> QED BY ONLY <1>1, <2>1, <2>3, LoopStays
<1> QED BY <1>1, <1>6, <1>7

\* So does the second.
LEMMA SplitConsumersGrows ==
    ASSUME NEW p, Ordered(p), Paired(p), Fits(p)
    PROVE  Grows(p, SplitConsumers(p))
<1> DEFINE base == p
           n == p.bars
           T == [i \in 0 .. n |-> {q \in Shape : Grows(p, q)}]
           step == [i \in 1 .. n |-> [q \in T[i - 1] |-> ConsumersSplit(q, i)]]
           f == CHOOSE g : g = [i \in 0 .. n |-> IF i = 0 THEN base ELSE ConsumersSplit(g[i - 1], i)]
<1>1. n \in Nat
  BY DEF Ordered
<1>2. base \in T[0]
  <2>1. Grows(p, p)
    BY GrowsItself
  <2> QED BY <1>1, <2>1, GrownIs
<1>3. \A i \in 1 .. n : \A q \in T[i - 1] : ConsumersSplit(q, i) \in T[i]
  <2> SUFFICES ASSUME NEW i \in 1 .. n, NEW q \in T[i - 1] PROVE ConsumersSplit(q, i) \in T[i]
    OBVIOUS
  <2>1. Grows(p, q)
    BY <1>1
  <2>2. Ordered(q) /\ Paired(q) /\ Fits(q) /\ i \in Barriers(q)
    BY <2>1, GrownIs DEF Barriers
  <2>3. Grows(q, ConsumersSplit(q, i))
    BY <2>2, ConsumersSplitGrows
  <2>4. Grows(p, ConsumersSplit(q, i))
    BY <2>1, <2>3, GrowsTransitive
  <2>5. ConsumersSplit(q, i) \in Shape
    BY <2>4, GrownIs
  <2> QED BY <1>1, <2>4, <2>5
<1>4. \E g : g = [i \in 0 .. n |-> IF i = 0 THEN base ELSE ConsumersSplit(g[i - 1], i)]
  <2>1. \A i \in 1 .. n : \A q \in T[i - 1] : step[i][q] = ConsumersSplit(q, i)
    OBVIOUS
  <2> HIDE DEF step, base, n, T
  <2>2. \A i \in 1 .. n : \A q \in T[i - 1] : step[i][q] \in T[i]
    BY <1>3, <2>1
  <2>3. PICK g : Loops(g, n, base, step) /\ \A i \in 0 .. n : g[i] \in T[i]
    BY ONLY <1>1, <1>2, <2>2, LoopSolves
  <2>4. \A i \in 1 .. n : g[i - 1] \in T[i - 1] /\ step[i][g[i - 1]] = ConsumersSplit(g[i - 1], i)
    BY <1>1, <2>1, <2>3
  <2>5. g = [i \in 0 .. n |-> IF i = 0 THEN base ELSE step[i][g[i - 1]]]
    BY <2>3 DEF Loops
  <2>6. \A i \in 0 .. n : i # 0 => i \in 1 .. n
    BY <1>1
  <2>7. \A i \in 0 .. n : i # 0 => step[i][g[i - 1]] = ConsumersSplit(g[i - 1], i)
    BY <2>4, <2>6
  <2> QED BY <2>5, <2>7
<1>5. f = [i \in 0 .. n |-> IF i = 0 THEN base ELSE ConsumersSplit(f[i - 1], i)]
  BY <1>4
<1>6. SplitConsumers(p) = f[n]
  BY DEF SplitConsumers, Iterate
<1>7. f[n] \in T[n]
  <2> HIDE DEF f, base, n, T
  <2>1. f[0] \in T[0]
    BY <1>1, <1>2, <1>5
  <2>2. \A i \in 1 .. n : f[i] = ConsumersSplit(f[i - 1], i)
    BY ONLY <1>1, <1>5
  <2>3. \A i \in 1 .. n : f[i - 1] \in T[i - 1] => f[i] \in T[i]
    BY <1>3, <2>2
  <2> QED BY ONLY <1>1, <2>1, <2>3, LoopStays
<1> QED BY <1>1, <1>6, <1>7

\* splitBarriersWithExceedingVariantCount keeps what it splits in order.
THEOREM SplitGrows ==
    ASSUME NEW p, Ordered(p), Paired(p), Fits(p)
    PROVE  Grows(p, splitBarriersWithExceedingVariantCount(p))
<1> DEFINE q == SplitProducers(p)
<1>1. Grows(p, q)
  BY SplitProducersGrows
<1>2. Ordered(q) /\ Paired(q) /\ Fits(q)
  BY <1>1, GrownIs
<1> HIDE DEF q
<1>3. Grows(q, SplitConsumers(q))
  BY <1>2, SplitConsumersGrows
<1> QED BY <1>1, <1>3, GrowsTransitive DEF splitBarriersWithExceedingVariantCount, q

-----------------------------------------------------------------------------
(* Batches put together.                                                   *)

(* r is a, then b.                                                         *)
Concats(r, a, b) ==
    /\ Len(r) = Len(a) + Len(b)
    /\ \A i \in 1 .. Len(a) : r[i] = a[i]
    /\ \A j \in 1 .. Len(b) : r[Len(a) + j] = b[j]

(* Tasks of S and U are in sets that follow one another.                   *)
Crossed(sets, S, U) ==
    \A s \in S, u \in U : \E i, j \in 1 .. Len(sets) : i < j /\ s \in sets[i] /\ u \in sets[j]

\* One batch with all tasks.
LEMMA PartsOne ==
    ASSUME NEW S \in SUBSET Task, S # {}
    PROVE  Parts(<<S>>, S)
<1> DEFINE r == <<S>>
<1>1. r \in Seq(SUBSET Task) /\ Len(r) = 1 /\ r[1] = S
  OBVIOUS
<1> HIDE DEF r
<1>2. Parts(r, S)
  BY <1>1 DEF Parts
<1> QED BY <1>2 DEF r

\* Earlier tasks before later ones.
LEMMA PartsConcat ==
    ASSUME NEW a, NEW S, Parts(a, S), NEW b, NEW U, Parts(b, U), InFront(S, U), NEW r, r = a \o b
    PROVE  Parts(r, S \cup U) /\ Concats(r, a, b)
<1> DEFINE m == Len(a)
           n == Len(b)
<1>1. /\ a \in Seq(SUBSET Task) /\ m \in Nat /\ m >= 1 /\ b \in Seq(SUBSET Task) /\ n \in Nat /\ n >= 1
  BY DEF Parts
<1>0. m \in Nat /\ n \in Nat /\ m >= 1 /\ n >= 1
  BY <1>1
<1>2. /\ \A i \in 1 .. m : a[i] # {} /\ a[i] \subseteq S
      /\ \A i, j \in 1 .. m : i < j => \A t \in a[i], u \in a[j] : t < u
      /\ \A x \in S : \E i \in 1 .. m : x \in a[i]
  BY DEF Parts
<1>3. /\ \A i \in 1 .. n : b[i] # {} /\ b[i] \subseteq U
      /\ \A i, j \in 1 .. n : i < j => \A t \in b[i], u \in b[j] : t < u
      /\ \A x \in U : \E i \in 1 .. n : x \in b[i]
  BY DEF Parts
<1>4. r \in Seq(SUBSET Task) /\ Len(r) = m + n
  BY <1>1
<1>5. \A i \in 1 .. m : r[i] = a[i]
  BY <1>1
<1>6. \A j \in 1 .. n : r[m + j] = b[j]
  BY <1>1
<1> HIDE DEF m, n
<1>7. \A i \in 1 .. m + n : i \in 1 .. m \/ \E j \in 1 .. n : i = m + j
  <2> SUFFICES ASSUME NEW i \in 1 .. m + n, i \notin 1 .. m PROVE \E j \in 1 .. n : i = m + j
    OBVIOUS
  <2>1. i - m \in 1 .. n /\ i = m + (i - m)
    BY <1>1
  <2> QED BY <2>1
<1>8. ASSUME NEW i \in 1 .. m + n PROVE r[i] # {}
  <2>1. CASE i \in 1 .. m
    BY <1>2, <1>5, <2>1
  <2>2. CASE \E j \in 1 .. n : i = m + j
    BY <1>3, <1>6, <2>2
  <2> QED BY <1>7, <2>1, <2>2
<1>9. ASSUME NEW i \in 1 .. m + n, NEW j \in 1 .. m + n, i < j, NEW t \in r[i], NEW u \in r[j]
      PROVE  t < u
  <2>1. CASE i \in 1 .. m /\ j \in 1 .. m
    BY <1>2, <1>5, <1>9, <2>1
  <2>2. CASE i \in 1 .. m /\ j \notin 1 .. m
    <3>1. PICK l \in 1 .. n : j = m + l
      BY <1>7, <2>2
    <3>2. t \in S /\ u \in U
      BY <1>2, <1>3, <1>5, <1>6, <2>2, <3>1
    <3> QED BY <3>2 DEF InFront
  <2>3. CASE i \notin 1 .. m
    <3>1. PICK k \in 1 .. n : i = m + k
      BY <1>7, <2>3
    <3>2. j \notin 1 .. m
      BY <1>0, <1>9, <3>1
    <3>3. PICK l \in 1 .. n : j = m + l
      BY <1>7, <3>2
    <3>4. k < l
      BY <1>0, <1>9, <3>1, <3>3
    <3>5. r[i] = b[k] /\ r[j] = b[l]
      BY <1>6, <3>1, <3>3
    <3> QED BY <1>3, <1>9, <3>4, <3>5
  <2> QED BY <2>1, <2>2, <2>3
<1>10. ASSUME NEW x \in S \cup U PROVE \E i \in 1 .. m + n : x \in r[i]
  <2>1. CASE x \in S
    <3>1. PICK i \in 1 .. m : x \in a[i]
      BY <1>2, <2>1
    <3>2. i \in 1 .. m + n
      BY <1>0, <3>1
    <3>3. x \in r[i]
      BY <1>5, <3>1
    <3> QED BY <3>2, <3>3
  <2>2. CASE x \in U
    <3>1. PICK i \in 1 .. n : x \in b[i]
      BY <1>3, <2>2
    <3>2. m + i \in 1 .. m + n
      BY <1>0, <3>1
    <3>3. x \in r[m + i]
      BY <1>6, <3>1
    <3> QED BY <3>2, <3>3
  <2> QED BY <2>1, <2>2
<1>11. \A i \in 1 .. m + n : r[i] \subseteq S \cup U
  <2> SUFFICES ASSUME NEW i \in 1 .. m + n PROVE r[i] \subseteq S \cup U
    OBVIOUS
  <2>1. CASE i \in 1 .. m
    BY <2>1, <1>2, <1>5
  <2>2. CASE i \notin 1 .. m
    <3>1. PICK j \in 1 .. n : i = m + j
      BY <2>2, <1>0, <1>7
    <3> QED BY <3>1, <1>3, <1>6
  <2> QED BY <2>1, <2>2
<1>12. Parts(r, S \cup U)
  <2>1. Len(r) >= 1
    BY <1>0, <1>4
  <2>2. \A x : x \in S \cup U <=> \E i \in 1 .. Len(r) : x \in r[i]
    BY <1>4, <1>10, <1>11
  <2> QED BY <1>4, <1>8, <1>9, <2>1, <2>2 DEF Parts
<1> QED BY <1>4, <1>5, <1>6, <1>12 DEF m, n, Concats

\* Then the tasks that come after all of them.
LEMMA PartsThen ==
    ASSUME NEW a, NEW S, Parts(a, S), NEW U \in SUBSET Task, U # {}, InFront(S, U)
    PROVE  Parts(Append(a, U), S \cup U) /\ Crossed(Append(a, U), S, U)
<1> DEFINE b == <<U>>
           r == a \o b
<1>0. Parts(a, S) /\ InFront(S, U)
  OBVIOUS
<1>1. Parts(b, U) /\ Len(b) = 1 /\ b[1] = U
  BY PartsOne
<1>2. a \in Seq(SUBSET Task) /\ Len(a) \in Nat
  BY DEF Parts
<1>3. Append(a, U) = r
  <2>1. Append(a, U) \in Seq(SUBSET Task) /\ r \in Seq(SUBSET Task)
        /\ Len(Append(a, U)) = Len(a) + 1 /\ Len(r) = Len(a) + 1
        /\ \A i \in 1 .. Len(a) + 1 : Append(a, U)[i] = r[i]
    BY <1>2
  <2> HIDE DEF r
  <2> QED BY <2>1, SeqEqual
<1> HIDE DEF b
<1>4. /\ Parts(r, S \cup U) /\ Len(r) = Len(a) + 1
      /\ \A i \in 1 .. Len(a) : r[i] = a[i]
      /\ r[Len(a) + 1] = U
  <2>1. r = a \o b
    OBVIOUS
  <2> HIDE DEF r
  <2>2. Parts(r, S \cup U) /\ Concats(r, a, b)
    BY ONLY <1>0, <1>1, <2>1, PartsConcat
  <2> QED BY <1>1, <1>2, <2>2 DEF Concats
<1> HIDE DEF r
<1>5. ASSUME NEW s \in S, NEW u \in U
      PROVE  \E i, j \in 1 .. Len(r) : i < j /\ s \in r[i] /\ u \in r[j]
  <2>1. PICK i \in 1 .. Len(a) : s \in a[i]
    BY DEF Parts
  <2>2. i \in 1 .. Len(r) /\ Len(a) + 1 \in 1 .. Len(r) /\ i < Len(a) + 1
        /\ s \in r[i] /\ u \in r[Len(a) + 1]
    BY <1>2, <1>4, <2>1
  <2> QED BY <2>2
<1> QED BY <1>3, <1>4, <1>5 DEF Crossed

\* And those that come before.
LEMMA PartsBehind ==
    ASSUME NEW a, NEW S, Parts(a, S), NEW U \in SUBSET Task, U # {}, InFront(U, S)
    PROVE  Parts(<<U>> \o a, U \cup S) /\ Crossed(<<U>> \o a, U, S)
<1> DEFINE b == <<U>>
           r == b \o a
<1>0. Parts(a, S) /\ InFront(U, S)
  OBVIOUS
<1>1. Parts(b, U) /\ Len(b) = 1 /\ b[1] = U
  BY PartsOne
<1>2. a \in Seq(SUBSET Task) /\ Len(a) \in Nat
  BY DEF Parts
<1>3. <<U>> \o a = r
  OBVIOUS
<1>4. /\ Parts(r, U \cup S) /\ Len(r) = 1 + Len(a)
      /\ r[1] = U
      /\ \A j \in 1 .. Len(a) : r[1 + j] = a[j]
  <2>1. r = b \o a
    OBVIOUS
  <2> HIDE DEF r, b
  <2>2. Parts(r, U \cup S) /\ Concats(r, b, a)
    BY ONLY <1>0, <1>1, <2>1, PartsConcat
  <2> QED BY <1>1, <1>2, <2>2 DEF Concats
<1> HIDE DEF r, b
<1>5. ASSUME NEW u \in U, NEW s \in S
      PROVE  \E i, j \in 1 .. Len(r) : i < j /\ u \in r[i] /\ s \in r[j]
  <2>1. PICK i \in 1 .. Len(a) : s \in a[i]
    BY DEF Parts
  <2>2. 1 \in 1 .. Len(r) /\ 1 + i \in 1 .. Len(r) /\ 1 < 1 + i
        /\ u \in r[1] /\ s \in r[1 + i]
    BY <1>2, <1>4, <2>1
  <2> QED BY <2>2
<1> QED BY <1>3, <1>4, <1>5 DEF Crossed

-----------------------------------------------------------------------------
(* Tasks linked to a barrier.                                              *)

\* Tasks may update a barrier that is awaited behind them only.
LEMMA ProducersLinkedGrows ==
    ASSUME NEW p, Ordered(p), Paired(p), Fits(p), NEW v \in Barriers(p), Producers(p, v) # {},
           NEW tasks \in SUBSET Task, InFront(tasks, Consumers(p, v))
    PROVE  Grows(p, ProducersLinked(p, tasks, v)) /\ OthersAlone(p, ProducersLinked(p, tasks, v), v)
<1> DEFINE S == Producers(p, v) \cup tasks
           U == Consumers(p, v)
           parts == LegalVariantBatches(p, S, FALSE)
<1>0. Ordered(p) /\ Paired(p) /\ v \in Barriers(p)
  OBVIOUS
<1>1. S \in SUBSET Task /\ S # {} /\ U \in SUBSET Task /\ U # {}
  BY DEF Producers, Consumers, Paired
<1>2. InFront(S, U)
  BY DEF Ordered, Producers, Consumers, InFront
<1>3. CASE Len(parts) = 1
  <2> DEFINE q == Linked(p, v, tasks, {})
             C == {}
  <2>1. ProducersLinked(p, tasks, v) = q /\ q = Linked(p, v, tasks, C)
    BY <1>3 DEF ProducersLinked
  <2>2. InFront(Producers(p, v) \cup tasks, Consumers(p, v) \cup C)
    BY <1>2 DEF InFront
  <2>3. tasks \in SUBSET Task /\ C \in SUBSET Task /\ Producers(p, v) # {} /\ Consumers(p, v) # {}
    BY <1>1
  <2> HIDE DEF q, C
  <2>4. Keeps(p, q) /\ q.bars = p.bars /\ OthersAlone(p, q, v)
    BY ONLY <1>0, <2>1, <2>2, <2>3, LinkedKeeps
  <2>5. p.bars \in Nat
    BY DEF Ordered
  <2> QED BY <2>1, <2>4, <2>5 DEF Grows
<1>4. CASE Len(parts) # 1
  <2> DEFINE sets == Append(parts, U)
             q == WithoutBarriers(Chained(p, sets), {v})
  <2>1. ProducersLinked(p, tasks, v) = q
    BY <1>4 DEF ProducersLinked
  <2>2. Parts(parts, S)
    BY <1>1, LegalBatches
  <2> HIDE DEF S, U, parts
  <2>3. Parts(sets, S \cup U) /\ Crossed(sets, S, U)
    BY <1>1, <1>2, <2>2, PartsThen
  <2>4. \A t \in Producers(p, v), u \in Consumers(p, v) :
            \E i, j \in 1 .. Len(sets) : i < j /\ t \in sets[i] /\ u \in sets[j]
    BY <2>3 DEF S, U, Crossed
  <2>5. q = WithoutBarriers(Chained(p, sets), {v})
    OBVIOUS
  <2> HIDE DEF sets, q
  <2>6. Grows(p, q) /\ OthersAlone(p, q, v)
    BY ONLY <1>0, <2>3, <2>4, <2>5, ChainReplaces
  <2> QED BY <2>1, <2>6
<1> QED BY <1>3, <1>4

\* Tasks may wait for a barrier that is updated before them only.
LEMMA ConsumersLinkedGrows ==
    ASSUME NEW p, Ordered(p), Paired(p), Fits(p), NEW v \in Barriers(p), Consumers(p, v) # {},
           NEW tasks \in SUBSET Task, InFront(Producers(p, v), tasks)
    PROVE  Grows(p, ConsumersLinked(p, tasks, v)) /\ OthersAlone(p, ConsumersLinked(p, tasks, v), v)
<1> DEFINE S == Consumers(p, v) \cup tasks
           U == Producers(p, v)
           parts == LegalVariantBatches(p, S, FALSE)
<1>0. Ordered(p) /\ Paired(p) /\ v \in Barriers(p)
  OBVIOUS
<1>1. S \in SUBSET Task /\ S # {} /\ U \in SUBSET Task /\ U # {}
  BY DEF Producers, Consumers, Paired
<1>2. InFront(U, S)
  BY DEF Ordered, Producers, Consumers, InFront
<1>3. CASE Len(parts) = 1
  <2> DEFINE q == Linked(p, v, {}, tasks)
             P == {}
  <2>1. ConsumersLinked(p, tasks, v) = q /\ q = Linked(p, v, P, tasks)
    BY <1>3 DEF ConsumersLinked
  <2>2. InFront(Producers(p, v) \cup P, Consumers(p, v) \cup tasks)
    BY <1>2 DEF InFront
  <2>3. tasks \in SUBSET Task /\ P \in SUBSET Task /\ Producers(p, v) # {} /\ Consumers(p, v) # {}
    BY <1>1
  <2> HIDE DEF q, P
  <2>4. Keeps(p, q) /\ q.bars = p.bars /\ OthersAlone(p, q, v)
    BY ONLY <1>0, <2>1, <2>2, <2>3, LinkedKeeps
  <2>5. p.bars \in Nat
    BY DEF Ordered
  <2> QED BY <2>1, <2>4, <2>5 DEF Grows
<1>4. CASE Len(parts) # 1
  <2> DEFINE sets == <<U>> \o parts
             q == WithoutBarriers(Chained(p, sets), {v})
  <2>1. ConsumersLinked(p, tasks, v) = q
    BY <1>4 DEF ConsumersLinked
  <2>2. Parts(parts, S)
    BY <1>1, LegalBatches
  <2> HIDE DEF S, U, parts
  <2>3. Parts(sets, U \cup S) /\ Crossed(sets, U, S)
    BY <1>1, <1>2, <2>2, PartsBehind
  <2>4. \A t \in Producers(p, v), u \in Consumers(p, v) :
            \E i, j \in 1 .. Len(sets) : i < j /\ t \in sets[i] /\ u \in sets[j]
    BY <2>3 DEF S, U, Crossed
  <2>5. q = WithoutBarriers(Chained(p, sets), {v})
    OBVIOUS
  <2> HIDE DEF sets, q
  <2>6. Grows(p, q) /\ OthersAlone(p, q, v)
    BY ONLY <1>0, <2>3, <2>4, <2>5, ChainReplaces
  <2> QED BY <2>1, <2>6
<1> QED BY <1>3, <1>4

-----------------------------------------------------------------------------
(* linkTasksToBarriers for the barriers of a task.                         *)

(* The members of w behind the i-th have the same users in p and q.        *)
RestAlone(p, q, w, i) ==
    \A k \in i + 1 .. Len(w) : Producers(q, w[k]) = Producers(p, w[k]) /\ Consumers(q, w[k]) = Consumers(p, w[k])

\* One member of w after the other is rewritten.
LEMMA RestStaysAlone ==
    ASSUME NEW p, NEW q, NEW r, NEW w, Len(w) \in Nat, NEW i \in 1 .. Len(w),
           \A j \in 1 .. Len(w) : w[j] \in Barriers(q), \A k \in i + 1 .. Len(w) : w[k] # w[i],
           RestAlone(p, q, w, i - 1), OthersAlone(q, r, w[i])
    PROVE  RestAlone(p, r, w, i)
<1> SUFFICES ASSUME NEW k \in i + 1 .. Len(w)
             PROVE  Producers(r, w[k]) = Producers(p, w[k]) /\ Consumers(r, w[k]) = Consumers(p, w[k])
  BY DEF RestAlone
<1>1. k \in i - 1 + 1 .. Len(w) /\ k \in 1 .. Len(w)
  OBVIOUS
<1>2. Producers(q, w[k]) = Producers(p, w[k]) /\ Consumers(q, w[k]) = Consumers(p, w[k])
  BY <1>1 DEF RestAlone
<1>3. Producers(r, w[k]) = Producers(q, w[k]) /\ Consumers(r, w[k]) = Consumers(q, w[k])
  BY <1>1 DEF OthersAlone
<1> QED BY <1>2, <1>3

\* Tasks may be linked to several barriers this way, for them to update.
LEMMA LinkedProducersGrows ==
    ASSUME NEW p, Ordered(p), Paired(p), Fits(p), NEW tasks \in SUBSET Task,
           NEW barriers \in SUBSET Barriers(p),
           \A v \in barriers : Producers(p, v) # {} /\ InFront(tasks, Consumers(p, v))
    PROVE  Grows(p, LinkedProducers(p, tasks, barriers))
<1> DEFINE base == p
           n == Cardinality(barriers)
           w == Increasing(barriers)
           T == [i \in 0 .. n |-> {q \in Shape : Grows(p, q) /\ RestAlone(p, q, w, i)}]
           step == [i \in 1 .. n |-> [q \in T[i - 1] |-> ProducersLinked(q, tasks, w[i])]]
           f == CHOOSE g : g = [i \in 0 .. n |-> IF i = 0 THEN base ELSE ProducersLinked(g[i - 1], tasks, w[i])]
<1>a. IsFiniteSet(barriers) /\ barriers \in SUBSET Nat
  <2> DEFINE m == p.bars
  <2>1. m \in Nat /\ barriers \subseteq 1 .. m
    BY DEF Ordered, Barriers
  <2> HIDE DEF m
  <2>2. IsFiniteSet(1 .. m)
    BY <2>1, FS_Interval
  <2>3. IsFiniteSet(barriers)
    BY <2>1, <2>2, FS_Subset
  <2>4. barriers \in SUBSET Nat
    BY <2>1
  <2> QED BY <2>3, <2>4
<1>b. /\ \A i \in 1 .. n : w[i] \in barriers /\ Len(w) = n
      /\ \A i, j \in 1 .. n : w[i] = w[j] => i = j
  BY <1>a, IncreasingOrders
<1>1. n \in Nat
  BY <1>a, FS_CardinalityType
<1>2. base \in T[0]
  <2>1. Grows(p, p) /\ p \in Shape
    BY GrowsItself, GrownIs
  <2>2. RestAlone(p, p, w, 0)
    BY DEF RestAlone
  <2> QED BY <1>1, <2>1, <2>2
<1>3. \A i \in 1 .. n : \A q \in T[i - 1] : ProducersLinked(q, tasks, w[i]) \in T[i]
  <2> SUFFICES ASSUME NEW i \in 1 .. n, NEW q \in T[i - 1] PROVE ProducersLinked(q, tasks, w[i]) \in T[i]
    OBVIOUS
  <2>1. Grows(p, q) /\ RestAlone(p, q, w, i - 1)
    BY <1>1
  <2> DEFINE v == w[i]
             r == ProducersLinked(q, tasks, v)
  <2>2. /\ v \in barriers /\ v \in Barriers(p)
        /\ \A j \in 1 .. Len(w) : w[j] \in Barriers(q)
        /\ \A k \in i + 1 .. Len(w) : w[k] # w[i]
    <3>1. Barriers(p) \subseteq Barriers(q)
      BY <2>1, GrownIs
    <3>2. \A k \in i + 1 .. n : k \in 1 .. n /\ k # i
      BY <1>1
    <3> QED BY <1>b, <3>1, <3>2
  <2>3. Producers(q, v) = Producers(p, v) /\ Consumers(q, v) = Consumers(p, v)
    <3>1. i \in i - 1 + 1 .. Len(w)
      BY <1>1, <1>b
    <3> QED BY <2>1, <3>1 DEF RestAlone
  <2>4. Ordered(q) /\ Paired(q) /\ Fits(q) /\ v \in Barriers(q)
    BY <2>1, <2>2, GrownIs
  <2>5. Producers(q, v) # {} /\ InFront(tasks, Consumers(q, v))
    BY <2>2, <2>3
  <2> HIDE DEF v
  <2>6. Grows(q, r) /\ OthersAlone(q, r, v)
    BY <2>4, <2>5, ProducersLinkedGrows
  <2>7. Grows(p, r) /\ r \in Shape
    BY <2>1, <2>6, GrowsTransitive, GrownIs
  <2>8. RestAlone(p, r, w, i)
    <3>1. Len(w) \in Nat /\ i \in 1 .. Len(w) /\ OthersAlone(q, r, w[i])
      BY <1>1, <1>b, <2>6 DEF v
    <3> HIDE DEF r, w
    <3> QED BY ONLY <2>1, <2>2, <3>1, RestStaysAlone
  <2>9. r \in T[i]
    <3> HIDE DEF r, w
    <3> QED BY <1>1, <2>7, <2>8
  <2> QED BY <2>9 DEF v
<1>4. \E g : g = [i \in 0 .. n |-> IF i = 0 THEN base ELSE ProducersLinked(g[i - 1], tasks, w[i])]
  <2>1. \A i \in 1 .. n : \A q \in T[i - 1] : step[i][q] = ProducersLinked(q, tasks, w[i])
    OBVIOUS
  <2> HIDE DEF step, base, n, w, T
  <2>2. \A i \in 1 .. n : \A q \in T[i - 1] : step[i][q] \in T[i]
    BY <1>3, <2>1
  <2>3. PICK g : Loops(g, n, base, step) /\ \A i \in 0 .. n : g[i] \in T[i]
    BY ONLY <1>1, <1>2, <2>2, LoopSolves
  <2>4. \A i \in 1 .. n : g[i - 1] \in T[i - 1] /\ step[i][g[i - 1]] = ProducersLinked(g[i - 1], tasks, w[i])
    BY <1>1, <2>1, <2>3
  <2>5. g = [i \in 0 .. n |-> IF i = 0 THEN base ELSE step[i][g[i - 1]]]
    BY <2>3 DEF Loops
  <2>6. \A i \in 0 .. n : i # 0 => i \in 1 .. n
    BY <1>1
  <2>7. \A i \in 0 .. n : i # 0 => step[i][g[i - 1]] = ProducersLinked(g[i - 1], tasks, w[i])
    BY <2>4, <2>6
  <2> QED BY <2>5, <2>7
<1>5. f = [i \in 0 .. n |-> IF i = 0 THEN base ELSE ProducersLinked(f[i - 1], tasks, w[i])]
  BY <1>4
<1>6. LinkedProducers(p, tasks, barriers) = f[n]
  BY DEF LinkedProducers, Iterate
<1>7. f[n] \in T[n]
  <2> HIDE DEF f, base, n, w, T
  <2>1. f[0] \in T[0]
    BY <1>1, <1>2, <1>5
  <2>2. \A i \in 1 .. n : f[i] = ProducersLinked(f[i - 1], tasks, w[i])
    BY ONLY <1>1, <1>5
  <2>3. \A i \in 1 .. n : f[i - 1] \in T[i - 1] => f[i] \in T[i]
    BY <1>3, <2>2
  <2> QED BY ONLY <1>1, <2>1, <2>3, LoopStays
<1> QED BY <1>1, <1>6, <1>7

\* Tasks may be linked to several barriers this way, for them to wait.
LEMMA LinkedConsumersGrows ==
    ASSUME NEW p, Ordered(p), Paired(p), Fits(p), NEW tasks \in SUBSET Task,
           NEW barriers \in SUBSET Barriers(p),
           \A v \in barriers : Consumers(p, v) # {} /\ InFront(Producers(p, v), tasks)
    PROVE  Grows(p, LinkedConsumers(p, tasks, barriers))
<1> DEFINE base == p
           n == Cardinality(barriers)
           w == Increasing(barriers)
           T == [i \in 0 .. n |-> {q \in Shape : Grows(p, q) /\ RestAlone(p, q, w, i)}]
           step == [i \in 1 .. n |-> [q \in T[i - 1] |-> ConsumersLinked(q, tasks, w[i])]]
           f == CHOOSE g : g = [i \in 0 .. n |-> IF i = 0 THEN base ELSE ConsumersLinked(g[i - 1], tasks, w[i])]
<1>a. IsFiniteSet(barriers) /\ barriers \in SUBSET Nat
  <2> DEFINE m == p.bars
  <2>1. m \in Nat /\ barriers \subseteq 1 .. m
    BY DEF Ordered, Barriers
  <2> HIDE DEF m
  <2>2. IsFiniteSet(1 .. m)
    BY <2>1, FS_Interval
  <2>3. IsFiniteSet(barriers)
    BY <2>1, <2>2, FS_Subset
  <2>4. barriers \in SUBSET Nat
    BY <2>1
  <2> QED BY <2>3, <2>4
<1>b. /\ \A i \in 1 .. n : w[i] \in barriers /\ Len(w) = n
      /\ \A i, j \in 1 .. n : w[i] = w[j] => i = j
  BY <1>a, IncreasingOrders
<1>1. n \in Nat
  BY <1>a, FS_CardinalityType
<1>2. base \in T[0]
  <2>1. Grows(p, p) /\ p \in Shape
    BY GrowsItself, GrownIs
  <2>2. RestAlone(p, p, w, 0)
    BY DEF RestAlone
  <2> QED BY <1>1, <2>1, <2>2
<1>3. \A i \in 1 .. n : \A q \in T[i - 1] : ConsumersLinked(q, tasks, w[i]) \in T[i]
  <2> SUFFICES ASSUME NEW i \in 1 .. n, NEW q \in T[i - 1] PROVE ConsumersLinked(q, tasks, w[i]) \in T[i]
    OBVIOUS
  <2>1. Grows(p, q) /\ RestAlone(p, q, w, i - 1)
    BY <1>1
  <2> DEFINE v == w[i]
             r == ConsumersLinked(q, tasks, v)
  <2>2. /\ v \in barriers /\ v \in Barriers(p)
        /\ \A j \in 1 .. Len(w) : w[j] \in Barriers(q)
        /\ \A k \in i + 1 .. Len(w) : w[k] # w[i]
    <3>1. Barriers(p) \subseteq Barriers(q)
      BY <2>1, GrownIs
    <3>2. \A k \in i + 1 .. n : k \in 1 .. n /\ k # i
      BY <1>1
    <3> QED BY <1>b, <3>1, <3>2
  <2>3. Producers(q, v) = Producers(p, v) /\ Consumers(q, v) = Consumers(p, v)
    <3>1. i \in i - 1 + 1 .. Len(w)
      BY <1>1, <1>b
    <3> QED BY <2>1, <3>1 DEF RestAlone
  <2>4. Ordered(q) /\ Paired(q) /\ Fits(q) /\ v \in Barriers(q)
    BY <2>1, <2>2, GrownIs
  <2>5. Consumers(q, v) # {} /\ InFront(Producers(q, v), tasks)
    BY <2>2, <2>3
  <2> HIDE DEF v
  <2>6. Grows(q, r) /\ OthersAlone(q, r, v)
    BY <2>4, <2>5, ConsumersLinkedGrows
  <2>7. Grows(p, r) /\ r \in Shape
    BY <2>1, <2>6, GrowsTransitive, GrownIs
  <2>8. RestAlone(p, r, w, i)
    <3>1. Len(w) \in Nat /\ i \in 1 .. Len(w) /\ OthersAlone(q, r, w[i])
      BY <1>1, <1>b, <2>6 DEF v
    <3> HIDE DEF r, w
    <3> QED BY ONLY <2>1, <2>2, <3>1, RestStaysAlone
  <2>9. r \in T[i]
    <3> HIDE DEF r, w
    <3> QED BY <1>1, <2>7, <2>8
  <2> QED BY <2>9 DEF v
<1>4. \E g : g = [i \in 0 .. n |-> IF i = 0 THEN base ELSE ConsumersLinked(g[i - 1], tasks, w[i])]
  <2>1. \A i \in 1 .. n : \A q \in T[i - 1] : step[i][q] = ConsumersLinked(q, tasks, w[i])
    OBVIOUS
  <2> HIDE DEF step, base, n, w, T
  <2>2. \A i \in 1 .. n : \A q \in T[i - 1] : step[i][q] \in T[i]
    BY <1>3, <2>1
  <2>3. PICK g : Loops(g, n, base, step) /\ \A i \in 0 .. n : g[i] \in T[i]
    BY ONLY <1>1, <1>2, <2>2, LoopSolves
  <2>4. \A i \in 1 .. n : g[i - 1] \in T[i - 1] /\ step[i][g[i - 1]] = ConsumersLinked(g[i - 1], tasks, w[i])
    BY <1>1, <2>1, <2>3
  <2>5. g = [i \in 0 .. n |-> IF i = 0 THEN base ELSE step[i][g[i - 1]]]
    BY <2>3 DEF Loops
  <2>6. \A i \in 0 .. n : i # 0 => i \in 1 .. n
    BY <1>1
  <2>7. \A i \in 0 .. n : i # 0 => step[i][g[i - 1]] = ConsumersLinked(g[i - 1], tasks, w[i])
    BY <2>4, <2>6
  <2> QED BY <2>5, <2>7
<1>5. f = [i \in 0 .. n |-> IF i = 0 THEN base ELSE ConsumersLinked(f[i - 1], tasks, w[i])]
  BY <1>4
<1>6. LinkedConsumers(p, tasks, barriers) = f[n]
  BY DEF LinkedConsumers, Iterate
<1>7. f[n] \in T[n]
  <2> HIDE DEF f, base, n, w, T
  <2>1. f[0] \in T[0]
    BY <1>1, <1>2, <1>5
  <2>2. \A i \in 1 .. n : f[i] = ConsumersLinked(f[i - 1], tasks, w[i])
    BY ONLY <1>1, <1>5
  <2>3. \A i \in 1 .. n : f[i - 1] \in T[i - 1] => f[i] \in T[i]
    BY <1>3, <2>2
  <2> QED BY ONLY <1>1, <2>1, <2>3, LoopStays
<1> QED BY <1>1, <1>6, <1>7

-----------------------------------------------------------------------------
(* shareWaitAndUpdateBarriers.                                             *)

(* A function, and tasks passed since the last one with barriers.          *)
Sharing == [p : Shape, idle : SUBSET Task]

\* The tasks passed share the update barriers of the next one, if it has some.
LEMMA UpdatesSharedGrows ==
    ASSUME NEW s \in Sharing, Ordered(s.p), Paired(s.p), Fits(s.p), NEW t \in Task, InFront(s.idle, {t})
    PROVE  /\ UpdatesShared(s, t) \in Sharing /\ Grows(s.p, UpdatesShared(s, t).p)
           /\ UpdatesShared(s, t).idle \subseteq s.idle \cup {t}
<1> DEFINE updates == s.p.posts[t]
           r == UpdatesShared(s, t)
<1>1. s.p \in Shape /\ s.idle \in SUBSET Task /\ s = [p |-> s.p, idle |-> s.idle]
  BY DEF Sharing
<1>2. Grows(s.p, s.p)
  BY GrowsItself
<1>3. CASE updates = {}
  <2>1. r = [s EXCEPT !.idle = @ \cup {t}]
    BY <1>3 DEF UpdatesShared
  <2>2. r.p = s.p /\ r.idle = s.idle \cup {t} /\ r \in Sharing
    BY <1>1, <2>1 DEF Sharing
  <2> QED BY <1>2, <2>2
<1>4. CASE updates # {} /\ s.idle = {}
  <2>1. r = [p |-> s.p, idle |-> {}]
    BY <1>4 DEF UpdatesShared
  <2>2. r.p = s.p /\ r.idle = {} /\ r \in Sharing
    BY <1>1, <2>1 DEF Sharing
  <2> QED BY <1>2, <2>2
<1>5. CASE updates # {} /\ s.idle # {}
  <2> DEFINE q == LinkedProducers(s.p, s.idle, updates)
  <2>1. r = [p |-> q, idle |-> {}]
    BY <1>5 DEF UpdatesShared
  <2>2. updates \in SUBSET Barriers(s.p)
    BY DEF Ordered
  <2>3. ASSUME NEW v \in updates
        PROVE  Producers(s.p, v) # {} /\ InFront(s.idle, Consumers(s.p, v))
    <3>1. t \in Producers(s.p, v)
      BY DEF Producers
    <3>2. InFront({t}, Consumers(s.p, v))
      BY DEF Ordered, Producers, Consumers, InFront
    <3>3. Consumers(s.p, v) \subseteq Task
      BY DEF Consumers
    <3>4. \A x \in s.idle : x \in Nat /\ t \in Nat
      BY <1>1 DEF Task
    <3>5. \A u \in Consumers(s.p, v) : u \in Nat
      BY <3>3 DEF Task
    <3> QED BY <3>1, <3>2, <3>4, <3>5 DEF InFront
  <2> HIDE DEF q, updates
  <2>4. Grows(s.p, q)
    BY <1>1, <2>2, <2>3, LinkedProducersGrows DEF q
  <2>5. q \in Shape
    BY <2>4, GrownIs
  <2>6. r.p = q /\ r.idle = {} /\ r \in Sharing
    BY <2>1, <2>5 DEF Sharing
  <2> QED BY <2>4, <2>6
<1> QED BY <1>3, <1>4, <1>5

\* Sharing update barriers along one queue, first task to last.
LEMMA SharedUpdatesGrows ==
    ASSUME NEW p, Ordered(p), Paired(p), Fits(p), NEW queue \in Seq(Task),
           \A i, j \in 1 .. Len(queue) : i < j => queue[i] < queue[j]
    PROVE  Grows(p, SharedUpdates(p, queue))
<1> DEFINE base == [p |-> p, idle |-> {}]
           n == Len(queue)
           T == [i \in 0 .. n |-> {s \in Sharing : Grows(p, s.p) /\ \A k \in i + 1 .. Len(queue) : InFront(s.idle, {queue[k]})}]
           step == [i \in 1 .. n |-> [q \in T[i - 1] |-> UpdatesShared(q, queue[i])]]
           f == CHOOSE g : g = [i \in 0 .. n |-> IF i = 0 THEN base ELSE UpdatesShared(g[i - 1], queue[i])]
<1>1. n \in Nat
  OBVIOUS
<1>2. base \in T[0]
  <2>1. Grows(p, p) /\ p \in Shape
    BY GrowsItself, GrownIs
  <2>2. base.p = p /\ base.idle = {} /\ base \in Sharing
    BY <2>1 DEF Sharing
  <2> HIDE DEF base
  <2> QED BY <1>1, <2>1, <2>2 DEF InFront
<1>3. \A i \in 1 .. n : \A q \in T[i - 1] : UpdatesShared(q, queue[i]) \in T[i]
  <2> SUFFICES ASSUME NEW i \in 1 .. n, NEW q \in T[i - 1] PROVE UpdatesShared(q, queue[i]) \in T[i]
    OBVIOUS
  <2> DEFINE t == queue[i]
             r == UpdatesShared(q, t)
  <2>1. q \in Sharing /\ Grows(p, q.p)
    BY <1>1
  <2>2. \A k \in i - 1 + 1 .. Len(queue) : InFront(q.idle, {queue[k]})
    BY <1>1
  <2>3. i \in i - 1 + 1 .. Len(queue) /\ i \in 1 .. Len(queue)
    BY <1>1
  <2>4. t \in Task /\ InFront(q.idle, {t})
    BY <2>2, <2>3
  <2>5. Ordered(q.p) /\ Paired(q.p) /\ Fits(q.p)
    BY <2>1, GrownIs
  <2>a. \A k \in i + 1 .. Len(queue) : t < queue[k]
    BY <1>1, <2>3
  <2> HIDE DEF t
  <2>6. r \in Sharing /\ Grows(q.p, r.p) /\ r.idle \subseteq q.idle \cup {t}
    BY <2>1, <2>4, <2>5, UpdatesSharedGrows
  <2> HIDE DEF r
  <2>7. Grows(p, r.p)
    BY <2>1, <2>6, GrowsTransitive
  <2>8. ASSUME NEW k \in i + 1 .. Len(queue) PROVE InFront(r.idle, {queue[k]})
    <3>1. k \in i - 1 + 1 .. Len(queue)
      BY <1>1
    <3> QED BY <2>2, <2>6, <2>a, <3>1 DEF InFront
  <2>9. r \in T[i]
    BY <1>1, <2>6, <2>7, <2>8
  <2> QED BY <2>9 DEF r, t
<1>4. \E g : g = [i \in 0 .. n |-> IF i = 0 THEN base ELSE UpdatesShared(g[i - 1], queue[i])]
  <2>1. \A i \in 1 .. n : \A q \in T[i - 1] : step[i][q] = UpdatesShared(q, queue[i])
    OBVIOUS
  <2> HIDE DEF step, base, n, T
  <2>2. \A i \in 1 .. n : \A q \in T[i - 1] : step[i][q] \in T[i]
    BY <1>3, <2>1
  <2>3. PICK g : Loops(g, n, base, step) /\ \A i \in 0 .. n : g[i] \in T[i]
    BY ONLY <1>1, <1>2, <2>2, LoopSolves
  <2>4. \A i \in 1 .. n : g[i - 1] \in T[i - 1] /\ step[i][g[i - 1]] = UpdatesShared(g[i - 1], queue[i])
    BY <1>1, <2>1, <2>3
  <2>5. g = [i \in 0 .. n |-> IF i = 0 THEN base ELSE step[i][g[i - 1]]]
    BY <2>3 DEF Loops
  <2>6. \A i \in 0 .. n : i # 0 => step[i][g[i - 1]] = UpdatesShared(g[i - 1], queue[i])
    BY ONLY <1>1, <2>4
  <2> QED BY ONLY <2>5, <2>6
<1>5. f = [i \in 0 .. n |-> IF i = 0 THEN base ELSE UpdatesShared(f[i - 1], queue[i])]
  BY <1>4
<1>6. SharedUpdates(p, queue) = f[n].p
  BY DEF SharedUpdates, Iterate
<1>7. f[n] \in T[n]
  <2> HIDE DEF f, base, n, T
  <2>1. f[0] \in T[0]
    BY <1>1, <1>2, <1>5
  <2>2. \A i \in 1 .. n : f[i] = UpdatesShared(f[i - 1], queue[i])
    BY ONLY <1>1, <1>5
  <2>3. \A i \in 1 .. n : f[i - 1] \in T[i - 1] => f[i] \in T[i]
    BY <1>3, <2>2
  <2> QED BY ONLY <1>1, <2>1, <2>3, LoopStays
<1> QED BY <1>1, <1>6, <1>7

\* The tasks passed share the wait barriers of the next one, if it has some.
LEMMA WaitsSharedGrows ==
    ASSUME NEW s \in Sharing, Ordered(s.p), Paired(s.p), Fits(s.p), NEW t \in Task, InFront({t}, s.idle)
    PROVE  /\ WaitsShared(s, t) \in Sharing /\ Grows(s.p, WaitsShared(s, t).p)
           /\ WaitsShared(s, t).idle \subseteq s.idle \cup {t}
<1> DEFINE waits == s.p.waits[t]
           r == WaitsShared(s, t)
<1>1. s.p \in Shape /\ s.idle \in SUBSET Task /\ s = [p |-> s.p, idle |-> s.idle]
  BY DEF Sharing
<1>2. Grows(s.p, s.p)
  BY GrowsItself
<1>3. CASE waits = {}
  <2>1. r = [s EXCEPT !.idle = @ \cup {t}]
    BY <1>3 DEF WaitsShared
  <2>2. r.p = s.p /\ r.idle = s.idle \cup {t} /\ r \in Sharing
    BY <1>1, <2>1 DEF Sharing
  <2> QED BY <1>2, <2>2
<1>4. CASE waits # {} /\ s.idle = {}
  <2>1. r = [p |-> s.p, idle |-> {}]
    BY <1>4 DEF WaitsShared
  <2>2. r.p = s.p /\ r.idle = {} /\ r \in Sharing
    BY <1>1, <2>1 DEF Sharing
  <2> QED BY <1>2, <2>2
<1>5. CASE waits # {} /\ s.idle # {}
  <2> DEFINE q == LinkedConsumers(s.p, s.idle, waits)
  <2>1. r = [p |-> q, idle |-> {}]
    BY <1>5 DEF WaitsShared
  <2>2. waits \in SUBSET Barriers(s.p)
    BY DEF Ordered
  <2>3. ASSUME NEW v \in waits
        PROVE  Consumers(s.p, v) # {} /\ InFront(Producers(s.p, v), s.idle)
    <3>1. t \in Consumers(s.p, v)
      BY DEF Consumers
    <3>2. InFront(Producers(s.p, v), {t})
      BY DEF Ordered, Producers, Consumers, InFront
    <3>3. Producers(s.p, v) \subseteq Task
      BY DEF Producers
    <3>4. \A x \in s.idle : x \in Nat /\ t \in Nat
      BY <1>1 DEF Task
    <3>5. \A u \in Producers(s.p, v) : u \in Nat
      BY <3>3 DEF Task
    <3> QED BY <3>1, <3>2, <3>4, <3>5 DEF InFront
  <2> HIDE DEF q, waits
  <2>4. Grows(s.p, q)
    BY <1>1, <2>2, <2>3, LinkedConsumersGrows DEF q
  <2>5. q \in Shape
    BY <2>4, GrownIs
  <2>6. r.p = q /\ r.idle = {} /\ r \in Sharing
    BY <2>1, <2>5 DEF Sharing
  <2> QED BY <2>4, <2>6
<1> QED BY <1>3, <1>4, <1>5

\* Sharing wait barriers along one queue, last task to first.
LEMMA SharedWaitsGrows ==
    ASSUME NEW p, Ordered(p), Paired(p), Fits(p), NEW queue \in Seq(Task),
           \A i, j \in 1 .. Len(queue) : i < j => queue[i] < queue[j]
    PROVE  Grows(p, SharedWaits(p, queue))
<1> DEFINE base == [p |-> p, idle |-> {}]
           n == Len(queue)
           T == [i \in 0 .. n |-> {s \in Sharing : Grows(p, s.p) /\ \A k \in 1 .. Len(queue) - i : InFront({queue[k]}, s.idle)}]
           step == [i \in 1 .. n |-> [q \in T[i - 1] |-> WaitsShared(q, queue[Len(queue) + 1 - i])]]
           f == CHOOSE g : g = [i \in 0 .. n |-> IF i = 0 THEN base ELSE WaitsShared(g[i - 1], queue[Len(queue) + 1 - i])]
<1>1. n \in Nat
  OBVIOUS
<1>2. base \in T[0]
  <2>1. Grows(p, p) /\ p \in Shape
    BY GrowsItself, GrownIs
  <2>2. base.p = p /\ base.idle = {} /\ base \in Sharing
    BY <2>1 DEF Sharing
  <2> HIDE DEF base
  <2> QED BY <1>1, <2>1, <2>2 DEF InFront
<1>3. \A i \in 1 .. n : \A q \in T[i - 1] : WaitsShared(q, queue[Len(queue) + 1 - i]) \in T[i]
  <2> SUFFICES ASSUME NEW i \in 1 .. n, NEW q \in T[i - 1] PROVE WaitsShared(q, queue[Len(queue) + 1 - i]) \in T[i]
    OBVIOUS
  <2> DEFINE t == queue[Len(queue) + 1 - i]
             r == WaitsShared(q, t)
  <2>1. q \in Sharing /\ Grows(p, q.p)
    BY <1>1
  <2>2. \A k \in 1 .. Len(queue) - (i - 1) : InFront({queue[k]}, q.idle)
    BY <1>1
  <2>3. Len(queue) + 1 - i \in 1 .. Len(queue) - (i - 1) /\ Len(queue) + 1 - i \in 1 .. Len(queue)
    BY <1>1
  <2>4. t \in Task /\ InFront({t}, q.idle)
    BY <2>2, <2>3
  <2>5. Ordered(q.p) /\ Paired(q.p) /\ Fits(q.p)
    BY <2>1, GrownIs
  <2>a. \A k \in 1 .. Len(queue) - i : queue[k] < t
    BY <1>1, <2>3
  <2> HIDE DEF t
  <2>6. r \in Sharing /\ Grows(q.p, r.p) /\ r.idle \subseteq q.idle \cup {t}
    BY <2>1, <2>4, <2>5, WaitsSharedGrows
  <2> HIDE DEF r
  <2>7. Grows(p, r.p)
    BY <2>1, <2>6, GrowsTransitive
  <2>8. ASSUME NEW k \in 1 .. Len(queue) - i PROVE InFront({queue[k]}, r.idle)
    <3>1. k \in 1 .. Len(queue) - (i - 1)
      BY <1>1
    <3> QED BY <2>2, <2>6, <2>a, <3>1 DEF InFront
  <2>9. r \in T[i]
    BY <1>1, <2>6, <2>7, <2>8
  <2> QED BY <2>9 DEF r, t
<1>4. \E g : g = [i \in 0 .. n |-> IF i = 0 THEN base ELSE WaitsShared(g[i - 1], queue[Len(queue) + 1 - i])]
  <2>1. \A i \in 1 .. n : \A q \in T[i - 1] : step[i][q] = WaitsShared(q, queue[Len(queue) + 1 - i])
    OBVIOUS
  <2> HIDE DEF step, base, n, T
  <2>2. \A i \in 1 .. n : \A q \in T[i - 1] : step[i][q] \in T[i]
    BY <1>3, <2>1
  <2>3. PICK g : Loops(g, n, base, step) /\ \A i \in 0 .. n : g[i] \in T[i]
    BY ONLY <1>1, <1>2, <2>2, LoopSolves
  <2>4. \A i \in 1 .. n : g[i - 1] \in T[i - 1] /\ step[i][g[i - 1]] = WaitsShared(g[i - 1], queue[Len(queue) + 1 - i])
    BY <1>1, <2>1, <2>3
  <2>5. g = [i \in 0 .. n |-> IF i = 0 THEN base ELSE step[i][g[i - 1]]]
    BY <2>3 DEF Loops
  <2>6. \A i \in 0 .. n : i # 0 => step[i][g[i - 1]] = WaitsShared(g[i - 1], queue[Len(queue) + 1 - i])
    BY ONLY <1>1, <2>4
  <2> QED BY ONLY <2>5, <2>6
<1>5. f = [i \in 0 .. n |-> IF i = 0 THEN base ELSE WaitsShared(f[i - 1], queue[Len(queue) + 1 - i])]
  BY <1>4
<1>6. SharedWaits(p, queue) = f[n].p
  BY DEF SharedWaits, Iterate
<1>7. f[n] \in T[n]
  <2> HIDE DEF f, base, n, T
  <2>1. f[0] \in T[0]
    BY <1>1, <1>2, <1>5
  <2>2. \A i \in 1 .. n : f[i] = WaitsShared(f[i - 1], queue[Len(queue) + 1 - i])
    BY ONLY <1>1, <1>5
  <2>3. \A i \in 1 .. n : f[i - 1] \in T[i - 1] => f[i] \in T[i]
    BY <1>3, <2>2
  <2> QED BY ONLY <1>1, <2>1, <2>3, LoopStays
<1> QED BY <1>1, <1>6, <1>7

\* shareWaitAndUpdateBarriers for one queue.
LEMMA QueueSharedGrows ==
    ASSUME NEW p, Ordered(p), Paired(p), Fits(p), NEW f
    PROVE  Grows(p, QueueShared(p, f))
<1> DEFINE S == {t \in Task : p.fifo[t] = f}
           queue == Increasing(S)
           q == SharedUpdates(p, queue)
<1>1. S \in SUBSET Nat /\ IsFiniteSet(S)
  BY TasksFinite DEF Task
<1>2. S \subseteq Task
  OBVIOUS
<1> HIDE DEF S
<1>3. queue \in Seq(S) /\ Len(queue) = Cardinality(S)
  BY <1>1, IncreasingOrders
<1>4. \A i, j \in 1 .. Len(queue) : i < j => queue[i] < queue[j]
  BY <1>1, <1>3, IncreasingGrows
<1>5. QueueShared(p, f) = SharedWaits(q, queue)
  BY DEF QueueShared, S
<1> HIDE DEF queue
<1>6. queue \in Seq(Task)
  BY <1>2, <1>3
<1>7. Grows(p, q)
  BY <1>4, <1>6, SharedUpdatesGrows
<1>8. Ordered(q) /\ Paired(q) /\ Fits(q)
  BY <1>7, GrownIs
<1> HIDE DEF q
<1>9. Grows(q, SharedWaits(q, queue))
  BY <1>4, <1>6, <1>8, SharedWaitsGrows
<1> QED BY <1>5, <1>7, <1>9, GrowsTransitive

\* shareWaitAndUpdateBarriers keeps the function in order.
THEOREM ShareGrows ==
    ASSUME NEW p, Ordered(p), Paired(p), Fits(p)
    PROVE  Grows(p, shareWaitAndUpdateBarriers(p))
<1> DEFINE base == p
           n == Cardinality(DmaFifos)
           w == Increasing(DmaFifos)
           T == [i \in 0 .. n |-> {q \in Shape : Grows(p, q)}]
           step == [i \in 1 .. n |-> [q \in T[i - 1] |-> QueueShared(q, w[i])]]
           f == CHOOSE g : g = [i \in 0 .. n |-> IF i = 0 THEN base ELSE QueueShared(g[i - 1], w[i])]
<1>1. n \in Nat
  <2>1. IsFiniteSet(1 .. NumFifos)
    BY FS_Interval, SizeAssumption
  <2>2. IsFiniteSet(DmaFifos)
    BY <2>1, FS_Subset, FifoAssumption DEF Fifo
  <2> QED BY <2>2, FS_CardinalityType
<1>2. base \in T[0]
  <2>1. Grows(p, p)
    BY GrowsItself
  <2> QED BY <1>1, <2>1, GrownIs
<1>3. \A i \in 1 .. n : \A q \in T[i - 1] : QueueShared(q, w[i]) \in T[i]
  <2> SUFFICES ASSUME NEW i \in 1 .. n, NEW q \in T[i - 1] PROVE QueueShared(q, w[i]) \in T[i]
    OBVIOUS
  <2>1. Grows(p, q)
    BY <1>1
  <2>2. Ordered(q) /\ Paired(q) /\ Fits(q)
    BY <2>1, GrownIs
  <2> HIDE DEF w
  <2>3. Grows(q, QueueShared(q, w[i]))
    BY <2>2, QueueSharedGrows
  <2>4. Grows(p, QueueShared(q, w[i]))
    BY <2>1, <2>3, GrowsTransitive
  <2>5. QueueShared(q, w[i]) \in Shape
    BY <2>4, GrownIs
  <2> QED BY <1>1, <2>4, <2>5
<1>4. \E g : g = [i \in 0 .. n |-> IF i = 0 THEN base ELSE QueueShared(g[i - 1], w[i])]
  <2>1. \A i \in 1 .. n : \A q \in T[i - 1] : step[i][q] = QueueShared(q, w[i])
    OBVIOUS
  <2> HIDE DEF step, base, n, w, T
  <2>2. \A i \in 1 .. n : \A q \in T[i - 1] : step[i][q] \in T[i]
    BY <1>3, <2>1
  <2>3. PICK g : Loops(g, n, base, step) /\ \A i \in 0 .. n : g[i] \in T[i]
    BY ONLY <1>1, <1>2, <2>2, LoopSolves
  <2>4. \A i \in 1 .. n : g[i - 1] \in T[i - 1] /\ step[i][g[i - 1]] = QueueShared(g[i - 1], w[i])
    BY <1>1, <2>1, <2>3
  <2>5. g = [i \in 0 .. n |-> IF i = 0 THEN base ELSE step[i][g[i - 1]]]
    BY <2>3 DEF Loops
  <2>6. \A i \in 0 .. n : i # 0 => step[i][g[i - 1]] = QueueShared(g[i - 1], w[i])
    BY ONLY <1>1, <2>4
  <2> QED BY ONLY <2>5, <2>6
<1>5. f = [i \in 0 .. n |-> IF i = 0 THEN base ELSE QueueShared(f[i - 1], w[i])]
  BY <1>4
<1>6. shareWaitAndUpdateBarriers(p) = f[n]
  BY DEF shareWaitAndUpdateBarriers, Iterate
<1>7. f[n] \in T[n]
  <2> HIDE DEF f, base, n, w, T
  <2>1. f[0] \in T[0]
    BY <1>1, <1>2, <1>5
  <2>2. \A i \in 1 .. n : f[i] = QueueShared(f[i - 1], w[i])
    BY ONLY <1>1, <1>5
  <2>3. \A i \in 1 .. n : f[i - 1] \in T[i - 1] => f[i] \in T[i]
    BY <1>3, <2>2
  <2> QED BY ONLY <1>1, <2>1, <2>3, LoopStays
<1> QED BY <1>1, <1>6, <1>7

-----------------------------------------------------------------------------
(* createProducerBatches.                                                  *)

\* More tasks may go into the last batch.
LEMMA PartsMerged ==
    ASSUME NEW b, NEW S, Parts(b, S), NEW U \in SUBSET Task, U # {}, InFront(S, U), NEW m, m = Len(b),
           NEW r, r = [b EXCEPT ![m] = U \cup b[m]]
    PROVE  Parts(r, S \cup U)
<1>1. /\ b \in Seq(SUBSET Task) /\ m \in Nat /\ m >= 1
      /\ \A i \in 1 .. m : b[i] # {}
      /\ \A i, j \in 1 .. m : i < j => \A s \in b[i], u \in b[j] : s < u
      /\ \A s : s \in S <=> \E i \in 1 .. m : s \in b[i]
  BY DEF Parts
<1>2. m \in 1 .. m /\ U \cup b[m] \in SUBSET Task
  BY <1>1
<1>3. r \in Seq(SUBSET Task) /\ Len(r) = m
  BY <1>1, <1>2
<1>4. \A i \in 1 .. m : r[i] = IF i = m THEN U \cup b[m] ELSE b[i]
  BY <1>1
<1>5. \A i \in 1 .. m : InFront(b[i], U)
  BY <1>1 DEF InFront
<1>6. ASSUME NEW i \in 1 .. m, NEW j \in 1 .. m, i < j, NEW s \in r[i], NEW u \in r[j] PROVE s < u
  <2>1. i # m /\ s \in b[i]
    BY <1>1, <1>4, <1>6
  <2>2. u \in b[j] \/ u \in U
    BY <1>4, <1>6
  <2> QED BY <1>1, <1>5, <1>6, <2>1, <2>2 DEF InFront
<1>7. \A i \in 1 .. m : r[i] # {}
  BY <1>1, <1>4
<1>8. \A s : s \in S \cup U <=> \E i \in 1 .. m : s \in r[i]
  BY <1>1, <1>2, <1>4
<1> QED BY <1>1, <1>3, <1>6, <1>7, <1>8 DEF Parts

\* The producers of one more barrier, behind those before.
LEMMA ProducersBatchedParts ==
    ASSUME NEW p, Ordered(p), Fits(p), NEW b, NEW S, Parts(b, S) \/ (b = <<>> /\ S = {}),
           NEW v, NEW U, U = Producers(p, v), U # {}, InFront(S, U), NEW byKind
    PROVE  Parts(ProducersBatched(p, b, v, byKind), S \cup U)
<1> DEFINE last == IF b = <<>> THEN {} ELSE b[Len(b)]
           more == IF SlotCount(p, U) <= AvailableSlots THEN <<U>> ELSE LegalVariantBatches(p, U, byKind)
<1>1. U \in SUBSET Task
  BY DEF Producers
<1>2. Parts(more, U)
  BY <1>1, PartsOne, LegalBatches
<1>3. CASE b # <<>> /\ SlotCount(p, U \cup last) <= AvailableSlots
  <2> DEFINE m == Len(b)
             r == [b EXCEPT ![m] = U \cup b[m]]
  <2>1. ProducersBatched(p, b, v, byKind) = r
    BY <1>3 DEF ProducersBatched
  <2>2. Parts(b, S)
    BY <1>3
  <2>3. m = Len(b) /\ r = [b EXCEPT ![m] = U \cup b[m]]
    OBVIOUS
  <2> HIDE DEF m, r
  <2>4. Parts(r, S \cup U)
    BY <1>1, <2>2, <2>3, PartsMerged
  <2> QED BY <2>1, <2>4
<1>4. CASE ~(b # <<>> /\ SlotCount(p, U \cup last) <= AvailableSlots)
  <2> DEFINE r == b \o more
  <2>1. ProducersBatched(p, b, v, byKind) = r
    BY <1>4 DEF ProducersBatched
  <2>2. CASE Parts(b, S)
    <3>1. r = b \o more
      OBVIOUS
    <3> HIDE DEF r, more
    <3>2. Parts(r, S \cup U)
      BY <1>2, <2>2, <3>1, PartsConcat
    <3> QED BY <2>1, <3>2
  <2>3. CASE b = <<>> /\ S = {}
    <3> HIDE DEF more
    <3>1. more \in Seq(SUBSET Task)
      BY <1>2 DEF Parts
    <3>2. r = more
      BY <2>3, <3>1
    <3> QED BY <1>2, <2>1, <2>3, <3>2
  <2> QED BY <2>2, <2>3
<1> QED BY <1>3, <1>4

\* Sets that come one after the other all come in order.
LEMMA NeighboursInFront ==
    ASSUME NEW n \in Nat, NEW f, \A i \in 1 .. n : f[i] # {} /\ f[i] \subseteq Task,
           \A i \in 1 .. n - 1 : InFront(f[i], f[i + 1])
    PROVE  \A i, j \in 1 .. n : i < j => InFront(f[i], f[j])
<1> SUFFICES ASSUME NEW i \in 1 .. n PROVE \A j \in i + 1 .. n : InFront(f[i], f[j])
  OBVIOUS
<1> DEFINE Bad == {j \in i + 1 .. n : ~InFront(f[i], f[j])}
<1> SUFFICES ASSUME Bad # {} PROVE FALSE
  OBVIOUS
<1>1. PICK j \in Bad : \A k \in Bad : j <= k
  <2>1. Bad \in SUBSET Nat
    OBVIOUS
  <2> HIDE DEF Bad
  <2> QED BY <2>1, LeastElement
<1>2. CASE j = i + 1
  <2>1. i \in 1 .. n - 1
    BY <1>1, <1>2
  <2> QED BY <1>1, <1>2, <2>1
<1>3. CASE j # i + 1
  <2>1. j - 1 \in i + 1 .. n /\ j - 1 \in 1 .. n - 1 /\ j - 1 + 1 = j
    BY <1>1, <1>3
  <2>2. InFront(f[i], f[j - 1]) /\ InFront(f[j - 1], f[j])
    <3>1. j - 1 \notin Bad
      BY <1>1, <2>1
    <3> QED BY <2>1, <3>1
  <2>3. f[i] \subseteq Task /\ f[j] \subseteq Task /\ f[j - 1] \subseteq Task /\ f[j - 1] # {}
    BY <2>1
  <2>4. \A x \in Task : x \in Nat
    BY DEF Task
  <2>5. ASSUME NEW s \in f[i], NEW u \in f[j] PROVE s < u
    <3>1. PICK x \in f[j - 1] : TRUE
      BY <2>3
    <3>2. s < x /\ x < u
      BY <2>2, <3>1 DEF InFront
    <3>3. s \in Nat /\ x \in Nat /\ u \in Nat
      BY <2>3, <2>4, <3>1
    <3> QED BY <3>2, <3>3
  <2> QED BY <1>1, <2>5 DEF InFront
<1> QED BY <1>2, <1>3

\* createProducerBatches distributes all the producers in their order.
LEMMA ProducerBatchesParts ==
    ASSUME NEW p, Ordered(p), Fits(p), NEW waits \in Seq(Nat), Len(waits) # 0,
           \A i \in 1 .. Len(waits) : Producers(p, waits[i]) # {}, ProducersInOrder(p, waits), NEW byKind
    PROVE  Parts(ProducerBatches(p, waits, byKind), UNION {Producers(p, waits[i]) : i \in 1 .. Len(waits)})
<1> DEFINE base == <<>>
           n == Len(waits)
           P == [i \in 1 .. n |-> Producers(p, waits[i])]
           S(i) == UNION {P[k] : k \in 1 .. i}
           T == [i \in 0 .. n |-> {b \in Seq(SUBSET Task) : IF i = 0 THEN b = <<>> ELSE Parts(b, S(i))}]
           step == [i \in 1 .. n |-> [q \in T[i - 1] |-> ProducersBatched(p, q, waits[i], byKind)]]
           f == CHOOSE g : g = [i \in 0 .. n |-> IF i = 0 THEN base ELSE ProducersBatched(p, g[i - 1], waits[i], byKind)]
<1>a. n \in Nat /\ n # 0
  OBVIOUS
<1>b. \A i, j \in 1 .. n : i < j => InFront(P[i], P[j])
  <2>1. \A i \in 1 .. n - 1 : InFront(P[i], P[i + 1])
    <3> SUFFICES ASSUME NEW i \in 1 .. n - 1 PROVE InFront(P[i], P[i + 1])
      OBVIOUS
    <3>1. i \in 1 .. n /\ i + 1 \in 1 .. n /\ i \in 1 .. Len(waits) - 1
      BY <1>a
    <3>2. P[i] = Producers(p, waits[i]) /\ P[i + 1] = Producers(p, waits[i + 1])
      BY <3>1
    <3> QED BY <3>1, <3>2 DEF ProducersInOrder, InFront
  <2>2. \A i \in 1 .. n : P[i] # {} /\ P[i] \subseteq Task
    BY DEF Producers
  <2> HIDE DEF P, n
  <2> QED BY <1>a, <2>1, <2>2, NeighboursInFront
<1>1. n \in Nat
  OBVIOUS
<1>2. base \in T[0]
  BY <1>1
<1>3. \A i \in 1 .. n : \A q \in T[i - 1] : ProducersBatched(p, q, waits[i], byKind) \in T[i]
  <2> SUFFICES ASSUME NEW i \in 1 .. n, NEW q \in T[i - 1]
               PROVE ProducersBatched(p, q, waits[i], byKind) \in T[i]
    OBVIOUS
  <2> DEFINE U == P[i]
             r == ProducersBatched(p, q, waits[i], byKind)
  <2>1. i \in 0 .. n /\ i - 1 \in 0 .. n /\ i # 0
    BY <1>1
  <2>2. Parts(q, S(i - 1)) \/ (q = <<>> /\ S(i - 1) = {})
    <3>1. CASE i = 1
      <4>1. q = <<>> /\ i - 1 = 0
        BY <2>1, <3>1
      <4>2. S(0) = {}
        BY <1>1
      <4> QED BY <4>1, <4>2
    <3>2. CASE i # 1
      <4>1. i - 1 # 0
        BY <2>1, <3>2
      <4> HIDE DEF S
      <4> QED BY <2>1, <4>1
    <3> QED BY <3>1, <3>2
  <2>3. InFront(S(i - 1), U)
    <3>1. \A k \in 1 .. i - 1 : InFront(P[k], P[i])
      BY <1>1, <1>b
    <3> QED BY <3>1 DEF InFront
  <2>4. S(i) = S(i - 1) \cup U
    <3>1. 1 .. i = (1 .. i - 1) \cup {i}
      BY <1>1
    <3> QED BY <3>1
  <2>5. U = Producers(p, waits[i]) /\ U # {}
    BY <1>1
  <2> HIDE DEF S, U, P
  <2>6. Parts(r, S(i))
    <3> DEFINE R == S(i - 1)
               v == waits[i]
    <3>1. /\ Ordered(p) /\ Fits(p) /\ (Parts(q, R) \/ (q = <<>> /\ R = {}))
          /\ U = Producers(p, v) /\ U # {} /\ InFront(R, U) /\ S(i) = R \cup U
      BY <2>2, <2>3, <2>4, <2>5
    <3>2. r = ProducersBatched(p, q, v, byKind)
      OBVIOUS
    <3> HIDE DEF R, v, r
    <3>3. Parts(r, R \cup U)
      BY ONLY <3>1, <3>2, ProducersBatchedParts
    <3> QED BY <3>1, <3>3
  <2>7. r \in Seq(SUBSET Task)
    BY <2>6 DEF Parts
  <2> HIDE DEF r
  <2>8. r \in T[i]
    BY <2>1, <2>6, <2>7
  <2> QED BY <2>8 DEF r
<1>4. \E g : g = [i \in 0 .. n |-> IF i = 0 THEN base ELSE ProducersBatched(p, g[i - 1], waits[i], byKind)]
  <2>1. \A i \in 1 .. n : \A q \in T[i - 1] : step[i][q] = ProducersBatched(p, q, waits[i], byKind)
    OBVIOUS
  <2> HIDE DEF step, base, n, P, S, T
  <2>2. \A i \in 1 .. n : \A q \in T[i - 1] : step[i][q] \in T[i]
    BY <1>3, <2>1
  <2>3. PICK g : Loops(g, n, base, step) /\ \A i \in 0 .. n : g[i] \in T[i]
    BY ONLY <1>1, <1>2, <2>2, LoopSolves
  <2>4. \A i \in 1 .. n : g[i - 1] \in T[i - 1] /\ step[i][g[i - 1]] = ProducersBatched(p, g[i - 1], waits[i], byKind)
    BY <1>1, <2>1, <2>3
  <2>5. g = [i \in 0 .. n |-> IF i = 0 THEN base ELSE step[i][g[i - 1]]]
    BY <2>3 DEF Loops
  <2>6. \A i \in 0 .. n : i # 0 => step[i][g[i - 1]] = ProducersBatched(p, g[i - 1], waits[i], byKind)
    BY ONLY <1>1, <2>4
  <2> QED BY ONLY <2>5, <2>6
<1>5. f = [i \in 0 .. n |-> IF i = 0 THEN base ELSE ProducersBatched(p, f[i - 1], waits[i], byKind)]
  BY <1>4
<1>6. ProducerBatches(p, waits, byKind) = f[n]
  BY DEF ProducerBatches, Iterate
<1>7. f[n] \in T[n]
  <2> HIDE DEF f, base, n, P, S, T
  <2>1. f[0] \in T[0]
    BY <1>1, <1>2, <1>5
  <2>2. \A i \in 1 .. n : f[i] = ProducersBatched(p, f[i - 1], waits[i], byKind)
    BY ONLY <1>1, <1>5
  <2>3. \A i \in 1 .. n : f[i - 1] \in T[i - 1] => f[i] \in T[i]
    BY <1>3, <2>2
  <2> QED BY ONLY <1>1, <2>1, <2>3, LoopStays
<1>8. T[n] = {b \in Seq(SUBSET Task) : Parts(b, S(n))}
  BY <1>1, <1>a
<1>9. S(n) = UNION {Producers(p, waits[i]) : i \in 1 .. Len(waits)}
  OBVIOUS
<1> QED BY <1>6, <1>7, <1>8, <1>9

\* Whatever the order the task lists its wait barriers in.
LEMMA LinearizedProducersParts ==
    ASSUME NEW p, Ordered(p), Paired(p), Fits(p), NEW t \in Task, p.waits[t] # {}, NEW byKind,
           NEW b \in LinearizedProducers(p, t, byKind)
    PROVE  Parts(b, Predecessors(p, t))
<1> DEFINE S == p.waits[t]
           n == Cardinality(S)
<1>1. \A v \in S : Producers(p, v) # {}
  BY DEF Ordered, Paired, Consumers
<1>2. Predecessors(p, t) \in SUBSET Task /\ Predecessors(p, t) # {}
  BY <1>1 DEF Predecessors, Producers
<1>3. n \in Nat /\ n # 0 /\ S \in SUBSET Nat
  <2> DEFINE m == p.bars
  <2>1. m \in Nat /\ S \subseteq 1 .. m
    BY DEF Ordered, Barriers
  <2> HIDE DEF m, S
  <2>2. IsFiniteSet(1 .. m)
    BY <2>1, FS_Interval
  <2>3. IsFiniteSet(S)
    BY <2>1, <2>2, FS_Subset
  <2>4. S # {}
    BY DEF S
  <2> QED BY <2>1, <2>3, <2>4, FS_CardinalityType, FS_EmptySet
<1>4. PICK waits \in Listings(S) :
          b = IF ProducersInOrder(p, waits) THEN ProducerBatches(p, waits, byKind)
              ELSE LegalVariantBatches(p, Predecessors(p, t), byKind)
  BY DEF LinearizedProducers
<1>5. CASE ProducersInOrder(p, waits)
  <2>1. waits \in [1 .. n -> S] /\ \A x \in S : \E i \in 1 .. n : waits[i] = x
    BY <1>4 DEF Listings
  <2> HIDE DEF n, S
  <2>2. waits \in Seq(Nat) /\ Len(waits) = n
    <3>1. waits \in [1 .. n -> Nat]
      BY <1>3, <2>1
    <3> QED BY ONLY <1>3, <3>1
  <2>3. \A i \in 1 .. n : waits[i] \in S
    BY <2>1
  <2>4. UNION {Producers(p, waits[i]) : i \in 1 .. n} = Predecessors(p, t)
    BY <2>1, <2>3 DEF Predecessors, S
  <2>5. Parts(ProducerBatches(p, waits, byKind), UNION {Producers(p, waits[i]) : i \in 1 .. n})
    BY <1>1, <1>3, <1>5, <2>2, <2>3, ProducerBatchesParts
  <2> QED BY <1>4, <1>5, <2>4, <2>5
<1>6. CASE ~ProducersInOrder(p, waits)
  BY <1>2, <1>4, <1>6, LegalBatches
<1> QED BY <1>5, <1>6

-----------------------------------------------------------------------------
(* eliminateParallelWaitBarriers.                                          *)

(* The new barriers lead past those that tasks do not wait for any more.   *)
WaitsBridged(r, p, waits, tasks) ==
    \A v \in waits : \A s \in Producers(p, v), u \in tasks : u \in BarrierControlMap(r)[s]

\* unlinkTaskFromParallelBarriers after new barriers were added.
LEMMA UnlinkedGrows ==
    ASSUME NEW p, Ordered(p), Paired(p), NEW P, NEW C, Links(P, C), NEW q, q = WithBarriers(p, P, C),
           NEW waits \in SUBSET Barriers(p), NEW tasks \in SUBSET Task, tasks # {},
           \A v \in waits : tasks \subseteq Consumers(p, v),
           NEW r, r = Unlinked(q, waits, tasks)
    PROVE  /\ Ordered(r) /\ Paired(r) /\ Linking(r, P, C)
           /\ WaitsBridged(r, p, waits, tasks) => Grows(p, r)
<1> DEFINE gone == {v \in waits : Consumers(q, v) = tasks}
<1>0. /\ P \in Seq(SUBSET Task) /\ C \in Seq(SUBSET Task) /\ Len(C) = Len(P)
      /\ \A j \in 1 .. Len(P) : P[j] # {} /\ C[j] # {} /\ \A t \in P[j], u \in C[j] : t < u
  BY DEF Links
<1>1. /\ q.bars = p.bars + Len(P)
      /\ \A v \in Barriers(p) : Producers(q, v) = Producers(p, v) /\ Consumers(q, v) = Consumers(p, v)
      /\ \A j \in 1 .. Len(P) : Producers(q, p.bars + j) = P[j] /\ Consumers(q, p.bars + j) = C[j]
  BY <1>0, WithBarriersIs
<1>2. Keeps(p, q)
  BY <1>0, WithBarriersKeeps
<1>3. Ordered(q) /\ Paired(q)
  BY <1>2 DEF Keeps
<1>4. /\ r.fifo = q.fifo /\ r.count = q.count /\ r.bars = q.bars
      /\ r.posts = [t \in Task |-> q.posts[t] \ gone]
      /\ r.waits = [t \in Task |-> (IF t \in tasks THEN q.waits[t] \ waits ELSE q.waits[t]) \ gone]
      /\ r = [fifo |-> r.fifo, waits |-> r.waits, posts |-> r.posts, count |-> r.count, bars |-> r.bars]
  BY <1>3 DEF Unlinked, WithoutBarriers, Ordered
<1> HIDE DEF gone
<1>5. \A t \in Task : /\ r.posts[t] = q.posts[t] \ gone
                      /\ r.waits[t] = (IF t \in tasks THEN q.waits[t] \ waits ELSE q.waits[t]) \ gone
                      /\ r.posts[t] \subseteq q.posts[t] /\ r.waits[t] \subseteq q.waits[t]
  BY <1>4
<1>6. p.bars \in Nat /\ Len(P) \in Nat
  BY <1>0 DEF Ordered
<1>7. Ordered(r)
  <2>1. \A t \in Task : q.posts[t] \subseteq Nat /\ q.waits[t] \subseteq Nat
    BY <1>3 DEF Ordered
  <2>2. r.posts \in [Task -> SUBSET Nat] /\ r.waits \in [Task -> SUBSET Nat]
    BY <1>4, <1>5, <2>1
  <2>3. \A t, u \in Task : r.posts[t] \cap r.waits[u] # {} => t < u
    BY <1>3, <1>5 DEF Ordered
  <2>4. \A t \in Task : r.waits[t] \cup r.posts[t] \subseteq Barriers(r)
    BY <1>3, <1>4, <1>5 DEF Ordered, Barriers
  <2> QED BY <1>3, <1>4, <2>2, <2>3, <2>4 DEF Ordered
<1>8. \A v \in gone : v \in waits /\ Consumers(q, v) = tasks
  BY DEF gone
<1>9. \A v : v \notin waits => Producers(r, v) = Producers(q, v) /\ Consumers(r, v) = Consumers(q, v)
  BY <1>5, <1>8 DEF Producers, Consumers
<1>10. Paired(r)
  <2> SUFFICES ASSUME NEW v \in Barriers(r) PROVE Producers(r, v) = {} <=> Consumers(r, v) = {}
    BY DEF Paired
  <2>1. CASE v \notin waits
    BY <1>3, <1>4, <1>9, <2>1 DEF Paired, Barriers
  <2>2. CASE v \in gone
    BY <1>5, <2>2 DEF Producers, Consumers
  <2>3. CASE v \in waits /\ v \notin gone
    <3>1. Producers(r, v) = Producers(q, v)
      BY <1>5, <2>3 DEF Producers
    <3>2. Consumers(r, v) = Consumers(q, v) \ tasks
      BY <1>5, <2>3 DEF Consumers
    <3>3. tasks \subseteq Consumers(q, v) /\ Consumers(q, v) # tasks
      BY <1>1, <2>3 DEF gone
    <3>4. Producers(q, v) # {}
      BY <1>3, <1>4, <3>3 DEF Paired, Barriers
    <3> QED BY <3>1, <3>2, <3>3, <3>4
  <2> QED BY <2>1, <2>2, <2>3
<1>11. Linking(r, P, C)
  <2> SUFFICES ASSUME NEW j \in 1 .. Len(P), NEW t \in P[j], NEW u \in C[j]
               PROVE  u \in BarrierControlMap(r)[t]
    BY DEF Linking
  <2>1. P[j] \subseteq Task /\ C[j] \subseteq Task
    BY <1>0
  <2>2. p.bars + j \notin waits
    BY <1>6 DEF Barriers
  <2>3. t \in Producers(r, p.bars + j) /\ u \in Consumers(r, p.bars + j)
    BY <1>1, <1>9, <2>2
  <2>4. u \in Steps(r)[t]
    BY <1>7, <2>1, <2>3, StepIs DEF Producers, Consumers
  <2> QED BY <1>7, <2>1, <2>4, PathsGoOn
<1>12. ASSUME WaitsBridged(r, p, waits, tasks) PROVE Grows(p, r)
  <2>1. ASSUME NEW t \in Task, NEW u \in Steps(q)[t] PROVE u \in BarrierControlMap(r)[t]
    <3>1. u \in Task
      BY <1>3, StepIs
    <3>2. PICK v : v \in q.posts[t] /\ v \in q.waits[u]
      BY <1>3, <3>1, StepIs
    <3>3. CASE v \in waits /\ u \in tasks
      <4>1. t \in Producers(p, v)
        BY <1>1, <3>2, <3>3 DEF Producers
      <4> QED BY <1>12, <3>3, <4>1 DEF WaitsBridged
    <3>4. CASE ~(v \in waits /\ u \in tasks)
      <4>1. v \notin gone
        BY <1>8, <3>1, <3>2, <3>4 DEF Consumers
      <4>2. v \in r.posts[t] /\ v \in r.waits[u]
        BY <1>5, <3>1, <3>2, <3>4, <4>1
      <4>3. u \in Steps(r)[t]
        BY <1>7, <3>1, <4>2, StepIs
      <4> QED BY <1>7, <4>3, PathsGoOn
    <3> QED BY <3>3, <3>4
  <2>2. Keeps(q, r)
    BY <1>3, <1>4, <1>7, <1>10, <2>1, KeepsBySteps
  <2>3. p.bars <= r.bars
    BY <1>1, <1>4, <1>6
  <2> QED BY <1>2, <2>2, <2>3, KeepsTransitive DEF Grows
<1> QED BY <1>7, <1>10, <1>11, <1>12

\* There is a task that gets a new wait barrier.
LEMMA ParallelConsumersIs ==
    ASSUME NEW p, Ordered(p), Fits(p), NEW t \in Task, NEW uneven,
           NEW merged \in ParallelConsumers(p, t, uneven)
    PROVE  merged \in SUBSET Task /\ merged # {} /\ \A c \in merged : p.waits[c] = p.waits[t]
<1> DEFINE alike == {c \in Task : p.waits[c] = p.waits[t]}
           slots == ConsumerSlots(p, t, uneven)
<1>1. /\ merged \in SUBSET alike
      /\ merged = alike \/ \E c \in alike \ merged : ~(SlotCount(p, merged \cup {c}) <= slots)
  BY DEF ParallelConsumers
<1>2. t \in alike
  OBVIOUS
<1>3. \A c \in alike : p.count[c] <= slots
  BY DEF ConsumerSlots, Fits
<1>4. merged # {}
  <2> SUFFICES ASSUME merged = {} PROVE FALSE
    OBVIOUS
  <2>1. PICK c \in alike : ~(SlotCount(p, merged \cup {c}) <= slots)
    BY <1>1, <1>2
  <2>2. merged \cup {c} = {c}
    OBVIOUS
  <2>3. SlotCount(p, {c}) = p.count[c]
    BY SlotsOfOne
  <2> HIDE DEF slots, alike
  <2> QED BY <1>3, <2>1, <2>2, <2>3
<1> QED BY <1>1, <1>4

\* Each outcome keeps the function in order.
LEMMA EliminatedGrows ==
    ASSUME NEW p, Ordered(p), Paired(p), Fits(p), NEW t \in Task, p.waits[t] # {},
           NEW byKind, NEW uneven, NEW r \in eliminateParallelWaitBarriers(p, t, byKind, uneven)
    PROVE  Grows(p, r)
<1> DEFINE waits == p.waits[t]
           before == Predecessors(p, t)
           mergeable == SlotCount(p, before) <= 2 * AvailableSlots - ConsumerSlots(p, t, uneven)
           LinkedTo(m) == IF mergeable THEN {WithBarrier(p, before, m)}
                          ELSE {Chained(p, Append(b, m)) : b \in LinearizedProducers(p, t, byKind)}
<1>1. PICK tasks \in ParallelConsumers(p, t, uneven) : \E q \in LinkedTo(tasks) : r = Unlinked(q, waits, tasks)
  BY DEF eliminateParallelWaitBarriers
<1>2. PICK q \in LinkedTo(tasks) : r = Unlinked(q, waits, tasks)
  BY <1>1
<1>3. tasks \in SUBSET Task /\ tasks # {} /\ \A c \in tasks : p.waits[c] = waits
  BY ParallelConsumersIs
<1>4. /\ waits \in SUBSET Barriers(p)
      /\ \A v \in waits : tasks \subseteq Consumers(p, v)
  BY <1>3 DEF Ordered, Consumers
<1>5. before \in SUBSET Task /\ before # {} /\ \A v \in waits : Producers(p, v) \subseteq before
  BY DEF Predecessors, Producers, Ordered, Paired, Consumers
<1>6. InFront(before, tasks)
  BY <1>3 DEF InFront, Predecessors, Producers, Ordered
<1>a. Ordered(p) /\ Paired(p)
  OBVIOUS
<1>7. CASE mergeable
  <2> DEFINE P == <<before>>
             C == <<tasks>>
  <2>1. q = WithBarriers(p, P, C)
    BY <1>2, <1>7 DEF WithBarrier
  <2> HIDE DEF before, waits, LinkedTo, mergeable
  <2>2. P \in Seq(SUBSET Task) /\ C \in Seq(SUBSET Task) /\ Len(P) = 1 /\ Len(C) = 1
        /\ P[1] = before /\ C[1] = tasks
    BY <1>3, <1>5
  <2> HIDE DEF P, C
  <2>3. Links(P, C)
    BY <1>3, <1>5, <1>6, <2>2 DEF Links, InFront
  <2>4. Linking(r, P, C) /\ (WaitsBridged(r, p, waits, tasks) => Grows(p, r))
    BY ONLY <1>a, <1>2, <1>3, <1>4, <2>1, <2>3, UnlinkedGrows
  <2>5. WaitsBridged(r, p, waits, tasks)
    BY <1>5, <2>2, <2>4 DEF WaitsBridged, Linking
  <2> QED BY <2>4, <2>5
<1>8. CASE ~mergeable
  <2>1. PICK b \in LinearizedProducers(p, t, byKind) : q = Chained(p, Append(b, tasks))
    BY <1>2, <1>8
  <2>2. Parts(b, before)
    BY <2>1, LinearizedProducersParts
  <2> DEFINE sets == Append(b, tasks)
             n == Len(sets) - 1
             P == [i \in 1 .. n |-> sets[i]]
             C == [i \in 1 .. n |-> sets[i + 1]]
  <2> HIDE DEF before, waits, LinkedTo, mergeable
  <2>3. Parts(sets, before \cup tasks) /\ Crossed(sets, before, tasks)
    BY <1>3, <1>6, <2>2, PartsThen
  <2>4. q = WithBarriers(p, P, C)
    BY <2>1 DEF Chained
  <2> HIDE DEF sets
  <2>5. /\ sets \in Seq(SUBSET Task) /\ n \in Nat /\ Len(sets) = n + 1
        /\ \A i \in 1 .. n + 1 : sets[i] # {} /\ sets[i] \in SUBSET Task
        /\ \A i, j \in 1 .. n + 1 : i < j => \A s \in sets[i], u \in sets[j] : s < u
    BY <2>3 DEF Parts
  <2> HIDE DEF n
  <2>6. /\ P \in Seq(SUBSET Task) /\ C \in Seq(SUBSET Task) /\ Len(P) = n /\ Len(C) = n
        /\ \A j \in 1 .. n : P[j] = sets[j] /\ C[j] = sets[j + 1]
    BY <2>5
  <2> HIDE DEF P, C
  <2>7. Links(P, C)
    BY <2>5, <2>6 DEF Links
  <2>8. /\ Ordered(r) /\ Linking(r, P, C)
        /\ WaitsBridged(r, p, waits, tasks) => Grows(p, r)
    BY ONLY <1>a, <1>2, <1>3, <1>4, <2>4, <2>7, UnlinkedGrows
  <2>9. \A i, j \in 1 .. n + 1 : i < j =>
            \A s \in sets[i], u \in sets[j] : u \in BarrierControlMap(r)[s]
    <3>1. \A i \in 1 .. n : \A s \in sets[i], u \in sets[i + 1] : u \in BarrierControlMap(r)[s]
      BY <2>6, <2>8 DEF Linking
    <3>2. Len(sets) - 1 = n
      BY <2>5
    <3> QED BY <2>5, <2>8, <3>1, <3>2, ChainPaths
  <2>10. WaitsBridged(r, p, waits, tasks)
    BY <1>5, <2>3, <2>5, <2>9 DEF WaitsBridged, Crossed
  <2> QED BY <2>8, <2>10
<1> QED BY <1>7, <1>8

\* One walk through the tasks, whatever the outcomes.
THEOREM EliminationGrows ==
    ASSUME NEW p, Ordered(p), Paired(p), Fits(p), NEW byKind, NEW uneven
    PROVE  \A r \in ParallelWaitsEliminated(p, byKind, uneven) : Grows(p, r)
<1> DEFINE base == {p}
           n == NumTasks
           T == [i \in 0 .. n |-> SUBSET {r \in Shape : Grows(p, r)}]
           step == [i \in 1 .. n |-> [q \in T[i - 1] |-> TaskEnsured(q, i, byKind, uneven)]]
           f == CHOOSE g : g = [i \in 0 .. n |-> IF i = 0 THEN base ELSE TaskEnsured(g[i - 1], i, byKind, uneven)]
<1>1. n \in Nat
  BY SizeAssumption
<1>2. base \in T[0]
  <2>1. Grows(p, p)
    BY GrowsItself
  <2> QED BY <1>1, <2>1, GrownIs
<1>3. \A i \in 1 .. n : \A q \in T[i - 1] : TaskEnsured(q, i, byKind, uneven) \in T[i]
  <2> SUFFICES ASSUME NEW i \in 1 .. n, NEW q \in T[i - 1],
                      NEW r \in TaskEnsured(q, i, byKind, uneven)
               PROVE  r \in Shape /\ Grows(p, r)
    BY <1>1
  <2>1. PICK s \in q : r \in IF i \in ParallelWaits(s)
                             THEN eliminateParallelWaitBarriers(s, i, byKind, uneven) ELSE {s}
    BY DEF TaskEnsured
  <2>2. Grows(p, s) /\ s \in Shape
    BY <1>1, <2>1
  <2>3. CASE i \notin ParallelWaits(s)
    BY <2>1, <2>2, <2>3
  <2>4. CASE i \in ParallelWaits(s)
    <3>0. i \in Task /\ Cardinality(s.waits[i]) > 1
      BY <2>4 DEF ParallelWaits
    <3>a. Cardinality({}) = 0
      BY FS_EmptySet
    <3>1. i \in Task /\ s.waits[i] # {}
      <4> SUFFICES ASSUME s.waits[i] = {} PROVE FALSE
        BY <3>0
      <4>1. Cardinality(s.waits[i]) = 0
        BY <3>a
      <4> QED BY <3>0, <4>1
    <3>2. Ordered(s) /\ Paired(s) /\ Fits(s)
      BY <2>2, GrownIs
    <3>3. Grows(s, r)
      BY <2>1, <2>4, <3>1, <3>2, EliminatedGrows
    <3>4. Grows(p, r)
      BY <2>2, <3>3, GrowsTransitive
    <3> QED BY <3>4, GrownIs
  <2> QED BY <2>3, <2>4
<1>4. \E g : g = [i \in 0 .. n |-> IF i = 0 THEN base ELSE TaskEnsured(g[i - 1], i, byKind, uneven)]
  <2>1. \A i \in 1 .. n : \A q \in T[i - 1] : step[i][q] = TaskEnsured(q, i, byKind, uneven)
    OBVIOUS
  <2> HIDE DEF step, base, n, T
  <2>2. \A i \in 1 .. n : \A q \in T[i - 1] : step[i][q] \in T[i]
    BY <1>3, <2>1
  <2>3. PICK g : Loops(g, n, base, step) /\ \A i \in 0 .. n : g[i] \in T[i]
    BY ONLY <1>1, <1>2, <2>2, LoopSolves
  <2>4. \A i \in 1 .. n : g[i - 1] \in T[i - 1] /\ step[i][g[i - 1]] = TaskEnsured(g[i - 1], i, byKind, uneven)
    BY <1>1, <2>1, <2>3
  <2>5. g = [i \in 0 .. n |-> IF i = 0 THEN base ELSE step[i][g[i - 1]]]
    BY <2>3 DEF Loops
  <2>6. \A i \in 0 .. n : i # 0 => step[i][g[i - 1]] = TaskEnsured(g[i - 1], i, byKind, uneven)
    BY ONLY <1>1, <2>4
  <2> QED BY ONLY <2>5, <2>6
<1>5. f = [i \in 0 .. n |-> IF i = 0 THEN base ELSE TaskEnsured(f[i - 1], i, byKind, uneven)]
  BY <1>4
<1>6. ParallelWaitsEliminated(p, byKind, uneven) = f[n]
  BY DEF ParallelWaitsEliminated, Iterate
<1>7. f[n] \in T[n]
  <2> HIDE DEF f, base, n, T
  <2>1. f[0] \in T[0]
    BY <1>1, <1>2, <1>5
  <2>2. \A i \in 1 .. n : f[i] = TaskEnsured(f[i - 1], i, byKind, uneven)
    BY ONLY <1>1, <1>5
  <2>3. \A i \in 1 .. n : f[i - 1] \in T[i - 1] => f[i] \in T[i]
    BY <1>3, <2>2
  <2> QED BY ONLY <1>1, <2>1, <2>3, LoopStays
<1>8. T[n] = SUBSET {r \in Shape : Grows(p, r)}
  BY <1>1
<1> QED BY <1>6, <1>7, <1>8

-----------------------------------------------------------------------------
(* linearizeBarriers.                                                      *)

\* A new barrier between tasks in order.
LEMMA WithBarrierGrows ==
    ASSUME NEW p, Ordered(p), Paired(p), NEW A \in SUBSET Task, A # {}, NEW B \in SUBSET Task, B # {},
           InFront(A, B)
    PROVE  Grows(p, WithBarrier(p, A, B))
<1> DEFINE P == <<A>>
           C == <<B>>
           q == WithBarriers(p, P, C)
<1>1. WithBarrier(p, A, B) = q
  BY DEF WithBarrier
<1>2. P \in Seq(SUBSET Task) /\ C \in Seq(SUBSET Task) /\ Len(P) = 1 /\ Len(C) = 1 /\ P[1] = A /\ C[1] = B
  OBVIOUS
<1> HIDE DEF P, C
<1>3. \A j \in 1 .. Len(P) : P[j] # {} /\ C[j] # {} /\ \A t \in P[j], u \in C[j] : t < u
  BY <1>2 DEF InFront
<1>4. Len(C) = Len(P) /\ q = WithBarriers(p, P, C)
  BY <1>2
<1> HIDE DEF q
<1>5. Keeps(p, q)
  BY <1>2, <1>3, <1>4, WithBarriersKeeps
<1>6. q.bars = p.bars + Len(P)
  BY ONLY Ordered(p), <1>2, <1>4, WithBarriersIs
<1>7. p.bars \in Nat
  BY DEF Ordered
<1> QED BY <1>1, <1>2, <1>5, <1>6, <1>7 DEF Grows

\* A group has a task at least and ends with the list at the latest.
LEMMA GroupEnds ==
    ASSUME NEW p, NEW tasks, Len(tasks) \in Nat, NEW i \in 1 .. Len(tasks)
    PROVE  GroupEnd(p, tasks, i) \in i + 1 .. Len(tasks) + 1
<1> DEFINE n == Len(tasks)
           J == {j \in i + 1 .. n :
                    \/ p.waits[tasks[j]] # p.waits[tasks[i]]
                    \/ p.posts[tasks[j]] # p.posts[tasks[i]]
                    \/ SlotCount(p, {tasks[k] : k \in i .. j}) > AvailableSlots}
           S == {n + 1} \cup J
<1>1. GroupEnd(p, tasks, i) = Least(S)
  BY DEF GroupEnd
<1>2. J \subseteq i + 1 .. n
  OBVIOUS
<1> HIDE DEF J, n
<1>3. n \in Nat /\ i \in 1 .. n
  BY DEF n
<1>4. S \in SUBSET Nat /\ S # {} /\ S \subseteq i + 1 .. n + 1
  BY <1>2, <1>3
<1> HIDE DEF S
<1>5. \E x \in S : \A y \in S : x <= y
  BY <1>4, LeastElement
<1>6. Least(S) \in S
  BY <1>5 DEF Least
<1> QED BY <1>1, <1>4, <1>6 DEF n

\* One round of linearizeBarriers over the tasks of a batch.
LEMMA GroupLinearizedGrows ==
    ASSUME NEW s \in [p : Shape, group : Nat], Ordered(s.p), Paired(s.p), NEW tasks \in Seq(Task),
           \A i, j \in 1 .. Len(tasks) : i < j => tasks[i] < tasks[j], NEW i \in 1 .. Len(tasks), NEW paths
    PROVE  GroupLinearized(s, i, tasks, paths) \in [p : Shape, group : Nat]
           /\ Grows(s.p, GroupLinearized(s, i, tasks, paths).p)
<1> DEFINE n == Len(tasks)
           next == GroupEnd(s.p, tasks, i)
           End(k) == GroupEnd(s.p, tasks, k)
           A == {tasks[k] : k \in i .. next - 1}
           B == {tasks[k] : k \in next .. End(next) - 1}
           q == IF tasks[next] \in paths[tasks[i]] THEN s.p ELSE WithBarrier(s.p, A, B)
           r == GroupLinearized(s, i, tasks, paths)
<1>1. s.p \in Shape /\ Grows(s.p, s.p)
  BY GrowsItself
<1>2. CASE i # s.group \/ next > n
  <2>1. r = s
    BY <1>2 DEF GroupLinearized
  <2> QED BY <1>1, <2>1
<1>3. CASE ~(i # s.group \/ next > n)
  <2>1. r = [p |-> q, group |-> next]
    BY <1>3 DEF GroupLinearized
  <2>2. n \in Nat /\ next \in i + 1 .. n + 1
    BY GroupEnds
  <2>3. next \in 1 .. n
    BY <1>3, <2>2
  <2>4. End(next) \in next + 1 .. n + 1
    BY <2>2, <2>3, GroupEnds
  <2> HIDE DEF n, next, End
  <2>5. i \in 1 .. n /\ i \in i .. next - 1 /\ next \in next .. End(next) - 1
    BY <2>2, <2>3, <2>4 DEF n
  <2>6. \A k \in i .. next - 1 : k \in 1 .. n /\ k < next
    BY <2>2, <2>3, <2>5
  <2>7. \A k \in next .. End(next) - 1 : k \in 1 .. n
    BY <2>2, <2>3, <2>4
  <2>8. A \in SUBSET Task /\ A # {} /\ B \in SUBSET Task /\ B # {}
    BY <2>5, <2>6, <2>7 DEF n
  <2>9. InFront(A, B)
    <3>1. ASSUME NEW k \in i .. next - 1, NEW l \in next .. End(next) - 1 PROVE tasks[k] < tasks[l]
      <4>1. k \in 1 .. n /\ l \in 1 .. n /\ k < l
        BY <2>3, <2>4, <2>6, <2>7
      <4> QED BY <4>1 DEF n
    <3> QED BY <3>1 DEF InFront
  <2> HIDE DEF A, B
  <2>10. Grows(s.p, WithBarrier(s.p, A, B))
    BY <2>8, <2>9, WithBarrierGrows
  <2>11. Grows(s.p, q)
    BY <1>1, <2>10
  <2>12. q \in Shape
    BY <2>11 DEF Grows, Keeps, Ordered, Shape
  <2> HIDE DEF q, r
  <2>13. r.p = q /\ r \in [p : Shape, group : Nat]
    BY <2>1, <2>2, <2>12
  <2> QED BY <2>11, <2>13 DEF r
<1> QED BY <1>2, <1>3

\* linearizeBarriers for the tasks of one batch.
LEMMA LinearizedTasksGrows ==
    ASSUME NEW p, Ordered(p), Paired(p), Fits(p), NEW tasks \in Seq(Task),
           \A i, j \in 1 .. Len(tasks) : i < j => tasks[i] < tasks[j], NEW paths
    PROVE  Grows(p, LinearizedTasks(p, tasks, paths))
<1> DEFINE base == [p |-> p, group |-> 1]
           n == Len(tasks)
           T == [i \in 0 .. n |-> {s \in [p : Shape, group : Nat] : Grows(p, s.p)}]
           step == [i \in 1 .. n |-> [q \in T[i - 1] |-> GroupLinearized(q, i, tasks, paths)]]
           f == CHOOSE g : g = [i \in 0 .. n |-> IF i = 0 THEN base ELSE GroupLinearized(g[i - 1], i, tasks, paths)]
<1>1. n \in Nat
  OBVIOUS
<1>2. base \in T[0]
  <2>1. Grows(p, p) /\ p \in Shape
    BY GrowsItself, GrownIs
  <2>2. base.p = p /\ base \in [p : Shape, group : Nat]
    BY <2>1
  <2> HIDE DEF base
  <2> QED BY <1>1, <2>1, <2>2
<1>3. \A i \in 1 .. n : \A q \in T[i - 1] : GroupLinearized(q, i, tasks, paths) \in T[i]
  <2> SUFFICES ASSUME NEW i \in 1 .. n, NEW q \in T[i - 1]
               PROVE  GroupLinearized(q, i, tasks, paths) \in T[i]
    OBVIOUS
  <2> DEFINE r == GroupLinearized(q, i, tasks, paths)
  <2>1. q \in [p : Shape, group : Nat] /\ Grows(p, q.p)
    BY <1>1
  <2>2. Ordered(q.p) /\ Paired(q.p)
    BY <2>1, GrownIs
  <2>3. r \in [p : Shape, group : Nat] /\ Grows(q.p, r.p)
    BY <2>1, <2>2, GroupLinearizedGrows
  <2> HIDE DEF r
  <2>4. Grows(p, r.p)
    BY <2>1, <2>3, GrowsTransitive
  <2>5. r \in T[i]
    BY <1>1, <2>3, <2>4
  <2> QED BY <2>5 DEF r
<1>4. \E g : g = [i \in 0 .. n |-> IF i = 0 THEN base ELSE GroupLinearized(g[i - 1], i, tasks, paths)]
  <2>1. \A i \in 1 .. n : \A q \in T[i - 1] : step[i][q] = GroupLinearized(q, i, tasks, paths)
    OBVIOUS
  <2> HIDE DEF step, base, n, T
  <2>2. \A i \in 1 .. n : \A q \in T[i - 1] : step[i][q] \in T[i]
    BY <1>3, <2>1
  <2>3. PICK g : Loops(g, n, base, step) /\ \A i \in 0 .. n : g[i] \in T[i]
    BY ONLY <1>1, <1>2, <2>2, LoopSolves
  <2>4. \A i \in 1 .. n : g[i - 1] \in T[i - 1] /\ step[i][g[i - 1]] = GroupLinearized(g[i - 1], i, tasks, paths)
    BY <1>1, <2>1, <2>3
  <2>5. g = [i \in 0 .. n |-> IF i = 0 THEN base ELSE step[i][g[i - 1]]]
    BY <2>3 DEF Loops
  <2>6. \A i \in 0 .. n : i # 0 => step[i][g[i - 1]] = GroupLinearized(g[i - 1], i, tasks, paths)
    BY ONLY <1>1, <2>4
  <2> QED BY ONLY <2>5, <2>6
<1>5. f = [i \in 0 .. n |-> IF i = 0 THEN base ELSE GroupLinearized(f[i - 1], i, tasks, paths)]
  BY <1>4
<1>6. LinearizedTasks(p, tasks, paths) = f[n].p
  BY DEF LinearizedTasks, Iterate
<1>7. f[n] \in T[n]
  <2> HIDE DEF f, base, n, T
  <2>1. f[0] \in T[0]
    BY <1>1, <1>2, <1>5
  <2>2. \A i \in 1 .. n : f[i] = GroupLinearized(f[i - 1], i, tasks, paths)
    BY ONLY <1>1, <1>5
  <2>3. \A i \in 1 .. n : f[i - 1] \in T[i - 1] => f[i] \in T[i]
    BY <1>3, <2>2
  <2> QED BY ONLY <1>1, <2>1, <2>3, LoopStays
<1> QED BY <1>1, <1>6, <1>7

\* linearizeBarriers keeps the function in order, whatever the batches.
THEOREM LinearizedGrows ==
    ASSUME NEW p, Ordered(p), Paired(p), Fits(p), NEW parts, Len(parts) \in Nat
    PROVE  Grows(p, linearizeBarriers(p, parts))
<1> DEFINE base == p
           n == Len(parts)
           paths == BarrierControlMap(p)
           T == [i \in 0 .. n |-> {q \in Shape : Grows(p, q)}]
           step == [i \in 1 .. n |-> [q \in T[i - 1] |-> BatchLinearized(q, parts[i], paths)]]
           f == CHOOSE g : g = [i \in 0 .. n |-> IF i = 0 THEN base ELSE BatchLinearized(g[i - 1], parts[i], paths)]
<1>1. n \in Nat
  OBVIOUS
<1>2. base \in T[0]
  <2>1. Grows(p, p)
    BY GrowsItself
  <2> QED BY <1>1, <2>1, GrownIs
<1>3. \A i \in 1 .. n : \A q \in T[i - 1] : BatchLinearized(q, parts[i], paths) \in T[i]
  <2> SUFFICES ASSUME NEW i \in 1 .. n, NEW q \in T[i - 1]
               PROVE  BatchLinearized(q, parts[i], paths) \in T[i]
    OBVIOUS
  <2> DEFINE r == BatchLinearized(q, parts[i], paths)
             S == UNION {Producers(q, v) \cup Consumers(q, v) : v \in parts[i]}
             tasks == Increasing(S)
  <2>1. Grows(p, q)
    BY <1>1
  <2>2. Ordered(q) /\ Paired(q) /\ Fits(q)
    BY <2>1, GrownIs
  <2>3. r = LinearizedTasks(q, tasks, paths)
    BY DEF BatchLinearized
  <2>4. S \subseteq Task
    BY DEF Producers, Consumers
  <2> HIDE DEF S, r
  <2>5. S \in SUBSET Nat /\ IsFiniteSet(S)
    BY <2>4, TasksFinite DEF Task
  <2>6. tasks \in Seq(S) /\ Len(tasks) = Cardinality(S)
    BY <2>5, IncreasingOrders
  <2>7. \A k, l \in 1 .. Len(tasks) : k < l => tasks[k] < tasks[l]
    BY <2>5, <2>6, IncreasingGrows
  <2> HIDE DEF tasks
  <2>8. tasks \in Seq(Task)
    BY <2>4, <2>6
  <2> HIDE DEF paths
  <2>9. Grows(q, r)
    BY <2>2, <2>3, <2>7, <2>8, LinearizedTasksGrows
  <2>10. Grows(p, r)
    BY <2>1, <2>9, GrowsTransitive
  <2>11. r \in Shape
    BY <2>10, GrownIs
  <2>12. r \in T[i]
    BY <1>1, <2>10, <2>11
  <2> QED BY <2>12 DEF r
<1>4. \E g : g = [i \in 0 .. n |-> IF i = 0 THEN base ELSE BatchLinearized(g[i - 1], parts[i], paths)]
  <2>1. \A i \in 1 .. n : \A q \in T[i - 1] : step[i][q] = BatchLinearized(q, parts[i], paths)
    OBVIOUS
  <2> HIDE DEF step, base, n, paths, T
  <2>2. \A i \in 1 .. n : \A q \in T[i - 1] : step[i][q] \in T[i]
    BY <1>3, <2>1
  <2>3. PICK g : Loops(g, n, base, step) /\ \A i \in 0 .. n : g[i] \in T[i]
    BY ONLY <1>1, <1>2, <2>2, LoopSolves
  <2>4. \A i \in 1 .. n : g[i - 1] \in T[i - 1] /\ step[i][g[i - 1]] = BatchLinearized(g[i - 1], parts[i], paths)
    BY <1>1, <2>1, <2>3
  <2>5. g = [i \in 0 .. n |-> IF i = 0 THEN base ELSE step[i][g[i - 1]]]
    BY <2>3 DEF Loops
  <2>6. \A i \in 0 .. n : i # 0 => step[i][g[i - 1]] = BatchLinearized(g[i - 1], parts[i], paths)
    BY ONLY <1>1, <2>4
  <2> QED BY ONLY <2>5, <2>6
<1>5. f = [i \in 0 .. n |-> IF i = 0 THEN base ELSE BatchLinearized(f[i - 1], parts[i], paths)]
  BY <1>4
<1>6. linearizeBarriers(p, parts) = f[n]
  BY DEF linearizeBarriers, Iterate
<1>7. f[n] \in T[n]
  <2> HIDE DEF f, base, n, paths, T
  <2>1. f[0] \in T[0]
    BY <1>1, <1>2, <1>5
  <2>2. \A i \in 1 .. n : f[i] = BatchLinearized(f[i - 1], parts[i], paths)
    BY ONLY <1>1, <1>5
  <2>3. \A i \in 1 .. n : f[i - 1] \in T[i - 1] => f[i] \in T[i]
    BY <1>3, <2>2
  <2> QED BY ONLY <1>1, <2>1, <2>3, LoopStays
<1> QED BY <1>1, <1>6, <1>7
=============================================================================
