----------------------- MODULE BarrierProgram_proofs -----------------------
(***************************************************************************)
(* What the proofs about barriers need to know of numbers, of the slots a  *)
(* set of tasks takes, of sorted sets and of control paths.                *)
(***************************************************************************)
EXTENDS BarrierProgram, Sequences, TLAPS, FiniteSetTheorems

(* Least and greatest elements: the induction the other lemmas rest on.    *)

\* A set of natural numbers has a least element.
LEMMA LeastElement ==
    ASSUME NEW S \in SUBSET Nat, S # {}
    PROVE  \E m \in S : \A k \in S : m <= k
<1> DEFINE R == {ss \in Nat \X Nat : ss[1] < ss[2]}
<1>1. IsWellFoundedOn(R, Nat)
  BY NatLessThanWellFounded DEF OpToRel
<1>2. \A x, y \in Nat : <<x, y>> \in R <=> x < y
  OBVIOUS
<1> HIDE DEF R
<1>3. \E x \in S : \A y \in S : ~ (<<y, x>> \in R)
  BY <1>1, WFMin
<1>4. PICK x \in S : \A y \in S : ~ (<<y, x>> \in R)
  BY <1>3
<1>5. ASSUME NEW y \in S PROVE x <= y
  <2>1. x \in Nat /\ y \in Nat
    OBVIOUS
  <2>2. ~ (<<y, x>> \in R)
    BY <1>4
  <2>3. ~ (y < x)
    BY <1>2, <2>1, <2>2
  <2> QED BY <2>1, <2>3
<1> QED BY <1>5

\* A set of numbers up to n has a greatest element.
LEMMA GreatestElement ==
    ASSUME NEW n \in Nat, NEW S \in SUBSET (1 .. n), S # {}
    PROVE  \E m \in S : \A k \in S : k <= m
<1> DEFINE D == {n - x : x \in S}
<1>1. D \subseteq Nat /\ D # {}
  <2>1. \A x \in S : n - x \in Nat
    OBVIOUS
  <2>2. D # {}
    OBVIOUS
  <2> QED BY <2>1, <2>2
<1> HIDE DEF D
<1>2. PICK d \in D : \A e \in D : d <= e
  BY <1>1, LeastElement
<1>3. PICK m \in S : d = n - m
  BY DEF D
<1>4. \A k \in S : n - k \in D
  BY DEF D
<1>5. ASSUME NEW k \in S PROVE k <= m
  BY <1>2, <1>3, <1>4
<1> QED BY <1>5

-----------------------------------------------------------------------------
(* Slots.                                                                  *)

\* A task takes finitely many slots.
LEMMA TaskSlots ==
    ASSUME NEW p, IsProgram(p), NEW t \in Task
    PROVE  /\ p.count[t] \in Nat \ {0}
           /\ IsFiniteSet({t} \X (1 .. p.count[t]))
           /\ Cardinality({t} \X (1 .. p.count[t])) = p.count[t]
<1>1. p.count[t] \in Nat \ {0}
  BY DEF IsProgram
<1>2. IsFiniteSet({t}) /\ Cardinality({t}) = 1
  BY FS_Singleton
<1>3. IsFiniteSet(1 .. p.count[t]) /\ Cardinality(1 .. p.count[t]) = p.count[t]
  <2> DEFINE c == p.count[t]
  <2>1. c \in Nat \ {0} /\ 1 \in Int /\ c \in Int
    BY <1>1
  <2> HIDE DEF c
  <2>2. IsFiniteSet(1 .. c) /\ Cardinality(1 .. c) = IF 1 > c THEN 0 ELSE c - 1 + 1
    BY <2>1, FS_Interval
  <2>3. IsFiniteSet(1 .. c) /\ Cardinality(1 .. c) = c
    BY <2>1, <2>2
  <2> QED BY <2>3 DEF c
<1>4. /\ IsFiniteSet({t} \X (1 .. p.count[t]))
      /\ Cardinality({t} \X (1 .. p.count[t])) = 1 * p.count[t]
  <2> DEFINE A == {t}
             B == 1 .. p.count[t]
  <2>1. IsFiniteSet(A) /\ IsFiniteSet(B) /\ Cardinality(A) = 1 /\ Cardinality(B) = p.count[t]
    BY <1>2, <1>3
  <2> HIDE DEF A, B
  <2>2. IsFiniteSet(A \X B) /\ Cardinality(A \X B) = Cardinality(A) * Cardinality(B)
    BY ONLY <2>1, FS_Product
  <2> QED BY <2>1, <2>2 DEF A, B
<1> QED BY <1>1, <1>4

\* There are finitely many tasks.
LEMMA TasksFinite == IsFiniteSet(Task) /\ \A S \in SUBSET Task : IsFiniteSet(S)
<1>1. IsFiniteSet(Task)
  BY SizeAssumption, FS_Interval DEF Task
<1> QED BY <1>1, FS_Subset

\* Finitely many tasks take finitely many slots.
LEMMA SlotsFinite ==
    ASSUME NEW p, IsProgram(p), NEW S \in SUBSET Task
    PROVE  IsFiniteSet(Slots(p, S)) /\ SlotCount(p, S) \in Nat
<1> DEFINE f == [t \in S |-> {t} \X (1 .. p.count[t])]
           T == {{t} \X (1 .. p.count[t]) : t \in S}
<1>1. f \in Surjection(S, T)
  BY DEF Surjection
<1>2. IsFiniteSet(S)
  BY TasksFinite
<1>3. IsFiniteSet(T)
  <2> HIDE DEF f, T
  <2> QED BY <1>1, <1>2, FS_Surjection
<1>4. \A U \in T : IsFiniteSet(U)
  BY TaskSlots
<1>5. IsFiniteSet(UNION T)
  <2> HIDE DEF T
  <2> QED BY <1>3, <1>4, FS_UNION
<1> QED BY <1>5, FS_CardinalityType DEF Slots, SlotCount

(* A task that leaves a set takes its slots with it.                       *)
LEMMA SlotCountRemove ==
    ASSUME NEW p, IsProgram(p), NEW S \in SUBSET Task, NEW t \in S
    PROVE  SlotCount(p, S \ {t}) = SlotCount(p, S) - p.count[t]
<1> DEFINE A == Slots(p, S \ {t})
           B == {t} \X (1 .. p.count[t])
<1>1. Slots(p, S) = A \cup B
  BY DEF Slots
<1>2. A \cap B = {}
  BY DEF Slots
<1>3. S \ {t} \in SUBSET Task /\ t \in Task
  OBVIOUS
<1>4. IsFiniteSet(A) /\ Cardinality(A) \in Nat
  BY <1>3, SlotsFinite DEF SlotCount
<1>5. IsFiniteSet(B) /\ Cardinality(B) = p.count[t] /\ p.count[t] \in Nat
  BY <1>3, TaskSlots
<1> HIDE DEF A, B
<1>6. Cardinality(A \cup B) = Cardinality(A) + Cardinality(B) - Cardinality(A \cap B)
  BY <1>4, <1>5, FS_Union
<1>7. Cardinality(A \cap B) = 0
  BY <1>2, FS_EmptySet
<1> QED BY <1>1, <1>4, <1>5, <1>6, <1>7 DEF SlotCount, A

(* Only the empty set takes no slots.                                      *)
LEMMA SlotCountZero ==
    ASSUME NEW p, IsProgram(p), NEW S \in SUBSET Task
    PROVE  SlotCount(p, S) = 0 <=> S = {}
<1>1. SlotCount(p, S) = 0 <=> Slots(p, S) = {}
  BY SlotsFinite, FS_EmptySet DEF SlotCount
<1>2. S = {} => Slots(p, S) = {}
  BY DEF Slots
<1>3. ASSUME NEW t \in S PROVE Slots(p, S) # {}
  <2>0. t \in Task
    OBVIOUS
  <2>1. 1 \in 1 .. p.count[t]
    <3> DEFINE c == p.count[t]
    <3>1. c \in Nat \ {0}
      BY <2>0, TaskSlots
    <3> HIDE DEF c
    <3>2. 1 \in 1 .. c
      BY <3>1
    <3> QED BY <3>2 DEF c
  <2>2. <<t, 1>> \in Slots(p, S)
    BY <2>1 DEF Slots
  <2> QED BY <2>2
<1> QED BY <1>1, <1>2, <1>3

(* A set takes at least the slots of each of its tasks.                    *)
LEMMA SlotCountAtLeast ==
    ASSUME NEW p, IsProgram(p), NEW S \in SUBSET Task, NEW t \in S
    PROVE  SlotCount(p, S) >= p.count[t]
<1>1. SlotCount(p, S \ {t}) = SlotCount(p, S) - p.count[t]
  BY SlotCountRemove
<1>2. SlotCount(p, S \ {t}) \in Nat /\ SlotCount(p, S) \in Nat
  BY SlotsFinite
<1>3. p.count[t] \in Nat
  BY TaskSlots
<1> QED BY <1>1, <1>2, <1>3

-----------------------------------------------------------------------------
(* Sorted sets.                                                            *)

Rank(S, x) == Cardinality({z \in S : z < x})

\* A member's rank is less than the size of the set.
LEMMA RankType ==
    ASSUME NEW S \in SUBSET Nat, IsFiniteSet(S), NEW x \in S
    PROVE  Rank(S, x) \in Nat /\ Rank(S, x) < Cardinality(S) /\ Cardinality(S) \in Nat
<1> DEFINE A == {z \in S : z < x}
<1>1. A \in SUBSET S
  OBVIOUS
<1>2. A # S
  <2>1. x \notin A
    OBVIOUS
  <2> QED BY <2>1
<1> HIDE DEF A
<1>3. IsFiniteSet(A) /\ Cardinality(A) <= Cardinality(S) /\ Cardinality(A) # Cardinality(S)
  BY <1>1, <1>2, FS_Subset
<1>4. Cardinality(A) \in Nat /\ Cardinality(S) \in Nat
  BY <1>3, FS_CardinalityType
<1>5. Rank(S, x) = Cardinality(A)
  BY DEF Rank, A
<1> QED BY <1>3, <1>4, <1>5

(* Below a member of S there are fewer members than below a larger one.    *)
LEMMA RankGrows ==
    ASSUME NEW S \in SUBSET Nat, IsFiniteSet(S), NEW x \in S, NEW y \in S, x < y
    PROVE  Rank(S, x) < Rank(S, y)
<1> DEFINE A == {z \in S : z < x}
           B == {z \in S : z < y}
<1>1. A \subseteq B
  <2>1. \A z \in S : z < x => z < y
    OBVIOUS
  <2> QED BY <2>1
<1>2. x \in B /\ x \notin A
  <2>1. x \in Nat /\ ~(x < x)
    OBVIOUS
  <2> QED BY <2>1
<1>3. B \in SUBSET S
  OBVIOUS
<1> HIDE DEF A, B
<1>4. IsFiniteSet(B) /\ Cardinality(B) \in Nat
  BY <1>3, FS_Subset, FS_CardinalityType
<1>5. /\ IsFiniteSet(A) /\ Cardinality(A) <= Cardinality(B)
      /\ Cardinality(B) = Cardinality(A) => B = A
  BY <1>1, <1>4, FS_Subset
<1>6. Cardinality(A) \in Nat
  BY <1>5, FS_CardinalityType
<1>7. Cardinality(A) < Cardinality(B)
  BY <1>2, <1>4, <1>5, <1>6
<1>8. Rank(S, x) = Cardinality(A) /\ Rank(S, y) = Cardinality(B)
  BY DEF Rank, A, B
<1> QED BY <1>7, <1>8

\* No two members have one rank.
LEMMA RankInjective ==
    ASSUME NEW S \in SUBSET Nat, IsFiniteSet(S), NEW x \in S, NEW y \in S,
           Rank(S, x) = Rank(S, y)
    PROVE  x = y
<1>1. x \in Nat /\ y \in Nat /\ Rank(S, x) \in Nat /\ Rank(S, y) \in Nat
  BY RankType
<1>2. CASE x < y
  <2>1. Rank(S, x) < Rank(S, y)
    BY <1>2, RankGrows
  <2> QED BY <1>1, <2>1
<1>3. CASE y < x
  <2>1. Rank(S, y) < Rank(S, x)
    BY <1>3, RankGrows
  <2> QED BY <1>1, <2>1
<1> QED BY <1>1, <1>2, <1>3

(* Every number below the size of S is the rank of one member.             *)
LEMMA RankOnto ==
    ASSUME NEW S \in SUBSET Nat, IsFiniteSet(S), NEW i \in 1 .. Cardinality(S)
    PROVE  \E x \in S : Rank(S, x) = i - 1
<1> DEFINE c == Cardinality(S)
           rank == [x \in S |-> Rank(S, x) + 1]
<1>1. c \in Nat
  BY FS_CardinalityType
<1>2. \A x \in S : Rank(S, x) \in Nat /\ Rank(S, x) < c
  BY RankType
<1>a. rank \in [S -> 1 .. c]
  <2> HIDE DEF c
  <2> QED BY <1>1, <1>2
<1>b. \A x \in S : rank[x] = Rank(S, x) + 1
  OBVIOUS
<1> HIDE DEF rank
<1>4. \A x, y \in S : rank[x] = rank[y] => x = y
  <2> SUFFICES ASSUME NEW x \in S, NEW y \in S, rank[x] = rank[y] PROVE x = y
    OBVIOUS
  <2>1. Rank(S, x) = Rank(S, y)
    BY <1>2, <1>b
  <2> QED BY <2>1, RankInjective
<1>5. IsFiniteSet(1 .. c) /\ Cardinality(1 .. c) = c
  <2> HIDE DEF c
  <2>1. IsFiniteSet(1 .. c) /\ Cardinality(1 .. c) = IF 1 > c THEN 0 ELSE c - 1 + 1
    BY <1>1, FS_Interval
  <2> QED BY <1>1, <2>1
<1>6. rank \in Injection(S, 1 .. c)
  <2> HIDE DEF c
  <2> QED BY <1>a, <1>4 DEF Injection, IsInjective
<1>7. rank \in Surjection(S, 1 .. c)
  <2>1. Cardinality(S) = Cardinality(1 .. c)
    BY <1>5
  <2> HIDE DEF c
  <2> QED BY <1>5, <1>6, <2>1, FS_Injection
<1>8. PICK x \in S : rank[x] = i
  BY <1>7 DEF Surjection
<1> QED BY <1>8, <1>2, <1>b

(* Increasing(S) enumerates S, smaller members first, and puts a member at *)
(* the place its rank says.                                                *)
LEMMA IncreasingOrders ==
    ASSUME NEW S \in SUBSET Nat, IsFiniteSet(S)
    PROVE  /\ Cardinality(S) \in Nat
           /\ DOMAIN Increasing(S) = 1 .. Cardinality(S)
           /\ Increasing(S) \in Seq(S) /\ Len(Increasing(S)) = Cardinality(S)
           /\ \A i \in 1 .. Cardinality(S) :
                 Increasing(S)[i] \in S /\ Rank(S, Increasing(S)[i]) = i - 1
           /\ \A i, j \in 1 .. Cardinality(S) : Increasing(S)[i] = Increasing(S)[j] => i = j
           /\ \A x \in S : /\ Rank(S, x) + 1 \in 1 .. Cardinality(S)
                            /\ Increasing(S)[Rank(S, x) + 1] = x
<1> DEFINE c == Cardinality(S)
           s == Increasing(S)
<1>1. c \in Nat
  BY FS_CardinalityType
<1>2. s = [i \in 1 .. c |-> CHOOSE x \in S : Rank(S, x) = i - 1]
  BY DEF Increasing, Rank
<1>4. DOMAIN s = 1 .. c
  BY <1>2
<1>3. \A i \in 1 .. c : s[i] \in S /\ Rank(S, s[i]) = i - 1
  <2> SUFFICES ASSUME NEW i \in 1 .. c PROVE s[i] \in S /\ Rank(S, s[i]) = i - 1
    OBVIOUS
  <2>1. \E x \in S : Rank(S, x) = i - 1
    BY RankOnto
  <2>2. s[i] = CHOOSE x \in S : Rank(S, x) = i - 1
    BY <1>2
  <2> QED BY <2>1, <2>2
<1>5. s \in [1 .. c -> S]
  BY <1>2, <1>3
<1> HIDE DEF s, c
<1>6. \A i, j \in 1 .. c : s[i] = s[j] => i = j
  <2> SUFFICES ASSUME NEW i \in 1 .. c, NEW j \in 1 .. c, s[i] = s[j] PROVE i = j
    OBVIOUS
  <2>1. i - 1 = j - 1
    BY <1>3
  <2> QED BY <2>1, <1>1
<1>7. \A x \in S : Rank(S, x) + 1 \in 1 .. c /\ s[Rank(S, x) + 1] = x
  <2> SUFFICES ASSUME NEW x \in S PROVE Rank(S, x) + 1 \in 1 .. c /\ s[Rank(S, x) + 1] = x
    OBVIOUS
  <2>1. Rank(S, x) \in Nat /\ Rank(S, x) < c
    BY RankType DEF c
  <2> DEFINE i == Rank(S, x) + 1
  <2>2. i \in 1 .. c /\ i - 1 = Rank(S, x)
    BY <1>1, <2>1
  <2> HIDE DEF i
  <2>3. s[i] \in S /\ Rank(S, s[i]) = i - 1
    BY <1>3, <2>2
  <2>4. s[i] = x
    BY <2>2, <2>3, RankInjective
  <2> QED BY <2>2, <2>4 DEF i
<1>8. s \in Seq(S) /\ Len(s) = c
  BY <1>1, <1>5
<1> QED BY <1>1, <1>3, <1>4, <1>6, <1>7, <1>8 DEF s, c

-----------------------------------------------------------------------------
(* Control paths.                                                          *)

(* The passes keep every barrier produced before it is consumed.           *)
Sound(p) ==
    /\ IsProgram(p)
    /\ \A t, u \in Task : p.posts[t] \cap p.waits[u] # {} => t < u

Closure(p) ==
    [t \in Task |-> {u \in Task : \A U \in SUBSET Task :
        DirectSuccessors(p, t) \subseteq U /\ (\A x \in U : DirectSuccessors(p, x) \subseteq U)
            => u \in U}]

\* Increasing is: its members are listed in their order.
LEMMA IncreasingGrows ==
    ASSUME NEW S \in SUBSET Nat, IsFiniteSet(S),
           NEW i \in 1 .. Cardinality(S), NEW j \in 1 .. Cardinality(S), i < j
    PROVE  Increasing(S)[i] < Increasing(S)[j]
<1> DEFINE x == Increasing(S)[i]
           y == Increasing(S)[j]
<1>1. /\ x \in S /\ y \in S /\ Cardinality(S) \in Nat
      /\ Rank(S, x) = i - 1 /\ Rank(S, y) = j - 1
  BY IncreasingOrders
<1> HIDE DEF x, y
<1>2. x \in Nat /\ y \in Nat /\ i \in Nat /\ j \in Nat
  BY <1>1
<1>3. ~(y < x)
  <2> SUFFICES ASSUME y < x PROVE FALSE
    OBVIOUS
  <2>1. Rank(S, y) < Rank(S, x)
    BY <1>1, RankGrows
  <2> QED BY <1>1, <1>2, <2>1
<1>4. x # y
  BY <1>1, <1>2
<1>5. x < y
  BY <1>2, <1>3, <1>4
<1> QED BY <1>5 DEF x, y

\* In a sound function barriers and FIFOs lead to later tasks only.
LEMMA SuccessorsLater ==
    ASSUME NEW p, Sound(p), NEW t \in Task
    PROVE  /\ DirectSuccessors(p, t) \subseteq Task
           /\ \A u \in DirectSuccessors(p, t) : t < u
BY DEF Sound, DirectSuccessors, BarrierSuccessors, Consumers

(* The recursion of TaskControlMap has a solution: the sets every chain of *)
(* direct successors stays in.                                             *)
LEMMA ClosureSolves ==
    ASSUME NEW p, Sound(p)
    PROVE  Closure(p) = [t \in Task |-> DirectSuccessors(p, t)
                                        \cup UNION {Closure(p)[u] : u \in DirectSuccessors(p, t)}]
<1> DEFINE D(t) == DirectSuccessors(p, t)
           C == Closure(p)
           F(t) == D(t) \cup UNION {C[u] : u \in D(t)}
<1>1. \A t \in Task : D(t) \subseteq Task
  BY SuccessorsLater
<1> HIDE DEF D
<1>2. \A t, u \in Task : u \in C[t] <=> \A U \in SUBSET Task :
            D(t) \subseteq U /\ (\A x \in U : D(x) \subseteq U) => u \in U
  BY DEF Closure, D
<1>3. \A t \in Task : C[t] \subseteq Task
  BY DEF Closure
<1>4. C = [t \in Task |-> C[t]]
  BY DEF Closure
<1> HIDE DEF C
<1>5. \A t \in Task : F(t) \subseteq Task
  BY <1>1, <1>3
<1>6. ASSUME NEW t \in Task PROVE F(t) \subseteq C[t]
  <2> SUFFICES ASSUME NEW u \in F(t), NEW U \in SUBSET Task, D(t) \subseteq U,
                      \A x \in U : D(x) \subseteq U
               PROVE  u \in U
    BY <1>2, <1>5
  <2>1. CASE u \in D(t)
    BY <2>1
  <2>2. ASSUME NEW x \in D(t), u \in C[x] PROVE u \in U
    BY <2>2, <1>1, <1>2, <1>3
  <2> QED BY <2>1, <2>2
<1>7. ASSUME NEW t \in Task PROVE C[t] \subseteq F(t)
  <2>1. D(t) \subseteq F(t)
    OBVIOUS
  <2>2. ASSUME NEW x \in F(t) PROVE D(x) \subseteq F(t)
    <3>1. CASE x \in D(t)
      <4>1. x \in Task /\ D(x) \subseteq C[x]
        BY <3>1, <1>1, <1>6
      <4> QED BY <3>1, <4>1
    <3>2. ASSUME NEW y \in D(t), x \in C[y] PROVE D(x) \subseteq F(t)
      <4>1. y \in Task /\ x \in Task
        BY <1>1, <1>3, <3>2
      <4>2. D(x) \subseteq C[y]
        BY <4>1, <3>2, <1>1, <1>2
      <4> QED BY <4>2
    <3> QED BY <3>1, <3>2
  <2> HIDE DEF F
  <2>3. \A u \in C[t] : u \in F(t)
    BY <2>1, <2>2, <1>2, <1>3, <1>5
  <2> QED BY <2>3
<1>8. \A t \in Task : C[t] = F(t)
  BY <1>6, <1>7
<1>9. C = [t \in Task |-> F(t)]
  BY <1>4, <1>8
<1> QED BY <1>9 DEF D, C

\* The control map is what its recursion says.
LEMMA TaskControlMapSolves ==
    ASSUME NEW p, Sound(p), NEW t \in Task
    PROVE  TaskControlMap(p)[t] =
               DirectSuccessors(p, t)
                   \cup UNION {TaskControlMap(p)[u] : u \in DirectSuccessors(p, t)}
<1> DEFINE Solves(f) == f = [x \in Task |-> DirectSuccessors(p, x)
                                            \cup UNION {f[u] : u \in DirectSuccessors(p, x)}]
<1>1. Solves(Closure(p))
  BY ClosureSolves
<1>2. TaskControlMap(p) = CHOOSE f : Solves(f)
  BY DEF TaskControlMap
<1> HIDE DEF Solves
<1>3. Solves(TaskControlMap(p))
  BY <1>1, <1>2
<1> QED BY <1>3 DEF Solves

(* A control path leads to later tasks only.                               *)
LEMMA PathsLater ==
    ASSUME NEW p, Sound(p)
    PROVE  \A t \in Task : \A u \in TaskControlMap(p)[t] : u \in Task /\ t < u
<1> DEFINE C == TaskControlMap(p)
           Bad == {t \in Task : \E u \in C[t] : ~(u \in Task /\ t < u)}
<1>1. \A t \in Task : C[t] = DirectSuccessors(p, t)
                                 \cup UNION {C[u] : u \in DirectSuccessors(p, t)}
  BY TaskControlMapSolves
<1>2. \A t \in Task : \A u \in DirectSuccessors(p, t) : u \in Task /\ t < u
  BY SuccessorsLater
<1> HIDE DEF C
<1>3. CASE Bad = {}
  BY <1>3 DEF C
<1>4. CASE Bad # {}
  <2>1. Bad \in SUBSET (1 .. NumTasks) /\ NumTasks \in Nat
    BY SizeAssumption DEF Task
  <2>2. PICK t \in Bad : \A x \in Bad : x <= t
    <3> HIDE DEF Bad
    <3> QED BY <1>4, <2>1, GreatestElement
  <2>3. t \in Task
    OBVIOUS
  <2>4. PICK u \in C[t] : ~(u \in Task /\ t < u)
    OBVIOUS
  <2>5. PICK x \in DirectSuccessors(p, t) : u \in C[x]
    BY <1>1, <1>2, <2>3, <2>4
  <2>6. x \in Task /\ t < x /\ x \in Nat /\ t \in Nat
    BY <1>2, <2>3, <2>5 DEF Task
  <2>7. x \notin Bad
    BY <2>2, <2>6
  <2>8. u \in Task /\ x < u
    BY <2>5, <2>6, <2>7
  <2>9. u \in Nat
    BY <2>8 DEF Task
  <2> QED BY <2>4, <2>6, <2>8, <2>9
<1> QED BY <1>3, <1>4

(* From a producer of a barrier there is a path to each of its consumers.  *)
LEMMA PathStep ==
    ASSUME NEW p, Sound(p), NEW v, NEW t \in Producers(p, v), NEW u \in Consumers(p, v)
    PROVE  u \in TaskControlMap(p)[t]
<1>1. t \in Task /\ u \in DirectSuccessors(p, t)
  BY DEF Producers, Consumers, DirectSuccessors, BarrierSuccessors
<1> QED BY <1>1, TaskControlMapSolves

\* Control paths compose.
LEMMA PathTransitive ==
    ASSUME NEW p, Sound(p)
    PROVE  \A a \in Task : \A b \in TaskControlMap(p)[a] :
               TaskControlMap(p)[b] \subseteq TaskControlMap(p)[a]
<1> DEFINE C == TaskControlMap(p)
           Bad == {a \in Task : \E b \in C[a] : ~(C[b] \subseteq C[a])}
<1>1. \A t \in Task : C[t] = DirectSuccessors(p, t)
                                 \cup UNION {C[u] : u \in DirectSuccessors(p, t)}
  BY TaskControlMapSolves
<1>2. \A t \in Task : \A u \in DirectSuccessors(p, t) : u \in Task /\ t < u
  BY SuccessorsLater
<1> HIDE DEF C
<1>3. CASE Bad = {}
  BY <1>3 DEF C
<1>4. CASE Bad # {}
  <2>1. Bad \in SUBSET (1 .. NumTasks) /\ NumTasks \in Nat
    BY SizeAssumption DEF Task
  <2>2. PICK a \in Bad : \A x \in Bad : x <= a
    <3> HIDE DEF Bad
    <3> QED BY <1>4, <2>1, GreatestElement
  <2>3. a \in Task
    OBVIOUS
  <2>4. PICK b \in C[a] : ~(C[b] \subseteq C[a])
    OBVIOUS
  <2>5. PICK x \in DirectSuccessors(p, a) : b \in C[x]
    BY <1>1, <2>3, <2>4
  <2>6. x \in Task /\ a < x /\ x \in Nat /\ a \in Nat
    BY <1>2, <2>3, <2>5 DEF Task
  <2>7. x \notin Bad
    BY <2>2, <2>6
  <2>8. C[b] \subseteq C[x]
    BY <2>5, <2>6, <2>7
  <2>9. C[x] \subseteq C[a]
    BY <1>1, <2>3, <2>5
  <2> QED BY <2>4, <2>8, <2>9
<1> QED BY <1>3, <1>4

(* If nothing in a set has a direct predecessor outside of it, no path     *)
(* leads into it.                                                          *)
LEMMA PathsKeepDone ==
    ASSUME NEW p, Sound(p), NEW S,
           \A t \in Task : \A u \in DirectSuccessors(p, t) : u \in S => t \in S
    PROVE  \A a \in Task : \A b \in TaskControlMap(p)[a] : b \in S => a \in S
<1> DEFINE C == TaskControlMap(p)
           Bad == {a \in Task : a \notin S /\ \E b \in C[a] : b \in S}
<1>1. \A t \in Task : C[t] = DirectSuccessors(p, t)
                                 \cup UNION {C[u] : u \in DirectSuccessors(p, t)}
  BY TaskControlMapSolves
<1>2. \A t \in Task : \A u \in DirectSuccessors(p, t) : u \in Task /\ t < u
  BY SuccessorsLater
<1> HIDE DEF C
<1>3. CASE Bad = {}
  BY <1>3 DEF C
<1>4. CASE Bad # {}
  <2>1. Bad \in SUBSET (1 .. NumTasks) /\ NumTasks \in Nat
    BY SizeAssumption DEF Task
  <2>2. \E a \in Bad : \A x \in Bad : x <= a
    <3> HIDE DEF Bad
    <3> QED BY ONLY <1>4, <2>1, GreatestElement
  <2>3. PICK a \in Bad : \A x \in Bad : x <= a
    BY <2>2
  <2>4. a \in Task /\ a \notin S
    OBVIOUS
  <2>5. PICK b \in C[a] : b \in S
    OBVIOUS
  <2>6. PICK x \in DirectSuccessors(p, a) : b \in C[x]
    BY <1>1, <2>4, <2>5
  <2>7. x \in Task /\ a < x /\ x \in Nat /\ a \in Nat
    BY <1>2, <2>4, <2>6 DEF Task
  <2>8. x \notin Bad
    BY <2>3, <2>7
  <2>9. x \in S
    BY <2>5, <2>6, <2>7, <2>8
  <2> QED BY <1>2, <2>4, <2>6, <2>9
<1> QED BY <1>3, <1>4
=============================================================================
