--------------------- MODULE BarrierLegalization_proofs ---------------------
(***************************************************************************)
(* The passes that make barriers fit the hardware keep a function in order, *)
(* for every function, every number of FIFOs and any threshold, as long as *)
(* the barriers that are declared leave a number for the final one.        *)
(*                                                                         *)
(* LegalizationInv is the inductive invariant, in five parts: that tasks   *)
(* still run in the order they had to at first (under new numbers, since   *)
(* orderExecutionTasksAndBarriers gives them some), that no barrier is half *)
(* used, that the steps to come are some the pipeline could have planned,  *)
(* where unused barriers are behind the others, and the batches.           *)
(***************************************************************************)
EXTENDS BarrierLegalization, BarrierRewriting_proofs

-----------------------------------------------------------------------------
(* orderExecutionTasksAndBarriers.                                         *)

(* s lists what has a key once, smaller keys first.                        *)
InKeyOrder(s, key) ==
    /\ s \in Seq(DOMAIN key) /\ Len(s) = Cardinality(DOMAIN key)
    /\ \A x \in DOMAIN key : \E i \in 1 .. Len(s) : s[i] = x
    /\ \A i, j \in 1 .. Len(s) : i < j => key[s[i]] < key[s[j]]

(* No two have the same key.                                               *)
Distinct(key) == \A x, y \in DOMAIN key : key[x] = key[y] => x = y

\* Smaller keys are as many as those who have them.
LEMMA RankOfKey ==
    ASSUME NEW D, IsFiniteSet(D), NEW key \in [D -> Nat], Distinct(key), NEW x \in D,
           NEW I, I = {key[y] : y \in D}
    PROVE  Cardinality({y \in D : key[y] < key[x]}) = Rank(I, key[x])
<1> DEFINE A == {y \in D : key[y] < key[x]}
           B == {z \in I : z < key[x]}
           f == [y \in A |-> key[y]]
<1>1. f \in Injection(A, B)
  <2>1. f \in [A -> B]
    OBVIOUS
  <2>2. \A y, z \in A : f[y] = f[z] => y = z
    BY DEF Distinct
  <2> HIDE DEF f, A, B
  <2> QED BY <2>1, <2>2 DEF Injection, IsInjective
<1>2. f \in Surjection(A, B)
  <2>1. f \in [A -> B]
    OBVIOUS
  <2>2. \A z \in B : \E y \in A : f[y] = z
    OBVIOUS
  <2> HIDE DEF f, A, B
  <2> QED BY <2>1, <2>2 DEF Surjection
<1>3. IsFiniteSet(A)
  BY FS_Subset
<1>4. Rank(I, key[x]) = Cardinality(B)
  BY DEF Rank
<1> HIDE DEF f, A, B
<1>5. Cardinality(B) = Cardinality(A)
  BY <1>1, <1>2, <1>3, FS_Surjection
<1> QED BY <1>4, <1>5 DEF A

\* InOrder is in the order of the keys.
LEMMA InOrderIs ==
    ASSUME NEW D, IsFiniteSet(D), NEW key \in [D -> Nat], Distinct(key)
    PROVE  InKeyOrder(InOrder(key), key)
<1> DEFINE I == {key[y] : y \in D}
           n == Cardinality(D)
           s == InOrder(key)
           w == Increasing(I)
           f == [y \in D |-> key[y]]
<1>1. f \in Injection(D, I) /\ f \in Surjection(D, I)
  <2>1. f \in [D -> I]
    OBVIOUS
  <2>2. \A y, z \in D : f[y] = f[z] => y = z
    BY DEF Distinct
  <2>3. \A z \in I : \E y \in D : f[y] = z
    OBVIOUS
  <2> HIDE DEF f, I
  <2> QED BY <2>1, <2>2, <2>3 DEF Injection, IsInjective, Surjection
<1>2. I \in SUBSET Nat
  OBVIOUS
<1>3. \A x \in D : Cardinality({y \in D : key[y] < key[x]}) = Rank(I, key[x])
  BY RankOfKey
<1>4. \A z \in I : \E y \in D : key[y] = z
  OBVIOUS
<1>5. \A y \in D : key[y] \in I
  OBVIOUS
<1> HIDE DEF f, I
<1>6. IsFiniteSet(I) /\ Cardinality(I) = n
  BY <1>1, FS_Surjection
<1>7. /\ n \in Nat
      /\ \A i \in 1 .. n : w[i] \in I /\ Rank(I, w[i]) = i - 1
      /\ \A x \in I : Rank(I, x) + 1 \in 1 .. n /\ w[Rank(I, x) + 1] = x
  BY <1>2, <1>6, IncreasingOrders
<1>8. DOMAIN key = D
  OBVIOUS
<1>9. s = [i \in 1 .. n |-> CHOOSE x \in D : Cardinality({y \in D : key[y] < key[x]}) = i - 1]
  BY <1>8 DEF InOrder
<1> HIDE DEF w, n, s
<1>10. ASSUME NEW i \in 1 .. n PROVE s[i] \in D /\ key[s[i]] = w[i]
  <2>1. PICK y \in D : key[y] = w[i]
    BY <1>4, <1>7
  <2>2. Cardinality({z \in D : key[z] < key[y]}) = i - 1
    BY <1>3, <1>7, <2>1
  <2>3. s[i] \in D /\ Cardinality({z \in D : key[z] < key[s[i]]}) = i - 1
    BY <1>9, <2>2
  <2>4. Rank(I, key[s[i]]) = i - 1 /\ key[s[i]] \in I
    BY <1>3, <1>5, <2>3
  <2>5. i - 1 + 1 = i
    BY <1>7
  <2> QED BY <1>7, <2>3, <2>4, <2>5
<1>11. s \in Seq(D) /\ Len(s) = n
  <2>1. s \in [1 .. n -> D]
    BY <1>9, <1>10
  <2> QED BY ONLY <1>7, <2>1
<1>12. ASSUME NEW x \in D PROVE \E i \in 1 .. n : s[i] = x
  <2>1. PICK i \in 1 .. n : w[i] = key[x]
    BY <1>5, <1>7
  <2> QED BY <1>8, <1>10, <2>1 DEF Distinct
<1>13. ASSUME NEW i \in 1 .. n, NEW j \in 1 .. n, i < j PROVE key[s[i]] < key[s[j]]
  <2>1. w[i] < w[j]
    BY <1>2, <1>6, <1>13, IncreasingGrows DEF w
  <2> QED BY <1>10, <2>1
<1> QED BY <1>8, <1>11, <1>12, <1>13 DEF InKeyOrder, n, s

-----------------------------------------------------------------------------
(* Tasks in turn, one of each FIFO.                                        *)

(* A number of two digits.                                                 *)
Mixed(N, a, f) == N * a + f

\* The first digit decides.
LEMMA MixedGrows ==
    ASSUME NEW N \in Nat, NEW a \in Nat, NEW b \in Nat, NEW f \in 1 .. N, NEW g \in 1 .. N, a < b
    PROVE  Mixed(N, a, f) < Mixed(N, b, g)
<1>1. PICK d \in Nat : b = a + 1 + d
  <2>1. b - a - 1 \in Nat /\ b = a + 1 + (b - a - 1)
    OBVIOUS
  <2> QED BY <2>1
<1>2. N * b = N * a + N + N * d
  BY <1>1
<1>3. N * a \in Nat /\ N * d \in Nat
  OBVIOUS
<1> QED BY <1>2, <1>3 DEF Mixed

\* Different digits, different numbers.
LEMMA MixedDistinct ==
    ASSUME NEW N \in Nat, NEW a \in Nat, NEW b \in Nat, NEW f \in 1 .. N, NEW g \in 1 .. N,
           Mixed(N, a, f) = Mixed(N, b, g)
    PROVE  a = b /\ f = g
<1>0. N * a \in Nat /\ N * b \in Nat
  OBVIOUS
<1>1. ~(a < b)
  <2> SUFFICES ASSUME a < b PROVE FALSE
    OBVIOUS
  <2>1. Mixed(N, a, f) < Mixed(N, b, g)
    BY MixedGrows
  <2> QED BY <1>0, <2>1 DEF Mixed
<1>2. ~(b < a)
  <2> SUFFICES ASSUME b < a PROVE FALSE
    OBVIOUS
  <2>1. Mixed(N, b, g) < Mixed(N, a, f)
    BY MixedGrows
  <2> QED BY <1>0, <2>1 DEF Mixed
<1>3. a = b
  BY <1>1, <1>2
<1> QED BY <1>0, <1>3 DEF Mixed

(* s lists the ready tasks once, those of a FIFO in their order.           *)
TakesTurns(p, s, ready) ==
    /\ s \in Seq(ready)
    /\ \A x \in ready : \E i \in 1 .. Len(s) : s[i] = x
    /\ \A i, j \in 1 .. Len(s) : s[i] = s[j] => i = j
    /\ \A i, j \in 1 .. Len(s) : p.fifo[s[i]] = p.fifo[s[j]] /\ s[i] < s[j] => i < j

\* Ready tasks take turns in the order of each FIFO.
LEMMA TurnsIs ==
    ASSUME NEW p, Ordered(p), NEW ready \in SUBSET Task
    PROVE  TakesTurns(p, InTurn(p, ready), ready)
<1> DEFINE Alike(f) == {u \in ready : p.fifo[u] = f}
           place(t) == Rank(Alike(p.fifo[t]), t)
           key == [t \in ready |->
                     NumFifos * Cardinality({u \in ready : p.fifo[u] = p.fifo[t] /\ u < t}) + p.fifo[t]]
           s == InTurn(p, ready)
<1>1. s = InOrder(key)
  BY DEF InTurn
<1>2. \A t \in ready : key[t] = Mixed(NumFifos, place(t), p.fifo[t])
  <2> SUFFICES ASSUME NEW t \in ready PROVE key[t] = Mixed(NumFifos, place(t), p.fifo[t])
    OBVIOUS
  <2>1. {u \in ready : p.fifo[u] = p.fifo[t] /\ u < t} = {u \in Alike(p.fifo[t]) : u < t}
    OBVIOUS
  <2> QED BY <2>1 DEF Rank, Mixed
<1>3. key = [t \in ready |-> key[t]]
  OBVIOUS
<1>4. \A f : Alike(f) \in SUBSET Nat /\ IsFiniteSet(Alike(f))
  <2> SUFFICES ASSUME NEW f PROVE Alike(f) \in SUBSET Nat /\ IsFiniteSet(Alike(f))
    OBVIOUS
  <2>1. Alike(f) \in SUBSET Task
    OBVIOUS
  <2> HIDE DEF Alike
  <2> QED BY <2>1, TasksFinite DEF Task
<1>5. \A t \in ready : t \in Alike(p.fifo[t]) /\ p.fifo[t] \in 1 .. NumFifos
  BY DEF Ordered, Fifo
<1>a. \A t, u \in ready : p.fifo[t] = p.fifo[u] => t \in Alike(p.fifo[u])
  OBVIOUS
<1> HIDE DEF key, Alike
<1>6. \A t \in ready : place(t) \in Nat
  BY <1>4, <1>5, RankType
<1>7. NumFifos \in Nat
  BY SizeAssumption
<1>b. \A t \in ready : NumFifos * place(t) \in Nat
  BY <1>6, <1>7
<1> HIDE DEF place
<1>8. key \in [ready -> Nat]
  <2>1. \A t \in ready : key[t] \in Nat
    BY <1>2, <1>5, <1>b, <1>7 DEF Mixed
  <2> QED BY <1>3, <2>1
<1>9. Distinct(key)
  <2> SUFFICES ASSUME NEW t \in ready, NEW u \in ready, key[t] = key[u] PROVE t = u
    BY <1>8 DEF Distinct
  <2>1. Mixed(NumFifos, place(t), p.fifo[t]) = Mixed(NumFifos, place(u), p.fifo[u])
    BY <1>2
  <2>2. place(t) = place(u) /\ p.fifo[t] = p.fifo[u]
    <3>1. /\ NumFifos \in Nat /\ place(t) \in Nat /\ place(u) \in Nat
          /\ p.fifo[t] \in 1 .. NumFifos /\ p.fifo[u] \in 1 .. NumFifos
      BY <1>5, <1>6, <1>7
    <3> QED BY ONLY <2>1, <3>1, MixedDistinct
  <2>3. t \in Alike(p.fifo[u]) /\ u \in Alike(p.fifo[u])
    BY <1>5, <1>a, <2>2
  <2>4. Rank(Alike(p.fifo[u]), t) = Rank(Alike(p.fifo[u]), u)
    BY <2>2 DEF place
  <2> QED BY <1>4, <2>3, <2>4, RankInjective
<1>10. ASSUME NEW t \in ready, NEW u \in ready, p.fifo[t] = p.fifo[u], t < u PROVE key[t] < key[u]
  <2>1. t \in Alike(p.fifo[u]) /\ u \in Alike(p.fifo[u])
    BY <1>5, <1>a, <1>10
  <2>2. place(t) < place(u)
    BY <1>4, <1>10, <2>1, RankGrows DEF place
  <2>3. Mixed(NumFifos, place(t), p.fifo[t]) < Mixed(NumFifos, place(u), p.fifo[u])
    BY <1>5, <1>6, <1>7, <2>2, MixedGrows
  <2> QED BY <1>2, <2>3
<1>11. IsFiniteSet(ready)
  BY TasksFinite
<1>12. InKeyOrder(s, key)
  BY <1>1, <1>8, <1>9, <1>11, InOrderIs
<1>13. /\ s \in Seq(ready)
       /\ \A x \in ready : \E i \in 1 .. Len(s) : s[i] = x
       /\ \A i, j \in 1 .. Len(s) : i < j => key[s[i]] < key[s[j]]
  <2>1. DOMAIN key = ready
    BY <1>8
  <2> QED BY <1>12, <2>1 DEF InKeyOrder
<1> HIDE DEF s
<1>14. \A i \in 1 .. Len(s) : s[i] \in ready /\ key[s[i]] \in Nat
  <2>1. \A i \in 1 .. Len(s) : s[i] \in ready
    BY ONLY <1>13
  <2> QED BY <1>8, <2>1
<1>15. Len(s) \in Nat
  BY <1>13
<1>16. ASSUME NEW i \in 1 .. Len(s), NEW j \in 1 .. Len(s), s[i] = s[j] PROVE i = j
  <2>1. ~(i < j)
    <3> SUFFICES ASSUME i < j PROVE FALSE
      OBVIOUS
    <3>1. key[s[i]] < key[s[j]]
      BY <1>13
    <3> QED BY <1>14, <1>16, <3>1
  <2>2. ~(j < i)
    <3> SUFFICES ASSUME j < i PROVE FALSE
      OBVIOUS
    <3>1. key[s[j]] < key[s[i]]
      BY <1>13
    <3> QED BY <1>14, <1>16, <3>1
  <2> QED BY <1>15, <2>1, <2>2
<1>17. ASSUME NEW i \in 1 .. Len(s), NEW j \in 1 .. Len(s), p.fifo[s[i]] = p.fifo[s[j]], s[i] < s[j]
       PROVE  i < j
  <2>1. key[s[i]] < key[s[j]] /\ key[s[i]] \in Nat /\ key[s[j]] \in Nat
    BY <1>10, <1>14, <1>17
  <2>2. i # j
    <3>1. \A x \in Nat : ~(x < x)
      OBVIOUS
    <3> QED BY <2>1, <3>1
  <2>3. ~(j < i)
    <3> SUFFICES ASSUME j < i PROVE FALSE
      OBVIOUS
    <3>1. key[s[j]] < key[s[i]]
      BY <1>13
    <3> QED BY <2>1, <3>1
  <2> QED BY <1>15, <2>2, <2>3
<1> QED BY <1>13, <1>16, <1>17 DEF s, TakesTurns

(* The tasks that have to run before t.                                    *)
Earlier(p, t) == Predecessors(p, t) \cup {u \in Task : u < t /\ p.fifo[u] = p.fifo[t]}

(* Tasks, each once and behind those that have to run before it.           *)
Executes(p, tasks) ==
    /\ tasks \in Seq(Task)
    /\ \A i, j \in 1 .. Len(tasks) : tasks[i] = tasks[j] => i = j
    /\ \A i \in 1 .. Len(tasks) : \A u \in Earlier(p, tasks[i]) : \E j \in 1 .. i - 1 : tasks[j] = u

\* What was issued comes before the ready tasks, or is ready as well.
LEMMA ReadyIs ==
    ASSUME NEW p, Ordered(p), NEW issued, NEW t \in ReadyOps(p, issued)
    PROVE  /\ t \in Task \ issued
           /\ \A u \in Earlier(p, t) :
                 u \in issued \/ (u \in ReadyOps(p, issued) /\ p.fifo[u] = p.fifo[t] /\ u < t)
<1> DEFINE Cleared(u) == \A v \in p.waits[u] : Producers(p, v) # {} /\ Producers(p, v) \subseteq issued
<1>1. /\ t \in Task \ issued
      /\ \A u \in Task \ issued : p.fifo[u] = p.fifo[t] /\ u <= t => Cleared(u)
  BY DEF ReadyOps
<1>2. \A u \in Task \ issued :
          (\A x \in Task \ issued : p.fifo[x] = p.fifo[u] /\ x <= u => Cleared(x)) => u \in ReadyOps(p, issued)
  BY DEF ReadyOps
<1>3. t \in Nat /\ \A u \in Task : u \in Nat
  BY <1>1 DEF Task
<1>4. Predecessors(p, t) \subseteq issued
  <2>1. Cleared(t)
    BY <1>1, <1>3
  <2> QED BY <2>1 DEF Predecessors
<1> HIDE DEF Cleared
<1>5. ASSUME NEW u \in Task \ issued, u < t, p.fifo[u] = p.fifo[t] PROVE u \in ReadyOps(p, issued)
  <2>1. ASSUME NEW x \in Task \ issued, p.fifo[x] = p.fifo[u], x <= u PROVE Cleared(x)
    <3>1. x <= t
      BY <1>3, <1>5, <2>1
    <3> QED BY <1>1, <1>5, <2>1, <3>1
  <2> QED BY <1>2, <2>1
<1> QED BY <1>1, <1>4, <1>5 DEF Earlier

\* One round through the FIFOs.
LEMMA RoundExecutes ==
    ASSUME NEW p, Ordered(p), NEW tasks, Executes(p, tasks)
    PROVE  Executes(p, WithReady(p, tasks))
<1> DEFINE s == InTurn(p, ReadyOps(p, {tasks[i] : i \in DOMAIN tasks}))
           r == WithReady(p, tasks)
           issued == {tasks[i] : i \in DOMAIN tasks}
           ready == ReadyOps(p, issued)
           m == Len(tasks)
           n == Len(s)
<1>1. /\ tasks \in Seq(Task) /\ m \in Nat /\ DOMAIN tasks = 1 .. m
      /\ \A i, j \in 1 .. m : tasks[i] = tasks[j] => i = j
      /\ \A i \in 1 .. m : \A u \in Earlier(p, tasks[i]) : \E j \in 1 .. i - 1 : tasks[j] = u
  BY DEF Executes
<1>2. ready \in SUBSET Task
  BY DEF ReadyOps
<1>3. s = InTurn(p, ready)
  OBVIOUS
<1>a. r = tasks \o s
  BY DEF WithReady
<1>4. \A i \in 1 .. m : tasks[i] \in issued
  BY <1>1
<1>5. \A x \in issued : \E i \in 1 .. m : tasks[i] = x
  BY <1>1
<1> HIDE DEF issued
<1>6. \A t \in ready : /\ t \in Task \ issued
                       /\ \A u \in Earlier(p, t) : u \in issued \/ (u \in ready /\ p.fifo[u] = p.fifo[t] /\ u < t)
  BY ReadyIs
<1> HIDE DEF ready, s, r
<1>7. /\ s \in Seq(ready)
      /\ \A x \in ready : \E i \in 1 .. n : s[i] = x
      /\ \A i, j \in 1 .. n : s[i] = s[j] => i = j
      /\ \A i, j \in 1 .. n : p.fifo[s[i]] = p.fifo[s[j]] /\ s[i] < s[j] => i < j
  <2>1. TakesTurns(p, s, ready)
    BY <1>2, <1>3, TurnsIs
  <2> QED BY <2>1 DEF TakesTurns
<1>8. s \in Seq(Task) /\ n \in Nat
  BY <1>2, <1>7
<1>9. r \in Seq(Task) /\ Len(r) = m + n
  BY <1>1, <1>8, <1>a
<1>10. \A i \in 1 .. m : r[i] = tasks[i]
  BY <1>1, <1>8, <1>a
<1>11. \A k \in 1 .. n : r[m + k] = s[k]
  BY <1>1, <1>8, <1>a
<1>12. \A k \in 1 .. n : s[k] \in ready
  BY <1>7
<1> HIDE DEF m, n
<1>0. m \in Nat /\ n \in Nat
  BY <1>1, <1>8
<1>13. \A i \in 1 .. m + n : i \in 1 .. m \/ \E k \in 1 .. n : i = m + k
  <2> SUFFICES ASSUME NEW i \in 1 .. m + n, i \notin 1 .. m PROVE \E k \in 1 .. n : i = m + k
    OBVIOUS
  <2>1. i - m \in 1 .. n /\ i = m + (i - m)
    BY <1>0
  <2> QED BY <2>1
<1>14. ASSUME NEW i \in 1 .. m + n, NEW j \in 1 .. m + n, r[i] = r[j] PROVE i = j
  <2>1. CASE i \in 1 .. m /\ j \in 1 .. m
    BY <1>1, <1>10, <1>14, <2>1
  <2>2. ASSUME NEW k \in 1 .. n, NEW l \in 1 .. n, i = m + k, j = m + l PROVE i = j
    <3>1. s[k] = s[l]
      BY <1>11, <1>14, <2>2
    <3> QED BY <1>7, <2>2, <3>1
  <2>a. \A k \in 1 .. n : r[m + k] \notin issued
    BY <1>6, <1>11, <1>12
  <2>b. \A k \in 1 .. m : r[k] \in issued
    BY <1>4, <1>10
  <2>3. ASSUME NEW k \in 1 .. n, i = m + k, j \in 1 .. m PROVE FALSE
    BY <1>14, <2>3, <2>a, <2>b
  <2>4. ASSUME NEW k \in 1 .. n, j = m + k, i \in 1 .. m PROVE FALSE
    BY <1>14, <2>4, <2>a, <2>b
  <2> QED BY <1>13, <2>1, <2>2, <2>3, <2>4
<1>15. ASSUME NEW i \in 1 .. m + n, NEW u \in Earlier(p, r[i]) PROVE \E j \in 1 .. i - 1 : r[j] = u
  <2>1. CASE i \in 1 .. m
    <3>1. PICK j \in 1 .. i - 1 : tasks[j] = u
      BY <1>1, <1>10, <1>15, <2>1
    <3>2. j \in 1 .. m
      BY <1>0, <2>1, <3>1
    <3> QED BY <1>10, <3>1, <3>2
  <2>2. ASSUME NEW k \in 1 .. n, i = m + k PROVE \E j \in 1 .. i - 1 : r[j] = u
    <3>1. r[i] = s[k] /\ s[k] \in ready
      BY <1>11, <1>12, <2>2
    <3>2. CASE u \in issued
      <4>1. PICK j \in 1 .. m : tasks[j] = u
        BY <1>5, <3>2
      <4>2. j \in 1 .. i - 1
        BY <1>0, <2>2, <4>1
      <4> QED BY <1>10, <4>1, <4>2
    <3>3. CASE u \in ready /\ p.fifo[u] = p.fifo[s[k]] /\ u < s[k]
      <4>1. PICK l \in 1 .. n : s[l] = u
        BY <1>7, <3>3
      <4>2. l < k
        BY <1>7, <3>3, <4>1
      <4>3. m + l \in 1 .. i - 1
        BY <1>0, <2>2, <4>1, <4>2
      <4>4. r[m + l] = u
        BY <1>11, <4>1
      <4> QED BY <4>3, <4>4
    <3> QED BY <1>6, <1>15, <3>1, <3>2, <3>3
  <2> QED BY <1>13, <2>1, <2>2
<1> QED BY <1>9, <1>14, <1>15 DEF Executes, r

\* While some tasks have not been issued, one of them is ready: the first one.
LEMMA RoundProgresses ==
    ASSUME NEW p, Ordered(p), Paired(p), NEW tasks, Executes(p, tasks), Len(tasks) < NumTasks
    PROVE  Len(tasks) < Len(WithReady(p, tasks))
<1> DEFINE issued == {tasks[i] : i \in DOMAIN tasks}
           left == Task \ issued
           ready == ReadyOps(p, issued)
           s == InTurn(p, ready)
           m == Len(tasks)
           D == 1 .. m
<1>1. tasks \in [D -> Task] /\ m \in Nat /\ DOMAIN tasks = D /\ tasks \in Seq(Task)
  BY DEF Executes
<1>0. m < NumTasks /\ Len(tasks) = m
  OBVIOUS
<1> HIDE DEF m
<1>2. left # {}
  <2> SUFFICES ASSUME left = {} PROVE FALSE
    OBVIOUS
  <2>1. tasks \in Bijection(D, Task)
    <3>1. tasks \in Injection(D, Task)
      BY <1>1 DEF Executes, Injection, IsInjective
    <3>2. \A t \in Task : \E i \in D : tasks[i] = t
      BY <1>1
    <3> QED BY <1>1, <3>1, <3>2 DEF Bijection, Surjection
  <2>2. IsFiniteSet(D) /\ Cardinality(D) = m
    <3>1. m \in Int /\ 1 \in Int /\ (IF 1 > m THEN 0 ELSE m - 1 + 1) = m
      BY <1>1
    <3> QED BY <3>1, FS_Interval
  <2> HIDE DEF D
  <2>3. Cardinality(Task) = m
    <3>1. ExistsBijection(D, Task)
      BY <2>1 DEF ExistsBijection
    <3> QED BY <2>2, <3>1, FS_Bijection
  <2>4. Cardinality(Task) = NumTasks
    BY SizeAssumption, FS_Interval DEF Task
  <2> QED BY <1>0, <1>1, <2>3, <2>4, SizeAssumption
<1>3. left \in SUBSET Nat /\ left \subseteq Task
  BY DEF Task
<1>4. PICK t \in left : \A u \in left : t <= u
  BY <1>2, <1>3, LeastElement
<1>5. ASSUME NEW v \in p.waits[t]
      PROVE  Producers(p, v) # {} /\ Producers(p, v) \subseteq issued
  <2>1. t \in Task /\ v \in Barriers(p) /\ t \in Consumers(p, v)
    BY <1>3 DEF Ordered, Consumers
  <2>2. Producers(p, v) # {}
    BY <2>1 DEF Paired
  <2>3. ASSUME NEW u \in Producers(p, v) PROVE u \in issued
    <3>1. u \in Task /\ p.posts[u] \cap p.waits[t] # {}
      BY <1>5, <2>3 DEF Producers
    <3>2. u < t /\ u \in Nat /\ t \in Nat
      BY <2>1, <3>1 DEF Ordered, Task
    <3> QED BY <1>4, <3>1, <3>2
  <2> QED BY <2>2, <2>3
<1>6. t \in ready
  <2>1. \A u \in Task \ issued : u <= t => u = t
    BY <1>3, <1>4
  <2> QED BY <1>3, <1>5, <2>1 DEF ReadyOps
<1>7. ready \in SUBSET Task
  BY DEF ReadyOps
<1> HIDE DEF issued, ready, left
<1>8. s \in Seq(ready) /\ \E i \in 1 .. Len(s) : s[i] = t
  <2>1. TakesTurns(p, s, ready)
    BY <1>7, TurnsIs
  <2> QED BY <1>6, <2>1 DEF TakesTurns
<1>9. s \in Seq(Task) /\ Len(s) \in Nat /\ Len(s) # 0
  BY <1>7, <1>8
<1>10. WithReady(p, tasks) = tasks \o s
  BY DEF WithReady, ready, issued
<1> HIDE DEF s
<1>11. Len(tasks \o s) = m + Len(s)
  BY <1>1, <1>9
<1> QED BY <1>0, <1>1, <1>9, <1>10, <1>11

\* The tasks come in the order they become ready, and all of them do.
THEOREM TaskOrderExecutes ==
    ASSUME NEW p, Ordered(p), Paired(p)
    PROVE  Executes(p, TaskOrder(p)) /\ ~(Len(TaskOrder(p)) < NumTasks)
<1> DEFINE base == <<>>
           n == NumTasks
           T == [i \in 0 .. n |-> {s \in Seq(Task) : Executes(p, s) /\ ~(Len(s) < i /\ Len(s) < n)}]
           step == [i \in 1 .. n |-> [q \in T[i - 1] |-> WithReady(p, q)]]
           f == CHOOSE g : g = [i \in 0 .. n |-> IF i = 0 THEN base ELSE WithReady(p, g[i - 1])]
<1>1. n \in Nat
  BY SizeAssumption
<1>2. base \in T[0]
  <2>1. base \in Seq(Task) /\ Len(base) = 0
    OBVIOUS
  <2> HIDE DEF base
  <2>2. Executes(p, base)
    BY <2>1 DEF Executes
  <2>3. ~(Len(base) < 0)
    BY <2>1
  <2> QED BY <1>1, <2>1, <2>2, <2>3
<1>3. \A i \in 1 .. n : \A q \in T[i - 1] : WithReady(p, q) \in T[i]
  <2> SUFFICES ASSUME NEW i \in 1 .. n, NEW q \in T[i - 1] PROVE WithReady(p, q) \in T[i]
    OBVIOUS
  <2> DEFINE r == WithReady(p, q)
  <2>1. Executes(p, q) /\ ~(Len(q) < i - 1 /\ Len(q) < n) /\ Len(q) \in Nat
    BY <1>1
  <2>2. Executes(p, r)
    BY <2>1, RoundExecutes
  <2> HIDE DEF r
  <2>3. r \in Seq(Task)
    BY <2>2 DEF Executes
  <2>4. Len(q) < n => Len(q) < Len(r)
    BY <2>1, RoundProgresses DEF r
  <2>5. Len(q) <= Len(r) /\ Len(r) \in Nat
    <3> DEFINE s == InTurn(p, ReadyOps(p, {q[k] : k \in DOMAIN q}))
    <3>1. TakesTurns(p, s, ReadyOps(p, {q[k] : k \in DOMAIN q}))
      BY TurnsIs DEF ReadyOps
    <3>2. r = q \o s /\ s \in Seq(Task) /\ q \in Seq(Task)
      BY <2>1, <3>1 DEF WithReady, TakesTurns, ReadyOps, Executes, r
    <3> HIDE DEF s
    <3>3. Len(r) = Len(q) + Len(s) /\ Len(s) \in Nat
      BY <3>2
    <3> QED BY <2>1, <3>3
  <2>6. ~(Len(r) < i /\ Len(r) < n)
    BY <1>1, <2>1, <2>4, <2>5
  <2>7. r \in T[i]
    BY <1>1, <2>2, <2>3, <2>6
  <2> QED BY <2>7 DEF r
<1>4. \E g : g = [i \in 0 .. n |-> IF i = 0 THEN base ELSE WithReady(p, g[i - 1])]
  <2>1. \A i \in 1 .. n : \A q \in T[i - 1] : step[i][q] = WithReady(p, q)
    OBVIOUS
  <2> HIDE DEF step, base, n, T
  <2>2. \A i \in 1 .. n : \A q \in T[i - 1] : step[i][q] \in T[i]
    BY <1>3, <2>1
  <2>3. PICK g : Loops(g, n, base, step) /\ \A i \in 0 .. n : g[i] \in T[i]
    BY ONLY <1>1, <1>2, <2>2, LoopSolves
  <2>4. \A i \in 1 .. n : g[i - 1] \in T[i - 1] /\ step[i][g[i - 1]] = WithReady(p, g[i - 1])
    BY <1>1, <2>1, <2>3
  <2>5. g = [i \in 0 .. n |-> IF i = 0 THEN base ELSE step[i][g[i - 1]]]
    BY <2>3 DEF Loops
  <2>6. \A i \in 0 .. n : i # 0 => step[i][g[i - 1]] = WithReady(p, g[i - 1])
    BY ONLY <1>1, <2>4
  <2> QED BY ONLY <2>5, <2>6
<1>5. f = [i \in 0 .. n |-> IF i = 0 THEN base ELSE WithReady(p, f[i - 1])]
  BY <1>4
<1>6. TaskOrder(p) = f[n]
  BY DEF TaskOrder, Iterate
<1>7. f[n] \in T[n]
  <2> HIDE DEF f, base, n, T
  <2>1. f[0] \in T[0]
    BY <1>1, <1>2, <1>5
  <2>2. \A i \in 1 .. n : f[i] = WithReady(p, f[i - 1])
    BY ONLY <1>1, <1>5
  <2>3. \A i \in 1 .. n : f[i - 1] \in T[i - 1] => f[i] \in T[i]
    BY <1>3, <2>2
  <2> QED BY ONLY <1>1, <2>1, <2>3, LoopStays
<1>8. \A s \in T[n] : Executes(p, s) /\ ~(Len(s) < NumTasks)
  BY <1>1
<1> QED BY <1>6, <1>7, <1>8

\* If all tasks are listed each one is.
LEMMA ExecutesAll ==
    ASSUME NEW p, NEW tasks, Executes(p, tasks), ~(Len(tasks) < NumTasks)
    PROVE  Len(tasks) = NumTasks /\ \A t \in Task : \E i \in Task : tasks[i] = t
<1> DEFINE m == Len(tasks)
           D == 1 .. m
<1>1. tasks \in [D -> Task] /\ m \in Nat
  BY DEF Executes
<1>2. tasks \in Injection(D, Task)
  BY <1>1 DEF Executes, Injection, IsInjective
<1>3. IsFiniteSet(Task) /\ Cardinality(Task) = NumTasks /\ NumTasks \in Nat
  BY SizeAssumption, FS_Interval DEF Task
<1>a. ~(m < NumTasks)
  OBVIOUS
<1> HIDE DEF m
<1>4. IsFiniteSet(D) /\ Cardinality(D) = m
  BY <1>1, FS_Interval
<1>5. /\ Cardinality(D) <= Cardinality(Task)
      /\ Cardinality(D) = Cardinality(Task) <=> tasks \in Surjection(D, Task)
  BY <1>2, <1>3, FS_Injection
<1>6. m = NumTasks
  BY <1>1, <1>3, <1>4, <1>5, <1>a
<1>7. tasks \in Surjection(D, Task)
  BY <1>3, <1>4, <1>5, <1>6
<1> QED BY <1>6, <1>7 DEF Surjection, m, Task

-----------------------------------------------------------------------------
(* Tasks and barriers under new numbers.                                   *)

(* All tasks in such an order.                                             *)
Schedules(p, tasks) ==
    /\ Executes(p, tasks) /\ Len(tasks) = NumTasks
    /\ \A t \in Task : \E i \in Task : tasks[i] = t

(* All barriers, those that are used first.                                *)
UsedFirst(p, bars) ==
    /\ bars \in Seq(Barriers(p)) /\ Len(bars) = p.bars
    /\ \A v \in Barriers(p) : \E i \in Barriers(p) : bars[i] = v
    /\ \A i, j \in Barriers(p) : i < j /\ bars[j] \in Used(p) => bars[i] \in Used(p)

\* The barriers come in the order of their first producers.
LEMMA BarrierOrderIs ==
    ASSUME NEW p, Ordered(p), Paired(p), NEW tasks, Schedules(p, tasks)
    PROVE  UsedFirst(p, BarrierOrder(p, tasks))
<1> DEFINE N == p.bars
           D == Barriers(p)
           At(v) == {i \in DOMAIN tasks : tasks[i] \in Producers(p, v)}
           first(v) == Least({NumTasks + 1} \cup At(v))
           key == [v \in D |-> p.bars * Least({NumTasks + 1} \cup
                                   {i \in DOMAIN tasks : tasks[i] \in Producers(p, v)}) + v]
           bars == BarrierOrder(p, tasks)
<1>1. bars = InOrder(key)
  BY DEF BarrierOrder
<1>2. key = [v \in D |-> Mixed(N, first(v), v)]
  BY DEF Mixed
<1> HIDE DEF key, bars
<1>3. N \in Nat /\ D = 1 .. N /\ NumTasks \in Nat
  BY SizeAssumption DEF Ordered, Barriers
<1>4. DOMAIN tasks = Task /\ \A t \in Task : \E i \in Task : tasks[i] = t
  BY <1>3 DEF Schedules, Executes, Task
<1>5. \A v \in D : v \in Used(p) <=> Producers(p, v) # {}
  BY DEF Used, Paired
<1>6. ASSUME NEW v \in D PROVE first(v) \in Nat /\ (v \in Used(p) <=> first(v) < NumTasks + 1)
  <2> DEFINE S == {NumTasks + 1} \cup At(v)
  <2>1. At(v) \in SUBSET Task
    BY <1>4
  <2>2. v \in Used(p) <=> At(v) # {}
    BY <1>4, <1>5 DEF Producers
  <2> HIDE DEF At
  <2>3. \A x \in At(v) : x \in Nat /\ x < NumTasks + 1
    BY <1>3, <2>1 DEF Task
  <2>4. S \in SUBSET Nat /\ S # {}
    BY <1>3, <2>3
  <2>5. \A x \in S : x = NumTasks + 1 \/ x \in At(v)
    OBVIOUS
  <2>a. At(v) \subseteq S
    OBVIOUS
  <2>b. first(v) = Least(S)
    OBVIOUS
  <2> HIDE DEF S, first
  <2>6. first(v) \in S /\ \A y \in S : first(v) <= y
    <3>1. \E x \in S : \A y \in S : x <= y
      BY <2>4, LeastElement
    <3> QED BY <2>b, <3>1 DEF Least
  <2>7. first(v) \in Nat
    BY <2>4, <2>6
  <2>8. v \in Used(p) => first(v) < NumTasks + 1
    <3> SUFFICES ASSUME v \in Used(p) PROVE first(v) < NumTasks + 1
      OBVIOUS
    <3>1. PICK x \in At(v) : TRUE
      BY <2>2
    <3>2. first(v) <= x /\ x \in Nat /\ x < NumTasks + 1
      BY <2>3, <2>6, <2>a, <3>1
    <3> QED BY <1>3, <2>7, <3>2
  <2>9. first(v) < NumTasks + 1 => v \in Used(p)
    BY <1>3, <2>2, <2>5, <2>6
  <2> QED BY <2>7, <2>8, <2>9
<1> HIDE DEF first, D, N
<1>7. \A v \in D : v \in 1 .. N /\ Mixed(N, first(v), v) \in Nat
  BY <1>3, <1>6 DEF Mixed
<1>8. key \in [D -> Nat] /\ \A v \in D : key[v] = Mixed(N, first(v), v)
  BY <1>2, <1>7
<1>9. Distinct(key)
  <2> SUFFICES ASSUME NEW v \in D, NEW w \in D, key[v] = key[w] PROVE v = w
    BY <1>8 DEF Distinct
  <2>1. /\ N \in Nat /\ first(v) \in Nat /\ first(w) \in Nat /\ v \in 1 .. N /\ w \in 1 .. N
        /\ Mixed(N, first(v), v) = Mixed(N, first(w), w)
    BY <1>3, <1>6, <1>7, <1>8
  <2> QED BY ONLY <2>1, MixedDistinct
<1>10. IsFiniteSet(D) /\ Cardinality(D) = N
  BY <1>3, FS_Interval
<1>11. InKeyOrder(bars, key) /\ DOMAIN key = D
  BY <1>1, <1>8, <1>9, <1>10, InOrderIs
<1>12. /\ bars \in Seq(D) /\ Len(bars) = N
       /\ \A v \in D : \E i \in 1 .. N : bars[i] = v
       /\ \A i, j \in 1 .. N : i < j => key[bars[i]] < key[bars[j]]
  BY <1>10, <1>11 DEF InKeyOrder
<1>13. ASSUME NEW i \in 1 .. N, NEW j \in 1 .. N, i < j, bars[j] \in Used(p) PROVE bars[i] \in Used(p)
  <2> DEFINE v == bars[i]
             w == bars[j]
  <2>1. v \in D /\ w \in D /\ key[v] < key[w]
    BY <1>12, <1>13
  <2>2. SUFFICES ASSUME v \notin Used(p) PROVE FALSE
    OBVIOUS
  <2>3. w \in Used(p)
    BY <1>13
  <2> HIDE DEF v, w
  <2>4. first(w) < first(v) /\ first(w) \in Nat /\ first(v) \in Nat
    BY <1>3, <1>6, <2>1, <2>2, <2>3
  <2>5. Mixed(N, first(w), w) < Mixed(N, first(v), v)
    BY <1>3, <1>7, <2>1, <2>4, MixedGrows
  <2>6. key[w] < key[v] /\ key[w] \in Nat /\ key[v] \in Nat
    BY <1>8, <2>1, <2>5
  <2> QED BY <2>1, <2>6
<1> QED BY <1>3, <1>12, <1>13 DEF UsedFirst, D, N, bars

(* Barriers without use are behind the others.                             *)
Packed(p) == Used(p) = 1 .. Cardinality(Used(p))

\* Numbers from 1 on.
LEMMA CountedUp ==
    ASSUME NEW S \in SUBSET Nat, IsFiniteSet(S), 0 \notin S, \A x \in S : \A y \in 1 .. x : y \in S
    PROVE  S = 1 .. Cardinality(S)
<1>1. CASE S = {}
  <2>1. Cardinality(S) = 0
    BY <1>1, FS_EmptySet
  <2> QED BY <1>1, <2>1
<1>2. CASE S # {}
  <2> DEFINE c == Cardinality(S)
  <2>1. c \in Nat /\ c # 0 /\ c \in 1 .. c
    BY <1>2, FS_CardinalityType, FS_EmptySet
  <2>2. PICK m \in S : Rank(S, m) = c - 1
    BY <2>1, RankOnto
  <2>3. S = 1 .. m
    <3>1. ASSUME NEW y \in S PROVE y \in 1 .. m
      <4>1. y \in Nat /\ m \in Nat /\ y # 0
        OBVIOUS
      <4>2. ~(m < y)
        <5> SUFFICES ASSUME m < y PROVE FALSE
          OBVIOUS
        <5>1. Rank(S, m) < Rank(S, y) /\ Rank(S, y) < c /\ Rank(S, y) \in Nat
          BY RankGrows, RankType
        <5> HIDE DEF c
        <5> QED BY <2>1, <2>2, <5>1
      <4> QED BY <4>1, <4>2
    <3> QED BY <3>1
  <2>4. Cardinality(1 .. m) = m
    <3>1. m \in Nat /\ m # 0
      BY <2>2
    <3> QED BY <3>1, FS_Interval
  <2> QED BY <2>3, <2>4
<1> QED BY <1>1, <1>2

(* Tasks t and u of q are tasks[t] and tasks[u] of p: those that had to    *)
(* run before others still have to, those on one FIFO are still in order.  *)
Renumbers(p, q, tasks) ==
    /\ \A t, u \in Task : tasks[u] \in TaskControlMap(p)[tasks[t]] => u \in TaskControlMap(q)[t]
    /\ \A t, u \in Task : t < u /\ q.fifo[t] = q.fifo[u] =>
           p.fifo[tasks[t]] = p.fifo[tasks[u]] /\ tasks[t] < tasks[u]

\* Tasks and barriers get their numbers in that order.
THEOREM ReindexedIs ==
    ASSUME NEW p, Ordered(p), Paired(p), Fits(p), NEW tasks, Schedules(p, tasks),
           NEW bars, UsedFirst(p, bars), NEW q, q = Reindexed(p, tasks, bars)
    PROVE  /\ Ordered(q) /\ Paired(q) /\ Fits(q) /\ q.bars = p.bars
           /\ Packed(q) /\ Renumbers(p, q, tasks)
<1>1. /\ tasks \in [Task -> Task] /\ Len(tasks) = NumTasks
      /\ \A i, j \in Task : tasks[i] = tasks[j] => i = j
      /\ \A i \in Task : \A u \in Earlier(p, tasks[i]) : \E j \in 1 .. i - 1 : tasks[j] = u
      /\ \A t \in Task : \E i \in Task : tasks[i] = t
  <2>1. Executes(p, tasks) /\ Len(tasks) = NumTasks /\ \A t \in Task : \E i \in Task : tasks[i] = t
    BY DEF Schedules
  <2>2. tasks \in Seq(Task)
    BY <2>1 DEF Executes
  <2>3. 1 .. Len(tasks) = Task
    BY <2>1 DEF Task
  <2>4. tasks \in [Task -> Task]
    <3>1. tasks \in [1 .. Len(tasks) -> Task]
      BY <2>2
    <3> QED BY <2>3, <3>1
  <2>5. \A i, j \in Task : tasks[i] = tasks[j] => i = j
    BY <2>1, <2>3 DEF Executes
  <2>6. \A i \in Task : \A u \in Earlier(p, tasks[i]) : \E j \in 1 .. i - 1 : tasks[j] = u
    BY <2>1, <2>3 DEF Executes
  <2> QED BY <2>1, <2>4, <2>5, <2>6
<1>2. /\ DOMAIN bars = Barriers(p) /\ p.bars \in Nat
      /\ \A j \in Barriers(p) : bars[j] \in Barriers(p)
      /\ \A v \in Barriers(p) : \E i \in Barriers(p) : bars[i] = v
      /\ \A i, j \in Barriers(p) : i < j /\ bars[j] \in Used(p) => bars[i] \in Used(p)
  <2>1. bars \in Seq(Barriers(p)) /\ Len(bars) = p.bars
    BY DEF UsedFirst
  <2>2. p.bars \in Nat /\ Barriers(p) = 1 .. p.bars
    BY DEF Ordered, Barriers
  <2>3. bars \in [1 .. Len(bars) -> Barriers(p)]
    BY ONLY <2>1
  <2> QED BY <2>1, <2>2, <2>3 DEF UsedFirst
<1>3. /\ q.bars = p.bars
      /\ q.fifo = [t \in Task |-> p.fifo[tasks[t]]]
      /\ q.count = [t \in Task |-> p.count[tasks[t]]]
      /\ q.waits = [t \in Task |-> {j \in DOMAIN bars : bars[j] \in p.waits[tasks[t]]}]
      /\ q.posts = [t \in Task |-> {j \in DOMAIN bars : bars[j] \in p.posts[tasks[t]]}]
      /\ q = [fifo |-> q.fifo, waits |-> q.waits, posts |-> q.posts, count |-> q.count, bars |-> q.bars]
  BY DEF Reindexed, Ordered
<1>4. /\ \A t \in Task : q.fifo[t] = p.fifo[tasks[t]] /\ q.count[t] = p.count[tasks[t]]
      /\ \A t \in Task : \A j : j \in q.waits[t] <=> j \in Barriers(p) /\ bars[j] \in p.waits[tasks[t]]
      /\ \A t \in Task : \A j : j \in q.posts[t] <=> j \in Barriers(p) /\ bars[j] \in p.posts[tasks[t]]
  BY <1>2, <1>3
<1>5. \A x \in Barriers(p) : x \in Nat
  BY DEF Barriers
<1>6. ASSUME NEW t \in Task, NEW u \in Task, tasks[t] \in Earlier(p, tasks[u]) PROVE t < u
  <2>1. PICK k \in 1 .. u - 1 : tasks[k] = tasks[t]
    BY <1>1, <1>6
  <2>2. k \in Task /\ k < u
    BY SizeAssumption DEF Task
  <2> QED BY <1>1, <2>1, <2>2
<1>7. Ordered(q)
  <2>1. \A t, u \in Task : q.posts[t] \cap q.waits[u] # {} => t < u
    <3> SUFFICES ASSUME NEW t \in Task, NEW u \in Task, NEW j \in q.posts[t] \cap q.waits[u] PROVE t < u
      OBVIOUS
    <3>1. bars[j] \in p.posts[tasks[t]] /\ bars[j] \in p.waits[tasks[u]] /\ tasks[t] \in Task
      BY <1>1, <1>4
    <3>2. tasks[t] \in Earlier(p, tasks[u])
      BY <3>1 DEF Earlier, Predecessors, Producers
    <3> QED BY <1>6, <3>2
  <2>2. \A t \in Task : q.posts[t] \subseteq Barriers(p) /\ q.waits[t] \subseteq Barriers(p)
    BY <1>4
  <2>3. q.posts \in [Task -> SUBSET Nat] /\ q.waits \in [Task -> SUBSET Nat]
    BY <1>3, <1>5, <2>2
  <2>4. q.fifo \in [Task -> Fifo] /\ q.count \in [Task -> Nat \ {0}]
    <3>1. p.fifo \in [Task -> Fifo] /\ p.count \in [Task -> Nat \ {0}]
      BY DEF Ordered
    <3>2. \A t \in Task : p.fifo[tasks[t]] \in Fifo /\ p.count[tasks[t]] \in Nat \ {0}
      BY <1>1, <3>1
    <3> QED BY <1>3, <3>2
  <2>5. Barriers(q) = Barriers(p)
    BY <1>3 DEF Barriers
  <2> QED BY <1>2, <1>3, <2>1, <2>2, <2>3, <2>4, <2>5 DEF Ordered
<1>8. Fits(q)
  BY <1>1, <1>4 DEF Fits
<1>9. ASSUME NEW j \in Barriers(p)
      PROVE  /\ Producers(q, j) = {} <=> Producers(p, bars[j]) = {}
             /\ Consumers(q, j) = {} <=> Consumers(p, bars[j]) = {}
  <2>1. \A t \in Task : \E i \in Task : tasks[i] = t
    BY <1>1
  <2>2. \A t \in Task : t \in Producers(q, j) <=> tasks[t] \in Producers(p, bars[j])
    BY <1>1, <1>4, <1>9 DEF Producers
  <2>3. \A t \in Task : t \in Consumers(q, j) <=> tasks[t] \in Consumers(p, bars[j])
    BY <1>1, <1>4, <1>9 DEF Consumers
  <2>4. /\ Producers(q, j) \subseteq Task /\ Producers(p, bars[j]) \subseteq Task
        /\ Consumers(q, j) \subseteq Task /\ Consumers(p, bars[j]) \subseteq Task
    BY DEF Producers, Consumers
  <2> QED BY <2>1, <2>2, <2>3, <2>4
<1>10. Barriers(q) = Barriers(p)
  BY <1>3 DEF Barriers
<1>11. Paired(q)
  BY <1>2, <1>9, <1>10 DEF Paired
<1>12. \A j \in Barriers(p) : j \in Used(q) <=> bars[j] \in Used(p)
  BY <1>2, <1>9, <1>10 DEF Used
<1>13. Packed(q)
  <2> DEFINE S == Used(q)
  <2>1. S \subseteq Barriers(p)
    BY <1>10 DEF Used
  <2>2. S \in SUBSET Nat /\ 0 \notin S
    BY <2>1 DEF Barriers
  <2>3. IsFiniteSet(S)
    <3>1. IsFiniteSet(Barriers(p))
      BY <1>2, FS_Interval DEF Barriers
    <3> HIDE DEF S
    <3> QED BY <2>1, <3>1, FS_Subset
  <2>4. ASSUME NEW x \in S, NEW y \in 1 .. x PROVE y \in S
    <3>1. x \in Barriers(p) /\ y \in Barriers(p) /\ (y < x \/ y = x)
      <4> DEFINE n == p.bars
      <4>1. x \in 1 .. n /\ n \in Nat
        BY <1>2, <2>1, <2>4 DEF Barriers
      <4>2. y \in 1 .. n
        <5> HIDE DEF n
        <5> QED BY <2>4, <4>1
      <4> QED BY <2>4, <4>1, <4>2 DEF Barriers
    <3> QED BY <1>2, <1>12, <2>4, <3>1
  <2> HIDE DEF S
  <2>5. S = 1 .. Cardinality(S)
    BY <2>2, <2>3, <2>4, CountedUp
  <2> QED BY <2>5 DEF Packed, S
<1>14. ASSUME NEW t \in Task, NEW u \in Task, tasks[u] \in StepsWithFifos(p)[tasks[t]]
       PROVE  u \in StepsWithFifos(q)[t]
  <2>1. tasks[t] \in Task /\ tasks[u] \in Task /\ tasks[u] \in DirectSuccessors(p, tasks[t])
    BY <1>1, <1>14 DEF StepsWithFifos
  <2>2. CASE tasks[u] \in BarrierSuccessors(p, tasks[t])
    <3>1. PICK v : v \in p.posts[tasks[t]] /\ v \in p.waits[tasks[u]]
      BY <2>2 DEF BarrierSuccessors, Consumers
    <3>2. v \in Barriers(p)
      BY <2>1, <3>1 DEF Ordered
    <3>3. PICK j \in Barriers(p) : bars[j] = v
      BY <1>2, <3>2
    <3>4. j \in q.posts[t] /\ j \in q.waits[u]
      BY <1>4, <3>1, <3>3
    <3> QED BY <3>4 DEF StepsWithFifos, DirectSuccessors, BarrierSuccessors, Consumers
  <2>3. CASE tasks[u] > tasks[t] /\ p.fifo[tasks[u]] = p.fifo[tasks[t]] /\ p.fifo[tasks[t]] \in DmaFifos
    <3>1. tasks[t] \in Earlier(p, tasks[u])
      BY <2>1, <2>3 DEF Earlier, Task
    <3>2. t < u /\ t \in Nat /\ u \in Nat
      BY <1>6, <3>1 DEF Task
    <3>3. q.fifo[u] = q.fifo[t] /\ q.fifo[t] \in DmaFifos /\ u > t
      BY <1>4, <2>3, <3>2
    <3> QED BY <3>3 DEF StepsWithFifos, DirectSuccessors
  <2> QED BY <2>1, <2>2, <2>3 DEF DirectSuccessors
<1>15. \A t, u \in Task : tasks[u] \in TaskControlMap(p)[tasks[t]] => u \in TaskControlMap(q)[t]
  <2> DEFINE R == TaskControlMap(p)
             M == TaskControlMap(q)
             D == StepsWithFifos(p)
             E == StepsWithFifos(q)
             G == {x \in Task : \A t, u \in Task : tasks[t] = x /\ tasks[u] \in R[x] => u \in M[t]}
  <2>1. Reach(R, D) /\ Reach(M, E)
    BY <1>7, ControlReach
  <2>2. \A t, u \in Task : tasks[u] \in D[tasks[t]] => u \in E[t]
    BY <1>14
  <2> HIDE DEF R, M, D, E
  <2>3. ASSUME NEW x \in Task, \A y \in Task : x < y => y \in G PROVE x \in G
    <3> SUFFICES ASSUME NEW t \in Task, NEW u \in Task, tasks[t] = x, tasks[u] \in R[x]
                 PROVE  u \in M[t]
      OBVIOUS
    <3>1. CASE tasks[u] \in D[x]
      BY <2>1, <2>2, <3>1, ReachUnfolds
    <3>2. ASSUME NEW y \in D[x], tasks[u] \in R[y] PROVE u \in M[t]
      <4>1. y \in Task /\ x < y
        BY <2>1, ReachUnfolds
      <4>2. PICK w \in Task : tasks[w] = y
        BY <1>1, <4>1
      <4>3. u \in M[w]
        BY <2>3, <3>2, <4>1, <4>2
      <4>4. w \in E[t]
        BY <2>2, <4>2
      <4>5. w \in M[t]
        BY <2>1, <4>4, ReachUnfolds
      <4> QED BY <2>1, <4>3, <4>5, ReachTransitive
    <3> QED BY <2>1, <3>1, <3>2, ReachUnfolds
  <2> HIDE DEF G
  <2>4. \A x \in Task : x \in G
    BY <2>3, FromTheLast
  <2> QED BY <1>1, <2>4 DEF G, R, M
<1>16. ASSUME NEW t \in Task, NEW u \in Task, t < u, q.fifo[t] = q.fifo[u]
       PROVE  p.fifo[tasks[t]] = p.fifo[tasks[u]] /\ tasks[t] < tasks[u]
  <2>1. p.fifo[tasks[t]] = p.fifo[tasks[u]] /\ tasks[t] \in Task /\ tasks[u] \in Task
    BY <1>1, <1>4, <1>16
  <2>2. tasks[t] # tasks[u]
    BY <1>1, <1>16 DEF Task
  <2>3. ~(tasks[u] < tasks[t])
    <3> SUFFICES ASSUME tasks[u] < tasks[t] PROVE FALSE
      OBVIOUS
    <3>1. tasks[u] \in Earlier(p, tasks[t])
      BY <2>1 DEF Earlier
    <3>2. u < t
      BY <1>6, <3>1
    <3> QED BY <1>16, <3>2 DEF Task
  <2> QED BY <2>1, <2>2, <2>3 DEF Task
<1>17. Renumbers(p, q, tasks)
  BY <1>15, <1>16 DEF Renumbers
<1> QED BY <1>3, <1>7, <1>8, <1>11, <1>13, <1>17

\* What is in use stays when the rest is erased.
LEMMA ErasedKeeps ==
    ASSUME NEW p, Ordered(p), Paired(p), Packed(p), NEW q, q = postProcessBarrierOps(p)
    PROVE  /\ Ordered(q) /\ Paired(q) /\ Packed(q) /\ q.fifo = p.fifo /\ q.count = p.count
           /\ q.posts = p.posts /\ q.waits = p.waits /\ q.bars = Cardinality(Used(p))
<1> DEFINE n == Cardinality(Used(p))
<1>1. /\ q.fifo = p.fifo /\ q.count = p.count /\ q.bars = n /\ q.posts = p.posts /\ q.waits = p.waits
      /\ q = [fifo |-> q.fifo, waits |-> q.waits, posts |-> q.posts, count |-> q.count, bars |-> q.bars]
  BY DEF postProcessBarrierOps, Ordered
<1>2. p.bars \in Nat
  BY DEF Ordered
<1>3. n \in Nat
  <2>1. IsFiniteSet(Barriers(p))
    BY <1>2, FS_Interval DEF Barriers
  <2>2. Used(p) \subseteq Barriers(p)
    BY DEF Used
  <2> QED BY <2>1, <2>2, FS_Subset, FS_CardinalityType
<1>4. Used(p) = 1 .. n
  BY DEF Packed
<1> HIDE DEF n
<1>5. Barriers(q) = 1 .. n
  BY <1>1 DEF Barriers
<1>6. \A t \in Task : p.waits[t] \cup p.posts[t] \subseteq Used(p)
  BY DEF Used, Ordered, Producers, Consumers
<1>7. Ordered(q)
  BY <1>1, <1>3, <1>4, <1>5, <1>6 DEF Ordered
<1>8. \A v : Producers(q, v) = Producers(p, v) /\ Consumers(q, v) = Consumers(p, v)
  BY <1>1 DEF Producers, Consumers
<1>9. \A v \in Barriers(q) : v \in Barriers(p) /\ v \in Used(p)
  BY <1>4, <1>5 DEF Used
<1>10. Paired(q)
  BY <1>8, <1>9 DEF Paired
<1>11. Used(q) = Used(p)
  BY <1>4, <1>5, <1>8, <1>9 DEF Used
<1>12. Packed(q)
  BY <1>11 DEF Packed
<1> QED BY <1>1, <1>7, <1>10, <1>12 DEF n

-----------------------------------------------------------------------------
(* What every pass keeps.                                                  *)

(* What the passes make of p as a whole: the path from one task to another *)
(* may be one of barriers or of a DMA queue.                               *)
Retains(p, q) ==
    /\ Ordered(q) /\ Paired(q) /\ Fits(q)
    /\ q.fifo = p.fifo
    /\ \A t \in Task : TaskControlMap(p)[t] \subseteq TaskControlMap(q)[t]

\* Rewriting does, and optimizing.
LEMMA GrowsRetains ==
    ASSUME NEW p, Ordered(p), Fits(p), NEW q, Grows(p, q)
    PROVE  Retains(p, q)
<1>1. Keeps(p, q)
  BY DEF Grows
<1>2. Ordered(q) /\ Paired(q) /\ q.fifo = p.fifo
  BY <1>1 DEF Keeps
<1> QED BY <1>1, <1>2, FitsKept, KeepsControl DEF Retains

\* With room for the final barrier, it is a function the simulator takes.
LEMMA OrderedIsProgram ==
    ASSUME NEW p, Ordered(p), p.bars < FinalBarrier
    PROVE  IsProgram(p)
<1>1. p \in [fifo : [Task -> Fifo], waits : [Task -> SUBSET Nat], posts : [Task -> SUBSET Nat],
             count : [Task -> Nat \ {0}], bars : Nat]
  BY DEF Ordered
<1>2. p.bars \in 0 .. FinalBarrier /\ Barriers(p) \subseteq Vid
  <2>1. p.bars \in Nat /\ FinalBarrier \in Nat
    BY <1>1, SizeAssumption DEF FinalBarrier
  <2> DEFINE n == p.bars
             m == FinalBarrier
  <2> HIDE DEF n, m
  <2>2. n \in Nat /\ m \in Nat /\ n < m
    BY <2>1 DEF n, m
  <2>3. n \in 0 .. m /\ 1 .. n \subseteq 1 .. m
    BY <2>2
  <2> QED BY <2>3 DEF n, m, Barriers, Vid
<1>3. \A t \in Task : p.waits[t] \subseteq Vid /\ p.posts[t] \subseteq Vid
  BY <1>2 DEF Ordered
<1>4. p.waits \in [Task -> SUBSET Vid] /\ p.posts \in [Task -> SUBSET Vid]
  BY <1>1, <1>3
<1> QED BY <1>1, <1>2, <1>4 DEF IsProgram

\* optimizeBarriers takes back what it added for the queues and keeps the paths.
LEMMA OptimizedRetains ==
    ASSUME NEW p, Ordered(p), Paired(p), Fits(p), p.bars < FinalBarrier
    PROVE  FifoDependenciesRemovable(p) /\ Retains(p, optimizeBarriers(p))
<1> DEFINE o == optimizeBarriers(p)
<1>1. IsProgram(p)
  BY OrderedIsProgram
<1>2. o.fifo = p.fifo /\ o.count = p.count
  BY <1>1, OptimizedIs
<1>3. Ordered(o) /\ Paired(o) /\ TaskControlMap(o) = TaskControlMap(p) /\ FifoDependenciesRemovable(p)
  BY <1>1, OptimizedSound, OptimizedControl, FifoDependenciesGo
<1> HIDE DEF o
<1>4. Retains(p, o)
  BY <1>2, <1>3 DEF Retains, Fits
<1> QED BY <1>3, <1>4 DEF o

\* Erasing does, too: no task has other barriers afterwards.
LEMMA ErasedRetains ==
    ASSUME NEW p, Ordered(p), Paired(p), Fits(p), Packed(p)
    PROVE  Retains(p, postProcessBarrierOps(p)) /\ Packed(postProcessBarrierOps(p))
<1> DEFINE q == postProcessBarrierOps(p)
<1>1. /\ Ordered(q) /\ Paired(q) /\ Packed(q) /\ q.fifo = p.fifo /\ q.count = p.count
      /\ q.posts = p.posts /\ q.waits = p.waits
  BY ErasedKeeps
<1> HIDE DEF q
<1>2. Steps(q) = Steps(p)
  BY <1>1 DEF Steps, BarrierSuccessors, Consumers
<1>3. StepsWithFifos(q) = StepsWithFifos(p)
  BY <1>1 DEF StepsWithFifos, DirectSuccessors, BarrierSuccessors, Consumers
<1>4. TaskControlMap(q) = TaskControlMap(p)
  BY <1>1, <1>3, ControlReach, ReachSame, ReachUnfolds
<1>5. Retains(p, q)
  BY <1>1, <1>4 DEF Retains, Fits
<1> QED BY <1>1, <1>5 DEF q

(* A function whose barriers are produced and consumed but for the final   *)
(* one, which nobody waits for.                                            *)
PairedButFinal(p) ==
    \A v \in Barriers(p) :
        IF v = FinalBarrier THEN Consumers(p, v) = {}
        ELSE Producers(p, v) = {} <=> Consumers(p, v) = {}

\* Tasks that update no barrier are given the final one.
LEMMA FinalRetains ==
    ASSUME NEW p, Ordered(p), Paired(p), Fits(p), p.bars < FinalBarrier,
           NEW q, q = [p EXCEPT !.bars = FinalBarrier, !.posts = [t \in Task |->
                          IF t \in {s \in Task : \A u \in Task : p.fifo[u] = p.fifo[s] => u <= s}
                             /\ p.posts[t] = {} THEN {FinalBarrier} ELSE p.posts[t]]]
    PROVE  /\ Ordered(q) /\ PairedButFinal(q) /\ Fits(q) /\ q.fifo = p.fifo
           /\ TaskControlMap(q) = TaskControlMap(p)
<1> DEFINE ends == {s \in Task : \A u \in Task : p.fifo[u] = p.fifo[s] => u <= s}
           F == FinalBarrier
           posts == [t \in Task |-> IF t \in ends /\ p.posts[t] = {} THEN {F} ELSE p.posts[t]]
<1>1. /\ q.bars = F /\ q.posts = posts /\ q.waits = p.waits /\ q.fifo = p.fifo /\ q.count = p.count
      /\ q = [fifo |-> q.fifo, waits |-> q.waits, posts |-> q.posts, count |-> q.count, bars |-> q.bars]
  BY DEF Ordered
<1> HIDE DEF ends
<1>2. F \in Nat /\ F # 0 /\ p.bars \in Nat /\ p.bars < F
  BY SizeAssumption DEF FinalBarrier, Ordered
<1> HIDE DEF F
<1>3. Barriers(p) \subseteq Barriers(q) /\ F \in Barriers(q) /\ F \notin Barriers(p)
      /\ \A v \in Barriers(q) : v \in Nat
  <2> DEFINE n == p.bars
  <2>1. n \in Nat /\ n < F /\ Barriers(p) = 1 .. n /\ Barriers(q) = 1 .. F
    BY <1>1, <1>2 DEF Barriers
  <2> HIDE DEF n
  <2>2. /\ 1 .. n \subseteq 1 .. F /\ F \in 1 .. F /\ F \notin 1 .. n
        /\ \A v \in 1 .. F : v \in Nat
    BY ONLY <1>2, <2>1
  <2> QED BY <2>1, <2>2
<1>4. \A t \in Task : p.waits[t] \subseteq Barriers(p) /\ p.posts[t] \subseteq Barriers(p)
  BY DEF Ordered
<1>5. \A t \in Task : \A v : v # F => (v \in posts[t] <=> v \in p.posts[t])
  BY <1>3, <1>4
<1>6. \A t \in Task : F \notin p.waits[t] /\ F \notin p.posts[t]
  BY <1>3, <1>4
<1>7. \A t \in Task : posts[t] \subseteq Barriers(q) /\ p.waits[t] \subseteq Barriers(q)
  BY <1>3, <1>4
<1>8. \A t \in Task : posts[t] \subseteq Nat
  BY <1>3, <1>7
<1>9. posts = [t \in Task |-> posts[t]]
  OBVIOUS
<1> HIDE DEF posts
<1>10. posts \in [Task -> SUBSET Nat]
  BY <1>8, <1>9
<1>11. \A t, u \in Task : q.posts[t] \cap q.waits[u] # {} <=> p.posts[t] \cap p.waits[u] # {}
  BY <1>1, <1>5, <1>6
<1>12. Ordered(q)
  <2>1. /\ p.fifo \in [Task -> Fifo] /\ p.waits \in [Task -> SUBSET Nat] /\ p.count \in [Task -> Nat \ {0}]
        /\ \A t, u \in Task : p.posts[t] \cap p.waits[u] # {} => t < u
    BY DEF Ordered
  <2> QED BY <1>1, <1>2, <1>7, <1>10, <1>11, <2>1 DEF Ordered
<1>13. \A v : v # F => Producers(q, v) = Producers(p, v) /\ Consumers(q, v) = Consumers(p, v)
  BY <1>1, <1>5 DEF Producers, Consumers
<1>14. PairedButFinal(q)
  <2>1. Consumers(q, F) = {}
    BY <1>1, <1>6 DEF Consumers
  <2>2. \A v \in Barriers(q) : v # F => v \in Barriers(p) \/ (Producers(p, v) = {} /\ Consumers(p, v) = {})
    BY <1>4 DEF Producers, Consumers
  <2>3. \A v \in Barriers(q) : v # F => (Producers(q, v) = {} <=> Consumers(q, v) = {})
    BY <1>13, <2>2 DEF Paired
  <2> QED BY <2>1, <2>3 DEF PairedButFinal, F
<1>15. \A t \in Task : BarrierSuccessors(q, t) = BarrierSuccessors(p, t)
  <2>1. \A t \in Task : \A u : u \in BarrierSuccessors(q, t) <=> u \in Task /\ q.posts[t] \cap q.waits[u] # {}
    BY DEF BarrierSuccessors, Consumers
  <2>2. \A t \in Task : \A u : u \in BarrierSuccessors(p, t) <=> u \in Task /\ p.posts[t] \cap p.waits[u] # {}
    BY DEF BarrierSuccessors, Consumers
  <2> QED BY <1>11, <2>1, <2>2
<1>16. StepsWithFifos(q) = StepsWithFifos(p)
  BY <1>1, <1>15 DEF StepsWithFifos, DirectSuccessors
<1>17. TaskControlMap(q) = TaskControlMap(p)
  BY <1>12, <1>16, ControlReach, ReachSame, ReachUnfolds
<1>18. Fits(q)
  BY <1>1 DEF Fits
<1> QED BY <1>1, <1>12, <1>14, <1>17, <1>18

(* The paths are still there, by the names tasks had in the first          *)
(* function, and so is the order of every FIFO.                            *)
Requires(p, paths, names) ==
    /\ names \in [Task -> Task]
    /\ \A path \in paths : \E t, u \in Task :
           path = <<names[t], names[u]>> /\ u \in TaskControlMap(p)[t]
    /\ \A t, u \in Task : t < u /\ p.fifo[t] = p.fifo[u] => names[t] < names[u]

\* Paths are still there under the names tasks have.
LEMMA RetainsRequires ==
    ASSUME NEW p, NEW q, Retains(p, q), NEW paths, NEW names, Requires(p, paths, names)
    PROVE  Requires(q, paths, names)
BY DEF Requires, Retains

\* New numbers are new names.
LEMMA RenumbersRequires ==
    ASSUME NEW p, NEW q, NEW tasks, Schedules(p, tasks), Renumbers(p, q, tasks),
           NEW paths, NEW names, Requires(p, paths, names),
           NEW renamed, renamed = [t \in Task |-> names[tasks[t]]]
    PROVE  Requires(q, paths, renamed)
<1>1. \A t \in Task : tasks[t] \in Task
  <2>1. tasks \in Seq(Task) /\ Len(tasks) = NumTasks
    BY DEF Schedules, Executes
  <2>2. DOMAIN tasks = Task
    BY <2>1 DEF Task
  <2> QED BY <2>1, <2>2
<1>2. \A t \in Task : \E i \in Task : tasks[i] = t
  BY DEF Schedules
<1>3. names \in [Task -> Task]
  BY DEF Requires
<1>4. renamed \in [Task -> Task] /\ \A t \in Task : renamed[t] = names[tasks[t]]
  BY <1>1, <1>3
<1>5. ASSUME NEW path \in paths
      PROVE  \E t, u \in Task : path = <<renamed[t], renamed[u]>> /\ u \in TaskControlMap(q)[t]
  <2>1. PICK a \in Task, b \in Task : path = <<names[a], names[b]>> /\ b \in TaskControlMap(p)[a]
    BY DEF Requires
  <2>2. PICK t \in Task, u \in Task : tasks[t] = a /\ tasks[u] = b
    BY <1>2
  <2>3. u \in TaskControlMap(q)[t]
    BY <2>1, <2>2 DEF Renumbers
  <2> QED BY <1>4, <2>1, <2>2, <2>3
<1>6. ASSUME NEW t \in Task, NEW u \in Task, t < u, q.fifo[t] = q.fifo[u]
      PROVE  renamed[t] < renamed[u]
  <2>1. p.fifo[tasks[t]] = p.fifo[tasks[u]] /\ tasks[t] < tasks[u]
    BY <1>6 DEF Renumbers
  <2> QED BY <1>1, <1>4, <2>1 DEF Requires
<1> QED BY <1>4, <1>5, <1>6 DEF Requires

\* An ordered function has all of this, under new names.
LEMMA OrderingRetains ==
    ASSUME NEW p, Ordered(p), Paired(p), Fits(p), NEW tasks, tasks = TaskOrder(p),
           NEW q, q = Reindexed(p, tasks, BarrierOrder(p, tasks)),
           NEW paths, NEW names, Requires(p, paths, names),
           NEW renamed, renamed = [t \in Task |-> names[tasks[t]]]
    PROVE  /\ ~(Len(tasks) < NumTasks)
           /\ Ordered(q) /\ Paired(q) /\ Fits(q) /\ Packed(q) /\ Requires(q, paths, renamed)
<1>0. Executes(p, tasks) /\ ~(Len(tasks) < NumTasks)
  BY TaskOrderExecutes
<1>1. Schedules(p, tasks)
  BY <1>0, ExecutesAll DEF Schedules
<1>2. UsedFirst(p, BarrierOrder(p, tasks))
  BY <1>1, BarrierOrderIs
<1>3. Ordered(q) /\ Paired(q) /\ Fits(q) /\ Packed(q) /\ Renumbers(p, q, tasks)
  BY <1>1, <1>2, ReindexedIs
<1>4. Requires(q, paths, renamed)
  BY <1>1, <1>3, RenumbersRequires
<1> QED BY <1>0, <1>3, <1>4

-----------------------------------------------------------------------------
(* What the passes still have to do follows one order.                     *)

MayFollow(a, b) ==
    \/ a \in {"split", "share"} /\ b = "order"
    \/ a = "order" /\ b \in {"erase", "checkSlots", "singleWait", "simulate"}
    \/ a = "erase" /\ b \in {"satisfyOneWait", "verifySlots"}
    \/ a = "singleWait" /\ b \in {"finishOneWait", "orderIfModified"}
    \/ a \in {"satisfyOneWait", "finishOneWait"} /\ b = "reduceExceeding"
    \/ a = "verifySlots" /\ b \in {"reduceExceeding", "verifyOneWait"}
    \/ a = "verifyOneWait" /\ b = "assign"
    \/ a = "optimize" /\ b = "share"
    \/ a = "checkSlots" /\ b = "singleWait"
    \/ a = "orderIfModified" /\ b = "simulate"

LastSteps == {"reduceExceeding", "trial", "simulate", "decide", "linearize", "assign"}

PassStep ==
    {"split", "order", "erase", "satisfyOneWait", "singleWait", "finishOneWait", "reduceExceeding",
     "trial", "optimize", "share", "checkSlots", "orderIfModified", "simulate", "decide", "linearize",
     "verifySlots", "verifyOneWait", "assign"}

InSuit(steps) ==
    steps \in Seq(PassStep) /\ \A i \in 1 .. Len(steps) - 1 : MayFollow(steps[i], steps[i + 1])

Planned(steps) == InSuit(steps) /\ (steps # <<>> => steps[Len(steps)] \in LastSteps)

\* Whatever is left follows the first step, unless that was the last one.
LEMMA PlanGoesOn ==
    ASSUME NEW s, Planned(s), s # <<>>
    PROVE  /\ Planned(Tail(s)) /\ Head(s) \in PassStep
           /\ Tail(s) = <<>> => Head(s) \in LastSteps
           /\ Tail(s) # <<>> => MayFollow(Head(s), Head(Tail(s)))
<1> DEFINE r == Tail(s)
           n == Len(s)
<1>1. /\ s \in Seq(PassStep) /\ s[n] \in LastSteps
      /\ \A i \in 1 .. n - 1 : MayFollow(s[i], s[i + 1])
  BY DEF Planned, InSuit
<1>2. n \in Nat /\ n # 0 /\ Head(s) = s[1] /\ s[1] \in PassStep
  BY <1>1
<1>3. r \in Seq(PassStep) /\ Len(r) = n - 1 /\ \A i \in 1 .. n - 1 : r[i] = s[i + 1]
  BY <1>1
<1> HIDE DEF r, n
<1>4. r = <<>> => n = 1
  BY <1>2, <1>3
<1>5. r # <<>> => n > 1 /\ Head(r) = r[1]
  BY <1>2, <1>3
<1>6. ASSUME NEW i \in 1 .. Len(r) - 1 PROVE MayFollow(r[i], r[i + 1])
  <2>1. i \in 1 .. n - 1 /\ i + 1 \in 1 .. n - 1
    BY <1>2, <1>3
  <2> QED BY <1>1, <1>3, <2>1
<1>7. r # <<>> => r[Len(r)] \in LastSteps
  <2> SUFFICES ASSUME r # <<>> PROVE r[Len(r)] \in LastSteps
    OBVIOUS
  <2>1. n - 1 \in 1 .. n - 1 /\ n - 1 + 1 = n
    BY <1>2, <1>5
  <2>2. r[n - 1] = s[n]
    BY <1>3, <2>1
  <2> QED BY <1>1, <1>3, <2>2
<1>8. Planned(r)
  BY <1>3, <1>6, <1>7 DEF Planned, InSuit
<1>9. r # <<>> => MayFollow(Head(s), Head(r))
  <2> SUFFICES ASSUME r # <<>> PROVE MayFollow(Head(s), Head(r))
    OBVIOUS
  <2>1. 1 \in 1 .. n - 1
    BY <1>2, <1>5
  <2> QED BY <1>1, <1>2, <1>3, <1>5, <2>1
<1> QED BY <1>1, <1>2, <1>4, <1>8, <1>9 DEF r

\* Steps are put in front of what follows the last of them.
LEMMA PlanGrows ==
    ASSUME NEW a, InSuit(a), a # <<>>, NEW s, Planned(s),
           IF s = <<>> THEN a[Len(a)] \in LastSteps ELSE MayFollow(a[Len(a)], Head(s))
    PROVE  Planned(a \o s) /\ a \o s # <<>> /\ Head(a \o s) = a[1]
<1> DEFINE r == a \o s
           m == Len(a)
           n == Len(s)
<1>1. a \in Seq(PassStep) /\ s \in Seq(PassStep)
  BY DEF Planned, InSuit
<1>2. /\ m \in Nat /\ n \in Nat /\ m # 0 /\ r \in Seq(PassStep) /\ Len(r) = m + n
      /\ \A i \in 1 .. m + n : r[i] = IF i <= m THEN a[i] ELSE s[i - m]
  BY <1>1
<1>3. /\ \A i \in 1 .. m - 1 : MayFollow(a[i], a[i + 1])
      /\ \A i \in 1 .. n - 1 : MayFollow(s[i], s[i + 1])
      /\ n # 0 => s[n] \in LastSteps /\ MayFollow(a[m], s[1])
      /\ n = 0 => a[m] \in LastSteps
  BY <1>1 DEF Planned, InSuit
<1>4. r # <<>> /\ Head(r) = r[1]
  BY <1>2
<1> HIDE DEF r, m, n
<1>5. Head(r) = a[1]
  BY <1>2, <1>4
<1>6. ASSUME NEW i \in 1 .. m + n - 1 PROVE MayFollow(r[i], r[i + 1])
  <2>1. CASE i < m
    <3>1. i \in 1 .. m - 1 /\ r[i] = a[i] /\ r[i + 1] = a[i + 1]
      BY <1>2, <2>1
    <3> QED BY <1>3, <3>1
  <2>2. CASE i = m
    <3>1. n # 0 /\ r[i] = a[m] /\ r[i + 1] = s[1]
      BY <1>2, <2>2
    <3> QED BY <1>3, <3>1
  <2>3. CASE i > m
    <3>1. i - m \in 1 .. n - 1 /\ r[i] = s[i - m] /\ r[i + 1] = s[i - m + 1]
      BY <1>2, <2>3
    <3> QED BY <1>3, <3>1
  <2> QED BY <1>2, <2>1, <2>2, <2>3
<1>7. r[m + n] \in LastSteps
  <2>1. CASE n = 0
    BY <1>2, <1>3, <2>1
  <2>2. CASE n # 0
    <3>1. r[m + n] = s[n]
      BY <1>2, <2>2
    <3> QED BY <1>3, <2>2, <3>1
  <2> QED BY <2>1, <2>2
<1>8. Planned(r)
  BY <1>2, <1>6, <1>7 DEF Planned, InSuit
<1> QED BY <1>4, <1>5, <1>8 DEF r

\* Short sequences.
LEMMA OfOne ==
    ASSUME NEW S, NEW t \in S, NEW a, a = <<t>>
    PROVE  a \in Seq(S) /\ Len(a) = 1 /\ a # <<>>
OBVIOUS

\* The same for more of them.
LEMMA OfTwo ==
    ASSUME NEW S, NEW t \in S, NEW u \in S, NEW a, a = <<t, u>>
    PROVE  a \in Seq(S) /\ Len(a) = 2 /\ a # <<>>
OBVIOUS

\* The same for more of them.
LEMMA OfThree ==
    ASSUME NEW S, NEW t \in S, NEW u \in S, NEW v \in S, NEW a, a = <<t, u, v>>
    PROVE  a \in Seq(S) /\ Len(a) = 3 /\ a # <<>>
OBVIOUS

\* The same for more of them.
LEMMA OfFour ==
    ASSUME NEW S, NEW t \in S, NEW u \in S, NEW v \in S, NEW w \in S, NEW a, a = <<t, u, v, w>>
    PROVE  a \in Seq(S) /\ Len(a) = 4 /\ a # <<>>
OBVIOUS

\* The same for more of them.
LEMMA OfFive ==
    ASSUME NEW S, NEW t \in S, NEW u \in S, NEW v \in S, NEW w \in S, NEW x \in S, NEW a, a = <<t, u, v, w, x>>
    PROVE  a \in Seq(S) /\ Len(a) = 5 /\ a # <<>>
OBVIOUS

\* The same for more of them.
LEMMA OfSeven ==
    ASSUME NEW S, NEW t \in S, NEW u \in S, NEW v \in S, NEW w \in S, NEW x \in S, NEW y \in S, NEW z \in S, NEW a, a = <<t, u, v, w, x, y, z>>
    PROVE  a \in Seq(S) /\ Len(a) = 7 /\ a # <<>>
OBVIOUS

\* The steps the passes put in front of others.
LEMMA SuitsOne ==
    ASSUME NEW x \in PassStep, NEW a, a = <<x>>
    PROVE  InSuit(a) /\ a # <<>> /\ a[Len(a)] = x /\ a[1] = x
<1>1. a \in Seq(PassStep) /\ Len(a) = 1 /\ a # <<>>
  BY OfOne, Zenon
<1>2. a[1] = x
  OBVIOUS
<1>3. \A i \in 1 .. Len(a) - 1 : FALSE
  BY ONLY <1>1
<1> QED BY ONLY <1>1, <1>2, <1>3 DEF InSuit

\* Splitting is followed by ordering.
LEMMA SuitsSplit ==
    ASSUME NEW a, a = <<"split", "order">>
    PROVE  InSuit(a) /\ a # <<>> /\ a[Len(a)] = "order" /\ a[1] = "split"
<1>0. "split" \in PassStep /\ "order" \in PassStep
  BY DEF PassStep
<1>1. a \in Seq(PassStep) /\ Len(a) = 2 /\ a # <<>>
  BY <1>0, OfTwo, Zenon
<1>2. a[1] = "split" /\ a[2] = "order"
  OBVIOUS
<1>3. \A i \in 1 .. Len(a) - 1 : i = 1
  BY ONLY <1>1
<1>4. MayFollow(a[1], a[1 + 1])
  BY <1>2 DEF MayFollow
<1>5. \A i \in 1 .. Len(a) - 1 : MayFollow(a[i], a[i + 1])
  BY ONLY <1>3, <1>4
<1> QED BY ONLY <1>1, <1>2, <1>5 DEF InSuit

\* The walk through the tasks, and what it is followed by.
LEMMA SuitsOneWait ==
    ASSUME NEW a, a = <<"singleWait", "finishOneWait">>
    PROVE  InSuit(a) /\ a # <<>> /\ a[Len(a)] = "finishOneWait" /\ a[1] = "singleWait"
<1>0. "singleWait" \in PassStep /\ "finishOneWait" \in PassStep
  BY DEF PassStep
<1>1. a \in Seq(PassStep) /\ Len(a) = 2 /\ a # <<>>
  BY <1>0, OfTwo, Zenon
<1>2. a[1] = "singleWait" /\ a[2] = "finishOneWait"
  OBVIOUS
<1>3. \A i \in 1 .. Len(a) - 1 : i = 1
  BY ONLY <1>1
<1>4. MayFollow(a[1], a[1 + 1])
  BY <1>2 DEF MayFollow
<1>5. \A i \in 1 .. Len(a) - 1 : MayFollow(a[i], a[i + 1])
  BY ONLY <1>3, <1>4
<1> QED BY ONLY <1>1, <1>2, <1>5 DEF InSuit

\* What follows a modification.
LEMMA SuitsOrder ==
    ASSUME NEW a, a = <<"order", "erase", "verifySlots">>
    PROVE  InSuit(a) /\ a # <<>> /\ a[Len(a)] = "verifySlots" /\ a[1] = "order"
<1>0. "order" \in PassStep /\ "erase" \in PassStep /\ "verifySlots" \in PassStep
  BY DEF PassStep
<1>1. a \in Seq(PassStep) /\ Len(a) = 3 /\ a # <<>>
  BY <1>0, OfThree, Zenon
<1>2. a[1] = "order" /\ a[2] = "erase" /\ a[3] = "verifySlots"
  OBVIOUS
<1>3. \A i \in 1 .. Len(a) - 1 : i = 1 \/ i = 2
  BY ONLY <1>1
<1>4. MayFollow(a[1], a[1 + 1]) /\ MayFollow(a[2], a[2 + 1])
  BY <1>2 DEF MayFollow
<1>5. \A i \in 1 .. Len(a) - 1 : MayFollow(a[i], a[i + 1])
  BY ONLY <1>3, <1>4
<1> QED BY ONLY <1>1, <1>2, <1>5 DEF InSuit

\* The end of legalization.
LEMMA SuitsFinish ==
    ASSUME NEW a, a = <<"erase", "verifySlots", "verifyOneWait", "assign">>
    PROVE  InSuit(a) /\ a # <<>> /\ a[Len(a)] = "assign" /\ a[1] = "erase"
<1>0. "erase" \in PassStep /\ "verifySlots" \in PassStep /\ "verifyOneWait" \in PassStep /\ "assign" \in PassStep
  BY DEF PassStep
<1>1. a \in Seq(PassStep) /\ Len(a) = 4 /\ a # <<>>
  BY <1>0, OfFour, Zenon
<1>2. a[1] = "erase" /\ a[2] = "verifySlots" /\ a[3] = "verifyOneWait" /\ a[4] = "assign"
  OBVIOUS
<1>3. \A i \in 1 .. Len(a) - 1 : i = 1 \/ i = 2 \/ i = 3
  BY ONLY <1>1
<1>4. MayFollow(a[1], a[1 + 1]) /\ MayFollow(a[2], a[2 + 1]) /\ MayFollow(a[3], a[3 + 1])
  BY <1>2 DEF MayFollow
<1>5. \A i \in 1 .. Len(a) - 1 : MayFollow(a[i], a[i + 1])
  BY ONLY <1>3, <1>4
<1> QED BY ONLY <1>1, <1>2, <1>5 DEF InSuit

\* An iteration of legalization.
LEMMA SuitsAnalysis ==
    ASSUME NEW a, a = updateAnalysis
    PROVE  InSuit(a) /\ a # <<>> /\ a[Len(a)] = "simulate" /\ a[1] = "optimize"
<1> a = <<"optimize", "share", "order", "checkSlots", "singleWait", "orderIfModified", "simulate">>
  BY DEF updateAnalysis
<1>0. "optimize" \in PassStep /\ "share" \in PassStep /\ "order" \in PassStep /\ "checkSlots" \in PassStep /\ "singleWait" \in PassStep /\ "orderIfModified" \in PassStep /\ "simulate" \in PassStep
  BY DEF PassStep
<1>1. a \in Seq(PassStep) /\ Len(a) = 7 /\ a # <<>>
  BY <1>0, OfSeven, Zenon
<1>2. a[1] = "optimize" /\ a[2] = "share" /\ a[3] = "order" /\ a[4] = "checkSlots" /\ a[5] = "singleWait" /\ a[6] = "orderIfModified" /\ a[7] = "simulate"
  OBVIOUS
<1>3. \A i \in 1 .. Len(a) - 1 : i = 1 \/ i = 2 \/ i = 3 \/ i = 4 \/ i = 5 \/ i = 6
  BY ONLY <1>1
<1>4. MayFollow(a[1], a[1 + 1]) /\ MayFollow(a[2], a[2 + 1]) /\ MayFollow(a[3], a[3 + 1]) /\ MayFollow(a[4], a[4 + 1]) /\ MayFollow(a[5], a[5 + 1]) /\ MayFollow(a[6], a[6 + 1])
  BY <1>2 DEF MayFollow
<1>5. \A i \in 1 .. Len(a) - 1 : MayFollow(a[i], a[i + 1])
  BY ONLY <1>3, <1>4
<1> QED BY ONLY <1>1, <1>2, <1>5 DEF InSuit

\* What the pipeline starts with.
LEMMA SuitsPipeline ==
    ASSUME NEW a, a = <<"split", "order", "erase", "satisfyOneWait", "reduceExceeding">>
    PROVE  InSuit(a) /\ a # <<>> /\ a[Len(a)] = "reduceExceeding" /\ a[1] = "split"
<1>0. "split" \in PassStep /\ "order" \in PassStep /\ "erase" \in PassStep /\ "satisfyOneWait" \in PassStep /\ "reduceExceeding" \in PassStep
  BY DEF PassStep
<1>1. a \in Seq(PassStep) /\ Len(a) = 5 /\ a # <<>>
  BY <1>0, OfFive, Zenon
<1>2. a[1] = "split" /\ a[2] = "order" /\ a[3] = "erase" /\ a[4] = "satisfyOneWait" /\ a[5] = "reduceExceeding"
  OBVIOUS
<1>3. \A i \in 1 .. Len(a) - 1 : i = 1 \/ i = 2 \/ i = 3 \/ i = 4
  BY ONLY <1>1
<1>4. MayFollow(a[1], a[1 + 1]) /\ MayFollow(a[2], a[2 + 1]) /\ MayFollow(a[3], a[3 + 1]) /\ MayFollow(a[4], a[4 + 1])
  BY <1>2 DEF MayFollow
<1>5. \A i \in 1 .. Len(a) - 1 : MayFollow(a[i], a[i + 1])
  BY ONLY <1>3, <1>4
<1> QED BY ONLY <1>1, <1>2, <1>5 DEF InSuit

-----------------------------------------------------------------------------
(* The inductive invariant.                                                *)

\* The function is in order, its tasks fit, and nothing it had to do is lost.
ProgramKept == Ordered(program) /\ Fits(program) /\ Requires(program, required, origin)

\* No barrier is half used until the final one is added.
BarriersKept ==
    IF todo # <<>> THEN Paired(program)
    ELSE IF mode = "legalize" THEN Paired(program) /\ program.bars < FinalBarrier
    ELSE PairedButFinal(program)

\* What can still be thrown.
MayThrow == {"identical tasks", "slots", "parallel waits", "identical batches"}

Thrown == Now("throw") /\ todo[2] \in MayThrow

PlanKept == Planned(todo) \/ Thrown

\* Where barriers are erased, or simulated before they are, unused ones are
\* behind the others.
PackedBefore(p, changed, steps) ==
    steps # <<>> =>
        /\ Head(steps) \in {"erase", "satisfyOneWait", "checkSlots", "simulate", "decide"} => Packed(p)
        /\ Head(steps) \in {"singleWait", "orderIfModified"} => changed \/ Packed(p)

PackedKept == PackedBefore(program, modified, todo)

\* Batches are lists, and a simulation that succeeded before the assignment has
\* none.
BatchesKept ==
    /\ \E S : batches \in Seq(S)
    /\ \E S : toLegalize \in Seq(S)
    /\ todo # <<>> /\ pc = "success" => batches = <<>>

LegalizationInv == ProgramKept /\ BarriersKept /\ PlanKept /\ PackedKept /\ BatchesKept

-----------------------------------------------------------------------------
\* What holds when a step starts.
LEMMA StepStarts ==
    ASSUME LegalizationInv, BarriersLeft, NEW step, Now(step), step # "throw"
    PROVE  /\ Planned(todo) /\ Planned(Tail(todo)) /\ todo # <<>> /\ Head(todo) = step
           /\ Tail(todo) = <<>> => step \in LastSteps
           /\ Tail(todo) # <<>> => MayFollow(step, Head(Tail(todo)))
           /\ Ordered(program) /\ Paired(program) /\ Fits(program) /\ program.bars < FinalBarrier
           /\ Requires(program, required, origin)
<1>1. todo # <<>> /\ Head(todo) = step /\ Planned(todo)
  BY DEF LegalizationInv, PlanKept, Now, Thrown
<1> QED BY <1>1, PlanGoesOn DEF LegalizationInv, ProgramKept, BarriersKept, BarriersLeft

\* The step is done.
LEMMA TodoShrinks ==
    ASSUME LegalizationInv, BarriersLeft, NEW step, Now(step), step # "throw", Then(<<>>)
    PROVE  /\ Planned(todo') /\ todo' = Tail(todo)
           /\ step \notin LastSteps => todo' # <<>> /\ MayFollow(step, Head(todo'))
           /\ (\A b : ~MayFollow(step, b)) => todo' = <<>>
<1>1. Tail(todo) \in Seq(PassStep)
  BY StepStarts DEF Planned, InSuit
<1>2. todo' = Tail(todo)
  <2>1. todo' = <<>> \o Tail(todo)
    BY DEF Then
  <2> QED BY <1>1, <2>1
<1> QED BY <1>2, StepStarts

\* The step is replaced by others.
LEMMA TodoGrows ==
    ASSUME LegalizationInv, BarriersLeft, NEW step, Now(step), step # "throw", NEW a, InSuit(a), a # <<>>,
           \A b : MayFollow(step, b) => MayFollow(a[Len(a)], b),
           step \in LastSteps => a[Len(a)] \in LastSteps, Then(a)
    PROVE  Planned(todo') /\ todo' # <<>> /\ Head(todo') = a[1]
<1> DEFINE s == Tail(todo)
<1>1. /\ Planned(s) /\ (s = <<>> => step \in LastSteps) /\ (s # <<>> => MayFollow(step, Head(s)))
  BY StepStarts
<1>2. todo' = a \o s
  BY DEF Then
<1> HIDE DEF s
<1>3. IF s = <<>> THEN a[Len(a)] \in LastSteps ELSE MayFollow(a[Len(a)], Head(s))
  BY <1>1
<1> QED BY <1>1, <1>2, <1>3, PlanGrows

\* The compilation throws.
LEMMA TodoThrows ==
    ASSUME NEW what \in MayThrow, Throw(what)
    PROVE  todo' # <<>> /\ Head(todo') = "throw" /\ Thrown'
BY DEF Throw, Thrown, Now

\* A step that leaves the function alone keeps it.
LEMMA RetainsItself ==
    ASSUME NEW p, Ordered(p), Paired(p), Fits(p)
    PROVE  Retains(p, p)
BY DEF Retains

\* What a step between the passes has to establish.
LEMMA StepRetains ==
    ASSUME LegalizationInv, BarriersLeft, NEW step, Now(step), step # "throw",
           Retains(program, program'), todo' # <<>>, Planned(todo') \/ Thrown',
           PackedBefore(program', modified', todo'), BatchesKept',
           required' = required, origin' = origin
    PROVE  LegalizationInv'
<1>1. Requires(program', required', origin')
  BY StepStarts, RetainsRequires
<1>2. Ordered(program') /\ Paired(program') /\ Fits(program')
  BY DEF Retains
<1> QED BY <1>1, <1>2 DEF LegalizationInv, ProgramKept, BarriersKept, PlanKept, PackedKept

-----------------------------------------------------------------------------
(* The steps.                                                              *)

\* SplitExceedingVariantCountBarriers.
LEMMA SplitStep ==
    ASSUME LegalizationInv, BarriersLeft, Split
    PROVE  LegalizationInv'
<1>1. Now("split") /\ Then(<<>>) /\ program' = splitBarriersWithExceedingVariantCount(program)
      /\ UNCHANGED <<pc, batches, toLegalize, required, origin>>
  BY DEF Split, simulation
<1>2. Retains(program, program')
  BY <1>1, StepStarts, SplitGrows, GrowsRetains
<1>3. Planned(todo') /\ todo' # <<>> /\ Head(todo') = "order"
  BY <1>1, TodoShrinks DEF MayFollow, LastSteps
<1>4. PackedBefore(program', modified', todo')
  BY <1>3 DEF PackedBefore
<1>5. BatchesKept'
  BY <1>1 DEF BatchesKept, LegalizationInv, Now
<1> QED BY <1>1, <1>2, <1>3, <1>4, <1>5, StepRetains

\* optimizeBarriers leaves the function as it has to be.
LEMMA OptimizeStep ==
    ASSUME LegalizationInv, BarriersLeft, Optimize
    PROVE  LegalizationInv'
<1>1. FifoDependenciesRemovable(program) /\ Retains(program, optimizeBarriers(program))
  BY StepStarts, OptimizedRetains DEF Optimize
<1>2. Now("optimize") /\ Then(<<>>) /\ program' = optimizeBarriers(program)
      /\ UNCHANGED <<pc, batches, toLegalize, required, origin>>
  BY <1>1 DEF Optimize, simulation
<1>3. Planned(todo') /\ todo' # <<>> /\ Head(todo') = "share"
  BY <1>2, TodoShrinks DEF MayFollow, LastSteps
<1>4. PackedBefore(program', modified', todo')
  BY <1>3 DEF PackedBefore
<1>5. BatchesKept'
  BY <1>2 DEF BatchesKept, LegalizationInv, Now
<1> QED BY <1>1, <1>2, <1>3, <1>4, <1>5, StepRetains

\* shareWaitAndUpdateBarriers does.
LEMMA ShareStep ==
    ASSUME LegalizationInv, BarriersLeft, Share
    PROVE  LegalizationInv'
<1>1. Now("share") /\ Then(<<>>) /\ program' = shareWaitAndUpdateBarriers(program)
      /\ UNCHANGED <<pc, batches, toLegalize, required, origin>>
  BY DEF Share, simulation
<1>2. Retains(program, program')
  BY <1>1, StepStarts, ShareGrows, GrowsRetains
<1>3. Planned(todo') /\ todo' # <<>> /\ Head(todo') = "order"
  BY <1>1, TodoShrinks DEF MayFollow, LastSteps
<1>4. PackedBefore(program', modified', todo')
  BY <1>3 DEF PackedBefore
<1>5. BatchesKept'
  BY <1>1 DEF BatchesKept, LegalizationInv, Now
<1> QED BY <1>1, <1>2, <1>3, <1>4, <1>5, StepRetains

\* Erasing the barriers nothing uses keeps the numbers of the others, for those are
\* in front.
LEMMA EraseStep ==
    ASSUME LegalizationInv, BarriersLeft, Erase
    PROVE  LegalizationInv'
<1>1. Now("erase") /\ Then(<<>>) /\ program' = postProcessBarrierOps(program)
      /\ UNCHANGED <<pc, batches, toLegalize, required, origin>>
  BY DEF Erase, simulation
<1>2. Packed(program)
  BY <1>1 DEF LegalizationInv, PackedKept, PackedBefore, Now
<1>3. Retains(program, program') /\ Packed(program')
  BY <1>1, <1>2, StepStarts, ErasedRetains
<1>4. Planned(todo') /\ todo' # <<>>
  BY <1>1, TodoShrinks DEF LastSteps
<1>5. PackedBefore(program', modified', todo')
  BY <1>3 DEF PackedBefore
<1>6. BatchesKept'
  BY <1>1 DEF BatchesKept, LegalizationInv, Now
<1> QED BY <1>1, <1>3, <1>4, <1>5, <1>6, StepRetains

\* The order of tasks and barriers, and what is to be legalized by their new
\* numbers.
LEMMA OrderStep ==
    ASSUME LegalizationInv, BarriersLeft, OrderExecution
    PROVE  LegalizationInv'
<1> DEFINE tasks == TaskOrder(program)
           bars == BarrierOrder(program, tasks)
<1>1. Now("order") /\ UNCHANGED <<pc, batches, required>>
  BY DEF OrderExecution, simulation
<1>2. /\ Ordered(program) /\ Paired(program) /\ Fits(program)
      /\ Requires(program, required, origin)
  BY <1>1, StepStarts
<1>3. ~(Len(tasks) < NumTasks)
  BY <1>2, TaskOrderExecutes
<1>4. /\ program' = Reindexed(program, tasks, bars)
      /\ origin' = [t \in Task |-> origin[tasks[t]]]
      /\ toLegalize' = [i \in DOMAIN toLegalize |-> {j \in DOMAIN bars : bars[j] \in toLegalize[i]}]
      /\ Then(<<>>)
  BY <1>3 DEF OrderExecution
<1>5. /\ Ordered(program') /\ Paired(program') /\ Fits(program') /\ Packed(program')
      /\ Requires(program', required, origin')
  <2> HIDE DEF tasks
  <2>1. tasks = TaskOrder(program)
    BY DEF tasks
  <2> QED BY <1>2, <1>4, <2>1, OrderingRetains
<1>6. Planned(todo') /\ todo' # <<>>
  BY <1>1, <1>4, TodoShrinks DEF LastSteps
<1>7. BatchesKept'
  <2>1. PICK S : toLegalize \in Seq(S)
    BY DEF LegalizationInv, BatchesKept
  <2>2. DOMAIN toLegalize = 1 .. Len(toLegalize) /\ Len(toLegalize) \in Nat
    BY <2>1
  <2> HIDE DEF bars
  <2> DEFINE U == {{j \in DOMAIN bars : bars[j] \in toLegalize[i]} : i \in DOMAIN toLegalize}
  <2>3. toLegalize' \in Seq(U)
    BY <1>4, <2>2
  <2> HIDE DEF U
  <2> QED BY <1>1, <2>3 DEF LegalizationInv, BatchesKept, Now
<1> QED BY <1>1, <1>5, <1>6, <1>7
        DEF LegalizationInv, ProgramKept, BarriersKept, PlanKept, PackedKept, PackedBefore

\* eliminateParallelWaitBarriers, one barrier per task.
LEMMA SingleBarrierStep ==
    ASSUME LegalizationInv, BarriersLeft, EnsureSingleBarrier
    PROVE  LegalizationInv'
<1>1. Now("singleWait") /\ UNCHANGED <<pc, batches, toLegalize, required, origin>>
  BY DEF EnsureSingleBarrier, simulation
<1>2. BatchesKept'
  BY <1>1 DEF BatchesKept, LegalizationInv, Now
<1>3. modified \/ Packed(program)
  BY <1>1 DEF LegalizationInv, PackedKept, PackedBefore, Now
<1>4. CASE ParallelWaits(program) = {}
  <2>1. Then(<<>>) /\ UNCHANGED <<program, modified>>
    BY <1>4 DEF EnsureSingleBarrier
  <2>2. Planned(todo') /\ todo' # <<>> /\ Head(todo') \in {"finishOneWait", "orderIfModified"}
    BY <1>1, <2>1, TodoShrinks DEF MayFollow, LastSteps
  <2>3. PackedBefore(program', modified', todo')
    BY <1>3, <2>1, <2>2 DEF PackedBefore
  <2>4. Retains(program, program')
    BY <1>1, <2>1, StepStarts, RetainsItself
  <2> QED BY <1>1, <1>2, <2>2, <2>3, <2>4, StepRetains
<1>5. CASE ParallelWaits(program) # {}
  <2>1. /\ program' \in ParallelWaitsEliminated(program, wlmPidProgramming, unevenVariantSplit)
        /\ modified' = TRUE
        /\ IF ParallelWaits(program') = ParallelWaits(program) THEN Throw("identical tasks")
           ELSE Then(IF wlmPidProgramming THEN <<"singleWait">> ELSE <<>>)
    BY <1>5 DEF EnsureSingleBarrier
  <2>2. Retains(program, program')
    <3>1. Ordered(program) /\ Paired(program) /\ Fits(program)
      BY <1>1, StepStarts
    <3>2. Grows(program, program')
      BY <2>1, <3>1, EliminationGrows
    <3> QED BY <3>1, <3>2, GrowsRetains
  <2>3. CASE Throw("identical tasks")
    <3>1. todo' # <<>> /\ Thrown' /\ PackedBefore(program', modified', todo')
      BY <2>3, TodoThrows DEF PackedBefore, MayThrow
    <3> QED BY <1>1, <1>2, <2>2, <3>1, StepRetains
  <2>4. CASE Then(<<>>)
    <3>1. Planned(todo') /\ todo' # <<>> /\ Head(todo') \in {"finishOneWait", "orderIfModified"}
      BY <1>1, <2>4, TodoShrinks DEF MayFollow, LastSteps
    <3>2. PackedBefore(program', modified', todo')
      BY <2>1, <3>1 DEF PackedBefore
    <3> QED BY <1>1, <1>2, <2>2, <3>1, <3>2, StepRetains
  <2>5. CASE Then(<<"singleWait">>)
    <3> DEFINE a == <<"singleWait">>
    <3>1. InSuit(a) /\ a # <<>> /\ a[Len(a)] = "singleWait" /\ a[1] = "singleWait"
      BY SuitsOne DEF PassStep
    <3>2. Then(a)
      BY <2>5
    <3> HIDE DEF a
    <3>3. Planned(todo') /\ todo' # <<>> /\ Head(todo') = "singleWait"
      BY <1>1, <3>1, <3>2, TodoGrows DEF LastSteps
    <3>4. PackedBefore(program', modified', todo')
      BY <2>1, <3>3 DEF PackedBefore
    <3> QED BY <1>1, <1>2, <2>2, <3>3, <3>4, StepRetains
  <2> QED BY <2>1, <2>3, <2>4, <2>5
<1> QED BY <1>4, <1>5

\* A step that only decides what to do next.
LEMMA StepKeeps ==
    ASSUME LegalizationInv, BarriersLeft, NEW step, Now(step), step # "throw",
           todo' # <<>>, Planned(todo') \/ Thrown',
           PackedBefore(program, modified', todo'), BatchesKept',
           program' = program, required' = required, origin' = origin
    PROVE  LegalizationInv'
<1>1. Retains(program, program')
  BY StepStarts, RetainsItself
<1>2. PackedBefore(program', modified', todo')
  OBVIOUS
<1> QED BY <1>1, <1>2, StepRetains

\* A check that throws what it may throw.
LEMMA StepKeepsOrThrows ==
    ASSUME LegalizationInv, BarriersLeft, NEW step, Now(step), step # "throw",
           NEW what \in MayThrow, Throw(what), BatchesKept',
           program' = program, required' = required, origin' = origin
    PROVE  LegalizationInv'
<1>1. todo' # <<>> /\ Thrown' /\ PackedBefore(program, modified', todo')
  BY TodoThrows DEF PackedBefore
<1> QED BY <1>1, StepKeeps

\* The checks of what the passes before have done.
LEMMA CheckStep ==
    ASSUME LegalizationInv, BarriersLeft, Check
    PROVE  LegalizationInv'
<1>1. todo # <<>> /\ UNCHANGED <<pc, program, batches, modified, toLegalize, required, origin>>
  BY DEF Check, Now, vars
<1>2. BatchesKept'
  BY <1>1 DEF BatchesKept, LegalizationInv, Now
<1>3. CASE Now("orderIfModified") /\ Then(IF modified THEN <<"order">> ELSE <<>>)
  <2>1. CASE modified /\ Then(<<"order">>)
    <3> DEFINE a == <<"order">>
    <3>1. InSuit(a) /\ a # <<>> /\ a[Len(a)] = "order" /\ a[1] = "order"
      BY SuitsOne DEF PassStep
    <3>2. Then(a) /\ Now("orderIfModified")
      BY <1>3, <2>1
    <3> HIDE DEF a
    <3>3. Planned(todo') /\ todo' # <<>> /\ Head(todo') = "order"
      BY <3>1, <3>2, TodoGrows DEF LastSteps, MayFollow
    <3>4. PackedBefore(program, modified', todo')
      BY <3>3 DEF PackedBefore
    <3> QED BY <1>1, <1>2, <3>2, <3>3, <3>4, StepKeeps
  <2>2. CASE ~modified /\ Then(<<>>)
    <3>1. Packed(program)
      BY <1>3, <2>2 DEF LegalizationInv, PackedKept, PackedBefore, Now
    <3>2. Planned(todo') /\ todo' # <<>>
      BY <1>3, <2>2, TodoShrinks DEF LastSteps
    <3>3. PackedBefore(program, modified', todo')
      BY <3>1 DEF PackedBefore
    <3> QED BY <1>1, <1>2, <1>3, <3>2, <3>3, StepKeeps
  <2> QED BY <1>3, <2>1, <2>2
<1>4. CASE Now("finishOneWait") /\ Then(IF modified THEN <<"order", "erase", "verifySlots">> ELSE <<>>)
  <2>1. CASE Then(<<"order", "erase", "verifySlots">>)
    <3> DEFINE a == <<"order", "erase", "verifySlots">>
    <3>1. InSuit(a) /\ a # <<>> /\ a[Len(a)] = "verifySlots" /\ a[1] = "order"
      BY SuitsOrder
    <3>2. Then(a) /\ Now("finishOneWait")
      BY <1>4, <2>1
    <3> HIDE DEF a
    <3>3. Planned(todo') /\ todo' # <<>> /\ Head(todo') = "order"
      BY <3>1, <3>2, TodoGrows DEF LastSteps, MayFollow
    <3>4. PackedBefore(program, modified', todo')
      BY <3>3 DEF PackedBefore
    <3> QED BY <1>1, <1>2, <3>2, <3>3, <3>4, StepKeeps
  <2>2. CASE Then(<<>>)
    <3>1. Planned(todo') /\ todo' # <<>> /\ Head(todo') = "reduceExceeding"
      BY <1>4, <2>2, TodoShrinks DEF LastSteps, MayFollow
    <3>2. PackedBefore(program, modified', todo')
      BY <3>1 DEF PackedBefore
    <3> QED BY <1>1, <1>2, <1>4, <3>1, <3>2, StepKeeps
  <2> QED BY <1>4, <2>1, <2>2
<1>5. CASE Now("verifySlots") /\ (IF SlotsFit(program) THEN Then(<<>>) ELSE Throw("slots"))
  <2>1. CASE Then(<<>>)
    <3>1. Planned(todo') /\ todo' # <<>> /\ Head(todo') \in {"reduceExceeding", "verifyOneWait"}
      BY <1>5, <2>1, TodoShrinks DEF LastSteps, MayFollow
    <3>2. PackedBefore(program, modified', todo')
      BY <3>1 DEF PackedBefore
    <3> QED BY <1>1, <1>2, <1>5, <3>1, <3>2, StepKeeps
  <2>2. CASE Throw("slots")
    BY <1>1, <1>2, <1>5, <2>2, StepKeepsOrThrows DEF MayThrow
  <2> QED BY <1>5, <2>1, <2>2
<1>6. CASE /\ Now("verifyOneWait")
           /\ IF wlmPidProgramming => ParallelWaits(program) = {} THEN Then(<<>>)
              ELSE Throw("parallel waits")
  <2>1. CASE Then(<<>>)
    <3>0. Now("verifyOneWait")
      BY <1>6
    <3>1. Planned(todo') /\ todo' # <<>> /\ Head(todo') = "assign"
      BY <2>1, <3>0, TodoShrinks DEF LastSteps, MayFollow
    <3>2. PackedBefore(program, modified', todo')
      BY <3>1 DEF PackedBefore
    <3> QED BY <1>1, <1>2, <1>6, <3>1, <3>2, StepKeeps
  <2>2. CASE Throw("parallel waits")
    BY <1>1, <1>2, <1>6, <2>2, StepKeepsOrThrows DEF MayThrow
  <2> QED BY <1>6, <2>1, <2>2
<1> QED BY <1>3, <1>4, <1>5, <1>6 DEF Check

\* SatisfyOneWaitBarrierPerTask.
LEMMA OneWaitStep ==
    ASSUME LegalizationInv, BarriersLeft, SatisfyOneWaitBarrierPerTask
    PROVE  LegalizationInv'
<1> DEFINE a == <<"singleWait", "finishOneWait">>
<1>1. Now("satisfyOneWait") /\ Then(a) /\ UNCHANGED <<pc, program, batches, toLegalize, required, origin>>
  BY DEF SatisfyOneWaitBarrierPerTask, simulation
<1>2. InSuit(a) /\ a # <<>> /\ a[Len(a)] = "finishOneWait" /\ a[1] = "singleWait"
  BY SuitsOneWait
<1> HIDE DEF a
<1>3. Planned(todo') /\ todo' # <<>>
  BY <1>1, <1>2, TodoGrows DEF LastSteps, MayFollow
<1>4. Packed(program)
  BY <1>1 DEF LegalizationInv, PackedKept, PackedBefore, Now
<1>5. PackedBefore(program, modified', todo')
  BY <1>4 DEF PackedBefore
<1>6. BatchesKept'
  BY <1>1 DEF BatchesKept, LegalizationInv, Now
<1> QED BY <1>1, <1>3, <1>5, <1>6, StepKeeps

\* Simulations start without batches.
LEMMA SimulateBatches ==
    ASSUME BatchesKept, NEW m, Simulate(m), toLegalize' = toLegalize
    PROVE  BatchesKept' /\ program' = program
<1>1. batches' = <<>> /\ program' = program
  BY DEF Simulate, StartSimulation
<1>2. batches' \in Seq({})
  BY <1>1
<1> QED BY <1>1, <1>2 DEF BatchesKept

\* A last step is replaced by another one.
LEMMA LastReplaced ==
    ASSUME LegalizationInv, BarriersLeft, NEW step \in LastSteps, Now(step),
           NEW next \in {"trial", "assign", "linearize"}, Then(<<next>>)
    PROVE  Planned(todo') /\ todo' # <<>> /\ PackedBefore(program, modified', todo')
<1> DEFINE a == <<next>>
<1>1. InSuit(a) /\ a # <<>> /\ a[Len(a)] = next /\ a[1] = next
  BY SuitsOne DEF PassStep
<1>2. Then(a) /\ Now(step) /\ step # "throw"
  BY DEF LastSteps
<1> HIDE DEF a
<1>3. Planned(todo') /\ todo' # <<>> /\ Head(todo') = next
  BY <1>1, <1>2, TodoGrows DEF LastSteps, MayFollow
<1>4. PackedBefore(program, modified', todo')
  BY <1>3 DEF PackedBefore
<1> QED BY <1>3, <1>4

\* Another iteration starts.
LEMMA AnalysisFollows ==
    ASSUME LegalizationInv, BarriersLeft, NEW step \in LastSteps, Now(step), Then(updateAnalysis), NEW p
    PROVE  Planned(todo') /\ todo' # <<>> /\ PackedBefore(p, modified', todo')
<1> DEFINE a == updateAnalysis
<1>1. InSuit(a) /\ a # <<>> /\ a[Len(a)] = "simulate" /\ a[1] = "optimize"
  BY SuitsAnalysis
<1>2. Then(a) /\ Now(step) /\ step # "throw"
  BY DEF LastSteps
<1> HIDE DEF a
<1>3. Planned(todo') /\ todo' # <<>> /\ Head(todo') = "optimize"
  BY <1>1, <1>2, TodoGrows DEF LastSteps, MayFollow
<1>4. PackedBefore(p, modified', todo')
  BY <1>3 DEF PackedBefore
<1> QED BY <1>3, <1>4

\* ReduceExceedingActiveCountBarriers: what it has to try.
LEMMA ReduceStep ==
    ASSUME LegalizationInv, BarriersLeft, ReduceExceedingActiveCount
    PROVE  LegalizationInv'
<1>1. Now("reduceExceeding") /\ UNCHANGED <<modified, toLegalize, required, origin>>
  BY DEF ReduceExceedingActiveCount
<1>2. CASE FewBarriers
  <2>1. Then(<<"assign">>) /\ UNCHANGED <<pc, program, batches>>
    BY <1>2 DEF ReduceExceedingActiveCount, simulation
  <2>2. Planned(todo') /\ todo' # <<>> /\ PackedBefore(program, modified', todo')
    BY <1>1, <2>1, LastReplaced DEF LastSteps
  <2>3. BatchesKept'
    BY <1>1, <2>1 DEF BatchesKept, LegalizationInv, Now
  <2> QED BY <1>1, <2>1, <2>2, <2>3, StepKeeps
<1>3. CASE ~FewBarriers
  <2>1. Then(<<"trial">>) /\ Simulate("trial")
    BY <1>3 DEF ReduceExceedingActiveCount
  <2>2. Planned(todo') /\ todo' # <<>> /\ PackedBefore(program, modified', todo')
    BY <1>1, <2>1, LastReplaced DEF LastSteps
  <2>3. BatchesKept' /\ program' = program
    BY <1>1, <2>1, SimulateBatches DEF LegalizationInv
  <2> QED BY <1>1, <2>2, <2>3, StepKeeps
<1> QED BY <1>2, <1>3

\* A way to reduce active barriers that was tried: it was enough, or the next one is.
LEMMA TriedStep ==
    ASSUME LegalizationInv, BarriersLeft, Tried
    PROVE  LegalizationInv'
<1>1. /\ Now("trial") /\ (Then(<<"assign">>) \/ Then(updateAnalysis))
      /\ UNCHANGED <<pc, program, batches, modified, toLegalize, required, origin>>
  BY DEF Tried, vars
<1>2. Planned(todo') /\ todo' # <<>> /\ PackedBefore(program, modified', todo')
  BY <1>1, LastReplaced, AnalysisFollows DEF LastSteps
<1>3. BatchesKept'
  BY <1>1 DEF BatchesKept, LegalizationInv, Now
<1> QED BY <1>1, <1>2, <1>3, StepKeeps

\* The check of the slots before the simulation.
LEMMA CheckSlotsStep ==
    ASSUME LegalizationInv, BarriersLeft, CheckSlots
    PROVE  LegalizationInv'
<1>1. /\ Now("checkSlots") /\ (Then(<<>>) \/ Then(<<"split", "order">>))
      /\ UNCHANGED <<pc, program, batches, toLegalize, required, origin>>
  BY DEF CheckSlots, vars
<1>2. BatchesKept'
  BY <1>1 DEF BatchesKept, LegalizationInv, Now
<1>3. Packed(program)
  BY <1>1 DEF LegalizationInv, PackedKept, PackedBefore, Now
<1>4. PackedBefore(program, modified', todo')
  BY <1>3 DEF PackedBefore
<1>5. CASE Then(<<>>)
  <2>1. Planned(todo') /\ todo' # <<>>
    BY <1>1, <1>5, TodoShrinks DEF LastSteps
  <2> QED BY <1>1, <1>2, <1>4, <2>1, StepKeeps
<1>6. CASE Then(<<"split", "order">>)
  <2> DEFINE a == <<"split", "order">>
  <2>1. InSuit(a) /\ a # <<>> /\ a[Len(a)] = "order" /\ a[1] = "split"
    BY SuitsSplit
  <2>2. Then(a)
    BY <1>6
  <2> HIDE DEF a
  <2>3. Planned(todo') /\ todo' # <<>>
    BY <1>1, <2>1, <2>2, TodoGrows DEF LastSteps, MayFollow
  <2> QED BY <1>1, <1>2, <1>4, <2>3, StepKeeps
<1> QED BY <1>1, <1>5, <1>6

\* The simulation of ReduceExceedingActiveCountBarriers starts.
LEMMA StartStep ==
    ASSUME LegalizationInv, BarriersLeft, StartLegalization
    PROVE  LegalizationInv'
<1> DEFINE a == <<"decide">>
<1>1. Now("simulate") /\ Simulate("legalize") /\ Then(a) /\ UNCHANGED <<modified, toLegalize, required, origin>>
  BY DEF StartLegalization
<1>2. InSuit(a) /\ a # <<>> /\ a[Len(a)] = "decide" /\ a[1] = "decide"
  BY SuitsOne DEF PassStep
<1> HIDE DEF a
<1>3. Planned(todo') /\ todo' # <<>>
  BY <1>1, <1>2, TodoGrows DEF LastSteps, MayFollow
<1>4. Packed(program)
  BY <1>1 DEF LegalizationInv, PackedKept, PackedBefore, Now
<1>5. PackedBefore(program, modified', todo')
  BY <1>4 DEF PackedBefore
<1>6. BatchesKept' /\ program' = program
  BY <1>1, SimulateBatches DEF LegalizationInv
<1> QED BY <1>1, <1>3, <1>5, <1>6, StepKeeps

\* The batches that are found can be counted.
LEMMA BatchesFoundAre ==
    ASSUME BatchesKept
    PROVE  \E S : BatchesFound \in Seq(S)
<1>1. PICK U : batches \in Seq(U)
  BY DEF BatchesKept
<1> DEFINE I == {i \in DOMAIN batches : batches[i] \cap Used(program) # {}}
           found == Increasing(I)
           c == Cardinality(I)
           S == {batches[found[j]] \cap Used(program) : j \in DOMAIN found}
<1>2. IsFiniteSet(I)
  <2>1. DOMAIN batches = 1 .. Len(batches) /\ Len(batches) \in Nat
    BY <1>1
  <2>2. IsFiniteSet(DOMAIN batches)
    BY <2>1, FS_Interval
  <2>3. I \subseteq DOMAIN batches
    OBVIOUS
  <2> HIDE DEF I
  <2> QED BY <2>2, <2>3, FS_Subset
<1>3. BatchesFound = [j \in DOMAIN found |-> batches[found[j]] \cap Used(program)]
  BY DEF BatchesFound
<1> HIDE DEF I
<1>4. c \in Nat /\ DOMAIN found = 1 .. c
  BY <1>2, FS_CardinalityType DEF Increasing
<1> HIDE DEF found, c
<1>5. BatchesFound \in Seq(S)
  BY <1>3, <1>4
<1> QED BY <1>5

\* A simulation that succeeds leaves no batches.
LEMMA NothingFound ==
    ASSUME batches = <<>>
    PROVE  BatchesFound = <<>>
<1> DEFINE I == {i \in DOMAIN batches : batches[i] \cap Used(program) # {}}
<1>1. I = {}
  OBVIOUS
<1>2. DOMAIN Increasing(I) = {}
  <2>1. Cardinality(I) = 0
    BY <1>1, FS_EmptySet
  <2> HIDE DEF I
  <2> QED BY <2>1 DEF Increasing
<1> HIDE DEF I
<1>3. BatchesFound = [j \in DOMAIN Increasing(I) |-> batches[Increasing(I)[j]] \cap Used(program)]
  BY DEF BatchesFound, I
<1> QED BY <1>2, <1>3

\* After a simulation: linearize what it found, or go on to the assignment.
LEMMA DecideStep ==
    ASSUME LegalizationInv, BarriersLeft, Decide
    PROVE  LegalizationInv'
<1>1. /\ Now("decide") /\ toLegalize' = BatchesFound
      /\ UNCHANGED <<pc, program, batches, modified, required, origin>>
      /\ \/ Throw("identical batches") \/ Then(<<"linearize">>)
         \/ Then(<<"erase", "verifySlots", "verifyOneWait", "assign">>)
  <2>1. pc = "success" => BatchesFound = <<>>
    BY NothingFound DEF Decide, LegalizationInv, BatchesKept, Now
  <2> QED BY <2>1 DEF Decide, vars
<1>2. BatchesKept'
  BY <1>1, BatchesFoundAre DEF BatchesKept, LegalizationInv, Now
<1>3. CASE Throw("identical batches")
  BY <1>1, <1>2, <1>3, StepKeepsOrThrows DEF MayThrow
<1>4. CASE Then(<<"linearize">>)
  <2>1. Planned(todo') /\ todo' # <<>> /\ PackedBefore(program, modified', todo')
    BY <1>1, <1>4, LastReplaced DEF LastSteps
  <2> QED BY <1>1, <1>2, <2>1, StepKeeps
<1>5. CASE Then(<<"erase", "verifySlots", "verifyOneWait", "assign">>)
  <2> DEFINE a == <<"erase", "verifySlots", "verifyOneWait", "assign">>
  <2>1. InSuit(a) /\ a # <<>> /\ a[Len(a)] = "assign" /\ a[1] = "erase"
    BY SuitsFinish
  <2>2. Then(a) /\ Now("decide")
    BY <1>1, <1>5
  <2> HIDE DEF a
  <2>3. Planned(todo') /\ todo' # <<>>
    BY <2>1, <2>2, TodoGrows DEF LastSteps, MayFollow
  <2>4. Packed(program)
    BY <1>1 DEF LegalizationInv, PackedKept, PackedBefore, Now
  <2>5. PackedBefore(program, modified', todo')
    BY <2>4 DEF PackedBefore
  <2> QED BY <1>1, <1>2, <2>3, <2>5, StepKeeps
<1> QED BY <1>1, <1>3, <1>4, <1>5

\* linearizeBarriers, and another simulation.
LEMMA LinearizeStep ==
    ASSUME LegalizationInv, BarriersLeft, Linearize
    PROVE  LegalizationInv'
<1>1. /\ Now("linearize") /\ program' = linearizeBarriers(program, toLegalize) /\ Then(updateAnalysis)
      /\ UNCHANGED <<pc, batches, modified, toLegalize, required, origin>>
  BY DEF Linearize, simulation
<1>2. Len(toLegalize) \in Nat
  BY DEF LegalizationInv, BatchesKept
<1>3. Retains(program, program')
  <2>1. Ordered(program) /\ Paired(program) /\ Fits(program)
    BY <1>1, StepStarts
  <2>2. Grows(program, program')
    BY <1>1, <1>2, <2>1, LinearizedGrows
  <2> QED BY <2>1, <2>2, GrowsRetains
<1>4. Planned(todo') /\ todo' # <<>> /\ PackedBefore(program', modified', todo')
  BY <1>1, AnalysisFollows DEF LastSteps
<1>5. BatchesKept'
  BY <1>1 DEF BatchesKept, LegalizationInv, Now
<1> QED BY <1>1, <1>3, <1>4, <1>5, StepRetains

\* Nothing is left to be done but to assign physical barriers.
LEMMA LegalizedStep ==
    ASSUME LegalizationInv, BarriersLeft, Legalized
    PROVE  LegalizationInv'
<1>1. /\ Now("assign") /\ Then(<<>>) /\ mode' = "legalize"
      /\ UNCHANGED <<program, batches, toLegalize, required, origin>>
  BY DEF Legalized
<1>2. Planned(todo') /\ todo' = <<>>
  <2>1. \A b : ~MayFollow("assign", b)
    BY DEF MayFollow
  <2> QED BY <1>1, <2>1, TodoShrinks
<1>3. ProgramKept' /\ BarriersKept'
  BY <1>1, <1>2, StepStarts DEF ProgramKept, BarriersKept
<1>4. BatchesKept'
  BY <1>1, <1>2 DEF BatchesKept, LegalizationInv
<1> QED BY <1>2, <1>3, <1>4 DEF LegalizationInv, PlanKept, PackedKept, PackedBefore

\* AssignPhysicalBarriers adds the final barrier, which nothing waits for.
LEMMA AssignStep ==
    ASSUME LegalizationInv, BarriersLeft, Assign
    PROVE  LegalizationInv'
<1>1. /\ todo = <<>> /\ todo' = todo /\ mode = "legalize" /\ mode' \in AssignMode
      /\ program' = WithFinalBarrier /\ batches' = <<>>
      /\ UNCHANGED <<modified, toLegalize, required, origin>>
  BY DEF Assign, AssignPhysicalBarriers, StartSimulation, passState
<1>2. mode' # "legalize"
  BY <1>1, ModeAssumption
<1>3. /\ Ordered(program) /\ Fits(program) /\ Requires(program, required, origin)
      /\ Paired(program) /\ program.bars < FinalBarrier
  BY <1>1 DEF LegalizationInv, ProgramKept, BarriersKept
<1>4. /\ Ordered(program') /\ PairedButFinal(program') /\ Fits(program') /\ program'.fifo = program.fifo
      /\ TaskControlMap(program') = TaskControlMap(program)
  BY <1>1, <1>3, FinalRetains DEF WithFinalBarrier, LastInFifo
<1>5. ProgramKept'
  BY <1>1, <1>3, <1>4 DEF ProgramKept, Requires
<1>6. BarriersKept'
  BY <1>1, <1>2, <1>4 DEF BarriersKept
<1>7. BatchesKept'
  <2>1. batches' \in Seq({})
    BY <1>1
  <2> QED BY <1>1, <2>1 DEF BatchesKept, LegalizationInv
<1>8. PlanKept' /\ PackedKept'
  BY <1>1 DEF LegalizationInv, PlanKept, PackedKept, PackedBefore, Thrown, Now
<1> QED BY <1>5, <1>6, <1>7, <1>8 DEF LegalizationInv

\* The batches of a simulation are a list.
LEMMA StoredBatches ==
    ASSUME NEW S, batches \in Seq(S)
    PROVE  \E U : WithActiveStored \in Seq(U)
<1> DEFINE k == Len(batches)
<1>1. CASE isNewBatchNeeded
  <2> DEFINE A == Active
             U == S \cup {A}
  <2>1. WithActiveStored = Append(batches, A)
    BY <1>1 DEF WithActiveStored
  <2> HIDE DEF A
  <2>2. Append(batches, A) \in Seq(U)
    <3>1. batches \in Seq(U) /\ A \in U
      BY SeqMonotonic
    <3> HIDE DEF U
    <3> QED BY <3>1
  <2> QED BY <2>1, <2>2
<1>2. CASE ~isNewBatchNeeded
  <2> DEFINE A == batches[k] \cup Active
             U == S \cup {A}
  <2>1. WithActiveStored = [batches EXCEPT ![k] = A]
    BY <1>2 DEF WithActiveStored
  <2>2. k \in 1 .. k
    <3>1. batches # <<>>
      BY <1>2 DEF isNewBatchNeeded
    <3> QED BY <3>1
  <2> HIDE DEF A
  <2>3. [batches EXCEPT ![k] = A] \in Seq(U)
    <3>1. batches \in Seq(U) /\ A \in U
      BY SeqMonotonic
    <3> HIDE DEF U
    <3> QED BY <2>2, <3>1, ExceptSeq
  <2> QED BY <2>1, <2>3
<1> QED BY <1>1, <1>2

\* The simulator leaves the function and the plan alone; it stores batches.
LEMMA SimulationKeeps ==
    ASSUME LegalizationInv, RunSimulation
    PROVE  LegalizationInv'
<1>1. /\ UNCHANGED passVars /\ UNCHANGED passState
      /\ batches' = batches \/ batches' = WithActiveStored
      /\ pc' = "success" => batches' = <<>>
  BY DEF RunSimulation, SimulationStep, MapBarrier, MapToFree, MapNextInstance, MapConfigured, Map,
         EndMapping, ProcessTask, NextFifo, EndRound, Grow, Shrink, Continue, Stop, Loop
<1>2. UNCHANGED <<program, mode, todo, modified, toLegalize, required, origin>>
  BY <1>1 DEF passVars, passState
<1>3. BatchesKept'
  BY <1>1, <1>2, StoredBatches DEF LegalizationInv, BatchesKept
<1>4. ProgramKept' /\ BarriersKept' /\ PlanKept' /\ PackedKept'
  BY <1>2 DEF LegalizationInv, ProgramKept, BarriersKept, PlanKept, PackedKept, Thrown, Now
<1> QED BY <1>3, <1>4 DEF LegalizationInv

\* The first function.
LEMMA LegalizationStarts == LegalizationInit => LegalizationInv
<1> SUFFICES ASSUME LegalizationInit PROVE LegalizationInv
  OBVIOUS
<1>1. /\ program \in Program /\ batches = <<>> /\ toLegalize = <<>>
      /\ todo = <<"split", "order", "erase", "satisfyOneWait", "reduceExceeding">>
      /\ required = ControlPaths(program) /\ origin = [t \in Task |-> t]
  BY DEF LegalizationInit, Init
<1>2. WellFormed(program) /\ Fits(program)
  BY <1>1, ProgramAssumption, TaskFitAssumption DEF Fits
<1>3. Ordered(program)
  <2>1. /\ IsProgram(program)
        /\ \A t \in Task : program.waits[t] \cup program.posts[t] \subseteq Barriers(program)
        /\ \A v \in Barriers(program) : \A t \in Producers(program, v), u \in Consumers(program, v) : t < u
    BY <1>2 DEF WellFormed, Barriers
  <2>2. \A v \in Vid : v \in Nat
    BY SizeAssumption DEF Vid, FinalBarrier
  <2>3. /\ program \in [fifo : [Task -> Fifo], waits : [Task -> SUBSET Nat], posts : [Task -> SUBSET Nat],
                        count : [Task -> Nat \ {0}], bars : Nat]
    <3>1. FinalBarrier \in Nat
      BY SizeAssumption DEF FinalBarrier
    <3>2. program.bars \in Nat
      BY <2>1, <3>1 DEF IsProgram
    <3>3. program.waits \in [Task -> SUBSET Nat] /\ program.posts \in [Task -> SUBSET Nat]
      BY <2>1, <2>2 DEF IsProgram
    <3> QED BY <2>1, <3>2, <3>3 DEF IsProgram
  <2>4. \A t, u \in Task : program.posts[t] \cap program.waits[u] # {} => t < u
    BY <2>1 DEF Producers, Consumers
  <2> QED BY <2>1, <2>3, <2>4 DEF Ordered
<1>4. Paired(program)
  BY <1>2 DEF WellFormed, Paired, Barriers
<1>5. Requires(program, required, origin)
  <2>1. origin \in [Task -> Task] /\ \A t \in Task : origin[t] = t
    BY <1>1
  <2>2. ASSUME NEW path \in required
        PROVE  \E t, u \in Task : path = <<origin[t], origin[u]>> /\ u \in TaskControlMap(program)[t]
    <3>1. path \in Task \X Task /\ path[2] \in TaskControlMap(program)[path[1]]
      BY <1>1, <2>2 DEF ControlPaths
    <3>2. PICK t \in Task, u \in Task : path = <<t, u>>
      BY <3>1
    <3> QED BY <2>1, <3>1, <3>2
  <2> QED BY <2>1, <2>2 DEF Requires
<1>6. Planned(todo) /\ todo # <<>> /\ Head(todo) = "split"
  <2> DEFINE a == <<"split", "order", "erase", "satisfyOneWait", "reduceExceeding">>
  <2>1. InSuit(a) /\ a # <<>> /\ a[Len(a)] = "reduceExceeding" /\ a[1] = "split"
    BY SuitsPipeline
  <2>2. todo = a
    BY <1>1
  <2> HIDE DEF a
  <2> QED BY <2>1, <2>2 DEF Planned, LastSteps
<1>7. BatchesKept
  <2>1. batches \in Seq({}) /\ toLegalize \in Seq({})
    BY <1>1
  <2> QED BY <2>1 DEF BatchesKept
<1> QED BY <1>2, <1>3, <1>4, <1>5, <1>6, <1>7
        DEF LegalizationInv, ProgramKept, BarriersKept, PlanKept, PackedKept, PackedBefore

\* Every step keeps the invariant while there are barriers left.
LEMMA LegalizationKeeps ==
    LegalizationInv /\ BarriersLeft /\ [LegalizationNext]_legalizationVars => LegalizationInv'
<1> SUFFICES ASSUME LegalizationInv, BarriersLeft, [LegalizationNext]_legalizationVars
             PROVE  LegalizationInv'
  OBVIOUS
<1>1. CASE UNCHANGED legalizationVars
  <2>1. UNCHANGED <<program, mode, pc, batches, todo, modified, toLegalize, required, origin>>
    BY <1>1 DEF legalizationVars, vars, passState
  <2> QED BY <2>1 DEF LegalizationInv, ProgramKept, BarriersKept, PlanKept, PackedKept, BatchesKept, Thrown, Now
<1>2. CASE LegalizationStep
  BY <1>2, SplitStep, OrderStep, EraseStep, SingleBarrierStep, CheckStep, OneWaitStep, ReduceStep,
     TriedStep, OptimizeStep, ShareStep, CheckSlotsStep, StartStep, DecideStep, LinearizeStep,
     LegalizedStep, AssignStep, SimulationKeeps
     DEF LegalizationStep
<1> QED BY <1>1, <1>2 DEF LegalizationNext

\* What it is for.
LEMMA LegalizationInvSound == LegalizationInv => FunctionSound
<1> SUFFICES ASSUME LegalizationInv PROVE FunctionSound
  OBVIOUS
<1>1. Ordered(program) /\ Requires(program, required, origin) /\ BarriersKept
  BY DEF LegalizationInv, ProgramKept
<1>2. OrderKept
  <2>1. ASSUME NEW path \in required
        PROVE  path \in {<<origin[way[1]], origin[way[2]]>> : way \in ControlPaths(program)}
    <3>1. PICK t \in Task, u \in Task :
              path = <<origin[t], origin[u]>> /\ u \in TaskControlMap(program)[t]
      BY <1>1 DEF Requires
    <3> DEFINE way == <<t, u>>
    <3>2. way \in ControlPaths(program) /\ way[1] = t /\ way[2] = u
      BY <3>1 DEF ControlPaths
    <3>3. path = <<origin[way[1]], origin[way[2]]>>
      BY <3>1
    <3> HIDE DEF way
    <3> QED BY <3>2, <3>3
  <2> QED BY <1>1, <2>1 DEF OrderKept, Requires
<1>3. BarriersSound
  <2> SUFFICES ASSUME NEW v \in Used(program)
               PROVE  /\ Producers(program, v) # {}
                      /\ Consumers(program, v) # {} \/ v = FinalBarrier
                      /\ \A t \in Producers(program, v), u \in Consumers(program, v) : t < u
    BY DEF BarriersSound
  <2>1. v \in Barriers(program) /\ Producers(program, v) \cup Consumers(program, v) # {}
    BY DEF Used
  <2>2. PairedButFinal(program) \/ Paired(program)
    BY <1>1 DEF BarriersKept
  <2>3. Producers(program, v) # {} /\ (Consumers(program, v) # {} \/ v = FinalBarrier)
    BY <2>1, <2>2 DEF Paired, PairedButFinal
  <2>4. \A t \in Producers(program, v), u \in Consumers(program, v) : t < u
    BY <1>1 DEF Ordered, Producers, Consumers
  <2> QED BY <2>3, <2>4
<1>4. NeverStuck
  <2>1. Planned(todo) => ~Now("throw")
    BY PlanGoesOn DEF Now, PassStep
  <2> QED BY <2>1 DEF LegalizationInv, PlanKept, Thrown, MayThrow, NeverStuck
<1> QED BY <1>2, <1>3, <1>4 DEF FunctionSound

\* The passes rewrite barriers until the function fits the hardware, give its
\* tasks and barriers new numbers, and simulate it: throughout, a task that had to
\* run before another still has to, those of one FIFO included; a barrier in use
\* leads to later tasks and is produced and, but for the final one, awaited; and
\* nothing is thrown because a task was never executed, a dependency of the queues
\* was lost, or batches came from a simulation that succeeded.
THEOREM LegalizationKeepsFunction == LegalizationSpec /\ []BarriersLeft => []FunctionSound
BY LegalizationStarts, LegalizationKeeps, LegalizationInvSound, PTL DEF LegalizationSpec
=============================================================================
