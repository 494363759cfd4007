----------------------- MODULE BarrierSimulator_proofs -----------------------
(***************************************************************************)
(* Proofs about the barrier simulator, for every function, every number of *)
(* FIFOs and of physical barriers: its types, who holds which physical     *)
(* barrier, the slots that are counted, the batches it collects, that it   *)
(* neither fails nor throws, and that it implements TaskSchedule; then about *)
(* the assignment: that with _wlmPidProgramming two uses of a physical     *)
(* barrier are ordered by a control path, and that what an assignment leaves *)
(* can be executed.                                                        *)
(*                                                                         *)
(* IInv is the inductive invariant, in five parts: what the passes keep of *)
(* the function, what the counts stand for, who holds the physical         *)
(* barriers, what a round has established so far, and the batches.         *)
(* AssignInv is the one of the assignments: it keeps when each barrier was *)
(* mapped and each task run; BarrierSimulation can repeat it in that order, *)
(* so the event that comes first among those left is never held up.        *)
(***************************************************************************)
EXTENDS BarrierSimulator, BarrierProgram_proofs, SequenceTheorems

\* A barrier is produced and consumed by somebody, except the final one, which
\* is declared last and produced by every FIFO's end that produces nothing else.
ProgramInv ==
    /\ Sound(program)
    /\ mode \in {"legalize", "assign", "order", "validate"}
    /\ wlmPidProgramming \in BOOLEAN
    /\ declared \in Seq(Vid) /\ IsInjective(declared)
    /\ mode = "legalize" =>
           WellFormed(program) /\ declared = [i \in 1 .. program.bars |-> i]
    /\ \A t \in Task :
           /\ program.waits[t] \cup program.posts[t] \subseteq Range1(declared)
           /\ FinalBarrier \notin program.waits[t]
           /\ FinalBarrier \in program.posts[t] => program.posts[t] = {FinalBarrier}
    /\ \A v \in Range1(declared) \ {FinalBarrier} :
           Producers(program, v) # {} /\ Consumers(program, v) # {}
    /\ FinalBarrier \in Range1(declared) =>
           /\ declared[Len(declared)] = FinalBarrier
           /\ \A t \in LastInFifo : program.posts[t] # {}

\* The counts are the slots of the tasks that have not run; the tasks that have
\* run were allowed to.
CountInv ==
    /\ done \subseteq Task
    /\ producerCount = [v \in Vid |-> SlotCount(program, Producers(program, v) \ done)]
    /\ consumerCount = [v \in Vid |-> SlotCount(program, Consumers(program, v) \ done)]
    /\ \A t \in done : \A u \in Task :
           u < t /\ program.fifo[u] = program.fifo[t] => u \in done
    /\ \A t \in done : \A v \in program.waits[t] : Producers(program, v) \subseteq done
    /\ \A t \in done : program.waits[t] \cup program.posts[t] \subseteq Mapped

\* A mapped barrier that has consumers left, or is the final one.
Needed(v) == v = FinalBarrier \/ consumerCount[v] > 0

\* What HeldUntilConsumed leaves out: the final barrier is never given back, and
\* only needed barriers are held.
PidsInv ==
    /\ toVirtual \in Seq(Vid \cup {None})
    /\ prevVidOfPhysBar \in Seq(Vid \cup {None})
    /\ mode # "legalize" => Len(toVirtual) = NumPids /\ Len(prevVidOfPhysBar) = NumPids
    /\ realId \in [Vid -> Nat]
    /\ bar \in 1 .. Len(declared) + 1
    /\ order \in Seq(Range1(declared)) /\ IsInjective(order)
    /\ IF mode = "order" THEN Len(order) = bar - 1 ELSE order = <<>>
    /\ \A v \in Mapped : Needed(v) => realId[v] \in Pids /\ toVirtual[realId[v]] = v
    /\ \A p \in Pids : toVirtual[p] # None =>
           /\ realId[toVirtual[p]] = p
           /\ toVirtual[p] \in Mapped
           /\ Needed(toVirtual[p])
    /\ nextReal \in Seq(Nat)
    /\ isDynamicBarriers =>
           /\ \A v \in Vid : realId[v] # None => v \in Mapped
           /\ IsInjective(nextReal)
           /\ Range1(nextReal) = Unmapped

\* A round that has changed nothing found nothing to map and no task to run.  A
\* legalization that starts a round with too many physical barriers has at most
\* one free, which the next barrier takes.
RoundInv ==
    /\ pc \in {"map", "tasks", "round", "refused", "success", "batches", "blocked"}
    /\ fifo \in Fifo
    /\ progressed \in BOOLEAN
    /\ pc = "success" => done = Task /\ bar = Len(declared) + 1
    /\ pc \in {"map", "tasks", "round"} /\ ~progressed => bar <= Len(declared) \/ done # Task
    /\ pc \in {"tasks", "round"} /\ ~progressed =>
           /\ ~CanMap
           /\ \A f \in Fifo : pc = "round" \/ f < fifo => \A t \in AtHead(f) : ~Ready(t)
    /\ pc = "map" /\ Exceeding /\ ~wlmPidProgramming /\ Unmapped # {} =>
           bar <= Len(declared) /\ \E p \in Pids : Unmapped = {p}

\* A batch is closed once the next one is opened: none of its barriers is active.
BatchInv ==
    /\ batches \in Seq(SUBSET Vid)
    /\ mode # "legalize" => batches = <<>>
    /\ BatchesRight
    /\ \A i \in DOMAIN batches : batches[i] \subseteq Mapped
    /\ \A i \in DOMAIN batches : i < Len(batches) => batches[i] \cap Active = {}

IInv == ProgramInv /\ CountInv /\ PidsInv /\ RoundInv /\ BatchInv
-----------------------------------------------------------------------------
(* What the parts say together.                                            *)

\* What the sizes of an instance are.
LEMMA Numbers ==
    /\ NumTasks \in Nat \ {0} /\ NumBarriers \in Nat /\ NumFifos \in Nat \ {0}
    /\ NumPids \in Nat /\ NumPids > 1
    /\ Task \subseteq Nat /\ Vid \subseteq Nat \ {0} /\ Fifo \subseteq Nat
    /\ FinalBarrier \in Vid /\ None \notin Vid /\ None = 0
BY SizeAssumption, PidAssumption DEF Task, Vid, Fifo, FinalBarrier, None

(* A count is zero when the last of the tasks it counts has run.           *)
LEMMA CountsAre ==
    ASSUME ProgramInv, CountInv, NEW v \in Vid
    PROVE  /\ producerCount[v] \in Nat /\ consumerCount[v] \in Nat
           /\ producerCount[v] = 0 <=> Producers(program, v) \subseteq done
           /\ consumerCount[v] = 0 <=> Consumers(program, v) \subseteq done
<1>1. IsProgram(program)
  BY DEF ProgramInv, Sound
<1>2. /\ Producers(program, v) \ done \in SUBSET Task
      /\ Consumers(program, v) \ done \in SUBSET Task
  BY DEF Producers, Consumers
<1>3. /\ producerCount[v] = SlotCount(program, Producers(program, v) \ done)
      /\ consumerCount[v] = SlotCount(program, Consumers(program, v) \ done)
  BY DEF CountInv
<1>4. producerCount[v] \in Nat /\ consumerCount[v] \in Nat
  BY <1>1, <1>2, <1>3, SlotsFinite
<1>5. producerCount[v] = 0 <=> Producers(program, v) \ done = {}
  BY <1>1, <1>2, <1>3, SlotCountZero
<1>6. consumerCount[v] = 0 <=> Consumers(program, v) \ done = {}
  BY <1>1, <1>2, <1>3, SlotCountZero
<1> QED BY <1>4, <1>5, <1>6

\* A task waits for barriers it consumes and updates barriers it produces.
LEMMA BarriersOf ==
    ASSUME ProgramInv, NEW t \in Task
    PROVE  /\ program.waits[t] \subseteq Vid /\ program.posts[t] \subseteq Vid
           /\ program.fifo[t] \in Fifo /\ program.count[t] \in Nat \ {0}
           /\ \A v \in program.waits[t] : t \in Consumers(program, v)
           /\ \A v \in program.posts[t] : t \in Producers(program, v)
<1>1. IsProgram(program)
  BY DEF ProgramInv, Sound
<1> QED BY <1>1 DEF IsProgram, Consumers, Producers

(* The barriers of a task that has not run are needed.                     *)
LEMMA UndoneNeeds ==
    ASSUME ProgramInv, CountInv, NEW t \in Task \ done,
           NEW v \in program.waits[t] \cup program.posts[t]
    PROVE  v \in Vid /\ Needed(v)
<1>1. v \in Vid
  BY BarriersOf
<1>2. CASE v \in program.waits[t]
  <2>1. consumerCount[v] \in Nat /\ consumerCount[v] # 0
    BY <1>1, <1>2, BarriersOf, CountsAre
  <2> QED BY <1>1, <2>1 DEF Needed
<1>3. CASE v \in program.posts[t] /\ v # FinalBarrier
  <2>1. PICK c \in Consumers(program, v) : TRUE
    BY <1>3 DEF ProgramInv
  <2>2. c \notin done
    BY <1>3, BarriersOf DEF CountInv, Consumers
  <2>3. consumerCount[v] \in Nat /\ consumerCount[v] # 0
    BY <1>1, <2>1, <2>2, CountsAre
  <2> QED BY <1>1, <2>3 DEF Needed
<1> QED BY <1>1, <1>2, <1>3 DEF Needed

(* So is a barrier that has not been mapped.                               *)
LEMMA NewNeeded ==
    ASSUME ProgramInv, CountInv, NEW v \in Range1(declared), v \notin Mapped
    PROVE  v \in Vid /\ Needed(v)
<1>1. v \in Vid
  BY DEF ProgramInv, Range1
<1>2. CASE v # FinalBarrier
  <2>1. PICK c \in Consumers(program, v) : TRUE
    BY <1>2 DEF ProgramInv
  <2>2. c \in Task /\ v \in program.waits[c]
    BY DEF Consumers
  <2>3. c \notin done
    BY <2>2 DEF CountInv
  <2> QED BY <2>2, <2>3, UndoneNeeds
<1> QED BY <1>1, <1>2 DEF Needed

(* The barriers of a ready task hold physical ones, and what it waits for  *)
(* has been produced.                                                      *)
LEMMA ReadyMapped ==
    ASSUME ProgramInv, CountInv, PidsInv, NEW t \in Task \ done, Ready(t)
    PROVE  /\ \A v \in program.waits[t] \cup program.posts[t] :
                 v \in Mapped /\ realId[v] \in Pids /\ toVirtual[realId[v]] = v
           /\ \A v \in program.waits[t] : Producers(program, v) \subseteq done
<1>1. ASSUME NEW v \in program.waits[t] \cup program.posts[t]
      PROVE  v \in Mapped /\ realId[v] \in Pids /\ toVirtual[realId[v]] = v
  <2>1. isBarrierMapped(v)
    BY DEF Ready
  <2>2. v \in Vid /\ Needed(v) /\ v # None
    BY UndoneNeeds, Numbers
  <2>3. CASE isDynamicBarriers
    <3>1. realId[v] # None
      BY <2>1 DEF isBarrierMapped, PidsInv, None, Pids
    <3>2. v \in Mapped
      BY <2>2, <2>3, <3>1 DEF PidsInv
    <3> QED BY <2>2, <3>2 DEF PidsInv
  <2>4. CASE ~isDynamicBarriers
    <3>1. realId[v] \in Pids /\ toVirtual[realId[v]] = v
      BY <2>1, <2>4 DEF isBarrierMapped
    <3> QED BY <2>2, <3>1 DEF PidsInv
  <2> QED BY <2>3, <2>4
<1>2. ASSUME NEW v \in program.waits[t] PROVE Producers(program, v) \subseteq done
  <2>1. producerCount[v] <= 0 /\ v \in Vid
    BY BarriersOf DEF Ready
  <2> QED BY <2>1, CountsAre
<1> QED BY <1>1, <1>2

(* processSim's checks never fail.                                         *)
LEMMA NeverFails ==
    ASSUME ProgramInv, CountInv, NEW t \in Task \ done, Ready(t)
    PROVE  CountsSuffice(t)
<1>1. IsProgram(program)
  BY DEF ProgramInv, Sound
<1>2. ASSUME NEW v \in program.waits[t]
      PROVE  producerCount[v] = 0 /\ consumerCount[v] >= program.count[t]
  <2>1. v \in Vid /\ t \in Consumers(program, v) \ done
    BY BarriersOf
  <2>2. producerCount[v] = 0
    BY <2>1, CountsAre DEF Ready
  <2>3. Consumers(program, v) \ done \in SUBSET Task
    BY DEF Consumers
  <2>4. consumerCount[v] >= program.count[t]
    BY <1>1, <2>1, <2>3, SlotCountAtLeast DEF CountInv
  <2> QED BY <2>2, <2>4
<1>3. ASSUME NEW v \in program.posts[t] PROVE producerCount[v] >= program.count[t]
  <2>1. v \in Vid /\ t \in Producers(program, v) \ done
    BY BarriersOf
  <2>2. Producers(program, v) \ done \in SUBSET Task
    BY DEF Producers
  <2> QED BY <1>1, <2>1, <2>2, SlotCountAtLeast DEF CountInv
<1> QED BY <1>2, <1>3 DEF CountsSuffice

(* Once all barriers are mapped, the first task that has not run can.      *)
LEMMA LeastUndoneReady ==
    ASSUME ProgramInv, CountInv, PidsInv, mode # "order", bar > Len(declared), done # Task
    PROVE  \E f \in Fifo : \E t \in AtHead(f) : Ready(t)
<1>1. done \subseteq Task /\ Task \ done # {} /\ Task \ done \in SUBSET Nat
  BY Numbers DEF CountInv
<1>2. PICK t \in Task \ done : \A u \in Task \ done : t <= u
  BY <1>1, LeastElement
<1>3. t \in AtHead(program.fifo[t])
  BY <1>2 DEF AtHead
<1>4. Mapped = Range1(declared)
  <2>1. Len(declared) \in Nat /\ bar = Len(declared) + 1 /\ DOMAIN declared = 1 .. Len(declared)
    BY DEF ProgramInv, PidsInv
  <2> QED BY <2>1 DEF Mapped, Range1
<1>5. ASSUME NEW v \in program.waits[t] \cup program.posts[t] PROVE isBarrierMapped(v)
  <2>1. v \in Mapped
    BY <1>4 DEF ProgramInv
  <2>2. v \in Vid /\ Needed(v)
    BY UndoneNeeds
  <2> QED BY <2>1, <2>2 DEF PidsInv, isBarrierMapped
<1>6. ASSUME NEW v \in program.waits[t] PROVE producerCount[v] <= 0
  <2>1. v \in Vid
    BY BarriersOf
  <2>2. \A u \in Producers(program, v) : u \in Task /\ v \in program.posts[u]
    BY DEF Producers
  <2>3. \A u \in Producers(program, v) : u \in Task /\ u < t
    BY <2>2 DEF ProgramInv, Sound
  <2>4. ASSUME NEW u \in Producers(program, v) PROVE u \in done
    <3>1. u \in Nat /\ t \in Nat /\ u \in Task /\ u < t
      BY <2>3, Numbers
    <3> QED BY <1>2, <3>1
  <2>5. producerCount[v] = 0
    BY <2>1, <2>4, CountsAre
  <2> QED BY <2>5
<1>7. Ready(t)
  BY <1>5, <1>6 DEF Ready
<1>8. program.fifo[t] \in Fifo
  BY BarriersOf
<1> QED BY <1>3, <1>7, <1>8

-----------------------------------------------------------------------------
(* Sequences without repetition.                                           *)

(* The ring buffer after entry i is taken out and those before it are put  *)
(* at its end.                                                             *)
LEMMA RingTake ==
    ASSUME NEW s \in Seq(Nat), IsInjective(s), NEW i \in DOMAIN s, NEW r,
           r = SubSeq(s, i + 1, Len(s)) \o SubSeq(s, 1, i - 1)
    PROVE  r \in Seq(Nat) /\ IsInjective(r) /\ Range1(r) = Range1(s) \ {s[i]}
<1> DEFINE n == Len(s)
           a == SubSeq(s, i + 1, n)
           b == SubSeq(s, 1, i - 1)
<1>1. n \in Nat /\ i \in 1 .. n /\ DOMAIN s = 1 .. n /\ \A k \in 1 .. n : s[k] \in Nat
  BY LenProperties
<1>2. a \in Seq(Nat) /\ Len(a) = n - i /\ \A k \in 1 .. n - i : a[k] = s[k + i]
  <2> DEFINE m == i + 1
  <2>1. m \in Int /\ n \in Int /\ \A k \in m .. n : s[k] \in Nat
    BY <1>1
  <2>2. (IF m <= n THEN n - m + 1 ELSE 0) = n - i /\ n - m + 1 = n - i
    BY <1>1
  <2>3. \A k \in 1 .. n - i : m + k - 1 = k + i
    BY <1>1
  <2>4. a = SubSeq(s, m, n)
    OBVIOUS
  <2> HIDE DEF m, n, a
  <2>5. /\ SubSeq(s, m, n) \in Seq(Nat)
        /\ Len(SubSeq(s, m, n)) = IF m <= n THEN n - m + 1 ELSE 0
        /\ \A k \in 1 .. n - m + 1 : SubSeq(s, m, n)[k] = s[m + k - 1]
    BY <2>1, SubSeqProperties
  <2> QED BY <2>2, <2>3, <2>4, <2>5
<1>3. b \in Seq(Nat) /\ Len(b) = i - 1 /\ \A k \in 1 .. i - 1 : b[k] = s[k]
  <2> DEFINE m == i - 1
  <2>1. 1 \in Int /\ m \in Int /\ \A k \in 1 .. m : s[k] \in Nat
    BY <1>1
  <2>2. (IF 1 <= m THEN m - 1 + 1 ELSE 0) = i - 1 /\ m - 1 + 1 = i - 1
    BY <1>1
  <2>3. \A k \in 1 .. i - 1 : 1 + k - 1 = k
    BY <1>1
  <2>4. b = SubSeq(s, 1, m)
    OBVIOUS
  <2> HIDE DEF m, n, b
  <2>5. /\ SubSeq(s, 1, m) \in Seq(Nat)
        /\ Len(SubSeq(s, 1, m)) = IF 1 <= m THEN m - 1 + 1 ELSE 0
        /\ \A k \in 1 .. m - 1 + 1 : SubSeq(s, 1, m)[k] = s[1 + k - 1]
    BY <2>1, SubSeqProperties
  <2> QED BY <2>2, <2>3, <2>4, <2>5
<1>4. r = a \o b
  OBVIOUS
<1>a. n \in Nat /\ i \in Nat /\ 1 <= i /\ i <= n
  BY <1>1
<1> HIDE DEF n, a, b
<1>5. /\ r \in Seq(Nat) /\ Len(r) = Len(a) + Len(b)
      /\ \A k \in 1 .. Len(a) + Len(b) : r[k] = IF k <= Len(a) THEN a[k] ELSE b[k - Len(a)]
  <2>1. /\ a \o b \in Seq(Nat) /\ Len(a \o b) = Len(a) + Len(b)
        /\ \A k \in 1 .. Len(a) + Len(b) :
              (a \o b)[k] = IF k <= Len(a) THEN a[k] ELSE b[k - Len(a)]
    BY ONLY <1>2, <1>3, ConcatProperties
  <2> QED BY <2>1, <1>4
<1>6. /\ DOMAIN r = 1 .. n - 1
      /\ \A k \in 1 .. n - i : r[k] = s[k + i]
      /\ \A k \in n - i + 1 .. n - 1 : r[k] = s[k - (n - i)]
  <2>1. Len(r) = n - 1 /\ DOMAIN r = 1 .. Len(r)
    BY <1>1, <1>2, <1>3, <1>5
  <2>2. ASSUME NEW k \in 1 .. n - i PROVE r[k] = s[k + i]
    <3>1. k \in 1 .. Len(a) + Len(b) /\ k <= Len(a)
      BY <1>1, <1>2, <1>3
    <3> QED BY <3>1, <1>2, <1>5
  <2>3. ASSUME NEW k \in n - i + 1 .. n - 1 PROVE r[k] = s[k - (n - i)]
    <3>a. k \in Int /\ n - i + 1 <= k /\ k <= n - 1
      BY <1>a
    <3>1. k \in 1 .. Len(a) + Len(b) /\ ~(k <= Len(a)) /\ k - Len(a) \in 1 .. i - 1
      <4>1. Len(a) = n - i /\ Len(b) = i - 1
        BY <1>2, <1>3
      <4>2. Len(a) + Len(b) = n - 1
        BY ONLY <4>1, <1>a
      <4>3. k \in 1 .. n - 1 /\ ~(k <= n - i) /\ k - (n - i) \in 1 .. i - 1
        BY ONLY <3>a, <1>a
      <4> QED BY ONLY <4>1, <4>2, <4>3
    <3>2. r[k] = b[k - Len(a)]
      BY <3>1, <1>5
    <3> QED BY <3>1, <3>2, <1>2, <1>3
  <2> QED BY <2>1, <2>2, <2>3
<1>7. \A k \in 1 .. n - 1 : \E x \in 1 .. n :
          /\ x # i /\ r[k] = s[x]
          /\ x = IF k <= n - i THEN k + i ELSE k - (n - i)
  <2> SUFFICES ASSUME NEW k \in 1 .. n - 1
               PROVE  \E x \in 1 .. n : /\ x # i /\ r[k] = s[x]
                                        /\ x = IF k <= n - i THEN k + i ELSE k - (n - i)
    OBVIOUS
  <2>1. CASE k <= n - i
    <3>a. k \in Int /\ 1 <= k
      BY <1>a
    <3>1. k \in 1 .. n - i /\ k + i \in 1 .. n /\ k + i # i
      BY ONLY <3>a, <1>a, <2>1
    <3> QED BY <2>1, <3>1, <1>6
  <2>2. CASE ~(k <= n - i)
    <3>a. k \in Int /\ k <= n - 1
      BY <1>a
    <3>1. k \in n - i + 1 .. n - 1 /\ k - (n - i) \in 1 .. n /\ k - (n - i) # i
      BY ONLY <3>a, <1>a, <2>2
    <3> QED BY <2>2, <3>1, <1>6
  <2> QED BY <2>1, <2>2
<1>8. IsInjective(r)
  <2> SUFFICES ASSUME NEW k \in 1 .. n - 1, NEW l \in 1 .. n - 1, r[k] = r[l] PROVE k = l
    BY <1>6 DEF IsInjective
  <2>1. PICK x \in 1 .. n : r[k] = s[x] /\ x = IF k <= n - i THEN k + i ELSE k - (n - i)
    BY <1>7
  <2>2. PICK y \in 1 .. n : r[l] = s[y] /\ y = IF l <= n - i THEN l + i ELSE l - (n - i)
    BY <1>7
  <2>3. x = y
    BY <1>1, <2>1, <2>2 DEF IsInjective
  <2> QED BY ONLY <1>1, <2>1, <2>2, <2>3
<1>9. Range1(r) \subseteq Range1(s) \ {s[i]}
  <2> SUFFICES ASSUME NEW k \in 1 .. n - 1 PROVE r[k] \in Range1(s) /\ r[k] # s[i]
    BY <1>6 DEF Range1
  <2>1. PICK x \in 1 .. n : x # i /\ r[k] = s[x]
    BY <1>7
  <2> QED BY <2>1, <1>1 DEF IsInjective, Range1
<1>10. ASSUME NEW j \in 1 .. n, j # i PROVE s[j] \in Range1(r)
  <2>1. CASE j > i
    <3>1. j - i \in 1 .. n - 1 /\ j - i \in 1 .. n - i /\ (j - i) + i = j
      <4>1. n \in Nat /\ i \in 1 .. n /\ j \in 1 .. n /\ j > i
        BY <1>1, <2>1
      <4> HIDE DEF n
      <4> QED BY ONLY <4>1
    <3>2. r[j - i] = s[j] /\ j - i \in DOMAIN r
      BY <1>6, <3>1
    <3> QED BY <3>2 DEF Range1
  <2>2. CASE j < i
    <3>1. j + (n - i) \in 1 .. n - 1 /\ j + (n - i) \in n - i + 1 .. n - 1
          /\ (j + (n - i)) - (n - i) = j
      <4>1. j \in Int /\ 1 <= j
        BY <1>a
      <4> QED BY ONLY <4>1, <1>a, <2>2
    <3>2. r[j + (n - i)] = s[j] /\ j + (n - i) \in DOMAIN r
      BY <1>6, <3>1
    <3> QED BY <3>2 DEF Range1
  <2> QED BY <1>1, <1>10, <2>1, <2>2
<1>11. Range1(s) \ {s[i]} \subseteq Range1(r)
  BY <1>1, <1>10 DEF Range1
<1> QED BY <1>5, <1>8, <1>9, <1>11

\* Two sequences without repetition and without a common entry, joined.
LEMMA ConcatInjective ==
    ASSUME NEW S, NEW s \in Seq(S), NEW t \in Seq(S), IsInjective(s), IsInjective(t),
           Range1(s) \cap Range1(t) = {}
    PROVE  /\ s \o t \in Seq(S) /\ IsInjective(s \o t)
           /\ Range1(s \o t) = Range1(s) \cup Range1(t)
<1> DEFINE m == Len(s)
           n == Len(t)
           r == s \o t
<1>1. m \in Nat /\ n \in Nat /\ DOMAIN s = 1 .. m /\ DOMAIN t = 1 .. n
  OBVIOUS
<1>2. /\ r \in Seq(S) /\ Len(r) = m + n
      /\ \A k \in 1 .. m + n : r[k] = IF k <= m THEN s[k] ELSE t[k - m]
  BY ConcatProperties
<1>3. DOMAIN r = 1 .. m + n
  BY <1>2
<1> HIDE DEF m, n, r
<1>4. /\ \A k \in 1 .. m : k \in DOMAIN r /\ r[k] = s[k]
      /\ \A k \in 1 .. n : k + m \in DOMAIN r /\ r[k + m] = t[k]
  <2>1. ASSUME NEW k \in 1 .. m PROVE k \in DOMAIN r /\ r[k] = s[k]
    BY <1>1, <1>2, <1>3
  <2>2. ASSUME NEW k \in 1 .. n PROVE k + m \in DOMAIN r /\ r[k + m] = t[k]
    <3>1. k + m \in 1 .. m + n /\ ~(k + m <= m) /\ (k + m) - m = k
      BY <1>1
    <3> QED BY <1>2, <1>3, <3>1
  <2> QED BY <2>1, <2>2
<1>5. ASSUME NEW k \in 1 .. m + n
      PROVE  \/ k \in 1 .. m /\ r[k] = s[k]
             \/ k - m \in 1 .. n /\ r[k] = t[k - m] /\ ~(k <= m)
  BY <1>1, <1>2
<1>6. IsInjective(r)
  <2> SUFFICES ASSUME NEW k \in 1 .. m + n, NEW l \in 1 .. m + n, r[k] = r[l] PROVE k = l
    BY <1>3 DEF IsInjective
  <2>1. CASE k \in 1 .. m /\ r[k] = s[k] /\ l \in 1 .. m /\ r[l] = s[l]
    BY <2>1, <1>1 DEF IsInjective
  <2>2. CASE /\ k - m \in 1 .. n /\ r[k] = t[k - m]
             /\ l - m \in 1 .. n /\ r[l] = t[l - m]
    <3>1. k - m = l - m
      BY <2>2, <1>1 DEF IsInjective
    <3> QED BY <3>1, <1>1
  <2>3. CASE k \in 1 .. m /\ r[k] = s[k] /\ l - m \in 1 .. n /\ r[l] = t[l - m]
    <3>1. r[k] \in Range1(s) /\ r[l] \in Range1(t)
      BY <2>3, <1>1 DEF Range1
    <3> QED BY <3>1
  <2>4. CASE l \in 1 .. m /\ r[l] = s[l] /\ k - m \in 1 .. n /\ r[k] = t[k - m]
    <3>1. r[l] \in Range1(s) /\ r[k] \in Range1(t)
      BY <2>4, <1>1 DEF Range1
    <3> QED BY <3>1
  <2> QED BY <1>5, <2>1, <2>2, <2>3, <2>4
<1>7. Range1(r) \subseteq Range1(s) \cup Range1(t)
  <2> SUFFICES ASSUME NEW k \in 1 .. m + n PROVE r[k] \in Range1(s) \cup Range1(t)
    BY <1>3 DEF Range1
  <2> QED BY <1>1, <1>5 DEF Range1
<1>8. Range1(s) \cup Range1(t) \subseteq Range1(r)
  <2>1. ASSUME NEW k \in 1 .. m PROVE s[k] \in Range1(r)
    BY <1>4 DEF Range1
  <2>2. ASSUME NEW k \in 1 .. n PROVE t[k] \in Range1(r)
    BY <1>4 DEF Range1
  <2> QED BY <1>1, <2>1, <2>2 DEF Range1
<1> QED BY <1>2, <1>6, <1>7, <1>8 DEF r

\* One more entry that was not there.
LEMMA AppendFresh ==
    ASSUME NEW S, NEW s \in Seq(S), IsInjective(s), NEW x \in S, x \notin Range1(s)
    PROVE  /\ Append(s, x) \in Seq(S) /\ IsInjective(Append(s, x))
           /\ Range1(Append(s, x)) = Range1(s) \cup {x}
           /\ Len(Append(s, x)) = Len(s) + 1
<1> DEFINE n == Len(s)
           r == Append(s, x)
<1>1. n \in Nat /\ DOMAIN s = 1 .. n
  OBVIOUS
<1>2. /\ r \in Seq(S) /\ Len(r) = n + 1
      /\ (\A k \in 1 .. n : r[k] = s[k]) /\ r[n + 1] = x
  BY AppendProperties
<1>3. DOMAIN r = 1 .. n + 1
  BY <1>2
<1> HIDE DEF n, r
<1>4. \A k \in 1 .. n + 1 : k = n + 1 \/ k \in 1 .. n
  BY <1>1
<1>5. (\A k \in 1 .. n : k \in 1 .. n + 1) /\ n + 1 \in 1 .. n + 1
  BY <1>1
<1>6. \A k \in 1 .. n : s[k] # x
  BY <1>1 DEF Range1
<1>7. IsInjective(r)
  BY <1>1, <1>2, <1>3, <1>4, <1>6 DEF IsInjective
<1>8. Range1(r) = Range1(s) \cup {x}
  BY <1>1, <1>2, <1>3, <1>4, <1>5 DEF Range1
<1> QED BY <1>2, <1>7, <1>8 DEF r, n

(* Any order the members of a finite set are pushed in has each once.      *)
LEMMA ArrangementsRight ==
    ASSUME NEW S \in SUBSET Nat, IsFiniteSet(S), NEW s \in Arrangements(S)
    PROVE  s \in Seq(Nat) /\ IsInjective(s) /\ Range1(s) = S
<1> DEFINE n == Cardinality(S)
<1>1. n \in Nat
  BY FS_CardinalityType
<1>2. s \in [1 .. n -> S] /\ \A x \in S : \E i \in DOMAIN s : s[i] = x
  BY DEF Arrangements
<1>3. IsFiniteSet(1 .. n) /\ Cardinality(1 .. n) = n
  <2> HIDE DEF n
  <2>1. IsFiniteSet(1 .. n) /\ Cardinality(1 .. n) = IF 1 > n THEN 0 ELSE n - 1 + 1
    BY <1>1, FS_Interval
  <2> QED BY <1>1, <2>1
<1>4. Cardinality(S) = Cardinality(1 .. n)
  BY <1>3
<1> HIDE DEF n
<1>5. s \in Surjection(1 .. n, S)
  BY <1>2 DEF Surjection
<1>6. s \in Injection(1 .. n, S)
  BY <1>3, <1>4, <1>5, FS_Surjection
<1>7. IsInjective(s)
  BY <1>2, <1>6 DEF Injection, IsInjective
<1>8. Range1(s) = S
  BY <1>2 DEF Range1
<1>9. s \in Seq(Nat)
  <2>1. s \in [1 .. n -> Nat]
    BY <1>2
  <2> QED BY <1>1, <2>1
<1> QED BY <1>7, <1>8, <1>9

\* Increasing lists a set of numbers, each once.
LEMMA IncreasingInjective ==
    ASSUME NEW S \in SUBSET Nat, IsFiniteSet(S)
    PROVE  /\ Increasing(S) \in Seq(Nat) /\ IsInjective(Increasing(S))
           /\ Range1(Increasing(S)) = S
<1> DEFINE s == Increasing(S)
<1>1. /\ s \in Seq(S) /\ DOMAIN s = 1 .. Cardinality(S)
      /\ \A i \in 1 .. Cardinality(S) : s[i] \in S
      /\ \A i, j \in 1 .. Cardinality(S) : s[i] = s[j] => i = j
      /\ \A x \in S : Rank(S, x) + 1 \in 1 .. Cardinality(S) /\ s[Rank(S, x) + 1] = x
  BY IncreasingOrders
<1> HIDE DEF s
<1>2. s \in Seq(Nat)
  BY <1>1, SeqMonotonic
<1>3. IsInjective(s)
  BY <1>1 DEF IsInjective
<1>4. Range1(s) = S
  <2>1. Range1(s) \subseteq S
    BY <1>1 DEF Range1
  <2>2. ASSUME NEW x \in S PROVE x \in Range1(s)
    <3> DEFINE i == Rank(S, x) + 1
    <3>1. i \in DOMAIN s /\ s[i] = x
      BY <1>1
    <3> HIDE DEF i
    <3> QED BY <3>1 DEF Range1
  <2> QED BY <2>1, <2>2
<1> QED BY <1>2, <1>3, <1>4 DEF s

(* updateNextReal fills the ring buffer with the free physical barriers.   *)
LEMMA FreeOfRight ==
    ASSUME NEW S, NEW s \in Seq(S)
    PROVE  /\ FreeOf(s) \in Seq(Nat) /\ IsInjective(FreeOf(s))
           /\ Range1(FreeOf(s)) = {p \in DOMAIN s : s[p] = None}
<1> DEFINE F == {p \in DOMAIN s : s[p] = None}
           n == Len(s)
<1>1. n \in Nat /\ DOMAIN s = 1 .. n
  OBVIOUS
<1>2. F \in SUBSET (1 .. n)
  BY <1>1
<1>3. FreeOf(s) = Increasing(F)
  BY DEF FreeOf
<1> HIDE DEF F, n
<1>4. IsFiniteSet(1 .. n)
  <2>1. 1 \in Int /\ n \in Int
    BY <1>1
  <2> QED BY <2>1, FS_Interval
<1>5. IsFiniteSet(F) /\ F \in SUBSET Nat
  <2>1. F \in SUBSET Nat
    BY <1>1, <1>2
  <2> QED BY <2>1, <1>2, <1>4, FS_Subset
<1>6. Range1(FreeOf(s)) = F /\ FreeOf(s) \in Seq(Nat) /\ IsInjective(FreeOf(s))
  BY <1>3, <1>5, IncreasingInjective
<1> QED BY <1>6 DEF F

-----------------------------------------------------------------------------
(* Mapping a barrier.                                                      *)

\* v gets the free physical barrier p.
Maps(p, v) ==
    /\ p \in Unmapped /\ v \in Range1(declared) \ Mapped /\ bar <= Len(declared)
    /\ toVirtual' = [toVirtual EXCEPT ![p] = v]
    /\ prevVidOfPhysBar' = [prevVidOfPhysBar EXCEPT ![p] = v]
    /\ realId' = [realId EXCEPT ![v] = p]
    /\ Mapped' = Mapped \cup {v}
    /\ bar' = bar + 1 /\ progressed' = TRUE
    /\ UNCHANGED <<passVars, producerCount, consumerCount, done, fifo, batches, pc>>
    /\ order' \in Seq(Range1(declared)) /\ IsInjective(order')
    /\ IF mode = "order" THEN order' = Append(order, v) /\ Len(order') = bar' - 1
       ELSE order' = <<>> /\ v = declared[bar]
    /\ nextReal' \in Seq(Nat)
    /\ isDynamicBarriers =>
           Usable(p, v) /\ IsInjective(nextReal') /\ Range1(nextReal') = Unmapped \ {p}

\* In the modes that follow the declarations, the next one is new.
LEMMA NextDeclared ==
    ASSUME ProgramInv, PidsInv, mode # "order", bar <= Len(declared)
    PROVE  /\ bar \in DOMAIN declared /\ declared[bar] \in Vid
           /\ declared[bar] \in Range1(declared) \ Mapped
           /\ bar' = bar + 1 /\ declared' = declared /\ mode' = mode
                => Mapped' = Mapped \cup {declared[bar]}
<1>1. /\ Len(declared) \in Nat /\ DOMAIN declared = 1 .. Len(declared)
      /\ \A i \in DOMAIN declared : declared[i] \in Vid
  BY LenProperties DEF ProgramInv
<1>2. bar \in Nat /\ bar \in DOMAIN declared
  BY <1>1 DEF PidsInv
<1>3. Mapped = {declared[i] : i \in 1 .. bar - 1}
  BY DEF Mapped
<1>4. \A i \in 1 .. bar - 1 : i \in DOMAIN declared /\ i # bar
  BY <1>1, <1>2
<1>5. declared[bar] \notin Mapped
  BY <1>2, <1>3, <1>4 DEF ProgramInv, IsInjective
<1>6. ASSUME bar' = bar + 1, declared' = declared, mode' = mode
      PROVE  Mapped' = Mapped \cup {declared[bar]}
  <2>1. Mapped' = {declared[i] : i \in 1 .. (bar + 1) - 1}
    BY <1>6 DEF Mapped
  <2>2. 1 .. (bar + 1) - 1 = (1 .. bar - 1) \cup {bar}
    BY <1>1, <1>2
  <2> QED BY <1>3, <2>1, <2>2
<1> QED BY <1>1, <1>2, <1>5, <1>6 DEF Range1

\* Mapping to a free physical barrier is mapping.
LEMMA MapToFreeMaps ==
    ASSUME ProgramInv, CountInv, PidsInv, bar <= Len(declared), MapToFree
    PROVE  \E p, v : Maps(p, v)
<1>1. PICK i \in DOMAIN nextReal :
          /\ nextReal' = SubSeq(nextReal, i + 1, Len(nextReal)) \o SubSeq(nextReal, 1, i - 1)
          /\ realId' = [realId EXCEPT ![declared[bar]] = nextReal[i]]
          /\ Map(nextReal[i], declared[bar]) /\ Usable(nextReal[i], declared[bar])
  BY DEF MapToFree
<1> DEFINE p == nextReal[i]
           v == declared[bar]
<1>2. isDynamicBarriers /\ mode # "order" /\ order' = order
  BY DEF MapToFree, isDynamicBarriers
<1>3. Map(p, v) /\ realId' = [realId EXCEPT ![v] = p] /\ Usable(p, v) /\ v = declared[bar]
  BY <1>1
<1>4. nextReal \in Seq(Nat) /\ IsInjective(nextReal) /\ Range1(nextReal) = Unmapped
  BY <1>2 DEF PidsInv
<1>5. /\ nextReal' \in Seq(Nat) /\ IsInjective(nextReal')
      /\ Range1(nextReal') = Range1(nextReal) \ {nextReal[i]}
  BY ONLY <1>1, <1>4, RingTake
<1>6. p \in Unmapped
  BY <1>4 DEF Range1
<1>7. v \in Range1(declared) \ Mapped /\ Mapped' = Mapped \cup {v}
  BY <1>2, <1>3, NextDeclared DEF Map, passVars
<1>8. order' \in Seq(Range1(declared)) /\ IsInjective(order') /\ order' = <<>>
  BY <1>2 DEF PidsInv
<1> HIDE DEF p, v
<1>9. Maps(p, v)
  BY <1>2, <1>3, <1>4, <1>5, <1>6, <1>7, <1>8 DEF Maps, Map, p
<1> QED BY <1>9

\* Mapping as configured is mapping.
LEMMA MapConfiguredMaps ==
    ASSUME ProgramInv, CountInv, PidsInv, bar <= Len(declared), MapConfigured
    PROVE  \E p, v : Maps(p, v)
<1> DEFINE v == declared[bar]
           p == realId[v]
<1>1. mode = "validate" /\ p \in Unmapped /\ Map(p, v) /\ UNCHANGED <<nextReal, realId, order>>
  BY DEF MapConfigured
<1>2. /\ v \in Vid /\ v \in Range1(declared) \ Mapped /\ Mapped' = Mapped \cup {v}
      /\ v = declared[bar]
  BY <1>1, NextDeclared DEF Map, passVars
<1>3. realId' = [realId EXCEPT ![v] = p]
  BY <1>1, <1>2 DEF PidsInv
<1>4. order' \in Seq(Range1(declared)) /\ IsInjective(order') /\ order' = <<>>
  BY <1>1 DEF PidsInv
<1>5. nextReal' \in Seq(Nat) /\ ~isDynamicBarriers
  BY <1>1 DEF PidsInv, isDynamicBarriers
<1> HIDE DEF p, v
<1>6. Maps(p, v)
  BY <1>1, <1>2, <1>3, <1>4, <1>5 DEF Maps, Map
<1> QED BY <1>6

\* Mapping the next instance of a physical barrier is mapping.
LEMMA MapNextInstanceMaps ==
    ASSUME ProgramInv, CountInv, PidsInv, bar <= Len(declared), MapNextInstance
    PROVE  \E p, v : Maps(p, v)
<1>a. PICK p \in Unmapped :
          \E v \in Instances(p) : order' = Append(order, v) /\ Map(p, v)
  BY DEF MapNextInstance
<1>1. PICK v \in Instances(p) : order' = Append(order, v) /\ Map(p, v)
  BY <1>a
<1>2. mode = "order" /\ UNCHANGED <<nextReal, realId>>
  BY DEF MapNextInstance
<1>3. v \in Range1(declared) /\ realId[v] = p /\ v \notin Range1(order)
  BY DEF Instances, Range1
<1>4. order \in Seq(Range1(declared)) /\ IsInjective(order) /\ Len(order) = bar - 1 /\ bar \in Nat
  BY <1>2 DEF PidsInv
<1>5. /\ order' \in Seq(Range1(declared)) /\ IsInjective(order')
      /\ Range1(order') = Range1(order) \cup {v} /\ Len(order') = Len(order) + 1
  BY <1>1, <1>3, <1>4, AppendFresh
<1>6. Mapped = Range1(order) /\ Mapped' = Range1(order')
  BY <1>1, <1>2 DEF Mapped, Map, passVars
<1>7. Len(order') = bar' - 1
  BY <1>1, <1>4, <1>5 DEF Map
<1>8. realId' = [realId EXCEPT ![v] = p]
  BY <1>2, <1>3 DEF PidsInv
<1>9. ~isDynamicBarriers /\ nextReal' \in Seq(Nat)
  BY <1>2 DEF isDynamicBarriers, PidsInv
<1>10. Maps(p, v)
  BY <1>1, <1>2, <1>3, <1>5, <1>6, <1>7, <1>8, <1>9 DEF Maps, Map
<1> QED BY <1>10

\* Each way to map a barrier is mapping.
LEMMA MapBarrierMaps ==
    ASSUME ProgramInv, CountInv, PidsInv, MapBarrier
    PROVE  \E p, v : Maps(p, v)
<1>1. bar <= Len(declared) /\ (MapToFree \/ MapNextInstance \/ MapConfigured)
  BY DEF MapBarrier
<1> QED BY <1>1, MapToFreeMaps, MapNextInstanceMaps, MapConfiguredMaps

\* A step of a simulation does not change what is simulated.
LEMMA ProgramFrame ==
    ASSUME ProgramInv, UNCHANGED passVars
    PROVE  ProgramInv'
BY DEF ProgramInv, passVars, LastInFifo

\* While no task runs, the counts stay right.
LEMMA CountFrame ==
    ASSUME CountInv, UNCHANGED <<program, done, producerCount, consumerCount>>,
           Mapped \subseteq Mapped'
    PROVE  CountInv'
<1>1. \A t \in done : program.waits[t] \cup program.posts[t] \subseteq Mapped'
  BY DEF CountInv
<1> QED BY <1>1 DEF CountInv

\* Mapping changes neither the function nor the counts.
LEMMA MapsProgram ==
    ASSUME ProgramInv, CountInv, NEW p, NEW v, Maps(p, v)
    PROVE  ProgramInv' /\ CountInv'
<1>1. UNCHANGED passVars /\ UNCHANGED <<program, done, producerCount, consumerCount>>
  BY DEF Maps, passVars
<1>2. Mapped \subseteq Mapped'
  BY DEF Maps
<1> QED BY <1>1, <1>2, ProgramFrame, CountFrame

\* Mapping takes one physical barrier from the free ones.
LEMMA MapsPids ==
    ASSUME ProgramInv, CountInv, PidsInv, NEW p, NEW v, Maps(p, v)
    PROVE  /\ PidsInv'
           /\ Unmapped' = Unmapped \ {p} /\ Active' = Active \cup {v}
           /\ Pids' = Pids /\ p \in Pids /\ v \in Vid /\ v # None
<1>1. /\ p \in Pids /\ toVirtual[p] = None
      /\ v \in Range1(declared) /\ v \notin Mapped /\ v \in Vid /\ v # None /\ Needed(v)
  BY NewNeeded, Numbers DEF Maps, Unmapped
<1>2. /\ toVirtual' = [toVirtual EXCEPT ![p] = v]
      /\ realId' = [realId EXCEPT ![v] = p]
      /\ Mapped' = Mapped \cup {v}
      /\ UNCHANGED <<mode, declared, consumerCount>>
  BY DEF Maps, passVars
<1>3. Pids' = Pids /\ p \in Nat
  BY <1>1, <1>2 DEF Pids, PidsInv
<1>4. /\ toVirtual' \in Seq(Vid \cup {None}) /\ Len(toVirtual') = Len(toVirtual)
      /\ prevVidOfPhysBar' \in Seq(Vid \cup {None})
      /\ Len(prevVidOfPhysBar') = Len(prevVidOfPhysBar)
  <2>1. toVirtual' \in Seq(Vid \cup {None}) /\ Len(toVirtual') = Len(toVirtual)
    BY <1>1, <1>2 DEF PidsInv, Pids
  <2> DEFINE old == prevVidOfPhysBar
             new == prevVidOfPhysBar'
             n == Len(old)
  <2>2. n \in Nat /\ old \in [1 .. n -> Vid \cup {None}]
    BY LenProperties DEF PidsInv
  <2>3. new = [old EXCEPT ![p] = v]
    BY DEF Maps
  <2> HIDE DEF old, new, n
  <2>4. new \in [1 .. n -> Vid \cup {None}]
    BY <1>1, <2>2, <2>3
  <2>5. new \in Seq(Vid \cup {None}) /\ Len(new) = n
    BY <2>2, <2>4
  <2> QED BY <2>1, <2>5 DEF new, n, old
<1>5. realId' \in [Vid -> Nat]
  BY <1>1, <1>2, <1>3 DEF PidsInv
<1>6. bar' \in 1 .. Len(declared') + 1
  <2>1. Len(declared) \in Nat
    BY DEF ProgramInv
  <2> QED BY <2>1, <1>2 DEF Maps, PidsInv
<1>8. /\ \A q \in Pids : toVirtual'[q] = IF q = p THEN v ELSE toVirtual[q]
      /\ \A w \in Vid : realId'[w] = IF w = v THEN p ELSE realId[w]
  BY <1>1, <1>2 DEF Pids, PidsInv
<1>9. Mapped \subseteq Vid
  BY DEF Mapped, ProgramInv, PidsInv, Range1
<1>10. ASSUME NEW w \in Mapped', w = FinalBarrier \/ consumerCount'[w] > 0
       PROVE  realId'[w] \in Pids' /\ toVirtual'[realId'[w]] = w
  <2>1. CASE w = v
    BY <2>1, <1>1, <1>3, <1>8
  <2>2. CASE w # v
    <3>1. w \in Mapped /\ Needed(w) /\ w \in Vid
      BY <2>2, <1>2, <1>9, <1>10 DEF Needed
    <3>2. realId[w] \in Pids /\ toVirtual[realId[w]] = w /\ w # None
      BY <3>1, Numbers DEF PidsInv
    <3>3. realId[w] # p
      BY <3>2, <1>1
    <3> QED BY <2>2, <3>1, <3>2, <3>3, <1>3, <1>8
  <2> QED BY <2>1, <2>2
<1>11. ASSUME NEW q \in Pids', toVirtual'[q] # None
       PROVE  /\ realId'[toVirtual'[q]] = q
              /\ toVirtual'[q] \in Mapped'
              /\ toVirtual'[q] = FinalBarrier \/ consumerCount'[toVirtual'[q]] > 0
  <2>1. CASE q = p
    BY <2>1, <1>1, <1>2, <1>3, <1>8 DEF Needed
  <2>2. CASE q # p
    <3>1. toVirtual'[q] = toVirtual[q] /\ q \in Pids
      BY <2>2, <1>3, <1>8
    <3>2. realId[toVirtual[q]] = q /\ toVirtual[q] \in Mapped /\ Needed(toVirtual[q])
      BY <3>1, <1>11 DEF PidsInv
    <3>3. toVirtual[q] # v /\ toVirtual[q] \in Vid
      BY <3>2, <1>1, <1>9
    <3> QED BY <3>1, <3>2, <3>3, <1>2, <1>8 DEF Needed
  <2> QED BY <2>1, <2>2
<1>12. Unmapped' = Unmapped \ {p}
  BY <1>1, <1>3, <1>8 DEF Unmapped
<1>13. Active' = Active \cup {v}
  BY <1>1, <1>3, <1>8 DEF Active
<1>14. isDynamicBarriers' =>
          /\ \A w \in Vid : realId'[w] # None => w \in Mapped'
          /\ IsInjective(nextReal')
          /\ Range1(nextReal') = Unmapped'
  <2> SUFFICES ASSUME isDynamicBarriers'
               PROVE  /\ \A w \in Vid : realId'[w] # None => w \in Mapped'
                      /\ IsInjective(nextReal') /\ Range1(nextReal') = Unmapped'
    OBVIOUS
  <2>1. isDynamicBarriers
    BY <1>2 DEF isDynamicBarriers
  <2>2. \A w \in Vid : realId'[w] # None => w \in Mapped'
    BY <2>1, <1>2, <1>8 DEF PidsInv
  <2> QED BY <2>1, <2>2, <1>12 DEF Maps
<1>15. /\ order' \in Seq(Range1(declared')) /\ IsInjective(order')
       /\ IF mode' = "order" THEN Len(order') = bar' - 1 ELSE order' = <<>>
       /\ nextReal' \in Seq(Nat)
  BY <1>2 DEF Maps
<1>16. mode' # "legalize" => Len(toVirtual') = NumPids /\ Len(prevVidOfPhysBar') = NumPids
  BY <1>2, <1>4 DEF PidsInv
<1>17. PidsInv'
  BY <1>4, <1>5, <1>6, <1>10, <1>11, <1>14, <1>15, <1>16 DEF PidsInv, Needed
<1> QED BY <1>1, <1>3, <1>12, <1>13, <1>17

\* Mapping is progress.
LEMMA MapsRound ==
    ASSUME ProgramInv, CountInv, PidsInv, RoundInv, NEW p, NEW v, Maps(p, v), pc = "map"
    PROVE  RoundInv'
<1>1. /\ pc' = "map" /\ progressed' = TRUE /\ fifo' = fifo
      /\ UNCHANGED <<mode, wlmPidProgramming>> /\ p \in Unmapped
  BY DEF Maps, passVars
<1>2. Unmapped' = Unmapped \ {p} /\ Pids' = Pids
  BY MapsPids
<1>3. Len(toVirtual') = Len(toVirtual)
  BY DEF Maps
<1>4. ASSUME Exceeding', ~wlmPidProgramming' PROVE Unmapped' = {}
  <2>1. Exceeding /\ ~wlmPidProgramming /\ Unmapped # {}
    BY <1>1, <1>3, <1>4 DEF Exceeding, barrierLegalizationSim
  <2>2. PICK q \in Pids : Unmapped = {q}
    BY <2>1 DEF RoundInv
  <2> QED BY <2>2, <1>1, <1>2
<1> QED BY <1>1, <1>4 DEF RoundInv

\* Mapping makes a barrier active that is in no batch.
LEMMA MapsBatches ==
    ASSUME ProgramInv, CountInv, PidsInv, BatchInv, NEW p, NEW v, Maps(p, v)
    PROVE  BatchInv'
<1>1. /\ UNCHANGED <<mode, wlmPidProgramming, batches>> /\ v \notin Mapped
      /\ Mapped' = Mapped \cup {v} /\ Active' = Active \cup {v}
  BY MapsPids DEF Maps, passVars
<1>2. BatchesRight'
  BY <1>1 DEF BatchInv, BatchesRight, BatchesDisjoint, BatchesExceed
<1>3. \A i \in DOMAIN batches : batches[i] \subseteq Mapped
  BY DEF BatchInv
<1>4. \A i \in DOMAIN batches : batches[i] \subseteq Mapped'
  BY <1>1, <1>3
<1>5. \A i \in DOMAIN batches : i < Len(batches) => batches[i] \cap Active' = {}
  BY <1>1, <1>3 DEF BatchInv
<1> QED BY <1>1, <1>2, <1>4, <1>5 DEF BatchInv

\* MapBarrier keeps the invariant.
LEMMA MapBarrierKeeps ==
    ASSUME IInv, MapBarrier
    PROVE  IInv'
<1>1. pc = "map"
  BY DEF MapBarrier
<1>2. PICK p, v : Maps(p, v)
  BY MapBarrierMaps DEF IInv
<1> QED BY <1>1, <1>2, MapsProgram, MapsPids, MapsRound, MapsBatches DEF IInv

-----------------------------------------------------------------------------
(* The end of mapping.                                                     *)

\* While the mapping stays, what was said of it does.
LEMMA PidsFrame ==
    ASSUME PidsInv, UNCHANGED <<declared, mode, toVirtual, prevVidOfPhysBar, nextReal,
                                realId, consumerCount, bar, order>>
    PROVE  PidsInv' /\ Pids' = Pids /\ Unmapped' = Unmapped /\ Active' = Active
           /\ Mapped' = Mapped
<1>1. Mapped' = Mapped
  BY DEF Mapped
<1>2. Pids' = Pids /\ Unmapped' = Unmapped /\ Active' = Active
  BY DEF Pids, Unmapped, Active
<1>3. isDynamicBarriers' = isDynamicBarriers
  BY DEF isDynamicBarriers
<1>4. PidsInv'
  BY <1>1, <1>2, <1>3 DEF PidsInv, Needed
<1> QED BY <1>1, <1>2, <1>4

(* With every physical barrier in use, as many barriers are active.        *)
LEMMA AllActive ==
    ASSUME ProgramInv, PidsInv, Unmapped = {}
    PROVE  IsFiniteSet(Active) /\ Cardinality(Active) = Len(toVirtual)
<1> DEFINE n == Len(toVirtual)
<1>1. n \in Nat /\ Pids = 1 .. n
  BY DEF PidsInv, Pids
<1>2. \A p \in Pids : toVirtual[p] # None /\ realId[toVirtual[p]] = p
  BY DEF PidsInv, Unmapped
<1>3. Active = {toVirtual[p] : p \in Pids}
  BY <1>2 DEF Active
<1>4. toVirtual \in [Pids -> Active]
  BY <1>1, <1>3 DEF PidsInv
<1>5. toVirtual \in Surjection(Pids, Active)
  BY <1>3, <1>4 DEF Surjection
<1>6. toVirtual \in Injection(Pids, Active)
  BY <1>2, <1>4 DEF Injection, IsInjective
<1>7. IsFiniteSet(Pids) /\ Cardinality(Pids) = n
  <2> HIDE DEF n
  <2>1. 1 \in Int /\ n \in Int
    BY <1>1
  <2>2. IsFiniteSet(1 .. n) /\ Cardinality(1 .. n) = IF 1 > n THEN 0 ELSE n - 1 + 1
    BY <2>1, FS_Interval
  <2> QED BY <1>1, <2>2
<1>8. /\ IsFiniteSet(Active)
      /\ Cardinality(Active) = Cardinality(Pids)
  BY <1>5, <1>6, <1>7, FS_Surjection
<1> QED BY <1>7, <1>8

\* When barriers are too many and mapping ends, no physical one is free: the error
\* of processSim is never raised.
LEMMA EndMappingNeverThrows ==
    ASSUME ProgramInv, PidsInv, RoundInv, EndMapping, Exceeding, ~wlmPidProgramming
    PROVE  Unmapped = {}
<1> SUFFICES ASSUME Unmapped # {} PROVE FALSE
  OBVIOUS
<1>1. pc = "map" /\ ~CanMap
  BY DEF EndMapping
<1>2. bar <= Len(declared)
  BY <1>1 DEF RoundInv
<1>3. mode = "legalize" /\ isDynamicBarriers
  BY DEF Exceeding, barrierLegalizationSim, isDynamicBarriers
<1>4. ~ \E i \in DOMAIN nextReal : Usable(nextReal[i], declared[bar])
  BY <1>1, <1>2, <1>3 DEF CanMap, isDynamicBarriers
<1>5. \E i \in DOMAIN nextReal : TRUE
  BY <1>3 DEF PidsInv, Range1
<1> QED BY <1>4, <1>5 DEF Usable

(* A batch that is opened or extended with the active barriers stays apart *)
(* from the others.                                                        *)
LEMMA StoredRight ==
    ASSUME ProgramInv, PidsInv, BatchInv, Exceeding, ~wlmPidProgramming => Unmapped = {},
           batches' = WithActiveStored, Mapped' = Mapped, Active' = Active,
           UNCHANGED <<mode, wlmPidProgramming>>
    PROVE  BatchInv'
<1> DEFINE n == Len(batches)
           A == Active
<1>1. A \subseteq Vid /\ A \subseteq Mapped
  <2>1. \A p \in Pids : toVirtual[p] \in Vid \cup {None}
    BY DEF PidsInv, Pids
  <2> QED BY <2>1 DEF PidsInv, Active
<1>2. ~wlmPidProgramming => IsFiniteSet(A) /\ Cardinality(A) > NumPids
  BY AllActive DEF Exceeding
<1>3. /\ n \in Nat /\ DOMAIN batches = 1 .. n /\ batches \in [1 .. n -> SUBSET Vid]
      /\ \A i \in 1 .. n : batches[i] \subseteq Mapped
      /\ \A i \in 1 .. n : i < n => batches[i] \cap A = {}
      /\ \A i, j \in 1 .. n : i # j => batches[i] \cap batches[j] = {}
      /\ ~wlmPidProgramming => \A i \in 1 .. n : Cardinality(batches[i]) > NumPids
  BY LenProperties DEF BatchInv, BatchesRight, BatchesDisjoint, BatchesExceed
<1>4. mode = "legalize"
  BY DEF Exceeding, barrierLegalizationSim
<1>5. CASE isNewBatchNeeded
  <2>1. batches' = Append(batches, A)
    BY <1>5 DEF WithActiveStored
  <2>2. batches = <<>> \/ batches[n] \cap A = {}
    BY <1>5 DEF isNewBatchNeeded, LastBatch
  <2>3. /\ batches' \in Seq(SUBSET Vid) /\ Len(batches') = n + 1
        /\ (\A i \in 1 .. n : batches'[i] = batches[i]) /\ batches'[n + 1] = A
    BY <1>1, <2>1, AppendProperties DEF BatchInv
  <2>4. n > 0 => batches # <<>>
    OBVIOUS
  <2>5. \A i \in 1 .. n : batches[i] \cap A = {}
    BY <1>3, <2>2, <2>4
  <2> HIDE DEF A, n
  <2>6. DOMAIN batches' = 1 .. n + 1 /\ \A i \in 1 .. n + 1 : i \in 1 .. n \/ i = n + 1
    BY <1>3, <2>3
  <2>7. \A i, j \in DOMAIN batches' : i # j => batches'[i] \cap batches'[j] = {}
    BY <1>3, <2>3, <2>5, <2>6
  <2>8. ~wlmPidProgramming => \A i \in DOMAIN batches' : Cardinality(batches'[i]) > NumPids
    BY <1>2, <1>3, <2>3, <2>6
  <2>9. \A i \in DOMAIN batches' : batches'[i] \subseteq Mapped
    BY <1>1, <1>3, <2>3, <2>6
  <2>10. \A i \in DOMAIN batches' : i < Len(batches') => batches'[i] \cap A = {}
    BY <1>3, <2>3, <2>5, <2>6
  <2> QED BY <1>4, <2>3, <2>7, <2>8, <2>9, <2>10
          DEF BatchInv, BatchesRight, BatchesDisjoint, BatchesExceed, A
<1>6. CASE ~isNewBatchNeeded
  <2>1. batches' = [batches EXCEPT ![n] = @ \cup A] /\ batches # <<>>
    BY <1>6 DEF WithActiveStored, isNewBatchNeeded
  <2>2. n \in 1 .. n
    BY <1>3, <2>1
  <2>3. /\ batches' \in Seq(SUBSET Vid) /\ Len(batches') = n
        /\ \A i \in 1 .. n : batches'[i] = IF i = n THEN batches[n] \cup A ELSE batches[i]
    BY <1>1, <1>3, <2>1, <2>2
  <2> HIDE DEF A, n
  <2>4. DOMAIN batches' = 1 .. n
    BY <1>3, <2>3
  <2>5. \A i, j \in 1 .. n : i # j => batches'[i] \cap batches'[j] = {}
    BY <1>3, <2>2, <2>3
  <2>6. ASSUME ~wlmPidProgramming PROVE Cardinality(batches[n] \cup A) > NumPids
    <3>1. IsFiniteSet(batches[n])
      <4>1. IsFiniteSet(Vid)
        BY Numbers, FS_Interval DEF Vid
      <4>2. batches[n] \in SUBSET Vid
        BY <1>3, <2>2
      <4> QED BY <4>1, <4>2, FS_Subset
    <3>2. IsFiniteSet(batches[n] \cup A)
      BY <1>2, <2>6, <3>1, FS_Union
    <3>3. A \in SUBSET (batches[n] \cup A)
      OBVIOUS
    <3>4. Cardinality(A) <= Cardinality(batches[n] \cup A)
      BY <3>2, <3>3, FS_Subset
    <3>5. Cardinality(A) \in Nat /\ Cardinality(batches[n] \cup A) \in Nat
      BY <1>2, <2>6, <3>2, FS_CardinalityType
    <3> QED BY <1>2, <2>6, <3>4, <3>5, Numbers
  <2>7. ~wlmPidProgramming => \A i \in 1 .. n : Cardinality(batches'[i]) > NumPids
    BY <1>3, <2>3, <2>6
  <2>8. \A i \in 1 .. n : batches'[i] \subseteq Mapped
    BY <1>1, <1>3, <2>2, <2>3
  <2>9. \A i \in 1 .. n : i < n => batches'[i] \cap A = {}
    BY <1>3, <2>3
  <2> QED BY <1>4, <2>3, <2>4, <2>5, <2>7, <2>8, <2>9
          DEF BatchInv, BatchesRight, BatchesDisjoint, BatchesExceed, A
<1> QED BY <1>5, <1>6

\* EndMapping keeps the invariant: the batch it adds is one.
LEMMA EndMappingKeeps ==
    ASSUME IInv, EndMapping
    PROVE  IInv'
<1>1. ProgramInv /\ CountInv /\ PidsInv /\ RoundInv /\ BatchInv
  BY DEF IInv
<1>2. Exceeding /\ ~wlmPidProgramming => Unmapped = {}
  BY <1>1, EndMappingNeverThrows
<1>3. /\ pc = "map" /\ ~CanMap /\ pc' = "tasks" /\ fifo' = 1
      /\ batches' = IF Exceeding THEN WithActiveStored ELSE batches
      /\ UNCHANGED <<passVars, toVirtual, prevVidOfPhysBar, nextReal, realId,
                     producerCount, consumerCount, bar, done, progressed, order>>
  BY <1>2 DEF EndMapping
<1>4. PidsInv' /\ Pids' = Pids /\ Unmapped' = Unmapped /\ Active' = Active /\ Mapped' = Mapped
  BY <1>1, <1>3, PidsFrame DEF passVars
<1>5. ProgramInv'
  BY <1>1, <1>3, ProgramFrame
<1>6. CountInv'
  BY <1>1, <1>3, <1>4, CountFrame DEF passVars
<1>7. BatchInv'
  <2>1. CASE Exceeding
    BY <2>1, <1>1, <1>2, <1>3, <1>4, StoredRight DEF passVars
  <2>2. CASE ~Exceeding
    BY <2>2, <1>1, <1>3, <1>4
       DEF passVars, BatchInv, BatchesRight, BatchesDisjoint, BatchesExceed
  <2> QED BY <2>1, <2>2
<1>8. RoundInv'
  <2>1. CanMap' <=> CanMap
    BY <1>3, <1>4 DEF passVars, CanMap, isDynamicBarriers, Usable, Instances
  <2>2. 1 \in Fifo /\ \A f \in Fifo : ~(f < 1)
    BY Numbers DEF Fifo
  <2> QED BY <1>1, <1>3, <2>1, <2>2 DEF RoundInv, passVars
<1> QED BY <1>4, <1>5, <1>6, <1>7, <1>8 DEF IInv

-----------------------------------------------------------------------------
(* The FIFOs.                                                              *)

\* NextFifo keeps the invariant.
LEMMA NextFifoKeeps ==
    ASSUME IInv, NextFifo
    PROVE  IInv'
<1>1. ProgramInv /\ CountInv /\ PidsInv /\ RoundInv /\ BatchInv
  BY DEF IInv
<1>2. /\ pc = "tasks" /\ \A t \in AtHead(fifo) : ~Ready(t)
      /\ IF fifo < NumFifos THEN fifo' = fifo + 1 /\ pc' = pc ELSE pc' = "round" /\ fifo' = fifo
      /\ UNCHANGED <<passVars, toVirtual, prevVidOfPhysBar, nextReal, realId,
                   producerCount, consumerCount, bar, done, progressed, batches, order>>
  BY DEF NextFifo
<1>3. PidsInv' /\ Pids' = Pids /\ Unmapped' = Unmapped /\ Active' = Active /\ Mapped' = Mapped
  BY <1>1, <1>2, PidsFrame DEF passVars
<1>4. ProgramInv'
  BY <1>1, <1>2, ProgramFrame
<1>5. CountInv'
  BY <1>1, <1>2, <1>3, CountFrame DEF passVars
<1>6. BatchInv'
  BY <1>1, <1>2, <1>3 DEF passVars, BatchInv, BatchesRight, BatchesDisjoint, BatchesExceed
<1>7. RoundInv'
  <2>1. CanMap' <=> CanMap
    BY <1>2, <1>3 DEF passVars, CanMap, isDynamicBarriers, Usable, Instances
  <2>2. \A f : AtHead(f)' = AtHead(f)
    BY <1>2 DEF AtHead, passVars
  <2>3. \A t : Ready(t)' <=> Ready(t)
    BY <1>2, <1>3 DEF Ready, isBarrierMapped, isDynamicBarriers, passVars
  <2>4. fifo \in Fifo /\ fifo' \in Fifo
    BY <1>1, <1>2, Numbers DEF RoundInv, Fifo
  <2>5. \A f \in Fifo : pc' = "round" \/ f < fifo' => f < fifo \/ f = fifo
    BY <1>2, <2>4, Numbers DEF Fifo
  <2>6. pc' \in {"tasks", "round"}
    BY <1>2
  <2>7. ~progressed => ~CanMap /\ \A f \in Fifo : f < fifo => \A t \in AtHead(f) : ~Ready(t)
    BY <1>1, <1>2 DEF RoundInv
  <2>8. ~progressed' => \A f \in Fifo : pc' = "round" \/ f < fifo' => \A t \in AtHead(f)' : ~Ready(t)'
    BY <1>2, <2>2, <2>3, <2>5, <2>7
  <2>9. bar' <= Len(declared') \/ done' # Task \/ progressed'
    BY <1>1, <1>2 DEF RoundInv, passVars
  <2> QED BY <1>1, <1>2, <2>1, <2>4, <2>6, <2>7, <2>8, <2>9 DEF RoundInv
<1> QED BY <1>3, <1>4, <1>5, <1>6, <1>7 DEF IInv

\* The task t at the head of its FIFO runs.
Runs(t) ==
    /\ t \in Task \ done /\ Ready(t)
    /\ \A u \in Task \ done : program.fifo[u] = program.fifo[t] => t <= u
    /\ consumerCount' = [v \in Vid |->
           consumerCount[v] - (IF v \in program.waits[t] THEN program.count[t] ELSE 0)]
    /\ producerCount' = [v \in Vid |->
           producerCount[v] - (IF v \in program.posts[t] THEN program.count[t] ELSE 0)]
    /\ toVirtual' = [p \in Pids |-> IF p \in Released(t) THEN None ELSE toVirtual[p]]
    /\ IF isDynamicBarriers
       THEN \E pushed \in Arrangements(Released(t)) : nextReal' = nextReal \o pushed
       ELSE UNCHANGED nextReal
    /\ done' = done \cup {t} /\ progressed' = TRUE
    /\ UNCHANGED <<passVars, prevVidOfPhysBar, realId, bar, fifo, batches, order, pc>>

\* ProcessTask runs the task: its counts suffice.
LEMMA ProcessTaskRuns ==
    ASSUME IInv, ProcessTask
    PROVE  pc = "tasks" /\ \E t : Runs(t)
<1>1. PICK t \in AtHead(fifo) :
        /\ Ready(t)
        /\ IF CountsSuffice(t)
           THEN /\ consumerCount' = [v \in Vid |->
                       consumerCount[v] - (IF v \in program.waits[t] THEN program.count[t] ELSE 0)]
                /\ producerCount' = [v \in Vid |->
                       producerCount[v] - (IF v \in program.posts[t] THEN program.count[t] ELSE 0)]
                /\ toVirtual' = [p \in Pids |->
                       IF p \in Released(t) THEN None ELSE toVirtual[p]]
                /\ IF isDynamicBarriers
                   THEN \E pushed \in Arrangements(Released(t)) : nextReal' = nextReal \o pushed
                   ELSE UNCHANGED nextReal
                /\ done' = done \cup {t}
                /\ progressed' = TRUE
                /\ UNCHANGED pc
           ELSE /\ pc' = "failed"
                /\ UNCHANGED <<consumerCount, producerCount, toVirtual, nextReal, done, progressed>>
  BY DEF ProcessTask
<1>2. t \in Task \ done /\ \A u \in Task \ done : program.fifo[u] = program.fifo[t] => t <= u
  BY DEF AtHead
<1>3. CountsSuffice(t)
  BY <1>1, <1>2, NeverFails DEF IInv
<1>4. UNCHANGED <<passVars, prevVidOfPhysBar, realId, bar, fifo, batches, order>>
  BY DEF ProcessTask
<1>5. Runs(t)
  BY <1>1, <1>2, <1>3, <1>4 DEF Runs
<1> QED BY <1>5 DEF ProcessTask

\* A task that runs takes its own slots from the counts of its barriers.
LEMMA RunsCount ==
    ASSUME ProgramInv, CountInv, PidsInv, NEW t, Runs(t)
    PROVE  CountInv' /\ Mapped' = Mapped
<1>1. IsProgram(program) /\ t \in Task /\ t \notin done
  BY DEF ProgramInv, Sound, Runs
<1>2. /\ program' = program /\ done' = done \cup {t}
      /\ UNCHANGED <<mode, declared, order, bar>>
  BY DEF Runs, passVars
<1>3. Mapped' = Mapped
  BY <1>2 DEF Mapped
<1>4. done' \subseteq Task
  BY <1>1, <1>2 DEF CountInv
<1>5. ASSUME NEW v \in Vid
      PROVE  producerCount'[v] = SlotCount(program, Producers(program, v) \ done')
  <2> DEFINE P == Producers(program, v) \ done
  <2>1. producerCount[v] = SlotCount(program, P)
    BY DEF CountInv
  <2>2. producerCount'[v] =
            producerCount[v] - (IF v \in program.posts[t] THEN program.count[t] ELSE 0)
    BY DEF Runs
  <2>3. P \in SUBSET Task
    BY DEF Producers
  <2>4. CASE v \in program.posts[t]
    <3>1. t \in P
      BY <1>1, <2>4 DEF Producers
    <3>2. Producers(program, v) \ done' = P \ {t}
      BY <1>2
    <3> HIDE DEF P
    <3>3. SlotCount(program, P \ {t}) = SlotCount(program, P) - program.count[t]
      BY <1>1, <2>3, <3>1, SlotCountRemove
    <3> QED BY <2>1, <2>2, <2>4, <3>2, <3>3
  <2>5. CASE v \notin program.posts[t]
    <3>1. Producers(program, v) \ done' = P
      BY <1>2, <2>5 DEF Producers
    <3> HIDE DEF P
    <3>2. SlotCount(program, P) \in Nat
      BY <1>1, <2>3, SlotsFinite
    <3> QED BY <2>1, <2>2, <2>5, <3>1, <3>2
  <2> QED BY <2>4, <2>5
<1>6. ASSUME NEW v \in Vid
      PROVE  consumerCount'[v] = SlotCount(program, Consumers(program, v) \ done')
  <2> DEFINE C == Consumers(program, v) \ done
  <2>1. consumerCount[v] = SlotCount(program, C)
    BY DEF CountInv
  <2>2. consumerCount'[v] =
            consumerCount[v] - (IF v \in program.waits[t] THEN program.count[t] ELSE 0)
    BY DEF Runs
  <2>3. C \in SUBSET Task
    BY DEF Consumers
  <2>4. CASE v \in program.waits[t]
    <3>1. t \in C
      BY <1>1, <2>4 DEF Consumers
    <3>2. Consumers(program, v) \ done' = C \ {t}
      BY <1>2
    <3> HIDE DEF C
    <3>3. SlotCount(program, C \ {t}) = SlotCount(program, C) - program.count[t]
      BY <1>1, <2>3, <3>1, SlotCountRemove
    <3> QED BY <2>1, <2>2, <2>4, <3>2, <3>3
  <2>5. CASE v \notin program.waits[t]
    <3>1. Consumers(program, v) \ done' = C
      BY <1>2, <2>5 DEF Consumers
    <3> HIDE DEF C
    <3>2. SlotCount(program, C) \in Nat
      BY <1>1, <2>3, SlotsFinite
    <3> QED BY <2>1, <2>2, <2>5, <3>1, <3>2
  <2> QED BY <2>4, <2>5
<1>7. /\ producerCount' = [v \in Vid |-> SlotCount(program, Producers(program, v) \ done')]
      /\ consumerCount' = [v \in Vid |-> SlotCount(program, Consumers(program, v) \ done')]
  <2>1. /\ producerCount' = [v \in Vid |-> producerCount'[v]]
        /\ consumerCount' = [v \in Vid |-> consumerCount'[v]]
    BY DEF Runs
  <2> QED BY <1>5, <1>6, <2>1
<1>8. ASSUME NEW u \in done', NEW x \in Task, x < u, program.fifo[x] = program.fifo[u]
      PROVE  x \in done'
  <2>1. CASE u \in done
    BY <2>1, <1>2, <1>8 DEF CountInv
  <2>2. CASE u = t
    <3>1. x \in Nat /\ t \in Nat
      BY <1>1, Numbers
    <3>2. x \notin Task \ done
      BY <2>2, <1>8, <3>1 DEF Runs
    <3> QED BY <3>2, <1>2
  <2> QED BY <2>1, <2>2, <1>2
<1>9. ASSUME NEW u \in done'
      PROVE  /\ \A v \in program.waits[u] : Producers(program, v) \subseteq done'
             /\ program.waits[u] \cup program.posts[u] \subseteq Mapped'
  <2>1. CASE u \in done
    BY <2>1, <1>2, <1>3 DEF CountInv
  <2>2. CASE u = t
    <3>1. Ready(t) /\ t \in Task \ done
      BY DEF Runs
    <3>2. /\ \A v \in program.waits[t] : Producers(program, v) \subseteq done
          /\ \A v \in program.waits[t] \cup program.posts[t] : v \in Mapped
      BY <3>1, ReadyMapped
    <3> QED BY <2>2, <3>2, <1>2, <1>3
  <2> QED BY <2>1, <2>2, <1>2
<1> QED BY <1>2, <1>3, <1>4, <1>7, <1>8, <1>9 DEF CountInv

\* A task that runs frees the physical barriers whose last consumer it is.
LEMMA RunsPids ==
    ASSUME ProgramInv, CountInv, PidsInv, NEW t, Runs(t)
    PROVE  PidsInv' /\ Pids' = Pids /\ Active' \subseteq Active
<1>1. t \in Task \ done /\ Ready(t)
  BY DEF Runs
<1>2. /\ UNCHANGED <<mode, declared, order, bar, realId, prevVidOfPhysBar>>
      /\ toVirtual' = [p \in Pids |-> IF p \in Released(t) THEN None ELSE toVirtual[p]]
  BY DEF Runs, passVars
<1>3. Mapped' = Mapped /\ CountInv' /\ ProgramInv'
  <2>1. UNCHANGED passVars
    BY DEF Runs
  <2> QED BY <2>1, RunsCount, ProgramFrame
<1>4. Pids' = Pids
  BY <1>2 DEF Pids
<1>5. /\ Len(toVirtual) \in Nat /\ Pids = 1 .. Len(toVirtual)
      /\ \A p \in Pids : toVirtual[p] \in Vid \cup {None}
  BY DEF PidsInv, Pids
<1>6. toVirtual' \in Seq(Vid \cup {None}) /\ Len(toVirtual') = Len(toVirtual)
  <2>1. toVirtual' \in [1 .. Len(toVirtual) -> Vid \cup {None}]
    BY <1>2, <1>5
  <2> QED BY <2>1, <1>5
<1>7. Mapped \subseteq Vid
  BY DEF Mapped, ProgramInv, PidsInv, Range1
<1>8. \A v \in program.waits[t] : /\ v \in Vid /\ v # None /\ v # FinalBarrier
                                  /\ realId[v] \in Pids /\ toVirtual[realId[v]] = v
  <2> TAKE v \in program.waits[t]
  <2>1. v \in Vid /\ v # None
    BY <1>1, UndoneNeeds, Numbers
  <2>2. v # FinalBarrier
    BY <1>1 DEF ProgramInv
  <2> QED BY <1>1, <2>1, <2>2, ReadyMapped
<1>9. \A v \in Vid : /\ consumerCount[v] \in Nat /\ consumerCount'[v] \in Nat
                     /\ consumerCount'[v] =
                          consumerCount[v] - (IF v \in program.waits[t] THEN program.count[t] ELSE 0)
  <2>1. \A v \in Vid : consumerCount[v] \in Nat
    BY CountsAre
  <2>2. (\A v \in Vid : consumerCount[v] \in Nat)'
    <3>1. ASSUME NEW v \in Vid PROVE consumerCount'[v] \in Nat
      <4>1. IsProgram(program') /\ (Consumers(program, v) \ done)' \in SUBSET Task
        BY <1>3 DEF ProgramInv, Sound, Consumers
      <4>2. consumerCount'[v] = SlotCount(program', Consumers(program', v) \ done')
        BY <1>3 DEF CountInv
      <4> QED BY <4>1, <4>2, SlotsFinite
    <3> QED BY <3>1
  <2> QED BY <2>1, <2>2 DEF Runs
<1>10. program.count[t] \in Nat \ {0}
  BY <1>1, BarriersOf
(* What is given back is what t has consumed as the last one. *)
<1>11. \A p \in Released(t) :
          \E v \in program.waits[t] :
              p = realId[v] /\ p \in Pids /\ toVirtual[p] = v /\ consumerCount'[v] = 0 /\ v # FinalBarrier
  <2> TAKE p \in Released(t)
  <2>1. PICK v \in program.waits[t] : p = realId[v] /\ consumerCount[v] = program.count[t]
    BY DEF Released
  <2>2. consumerCount'[v] = 0
    BY <2>1, <1>8, <1>9, <1>10
  <2> QED BY <2>1, <2>2, <1>8
<1>12. \A p \in Pids : toVirtual'[p] = IF p \in Released(t) THEN None ELSE toVirtual[p]
  BY <1>2
<1>13. ASSUME NEW v \in Mapped', v = FinalBarrier \/ consumerCount'[v] > 0
       PROVE  realId'[v] \in Pids' /\ toVirtual'[realId'[v]] = v
  <2>1. v \in Mapped /\ v \in Vid
    BY <1>3, <1>7, <1>13
  <2>2. Needed(v)
    BY <2>1, <1>9, <1>10, <1>13 DEF Needed
  <2>3. realId[v] \in Pids /\ toVirtual[realId[v]] = v
    BY <2>1, <2>2 DEF PidsInv
  <2>4. realId[v] \notin Released(t)
    BY <2>3, <1>11, <1>13
  <2> QED BY <2>3, <2>4, <1>2, <1>4, <1>12
<1>14. ASSUME NEW p \in Pids', toVirtual'[p] # None
       PROVE  /\ realId'[toVirtual'[p]] = p
              /\ toVirtual'[p] \in Mapped'
              /\ toVirtual'[p] = FinalBarrier \/ consumerCount'[toVirtual'[p]] > 0
  <2> DEFINE v == toVirtual[p]
  <2>1. p \in Pids /\ p \notin Released(t) /\ toVirtual'[p] = v
    BY <1>4, <1>12, <1>14
  <2>2. realId[v] = p /\ v \in Mapped /\ Needed(v) /\ v \in Vid
    BY <2>1, <1>7, <1>14 DEF PidsInv
  <2>3. ASSUME v # FinalBarrier, ~(consumerCount'[v] > 0) PROVE FALSE
    <3>1. consumerCount[v] > 0 /\ consumerCount'[v] = 0
      BY <2>2, <2>3, <1>9 DEF Needed
    <3>2. v \in program.waits[t] /\ consumerCount[v] = program.count[t]
      BY <2>2, <3>1, <1>9, <1>10
    <3>3. p \in Released(t)
      BY <2>2, <3>2 DEF Released
    <3> QED BY <2>1, <3>3
  <2> QED BY <2>1, <2>2, <2>3, <1>2, <1>3
<1>15. Active' \subseteq Active
  BY <1>4, <1>12 DEF Active
<1>16. Unmapped' = Unmapped \cup Released(t) /\ Unmapped \cap Released(t) = {}
  <2>1. \A p \in Released(t) : p \in Pids /\ toVirtual[p] # None
    BY <1>8, <1>11
  <2> QED BY <2>1, <1>4, <1>12 DEF Unmapped
<1>17. nextReal' \in Seq(Nat) /\
       (isDynamicBarriers' =>
          /\ \A v \in Vid : realId'[v] # None => v \in Mapped'
          /\ IsInjective(nextReal')
          /\ Range1(nextReal') = Unmapped')
  <2>1. isDynamicBarriers' = isDynamicBarriers
    BY <1>2 DEF isDynamicBarriers
  <2>2. CASE ~isDynamicBarriers
    BY <2>1, <2>2 DEF Runs, PidsInv
  <2>3. CASE isDynamicBarriers
    <3>1. PICK pushed \in Arrangements(Released(t)) : nextReal' = nextReal \o pushed
      BY <2>3 DEF Runs
    <3>2. Released(t) \in SUBSET Pids
      BY <1>11
    <3>3. IsFiniteSet(Released(t)) /\ Released(t) \in SUBSET Nat
      <4>1. 1 \in Int /\ Len(toVirtual) \in Int
        BY <1>5
      <4>2. IsFiniteSet(Pids)
        BY <4>1, <1>5, FS_Interval
      <4>3. Pids \subseteq Nat
        BY <1>5
      <4> QED BY <3>2, <4>2, <4>3, FS_Subset
    <3>4. pushed \in Seq(Nat) /\ IsInjective(pushed) /\ Range1(pushed) = Released(t)
      BY <3>3, ArrangementsRight
    <3>5. nextReal \in Seq(Nat) /\ IsInjective(nextReal) /\ Range1(nextReal) = Unmapped
      BY <2>3 DEF PidsInv
    <3>6. /\ nextReal \o pushed \in Seq(Nat) /\ IsInjective(nextReal \o pushed)
          /\ Range1(nextReal \o pushed) = Range1(nextReal) \cup Range1(pushed)
      BY ONLY <3>4, <3>5, <1>16, ConcatInjective
    <3>7. \A v \in Vid : realId'[v] # None => v \in Mapped'
      BY <2>3, <1>2, <1>3 DEF PidsInv
    <3> QED BY <3>1, <3>4, <3>5, <3>6, <3>7, <1>16
  <2> QED BY <2>2, <2>3
<1>18. PidsInv'
  BY <1>2, <1>6, <1>13, <1>14, <1>17 DEF PidsInv, Needed
<1> QED BY <1>4, <1>15, <1>18

\* ProcessTask keeps the invariant.
LEMMA ProcessTaskKeeps ==
    ASSUME IInv, ProcessTask
    PROVE  IInv'
<1>1. ProgramInv /\ CountInv /\ PidsInv /\ RoundInv /\ BatchInv /\ pc = "tasks"
  BY ProcessTaskRuns DEF IInv
<1>2. PICK t : Runs(t)
  BY ProcessTaskRuns
<1>3. /\ UNCHANGED <<passVars, fifo, batches, pc>> /\ progressed' = TRUE
  BY <1>2 DEF Runs
<1>4. CountInv' /\ Mapped' = Mapped /\ PidsInv' /\ Active' \subseteq Active
  BY <1>1, <1>2, RunsCount, RunsPids
<1>5. ProgramInv'
  BY <1>1, <1>3, ProgramFrame
<1>6. RoundInv'
  BY <1>1, <1>3 DEF RoundInv
<1>7. BatchInv'
  BY <1>1, <1>3, <1>4 DEF passVars, BatchInv, BatchesRight, BatchesDisjoint, BatchesExceed
<1> QED BY <1>4, <1>5, <1>6, <1>7 DEF IInv

-----------------------------------------------------------------------------
(* The end of a round.                                                     *)

\* Where the entry at p is once those at R are erased.
Moved(R, p) == p - Cardinality({q \in R : q < p})

\* Erasing entries leaves a sequence.
LEMMA WithoutIsSeq ==
    ASSUME NEW S, NEW s \in Seq(S), NEW R
    PROVE  /\ Without(s, R) \in Seq(S)
           /\ Len(Without(s, R)) = Cardinality(DOMAIN s \ R)
           /\ IsFiniteSet(DOMAIN s \ R) /\ DOMAIN s \ R \in SUBSET Nat
<1> DEFINE D == DOMAIN s \ R
           kept == Increasing(D)
           c == Cardinality(D)
<1>1. Len(s) \in Nat /\ DOMAIN s = 1 .. Len(s) /\ \A i \in DOMAIN s : s[i] \in S
  BY LenProperties
<1>2. IsFiniteSet(DOMAIN s)
  <2>1. 1 \in Int /\ Len(s) \in Int
    BY <1>1
  <2> QED BY <1>1, <2>1, FS_Interval
<1>3. D \in SUBSET DOMAIN s /\ D \in SUBSET Nat
  BY <1>1
<1>4. IsFiniteSet(D)
  BY <1>2, <1>3, FS_Subset
<1> HIDE DEF D
<1>5. c \in Nat /\ DOMAIN kept = 1 .. c /\ \A i \in 1 .. c : kept[i] \in D
  BY <1>3, <1>4, IncreasingOrders
<1>6. Without(s, R) = [i \in 1 .. c |-> s[kept[i]]]
  BY <1>5 DEF Without, D
<1> HIDE DEF kept, c
<1>7. Without(s, R) \in [1 .. c -> S]
  BY <1>1, <1>3, <1>5, <1>6
<1>8. Without(s, R) \in Seq(S) /\ Len(Without(s, R)) = c
  BY <1>5, <1>7
<1> QED BY <1>3, <1>4, <1>8 DEF c, D

(* Erasing entries keeps the others, in their order.                       *)
LEMMA WithoutRight ==
    ASSUME NEW S, NEW s \in Seq(S), NEW R \in SUBSET DOMAIN s
    PROVE  /\ \A p \in DOMAIN s \ R :
                  Moved(R, p) \in DOMAIN Without(s, R) /\ Without(s, R)[Moved(R, p)] = s[p]
           /\ \A q \in DOMAIN Without(s, R) : \E p \in DOMAIN s \ R :
                  q = Moved(R, p) /\ Without(s, R)[q] = s[p]
<1> DEFINE D == DOMAIN s \ R
           kept == Increasing(D)
           c == Cardinality(D)
           w == Without(s, R)
<1>1. Len(s) \in Nat /\ DOMAIN s = 1 .. Len(s)
  OBVIOUS
<1>2. IsFiniteSet(D) /\ D \in SUBSET Nat
  BY WithoutIsSeq
<1>3. \A p \in D : Rank(D, p) + 1 = Moved(R, p)
  <2> SUFFICES ASSUME NEW p \in D PROVE Rank(D, p) + 1 = Moved(R, p)
    OBVIOUS
  <2> DEFINE A == {z \in D : z < p}
             B == {z \in R : z < p}
  <2>1. p \in Nat /\ 1 <= p /\ p <= Len(s)
    BY <1>1
  <2>2. A \cup B = 1 .. p - 1 /\ A \cap B = {}
    <3>1. \A z \in 1 .. p - 1 : z \in DOMAIN s /\ z < p
      BY <1>1, <2>1
    <3>2. \A z \in DOMAIN s : z < p => z \in 1 .. p - 1
      BY <1>1, <2>1
    <3> QED BY <3>1, <3>2
  <2>3. IsFiniteSet(1 .. p - 1) /\ Cardinality(1 .. p - 1) = p - 1
    <3> DEFINE m == p - 1
    <3>1. 1 \in Int /\ m \in Int /\ (IF 1 > m THEN 0 ELSE m - 1 + 1) = m
      BY <2>1
    <3> HIDE DEF m
    <3>2. IsFiniteSet(1 .. m) /\ Cardinality(1 .. m) = IF 1 > m THEN 0 ELSE m - 1 + 1
      BY <3>1, FS_Interval
    <3>3. IsFiniteSet(1 .. m) /\ Cardinality(1 .. m) = m
      BY <3>1, <3>2
    <3> QED BY <3>3 DEF m
  <2>4. A \in SUBSET (1 .. p - 1) /\ B \in SUBSET (1 .. p - 1)
    BY <2>2
  <2>5. Rank(D, p) = Cardinality(A) /\ Moved(R, p) = p - Cardinality(B)
    BY DEF Rank, Moved
  <2> HIDE DEF A, B, D
  <2>6. IsFiniteSet(A) /\ IsFiniteSet(B)
    BY <2>3, <2>4, FS_Subset
  <2>7. Cardinality(A \cup B) = Cardinality(A) + Cardinality(B) - Cardinality(A \cap B)
    BY <2>6, FS_Union
  <2>8. Cardinality(A) \in Nat /\ Cardinality(B) \in Nat /\ Cardinality(A \cap B) = 0
    BY <2>2, <2>6, FS_CardinalityType, FS_EmptySet
  <2>a. Cardinality(A \cup B) = Cardinality(1 .. p - 1)
    BY <2>2
  <2>9. p - 1 = Cardinality(A) + Cardinality(B)
    BY ONLY <2>a, <2>1, <2>3, <2>7, <2>8
  <2> QED BY <2>1, <2>5, <2>8, <2>9
<1> HIDE DEF D
<1>4. /\ c \in Nat /\ DOMAIN kept = 1 .. c
      /\ \A i \in 1 .. c : kept[i] \in D /\ Rank(D, kept[i]) = i - 1
      /\ \A x \in D : Rank(D, x) + 1 \in 1 .. c /\ kept[Rank(D, x) + 1] = x
  BY <1>2, IncreasingOrders
<1>5. w = [i \in 1 .. c |-> s[kept[i]]]
  BY <1>4 DEF Without, D
<1> HIDE DEF kept, c, w
<1>6. \A p \in D : Moved(R, p) \in DOMAIN w /\ w[Moved(R, p)] = s[p]
  <2> TAKE p \in D
  <2> DEFINE i == Rank(D, p) + 1
  <2>1. i \in 1 .. c /\ kept[i] = p /\ i = Moved(R, p)
    BY <1>3, <1>4
  <2> HIDE DEF i
  <2> QED BY <2>1, <1>5
<1>7. \A q \in DOMAIN w : \E p \in D : q = Moved(R, p) /\ w[q] = s[p]
  <2> TAKE q \in DOMAIN w
  <2>1. q \in 1 .. c /\ q \in Nat
    BY <1>4, <1>5
  <2>2. kept[q] \in D /\ Rank(D, kept[q]) = q - 1
    BY <1>4, <2>1
  <2>3. Moved(R, kept[q]) = q
    BY <2>1, <2>2, <1>3
  <2> QED BY <2>1, <2>2, <2>3, <1>5
<1> QED BY <1>6, <1>7 DEF w, D

(* A legalization that changed nothing in a round has a barrier left to    *)
(* map, and without _wlmPidProgramming no physical barrier for it.         *)
LEMMA StuckRound ==
    ASSUME IInv, pc = "round", ~progressed, mode = "legalize"
    PROVE  bar <= Len(declared) /\ (~wlmPidProgramming => Unmapped = {})
<1>1. ProgramInv /\ CountInv /\ PidsInv /\ RoundInv
  BY DEF IInv
<1>2. ~CanMap /\ (bar <= Len(declared) \/ done # Task)
      /\ \A f \in Fifo : \A t \in AtHead(f) : ~Ready(t)
  BY <1>1 DEF RoundInv
<1>3. Len(declared) \in Nat /\ bar \in Nat
  BY <1>1 DEF ProgramInv, PidsInv
<1>4. bar <= Len(declared)
  <2> SUFFICES ASSUME ~(bar <= Len(declared)) PROVE FALSE
    OBVIOUS
  <2>1. bar > Len(declared) /\ done # Task
    BY <1>2, <1>3
  <2> QED BY <1>1, <1>2, <2>1, LeastUndoneReady
<1>5. ASSUME ~wlmPidProgramming, Unmapped # {} PROVE FALSE
  <2>1. ~ \E i \in DOMAIN nextReal : Usable(nextReal[i], declared[bar])
    BY <1>2, <1>4 DEF CanMap, isDynamicBarriers
  <2>2. \E i \in DOMAIN nextReal : TRUE
    BY <1>1, <1>5 DEF PidsInv, Range1, isDynamicBarriers
  <2> QED BY <1>5, <2>1, <2>2 DEF Usable
<1> QED BY <1>4, <1>5

\* What Grow, Shrink and Continue have in common.
RoundEnds ==
    /\ pc = "round" /\ Loop
    /\ UNCHANGED <<passVars, producerCount, consumerCount, bar, done, fifo, batches, order>>

\* The end of a round leaves the function, the counts and the batches as they are.
LEMMA RoundEndsKeeps ==
    ASSUME IInv, RoundEnds
    PROVE  /\ ProgramInv' /\ CountInv' /\ Mapped' = Mapped
           /\ (Active' \subseteq Active => BatchInv')
           /\ (pc' = "map" /\ Exceeding' /\ ~wlmPidProgramming /\ Unmapped' # {}
                  => bar <= Len(declared) /\ \E p \in Pids' : Unmapped' = {p}) => RoundInv'
<1>1. ProgramInv /\ CountInv /\ PidsInv /\ RoundInv /\ BatchInv
  BY DEF IInv
<1>2. UNCHANGED passVars /\ UNCHANGED <<mode, declared, wlmPidProgramming, program>>
  BY DEF RoundEnds, passVars
<1>3. UNCHANGED <<producerCount, consumerCount, bar, done, fifo, batches, order>>
  BY DEF RoundEnds
<1>4. Mapped' = Mapped
  BY <1>2, <1>3 DEF Mapped
<1>5. ProgramInv' /\ CountInv'
  BY <1>1, <1>2, <1>3, <1>4, ProgramFrame, CountFrame
<1>6. Active' \subseteq Active => BatchInv'
  BY <1>1, <1>2, <1>3, <1>4 DEF BatchInv, BatchesRight, BatchesDisjoint, BatchesExceed
<1>7. ASSUME pc' = "map" /\ Exceeding' /\ ~wlmPidProgramming /\ Unmapped' # {}
                 => bar <= Len(declared) /\ \E p \in Pids' : Unmapped' = {p}
      PROVE  RoundInv'
  <2>1. /\ progressed' = FALSE
        /\ pc' = IF bar <= Len(declared) \/ done # Task THEN "map"
                 ELSE IF batches # <<>> THEN "batches" ELSE "success"
    BY DEF RoundEnds, Loop
  <2>2. Len(declared) \in Nat /\ bar \in 1 .. Len(declared) + 1
    BY <1>1 DEF ProgramInv, PidsInv
  <2>3. pc' = "success" => done' = Task /\ bar' = Len(declared') + 1
    BY <2>1, <2>2, <1>2, <1>3
  <2>4. pc' \in {"map", "success", "batches"}
    BY <2>1
  <2>5. pc' = "map" => bar' <= Len(declared') \/ done' # Task
    BY <2>1, <1>2, <1>3
  <2> QED BY <1>1, <1>2, <1>3, <1>7, <2>1, <2>3, <2>4, <2>5 DEF RoundInv
<1> QED BY <1>4, <1>5, <1>6, <1>7

\* Going on with another round keeps the invariant.
LEMMA ContinueKeeps ==
    ASSUME IInv, RoundEnds, Continue
    PROVE  IInv'
<1>1. ProgramInv /\ CountInv /\ PidsInv /\ RoundInv /\ BatchInv
  BY DEF IInv
<1>2. UNCHANGED <<toVirtual, prevVidOfPhysBar, nextReal, realId>> /\ (~Exceeding \/ Unmapped = {})
  BY DEF Continue
<1>3. UNCHANGED <<declared, mode, consumerCount, bar, order>>
  BY DEF RoundEnds, passVars
<1>4. PidsInv' /\ Unmapped' = Unmapped /\ Active' = Active
  BY <1>1, <1>2, <1>3, PidsFrame
<1>5. Exceeding' => Exceeding
  BY <1>2, <1>3 DEF Exceeding, barrierLegalizationSim
<1> QED BY <1>2, <1>4, <1>5, RoundEndsKeeps DEF IInv

\* One more physical barrier keeps the invariant.
LEMMA GrowKeeps ==
    ASSUME IInv, RoundEnds, Grow
    PROVE  IInv'
<1>1. ProgramInv /\ CountInv /\ PidsInv /\ RoundInv /\ BatchInv
  BY DEF IInv
<1>2. /\ ~progressed /\ mode = "legalize" /\ pc = "round"
      /\ wlmPidProgramming \/ Unmapped = {}
      /\ toVirtual' = Append(toVirtual, None)
      /\ prevVidOfPhysBar' = Append(prevVidOfPhysBar, None)
      /\ nextReal' = FreeOf(toVirtual') /\ realId' = realId
  BY DEF Grow, RoundEnds, barrierLegalizationSim
<1>3. UNCHANGED <<declared, mode, consumerCount, bar, order>>
  BY DEF RoundEnds, passVars
<1>4. bar <= Len(declared)
  BY <1>2, StuckRound
<1> DEFINE n == Len(toVirtual)
<1>5. n \in Nat /\ Pids = 1 .. n
  BY <1>1 DEF PidsInv, Pids
<1>6. None \in Vid \cup {None}
  OBVIOUS
<1>7. /\ toVirtual' \in Seq(Vid \cup {None}) /\ Len(toVirtual') = n + 1
      /\ \A p \in 1 .. n : toVirtual'[p] = toVirtual[p]
      /\ toVirtual'[n + 1] = None
  BY <1>1, <1>2, <1>6, AppendProperties DEF PidsInv
<1>8. Pids' = 1 .. n + 1
  BY <1>5, <1>7 DEF Pids
<1>9. prevVidOfPhysBar' \in Seq(Vid \cup {None})
  BY <1>1, <1>2, <1>6, AppendProperties DEF PidsInv
<1>10. /\ nextReal' \in Seq(Nat) /\ IsInjective(nextReal')
       /\ Range1(nextReal') = Unmapped'
  <2>1. /\ FreeOf(toVirtual') \in Seq(Nat) /\ IsInjective(FreeOf(toVirtual'))
        /\ Range1(FreeOf(toVirtual')) = {p \in DOMAIN toVirtual' : toVirtual'[p] = None}
    BY <1>7, FreeOfRight
  <2> QED BY <1>2, <2>1 DEF Unmapped, Pids
<1>11. Mapped' = Mapped
  BY RoundEndsKeeps
<1> HIDE DEF n
<1>12. \A p \in 1 .. n + 1 : p \in 1 .. n \/ p = n + 1
  BY <1>5
<1>13. ASSUME NEW v \in Mapped', v = FinalBarrier \/ consumerCount'[v] > 0
       PROVE  realId'[v] \in Pids' /\ toVirtual'[realId'[v]] = v
  <2>1. realId[v] \in Pids /\ toVirtual[realId[v]] = v
    BY <1>1, <1>3, <1>11, <1>13 DEF PidsInv, Needed
  <2>2. realId[v] \in 1 .. n + 1
    BY <2>1, <1>5
  <2> QED BY <2>1, <2>2, <1>2, <1>5, <1>7, <1>8
<1>14. ASSUME NEW p \in Pids', toVirtual'[p] # None
       PROVE  /\ realId'[toVirtual'[p]] = p
              /\ toVirtual'[p] \in Mapped'
              /\ toVirtual'[p] = FinalBarrier \/ consumerCount'[toVirtual'[p]] > 0
  <2>1. p \in Pids /\ toVirtual'[p] = toVirtual[p]
    BY <1>5, <1>7, <1>8, <1>12, <1>14
  <2> QED BY <2>1, <1>1, <1>2, <1>3, <1>11, <1>14 DEF PidsInv, Needed
<1>15. PidsInv'
  BY <1>1, <1>2, <1>3, <1>7, <1>9, <1>10, <1>11, <1>13, <1>14 DEF PidsInv, Needed, isDynamicBarriers
<1>16. Active' \subseteq Active
  BY <1>5, <1>7, <1>8, <1>12 DEF Active
<1>17. ~wlmPidProgramming => \E p \in Pids' : Unmapped' = {p}
  <2>1. n + 1 \in Pids' /\ toVirtual'[n + 1] = None
    BY <1>5, <1>7, <1>8
  <2>2. ASSUME NEW p \in Pids', toVirtual'[p] = None, ~wlmPidProgramming PROVE p = n + 1
    <3>1. \A q \in 1 .. n : toVirtual[q] # None
      BY <1>2, <1>5, <2>2 DEF Unmapped
    <3> QED BY <3>1, <1>7, <1>8, <1>12, <2>2
  <2> QED BY <2>1, <2>2 DEF Unmapped
<1> QED BY <1>4, <1>15, <1>16, <1>17, RoundEndsKeeps DEF IInv

(* As many physical barriers are erased as there are too many, unless all  *)
(* the free ones are.                                                      *)
LEMMA ShrinksEnough ==
    ASSUME ProgramInv, PidsInv, Exceeding, Removed # Unmapped
    PROVE  Cardinality(DOMAIN toVirtual \ Removed) <= NumPids
<1> DEFINE n == Len(toVirtual)
           k == n - NumPids
           U == Unmapped
           R == Removed
           s == Increasing(U)
<1>1. n \in Nat /\ Pids = 1 .. n /\ n > NumPids /\ NumPids \in Nat /\ k \in Nat
  BY Numbers DEF PidsInv, Pids, Exceeding
<1>2. U \in SUBSET Pids /\ R \in SUBSET U
  BY DEF Unmapped, Removed
<1>3. \A p \in U : p \in R <=> Rank(U, p) < k
  BY DEF Removed, Rank
<1>4. IsFiniteSet(Pids) /\ Cardinality(Pids) = n
  <2> HIDE DEF n
  <2>1. 1 \in Int /\ n \in Int /\ (IF 1 > n THEN 0 ELSE n - 1 + 1) = n
    BY <1>1
  <2>2. IsFiniteSet(1 .. n) /\ Cardinality(1 .. n) = IF 1 > n THEN 0 ELSE n - 1 + 1
    BY <2>1, FS_Interval
  <2> QED BY <1>1, <2>1, <2>2
<1>5. PICK p \in U : p \notin R
  BY <1>2
<1> HIDE DEF U, R
<1>6. IsFiniteSet(U) /\ U \in SUBSET Nat
  <2>1. Pids \subseteq Nat
    BY <1>1
  <2> QED BY <2>1, <1>2, <1>4, FS_Subset
<1>7. Rank(U, p) \in Nat /\ Rank(U, p) < Cardinality(U) /\ Cardinality(U) \in Nat /\ ~(Rank(U, p) < k)
  BY <1>3, <1>5, <1>6, RankType
<1>8. /\ DOMAIN s = 1 .. Cardinality(U)
      /\ \A i \in 1 .. Cardinality(U) : s[i] \in U /\ Rank(U, s[i]) = i - 1
      /\ \A i, j \in 1 .. Cardinality(U) : s[i] = s[j] => i = j
  BY <1>6, IncreasingOrders
<1> HIDE DEF s
<1> DEFINE f == [i \in 1 .. k |-> s[i]]
<1>9. \A i \in 1 .. k : i \in 1 .. Cardinality(U) /\ i - 1 < k /\ i \in Nat
  <2> HIDE DEF k
  <2> QED BY <1>1, <1>7
<1>10. \A i \in 1 .. k : s[i] \in R
  BY <1>3, <1>8, <1>9
<1>11. f \in [1 .. k -> R] /\ \A i, j \in 1 .. k : f[i] = f[j] => i = j
  <2> HIDE DEF k
  <2> QED BY <1>8, <1>9, <1>10
<1>12. f \in Injection(1 .. k, R)
  <2> HIDE DEF f, k
  <2> QED BY <1>11 DEF Injection, IsInjective
<1>13. IsFiniteSet(R) /\ Cardinality(R) \in Nat
  BY <1>2, <1>6, FS_Subset, FS_CardinalityType
<1>14. Cardinality(1 .. k) <= Cardinality(R)
  <2> HIDE DEF f, k
  <2> QED BY <1>12, <1>13, FS_Injection
<1>15. Cardinality(1 .. k) = k
  <2> HIDE DEF k
  <2>1. 1 \in Int /\ k \in Int /\ (IF 1 > k THEN 0 ELSE k - 1 + 1) = k
    BY <1>1
  <2>2. Cardinality(1 .. k) = IF 1 > k THEN 0 ELSE k - 1 + 1
    BY <2>1, FS_Interval
  <2> QED BY <2>1, <2>2
<1>16. Cardinality(Pids \ R) = n - Cardinality(R)
  <2>1. R \in SUBSET Pids /\ (Pids \ R) \cup R = Pids /\ (Pids \ R) \cap R = {}
        /\ Pids \ R \in SUBSET Pids
    BY <1>2
  <2>2. IsFiniteSet(Pids \ R) /\ Cardinality(Pids \ R) \in Nat
    BY <2>1, <1>4, FS_Subset, FS_CardinalityType
  <2>3. Cardinality((Pids \ R) \cup R)
            = Cardinality(Pids \ R) + Cardinality(R) - Cardinality((Pids \ R) \cap R)
    BY <2>2, <1>13, FS_Union
  <2>4. Cardinality((Pids \ R) \cap R) = 0
    BY <2>1, FS_EmptySet
  <2>5. Cardinality((Pids \ R) \cup R) = n
    BY <2>1, <1>4
  <2> HIDE DEF n
  <2> QED BY <2>2, <2>3, <2>4, <2>5, <1>13, <1>1
<1>17. Cardinality(Pids \ R) <= NumPids
  BY ONLY <1>1, <1>13, <1>14, <1>15, <1>16
<1> QED BY <1>17 DEF Pids, R

\* Giving up physical barriers and renumbering the rest keeps the invariant.
LEMMA ShrinkKeeps ==
    ASSUME IInv, RoundEnds, Shrink
    PROVE  IInv'
<1>1. ProgramInv /\ CountInv /\ PidsInv /\ RoundInv /\ BatchInv
  BY DEF IInv
<1> DEFINE R == Removed
           w == Without(toVirtual, R)
<1>2. /\ Exceeding /\ mode = "legalize"
      /\ toVirtual' = w
      /\ prevVidOfPhysBar' = Without(prevVidOfPhysBar, RemovedFromPrev)
      /\ nextReal' = FreeOf(w) /\ realId' = Remapped
  BY DEF Shrink, Exceeding, barrierLegalizationSim
<1>3. UNCHANGED <<declared, mode, consumerCount, bar, order>>
  BY DEF RoundEnds, passVars
<1>4. toVirtual \in Seq(Vid \cup {None}) /\ R \in SUBSET DOMAIN toVirtual /\ R \subseteq Unmapped
  BY <1>1 DEF PidsInv, Removed, Unmapped, Pids
<1>5. prevVidOfPhysBar' \in Seq(Vid \cup {None})
  BY <1>1, <1>2, WithoutIsSeq DEF PidsInv
<1>6. w \in Seq(Vid \cup {None}) /\ Len(w) = Cardinality(Pids \ R)
  BY <1>4, WithoutIsSeq DEF Pids
<1>7. /\ \A p \in Pids \ R : Moved(R, p) \in DOMAIN w /\ w[Moved(R, p)] = toVirtual[p]
      /\ \A q \in DOMAIN w : \E p \in Pids \ R : q = Moved(R, p) /\ w[q] = toVirtual[p]
  BY <1>4, WithoutRight DEF Pids
<1>8. /\ FreeOf(w) \in Seq(Nat) /\ IsInjective(FreeOf(w))
      /\ Range1(FreeOf(w)) = {p \in DOMAIN w : w[p] = None}
  BY <1>6, FreeOfRight
<1>9. Pids' = DOMAIN w /\ DOMAIN w \subseteq Nat
  BY <1>2, <1>6 DEF Pids
<1>10. \A p \in Pids : toVirtual[p] \in Vid \cup {None}
  BY <1>4 DEF Pids
<1> HIDE DEF R, w
<1>11. \A p \in Pids : toVirtual[p] # None =>
           /\ toVirtual[p] \in Active /\ toVirtual[p] \in Vid
           /\ p \notin R /\ realId[toVirtual[p]] = p
  BY <1>1, <1>4, <1>10 DEF PidsInv, Active, Unmapped
<1>12. ASSUME NEW p \in Pids, toVirtual[p] # None
       PROVE  realId'[toVirtual[p]] = Moved(R, p)
  <2> DEFINE v == toVirtual[p]
  <2>1. v \in Vid /\ v \in Active
    BY <1>11, <1>12
  <2>2. \A q \in Pids : toVirtual[q] = v => q = p
    BY <1>11, <1>12
  <2>3. (CHOOSE q \in Pids : toVirtual[q] = v) = p
    BY <2>2
  <2>4. Remapped[v] = p - Cardinality({q \in Removed : q < p})
    BY <2>1, <2>3 DEF Remapped
  <2> QED BY <2>4, <1>2 DEF Moved, R
<1>13. \A v \in Active : \E p \in Pids : toVirtual[p] = v /\ v # None
  BY DEF Active
<1>14. realId' \in [Vid -> Nat] /\ \A v \in Vid \ Active : realId'[v] = realId[v]
  <2>1. realId' = [v \in Vid |-> realId'[v]] /\ \A v \in Vid \ Active : realId'[v] = realId[v]
    BY <1>2 DEF Remapped
  <2>2. \A v \in Vid : realId'[v] \in Nat
    <3> TAKE v \in Vid
    <3>1. CASE v \in Active
      <4>1. PICK p \in Pids : toVirtual[p] = v /\ v # None
        BY <3>1, <1>13
      <4>2. realId'[v] = Moved(R, p) /\ Moved(R, p) \in DOMAIN w
        BY <4>1, <1>7, <1>11, <1>12
      <4> QED BY <4>2, <1>9
    <3>2. CASE v \notin Active
      BY <3>2, <2>1, <1>1 DEF PidsInv
    <3> QED BY <3>1, <3>2
  <2> QED BY <2>1, <2>2
<1>15. Mapped' = Mapped
  BY RoundEndsKeeps
<1>16. ASSUME NEW v \in Mapped', v = FinalBarrier \/ consumerCount'[v] > 0
       PROVE  realId'[v] \in Pids' /\ toVirtual'[realId'[v]] = v
  <2>1. v \in Mapped /\ Needed(v)
    BY <1>3, <1>15, <1>16 DEF Needed
  <2>2. realId[v] \in Pids /\ toVirtual[realId[v]] = v
    BY <2>1, <1>1 DEF PidsInv
  <2>3. v # None
    <3>1. Mapped \subseteq Vid
      BY <1>1 DEF Mapped, ProgramInv, PidsInv, Range1
    <3> QED BY <2>1, <3>1, Numbers
  <2>4. realId'[v] = Moved(R, realId[v]) /\ realId[v] \in Pids \ R
    BY <2>2, <2>3, <1>11, <1>12
  <2> QED BY <2>2, <2>4, <1>2, <1>7, <1>9
<1>17. ASSUME NEW q \in Pids', toVirtual'[q] # None
       PROVE  /\ realId'[toVirtual'[q]] = q
              /\ toVirtual'[q] \in Mapped'
              /\ toVirtual'[q] = FinalBarrier \/ consumerCount'[toVirtual'[q]] > 0
  <2>1. PICK p \in Pids \ R : q = Moved(R, p) /\ toVirtual'[q] = toVirtual[p]
    BY <1>2, <1>7, <1>9
  <2>2. realId'[toVirtual[p]] = q
    BY <2>1, <1>12, <1>17
  <2>3. toVirtual[p] \in Mapped /\ Needed(toVirtual[p])
    BY <2>1, <1>1, <1>17 DEF PidsInv
  <2> QED BY <2>1, <2>2, <2>3, <1>3, <1>15 DEF Needed
<1>18. \A v \in Vid : realId'[v] # None => v \in Mapped'
  <2>1. \A v \in Active : v \in Mapped
    BY <1>1 DEF PidsInv, Active
  <2>2. \A v \in Vid : realId[v] # None => v \in Mapped
    BY <1>1, <1>2 DEF PidsInv, isDynamicBarriers
  <2> QED BY <2>1, <2>2, <1>14, <1>15
<1>19. Range1(nextReal') = Unmapped'
  BY <1>2, <1>8, <1>9 DEF Unmapped
<1>20. PidsInv'
  <2>1. nextReal' \in Seq(Nat) /\ IsInjective(nextReal') /\ toVirtual' \in Seq(Vid \cup {None})
    BY <1>2, <1>6, <1>8
  <2>2. /\ bar' \in 1 .. Len(declared') + 1
        /\ order' \in Seq(Range1(declared')) /\ IsInjective(order')
        /\ IF mode' = "order" THEN Len(order') = bar' - 1 ELSE order' = <<>>
    BY <1>1, <1>3 DEF PidsInv
  <2>3. ~(mode' # "legalize")
    BY <1>2, <1>3
  <2> QED BY <2>1, <2>2, <2>3, <1>5, <1>14, <1>16, <1>17, <1>18, <1>19 DEF PidsInv, Needed
<1>21. Active' \subseteq Active
  <2>1. \A q \in Pids' : \E p \in Pids : toVirtual'[q] = toVirtual[p]
    BY <1>2, <1>7, <1>9
  <2> QED BY <2>1 DEF Active
<1>22. Exceeding' => Unmapped' = {}
  <2> SUFFICES ASSUME Exceeding' PROVE Unmapped' = {}
    OBVIOUS
  <2>1. Len(toVirtual') = Cardinality(Pids \ R) /\ Len(toVirtual') > NumPids
    BY <1>2, <1>6 DEF Exceeding
  <2>2. Cardinality(Pids \ R) \in Nat
    BY <1>6
  <2>3. R = Unmapped
    <3> SUFFICES ASSUME Removed # Unmapped PROVE FALSE
      BY DEF R
    <3>1. Cardinality(Pids \ R) <= NumPids
      BY <1>1, <1>2, ShrinksEnough DEF R, Pids
    <3> QED BY <3>1, <2>1, <2>2, Numbers
  <2>4. \A q \in Pids' : toVirtual'[q] # None
    <3> TAKE q \in Pids'
    <3>1. PICK p \in Pids \ R : toVirtual'[q] = toVirtual[p]
      BY <1>2, <1>7, <1>9
    <3> QED BY <3>1, <2>3 DEF Unmapped
  <2> QED BY <2>4 DEF Unmapped
<1> QED BY <1>20, <1>21, <1>22, RoundEndsKeeps DEF IInv

\* A simulation that stops has run all tasks.
LEMMA StopKeeps ==
    ASSUME IInv, EndRound, Stop
    PROVE  IInv'
<1>1. ProgramInv /\ CountInv /\ PidsInv /\ RoundInv /\ BatchInv
  BY DEF IInv
<1>2. pc = "round" /\ ~progressed
      /\ UNCHANGED <<toVirtual, prevVidOfPhysBar, nextReal, realId, progressed>>
      /\ UNCHANGED <<passVars, producerCount, consumerCount, bar, done, fifo, batches, order>>
  BY DEF EndRound, Stop
<1>3. pc' = "blocked"
  BY <1>2, StuckRound DEF Stop, barrierLegalizationSim
<1>4. PidsInv' /\ Pids' = Pids /\ Unmapped' = Unmapped /\ Active' = Active /\ Mapped' = Mapped
  BY <1>1, <1>2, PidsFrame DEF passVars
<1>5. ProgramInv' /\ CountInv'
  BY <1>1, <1>2, <1>4, ProgramFrame, CountFrame DEF passVars
<1>6. BatchInv'
  BY <1>1, <1>2, <1>4 DEF passVars, BatchInv, BatchesRight, BatchesDisjoint, BatchesExceed
<1>7. RoundInv'
  BY <1>1, <1>2, <1>3 DEF RoundInv
<1> QED BY <1>4, <1>5, <1>6, <1>7 DEF IInv

\* EndRound keeps the invariant.
LEMMA EndRoundKeeps ==
    ASSUME IInv, EndRound
    PROVE  IInv'
<1>1. pc = "round" /\ (Grow \/ Shrink \/ Continue \/ Stop)
      /\ UNCHANGED <<passVars, producerCount, consumerCount, bar, done, fifo, batches, order>>
  BY DEF EndRound
<1>2. Grow \/ Shrink \/ Continue => RoundEnds
  BY <1>1 DEF Grow, Shrink, Continue, RoundEnds
<1> QED BY <1>1, <1>2, GrowKeeps, ShrinkKeeps, ContinueKeeps, StopKeeps

-----------------------------------------------------------------------------
(* The start of a simulation.                                              *)

Started ==
    /\ toVirtual = [i \in 1 .. NumPids |-> None]
    /\ prevVidOfPhysBar = [i \in 1 .. NumPids |-> None]
    /\ nextReal = [i \in 1 .. NumPids |-> i]
    /\ producerCount = [v \in Vid |-> SlotCount(program, Producers(program, v))]
    /\ consumerCount = [v \in Vid |-> SlotCount(program, Consumers(program, v))]
    /\ bar = 1 /\ done = {} /\ fifo = 1 /\ progressed = FALSE
    /\ batches = <<>> /\ order = <<>>
    /\ pc \in {"map", "refused"}
    /\ realId \in [Vid -> Nat]
    /\ isDynamicBarriers => realId = [v \in Vid |-> None]

\* At its start a simulation of a sound function satisfies the invariant.
LEMMA StartedInv == ProgramInv /\ Started => IInv
<1> SUFFICES ASSUME ProgramInv, Started PROVE IInv
  OBVIOUS
<1>1. NumPids \in Nat /\ None = 0
  BY Numbers
<1>2. Mapped = {}
  <2>1. 1 .. 1 - 1 = {}
    OBVIOUS
  <2> QED BY <2>1 DEF Mapped, Started, Range1
<1>3. /\ toVirtual \in Seq(Vid \cup {None}) /\ Len(toVirtual) = NumPids
      /\ prevVidOfPhysBar \in Seq(Vid \cup {None}) /\ Len(prevVidOfPhysBar) = NumPids
      /\ nextReal \in Seq(Nat)
  <2>1. /\ toVirtual \in [1 .. NumPids -> Vid \cup {None}]
        /\ prevVidOfPhysBar \in [1 .. NumPids -> Vid \cup {None}]
        /\ nextReal \in [1 .. NumPids -> Nat]
    BY <1>1 DEF Started
  <2> QED BY <1>1, <2>1
<1>4. Pids = 1 .. NumPids /\ Unmapped = 1 .. NumPids /\ Active = {}
  BY DEF Started, Pids, Unmapped, Active
<1>5. CountInv
  <2>1. \A v : Producers(program, v) \ {} = Producers(program, v)
               /\ Consumers(program, v) \ {} = Consumers(program, v)
    OBVIOUS
  <2> QED BY <2>1 DEF CountInv, Started
<1>6. PidsInv
  <2>1. IsInjective(nextReal) /\ Range1(nextReal) = 1 .. NumPids
    BY DEF Started, IsInjective, Range1
  <2>2. order \in Seq(Range1(declared)) /\ IsInjective(order) /\ Len(order) = 0 /\ bar - 1 = 0
    BY EmptySeq DEF Started, IsInjective
  <2>3. Len(declared) \in Nat /\ bar \in 1 .. Len(declared) + 1
    BY DEF ProgramInv, Started
  <2>4. \A p \in Pids : toVirtual[p] = None
    BY <1>4 DEF Unmapped
  <2>5. isDynamicBarriers => \A v \in Vid : realId[v] = None
    BY DEF Started
  <2>6. realId \in [Vid -> Nat] /\ order = <<>>
    BY DEF Started
  <2> QED BY <1>2, <1>3, <1>4, <2>1, <2>2, <2>3, <2>4, <2>5, <2>6 DEF PidsInv
<1>7. RoundInv
  <2>1. 1 \in Task /\ 1 \in Fifo
    BY Numbers DEF Task, Fifo
  <2>2. ~Exceeding
    BY <1>1, <1>3 DEF Exceeding
  <2> QED BY <2>1, <2>2 DEF Started, RoundInv
<1>8. BatchInv
  <2>1. batches \in Seq(SUBSET Vid) /\ DOMAIN batches = {}
    BY EmptySeq DEF Started
  <2> QED BY <2>1 DEF BatchInv, BatchesRight, BatchesDisjoint, BatchesExceed, Started
<1> QED BY <1>5, <1>6, <1>7, <1>8 DEF IInv

\* The same of a step that starts one.
LEMMA StartedNext == ProgramInv' /\ Started' => IInv'
BY StartedInv, PTL

\* The functions given are sound.
LEMMA WellFormedSound ==
    ASSUME NEW p, WellFormed(p)
    PROVE  Sound(p)
BY DEF WellFormed, Sound, Producers, Consumers

\* The first simulation starts so.
LEMMA InitIInv == Init => IInv
<1> SUFFICES ASSUME Init PROVE IInv
  OBVIOUS
<1>1. WellFormed(program)
  BY ProgramAssumption DEF Init
<1>2. Sound(program) /\ IsProgram(program)
  BY <1>1, WellFormedSound DEF WellFormed
<1>3. /\ declared = [i \in 1 .. program.bars |-> i]
      /\ program.bars \in Nat /\ program.bars < FinalBarrier
      /\ FinalBarrier \in Nat /\ Vid = 1 .. FinalBarrier
  <2>1. FinalBarrier \in Nat
    BY Numbers
  <2> QED BY <1>1, <1>2, <2>1 DEF Init, IsProgram, WellFormed, Vid
<1>4. declared \in Seq(Vid) /\ Range1(declared) = 1 .. program.bars /\ IsInjective(declared)
  <2> DEFINE b == program.bars
  <2>1. b \in Nat /\ b < FinalBarrier /\ FinalBarrier \in Nat /\ declared = [i \in 1 .. b |-> i]
    BY <1>3
  <2> HIDE DEF b
  <2>2. \A i \in 1 .. b : i \in 1 .. FinalBarrier
    BY <2>1
  <2>3. declared \in [1 .. b -> Vid]
    BY <2>1, <2>2, <1>3
  <2>4. declared \in Seq(Vid)
    BY <2>1, <2>3
  <2>5. Range1(declared) = 1 .. b /\ IsInjective(declared)
    BY <2>1 DEF Range1, IsInjective
  <2> QED BY <2>4, <2>5 DEF b
<1>5. FinalBarrier \notin 1 .. program.bars
  BY <1>3
<1>6. \A t \in Task : program.waits[t] \cup program.posts[t] \subseteq 1 .. program.bars
  BY <1>1 DEF WellFormed
<1>7. \A v \in 1 .. program.bars : Producers(program, v) # {} /\ Consumers(program, v) # {}
  BY <1>1 DEF WellFormed
<1>8. mode \in {"legalize", "assign"} /\ wlmPidProgramming \in BOOLEAN
  BY ModeAssumption DEF Init
<1>9. ProgramInv
  BY <1>1, <1>2, <1>3, <1>4, <1>5, <1>6, <1>7, <1>8 DEF ProgramInv
<1>10. Started
  <2>1. pc \in {"map", "refused"}
    BY DEF Init, StartPc
  <2>2. realId \in [Vid -> Nat]
    BY Numbers DEF Init
  <2> QED BY <2>1, <2>2 DEF Init, Started
<1> QED BY <1>9, <1>10, StartedInv

\* StartSimulation starts one.
LEMMA StartSimulationStarts ==
    ASSUME StartSimulation(program'), realId' \in [Vid -> Nat],
           isDynamicBarriers' => realId' = [v \in Vid |-> None]
    PROVE  Started'
<1>1. pc' \in {"map", "refused"}
  BY DEF StartSimulation, StartPc
<1> QED BY <1>1 DEF StartSimulation, Started

-----------------------------------------------------------------------------
(* From one pass to the next.                                              *)

(* The final barrier gets a producer on every FIFO that ends with a task   *)
(* producing nothing, and is declared behind the others.                   *)
LEMMA AddFinalBarrierKeeps ==
    ASSUME IInv, AddFinalBarrier
    PROVE  IInv'
<1>1. ProgramInv /\ mode = "legalize"
  BY DEF IInv, AddFinalBarrier, AssignPhysicalBarriers
<1>2. /\ program' = WithFinalBarrier /\ declared' = Append(declared, FinalBarrier)
      /\ mode' \in AssignMode /\ wlmPidProgramming' = wlmPidProgramming
      /\ StartSimulation(program')
  BY DEF AddFinalBarrier, AssignPhysicalBarriers
<1>3. mode' \in {"assign", "order"}
  BY <1>2, ModeAssumption
<1>4. realId' \in [Vid -> Nat] /\ (isDynamicBarriers' => realId' = [v \in Vid |-> None])
  <2>1. CASE mode' = "order"
    <3>1. realId' \in [Vid -> 1 .. NumPids]
      BY <2>1 DEF AddFinalBarrier, AssignPhysicalBarriers
    <3>2. 1 .. NumPids \subseteq Nat
      BY Numbers
    <3> QED BY <2>1, <3>1, <3>2 DEF isDynamicBarriers
  <2>2. CASE mode' # "order"
    <3>1. realId' \in [Vid -> {None}]
      BY <2>2 DEF AddFinalBarrier, AssignPhysicalBarriers
    <3>2. realId' = [v \in Vid |-> None] /\ None \in Nat
      BY <3>1, Numbers
    <3> QED BY <3>2
  <2> QED BY <2>1, <2>2
<1>5. Started'
  BY <1>2, <1>4, StartSimulationStarts
<1> DEFINE p == program
           q == WithFinalBarrier
           b == program.bars
<1>6. WellFormed(p) /\ Sound(p) /\ IsProgram(p) /\ declared = [i \in 1 .. b |-> i]
  BY <1>1, WellFormedSound DEF ProgramInv, WellFormed
<1>7. b \in Nat /\ b < FinalBarrier /\ FinalBarrier \in Nat /\ Vid = 1 .. FinalBarrier
      /\ FinalBarrier \in Vid
  <2>1. FinalBarrier \in Nat
    BY Numbers
  <2> QED BY <1>6, <2>1, Numbers DEF IsProgram, WellFormed, Vid
<1>8. /\ q.fifo = p.fifo /\ q.waits = p.waits /\ q.count = p.count /\ q.bars = FinalBarrier
      /\ q.posts = [t \in Task |->
            IF t \in LastInFifo /\ p.posts[t] = {} THEN {FinalBarrier} ELSE p.posts[t]]
  BY <1>6 DEF WithFinalBarrier, IsProgram
<1>9. IsProgram(q)
  <2>1. q.posts \in [Task -> SUBSET Vid]
    BY <1>6, <1>7, <1>8 DEF IsProgram
  <2>2. FinalBarrier \in 0 .. FinalBarrier
    BY <1>7
  <2> DEFINE posts == [t \in Task |->
                IF t \in LastInFifo /\ p.posts[t] = {} THEN {FinalBarrier} ELSE p.posts[t]]
  <2>3. q = [program EXCEPT !.bars = FinalBarrier, !.posts = posts]
    BY DEF WithFinalBarrier
  <2>4. posts \in [Task -> SUBSET Vid]
    BY <2>1, <1>8
  <2> HIDE DEF q, p, posts
  <2>5. [program EXCEPT !.bars = FinalBarrier, !.posts = posts] \in
            [fifo : [Task -> Fifo], waits : [Task -> SUBSET Vid], posts : [Task -> SUBSET Vid],
             count : [Task -> Nat \ {0}], bars : 0 .. FinalBarrier]
    BY <1>6, <2>2, <2>4 DEF IsProgram, p
  <2> QED BY <2>3, <2>5 DEF IsProgram
<1> HIDE DEF q, p
<1>10. /\ \A t \in Task : p.waits[t] \cup p.posts[t] \subseteq 1 .. b
       /\ \A v \in 1 .. b : Producers(p, v) # {} /\ Consumers(p, v) # {}
       /\ FinalBarrier \notin 1 .. b
  BY <1>6, <1>7 DEF WellFormed, p
<1>11. \A v \in 1 .. b : Producers(q, v) = Producers(p, v) /\ Consumers(q, v) = Consumers(p, v)
  BY <1>8, <1>10 DEF Producers, Consumers
<1>12. Sound(q)
  <2> SUFFICES ASSUME NEW t \in Task, NEW u \in Task, q.posts[t] \cap q.waits[u] # {}
               PROVE  t < u
    BY <1>9 DEF Sound
  <2>1. PICK v \in q.posts[t] : v \in q.waits[u]
    OBVIOUS
  <2>2. v \in p.waits[u] /\ v # FinalBarrier
    BY <2>1, <1>8, <1>10
  <2>3. v \in p.posts[t]
    BY <2>1, <2>2, <1>8
  <2> QED BY <2>2, <2>3, <1>6 DEF Sound, p
<1>13. /\ declared' \in Seq(Vid) /\ IsInjective(declared')
       /\ Range1(declared') = (1 .. b) \cup {FinalBarrier}
       /\ declared'[Len(declared')] = FinalBarrier
  <2>1. declared \in Seq(Vid) /\ IsInjective(declared)
    BY <1>1 DEF ProgramInv
  <2>2. Range1(declared) = 1 .. b /\ Len(declared) = b
    <3> HIDE DEF b
    <3> QED BY <1>6, <1>7 DEF Range1
  <2>3. /\ declared' \in Seq(Vid) /\ IsInjective(declared')
        /\ Range1(declared') = Range1(declared) \cup {FinalBarrier}
        /\ Len(declared') = Len(declared) + 1
    BY <1>2, <1>7, <1>10, <2>1, <2>2, AppendFresh
  <2>4. Append(declared, FinalBarrier)[Len(declared) + 1] = FinalBarrier
    BY <1>7, <2>1, AppendProperties
  <2> QED BY <1>2, <2>2, <2>3, <2>4
<1>14. ASSUME NEW t \in Task
       PROVE  /\ q.waits[t] \cup q.posts[t] \subseteq Range1(declared')
              /\ FinalBarrier \notin q.waits[t]
              /\ FinalBarrier \in q.posts[t] => q.posts[t] = {FinalBarrier}
  BY <1>8, <1>10, <1>13
<1>15. \A v \in Range1(declared') \ {FinalBarrier} : Producers(q, v) # {} /\ Consumers(q, v) # {}
  BY <1>10, <1>11, <1>13
<1>16. LastInFifo' = LastInFifo /\ \A t \in LastInFifo : q.posts[t] # {}
  BY <1>2, <1>8 DEF LastInFifo, q, p
<1>17. ProgramInv'
  BY <1>1, <1>2, <1>3, <1>12, <1>13, <1>14, <1>15, <1>16 DEF ProgramInv, q
<1> QED BY <1>5, <1>17, StartedNext

(* The order that was found has every barrier a task uses, once.           *)
LEMMA ReorderedRight ==
    ASSUME ProgramInv, PidsInv
    PROVE  /\ Reordered \in Seq(Vid) /\ IsInjective(Reordered)
           /\ Range1(Reordered) = Range1(order)
           /\ FinalBarrier \in Range1(order) => Reordered[Len(Reordered)] = FinalBarrier
<1> DEFINE F == {i \in DOMAIN order : order[i] = FinalBarrier}
           w == Without(order, F)
           c == Cardinality(F)
           e == [i \in 1 .. c |-> FinalBarrier]
<1>1. /\ order \in Seq(Vid) /\ IsInjective(order) /\ DOMAIN order = 1 .. Len(order)
      /\ Len(order) \in Nat
  <2>1. order \in Seq(Range1(declared)) /\ IsInjective(order)
    BY DEF PidsInv
  <2>2. Range1(declared) \subseteq Vid
    BY DEF ProgramInv, Range1
  <2> QED BY <2>1, <2>2, SeqMonotonic, LenProperties
<1>2. Reordered = w \o e
  BY DEF Reordered
<1>3. F \in SUBSET DOMAIN order /\ \A i, j \in F : i = j
  BY <1>1 DEF IsInjective
<1>4. c \in {0, 1} /\ (c = 0 <=> F = {})
  <2>1. CASE F = {}
    BY <2>1, FS_EmptySet
  <2>2. CASE F # {}
    <3>1. PICK i \in F : TRUE
      BY <2>2
    <3>2. F = {i}
      BY <1>3, <3>1
    <3> HIDE DEF F
    <3>3. Cardinality(F) = 1
      BY <3>2, FS_Singleton
    <3> QED BY <2>2, <3>3
  <2> QED BY <2>1, <2>2
<1>5. w \in Seq(Vid) /\ DOMAIN w = 1 .. Len(w) /\ Len(w) \in Nat
  BY <1>1, WithoutIsSeq, LenProperties
<1>6. /\ \A p \in DOMAIN order \ F :
             Moved(F, p) \in DOMAIN w /\ w[Moved(F, p)] = order[p]
      /\ \A x \in DOMAIN w : \E p \in DOMAIN order \ F : x = Moved(F, p) /\ w[x] = order[p]
  <2>1. order \in Seq(Vid) /\ F \in SUBSET DOMAIN order
    BY <1>1, <1>3
  <2> HIDE DEF F, c, e
  <2> QED BY ONLY <2>1, WithoutRight
<1>7. \A i \in DOMAIN order : i \in F <=> order[i] = FinalBarrier
  OBVIOUS
<1>8. e \in Seq(Vid) /\ Len(e) = c /\ DOMAIN e = 1 .. c /\ \A i \in 1 .. c : e[i] = FinalBarrier
  <2> HIDE DEF c
  <2>1. e \in [1 .. c -> Vid] /\ c \in Nat
    BY <1>4, Numbers
  <2> QED BY <2>1
<1> HIDE DEF F, w, c, e
<1>9. Range1(w) = Range1(order) \ {FinalBarrier}
  <2>1. Range1(w) \subseteq Range1(order) \ {FinalBarrier}
    BY <1>6, <1>7 DEF Range1
  <2>2. \A i \in DOMAIN order : order[i] # FinalBarrier => order[i] \in Range1(w)
    BY <1>6, <1>7 DEF Range1
  <2> QED BY <2>1, <2>2 DEF Range1
<1>10. IsInjective(w)
  <2> SUFFICES ASSUME NEW x \in DOMAIN w, NEW y \in DOMAIN w, w[x] = w[y] PROVE x = y
    BY DEF IsInjective
  <2>1. PICK p \in DOMAIN order \ F : x = Moved(F, p) /\ w[x] = order[p]
    BY <1>6
  <2>2. PICK r \in DOMAIN order \ F : y = Moved(F, r) /\ w[y] = order[r]
    BY <1>6
  <2>3. p = r
    BY <1>1, <2>1, <2>2 DEF IsInjective
  <2> QED BY <2>1, <2>2, <2>3
<1>11. IsInjective(e) /\ Range1(e) = IF F = {} THEN {} ELSE {FinalBarrier}
  <2>1. CASE c = 0
    BY <2>1, <1>4, <1>8 DEF IsInjective, Range1
  <2>2. CASE c = 1
    BY <2>2, <1>4, <1>8 DEF IsInjective, Range1
  <2> QED BY <1>4, <2>1, <2>2
<1>12. F = {} <=> FinalBarrier \notin Range1(order)
  BY <1>3, <1>7 DEF Range1
<1>13. Range1(w) \cap Range1(e) = {}
  BY <1>9, <1>11
<1>14. w \o e \in Seq(Vid) /\ IsInjective(w \o e) /\ Range1(w \o e) = Range1(w) \cup Range1(e)
  BY <1>5, <1>8, <1>10, <1>11, <1>13, ConcatInjective
<1>15. Range1(w) \cup Range1(e) = Range1(order)
  BY <1>9, <1>11, <1>12
<1>16. ASSUME FinalBarrier \in Range1(order) PROVE Reordered[Len(Reordered)] = FinalBarrier
  <2>1. c = 1
    BY <1>4, <1>12, <1>16
  <2>2. /\ Len(w \o e) = Len(w) + Len(e)
        /\ \A i \in 1 .. Len(w) + Len(e) : (w \o e)[i] = IF i <= Len(w) THEN w[i] ELSE e[i - Len(w)]
    BY <1>5, <1>8, ConcatProperties
  <2>3. Len(w \o e) = Len(w) + 1
    BY <1>8, <2>1, <2>2
  <2>4. Len(w) + 1 \in 1 .. Len(w) + Len(e) /\ ~(Len(w) + 1 <= Len(w)) /\ (Len(w) + 1) - Len(w) = 1
    BY <1>5, <1>8, <2>1
  <2>5. (w \o e)[Len(w) + 1] = e[1]
    BY <2>2, <2>4
  <2> QED BY <1>2, <1>8, <2>1, <2>3, <2>5
<1> QED BY <1>2, <1>14, <1>15, <1>16

\* The validation that follows an assignment starts so too.
LEMMA ValidateKeeps ==
    ASSUME IInv, Validate
    PROVE  IInv'
<1>1. ProgramInv /\ CountInv /\ PidsInv /\ done = Task
  BY DEF IInv, RoundInv, Validate
<1>2. /\ mode \in {"assign", "order"} /\ mode' = "validate"
      /\ declared' = IF mode = "order" THEN Reordered ELSE declared
      /\ UNCHANGED <<program, wlmPidProgramming, realId>>
      /\ StartSimulation(program')
  BY DEF Validate
<1>3. realId' \in [Vid -> Nat] /\ ~isDynamicBarriers'
  BY <1>1, <1>2 DEF PidsInv, isDynamicBarriers
<1>4. Started'
  BY <1>2, <1>3, StartSimulationStarts
<1>5. /\ declared' \in Seq(Vid) /\ IsInjective(declared')
      /\ Range1(declared') \subseteq Range1(declared)
      /\ Mapped \subseteq Range1(declared')
      /\ FinalBarrier \in Range1(declared') => declared'[Len(declared')] = FinalBarrier
  <2>1. CASE mode = "order"
    <3>1. Range1(order) \subseteq Range1(declared)
      BY <1>1 DEF PidsInv, Range1
    <3> QED BY <1>1, <1>2, <2>1, <3>1, ReorderedRight DEF Mapped
  <2>2. CASE mode = "assign"
    <3>1. Mapped \subseteq Range1(declared)
      <4>1. Len(declared) \in Nat /\ DOMAIN declared = 1 .. Len(declared)
            /\ bar \in 1 .. Len(declared) + 1
        BY <1>1 DEF ProgramInv, PidsInv
      <4>2. \A i \in 1 .. bar - 1 : i \in DOMAIN declared
        BY <4>1
      <4> QED BY <2>2, <4>2 DEF Mapped, Range1
    <3> QED BY <1>1, <1>2, <2>2, <3>1 DEF ProgramInv
  <2> QED BY <1>2, <2>1, <2>2
<1>6. \A t \in Task : program.waits[t] \cup program.posts[t] \subseteq Range1(declared')
  BY <1>1, <1>5 DEF CountInv
<1>7. LastInFifo' = LastInFifo
  BY <1>2 DEF LastInFifo
<1>8. ProgramInv'
  BY <1>1, <1>2, <1>5, <1>6, <1>7 DEF ProgramInv
<1> QED BY <1>4, <1>8, StartedNext

\* Stuttering keeps the invariant.
LEMMA StutterKeeps ==
    ASSUME IInv, UNCHANGED vars
    PROVE  IInv'
<1>1. ProgramInv /\ CountInv /\ PidsInv /\ RoundInv /\ BatchInv
  BY DEF IInv
<1>2. /\ UNCHANGED <<passVars, toVirtual, prevVidOfPhysBar, nextReal, realId,
                     producerCount, consumerCount, bar, done, fifo, progressed, batches, order, pc>>
  BY DEF vars, passVars
<1>3. PidsInv' /\ Pids' = Pids /\ Unmapped' = Unmapped /\ Active' = Active /\ Mapped' = Mapped
  BY <1>1, <1>2, PidsFrame DEF passVars
<1>4. ProgramInv' /\ CountInv'
  BY <1>1, <1>2, <1>3, ProgramFrame, CountFrame DEF passVars
<1>5. BatchInv'
  BY <1>1, <1>2, <1>3 DEF passVars, BatchInv, BatchesRight, BatchesDisjoint, BatchesExceed
<1>6. RoundInv'
  <2>1. CanMap' <=> CanMap
    BY <1>2, <1>3 DEF passVars, CanMap, isDynamicBarriers, Usable, Instances
  <2>2. (\A f : AtHead(f)' = AtHead(f)) /\ (\A t : Ready(t)' <=> Ready(t))
    BY <1>2, <1>3 DEF AtHead, Ready, isBarrierMapped, isDynamicBarriers, passVars
  <2>3. Exceeding' <=> Exceeding
    BY <1>2 DEF Exceeding, barrierLegalizationSim, passVars
  <2> QED BY <1>1, <1>2, <1>3, <2>1, <2>2, <2>3 DEF RoundInv, passVars
<1> QED BY <1>3, <1>4, <1>5, <1>6 DEF IInv

(* IInv is an invariant.                                                   *)
THEOREM Invariant == Spec => []IInv
<1>1. IInv /\ [Next]_vars => IInv'
  <2> SUFFICES ASSUME IInv, [Next]_vars PROVE IInv'
    OBVIOUS
  <2>1. CASE MapBarrier
    BY <2>1, MapBarrierKeeps
  <2>2. CASE EndMapping
    BY <2>2, EndMappingKeeps
  <2>3. CASE ProcessTask
    BY <2>3, ProcessTaskKeeps
  <2>4. CASE NextFifo
    BY <2>4, NextFifoKeeps
  <2>5. CASE EndRound
    BY <2>5, EndRoundKeeps
  <2>6. CASE AddFinalBarrier
    BY <2>6, AddFinalBarrierKeeps
  <2>7. CASE Validate
    BY <2>7, ValidateKeeps
  <2>8. CASE Ended \/ UNCHANGED vars
    BY <2>8, StutterKeeps DEF Ended
  <2> QED BY <2>1, <2>2, <2>3, <2>4, <2>5, <2>6, <2>7, <2>8 DEF Next, SimulationStep
<1> QED BY <1>1, InitIInv, PTL DEF Spec

-----------------------------------------------------------------------------
(* What follows.                                                           *)

(* Every variable keeps its type.                                          *)
THEOREM Types == Spec => []TypeOK
<1>1. IInv => TypeOK
  <2> SUFFICES ASSUME IInv PROVE TypeOK
    OBVIOUS
  <2>1. ProgramInv /\ CountInv /\ PidsInv /\ RoundInv /\ BatchInv
    BY DEF IInv
  <2>2. IsProgram(program) /\ declared \in Seq(Vid) /\ Range1(declared) \subseteq Vid
    BY <2>1 DEF ProgramInv, Sound, Range1
  <2>3. order \in Seq(Vid)
    BY <2>1, <2>2, SeqMonotonic DEF PidsInv
  <2>4. \A v \in Vid : producerCount[v] \in Nat /\ consumerCount[v] \in Nat
    BY <2>1, CountsAre
  <2>5. producerCount \in [Vid -> Nat] /\ consumerCount \in [Vid -> Nat]
    <3>1. /\ producerCount = [v \in Vid |-> producerCount[v]]
          /\ consumerCount = [v \in Vid |-> consumerCount[v]]
      BY <2>1 DEF CountInv
    <3> QED BY <2>4, <3>1
  <2> QED BY <2>1, <2>2, <2>3, <2>5
          DEF TypeOK, ProgramInv, CountInv, PidsInv, RoundInv, BatchInv
<1> QED BY <1>1, Invariant, PTL

(* The ring buffer, the mapping of physical barriers and the one of virtual *)
(* barriers agree, through any number of grown and shrunk rounds.          *)
THEOREM PidsAgree == Spec => []PidsExact
<1>1. IInv => PidsExact
  <2> SUFFICES ASSUME IInv PROVE PidsExact
    OBVIOUS
  <2>1. ProgramInv /\ CountInv /\ PidsInv
    BY DEF IInv
  <2>2. HeldUntilConsumed
    BY <2>1 DEF HeldUntilConsumed, PidsInv, Needed
  <2>3. ASSUME isDynamicBarriers
        PROVE  Range1(nextReal) = Unmapped /\ Len(nextReal) = Cardinality(Unmapped)
    <3> DEFINE n == Len(nextReal)
    <3>1. nextReal \in Seq(Nat) /\ IsInjective(nextReal) /\ Range1(nextReal) = Unmapped
      BY <2>1, <2>3 DEF PidsInv
    <3>2. n \in Nat /\ DOMAIN nextReal = 1 .. n
      BY <3>1
    <3>3. IsFiniteSet(1 .. n) /\ Cardinality(1 .. n) = n
      <4> HIDE DEF n
      <4>1. 1 \in Int /\ n \in Int /\ (IF 1 > n THEN 0 ELSE n - 1 + 1) = n
        BY <3>2
      <4>2. IsFiniteSet(1 .. n) /\ Cardinality(1 .. n) = IF 1 > n THEN 0 ELSE n - 1 + 1
        BY <4>1, FS_Interval
      <4> QED BY <4>1, <4>2
    <3> HIDE DEF n
    <3>4. nextReal \in [1 .. n -> Unmapped]
      BY <3>1, <3>2 DEF Range1
    <3>5. nextReal \in Surjection(1 .. n, Unmapped) /\ nextReal \in Injection(1 .. n, Unmapped)
      BY <3>1, <3>2, <3>4 DEF Surjection, Injection, Range1, IsInjective
    <3>6. Cardinality(Unmapped) = Cardinality(1 .. n)
      BY <3>3, <3>5, FS_Surjection
    <3> QED BY <3>1, <3>3, <3>6 DEF n
  <2> QED BY <2>2, <2>3 DEF PidsExact, FreePidsExact
<1> QED BY <1>1, Invariant, PTL

(* processSim never answers Status::Fail and simulateBarriers never throws. *)
THEOREM NothingFails == Spec => []NoInternalError
<1>1. IInv => NoInternalError
  BY DEF IInv, RoundInv, NoInternalError
<1> QED BY <1>1, Invariant, PTL

(* The batches to linearize are disjoint, and each is too large.           *)
THEOREM BatchesAreRight == Spec => []BatchesRight
<1>1. IInv => BatchesRight
  BY DEF IInv, BatchInv
<1> QED BY <1>1, Invariant, PTL

(* When the final barrier has no producer left every task has run: the     *)
(* last task that has not would be the end of a FIFO or produce for a task *)
(* that has.                                                               *)
THEOREM FinalMeansFinished == Spec => []FinalBarrierMeansFinished
<1>1. IInv => FinalBarrierMeansFinished
  <2> SUFFICES ASSUME IInv, FinalBarrier \in Range1(declared),
                      producerCount[FinalBarrier] = 0, done # Task
               PROVE  FALSE
    BY DEF FinalBarrierMeansFinished
  <2>1. ProgramInv /\ CountInv
    BY DEF IInv
  <2>2. Task \ done \in SUBSET (1 .. NumTasks) /\ Task \ done # {} /\ NumTasks \in Nat
    BY <2>1, Numbers DEF CountInv, Task
  <2>3. PICK t \in Task \ done : \A u \in Task \ done : u <= t
    BY <2>2, GreatestElement
  <2>4. Producers(program, FinalBarrier) \subseteq done
    BY <2>1, CountsAre, Numbers
  <2>5. t \in LastInFifo
    <3> SUFFICES ASSUME NEW u \in Task, program.fifo[u] = program.fifo[t], ~(u <= t) PROVE FALSE
      BY DEF LastInFifo
    <3>1. u \in Nat /\ t \in Nat /\ t \in Task
      BY Numbers
    <3>2. t < u /\ u \in done
      BY <2>3, <3>1
    <3>3. t \in done
      BY <2>1, <3>1, <3>2 DEF CountInv
    <3> QED BY <3>3
  <2>6. PICK v \in program.posts[t] : TRUE
    BY <2>1, <2>5 DEF ProgramInv
  <2>7. v \in Range1(declared) \ {FinalBarrier} /\ t \in Producers(program, v)
    BY <2>1, <2>4, BarriersOf DEF ProgramInv
  <2>8. PICK c \in Consumers(program, v) : TRUE
    BY <2>1, <2>7 DEF ProgramInv
  <2>9. c \in Task /\ v \in program.waits[c]
    BY DEF Consumers
  <2>10. t < c
    BY <2>1, <2>9 DEF ProgramInv, Sound
  <2>11. c \in done
    <3>1. c \in Nat /\ t \in Nat
      BY <2>9, Numbers
    <3> QED BY <2>3, <2>9, <2>10, <3>1
  <2>12. Producers(program, v) \subseteq done
    BY <2>1, <2>9, <2>11 DEF CountInv
  <2> QED BY <2>7, <2>12
<1> QED BY <1>1, Invariant, PTL

-----------------------------------------------------------------------------
(* The abstract schedule.                                                  *)

\* What a task needs are tasks.
LEMMA NeedsType ==
    ASSUME ProgramInv
    PROVE  needsBar \in [Task -> SUBSET Task]
BY DEF needsBar, Producers

(* A task runs after everything it needs.                                  *)
LEMMA RunsExecute ==
    ASSUME IInv, NEW t, Runs(t)
    PROVE  Schedule!Next
<1>1. ProgramInv /\ CountInv /\ PidsInv
  BY DEF IInv
<1>2. t \in Task \ done /\ Ready(t) /\ done' = done \cup {t} /\ program' = program
  BY DEF Runs, passVars
<1>3. needsBar' = needsBar
  BY <1>2 DEF needsBar
<1>4. ASSUME NEW u \in Task, u < t, program.fifo[u] = program.fifo[t] PROVE u \in done
  <2>1. u \in Nat /\ t \in Nat
    BY <1>2, Numbers
  <2> QED BY <1>4, <2>1 DEF Runs
<1>5. \A v \in program.waits[t] : Producers(program, v) \subseteq done
  BY <1>1, <1>2, ReadyMapped
<1>6. needsBar[t] \subseteq done
  BY <1>2, <1>4, <1>5 DEF needsBar
<1> QED BY <1>2, <1>3, <1>6 DEF Schedule!Next, Schedule!Execute

(* AddFinalBarrier gives nobody anything to wait for.                      *)
LEMMA AddFinalBarrierReruns ==
    ASSUME IInv, AddFinalBarrier
    PROVE  Schedule!Next
<1>1. ProgramInv /\ IsProgram(program) /\ done = Task
  BY DEF IInv, ProgramInv, Sound, RoundInv, AddFinalBarrier, AssignPhysicalBarriers
<1>2. program' = WithFinalBarrier /\ done' = {}
  BY DEF AddFinalBarrier, AssignPhysicalBarriers, StartSimulation
<1>3. /\ program'.fifo = program.fifo /\ program'.waits = program.waits
      /\ \A t \in Task : program'.posts[t] =
             IF t \in LastInFifo /\ program.posts[t] = {} THEN {FinalBarrier} ELSE program.posts[t]
  BY <1>1, <1>2 DEF WithFinalBarrier, IsProgram
<1>4. ASSUME NEW t \in Task, NEW v \in program.waits[t]
      PROVE  Producers(program', v) = Producers(program, v)
  <2>1. v # FinalBarrier
    BY <1>1 DEF ProgramInv
  <2> QED BY <1>3, <2>1 DEF Producers
<1>5. needsBar' = needsBar
  BY <1>3, <1>4 DEF needsBar
<1> QED BY <1>1, <1>2, <1>5 DEF Schedule!Next, Schedule!Rerun

\* Validation is another run of the schedule.
LEMMA ValidateReruns ==
    ASSUME IInv, Validate
    PROVE  Schedule!Next
<1>1. done = Task /\ done' = {} /\ program' = program
  BY DEF IInv, RoundInv, Validate, StartSimulation
<1>2. needsBar' = needsBar
  BY <1>1 DEF needsBar
<1> QED BY <1>1, <1>2 DEF Schedule!Next, Schedule!Rerun

(* Every simulation passes the tasks in an order the barriers allow.       *)
THEOREM Refinement == Spec => ImplementsSchedule
<1>1. Init => Schedule!Init
  <2> SUFFICES ASSUME Init PROVE Schedule!Init
    OBVIOUS
  <2>1. ProgramInv /\ done = {}
    BY InitIInv DEF IInv, Init
  <2> QED BY <2>1, NeedsType DEF Schedule!Init
<1>2. IInv /\ [Next]_vars => [Schedule!Next]_(Schedule!schedVars)
  <2> SUFFICES ASSUME IInv, [Next]_vars PROVE [Schedule!Next]_(Schedule!schedVars)
    OBVIOUS
  <2>1. CASE ProcessTask
    BY <2>1, ProcessTaskRuns, RunsExecute
  <2>2. CASE AddFinalBarrier
    BY <2>2, AddFinalBarrierReruns
  <2>3. CASE Validate
    BY <2>3, ValidateReruns
  <2>4. CASE UNCHANGED <<program, done>>
    <3>1. needsBar' = needsBar
      BY <2>4 DEF needsBar
    <3> QED BY <2>4, <3>1 DEF Schedule!schedVars
  <2>5. CASE MapBarrier
    BY <2>5, <2>4 DEF MapBarrier, MapToFree, MapNextInstance, MapConfigured, Map, passVars
  <2>6. CASE EndMapping \/ NextFifo \/ EndRound
    BY <2>6, <2>4 DEF EndMapping, NextFifo, EndRound, passVars
  <2>7. CASE Ended \/ UNCHANGED vars
    BY <2>7, <2>4 DEF Ended, vars
  <2> QED BY <2>1, <2>2, <2>3, <2>5, <2>6, <2>7 DEF Next, SimulationStep
<1> QED BY <1>1, <1>2, Invariant, PTL DEF Spec, ImplementsSchedule, Schedule!Spec

-----------------------------------------------------------------------------
(* The assignment of physical barriers.                                    *)

\* prevVidOfPhysBar is the last barrier that was mapped to each physical one.
LastUseInv ==
    mode = "assign" =>
        \A p \in Pids :
            IF prevVidOfPhysBar[p] = None
            THEN \A i \in 1 .. bar - 1 : realId[declared[i]] # p
            ELSE \E i \in 1 .. bar - 1 :
                    /\ declared[i] = prevVidOfPhysBar[p] /\ realId[declared[i]] = p
                    /\ \A j \in 1 .. bar - 1 : realId[declared[j]] = p => j <= i

-----------------------------------------------------------------------------
(* The barriers of an assignment.                                          *)

(* Tasks that have run were not ordered behind one that has not.           *)
LEMMA DoneClosed ==
    ASSUME ProgramInv, CountInv
    PROVE  \A t \in Task : \A u \in TaskControlMap(program)[t] : u \in done => t \in done
<1>1. Sound(program)
  BY DEF ProgramInv
<1>2. ASSUME NEW t \in Task, NEW u \in DirectSuccessors(program, t), u \in done
      PROVE  t \in done
  <2>1. CASE u \in BarrierSuccessors(program, t)
    <3>1. PICK v \in program.posts[t] : u \in Consumers(program, v)
      BY <2>1 DEF BarrierSuccessors
    <3>2. t \in Producers(program, v) /\ v \in program.waits[u]
      BY <3>1 DEF Producers, Consumers
    <3> QED BY <3>2, <1>2 DEF CountInv
  <2>2. CASE u \in Task /\ u > t /\ program.fifo[u] = program.fifo[t]
    <3>1. t < u
      BY <2>2, Numbers
    <3> QED BY <2>2, <3>1, <1>2 DEF CountInv
  <2> QED BY <2>1, <2>2 DEF DirectSuccessors
<1> QED BY <1>1, <1>2, PathsKeepDone

(* The tasks around a new barrier have not run.                            *)
LEMMA NewUnused ==
    ASSUME ProgramInv, CountInv, NEW v, v \notin Mapped
    PROVE  Producers(program, v) \cap done = {} /\ Consumers(program, v) \cap done = {}
BY DEF CountInv, Producers, Consumers

(* A free physical barrier's earlier barrier has been consumed.            *)
LEMMA FreeConsumed ==
    ASSUME ProgramInv, CountInv, PidsInv, NEW p \in Unmapped, NEW x \in Mapped, realId[x] = p
    PROVE  x # FinalBarrier /\ x \in Range1(declared) /\ Consumers(program, x) \subseteq done
<1>1. x \in Range1(declared) /\ x \in Vid /\ x # None
  <2>1. Len(declared) \in Nat /\ DOMAIN declared = 1 .. Len(declared) /\ bar \in 1 .. Len(declared) + 1
    BY DEF ProgramInv, PidsInv
  <2>2. \A i \in 1 .. bar - 1 : i \in DOMAIN declared
    BY <2>1
  <2>3. Range1(order) \subseteq Range1(declared) /\ Range1(declared) \subseteq Vid
    BY DEF ProgramInv, PidsInv, Range1
  <2>4. x \in Range1(declared)
    BY <2>2, <2>3 DEF Mapped, Range1
  <2> QED BY <2>3, <2>4, Numbers
<1>2. ~Needed(x)
  BY <1>1 DEF PidsInv, Unmapped
<1>3. x # FinalBarrier /\ ~(consumerCount[x] > 0)
  BY <1>2 DEF Needed
<1>4. consumerCount[x] = 0
  BY <1>1, <1>3, CountsAre
<1> QED BY <1>1, <1>3, <1>4, CountsAre

\* Barriers that have been mapped are at the front of the declarations.
LEMMA AssignedRange ==
    ASSUME ProgramInv, PidsInv
    PROVE  /\ Len(declared) \in Nat /\ bar \in Nat /\ bar >= 1 /\ DOMAIN declared = 1 .. Len(declared)
           /\ \A i \in 1 .. bar - 1 : i \in DOMAIN declared /\ declared[i] \in Vid
           /\ mode # "order" => \A i \in 1 .. bar - 1 : declared[i] \in Mapped
<1>1. Len(declared) \in Nat /\ bar \in 1 .. Len(declared) + 1
      /\ DOMAIN declared = 1 .. Len(declared) /\ \A i \in DOMAIN declared : declared[i] \in Vid
  BY LenProperties DEF ProgramInv, PidsInv
<1>2. \A i \in 1 .. bar - 1 : i \in DOMAIN declared
  BY <1>1
<1>3. mode # "order" => \A i \in 1 .. bar - 1 : declared[i] \in Mapped
  BY DEF Mapped
<1> QED BY <1>1, <1>2, <1>3

-----------------------------------------------------------------------------
(* Uses of a physical barrier are ordered.                                 *)

\* In an assignment, mapping is to a physical barrier the next one may have.
LEMMA AssignMaps ==
    ASSUME IInv, MapBarrier, mode = "assign"
    PROVE  \E p : Maps(p, declared[bar]) /\ Usable(p, declared[bar])
<1>1. PICK p, v : Maps(p, v)
  BY MapBarrierMaps DEF IInv
<1>2. v = declared[bar] /\ Usable(p, v)
  BY <1>1 DEF Maps, isDynamicBarriers
<1> QED BY <1>1, <1>2

\* Mapping a barrier makes it the last use of its physical barrier.
LEMMA MapsLastUse ==
    ASSUME ProgramInv, CountInv, PidsInv, LastUseInv, mode = "assign",
           NEW p, Maps(p, declared[bar])
    PROVE  LastUseInv'
<1> DEFINE v == declared[bar]
<1>1. /\ p \in Unmapped /\ v \notin Mapped /\ bar' = bar + 1
      /\ prevVidOfPhysBar' = [prevVidOfPhysBar EXCEPT ![p] = v]
      /\ realId' = [realId EXCEPT ![v] = p]
      /\ UNCHANGED <<mode, declared>>
  BY DEF Maps, passVars
<1>2. v \in Vid /\ v # None /\ p \in Pids /\ Pids' = Pids
  BY MapsPids DEF Maps
<1>3. /\ bar \in Nat /\ bar >= 1
      /\ \A i \in 1 .. bar - 1 : declared[i] \in Mapped /\ declared[i] \in Vid
  BY AssignedRange
<1>4. p \in DOMAIN prevVidOfPhysBar /\ Pids \subseteq DOMAIN prevVidOfPhysBar
  BY <1>2 DEF PidsInv, Pids
<1>5. /\ \A i \in 1 .. bar - 1 : realId'[declared[i]] = realId[declared[i]]
      /\ realId'[v] = p
  BY <1>1, <1>2, <1>3 DEF PidsInv
<1>6. /\ \A i \in 1 .. bar : i \in 1 .. bar - 1 \/ i = bar
      /\ \A i \in 1 .. bar - 1 : i \in 1 .. bar /\ i <= bar
      /\ bar \in 1 .. bar /\ (bar + 1) - 1 = bar
  BY <1>3
<1>7. ASSUME NEW q \in Pids'
      PROVE  IF prevVidOfPhysBar'[q] = None
             THEN \A i \in 1 .. bar' - 1 : realId'[declared'[i]] # q
             ELSE \E i \in 1 .. bar' - 1 :
                    /\ declared'[i] = prevVidOfPhysBar'[q] /\ realId'[declared'[i]] = q
                    /\ \A j \in 1 .. bar' - 1 : realId'[declared'[j]] = q => j <= i
  <2>1. CASE q = p
    <3>1. prevVidOfPhysBar'[q] = v
      BY <2>1, <1>1, <1>4
    <3>2. \A j \in 1 .. bar : j <= bar
      BY <1>3
    <3> QED BY <2>1, <3>1, <3>2, <1>1, <1>2, <1>5, <1>6
  <2>2. CASE q # p
    <3>1. prevVidOfPhysBar'[q] = prevVidOfPhysBar[q] /\ q \in Pids
      BY <2>2, <1>1, <1>2, <1>4
    <3>2. IF prevVidOfPhysBar[q] = None
          THEN \A i \in 1 .. bar - 1 : realId[declared[i]] # q
          ELSE \E i \in 1 .. bar - 1 :
                    /\ declared[i] = prevVidOfPhysBar[q] /\ realId[declared[i]] = q
                    /\ \A j \in 1 .. bar - 1 : realId[declared[j]] = q => j <= i
      BY <3>1 DEF LastUseInv
    <3>3. CASE prevVidOfPhysBar[q] = None
      BY <2>2, <3>1, <3>2, <3>3, <1>1, <1>5, <1>6
    <3>4. CASE prevVidOfPhysBar[q] # None
      <4>1. PICK i \in 1 .. bar - 1 :
                    /\ declared[i] = prevVidOfPhysBar[q] /\ realId[declared[i]] = q
                    /\ \A j \in 1 .. bar - 1 : realId[declared[j]] = q => j <= i
        BY <3>2, <3>4
      <4>2. \A j \in 1 .. bar : realId'[declared[j]] = q => j <= i
        BY <2>2, <4>1, <1>5, <1>6
      <4> QED BY <3>1, <3>4, <4>1, <4>2, <1>1, <1>5, <1>6
    <3> QED BY <3>3, <3>4
  <2> QED BY <2>1, <2>2
<1> QED BY <1>7 DEF LastUseInv

(* The check of the last use is enough: earlier ones are ordered before it. *)
LEMMA MapsReuseOrdered ==
    ASSUME ProgramInv, CountInv, PidsInv, LastUseInv, ReuseOrdered, mode = "assign",
           NEW p, Maps(p, declared[bar]), Usable(p, declared[bar])
    PROVE  ReuseOrdered'
<1> DEFINE v == declared[bar]
           M == TaskControlMap(program)
<1>1. /\ p \in Unmapped /\ v \notin Mapped /\ bar' = bar + 1
      /\ realId' = [realId EXCEPT ![v] = p]
      /\ UNCHANGED <<mode, declared, program, wlmPidProgramming>>
  BY DEF Maps, passVars
<1>2. v \in Vid /\ p \in Pids
  BY MapsPids DEF Maps
<1>3. /\ bar \in Nat /\ bar >= 1
      /\ \A i \in 1 .. bar - 1 : declared[i] \in Mapped /\ declared[i] \in Vid
  BY AssignedRange
<1>4. /\ \A i \in 1 .. bar - 1 : realId'[declared[i]] = realId[declared[i]]
      /\ realId'[v] = p
  BY <1>1, <1>2, <1>3 DEF PidsInv
<1>5. SUFFICES ASSUME wlmPidProgramming,
                      NEW i \in 1 .. bar, NEW j \in 1 .. bar, i < j,
                      realId'[declared[i]] = realId'[declared[j]],
                      NEW c \in Consumers(program, declared[i]),
                      NEW t \in Producers(program, declared[j])
               PROVE  t \in M[c]
  <2>1. (bar + 1) - 1 = bar
    BY <1>3
  <2> QED BY <2>1, <1>1 DEF ReuseOrdered, controlPathExists
<1>6. i \in 1 .. bar - 1 /\ i \in Nat
  BY <1>3, <1>5
<1>7. CASE j \in 1 .. bar - 1
  BY <1>4, <1>5, <1>6, <1>7 DEF ReuseOrdered, controlPathExists
<1>8. CASE j = bar
  <2>1. realId[declared[i]] = p
    BY <1>4, <1>5, <1>6, <1>8
  <2> DEFINE x == prevVidOfPhysBar[p]
  <2>2. x # None
    BY <2>1, <1>2, <1>6 DEF LastUseInv
  <2>3. PICK m \in 1 .. bar - 1 :
            /\ declared[m] = x /\ realId[declared[m]] = p
            /\ \A k \in 1 .. bar - 1 : realId[declared[k]] = p => k <= m
    BY <2>2, <1>2 DEF LastUseInv
  <2>4. x \in Mapped /\ realId[x] = p
    BY <2>3, <1>3
  <2>5. x # FinalBarrier /\ x \in Range1(declared) /\ Consumers(program, x) \subseteq done
    BY <2>4, <1>1, FreeConsumed
  <2>6. \A k \in Consumers(program, x) : \A u \in Producers(program, v) : u \in M[k]
    <3> TAKE k \in Consumers(program, x)
    <3> TAKE u \in Producers(program, v)
    <3>1. u \in M[k] \/ k \in M[u]
      BY <1>5, <2>2 DEF Usable, canBarrierReusePidFromBarrier, controlPathExists
    <3>2. k \in done /\ u \notin done /\ u \in Task
      BY <2>5, <1>1, NewUnused DEF Producers
    <3>3. k \notin M[u]
      BY <3>2, DoneClosed
    <3> QED BY <3>1, <3>3
  <2>7. CASE i = m
    BY <2>3, <2>6, <2>7, <1>5, <1>8
  <2>8. CASE i # m
    <3>1. i <= m /\ i < m
      BY <2>1, <2>3, <2>8, <1>3, <1>6
    <3>2. PICK a \in Producers(program, x) : TRUE
      BY <2>5 DEF ProgramInv
    <3>3. PICK b \in Consumers(program, x) : TRUE
      BY <2>5 DEF ProgramInv
    <3>4. a \in M[c]
      BY <2>1, <2>3, <3>1, <1>5, <1>6 DEF ReuseOrdered, controlPathExists
    <3>5. Sound(program) /\ c \in Task /\ a \in Task /\ b \in Task
      BY DEF ProgramInv, Consumers, Producers
    <3>6. b \in M[a]
      BY <3>5, PathStep
    <3>7. t \in M[b]
      BY <2>6, <1>5, <1>8
    <3> HIDE DEF M
    <3>8. \A k \in Task : \A l \in M[k] : M[l] \subseteq M[k]
      BY <3>5, PathTransitive DEF M
    <3> QED BY <3>4, <3>5, <3>6, <3>7, <3>8
  <2> QED BY <2>7, <2>8
<1>9. j \in 1 .. bar - 1 \/ j = bar
  BY <1>3
<1> QED BY <1>7, <1>8, <1>9

(* Nothing else touches the assignment while it lasts.                     *)
LEMMA AssignFrame ==
    ASSUME LastUseInv, ReuseOrdered, UNCHANGED <<passVars, prevVidOfPhysBar, realId, bar>>,
           Pids' = Pids
    PROVE  LastUseInv' /\ ReuseOrdered'
<1>1. LastUseInv'
  BY DEF LastUseInv, passVars
<1>2. ReuseOrdered'
  BY DEF ReuseOrdered, passVars
<1> QED BY <1>1, <1>2

NothingUsed == bar = 1 /\ \A p \in Pids : prevVidOfPhysBar[p] = None

(* Neither says anything of a simulation that has mapped nothing yet.      *)
LEMMA AssignStarts == NothingUsed => LastUseInv /\ ReuseOrdered
<1>1. 1 .. 1 - 1 = {}
  OBVIOUS
<1> QED BY <1>1 DEF NothingUsed, LastUseInv, ReuseOrdered

(* The same after a step that starts one.                                  *)
LEMMA AssignStartsNext == NothingUsed' => LastUseInv' /\ ReuseOrdered'
BY AssignStarts, PTL

(* With _wlmPidProgramming whatever consumes a barrier is ordered before   *)
(* whatever produces the next one on the same physical barrier, however    *)
(* many uses lie between: the code only compares with the last one, and    *)
(* accepts a path in either direction.                                     *)
THEOREM UsesAreOrdered == Spec => []ReuseOrdered
<1> DEFINE Uses == LastUseInv /\ ReuseOrdered
<1>1. Init => Uses
  BY AssignStarts DEF NothingUsed, Init, Pids
<1>2. IInv /\ Uses /\ [Next]_vars => Uses'
  <2> SUFFICES ASSUME IInv, LastUseInv, ReuseOrdered, [Next]_vars
               PROVE  LastUseInv' /\ ReuseOrdered'
    OBVIOUS
  <2>0. ProgramInv /\ CountInv /\ PidsInv
    BY DEF IInv
  <2>1. CASE MapBarrier
    <3>1. CASE mode = "assign"
      BY <2>0, <2>1, <3>1, AssignMaps, MapsLastUse, MapsReuseOrdered
    <3>2. CASE mode # "assign"
      <4>1. mode' # "assign"
        BY <2>1, <3>2 DEF MapBarrier, MapToFree, MapNextInstance, MapConfigured, Map, passVars
      <4> QED BY <4>1 DEF LastUseInv, ReuseOrdered
    <3> QED BY <3>1, <3>2
  <2>2. CASE EndMapping \/ NextFifo \/ Ended \/ UNCHANGED vars
    BY <2>2, AssignFrame DEF EndMapping, NextFifo, Ended, vars, passVars, Pids
  <2>3. CASE ProcessTask
    <3>1. PICK t : Runs(t)
      BY <2>3, ProcessTaskRuns
    <3> QED BY <2>0, <3>1, RunsPids, AssignFrame DEF Runs
  <2>4. CASE EndRound
    <3>1. CASE Continue \/ Stop
      BY <2>4, <3>1, AssignFrame DEF EndRound, Continue, Stop, Pids
    <3>2. CASE Grow \/ Shrink
      <4>1. mode' # "assign"
        BY <2>4, <3>2 DEF EndRound, Grow, Shrink, Exceeding, barrierLegalizationSim, passVars
      <4> QED BY <4>1 DEF LastUseInv, ReuseOrdered
    <3> QED BY <2>4, <3>1, <3>2 DEF EndRound
  <2>5. CASE AddFinalBarrier \/ Validate
    BY <2>5, AssignStartsNext DEF NothingUsed, AddFinalBarrier, AssignPhysicalBarriers, Validate, StartSimulation, Pids
  <2> QED BY <2>1, <2>2, <2>3, <2>4, <2>5 DEF Next, SimulationStep
<1>3. Uses => ReuseOrdered
  OBVIOUS
<1> HIDE DEF Uses
<1> QED BY <1>1, <1>2, <1>3, Invariant, PTL DEF Spec

-----------------------------------------------------------------------------
(* What an assignment leaves can be executed.                              *)

\* The tasks in S ran, at times ran, after those before them on their FIFOs,
\* after the producers they wait for, and after their barriers were mapped, at
\* times got.
RanInOrder(S, ran, got) ==
    \A t \in S :
        /\ \A u \in Task : u < t /\ program.fifo[u] = program.fifo[t] => ran[u] < ran[t]
        /\ \A v \in program.waits[t] : \A u \in Producers(program, v) : ran[u] < ran[t]
        /\ \A v \in program.waits[t] \cup program.posts[t] : got[v] < ran[t]

\* Of the first n barriers of seq, one that has the same physical barrier as an
\* earlier one was mapped when the consumers of that were among S, and past.
ReusedInOrder(seq, n, S, ran, got) ==
    \A i, j \in 1 .. n :
        i < j /\ realId[seq[i]] = realId[seq[j]] =>
            /\ seq[i] # FinalBarrier
            /\ \A c \in Consumers(program, seq[i]) : c \in S /\ ran[c] < got[seq[j]]

\* The barriers in the order in which they are mapped.
MapSeq == IF mode = "order" THEN order ELSE declared

History(now, ran, got) ==
    /\ RanInOrder(done, ran, got)
    /\ ReusedInOrder(MapSeq, bar - 1, done, ran, got)
    /\ \A t \in done : ran[t] < now
    /\ \A i \in 1 .. bar - 1 : got[MapSeq[i]] < now /\ realId[MapSeq[i]] \in 1 .. NumPids
    /\ \A i, j \in 1 .. bar - 1 : i < j => got[MapSeq[i]] < got[MapSeq[j]]

\* An assignment can be dated.
AssignInv ==
    mode \in {"assign", "order"} =>
        /\ mode \in AssignMode \/ mode = "assign"
        /\ \E now \in Nat, ran \in [Task -> Nat], got \in [Vid -> Nat] : History(now, ran, got)

Replay(ran, got) ==
    /\ RanInOrder(Task, ran, got)
    /\ ReusedInOrder(declared, Len(declared), Task, ran, got)
    /\ \A i, j \in 1 .. Len(declared) :
           i < j /\ (declared[j] # FinalBarrier \/ "order" \notin AssignMode)
               => got[declared[i]] < got[declared[j]]

\* What is validated comes from an assignment that can; only the final barrier
\* may have changed its place.
ReplayInv ==
    mode = "validate" =>
        /\ \A i \in 1 .. Len(declared) : realId[declared[i]] \in 1 .. NumPids
        /\ \E ran \in [Task -> Nat], got \in [Vid -> Nat] : Replay(ran, got)

(* The next event of an assignment: a barrier is mapped.                   *)
LEMMA MapsHistory ==
    ASSUME ProgramInv, CountInv, PidsInv, NEW now \in Nat, NEW ran \in [Task -> Nat],
           NEW got \in [Vid -> Nat], History(now, ran, got),
           mode \in {"assign", "order"}, NEW p, NEW v, Maps(p, v)
    PROVE  History(now + 1, ran, [got EXCEPT ![v] = now])'
<1> DEFINE gone == [got EXCEPT ![v] = now]
<1>1. /\ p \in Unmapped /\ v \notin Mapped /\ bar' = bar + 1
      /\ realId' = [realId EXCEPT ![v] = p]
      /\ UNCHANGED <<program, declared, mode, done>>
  BY DEF Maps, passVars
<1>2. v \in Vid /\ p \in Pids
  BY MapsPids
<1>3. p \in 1 .. NumPids
  BY <1>2, LenProperties DEF PidsInv, Pids
<1>4. bar \in Nat /\ bar >= 1 /\ bar' - 1 = bar
  BY <1>1, AssignedRange
<1>5. ASSUME NEW i \in 1 .. bar - 1
      PROVE  MapSeq[i] \in Mapped /\ MapSeq[i] \in Vid /\ MapSeq'[i] = MapSeq[i]
  <2>1. CASE mode = "order"
    <3>1. order \in Seq(Vid) /\ Len(order) = bar - 1
      <4>1. Range1(declared) \subseteq Vid
        BY DEF ProgramInv, Range1
      <4> QED BY <2>1, <4>1, SeqMonotonic DEF PidsInv
    <3>2. order' = Append(order, v)
      BY <2>1 DEF Maps
    <3>3. i \in 1 .. Len(order) /\ i \in DOMAIN order /\ order[i] \in Vid
      BY <3>1, LenProperties
    <3>4. order'[i] = order[i]
      BY <1>2, <3>1, <3>2, <3>3, AppendProperties
    <3> QED BY <1>1, <2>1, <3>3, <3>4 DEF MapSeq, Mapped, Range1
  <2>2. CASE mode # "order"
    BY <1>1, <2>2, AssignedRange DEF MapSeq
  <2> QED BY <2>1, <2>2
<1>6. MapSeq'[bar] = v
  <2>1. CASE mode = "order"
    <3>1. order \in Seq(Vid) /\ Len(order) = bar - 1
      <4>1. Range1(declared) \subseteq Vid
        BY DEF ProgramInv, Range1
      <4> QED BY <2>1, <4>1, SeqMonotonic DEF PidsInv
    <3>2. order' = Append(order, v)
      BY <2>1 DEF Maps
    <3>3. Len(order) + 1 = bar
      BY <1>4, <3>1
    <3>4. order'[bar] = v
      BY <1>2, <3>1, <3>2, <3>3, AppendProperties
    <3> QED BY <1>1, <2>1, <3>4 DEF MapSeq
  <2>2. CASE mode # "order"
    BY <1>1, <2>2 DEF MapSeq, Maps
  <2> QED BY <2>1, <2>2
<1>7. /\ \A x \in Mapped : x # v
      /\ gone \in [Vid -> Nat] /\ gone[v] = now
      /\ \A x \in Vid \ {v} : gone[x] = got[x] /\ realId'[x] = realId[x]
      /\ realId'[v] = p
  BY <1>1, <1>2 DEF PidsInv
<1>8. ASSUME NEW i \in 1 .. bar - 1
      PROVE  /\ gone[MapSeq'[i]] = got[MapSeq[i]] /\ got[MapSeq[i]] < now
             /\ got[MapSeq[i]] \in Nat
             /\ realId'[MapSeq'[i]] = realId[MapSeq[i]] /\ realId[MapSeq[i]] \in 1 .. NumPids
             /\ MapSeq'[i] = MapSeq[i] /\ MapSeq[i] \in Mapped
  BY <1>5, <1>7 DEF History
<1> HIDE DEF gone
<1>9. /\ \A i \in 1 .. bar : i \in 1 .. bar - 1 \/ i = bar
      /\ \A i, j \in 1 .. bar : i < j => i \in 1 .. bar - 1
  BY <1>4
<1>10. RanInOrder(done, ran, gone)'
  <2>1. ASSUME NEW t \in done, NEW x \in program.waits[t] \cup program.posts[t]
        PROVE  gone[x] < ran[t]
    <3>1. x \in Mapped /\ x \in Vid
      BY BarriersOf DEF CountInv
    <3>2. gone[x] = got[x]
      BY <1>7, <3>1
    <3> QED BY <3>2 DEF History, RanInOrder
  <2> QED BY <1>1, <2>1 DEF History, RanInOrder
<1>11. ReusedInOrder(MapSeq, bar - 1, done, ran, gone)'
  <2> SUFFICES ASSUME NEW i \in 1 .. bar, NEW j \in 1 .. bar, i < j,
                      realId'[MapSeq'[i]] = realId'[MapSeq'[j]]
               PROVE  /\ MapSeq'[i] # FinalBarrier
                      /\ \A c \in Consumers(program, MapSeq'[i]) :
                             c \in done /\ ran[c] < gone[MapSeq'[j]]
    BY <1>1, <1>4 DEF ReusedInOrder
  <2>1. i \in 1 .. bar - 1
    BY <1>9
  <2>2. CASE j \in 1 .. bar - 1
    <3>1. realId[MapSeq[i]] = realId[MapSeq[j]]
      BY <2>1, <2>2, <1>8
    <3>2. /\ MapSeq[i] # FinalBarrier
          /\ \A c \in Consumers(program, MapSeq[i]) : c \in done /\ ran[c] < got[MapSeq[j]]
      BY <2>1, <2>2, <3>1 DEF History, ReusedInOrder
    <3> QED BY <2>1, <2>2, <3>2, <1>8
  <2>3. CASE j = bar
    <3>1. realId[MapSeq[i]] = p /\ MapSeq[i] \in Mapped
      BY <2>1, <2>3, <1>6, <1>7, <1>8
    <3>2. MapSeq[i] # FinalBarrier /\ Consumers(program, MapSeq[i]) \subseteq done
      BY <1>1, <3>1, FreeConsumed
    <3>3. \A c \in done : ran[c] < now
      BY DEF History
    <3>4. gone[MapSeq'[j]] = now
      BY <2>3, <1>6, <1>7
    <3> QED BY <2>1, <3>2, <3>3, <3>4, <1>8
  <2> QED BY <2>2, <2>3, <1>9
<1>12. \A t \in done : ran[t] < now + 1
  <2>1. \A t \in done : ran[t] \in Nat /\ ran[t] < now
    BY DEF History, CountInv
  <2> QED BY <2>1
<1>13. ASSUME NEW i \in 1 .. bar
       PROVE  gone[MapSeq'[i]] < now + 1 /\ realId'[MapSeq'[i]] \in 1 .. NumPids
  <2>1. CASE i \in 1 .. bar - 1
    BY <2>1, <1>8
  <2>2. CASE i = bar
    BY <2>2, <1>3, <1>6, <1>7
  <2> QED BY <2>1, <2>2, <1>9
<1>14. ASSUME NEW i \in 1 .. bar, NEW j \in 1 .. bar, i < j
       PROVE  gone[MapSeq'[i]] < gone[MapSeq'[j]]
  <2>1. i \in 1 .. bar - 1
    BY <1>9, <1>14
  <2>2. CASE j \in 1 .. bar - 1
    <3>1. got[MapSeq[i]] < got[MapSeq[j]]
      BY <1>14, <2>1, <2>2 DEF History
    <3> QED BY <2>1, <2>2, <3>1, <1>8
  <2>3. CASE j = bar
    BY <2>1, <2>3, <1>6, <1>7, <1>8
  <2> QED BY <2>2, <2>3, <1>9
<1>15. (\A t \in done : ran[t] < now + 1)'
  BY <1>1, <1>12
<1> QED BY <1>4, <1>10, <1>11, <1>13, <1>14, <1>15 DEF History, gone

(* Or a task runs.                                                         *)
LEMMA RunsHistory ==
    ASSUME ProgramInv, CountInv, PidsInv, NEW now \in Nat, NEW ran \in [Task -> Nat],
           NEW got \in [Vid -> Nat], History(now, ran, got), NEW t, Runs(t)
    PROVE  History(now + 1, [ran EXCEPT ![t] = now], got)'
<1> DEFINE then == [ran EXCEPT ![t] = now]
<1>1. /\ t \in Task \ done /\ Ready(t) /\ done' = done \cup {t}
      /\ \A u \in Task \ done : program.fifo[u] = program.fifo[t] => t <= u
      /\ UNCHANGED <<program, declared, mode, bar, order, realId>>
  BY DEF Runs, passVars
<1>2. MapSeq' = MapSeq
  BY <1>1 DEF MapSeq
<1>3. /\ then \in [Task -> Nat] /\ then[t] = now
      /\ \A u \in done : then[u] = ran[u] /\ ran[u] < now /\ ran[u] \in Nat /\ u \in Task
  BY <1>1 DEF History, CountInv
<1>4. /\ \A v \in program.waits[t] \cup program.posts[t] : v \in Mapped
      /\ \A v \in program.waits[t] : Producers(program, v) \subseteq done
  BY <1>1, ReadyMapped
<1>5. \A v \in Mapped : got[v] < now
  <2>1. CASE mode = "order"
    <3>1. Len(order) = bar - 1 /\ DOMAIN order = 1 .. Len(order)
      BY <2>1 DEF PidsInv
    <3> QED BY <2>1, <3>1 DEF History, MapSeq, Mapped, Range1
  <2>2. CASE mode # "order"
    BY <2>2 DEF History, MapSeq, Mapped
  <2> QED BY <2>1, <2>2
<1> HIDE DEF then
<1>6. ASSUME NEW s \in done'
      PROVE  /\ \A u \in Task : u < s /\ program.fifo[u] = program.fifo[s] => then[u] < then[s]
             /\ \A v \in program.waits[s] : \A u \in Producers(program, v) : then[u] < then[s]
             /\ \A v \in program.waits[s] \cup program.posts[s] : got[v] < then[s]
  <2>1. CASE s = t
    <3>1. ASSUME NEW u \in Task, u < t, program.fifo[u] = program.fifo[t] PROVE u \in done
      <4>1. u \in Nat /\ t \in Nat
        BY <1>1, Numbers
      <4> QED BY <1>1, <3>1, <4>1
    <3> QED BY <2>1, <3>1, <1>3, <1>4, <1>5
  <2>2. CASE s # t
    <3>1. s \in done /\ then[s] = ran[s]
      BY <2>2, <1>1, <1>3
    <3>2. /\ \A u \in Task : u < s /\ program.fifo[u] = program.fifo[s] => u \in done
          /\ \A v \in program.waits[s] : Producers(program, v) \subseteq done
      BY <3>1 DEF CountInv
    <3> QED BY <3>1, <3>2, <1>3 DEF History, RanInOrder
  <2> QED BY <2>1, <2>2
<1>7. RanInOrder(done, then, got)'
  BY <1>1, <1>6 DEF RanInOrder
<1>8. ReusedInOrder(MapSeq, bar - 1, done, then, got)'
  <2>1. ASSUME NEW i \in 1 .. bar - 1, NEW j \in 1 .. bar - 1, i < j,
               realId[MapSeq[i]] = realId[MapSeq[j]]
        PROVE  /\ MapSeq[i] # FinalBarrier
               /\ \A c \in Consumers(program, MapSeq[i]) :
                      c \in done /\ then[c] < got[MapSeq[j]]
    BY <2>1, <1>3 DEF History, ReusedInOrder
  <2> QED BY <1>1, <1>2, <2>1 DEF ReusedInOrder
<1>9. ASSUME NEW s \in done' PROVE then[s] < now + 1
  BY <1>1, <1>3
<1>10. ASSUME NEW i \in 1 .. bar - 1 PROVE got[MapSeq[i]] < now + 1
  <2>1. MapSeq[i] \in Vid /\ got[MapSeq[i]] < now
    <3>1. Range1(declared) \subseteq Vid
      BY DEF ProgramInv, Range1
    <3>2. mode = "order" => order[i] \in Vid
      BY <3>1, LenProperties DEF PidsInv
    <3>3. mode # "order" => declared[i] \in Vid
      BY AssignedRange
    <3> QED BY <3>2, <3>3 DEF MapSeq, History
  <2> QED BY <2>1
<1> QED BY <1>1, <1>2, <1>7, <1>8, <1>9, <1>10 DEF History, then

(* Nothing else happens to an assignment.                                  *)
LEMMA HistoryFrame ==
    ASSUME AssignInv, UNCHANGED <<passVars, realId, bar, done, order>>
    PROVE  AssignInv'
<1>1. UNCHANGED <<program, declared, mode, realId, bar, done, order>> /\ MapSeq' = MapSeq
  BY DEF passVars, MapSeq
<1>2. ASSUME NEW now, NEW ran, NEW got, History(now, ran, got)
      PROVE  History(now, ran, got)'
  BY <1>1, <1>2 DEF History, RanInOrder, ReusedInOrder
<1>3. SUFFICES ASSUME mode \in {"assign", "order"}
               PROVE  /\ mode \in AssignMode \/ mode = "assign"
                      /\ \E now \in Nat, ran \in [Task -> Nat], got \in [Vid -> Nat] :
                             History(now, ran, got)'
  BY <1>1 DEF AssignInv
<1>4. PICK now \in Nat, ran \in [Task -> Nat], got \in [Vid -> Nat] : History(now, ran, got)
  BY <1>3 DEF AssignInv
<1> QED BY <1>2, <1>3, <1>4 DEF AssignInv

NoHistory == bar = 1 /\ done = {} /\ (mode = "order" => "order" \in AssignMode)

(* One that has just begun has no past.                                    *)
LEMMA HistoryStarts == NoHistory => AssignInv
<1> SUFFICES ASSUME NoHistory, mode \in {"assign", "order"} PROVE AssignInv
  BY DEF AssignInv
<1>0. bar = 1 /\ done = {} /\ (mode = "order" => "order" \in AssignMode)
  BY DEF NoHistory
<1> DEFINE ran == [t \in Task |-> 0]
           got == [v \in Vid |-> 0]
<1>1. 1 .. bar - 1 = {}
  BY <1>0
<1>2. History(0, ran, got)
  BY <1>0, <1>1 DEF History, RanInOrder, ReusedInOrder
<1>3. ran \in [Task -> Nat] /\ got \in [Vid -> Nat] /\ 0 \in Nat
  OBVIOUS
<1> HIDE DEF ran, got
<1> QED BY <1>0, <1>2, <1>3 DEF AssignInv

(* The same after a step that starts one.                                  *)
LEMMA HistoryStartsNext == NoHistory' => AssignInv'
BY HistoryStarts, PTL

(* An assignment stays dated.                                              *)
LEMMA AssignInvKept == IInv /\ AssignInv /\ [Next]_vars => AssignInv'
<1> SUFFICES ASSUME IInv, AssignInv, [Next]_vars PROVE AssignInv'
  OBVIOUS
<1>0. ProgramInv /\ CountInv /\ PidsInv
  BY DEF IInv
<1>1. CASE MapBarrier
  <2>1. PICK p, v : Maps(p, v)
    BY <1>0, <1>1, MapBarrierMaps
  <2>2. mode' = mode
    BY <2>1 DEF Maps, passVars
  <2>3. SUFFICES ASSUME mode \in {"assign", "order"} PROVE AssignInv'
    BY <2>2 DEF AssignInv
  <2>4. PICK now \in Nat, ran \in [Task -> Nat], got \in [Vid -> Nat] : History(now, ran, got)
    BY <2>3 DEF AssignInv
  <2>5. History(now + 1, ran, [got EXCEPT ![v] = now])'
    BY <1>0, <2>1, <2>3, <2>4, MapsHistory
  <2>6. now + 1 \in Nat /\ [got EXCEPT ![v] = now] \in [Vid -> Nat]
    BY <1>0, <2>1, MapsPids
  <2> QED BY <2>2, <2>3, <2>5, <2>6 DEF AssignInv
<1>2. CASE EndMapping \/ NextFifo \/ Ended \/ UNCHANGED vars
  BY <1>2, HistoryFrame DEF EndMapping, NextFifo, Ended, vars, passVars
<1>3. CASE ProcessTask
  <2>1. PICK t : Runs(t)
    BY <1>3, ProcessTaskRuns
  <2>2. mode' = mode /\ t \in Task
    BY <2>1 DEF Runs, passVars
  <2>3. SUFFICES ASSUME mode \in {"assign", "order"} PROVE AssignInv'
    BY <2>2 DEF AssignInv
  <2>4. PICK now \in Nat, ran \in [Task -> Nat], got \in [Vid -> Nat] : History(now, ran, got)
    BY <2>3 DEF AssignInv
  <2>5. History(now + 1, [ran EXCEPT ![t] = now], got)'
    BY <1>0, <2>1, <2>4, RunsHistory
  <2>6. now + 1 \in Nat /\ [ran EXCEPT ![t] = now] \in [Task -> Nat]
    BY <2>2
  <2> QED BY <2>2, <2>3, <2>5, <2>6 DEF AssignInv
<1>4. CASE EndRound
  <2>1. CASE Continue \/ Stop
    BY <1>4, <2>1, HistoryFrame DEF EndRound, Continue, Stop
  <2>2. CASE Grow \/ Shrink
    <3>1. mode' = "legalize"
      BY <1>4, <2>2 DEF EndRound, Grow, Shrink, Exceeding, barrierLegalizationSim, passVars
    <3> QED BY <3>1 DEF AssignInv
  <2> QED BY <1>4, <2>1, <2>2 DEF EndRound
<1>5. CASE AddFinalBarrier
  BY <1>5, HistoryStartsNext DEF NoHistory, AddFinalBarrier, AssignPhysicalBarriers, StartSimulation
<1>6. CASE Validate
  BY <1>6, HistoryStartsNext DEF NoHistory, Validate, StartSimulation
<1> QED BY <1>1, <1>2, <1>3, <1>4, <1>5, <1>6 DEF Next, SimulationStep

-----------------------------------------------------------------------------
(* reorderBarriers keeps the order, but for the final barrier.             *)

(* What is left of a sequence is in its order.                             *)
LEMMA WithoutOrdered ==
    ASSUME NEW S, NEW s \in Seq(S), NEW R,
           NEW i \in 1 .. Len(Without(s, R)), NEW j \in 1 .. Len(Without(s, R)), i < j
    PROVE  \E p, q \in 1 .. Len(s) :
               p < q /\ s[p] = Without(s, R)[i] /\ s[q] = Without(s, R)[j]
<1> DEFINE D == DOMAIN s \ R
           kept == Increasing(D)
           c == Cardinality(D)
<1>1. IsFiniteSet(D) /\ D \in SUBSET Nat /\ Len(Without(s, R)) = c
  BY WithoutIsSeq
<1>2. D \subseteq 1 .. Len(s)
  OBVIOUS
<1>3. Without(s, R) = [k \in DOMAIN kept |-> s[kept[k]]]
  BY DEF Without
<1> HIDE DEF D
<1>4. c \in Nat /\ DOMAIN kept = 1 .. c /\ \A k \in 1 .. c : kept[k] \in D
  BY <1>1, IncreasingOrders
<1>5. i \in 1 .. c /\ j \in 1 .. c
  BY <1>1
<1>6. kept[i] < kept[j]
  BY <1>1, <1>5, IncreasingGrows
<1> HIDE DEF kept, c
<1> QED BY <1>2, <1>3, <1>4, <1>5, <1>6

(* The order that is programmed is the one that was found, except that the *)
(* final barrier may come later.                                           *)
LEMMA ReorderedOrder ==
    ASSUME ProgramInv, PidsInv,
           NEW i \in 1 .. Len(Reordered), NEW j \in 1 .. Len(Reordered), i < j
    PROVE  \E p, q \in 1 .. Len(order) :
               /\ order[p] = Reordered[i] /\ order[q] = Reordered[j] /\ p # q
               /\ Reordered[j] # FinalBarrier => p < q
<1>1. /\ Reordered \in Seq(Vid) /\ IsInjective(Reordered)
      /\ Range1(Reordered) = Range1(order)
  BY ReorderedRight
<1>2. order \in Seq(Vid)
  <2>1. Range1(declared) \subseteq Vid
    BY DEF ProgramInv, Range1
  <2> QED BY <2>1, SeqMonotonic DEF PidsInv
<1>3. CASE Reordered[j] = FinalBarrier
  <2>1. Reordered[i] \in Range1(order) /\ Reordered[j] \in Range1(order)
    <3>1. i \in DOMAIN Reordered /\ j \in DOMAIN Reordered
      BY <1>1
    <3>2. Reordered[i] \in Range1(Reordered) /\ Reordered[j] \in Range1(Reordered)
      BY <3>1 DEF Range1
    <3> QED BY <1>1, <3>2
  <2>2. PICK p \in 1 .. Len(order) : order[p] = Reordered[i]
    BY <1>2, <2>1 DEF Range1
  <2>3. PICK q \in 1 .. Len(order) : order[q] = Reordered[j]
    BY <1>2, <2>1 DEF Range1
  <2>4. p # q
    <3>1. Reordered[i] # Reordered[j]
      BY <1>1 DEF IsInjective
    <3> QED BY <2>2, <2>3, <3>1
  <2> QED BY <1>3, <2>2, <2>3, <2>4
<1>4. CASE Reordered[j] # FinalBarrier
  <2> DEFINE F == {k \in DOMAIN order : order[k] = FinalBarrier}
             w == Without(order, F)
             c == Cardinality(F)
             e == [k \in 1 .. c |-> FinalBarrier]
  <2>1. Reordered = w \o e
    BY DEF Reordered
  <2>2. w \in Seq(Vid) /\ Len(w) \in Nat
    BY <1>2, WithoutIsSeq, LenProperties
  <2>3. IsFiniteSet(F) /\ c \in Nat
    <3>1. F \in SUBSET DOMAIN order /\ IsFiniteSet(DOMAIN order)
      <4>1. DOMAIN order \ {} = DOMAIN order
        OBVIOUS
      <4>2. IsFiniteSet(DOMAIN order \ {})
        BY <1>2, WithoutIsSeq
      <4> QED BY <4>1, <4>2
    <3> HIDE DEF F
    <3> QED BY <3>1, FS_Subset, FS_CardinalityType
  <2> HIDE DEF F, w, c
  <2>4. e \in Seq(Vid) /\ Len(e) = c /\ \A k \in 1 .. c : e[k] = FinalBarrier
    <3>1. e \in [1 .. c -> Vid]
      BY Numbers
    <3> QED BY <2>3, <3>1
  <2> HIDE DEF e
  <2>5. /\ Len(Reordered) = Len(w) + c
        /\ \A k \in 1 .. Len(w) + c :
              Reordered[k] = IF k <= Len(w) THEN w[k] ELSE e[k - Len(w)]
    BY <2>1, <2>2, <2>4, ConcatProperties
  <2>6. j <= Len(w)
    <3> SUFFICES ASSUME ~(j <= Len(w)) PROVE FALSE
      OBVIOUS
    <3>1. j \in 1 .. Len(w) + c /\ j - Len(w) \in 1 .. c
      BY <2>2, <2>3, <2>5
    <3> QED BY <1>4, <2>4, <2>5, <3>1
  <2>7. i \in 1 .. Len(w) /\ j \in 1 .. Len(w)
    BY <2>2, <2>3, <2>5, <2>6
  <2>8. Reordered[i] = w[i] /\ Reordered[j] = w[j]
    BY <2>2, <2>3, <2>5, <2>7
  <2>9. \E p, q \in 1 .. Len(order) : p < q /\ order[p] = w[i] /\ order[q] = w[j]
    BY <1>2, <2>7, WithoutOrdered DEF w
  <2>10. PICK p \in 1 .. Len(order) : \E q \in 1 .. Len(order) :
             p < q /\ order[p] = w[i] /\ order[q] = w[j]
    BY <2>9
  <2>11. PICK q \in 1 .. Len(order) : p < q /\ order[p] = w[i] /\ order[q] = w[j]
    BY <2>10
  <2>12. p # q
    BY <1>2, <2>11
  <2> QED BY <2>8, <2>11, <2>12
<1> QED BY <1>3, <1>4

(* BarrierSimulation is given what can be replayed.                        *)
LEMMA ValidateReplays ==
    ASSUME IInv, AssignInv, Validate
    PROVE  ReplayInv'
<1>1. ProgramInv /\ CountInv /\ PidsInv /\ done = Task /\ bar = Len(declared) + 1
  BY DEF IInv, RoundInv, Validate
<1>2. /\ mode \in {"assign", "order"} /\ mode' = "validate"
      /\ declared' = IF mode = "order" THEN Reordered ELSE declared
      /\ UNCHANGED <<program, realId>>
  BY DEF Validate
<1>3. PICK now \in Nat, ran \in [Task -> Nat], got \in [Vid -> Nat] : History(now, ran, got)
  BY <1>2 DEF AssignInv
<1>4. RanInOrder(Task, ran, got)'
  BY <1>1, <1>2, <1>3 DEF History, RanInOrder
<1>5. CASE mode = "assign"
  <2>1. bar - 1 = Len(declared) /\ MapSeq = declared /\ declared' = declared
    <3>1. Len(declared) \in Nat
      BY <1>1 DEF ProgramInv
    <3> QED BY <1>1, <1>2, <1>5, <3>1 DEF MapSeq
  <2>2. ReusedInOrder(declared, Len(declared), Task, ran, got)'
    BY <1>1, <1>2, <1>3, <2>1 DEF History, ReusedInOrder
  <2>3. /\ \A i \in 1 .. Len(declared) : realId[declared[i]] \in 1 .. NumPids
        /\ \A i, j \in 1 .. Len(declared) : i < j => got[declared[i]] < got[declared[j]]
    BY <1>3, <2>1 DEF History
  <2>4. Replay(ran, got)'
    BY <1>4, <2>1, <2>2, <2>3 DEF Replay
  <2> QED BY <1>2, <2>1, <2>3, <2>4 DEF ReplayInv
<1>6. CASE mode = "order"
  <2>1. /\ bar - 1 = Len(order) /\ MapSeq = order /\ declared' = Reordered
        /\ "order" \in AssignMode
    BY <1>1, <1>2, <1>6 DEF PidsInv, MapSeq, AssignInv
  <2> DEFINE D == Reordered
             n == Len(order)
  <2>2. D \in Seq(Vid) /\ Range1(D) = Range1(order)
    BY <1>1, ReorderedRight
  <2>3. /\ \A p \in 1 .. n : realId[order[p]] \in 1 .. NumPids
        /\ \A p, q \in 1 .. n : p < q => got[order[p]] < got[order[q]]
        /\ \A p, q \in 1 .. n : p < q /\ realId[order[p]] = realId[order[q]] =>
               /\ order[p] # FinalBarrier
               /\ \A c \in Consumers(program, order[p]) : c \in Task /\ ran[c] < got[order[q]]
    BY <1>1, <1>3, <2>1 DEF History, ReusedInOrder
  <2>4. \A i \in 1 .. Len(D) : realId[D[i]] \in 1 .. NumPids
    <3> TAKE i \in 1 .. Len(D)
    <3>1. i \in DOMAIN D
      BY <2>2
    <3>2. D[i] \in Range1(order) /\ order \in Seq(Range1(declared))
      BY <1>1, <2>2, <3>1 DEF Range1, PidsInv
    <3>3. PICK p \in 1 .. n : D[i] = order[p]
      BY <3>2 DEF Range1
    <3> QED BY <2>3, <3>3
  <2>5. ASSUME NEW i \in 1 .. Len(D), NEW j \in 1 .. Len(D), i < j
        PROVE  /\ D[j] # FinalBarrier => got[D[i]] < got[D[j]]
               /\ realId[D[i]] = realId[D[j]] =>
                      /\ D[i] # FinalBarrier
                      /\ \A c \in Consumers(program, D[i]) : c \in Task /\ ran[c] < got[D[j]]
    <3>1. \E p, q \in 1 .. n :
              order[p] = D[i] /\ order[q] = D[j] /\ p # q /\ (D[j] # FinalBarrier => p < q)
      BY <1>1, <2>5, ReorderedOrder
    <3> HIDE DEF D
    <3>2. PICK p \in 1 .. n : \E q \in 1 .. n :
              order[p] = D[i] /\ order[q] = D[j] /\ p # q /\ (D[j] # FinalBarrier => p < q)
      BY <3>1
    <3>3. PICK q \in 1 .. n :
              order[p] = D[i] /\ order[q] = D[j] /\ p # q /\ (D[j] # FinalBarrier => p < q)
      BY <3>2
    <3>4. D[j] # FinalBarrier => got[D[i]] < got[D[j]]
      BY <2>3, <3>3
    <3>5. CASE p < q
      BY <2>3, <3>3, <3>4, <3>5
    <3>6. CASE ~(p < q)
      <4>1. q < p /\ order[q] = FinalBarrier
        BY <3>3, <3>6
      <4>2. realId[D[i]] # realId[D[j]]
        BY <2>3, <3>3, <4>1
      <4> QED BY <3>4, <4>2
    <3> QED BY <3>5, <3>6
  <2> HIDE DEF D, n
  <2>6. declared' = D
    BY <2>1 DEF D
  <2>7. ReusedInOrder(declared, Len(declared), Task, ran, got)'
    BY <1>2, <2>5, <2>6 DEF ReusedInOrder
  <2>8. Replay(ran, got)'
    BY <1>4, <2>1, <2>5, <2>6, <2>7 DEF Replay
  <2> QED BY <1>2, <2>4, <2>6, <2>8 DEF ReplayInv
<1> QED BY <1>2, <1>5, <1>6

-----------------------------------------------------------------------------
(* An assignment that can be replayed is executed to its end.              *)

(* Of the tasks that have not run, the one that ran first is at the head   *)
(* of its FIFO, and nothing but the place of the final barrier holds it.   *)
LEMMA BlockedHeld ==
    ASSUME IInv, ReplayInv, mode = "validate", pc = "round", ~progressed
    PROVE  "order" \in AssignMode /\ \E f \in Fifo : \E t \in AtHead(f) : HeldByFinalBarrier(t)
<1> DEFINE n == Len(declared)
<1>1. ProgramInv /\ CountInv /\ PidsInv /\ RoundInv
  BY DEF IInv
<1>2. /\ ~CanMap /\ (bar <= n \/ done # Task)
      /\ \A f \in Fifo : \A t \in AtHead(f) : ~Ready(t)
  BY <1>1 DEF RoundInv
<1>3. PICK ran \in [Task -> Nat], got \in [Vid -> Nat] : Replay(ran, got)
  BY DEF ReplayInv
<1>4. /\ n \in Nat /\ bar \in Nat /\ bar >= 1 /\ DOMAIN declared = 1 .. n
      /\ \A i \in 1 .. n : declared[i] \in Vid
      /\ Mapped = {declared[i] : i \in 1 .. bar - 1}
      /\ Pids = 1 .. NumPids /\ bar <= n + 1
  BY <1>1, AssignedRange, LenProperties DEF Mapped, PidsInv, ProgramInv, Pids
<1>5. ASSUME bar <= n
      PROVE  \E c \in Task \ done : ran[c] < got[declared[bar]]
  <2> DEFINE b == declared[bar]
  <2>1. realId[b] \in Pids /\ realId[b] \notin Unmapped
    <3>1. realId[b] \notin Unmapped
      BY <1>2, <1>5 DEF CanMap, isDynamicBarriers
    <3>2. bar \in 1 .. n
      BY <1>4, <1>5
    <3> QED BY <1>4, <3>1, <3>2 DEF ReplayInv
  <2> DEFINE x == toVirtual[realId[b]]
  <2>2. realId[x] = realId[b] /\ x \in Mapped /\ Needed(x)
    BY <1>1, <2>1 DEF PidsInv, Unmapped
  <2>3. PICK i \in 1 .. bar - 1 : x = declared[i]
    BY <1>4, <2>2
  <2>4. i \in 1 .. n /\ bar \in 1 .. n /\ i < bar
    BY <1>4, <1>5
  <2>5. /\ x # FinalBarrier
        /\ \A c \in Consumers(program, x) : c \in Task /\ ran[c] < got[b]
    BY <1>3, <2>2, <2>3, <2>4 DEF Replay, ReusedInOrder
  <2>6. consumerCount[x] # 0 /\ x \in Vid
    <3>1. x \in Vid
      BY <1>4, <2>3, <2>4
    <3>2. consumerCount[x] > 0
      BY <2>2, <2>5 DEF Needed
    <3> QED BY <3>1, <3>2
  <2>7. ~(Consumers(program, x) \subseteq done)
    BY <1>1, <2>6, CountsAre
  <2> QED BY <2>5, <2>7
<1>6. PICK t \in Task \ done : \A u \in Task \ done : ran[t] <= ran[u]
  <2> DEFINE Times == {ran[u] : u \in Task \ done}
  <2>1. Task \ done # {}
    <3>1. CASE bar <= n
      BY <1>5, <3>1
    <3>2. CASE ~(bar <= n)
      BY <1>1, <1>2, <3>2 DEF CountInv
    <3> QED BY <3>1, <3>2
  <2>2. Times \in SUBSET Nat /\ Times # {}
    BY <2>1
  <2> HIDE DEF Times
  <2>3. PICK m \in Times : \A k \in Times : m <= k
    BY <2>2, LeastElement
  <2>4. PICK t \in Task \ done : ran[t] = m
    BY <2>3 DEF Times
  <2>5. \A u \in Task \ done : ran[u] \in Times
    BY DEF Times
  <2> QED BY <2>3, <2>4, <2>5
<1>7. \A u \in Task : ran[u] < ran[t] => u \in done
  <2>1. \A u \in Task : ran[u] \in Nat /\ ran[t] \in Nat
    OBVIOUS
  <2> QED BY <1>6, <2>1
<1>8. t \in AtHead(program.fifo[t]) /\ program.fifo[t] \in Fifo
  <2>1. ASSUME NEW u \in Task \ done, program.fifo[u] = program.fifo[t] PROVE t <= u
    <3>1. ~(u < t)
      BY <1>3, <1>7, <2>1 DEF Replay, RanInOrder
    <3>2. u \in Nat /\ t \in Nat
      BY Numbers
    <3> QED BY <3>1, <3>2
  <2> QED BY <1>1, <2>1, BarriersOf DEF AtHead
<1>9. ASSUME NEW v \in program.waits[t]
      PROVE  producerCount[v] = 0
  <2>1. Producers(program, v) \subseteq done
    BY <1>3, <1>7 DEF Replay, RanInOrder, Producers
  <2> QED BY <1>1, <2>1, BarriersOf, CountsAre
<1>10. ASSUME NEW v \in program.waits[t] \cup program.posts[t],
              v # FinalBarrier \/ "order" \notin AssignMode
       PROVE  v \in Mapped
  <2> SUFFICES ASSUME v \notin Mapped PROVE FALSE
    OBVIOUS
  <2>1. v \in Range1(declared) /\ v \in Vid
    BY <1>1, BarriersOf DEF ProgramInv
  <2>2. PICK k \in 1 .. n : v = declared[k]
    BY <1>4, <2>1 DEF Range1
  <2>3. k >= bar
    BY <1>4, <2>2
  <2>4. bar <= n /\ bar \in 1 .. n
    BY <1>4, <2>3
  <2>5. PICK c \in Task \ done : ran[c] < got[declared[bar]]
    BY <1>5, <2>4
  <2>6. got[declared[bar]] <= got[v]
    <3>1. CASE k = bar
      BY <1>4, <2>2, <2>4, <3>1
    <3>2. CASE k # bar
      <4>1. bar < k
        BY <1>4, <2>3, <3>2
      <4>2. got[declared[bar]] < got[declared[k]]
        BY <1>3, <1>10, <2>2, <2>4, <4>1 DEF Replay
      <4> QED BY <1>4, <2>2, <2>4, <4>2
    <3> QED BY <3>1, <3>2
  <2>7. got[v] < ran[t]
    BY <1>3 DEF Replay, RanInOrder
  <2>8. ran[c] \in Nat /\ ran[t] \in Nat /\ got[v] \in Nat /\ got[declared[bar]] \in Nat
    BY <1>4, <2>1, <2>4
  <2>9. ran[c] < ran[t]
    BY <2>5, <2>6, <2>7, <2>8
  <2> QED BY <1>7, <2>9
<1>11. ASSUME NEW v \in program.waits[t] \cup program.posts[t], v \in Mapped
       PROVE  isBarrierMapped(v)
  <2>1. v \in Vid /\ Needed(v)
    BY <1>1, UndoneNeeds
  <2> QED BY <1>1, <1>11, <2>1 DEF PidsInv, isBarrierMapped
<1>12. PICK v \in program.waits[t] \cup program.posts[t] : v \notin Mapped
  <2> SUFFICES ASSUME \A v \in program.waits[t] \cup program.posts[t] : v \in Mapped PROVE FALSE
    OBVIOUS
  <2>1. ASSUME NEW v \in program.waits[t] PROVE isBarrierMapped(v) /\ producerCount[v] <= 0
    BY <1>9, <1>11
  <2>2. \A v \in program.posts[t] : isBarrierMapped(v)
    BY <1>11
  <2>3. Ready(t)
    BY <2>1, <2>2 DEF Ready
  <2> QED BY <1>2, <1>8, <2>3
<1>13. v = FinalBarrier /\ "order" \in AssignMode
  BY <1>10, <1>12
<1>14. program.posts[t] = {FinalBarrier} /\ FinalBarrier \notin program.waits[t]
  BY <1>1, <1>12, <1>13 DEF ProgramInv
<1>15. \A w \in program.waits[t] : isBarrierMapped(w) /\ producerCount[w] = 0
  BY <1>9, <1>10, <1>11, <1>14
<1>16. HeldByFinalBarrier(t)
  BY <1>12, <1>13, <1>14, <1>15 DEF HeldByFinalBarrier
<1> QED BY <1>8, <1>13, <1>16

(* What is executed does not change.                                       *)
LEMMA ReplayFrame ==
    ASSUME ReplayInv, UNCHANGED <<passVars, realId>>
    PROVE  ReplayInv'
<1>1. UNCHANGED <<program, declared, mode, realId>>
  BY DEF passVars
<1>2. ASSUME NEW ran, NEW got, Replay(ran, got)
      PROVE  Replay(ran, got)'
  BY <1>1, <1>2 DEF Replay, RanInOrder, ReusedInOrder
<1>3. SUFFICES ASSUME mode = "validate"
               PROVE  \E ran \in [Task -> Nat], got \in [Vid -> Nat] : Replay(ran, got)'
  BY <1>1 DEF ReplayInv
<1>4. PICK ran \in [Task -> Nat], got \in [Vid -> Nat] : Replay(ran, got)
  BY <1>3 DEF ReplayInv
<1> QED BY <1>2, <1>4

(* BarrierSimulation can go on with what it is given.                      *)
LEMMA ReplayInvKept == IInv /\ AssignInv /\ ReplayInv /\ [Next]_vars => ReplayInv'
<1> SUFFICES ASSUME IInv, AssignInv, ReplayInv, [Next]_vars PROVE ReplayInv'
  OBVIOUS
<1>1. CASE MapBarrier
  <2>1. CASE mode = "validate"
    <3>1. UNCHANGED <<passVars, realId>>
      BY <1>1, <2>1 DEF MapBarrier, MapToFree, MapNextInstance, MapConfigured, Map,
                        isDynamicBarriers
    <3> QED BY <3>1, ReplayFrame
  <2>2. CASE mode # "validate"
    <3>1. mode' = mode
      BY <1>1 DEF MapBarrier, MapToFree, MapNextInstance, MapConfigured, Map, passVars
    <3> QED BY <2>2, <3>1 DEF ReplayInv
  <2> QED BY <2>1, <2>2
<1>2. CASE EndMapping \/ ProcessTask \/ NextFifo \/ Ended \/ UNCHANGED vars
  BY <1>2, ReplayFrame DEF EndMapping, ProcessTask, NextFifo, Ended, vars, passVars
<1>3. CASE EndRound
  <2>1. CASE Continue \/ Stop
    BY <1>3, <2>1, ReplayFrame DEF EndRound, Continue, Stop
  <2>2. CASE Grow \/ Shrink
    <3>1. mode' = "legalize"
      BY <1>3, <2>2 DEF EndRound, Grow, Shrink, Exceeding, barrierLegalizationSim, passVars
    <3> QED BY <3>1 DEF ReplayInv
  <2> QED BY <1>3, <2>1, <2>2 DEF EndRound
<1>4. CASE AddFinalBarrier
  <2>1. mode' # "validate"
    BY <1>4, ModeAssumption DEF AddFinalBarrier, AssignPhysicalBarriers
  <2> QED BY <2>1 DEF ReplayInv
<1>5. CASE Validate
  BY <1>5, ValidateReplays
<1> QED BY <1>1, <1>2, <1>3, <1>4, <1>5 DEF Next, SimulationStep

(* When a validation blocks, it is held by the final barrier, and stays.   *)
LEMMA ValidationKept ==
    IInv /\ ReplayInv /\ ValidationSucceeds /\ [Next]_vars => ValidationSucceeds'
<1> SUFFICES ASSUME IInv, ReplayInv, ValidationSucceeds, [Next]_vars,
                    mode' = "validate", pc' = "blocked"
             PROVE  "order" \in AssignMode
                    /\ \E f \in Fifo : \E t \in AtHead(f)' : HeldByFinalBarrier(t)'
  BY DEF ValidationSucceeds
<1>1. CASE UNCHANGED <<passVars, toVirtual, realId, producerCount, bar, done, order>>
           /\ "order" \in AssignMode
           /\ \E f \in Fifo : \E t \in AtHead(f) : HeldByFinalBarrier(t)
  <2>1. \A f : AtHead(f)' = AtHead(f)
    BY <1>1 DEF AtHead, passVars
  <2>2. Mapped' = Mapped /\ program' = program /\ producerCount' = producerCount
    BY <1>1 DEF Mapped, passVars
  <2>3. \A v : isBarrierMapped(v)' <=> isBarrierMapped(v)
    BY <1>1 DEF isBarrierMapped, isDynamicBarriers, Pids, passVars
  <2>4. \A t : HeldByFinalBarrier(t)' <=> HeldByFinalBarrier(t)
    BY <2>2, <2>3 DEF HeldByFinalBarrier
  <2>5. ASSUME NEW f \in Fifo, NEW t \in AtHead(f), HeldByFinalBarrier(t)
        PROVE  t \in AtHead(f)' /\ HeldByFinalBarrier(t)'
    BY <2>1, <2>4, <2>5
  <2>6. PICK f \in Fifo : \E t \in AtHead(f) : HeldByFinalBarrier(t)
    BY <1>1
  <2>7. PICK t \in AtHead(f) : HeldByFinalBarrier(t)
    BY <2>6
  <2> QED BY <1>1, <2>5, <2>6, <2>7
<1>2. CASE MapBarrier
  BY <1>2 DEF MapBarrier, MapToFree, MapNextInstance, MapConfigured, Map
<1>3. CASE EndMapping \/ ProcessTask \/ NextFifo
  BY <1>3 DEF EndMapping, ProcessTask, NextFifo
<1>4. CASE EndRound
  <2>1. Stop
    BY <1>4 DEF EndRound, Grow, Shrink, Continue, Loop
  <2>2. /\ UNCHANGED <<passVars, toVirtual, realId, producerCount, bar, done, order>>
        /\ pc = "round" /\ ~progressed
    BY <1>4, <2>1 DEF EndRound, Stop
  <2>3. mode = "validate"
    BY <2>2 DEF passVars
  <2>4. "order" \in AssignMode /\ \E f \in Fifo : \E t \in AtHead(f) : HeldByFinalBarrier(t)
    BY <2>2, <2>3, BlockedHeld
  <2> QED BY <2>2, <2>4, <1>1
<1>5. CASE AddFinalBarrier \/ Validate
  BY <1>5 DEF AddFinalBarrier, AssignPhysicalBarriers, Validate, StartSimulation, StartPc
<1>6. CASE Ended \/ UNCHANGED vars
  <2>1. UNCHANGED <<passVars, toVirtual, realId, producerCount, bar, done, order, pc>>
    BY <1>6 DEF Ended, vars, passVars
  <2>2. mode = "validate" /\ pc = "blocked"
    BY <2>1 DEF passVars
  <2>3. "order" \in AssignMode /\ \E f \in Fifo : \E t \in AtHead(f) : HeldByFinalBarrier(t)
    BY <2>2 DEF ValidationSucceeds
  <2> QED BY <2>1, <2>3, <1>1
<1> QED BY <1>2, <1>3, <1>4, <1>5, <1>6 DEF Next, SimulationStep

(* No simulation throws or fails, and BarrierSimulation executes to its    *)
(* end whatever AssignPhysicalBarriers leaves.  After BarrierColorBin it   *)
(* may be held up, but then only by the final barrier's place.             *)
THEOREM Validated == Spec => []SimulationsSucceed
<1> DEFINE Dated == AssignInv /\ ReplayInv /\ ValidationSucceeds
<1>1. Init => Dated
  <2> SUFFICES ASSUME Init PROVE Dated
    OBVIOUS
  <2>1. mode \in {"legalize", "assign"} /\ bar = 1 /\ done = {}
    BY ModeAssumption DEF Init
  <2>2. AssignInv
    BY <2>1, HistoryStarts DEF NoHistory
  <2> QED BY <2>1, <2>2 DEF ReplayInv, ValidationSucceeds
<1>2. IInv /\ Dated /\ [Next]_vars => Dated'
  BY AssignInvKept, ReplayInvKept, ValidationKept
<1>3. NoInternalError /\ Dated => SimulationsSucceed
  BY DEF SimulationsSucceed
<1> HIDE DEF Dated
<1> QED BY <1>1, <1>2, <1>3, Invariant, NothingFails, PTL DEF Spec
=============================================================================
