-------------------------- MODULE FeasibleAllocation --------------------------
(***************************************************************************)
(* The rest of the feasible-allocation pass (VPUIP/.../feasible_allocation *)
(* .cpp): what follows the scheduler until the operations run.             *)
(*                                                                         *)
(*   PrefetchData        operations are reordered and scheduled again      *)
(*   OptimizeSpills      the three optimisations of the spills             *)
(*   InsertSpills        spills become DMA operations of the function      *)
(*   InsertControlEdges  operations that share memory are ordered          *)
(*   MoveSpills          spill DMAs move up to what they depend on         *)
(*   UpdateCycles        the operations get their final cycles             *)
(*                                                                         *)
(* and, outside the compiler, Begin and End: every executor instance runs  *)
(* its operations in order, each when what it depends on has ended.        *)
(*                                                                         *)
(* A schedule is a sequence of the infos of MemoryScheduler; an operation  *)
(* of the function is named by its number, spill DMAs get new ones.  The   *)
(* IR order of the operations is the order of the schedule.                *)
(***************************************************************************)
EXTENDS Prefetching

CONSTANT Options(_) \* values of [prefetch, optimize] considered for a program:
                    \* _enablePrefetching and _optimizeDynamicSpilling

VARIABLES
    given,  \* the program before prefetching, what each operation was in it,
            \* and the options
    stage,  \* the step of the pass
    func,   \* the function: its schedule, and what its operations depend on
    mach    \* the execution: operations begun and ended, what memory holds

allocVars == <<prog, pc, s, given, stage, func, mach>>

IsData(p, info) == info.op \in p.data

Results(p, o) == Cardinality(p.ops[o].outs)

TheBuf(intervals) == (CHOOSE i \in intervals : TRUE).buf

Without(sched, S) ==
    LET kept == Ascending(DOMAIN sched \ S)
    IN  [k \in DOMAIN kept |-> sched[kept[k]]]

------------------------------------------------------------------------------
(* Prefetching takes effect by a second schedule, from the new order.      *)
TakeOrder(new) ==
    IF new.error # ""
    THEN func' = [func EXCEPT !.error = new.error] /\ UNCHANGED <<prog, pc, s, given>>
    ELSE /\ prog' = Reordered(prog, new.order)
         /\ given' = [given EXCEPT !.was = new.order]
         /\ s' = NewScheduler(prog')
         /\ pc' = "init"
         /\ UNCHANGED func

PrefetchData ==
    /\ stage = "prefetch" /\ pc = "done" /\ s.error = ""
    /\ TakeOrder(EnableDataOpPrefetching(prog, s.sched))
    /\ stage' = "schedule"
    /\ UNCHANGED mach

------------------------------------------------------------------------------
(***************************************************************************)
(* optimizeDataOpsSpills: data brought in and written back unused need not *)
(* be brought in.                                                          *)
(***************************************************************************)
(* A data operation and its spills, as places of the schedule.             *)
SpillTree(p, sched, o) ==
    LET spills == {k \in DOMAIN sched : sched[k].op = o /\ ~IsOriginal(sched[k])}
        orig == {k \in DOMAIN sched : sched[k].op = o /\ IsOriginal(sched[k]) /\ k < Bottom(spills)}
    IN  IF spills = {} \/ Results(p, o) > 1 THEN <<>> ELSE <<Top(orig)>> \o Ascending(spills)

UsedBetween(p, sched, from, to) ==
    \E k \in (from + 1)..(to - 1) : TheBuf(sched[from].outs) \in p.used[sched[k].op]

OptimizeDataOp(p, st, o) ==
    LET tree == SpillTree(p, st.sched, o)
        reads(i, t) == {j \in DOMAIN tree : j > i + 1 /\ t.sched[tree[j]].type = "READ"}
        restore(i, t) == IF IsOriginal(t.sched[tree[i]]) /\ reads(i, t) # {}
                         THEN [t.sched EXCEPT ![tree[Bottom(reads(i, t))]].type = t.sched[tree[i]].type]
                         ELSE t.sched
        step(t, i) ==
            IF \/ t.sched[tree[i]].type = "WRITE" \/ t.sched[tree[i + 1]].type # "WRITE"
               \/ UsedBetween(p, t.sched, tree[i], tree[i + 1])
            THEN t
            ELSE [sched |-> restore(i, t), gone |-> t.gone \cup {tree[i], tree[i + 1]}]
    IN  FoldLeft(step, st, [i \in 1..Max0({Len(tree) - 1}) |-> i])

OptimizeDataOpsSpills(p, sched) ==
    LET all == FoldLeft(LAMBDA t, o : OptimizeDataOp(p, t, o), [sched |-> sched, gone |-> {}], Ascending(p.data))
    IN  Without(all.sched, all.gone)

------------------------------------------------------------------------------
(***************************************************************************)
(* removeComputeOpRelocationSpills: a result written to DDR and read back  *)
(* at once goes to its second place directly.                              *)
(***************************************************************************)
(* The operations that begin in the last cycle before the write, and those *)
(* that begin in the first one after it.                                   *)
CycleBefore(sched, w) ==
    LET before == {k \in 1..(w - 1) : sched[k].begin < sched[w].begin}
    IN  {k \in before : sched[k].begin = sched[Top(before)].begin}

CycleAfter(sched, w) ==
    LET after == {k \in (w + 1)..Len(sched) : sched[k].begin > sched[w].begin}
    IN  {k \in after : sched[k].begin = sched[Bottom(after)].begin}

Relocated(sched, w) ==
    [origs |-> {k \in CycleBefore(sched, w) : sched[k].op = sched[w].op /\ IsOriginal(sched[k])},
     reads |-> {k \in CycleAfter(sched, w) : sched[k].op = sched[w].op}]

RangeUsed(sched, w, orig, read) ==
    LET range == CHOOSE i \in sched[read].outs : TRUE
    IN  \E k \in Bottom(CycleBefore(sched, w))..(read - 1) :
            /\ k # w
            /\ \E i \in sched[k].ins \cup {j \in sched[k].outs : k # orig \/ j.buf # range.buf} : Touch(i, range)

RelocateOne(p, st, w) ==
    LET found == Relocated(st.sched, w)
        orig == Bottom(found.origs)
        read == Bottom(found.reads)
        range == CHOOSE i \in st.sched[read].outs : TRUE
    IN  IF \/ st.sched[w].type # "WRITE" \/ IsData(p, st.sched[w]) \/ Results(p, st.sched[w].op) > 1
           \/ found.origs = {} \/ found.reads = {}
        THEN st
        ELSE IF RangeUsed(st.sched, w, orig, read) \/ Cardinality(Writers(p, range.buf)) > 1
        THEN st
        ELSE [sched |-> [st.sched EXCEPT ![orig].outs = {IF i.buf = range.buf THEN range ELSE i : i \in @}],
              gone |-> st.gone \o <<w, read>>]

(* The places found are erased one by one, the last found first.           *)
RemoveComputeOpRelocationSpills(p, sched) ==
    LET all == FoldLeft(LAMBDA t, w : RelocateOne(p, t, w), [sched |-> sched, gone |-> <<>>],
                        [w \in DOMAIN sched |-> w])
    IN  FoldLeft(RemoveAt, all.sched, Reverse(all.gone))

------------------------------------------------------------------------------
(* removeRedundantSpillWrites: what is in DDR is not written again.        *)
RemoveRedundantSpillWrites(sched) ==
    Without(sched, {k \in DOMAIN sched : sched[k].type = "WRITE" /\ \E j \in 1..(k - 1) :
                       sched[j].type = "WRITE" /\ sched[j].op = sched[k].op
                           /\ TheBuf(sched[j].ins) = TheBuf(sched[k].ins)})

OptimizeSpills ==
    /\ stage = "schedule" /\ pc = "done" /\ s.error = "" /\ func.error = ""
    /\ func' = [sched |-> IF ~given.options.optimize THEN s.sched
                        ELSE RemoveRedundantSpillWrites(RemoveComputeOpRelocationSpills(prog,
                                 OptimizeDataOpsSpills(prog, s.sched))),
              deps  |-> prog.deps, src |-> <<>>, error |-> ""]
    /\ stage' = "insert"
    /\ UNCHANGED <<prog, pc, s, given, mach>>

------------------------------------------------------------------------------
(***************************************************************************)
(* insertSpillDmaOps.                                                      *)
(***************************************************************************)
BufOf(info) == TheBuf(IF info.type = "WRITE" THEN info.ins ELSE info.outs)

(* createSpillWrite, createSpillRead: the k-th operation becomes a DMA.  A *)
(* write depends on the operation it spills, a read on the last write.     *)
(* There is no place for either before the second operation.               *)
InsertSpill(t, k) ==
    LET info == t.sched[k]
        new == Len(t.deps) + 1
        writes == {j \in 1..(k - 1) : t.sched[j].type = "SPILL_WRITE" /\ TheBuf(t.sched[j].ins) = BufOf(info)}
        from == IF info.type = "WRITE" THEN info.op ELSE t.sched[Top(writes)].op
        follow(j) == /\ info.type = "READ" /\ j > k /\ t.sched[j].type \in {"WRITE", "READ"}
                     /\ t.sched[j].op = info.op /\ BufOf(t.sched[j]) = BufOf(info)
    IN  IF IsOriginal(info) \/ t.error # "" THEN t
        ELSE IF k <= 2 THEN [t EXCEPT !.error = "No location to insert Spill was identified"]
        ELSE IF info.type = "READ" /\ writes = {}
        THEN [t EXCEPT !.error = "No matching spill write operation identified for a given Spill Read"]
        ELSE [t EXCEPT !.deps = Append(@, {from}), !.src = (new :> from) @@ @,
                       !.sched = [j \in DOMAIN @ |->
                           IF j = k THEN [@[j] EXCEPT !.op = new, !.type = "SPILL_" \o @]
                           ELSE IF follow(j) THEN [@[j] EXCEPT !.op = new] ELSE @[j]]]

(* Users of a spilled buffer refer to the copy read back last before them  *)
(* (in IR order), the copies having a place of their own; a write sets the *)
(* place of the copy it spills.                                            *)
Copy(sched, b, k) ==
    Max0({j \in 1..(k - 1) : sched[j].type = "SPILL_READ" /\ TheBuf(sched[j].outs) = b})

PlaceOf(sched, b, copy, final) ==
    LET writes == {j \in DOMAIN sched : /\ sched[j].type = "SPILL_WRITE" /\ TheBuf(sched[j].ins) = b
                                        /\ Copy(sched, b, j) = copy}
    IN  IF writes # {} THEN (CHOOSE i \in sched[Top(writes)].ins : TRUE).begin
        ELSE IF copy # 0 THEN (CHOOSE i \in sched[copy].outs : TRUE).begin
        ELSE final[b]

Operand(p, sched, b, copy, final) ==
    LET begin == PlaceOf(sched, b, copy, final)
    IN  [buf |-> b, copy |-> copy, begin |-> begin, end |-> begin + p.bufs[b].size]

WithOperands(p, sched, final) ==
    [k \in DOMAIN sched |->
        LET info == sched[k]
            at(b, copy) == Operand(p, sched, b, copy, final)
            used(B) == {at(b, Copy(sched, b, k)) : b \in B}
        IN  CASE info.type = "SPILL_WRITE" -> [info EXCEPT !.ins = used({TheBuf(@)})]
              [] info.type = "SPILL_READ" -> [info EXCEPT !.outs = {at(TheBuf(@), k)}]
              [] OTHER -> [info EXCEPT !.ins = used(InBufs(p, info.op)), !.outs = used(OutBufs(p, info.op))]]

InsertSpills ==
    /\ stage = "insert"
    /\ LET inserted == FoldLeft(InsertSpill, func, [k \in DOMAIN func.sched |-> k])
       IN  func' = IF inserted.error # "" THEN inserted
                ELSE [inserted EXCEPT !.sched = WithOperands(prog, @, s.addr)]
    /\ stage' = "edges"
    /\ UNCHANGED <<prog, pc, s, given, mach>>

------------------------------------------------------------------------------
(***************************************************************************)
(* The control edge generator: who produces and who consumes each address, *)
(* walked through in the order of the schedule.                            *)
(***************************************************************************)
(* A part of a concatenation is a view of its buffer.                      *)
Resource(p, info, u, produces) ==
    [op |-> info.op, begin |-> u.begin, end |-> u.end, produces |-> produces, buf |-> u.buf, copy |-> u.copy,
     part |-> IF produces /\ IsOriginal(info) /\ Cardinality(Writers(p, u.buf)) > 1 THEN info.op ELSE 0]

Resources(p, sched) ==
    LET uses(info) == SetToSeq({Resource(p, info, u, FALSE) : u \in info.ins})
                        \o SetToSeq({Resource(p, info, u, TRUE) : u \in info.outs})
    IN  FlattenSeq([k \in DOMAIN sched |-> uses(sched[k])])

CanOverlap(a, b) ==
    \/ a.end <= b.begin \/ b.end <= a.begin
    \/ /\ a.begin = b.begin /\ a.end = b.end
       /\ a.part # 0 /\ b.part # 0 /\ a.part # b.part
       /\ a.buf = b.buf /\ a.copy = b.copy

SourcesInto(edges, ops) == {e[1] : e \in {d \in edges : d[2] \in ops /\ d[1] # d[2]}}

OpsOf(R) == {r.op : r \in R}

(* One address; a resource nobody produced is its first producer.          *)
Coexists(own, r) == r.produces /\ \A q \in own.prods : CanOverlap(r, q)

\* Variant: a new producer waits for the last one, not for its consumers.
EdgesFromProducers(own, r, edges) ==
    LET from == IF Coexists(own, r) THEN SourcesInto(edges, OpsOf(own.prods))
                ELSE IF ~r.produces THEN OpsOf({q \in own.prods : ~CanOverlap(r, q)})
                ELSE OpsOf(own.prods)
    IN  {<<o, r.op>> : o \in from}

EdgesAt(own, r, edges) ==
    LET from == IF Coexists(own, r) THEN SourcesInto(edges, OpsOf(own.prods))
                ELSE IF ~r.produces THEN OpsOf({q \in own.prods : ~CanOverlap(r, q)})
                ELSE OpsOf(IF own.cons = {} THEN own.prods ELSE own.cons)
    IN  {<<o, r.op>> : o \in from}

OwnedBy(own, r) ==
    IF own.prods = {} \/ (r.produces /\ ~Coexists(own, r)) THEN [prods |-> {r}, cons |-> {}]
    ELSE IF r.produces THEN [own EXCEPT !.prods = @ \cup {r}]
    ELSE [own EXCEPT !.cons = @ \cup {r}]

ProcessNextInterval(t, r) ==
    LET cells == r.begin..(r.end - 1)
    IN  [own |-> [c \in DOMAIN t.own |-> IF c \in cells THEN OwnedBy(t.own[c], r) ELSE t.own[c]],
         edges |-> t.edges \cup UNION {EdgesAt(t.own[c], r, t.edges) : c \in cells}]

ControlEdges(p, sched) ==
    LET none == [own |-> [c \in 0..(p.memory - 1) |-> [prods |-> {}, cons |-> {}]], edges |-> {}]
    IN  {e \in FoldLeft(ProcessNextInterval, none, Resources(p, sched)).edges : e[1] # e[2]}

(* updateControlEdgesInDepsInfo: no edge between operations the scheduler  *)
(* lets run together, but then from the first to what follows the second.  *)
InfoOf(sched, o) == sched[CHOOSE k \in DOMAIN sched : sched[k].op = o]

ControlDeps(sched, edges) ==
    LET dropped == {e \in edges : Overlap(InfoOf(sched, e[1]), InfoOf(sched, e[2]))}
    IN  (edges \ dropped) \cup {<<d[1], e[2]>> : <<d, e>> \in {q \in dropped \X edges : q[1][2] = q[2][1]}}

------------------------------------------------------------------------------
(* insertScheduleOrderDepsForExecutor: with one DMA port, each DMA waits   *)
(* for the one before it on its queue.                                     *)
IsDMA(info) == info.queue \notin ComputeExec

Following(sched, k) ==
    LET later == {j \in DOMAIN sched : j > k /\ sched[j].queue = sched[k].queue /\ sched[j].begin > sched[k].begin}
    IN  {j \in later : sched[j].begin = sched[Bottom(later)].begin}

DmaOrder(p, sched) ==
    IF p.ports > 1 THEN {}
    ELSE {q \in (DOMAIN sched) \X (DOMAIN sched) : IsDMA(sched[q[1]]) /\ q[2] \in Following(sched, q[1])}

(* linearizeComputeOps, again: with prefetching and pipelining the         *)
(* scheduler had no such links.                                            *)
ComputeOrder(p, sched) ==
    LET compute == {k \in DOMAIN sched : ~IsDMA(sched[k])}
        before(k) == {j \in compute : j < k /\ (p.links # "all" => sched[j].queue = sched[k].queue)}
    IN  {<<Top(before(k)), k>> : k \in {q \in compute : before(q) # {}}}

WithDeps(deps, edges) == [o \in DOMAIN deps |-> deps[o] \cup {e[1] : e \in {d \in edges : d[2] = o}}]

InsertControlEdges ==
    /\ stage = "edges" /\ func.error = ""
    /\ LET dma == DmaOrder(prog, func.sched)
           order == {<<func.sched[q[1]].op, func.sched[q[2]].op>> : q \in dma \cup ComputeOrder(prog, func.sched)}
       IN  func' = [func EXCEPT !.deps = WithDeps(@, order \cup ControlDeps(func.sched, ControlEdges(prog, func.sched))),
                          !.error = IF \E q \in dma : func.sched[q[1]].end > func.sched[q[2]].begin
                                    THEN "Order of execution not preserved" ELSE ""]
    /\ stage' = "move"
    /\ UNCHANGED <<prog, pc, s, given, mach>>

------------------------------------------------------------------------------
(***************************************************************************)
(* updateAsyncExecuteOpPositionOfSpillOps: a spill DMA moves behind the    *)
(* last of what it depends on and what precedes it on its queue.           *)
(***************************************************************************)
IsSpill(info) == info.type \in {"SPILL_WRITE", "SPILL_READ"}

PrecedingOnQueue(sched, k) ==
    LET before(i) == {j \in 1..(k - 1) : sched[j].queue = sched[k].queue /\ i \in sched[j].mask}
    IN  {sched[Top(before(i))].op : i \in {h \in sched[k].mask : before(h) # {}}}

SpillDeps(t, k) == t.deps[t.sched[k].op] \cup PrecedingOnQueue(t.sched, k)

(* insertSpillOps; the new order is built back to front.                   *)
RECURSIVE InsertSpillOps(_, _)
InsertSpillOps(t, o) ==
    LET one(u, q) ==
            IF q \in u.moved THEN u
            ELSE LET behind == InsertSpillOps(u, q)
                 IN  [behind EXCEPT !.order = Append(@, q), !.moved = @ \cup {q}]
    IN  [FoldLeft(one, t, Ascending(t.after[o])) EXCEPT !.after[o] = {}]

MoveOneSpill(t, k) ==
    LET o == t.sched[k].op
        freed == InsertSpillOps(t, o)
    IN  IF IsSpill(t.sched[k])
        THEN [freed EXCEPT !.after = [q \in DOMAIN @ |-> IF q \in SpillDeps(t, k) THEN @[q] \cup {o} ELSE @[q]]]
        ELSE [freed EXCEPT !.order = Append(@, o)]

MoveSpills ==
    /\ stage = "move" /\ func.error = ""
    /\ LET n == Len(func.sched)
           moved == FoldLeft(MoveOneSpill,
                             [sched |-> func.sched, deps |-> func.deps, order |-> <<>>, moved |-> {},
                              after |-> [o \in DOMAIN func.deps |-> {}]],
                             [i \in 1..n |-> n + 1 - i])
           order == Reverse(moved.order)
       IN  func' = [func EXCEPT !.sched = [k \in DOMAIN order |-> InfoOf(func.sched, order[k])]]
    /\ stage' = "cycles"
    /\ UNCHANGED <<prog, pc, s, given, mach>>

------------------------------------------------------------------------------
(***************************************************************************)
(* updateCycleAfterAllScheduleOptimizations: of the operations at the head *)
(* of their queues whose dependencies are scheduled, the one that begins   *)
(* first.                                                                  *)
(***************************************************************************)
SharesQueue(a, b) == a.queue = b.queue /\ a.mask \cap b.mask # {}

Heads(left) == {k \in DOMAIN left : \A j \in 1..(k - 1) : ~SharesQueue(left[j], left[k])}

Timed(t, info) ==
    LET begin == Max0({t.end[d] : d \in t.deps[info.op]} \cup
                      {t.order[j].end : j \in {i \in DOMAIN t.order : SharesQueue(t.order[i], info)}})
    IN  [info EXCEPT !.begin = begin, !.end = begin + info.end - info.begin]

Sooner(a, b) ==
    \/ a.begin < b.begin
    \/ a.begin = b.begin /\ (a.end < b.end \/ (a.end = b.end /\ a.op < b.op))

NextOperation(t, i) ==
    LET ready == {k \in Heads(t.left) : t.deps[t.left[k].op] \subseteq DOMAIN t.end}
        timed == {Timed(t, t.left[k]) : k \in ready}
        next == CHOOSE a \in timed : \A b \in timed : a = b \/ Sooner(a, b)
    IN  IF ready = {} THEN [t EXCEPT !.error = "No ready operations found"]
        ELSE [t EXCEPT !.order = Append(@, next), !.end = (next.op :> next.end) @@ @,
                       !.left = SelectSeq(@, LAMBDA info : info.op # next.op)]

UpdateCycles ==
    /\ stage = "cycles"
    /\ LET all == FoldLeft(NextOperation,
                           [left |-> func.sched, deps |-> func.deps, order |-> <<>>, end |-> <<>>, error |-> ""],
                           [i \in DOMAIN func.sched |-> i])
       IN  func' = [func EXCEPT !.sched = all.order, !.error = all.error]
    /\ stage' = "run"
    /\ UNCHANGED <<prog, pc, s, given, mach>>

------------------------------------------------------------------------------
(***************************************************************************)
(* Execution.  Memory holds at each address which buffer has it and whose  *)
(* results it contains; ddr what a spill write has saved.                  *)
(***************************************************************************)
Cells(intervals) == UNION {i.begin..(i.end - 1) : i \in intervals}

OperandAt(info, c) == CHOOSE i \in info.outs : c \in i.begin..(i.end - 1)

(* Everything that was written to the buffer is at each address of it.     *)
Held(mem, i) ==
    LET cells == i.begin..(i.end - 1)
    IN  {o \in Writers(prog, i.buf) : \A c \in cells : mem[c].buf = i.buf /\ o \in mem[c].parts}

FindsData(mem, info) == \A i \in info.ins : Held(mem, i) = Writers(prog, i.buf)

(* An operation of the program reads what others wrote in CMX and in DDR.  *)
ReadsRight(info) ==
    /\ FindsData(mach.mem, info)
    /\ \A b \in prog.ops[info.op].ins \ prog.cmx : Writers(prog, b) \subseteq mach.right

Written(info) == IF IsOriginal(info) THEN {info.op} ELSE mach.ddr[func.src[info.op]]

Begin(k) ==
    LET info == func.sched[k]
    IN  /\ stage = "run" /\ func.error = "" /\ info.op \notin mach.begun
        /\ \A j \in 1..(k - 1) : SharesQueue(func.sched[j], info) => func.sched[j].op \in mach.ended
        /\ func.deps[info.op] \subseteq mach.ended
        /\ mach' = [mach EXCEPT !.begun = @ \cup {info.op},
                          !.right = IF IsOriginal(info) /\ ReadsRight(info) THEN @ \cup {info.op} ELSE @,
                          !.mem = [c \in DOMAIN @ |->
                              IF c \notin Cells(info.outs) THEN @[c]
                              ELSE LET b == OperandAt(info, c).buf
                                   IN  [buf |-> b, parts |-> IF @[c].buf = b /\ IsOriginal(info) THEN @[c].parts
                                                             ELSE {}]]]
        /\ UNCHANGED <<prog, pc, s, given, stage, func>>

End(k) ==
    LET info == func.sched[k]
    IN  /\ stage = "run" /\ func.error = "" /\ info.op \in mach.begun \ mach.ended
        /\ mach' = [mach EXCEPT !.ended = @ \cup {info.op},
                          !.right = IF IsOriginal(info) /\ ~ReadsRight(info) THEN @ \ {info.op} ELSE @,
                          !.ddr = IF info.type # "SPILL_WRITE" THEN @
                                  ELSE (info.op :> Held(mach.mem, CHOOSE i \in info.ins : TRUE)) @@ @,
                          !.mem = [c \in DOMAIN @ |->
                              IF c \notin Cells(info.outs) THEN @[c]
                              ELSE IF @[c].buf # OperandAt(info, c).buf THEN [buf |-> 0, parts |-> {}]
                              ELSE [@[c] EXCEPT !.parts = @ \cup Written(info)]]]
        /\ UNCHANGED <<prog, pc, s, given, stage, func>>

------------------------------------------------------------------------------
AllocInit ==
    /\ Init
    /\ \E options \in Options(prog) : given = [program |-> prog, was |-> [o \in Op(prog) |-> o], options |-> options]
    /\ stage = IF given.options.prefetch THEN "prefetch" ELSE "schedule"
    /\ func = [sched |-> <<>>, deps |-> <<>>, src |-> <<>>, error |-> ""]
    /\ mach = [begun |-> {}, ended |-> {}, right |-> {}, ddr |-> <<>>,
            mem |-> [c \in 0..(prog.memory - 1) |-> [buf |-> 0, parts |-> {}]]]

Scheduling ==
    /\ InitializeReadyLists \/ Move \/ Unschedule \/ Schedule \/ Evict \/ Finish
    /\ UNCHANGED <<given, stage, func, mach>>

AllocStopped == s.error # "" \/ func.error # "" \/ (stage = "run" /\ mach.ended = DOMAIN func.deps)

AllocNext ==
    \/ Scheduling
    \/ PrefetchData \/ OptimizeSpills \/ InsertSpills \/ InsertControlEdges \/ MoveSpills \/ UpdateCycles
    \/ \E k \in DOMAIN func.sched : Begin(k) \/ End(k)
    \/ AllocStopped /\ UNCHANGED allocVars

AllocSpec == AllocInit /\ [][AllocNext]_allocVars

(* The compiler goes on, and so does an executor that has something to do. *)
FairAllocSpec == AllocSpec /\ ([]<>AllocStopped \/ []<><<TRUE>>_allocVars)

------------------------------------------------------------------------------
(***************************************************************************)
(* Properties.                                                             *)
(***************************************************************************)
AllocTypeOK ==
    /\ TypeOK
    /\ stage \in {"prefetch", "schedule", "insert", "edges", "move", "cycles", "run"}
    /\ mach.begun \subseteq DOMAIN func.deps /\ mach.ended \subseteq mach.begun
    /\ mach.right \subseteq Op(prog)
    /\ Range(given.was) = Op(given.program) /\ Len(given.was) = Cardinality(Op(given.program))
    /\ \A o \in Op(prog) : prog.deps[o] \subseteq 1..(o - 1)
    /\ \A o \in DOMAIN func.deps : func.deps[o] \subseteq DOMAIN func.deps
    /\ stage \in {"edges", "move", "cycles", "run"} /\ func.error = "" =>
           \A k \in DOMAIN func.sched : \A i \in func.sched[k].ins \cup func.sched[k].outs :
               0 <= i.begin /\ i.end <= prog.memory

(* No internal check of the scheduler or behind it ever fails, and the     *)
(* scheduler never gives up: every operation fits into CMX by itself.      *)
PassSucceeds == s.error = "" /\ func.error = ""

(* Giving up stalls moves prefetched DMAs to earlier cycles.               *)
PrefetchedNoLater ==
    stage = "prefetch" /\ pc = "done" /\ s.error = "" =>
        LET f == PerformCycleScheduling(prog, s.sched, NoCycles)
        IN  \A k \in DOMAIN f.prefetch : f.prefetch[k].begin <= f.cycles[f.prefetch[k].op].begin

(* Every operation of the program finds its inputs where it reads them,    *)
(* from its begin to its end.                                              *)
MemoryRight ==
    stage = "run" =>
        \A k \in DOMAIN func.sched :
            LET info == func.sched[k]
            IN  IsOriginal(info) /\ info.op \in mach.begun \ mach.ended => ReadsRight(info)

(* Whatever the executors do first, the program computes what it says:     *)
(* each operation ends once, after what it depends on, with the right      *)
(* inputs.                                                                 *)
Flow == INSTANCE Dataflow WITH program <- given.program,
                             completed <- {given.was[o] : o \in mach.ended \cap mach.right}

ImplementsDataflow == Flow!Spec
=============================================================================
