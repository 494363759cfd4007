-------------------------- MODULE LinearScan_proofs --------------------------
(***************************************************************************)
(* Proofs about LinearScan, for a memory of any size, any ranges, sizes,   *)
(* alignments and reserved intervals.                                      *)
(*                                                                         *)
(* The argument: a canonical set of gaps (no empty gap, touching gaps      *)
(* merged) is determined by the addresses it covers (CanonicalUnique), and *)
(* Carve and Free keep a set canonical while they take an interval from,   *)
(* or return it to, those addresses.  So the whole state of the partitioner*)
(* is carried by one fact, GapsExact, and every step of the allocator is a *)
(* step on sets of addresses.                                              *)
(***************************************************************************)
EXTENDS LinearScan, TLAPS

Canonical(gs) ==
    /\ gs \subseteq Gap
    /\ \A g \in gs : g.begin < g.end /\ g.end <= TotalSize
    /\ \A g, h \in gs : g = h \/ g.end < h.begin \/ h.end < g.begin

Within(a, n, x) == a <= x /\ x < a + n

(* An allocation takes exactly its interval out of the free addresses, and *)
(* leaves the gaps canonical (useGap, allocFixed).                         *)
LEMMA CarveOK ==
    ASSUME NEW gs, Canonical(gs), NEW g \in gs, NEW a \in Int, NEW n \in Nat \ {0},
           g.begin <= a, a + n <= g.end
    PROVE  /\ Canonical(Carve(gs, g, a, n))
           /\ \A x \in Int : Covers(Carve(gs, g, a, n), x) <=> Covers(gs, x) /\ ~Within(a, n, x)
<1> DEFINE L == [begin |-> g.begin, end |-> a]
           R == [begin |-> a + n, end |-> g.end]
           C == Carve(gs, g, a, n)
<1>t. /\ g \in Gap /\ g.begin \in Nat /\ g.end \in Nat /\ g.end <= TotalSize /\ a \in Nat
      /\ \A h \in gs : h.begin \in Nat /\ h.end \in Nat /\ h.begin < h.end /\ h.end <= TotalSize
      /\ \A h \in gs : h = g \/ h.end < g.begin \/ g.end < h.begin
      /\ TotalSize \in Nat
  BY TotalSizeAssumption DEF Canonical, Gap
<1>c. C = (gs \ {g}) \cup {h \in {L, R} : h.begin < h.end}
  BY DEF Carve
<1>m. \A h \in C : \/ h \in gs /\ h # g
                   \/ h = L /\ g.begin < a
                   \/ h = R /\ a + n < g.end
  BY <1>c
<1>f. /\ L \in Gap /\ R \in Gap /\ L.begin = g.begin /\ L.end = a /\ R.begin = a + n /\ R.end = g.end
  BY <1>t DEF Gap
<1> HIDE DEF L, R, C
<1>1. C \subseteq Gap
  BY <1>m, <1>f DEF Canonical
<1>2. \A h \in C : h.begin < h.end /\ h.end <= TotalSize
  BY <1>m, <1>f, <1>t
<1>3. ASSUME NEW h \in C, NEW k \in C PROVE h = k \/ h.end < k.begin \/ k.end < h.begin
  <2>1. CASE h \in gs /\ k \in gs
    BY <2>1 DEF Canonical
  <2>2. CASE h \in gs /\ h # g /\ k \in {L, R}
    BY <2>2, <1>t, <1>f, <1>m
  <2>3. CASE k \in gs /\ k # g /\ h \in {L, R}
    BY <2>3, <1>t, <1>f, <1>m
  <2>4. CASE h \in {L, R} /\ k \in {L, R}
    BY <2>4, <1>t, <1>f
  <2> QED BY <2>1, <2>2, <2>3, <2>4, <1>m
<1>4. ASSUME NEW x \in Int PROVE Covers(C, x) <=> Covers(gs, x) /\ ~Within(a, n, x)
  <2>1. ASSUME NEW h \in C, h.begin <= x, x < h.end PROVE Covers(gs, x) /\ ~Within(a, n, x)
    BY <2>1, <1>m, <1>f, <1>t DEF Covers, Within
  <2>2. ASSUME NEW h \in gs, h.begin <= x, x < h.end, ~Within(a, n, x) PROVE Covers(C, x)
    <3>1. CASE h # g
      <4>1. h \in C
        BY <3>1, <1>c
      <4> QED BY <4>1, <2>2 DEF Covers
    <3>2. CASE h = g /\ x < a
      <4>1. L \in C
        BY <3>2, <2>2, <1>c, <1>f, <1>t
      <4> QED BY <4>1, <3>2, <2>2, <1>f DEF Covers
    <3>3. CASE h = g /\ a + n <= x
      <4>1. R \in C
        BY <3>3, <2>2, <1>c, <1>f, <1>t
      <4> QED BY <4>1, <3>3, <2>2, <1>f DEF Covers
    <3> QED BY <3>1, <3>2, <3>3, <2>2, <1>t DEF Within
  <2> QED BY <2>1, <2>2 DEF Covers
<1> QED BY <1>1, <1>2, <1>3, <1>4 DEF Canonical, C

(* A deallocation returns exactly its interval and leaves the gaps         *)
(* canonical: it merges with the gap on each side (free).                  *)
LEMMA FreeOK ==
    ASSUME NEW gs, Canonical(gs), NEW a \in Nat, NEW n \in Nat \ {0}, a + n <= TotalSize,
           \A g \in gs : g.end <= a \/ a + n <= g.begin
    PROVE  /\ Canonical(Free(gs, a, n))
           /\ \A x \in Int : Covers(Free(gs, a, n), x) <=> Covers(gs, x) \/ Within(a, n, x)
<1> DEFINE l == LeftOf(gs, a)
           r == RightOf(gs, a + n)
           b == IF l = {} THEN a ELSE (CHOOSE g \in l : TRUE).begin
           e == IF r = {} THEN a + n ELSE (CHOOSE g \in r : TRUE).end
           M == [begin |-> b, end |-> e]
           F == Free(gs, a, n)
<1>t. /\ TotalSize \in Nat
      /\ \A h \in gs : h.begin \in Nat /\ h.end \in Nat /\ h.begin < h.end /\ h.end <= TotalSize
      /\ \A h, k \in gs : h = k \/ h.end < k.begin \/ k.end < h.begin
  BY TotalSizeAssumption DEF Canonical, Gap
<1>l. \/ l = {} /\ b = a
      \/ \E p \in gs : l = {p} /\ p.end = a /\ b = p.begin
  <2>1. CASE l = {}
    BY <2>1
  <2>2. CASE l # {}
    <3> DEFINE p == CHOOSE g \in l : TRUE
    <3>1. p \in l
      BY <2>2
    <3>2. p \in gs /\ p.end = a
      BY <3>1 DEF LeftOf
    <3>3. \A q \in l : q = p
      BY <3>2, <1>t DEF LeftOf
    <3>4. b = p.begin
      BY <2>2
    <3> HIDE DEF p
    <3> QED BY <3>1, <3>2, <3>3, <3>4
  <2> QED BY <2>1, <2>2
<1>r. \/ r = {} /\ e = a + n
      \/ \E p \in gs : r = {p} /\ p.begin = a + n /\ e = p.end
  <2>1. CASE r = {}
    BY <2>1
  <2>2. CASE r # {}
    <3> DEFINE p == CHOOSE g \in r : TRUE
    <3>1. p \in r
      BY <2>2
    <3>2. p \in gs /\ p.begin = a + n
      BY <3>1 DEF RightOf
    <3>3. \A q \in r : q = p
      BY <3>2, <1>t DEF RightOf
    <3>4. e = p.end
      BY <2>2
    <3> HIDE DEF p
    <3> QED BY <3>1, <3>2, <3>3, <3>4
  <2> QED BY <2>1, <2>2
<1>c. F = (gs \ (l \cup r)) \cup {M}
  BY DEF Free
<1>e. /\ \A h \in gs : h \in l <=> h.end = a
      /\ \A h \in gs : h \in r <=> h.begin = a + n
  BY DEF LeftOf, RightOf
<1>i. M.begin = b /\ M.end = e
  OBVIOUS
<1> HIDE DEF l, r, b, e, M, F
<1>n. b \in Nat /\ e \in Nat /\ b <= a /\ a + n <= e /\ e <= TotalSize
  BY <1>l, <1>r, <1>t
<1>g. M \in Gap
  <2>1. [begin |-> b, end |-> e] \in Gap
    BY <1>n DEF Gap
  <2> QED BY <2>1 DEF M
<1>o. \A h \in gs : h \notin l /\ h \notin r => h.end < b \/ e < h.begin
  <2> SUFFICES ASSUME NEW h \in gs, h \notin l, h \notin r PROVE h.end < b \/ e < h.begin
    OBVIOUS
  <2>1. h.end < a \/ a + n < h.begin
    BY <1>e, <1>t
  <2>2. CASE h.end < a
    <3>1. CASE l = {}
      BY <3>1, <2>2, <1>l
    <3>2. CASE l # {}
      <4>1. PICK p \in gs : l = {p} /\ p.end = a /\ b = p.begin
        BY <3>2, <1>l
      <4>2. h # p
        BY <4>1
      <4> QED BY <4>1, <4>2, <2>2, <1>t
    <3> QED BY <3>1, <3>2
  <2>3. CASE a + n < h.begin
    <3>1. CASE r = {}
      BY <3>1, <2>3, <1>r
    <3>2. CASE r # {}
      <4>1. PICK p \in gs : r = {p} /\ p.begin = a + n /\ e = p.end
        BY <3>2, <1>r
      <4>2. h # p
        BY <4>1
      <4> QED BY <4>1, <4>2, <2>3, <1>t
    <3> QED BY <3>1, <3>2
  <2> QED BY <2>1, <2>2, <2>3
<1>m. \A h \in F : h = M \/ (h \in gs /\ h \notin l /\ h \notin r)
  BY <1>c
<1>1. F \subseteq Gap
  BY <1>m, <1>g DEF Canonical
<1>2. \A h \in F : h.begin < h.end /\ h.end <= TotalSize
  BY <1>m, <1>i, <1>n, <1>t
<1>3. \A h, k \in F : h = k \/ h.end < k.begin \/ k.end < h.begin
  BY <1>m, <1>i, <1>o, <1>t
<1>4. ASSUME NEW x \in Int PROVE Covers(F, x) <=> Covers(gs, x) \/ Within(a, n, x)
  <2>1. ASSUME b <= x, x < e PROVE Covers(gs, x) \/ Within(a, n, x)
    <3>1. CASE x < a
      BY <3>1, <2>1, <1>l, <1>t DEF Covers
    <3>2. CASE a + n <= x
      BY <3>2, <2>1, <1>r, <1>t DEF Covers
    <3> QED BY <3>1, <3>2, <1>n DEF Within
  <2>2. ASSUME NEW h \in F, h.begin <= x, x < h.end PROVE Covers(gs, x) \/ Within(a, n, x)
    BY <2>1, <2>2, <1>m, <1>i DEF Covers
  <2>3. M \in F
    BY <1>c
  <2>4. ASSUME Within(a, n, x) PROVE Covers(F, x)
    BY <2>3, <2>4, <1>i, <1>n DEF Covers, Within
  <2>5. ASSUME NEW h \in gs, h.begin <= x, x < h.end PROVE Covers(F, x)
    <3>1. CASE h \in l
      BY <3>1, <2>3, <2>5, <1>l, <1>i, <1>n, <1>t DEF Covers
    <3>2. CASE h \in r
      BY <3>2, <2>3, <2>5, <1>r, <1>i, <1>n, <1>t DEF Covers
    <3>3. CASE h \notin l /\ h \notin r
      <4>1. h \in F
        BY <3>3, <1>c
      <4> QED BY <4>1, <2>5 DEF Covers
    <3> QED BY <3>1, <3>2, <3>3
  <2> QED BY <2>2, <2>4, <2>5 DEF Covers
<1> QED BY <1>1, <1>2, <1>3, <1>4 DEF Canonical, F

(* One address set, one set of gaps.                                       *)
LEMMA CanonicalSubset ==
    ASSUME NEW A, NEW B, Canonical(A), Canonical(B),
           \A x \in 0..(TotalSize - 1) : Covers(A, x) <=> Covers(B, x)
    PROVE  A \subseteq B
<1> SUFFICES ASSUME NEW g \in A PROVE g \in B
  OBVIOUS
<1>t. /\ TotalSize \in Nat
      /\ \A h \in A \cup B : /\ h \in Gap /\ h.begin \in Nat /\ h.end \in Nat
                             /\ h.begin < h.end /\ h.end <= TotalSize
      /\ \A h, k \in A : h = k \/ h.end < k.begin \/ k.end < h.begin
      /\ \A h, k \in B : h = k \/ h.end < k.begin \/ k.end < h.begin
  BY TotalSizeAssumption DEF Canonical, Gap
<1>1. PICK h \in B : h.begin <= g.begin /\ g.begin < h.end
  <2>1. g.begin \in 0..(TotalSize - 1) /\ Covers(A, g.begin)
    BY <1>t DEF Covers
  <2> QED BY <2>1 DEF Covers
<1>2. h.begin = g.begin
  <2> SUFFICES ASSUME h.begin < g.begin PROVE FALSE
    BY <1>1, <1>t
  <2>1. g.begin - 1 \in 0..(TotalSize - 1) /\ Covers(B, g.begin - 1)
    BY <1>1, <1>t DEF Covers
  <2>2. PICK k \in A : k.begin <= g.begin - 1 /\ g.begin - 1 < k.end
    BY <2>1 DEF Covers
  <2> QED BY <2>2, <1>t
<1>3. ~(h.end < g.end)
  <2> SUFFICES ASSUME h.end < g.end PROVE FALSE
    OBVIOUS
  <2>1. h.end \in 0..(TotalSize - 1) /\ Covers(A, h.end)
    BY <1>1, <1>2, <1>t DEF Covers
  <2>2. PICK k \in B : k.begin <= h.end /\ h.end < k.end
    BY <2>1 DEF Covers
  <2> QED BY <2>2, <1>t
<1>4. ~(g.end < h.end)
  <2> SUFFICES ASSUME g.end < h.end PROVE FALSE
    OBVIOUS
  <2>1. g.end \in 0..(TotalSize - 1) /\ Covers(B, g.end)
    BY <1>1, <1>2, <1>t DEF Covers
  <2>2. PICK k \in A : k.begin <= g.end /\ g.end < k.end
    BY <2>1 DEF Covers
  <2> QED BY <2>2, <1>t
<1>5. g.end = h.end
  BY <1>3, <1>4, <1>t
<1>6. g = h
  BY <1>2, <1>5, <1>t DEF Gap
<1> QED BY <1>6

(* Two sets of gaps that cover the same addresses are the same gaps: what  *)
(* lets canAlloc compare the gaps before and after.                        *)
LEMMA CanonicalUnique ==
    ASSUME NEW A, NEW B, Canonical(A), Canonical(B),
           \A x \in 0..(TotalSize - 1) : Covers(A, x) <=> Covers(B, x)
    PROVE  A = B
<1>1. A \subseteq B
  BY CanonicalSubset
<1>2. B \subseteq A
  BY CanonicalSubset
<1> QED BY <1>1, <1>2

------------------------------------------------------------------------------
(***************************************************************************)
(* The inductive invariant.                                                *)
(***************************************************************************)
I(r) == Interval(r, addr[r])
T(r) == Interval(r, tempAddr[r])

(* What is held lies in the memory and does not overlap. *)
HeldApart ==
    /\ \A r \in live : 0 <= addr[r] /\ addr[r] + Size[r] <= TotalSize
    /\ \A r \in temp : 0 <= tempAddr[r] /\ tempAddr[r] + Size[r] <= TotalSize
    /\ \A r, s \in live : r = s \/ Disjoint(I(r), I(s))
    /\ \A r, s \in temp : r = s \/ Disjoint(T(r), T(s))
    /\ \A r \in live, s \in temp : Disjoint(I(r), T(s))
    /\ \A r \in live, i \in reserved : Disjoint(I(r), i)
    /\ \A r \in temp, i \in reserved : Disjoint(T(r), i)

(* What each call may find and leave. *)
CallShape ==
    /\ mode = "reserve" => live = {}
    /\ mode \in {"reserve", "idle", "free"} => temp = {}
    /\ \A i \in DOMAIN todo : todo[i] \notin temp
    /\ \A i, j \in DOMAIN todo : todo[i] = todo[j] => i = j
    /\ mode = "alloc" => \A r \in temp \cup RangesOf(todo) : addr[r] = InvalidAddress

(* Giving back what the call has placed restores the addresses it found.   *)
Restorable ==
    mode \in {"alloc", "canAlloc", "release"} =>
        /\ Canonical(before)
        /\ \A x \in 0..(TotalSize - 1) :
               Covers(before, x) <=> \/ Covers(gaps, x)
                                    \/ \E r \in temp : Within(tempAddr[r], Size[r], x)

IInv ==
    /\ Types
    /\ Canonical(gaps)
    /\ GapsExact
    /\ HeldApart
    /\ CallShape
    /\ Restorable

------------------------------------------------------------------------------
(* What Held covers, holder by holder. *)
HeldAt(x) ==
    \/ \E i \in reserved : i.begin <= x /\ x < i.end
    \/ \E r \in live : Within(addr[r], Size[r], x)
    \/ \E r \in temp : Within(tempAddr[r], Size[r], x)

(* Held is the set the properties speak of, HeldAt the same by holder.     *)
LEMMA HeldCovers == ASSUME NEW x PROVE Covers(Held, x) <=> HeldAt(x)
<1>1. ASSUME NEW r, NEW b PROVE Interval(r, b).begin = b /\ Interval(r, b).end = b + Size[r]
  BY DEF Interval
<1>2. ASSUME HeldAt(x) PROVE Covers(Held, x)
  <2>1. CASE \E i \in reserved : i.begin <= x /\ x < i.end
    BY <2>1 DEF Covers, Held
  <2>2. CASE \E r \in live : Within(addr[r], Size[r], x)
    <3>1. PICK r \in live : Within(addr[r], Size[r], x)
      BY <2>2
    <3>2. Interval(r, addr[r]) \in Held
      BY DEF Held
    <3> QED BY <3>1, <3>2, <1>1 DEF Covers, Within
  <2>3. CASE \E r \in temp : Within(tempAddr[r], Size[r], x)
    <3>1. PICK r \in temp : Within(tempAddr[r], Size[r], x)
      BY <2>3
    <3>2. Interval(r, tempAddr[r]) \in Held
      BY DEF Held
    <3> QED BY <3>1, <3>2, <1>1 DEF Covers, Within
  <2> QED BY <1>2, <2>1, <2>2, <2>3 DEF HeldAt
<1>3. ASSUME Covers(Held, x) PROVE HeldAt(x)
  <2>1. PICK i \in Held : i.begin <= x /\ x < i.end
    BY <1>3 DEF Covers
  <2>2. CASE i \in reserved
    BY <2>1, <2>2 DEF HeldAt
  <2>3. CASE \E r \in live : i = Interval(r, addr[r])
    BY <2>1, <2>3, <1>1 DEF HeldAt, Within
  <2>4. CASE \E r \in temp : i = Interval(r, tempAddr[r])
    BY <2>1, <2>4, <1>1 DEF HeldAt, Within
  <2> QED BY <2>1, <2>2, <2>3, <2>4 DEF Held
<1> QED BY <1>2, <1>3

\* The same in the next state.
LEMMA HeldCoversPrime == ASSUME NEW x PROVE Covers(Held', x) <=> HeldAt(x)'
<1>1. ASSUME NEW r, NEW b PROVE Interval(r, b).begin = b /\ Interval(r, b).end = b + Size[r]
  BY DEF Interval
<1>2. ASSUME HeldAt(x)' PROVE Covers(Held', x)
  <2>1. CASE \E i \in reserved' : i.begin <= x /\ x < i.end
    BY <2>1 DEF Covers, Held
  <2>2. CASE \E r \in live' : Within(addr'[r], Size[r], x)
    <3>1. PICK r \in live' : Within(addr'[r], Size[r], x)
      BY <2>2
    <3>2. Interval(r, addr'[r]) \in Held'
      BY DEF Held
    <3> QED BY <3>1, <3>2, <1>1 DEF Covers, Within
  <2>3. CASE \E r \in temp' : Within(tempAddr'[r], Size[r], x)
    <3>1. PICK r \in temp' : Within(tempAddr'[r], Size[r], x)
      BY <2>3
    <3>2. Interval(r, tempAddr'[r]) \in Held'
      BY DEF Held
    <3> QED BY <3>1, <3>2, <1>1 DEF Covers, Within
  <2> QED BY <1>2, <2>1, <2>2, <2>3 DEF HeldAt
<1>3. ASSUME Covers(Held', x) PROVE HeldAt(x)'
  <2>1. PICK i \in Held' : i.begin <= x /\ x < i.end
    BY <1>3 DEF Covers
  <2>2. CASE i \in reserved'
    BY <2>1, <2>2 DEF HeldAt
  <2>3. CASE \E r \in live' : i = Interval(r, addr'[r])
    BY <2>1, <2>3, <1>1 DEF HeldAt, Within
  <2>4. CASE \E r \in temp' : i = Interval(r, tempAddr'[r])
    BY <2>1, <2>4, <1>1 DEF HeldAt, Within
  <2> QED BY <2>1, <2>2, <2>3, <2>4 DEF Held
<1> QED BY <1>2, <1>3

(* GapsExact by holder, before and after a step.                           *)
Exact == \A x \in 0..(TotalSize - 1) : Covers(gaps, x) <=> ~HeldAt(x)

(* GapsExact, stated holder by holder.                                     *)
LEMMA ExactIs == GapsExact <=> Exact
  BY HeldCovers DEF GapsExact, Exact

(* The same after a step.                                                  *)
LEMMA ExactIsPrime == GapsExact' <=> Exact'
<1>1. GapsExact' <=> \A x \in 0..(TotalSize - 1) : Covers(gaps', x) <=> ~Covers(Held', x)
  BY DEF GapsExact, Covers
<1>2. Exact' <=> \A x \in 0..(TotalSize - 1) : Covers(gaps', x) <=> ~HeldAt(x)'
  BY DEF Exact, Covers
<1> QED BY <1>1, <1>2, HeldCoversPrime

(* A gap no address of which is in an interval lies apart from it.         *)
LEMMA Apart ==
    ASSUME NEW gs, Canonical(gs), NEW a \in Nat, NEW n \in Nat \ {0}, a + n <= TotalSize,
           \A x \in 0..(TotalSize - 1) : Within(a, n, x) => ~Covers(gs, x)
    PROVE  \A g \in gs : g.end <= a \/ a + n <= g.begin
<1> SUFFICES ASSUME NEW g \in gs, a < g.end, g.begin < a + n PROVE FALSE
  BY TotalSizeAssumption DEF Canonical, Gap
<1>t. g.begin \in Nat /\ g.end \in Nat /\ g.begin < g.end /\ g.end <= TotalSize /\ TotalSize \in Nat
  BY TotalSizeAssumption DEF Canonical, Gap
<1>1. CASE g.begin <= a
  <2>1. a \in 0..(TotalSize - 1) /\ Within(a, n, a) /\ Covers(gs, a)
    BY <1>1, <1>t DEF Within, Covers
  <2> QED BY <2>1
<1>2. CASE a < g.begin
  <2>1. g.begin \in 0..(TotalSize - 1) /\ Within(a, n, g.begin) /\ Covers(gs, g.begin)
    BY <1>2, <1>t DEF Within, Covers
  <2> QED BY <2>1
<1> QED BY <1>1, <1>2, <1>t

(* The partitioner never answers with an address outside the gap it chose. *)
LEMMA ChosenFits ==
    ASSUME NEW gs, Canonical(gs), NEW n \in Nat \ {0}, NEW al \in Nat \ {0}, NEW d,
           NEW g \in ChosenGaps(gs, n, al, d)
    PROVE  /\ g \in gs
           /\ AddrFromGap(g, n, al, d) \in Nat
           /\ g.begin <= AddrFromGap(g, n, al, d)
           /\ AddrFromGap(g, n, al, d) + n <= g.end
<1> DEFINE up == UpAddr(g, n, al)
           down == DownAddr(g, n, al)
           a == IF d = "Up" THEN up ELSE down
<1>1. g \in Fitting(gs, n, al, d)
  BY DEF ChosenGaps, Candidates
<1>2. g \in gs /\ AddrFromGap(g, n, al, d) # InvalidAddress
  BY <1>1 DEF Fitting
<1>3. g.begin \in Nat /\ g.end \in Nat
  BY <1>2 DEF Canonical, Gap
<1>4. ASSUME NEW x \in Int PROVE AlignUp(x, al) \in Int
  <2>1. (x + al - 1) \div al \in Int
    OBVIOUS
  <2> QED BY <2>1 DEF AlignUp
<1>5. up \in Int
  BY <1>3, <1>4 DEF UpAddr
<1>6. down \in Int
  <2>1. g.end - n \in Int
    BY <1>3
  <2>2. AlignUp(g.end - n, al) \in Int
    BY <2>1, <1>4
  <2> QED BY <2>2 DEF DownAddr
<1>7. a \in Int
  BY <1>5, <1>6
<1>8. AddrFromGap(g, n, al, d) = IF GapSize(g) >= n /\ g.begin <= a /\ a + n <= g.end THEN a ELSE InvalidAddress
  BY DEF AddrFromGap
<1> HIDE DEF a
<1>9. AddrFromGap(g, n, al, d) = a /\ g.begin <= a /\ a + n <= g.end
  BY <1>2, <1>8
<1> QED BY <1>2, <1>3, <1>7, <1>9

------------------------------------------------------------------------------
(***************************************************************************)
(* The steps.                                                              *)
(***************************************************************************)
(* Every range takes and is aligned to at least one byte.                  *)
LEMMA Ranging ==
    ASSUME NEW r \in Ranges
    PROVE  Size[r] \in Nat \ {0} /\ Alignment[r] \in Nat \ {0}
  BY RangesAssumption

(* Every reserved interval is a non-empty part of the memory.              *)
LEMMA Reserving ==
    ASSUME NEW r \in Reserved
    PROVE  r.begin \in Nat /\ r.end \in Nat /\ r.begin < r.end /\ r.end <= TotalSize
  BY ReservedAssumption DEF Gap

(* An interval taken from one gap overlaps nothing that is held.           *)
LEMMA FreshApart ==
    ASSUME IInv, NEW g \in gaps, NEW a \in Int, NEW n \in Nat \ {0},
           g.begin <= a, a + n <= g.end
    PROVE  /\ a \in Nat /\ a + n <= TotalSize
           /\ \A r \in live : a + n <= addr[r] \/ addr[r] + Size[r] <= a
           /\ \A r \in temp : a + n <= tempAddr[r] \/ tempAddr[r] + Size[r] <= a
           /\ \A i \in reserved : a + n <= i.begin \/ i.end <= a
<1>t. g.begin \in Nat /\ g.end \in Nat /\ g.begin < g.end /\ g.end <= TotalSize /\ TotalSize \in Nat
  BY TotalSizeAssumption DEF IInv, Canonical, Gap
<1>x. Exact
  BY ExactIs DEF IInv
<1>g. \A x \in 0..(TotalSize - 1) : HeldAt(x) => \A h \in gaps : ~(h.begin <= x /\ x < h.end)
  BY <1>x DEF Exact, Covers
<1>1. ASSUME NEW r \in live PROVE a + n <= addr[r] \/ addr[r] + Size[r] <= a
  <2>1. addr[r] \in Nat /\ Size[r] \in Nat \ {0} /\ addr[r] + Size[r] <= TotalSize
    BY Ranging DEF IInv, Types, HeldApart
  <2>2. \A x \in 0..(TotalSize - 1) : Within(addr[r], Size[r], x) => ~Covers(gaps, x)
    BY <1>x DEF Exact, HeldAt
  <2>3. g.end <= addr[r] \/ addr[r] + Size[r] <= g.begin
    BY <2>1, <2>2, Apart DEF IInv
  <2> QED BY <2>1, <2>3, <1>t
<1>2. ASSUME NEW r \in temp PROVE a + n <= tempAddr[r] \/ tempAddr[r] + Size[r] <= a
  <2>1. tempAddr[r] \in Nat /\ Size[r] \in Nat \ {0} /\ tempAddr[r] + Size[r] <= TotalSize
    BY Ranging DEF IInv, Types, HeldApart
  <2>2. \A x \in 0..(TotalSize - 1) : Within(tempAddr[r], Size[r], x) => ~Covers(gaps, x)
    BY <1>x DEF Exact, HeldAt
  <2>3. g.end <= tempAddr[r] \/ tempAddr[r] + Size[r] <= g.begin
    BY <2>1, <2>2, Apart DEF IInv
  <2> QED BY <2>1, <2>3, <1>t
<1>3. ASSUME NEW i \in reserved PROVE a + n <= i.begin \/ i.end <= a
  <2>1. i.begin \in Nat /\ i.end \in Nat /\ i.begin < i.end /\ i.end <= TotalSize
    BY Reserving DEF IInv, Types
  <2>2. \A x \in 0..(TotalSize - 1) : Within(i.begin, i.end - i.begin, x) => ~Covers(gaps, x)
    BY <2>1, <1>x DEF Exact, HeldAt, Within
  <2>3. g.end <= i.begin \/ i.begin + (i.end - i.begin) <= g.begin
    <3>1. i.end - i.begin \in Nat \ {0} /\ i.begin + (i.end - i.begin) <= TotalSize
      BY <2>1, <1>t
    <3> HIDE DEF IInv
    <3> QED BY <3>1, <2>1, <2>2, Apart DEF IInv
  <2> QED BY <2>1, <2>3, <1>t
<1> QED BY <1>1, <1>2, <1>3, <1>t

(* A step that moves no interval.                                          *)
LEMMA Quiet ==
    ASSUME IInv, UNCHANGED <<gaps, reserved, live, temp>>,
           \A r \in live : addr'[r] = addr[r], \A r \in temp : tempAddr'[r] = tempAddr[r]
    PROVE  Canonical(gaps)' /\ GapsExact' /\ HeldApart'
<1>1. Exact'
  <2>1. \A x : HeldAt(x)' <=> HeldAt(x)
    BY DEF HeldAt, Within
  <2> QED BY <2>1, ExactIs DEF Exact, IInv, Covers
<1>2. Canonical(gaps)'
  BY DEF IInv, Canonical
<1>3. HeldApart'
  BY DEF IInv, HeldApart, Disjoint, I, T, Interval
<1> QED BY <1>1, <1>2, <1>3, ExactIsPrime

(* A new LinearScan: one gap, the whole memory, and nobody holding any of it. *)
LEMMA InitIInv == Init => IInv
<1> SUFFICES ASSUME Init PROVE IInv
  OBVIOUS
<1>t. TotalSize \in Nat \ {0}
  BY TotalSizeAssumption
<1>1. Types
  BY <1>t DEF Init, Types, NoAddr, InvalidAddress, Gap
<1>2. Canonical(gaps)
  BY <1>t DEF Init, Canonical, Gap
<1>3. Exact
  BY <1>t DEF Init, Exact, HeldAt, Covers
<1>4. HeldApart /\ CallShape /\ Restorable
  BY DEF Init, HeldApart, CallShape, Restorable, RangesOf
<1> QED BY <1>1, <1>2, <1>3, <1>4, ExactIs DEF IInv

(* The constructor takes a reserved interval out of the one gap that has it *)
(* (allocFixed).                                                           *)
LEMMA ReserveKeeps == IInv /\ Reserve => IInv'
<1> SUFFICES ASSUME IInv, Reserve PROVE IInv'
  OBVIOUS
<1>1. PICK r \in Reserved \ reserved :
          /\ gaps' = AllocFixed(gaps, r.begin, r.end - r.begin)
          /\ reserved' = reserved \cup {r}
  BY DEF Reserve
<1>u. /\ mode = "reserve" /\ live = {} /\ temp = {}
      /\ UNCHANGED <<live, alive, addr, mode, dir, todo, temp, tempAddr, before>>
  BY DEF Reserve, IInv, CallShape
<1>n. r.begin \in Nat /\ r.end \in Nat /\ r.begin < r.end /\ r.end <= TotalSize /\ TotalSize \in Nat
  BY Reserving, TotalSizeAssumption
<1>a. \A i \in reserved : r.end <= i.begin \/ i.end <= r.begin
  BY ReservedAssumption DEF IInv, Types
<1>x. Exact
  BY ExactIs DEF IInv
<1>f. \A x \in 0..(TotalSize - 1) : r.begin <= x /\ x < r.end => Covers(gaps, x)
  <2> SUFFICES ASSUME NEW x \in 0..(TotalSize - 1), r.begin <= x, x < r.end PROVE ~HeldAt(x)
    BY <1>x DEF Exact
  <2>1. \A i \in reserved : i.begin \in Nat /\ i.end \in Nat
    BY Reserving DEF IInv, Types
  <2> QED BY <2>1, <1>u, <1>a, <1>n DEF HeldAt
<1>c. /\ \A h \in gaps : h.begin \in Nat /\ h.end \in Nat /\ h.begin < h.end /\ h.end <= TotalSize
      /\ \A h, k \in gaps : h = k \/ h.end < k.begin \/ k.end < h.begin
  BY DEF IInv, Canonical, Gap
<1>2. \E g \in gaps : g.begin <= r.begin /\ r.end <= g.end
  <2>1. PICK g \in gaps : g.begin <= r.begin /\ r.begin < g.end
    BY <1>f, <1>n DEF Covers
  <2>2. ~(g.end < r.end)
    <3> SUFFICES ASSUME g.end < r.end PROVE FALSE
      OBVIOUS
    <3>1. PICK h \in gaps : h.begin <= g.end /\ g.end < h.end
      BY <2>1, <1>f, <1>n, <1>c DEF Covers
    <3> QED BY <3>1, <2>1, <1>c
  <2> QED BY <2>1, <2>2, <1>c, <1>n
<1> DEFINE g == CHOOSE g \in gaps : g.begin <= r.begin /\ r.begin + (r.end - r.begin) <= g.end
           n == r.end - r.begin
<1>3. g \in gaps /\ g.begin <= r.begin /\ r.begin + n <= g.end
  <2>1. \E h \in gaps : h.begin <= r.begin /\ r.begin + (r.end - r.begin) <= h.end
    BY <1>2, <1>n
  <2> QED BY <2>1
<1>4. gaps' = Carve(gaps, g, r.begin, n)
  BY <1>1 DEF AllocFixed
<1>5. n \in Nat \ {0} /\ r.begin + n = r.end
  BY <1>n
<1> HIDE DEF g, n
<1>6. /\ Canonical(gaps')
      /\ \A x \in Int : Covers(gaps', x) <=> Covers(gaps, x) /\ ~Within(r.begin, n, x)
  BY <1>3, <1>4, <1>5, <1>n, CarveOK DEF IInv
<1>7. Exact'
  <2> SUFFICES ASSUME NEW x \in 0..(TotalSize - 1) PROVE Covers(gaps', x) <=> ~HeldAt(x)'
    BY DEF Exact, Covers
  <2>1. HeldAt(x)' <=> HeldAt(x) \/ (r.begin <= x /\ x < r.end)
    BY <1>1, <1>u DEF HeldAt
  <2>2. Within(r.begin, n, x) <=> r.begin <= x /\ x < r.end
    BY <1>5 DEF Within
  <2>3. x \in Int
    OBVIOUS
  <2> QED BY <2>1, <2>2, <2>3, <1>6, <1>x DEF Exact
<1>8. Types'
  BY <1>1, <1>u, <1>6 DEF IInv, Types, Canonical
<1>9. HeldApart' /\ CallShape' /\ Restorable'
  BY <1>u DEF HeldApart, IInv, CallShape, Restorable, RangesOf
<1> QED BY <1>6, <1>7, <1>8, <1>9, ExactIsPrime DEF IInv, Canonical

(* A call of alloc or canAlloc remembers the gaps it found and moves none. *)
LEMMA CallKeeps ==
    ASSUME IInv, NEW s \in Requests, NEW d \in {"Up", "Down"},
           CallAlloc(s, d) \/ CallCanAlloc(s, d)
    PROVE  IInv'
<1>1. s \in Seq(Ranges) /\ \A i, j \in DOMAIN s : s[i] = s[j] => i = j
  <2>1. PICK n \in 1..MaxRequest : s \in {q \in [1..n -> Ranges] : \A i, j \in 1..n : q[i] = q[j] => i = j}
    BY DEF Requests
  <2>2. CASE n \in Nat
    BY <2>1, <2>2
  <2> QED BY <2>1, <2>2
<1>2. /\ mode = "idle" /\ todo' = s /\ dir' = d /\ before' = gaps
      /\ mode' \in {"alloc", "canAlloc"}
      /\ UNCHANGED <<gaps, reserved, live, addr, temp, tempAddr>>
      /\ mode' = "alloc" => \A r \in RangesOf(s) : addr[r] = InvalidAddress
      /\ alive' \subseteq Ranges
  BY <1>1 DEF CallAlloc, CallCanAlloc, Begin, IInv, Types, RangesOf
<1>3. temp = {}
  BY <1>2 DEF IInv, CallShape
<1>4. Canonical(gaps)' /\ GapsExact' /\ HeldApart'
  BY <1>2, Quiet
<1>5. Types'
  BY <1>1, <1>2 DEF IInv, Types
<1>6. CallShape'
  BY <1>1, <1>2, <1>3 DEF CallShape, RangesOf
<1>7. Restorable'
  BY <1>2, <1>3, <1>4 DEF Restorable, IInv, Canonical, Covers
<1> QED BY <1>4, <1>5, <1>6, <1>7 DEF IInv

(* allocPlainRange takes the next range's interval out of a gap that it fits *)
(* in.                                                                     *)
LEMMA PlaceKeeps == IInv /\ Place => IInv'
<1> SUFFICES ASSUME IInv, Place PROVE IInv'
  OBVIOUS
<1> DEFINE r == Head(todo)
           n == Size[r]
<1>1. PICK g \in ChosenGaps(gaps, Size[r], Alignment[r], dir) :
          LET a == AddrFromGap(g, Size[r], Alignment[r], dir)
          IN  /\ gaps' = Carve(gaps, g, a, Size[r])
              /\ temp' = temp \cup {r}
              /\ tempAddr' = [tempAddr EXCEPT ![r] = a]
  BY DEF Place
<1> DEFINE a == AddrFromGap(g, Size[r], Alignment[r], dir)
<1>2. /\ gaps' = Carve(gaps, g, a, n)
      /\ temp' = temp \cup {r}
      /\ tempAddr' = [tempAddr EXCEPT ![r] = a]
      /\ mode \in {"alloc", "canAlloc"} /\ todo # <<>> /\ todo' = Tail(todo)
      /\ UNCHANGED <<reserved, live, alive, addr, mode, dir, before>>
  BY <1>1 DEF Place
<1>3. /\ r \in Ranges /\ r = todo[1] /\ todo \in Seq(Ranges) /\ Len(todo) > 0
      /\ todo' \in Seq(Ranges)
      /\ DOMAIN todo' = 1..(Len(todo) - 1)
      /\ \A i \in DOMAIN todo' : todo'[i] = todo[i + 1] /\ i + 1 \in DOMAIN todo
      /\ 1 \in DOMAIN todo
  BY <1>2 DEF IInv, Types
<1>4. r \notin temp
  BY <1>3 DEF IInv, CallShape
<1>5. n \in Nat \ {0} /\ Alignment[r] \in Nat \ {0}
  BY <1>3, Ranging
<1>6. g \in gaps /\ a \in Nat /\ g.begin <= a /\ a + n <= g.end
  BY <1>5, ChosenFits DEF IInv
<1> HIDE DEF a, r, n
<1>7. /\ Canonical(gaps')
      /\ \A x \in Int : Covers(gaps', x) <=> Covers(gaps, x) /\ ~Within(a, n, x)
  BY <1>2, <1>5, <1>6, CarveOK DEF IInv
<1>8. /\ a + n <= TotalSize
      /\ \A s \in live : a + n <= addr[s] \/ addr[s] + Size[s] <= a
      /\ \A s \in temp : a + n <= tempAddr[s] \/ tempAddr[s] + Size[s] <= a
      /\ \A i \in reserved : a + n <= i.begin \/ i.end <= a
  BY <1>5, <1>6, FreshApart
<1>9. tempAddr'[r] = a /\ \A s \in temp : tempAddr'[s] = tempAddr[s]
  BY <1>2, <1>3, <1>4 DEF IInv, Types
<1>10. Types'
  <2>1. tempAddr' \in [Ranges -> Int]
    BY <1>2, <1>3, <1>6 DEF IInv, Types
  <2>2. gaps' \subseteq Gap
    BY <1>7 DEF Canonical
  <2> QED BY <2>1, <2>2, <1>2, <1>3 DEF IInv, Types
<1>11. ASSUME NEW x \in 0..(TotalSize - 1)
       PROVE  /\ x \in Int
              /\ (\E s \in temp' : Within(tempAddr'[s], Size[s], x))
                    <=> (\E s \in temp : Within(tempAddr[s], Size[s], x)) \/ Within(a, n, x)
  BY <1>2, <1>9 DEF n
<1>12. Exact'
  <2> SUFFICES ASSUME NEW x \in 0..(TotalSize - 1) PROVE Covers(gaps', x) <=> ~HeldAt(x)'
    BY DEF Exact, Covers
  <2>1. HeldAt(x)' <=> HeldAt(x) \/ Within(a, n, x)
    BY <1>2, <1>11 DEF HeldAt
  <2> QED BY <2>1, <1>7, <1>11, ExactIs DEF Exact, IInv
<1>13. HeldApart'
  <2>1. \A s \in temp' : 0 <= tempAddr'[s] /\ tempAddr'[s] + Size[s] <= TotalSize
    BY <1>2, <1>6, <1>8, <1>9 DEF IInv, HeldApart, n
  <2>2. /\ \A s \in live : Disjoint(Interval(s, addr[s]), Interval(r, a))
        /\ \A s \in temp : /\ Disjoint(Interval(s, tempAddr[s]), Interval(r, a))
                           /\ Disjoint(Interval(r, a), Interval(s, tempAddr[s]))
        /\ \A i \in reserved : Disjoint(Interval(r, a), i)
    BY <1>8 DEF Disjoint, Interval, n
  <2>3. \A s, q \in temp' : s = q \/ Disjoint(Interval(s, tempAddr'[s]), Interval(q, tempAddr'[q]))
    BY <1>2, <1>9, <2>2 DEF IInv, HeldApart, T
  <2>4. \A s \in live, q \in temp' : Disjoint(Interval(s, addr[s]), Interval(q, tempAddr'[q]))
    BY <1>2, <1>9, <2>2 DEF IInv, HeldApart, T, I
  <2>5. \A q \in temp', i \in reserved : Disjoint(Interval(q, tempAddr'[q]), i)
    BY <1>2, <1>9, <2>2 DEF IInv, HeldApart, T
  <2> QED BY <1>2, <2>1, <2>3, <2>4, <2>5 DEF IInv, HeldApart, I, T, Interval, Disjoint
<1>14. CallShape'
  <2>1. mode' \in {"alloc", "canAlloc"}
    BY <1>2
  <2>2. \A i \in DOMAIN todo' : todo'[i] \notin temp'
    BY <1>2, <1>3 DEF IInv, CallShape
  <2>3. \A i, j \in DOMAIN todo' : todo'[i] = todo'[j] => i = j
    BY <1>2, <1>3 DEF IInv, CallShape
  <2>4. temp' \cup RangesOf(todo') \subseteq temp \cup RangesOf(todo)
    BY <1>2, <1>3 DEF RangesOf
  <2> QED BY <1>2, <2>1, <2>2, <2>3, <2>4 DEF IInv, CallShape, RangesOf
<1>15. Restorable'
  <2>1. Canonical(before')
    BY <1>2 DEF IInv, Restorable
  <2>2. ASSUME NEW x \in 0..(TotalSize - 1)
        PROVE  Covers(before', x) <=> Covers(gaps', x) \/ \E s \in temp' : Within(tempAddr'[s], Size[s], x)
    <3>1. Covers(before, x) <=> Covers(gaps, x) \/ \E s \in temp : Within(tempAddr[s], Size[s], x)
      BY <1>2 DEF IInv, Restorable
    <3>2. Within(a, n, x) => Covers(gaps, x)
      BY <1>6, <1>5, <1>7, <1>11 DEF Covers, Within, IInv, Canonical, Gap
    <3> QED BY <3>1, <3>2, <1>2, <1>7, <1>11
  <2> QED BY <2>1, <2>2 DEF Restorable, Canonical, Covers
<1> QED BY <1>7, <1>10, <1>12, <1>13, <1>14, <1>15, ExactIsPrime DEF IInv, Canonical

(* What such a step changes. *)
MovesNothing ==
    /\ UNCHANGED <<gaps, reserved, live, temp, before, dir>>
    /\ \A r \in live : addr'[r] = addr[r]
    /\ \A r \in temp : tempAddr'[r] = tempAddr[r]
    /\ alive' \subseteq alive
    /\ todo' = todo \/ todo' = <<>>
    /\ \A r \in Ranges : addr[r] = InvalidAddress => addr'[r] = InvalidAddress
    /\ addr' \in [Ranges -> Int] /\ tempAddr' \in [Ranges -> Int]
    /\ mode' \in {"reserve", "idle", "alloc", "canAlloc", "release", "free"}
    /\ mode' \in {"idle", "free"} => temp = {}
    /\ mode' \in {"reserve", "alloc"} => mode' = mode
    /\ mode' \in {"alloc", "canAlloc", "release"} => mode \in {"alloc", "canAlloc", "release"}

(* The steps that move no interval: begin, end and mark.                   *)
LEMMA QuietStepsKeep ==
    IInv /\ (\/ Constructed \/ GiveUp \/ Answer \/ Released \/ CallFreeNonAlive \/ Freed
             \/ \E r \in Ranges : MarkAsDead(r) \/ Deallocate(r)) => IInv'
<1> SUFFICES ASSUME IInv,
                    \/ Constructed \/ GiveUp \/ Answer \/ Released \/ CallFreeNonAlive \/ Freed
                    \/ \E r \in Ranges : MarkAsDead(r) \/ Deallocate(r)
             PROVE  IInv'
  OBVIOUS
<1>1. MovesNothing
  <2>1. CASE Constructed
    BY <2>1 DEF MovesNothing, Constructed, IInv, Types, CallShape
  <2>2. CASE GiveUp
    BY <2>2 DEF MovesNothing, GiveUp, IInv, Types
  <2>3. CASE Answer
    BY <2>3 DEF MovesNothing, Answer, IInv, Types
  <2>4. CASE Released
    BY <2>4 DEF MovesNothing, Released, IInv, Types, NoAddr, InvalidAddress
  <2>5. CASE CallFreeNonAlive
    BY <2>5 DEF MovesNothing, CallFreeNonAlive, IInv, Types, CallShape
  <2>6. CASE Freed
    BY <2>6 DEF MovesNothing, Freed, IInv, Types, CallShape
  <2>7. ASSUME NEW r \in Ranges, MarkAsDead(r) PROVE MovesNothing
    BY <2>7 DEF MovesNothing, MarkAsDead, IInv, Types, CallShape
  <2>8. ASSUME NEW r \in Ranges, Deallocate(r) PROVE MovesNothing
    BY <2>8 DEF MovesNothing, Deallocate, IInv, Types, CallShape, InvalidAddress
  <2> QED BY <2>1, <2>2, <2>3, <2>4, <2>5, <2>6, <2>7, <2>8
<1>2. Canonical(gaps)' /\ GapsExact' /\ HeldApart'
  BY <1>1, Quiet DEF MovesNothing
<1>3. Types'
  <2>1. todo' \in Seq(Ranges)
    <3>1. todo \in Seq(Ranges) /\ <<>> \in Seq(Ranges)
      BY DEF IInv, Types
    <3>2. todo' = todo \/ todo' = <<>>
      BY <1>1 DEF MovesNothing
    <3> QED BY <3>1, <3>2
  <2> QED BY <2>1, <1>1 DEF MovesNothing, IInv, Types
<1>4. CallShape'
  <2>1. RangesOf(todo') \subseteq RangesOf(todo) /\ RangesOf(todo) \subseteq Ranges /\ temp \subseteq Ranges
    BY <1>1 DEF MovesNothing, RangesOf, IInv, Types
  <2>2. mode' = "alloc" => \A r \in temp' \cup RangesOf(todo') : addr'[r] = InvalidAddress
    BY <2>1, <1>1 DEF MovesNothing, IInv, CallShape
  <2>3. (mode' = "reserve" => live' = {}) /\ (mode' \in {"reserve", "idle", "free"} => temp' = {})
    BY <1>1 DEF MovesNothing, IInv, CallShape
  <2>4. /\ \A i \in DOMAIN todo' : todo'[i] \notin temp'
        /\ \A i, j \in DOMAIN todo' : todo'[i] = todo'[j] => i = j
    BY <1>1 DEF MovesNothing, IInv, CallShape
  <2> QED BY <2>2, <2>3, <2>4 DEF CallShape, RangesOf
<1>5. Restorable'
  BY <1>1 DEF MovesNothing, IInv, Restorable, Canonical, Covers, Within
<1> QED BY <1>2, <1>3, <1>4, <1>5 DEF IInv

(* alloc gives the placed ranges to the handler: their temporary addresses *)
(* become their addresses.                                                 *)
LEMMA CommitKeeps == IInv /\ Commit => IInv'
<1> SUFFICES ASSUME IInv, Commit PROVE IInv'
  OBVIOUS
<1>1. /\ mode = "alloc" /\ todo = <<>> /\ mode' = "idle"
      /\ addr' = [r \in Ranges |-> IF r \in temp THEN tempAddr[r] ELSE addr[r]]
      /\ live' = live \cup temp /\ temp' = {} /\ tempAddr' = NoAddr
      /\ UNCHANGED <<gaps, reserved, alive, dir, todo, before>>
  BY DEF Commit
<1>2. live \cap temp = {}
  BY <1>1 DEF IInv, CallShape, HeldApart, InvalidAddress
<1>3. /\ \A r \in live : addr'[r] = addr[r] /\ r \in live'
      /\ \A r \in temp : addr'[r] = tempAddr[r] /\ r \in live'
      /\ live \subseteq Ranges /\ temp \subseteq Ranges
  BY <1>1, <1>2 DEF IInv, Types
<1>4. Types'
  BY <1>1, <1>3 DEF IInv, Types, NoAddr, InvalidAddress
<1>5. Exact'
  <2>1. \A x : HeldAt(x)' <=> HeldAt(x)
    BY <1>1, <1>3 DEF HeldAt
  <2> QED BY <2>1, <1>1, ExactIs DEF Exact, IInv, Covers
<1>6. HeldApart'
  <2>1. \A r \in live' : 0 <= addr'[r] /\ addr'[r] + Size[r] <= TotalSize
    BY <1>1, <1>3 DEF IInv, HeldApart
  <2>2. \A r, s \in live' : r = s \/ Disjoint(Interval(r, addr'[r]), Interval(s, addr'[s]))
    <3> SUFFICES ASSUME NEW r \in live', NEW s \in live', r # s
                 PROVE  Disjoint(Interval(r, addr'[r]), Interval(s, addr'[s]))
      OBVIOUS
    <3>1. CASE r \in live /\ s \in live
      BY <3>1, <1>3 DEF IInv, HeldApart, I
    <3>2. CASE r \in temp /\ s \in temp
      BY <3>2, <1>3 DEF IInv, HeldApart, T
    <3>3. CASE r \in live /\ s \in temp
      BY <3>3, <1>3 DEF IInv, HeldApart, I, T
    <3>4. CASE r \in temp /\ s \in live
      BY <3>4, <1>3 DEF IInv, HeldApart, I, T, Disjoint
    <3> QED BY <3>1, <3>2, <3>3, <3>4, <1>1
  <2>3. \A r \in live', i \in reserved' : Disjoint(Interval(r, addr'[r]), i)
    BY <1>1, <1>3 DEF IInv, HeldApart, I, T
  <2> QED BY <1>1, <2>1, <2>2, <2>3 DEF HeldApart, I, T, Interval, Disjoint
<1>7. CallShape' /\ Restorable'
  BY <1>1 DEF CallShape, Restorable
<1>8. Canonical(gaps)'
  BY <1>1 DEF IInv, Canonical
<1> QED BY <1>4, <1>5, <1>6, <1>7, <1>8, ExactIsPrime DEF IInv

(* rollback gives a placed range's interval back; the addresses free when the *)
(* call began are, with those still placed, what they were.                *)
LEMMA ReleaseKeeps == IInv /\ Release => IInv'
<1> SUFFICES ASSUME IInv, Release PROVE IInv'
  OBVIOUS
<1>1. PICK r \in temp : gaps' = Free(gaps, tempAddr[r], Size[r]) /\ temp' = temp \ {r}
  BY DEF Release
<1>2. /\ mode = "release"
      /\ UNCHANGED <<reserved, live, alive, addr, mode, dir, todo, tempAddr, before>>
  BY DEF Release
<1> DEFINE a == tempAddr[r]
           n == Size[r]
<1>3. r \in Ranges /\ a \in Nat /\ n \in Nat \ {0} /\ a + n <= TotalSize
  BY Ranging DEF IInv, Types, HeldApart
<1>x. Exact
  BY ExactIs DEF IInv
<1>4. \A x \in 0..(TotalSize - 1) : Within(a, n, x) => ~Covers(gaps, x)
  BY <1>x DEF Exact, HeldAt
<1>5. \A g \in gaps : g.end <= a \/ a + n <= g.begin
  BY <1>3, <1>4, Apart DEF IInv
<1>6. /\ Canonical(gaps')
      /\ \A x \in Int : Covers(gaps', x) <=> Covers(gaps, x) \/ Within(a, n, x)
  BY <1>1, <1>3, <1>5, FreeOK DEF IInv
<1>7. ASSUME NEW x \in 0..(TotalSize - 1)
      PROVE  /\ x \in Int
             /\ HeldAt(x) <=> HeldAt(x)' \/ Within(a, n, x)
             /\ HeldAt(x)' => ~Within(a, n, x)
  <2>1. HeldAt(x) <=> HeldAt(x)' \/ Within(a, n, x)
    BY <1>1, <1>2 DEF HeldAt
  <2>2. ASSUME HeldAt(x)', Within(a, n, x) PROVE FALSE
    <3>1. CASE \E i \in reserved : i.begin <= x /\ x < i.end
      <4>1. PICK i \in reserved : i.begin <= x /\ x < i.end
        BY <3>1
      <4>2. Disjoint(T(r), i) /\ i.begin \in Nat /\ i.end \in Nat
        BY Reserving DEF IInv, HeldApart, Types
      <4> QED BY <4>1, <4>2, <2>2, <1>3 DEF Disjoint, T, Interval, Within
    <3>2. CASE \E s \in live : Within(addr[s], Size[s], x)
      <4>1. PICK s \in live : Within(addr[s], Size[s], x)
        BY <3>2
      <4>2. Disjoint(I(s), T(r)) /\ addr[s] \in Int /\ Size[s] \in Nat
        BY Ranging DEF IInv, HeldApart, Types
      <4> QED BY <4>1, <4>2, <2>2, <1>3 DEF Disjoint, T, I, Interval, Within
    <3>3. CASE \E s \in temp' : Within(tempAddr[s], Size[s], x)
      <4>1. PICK s \in temp : s # r /\ Within(tempAddr[s], Size[s], x)
        BY <3>3, <1>1
      <4>2. Disjoint(T(s), T(r)) /\ tempAddr[s] \in Int /\ Size[s] \in Nat
        BY <4>1, Ranging DEF IInv, HeldApart, Types
      <4> QED BY <4>1, <4>2, <2>2, <1>3 DEF Disjoint, T, Interval, Within
    <3> QED BY <2>2, <3>1, <3>2, <3>3, <1>2 DEF HeldAt
  <2> QED BY <2>1, <2>2
<1> HIDE DEF a, n
<1>8. Exact'
  <2> SUFFICES ASSUME NEW x \in 0..(TotalSize - 1) PROVE Covers(gaps', x) <=> ~HeldAt(x)'
    BY DEF Exact, Covers
  <2> QED BY <1>6, <1>7, <1>x DEF Exact
<1>9. Types'
  BY <1>1, <1>2, <1>6 DEF IInv, Types, Canonical
<1>10. HeldApart'
  BY <1>1, <1>2 DEF IInv, HeldApart, I, T, Interval, Disjoint
<1>11. CallShape'
  BY <1>1, <1>2 DEF IInv, CallShape, RangesOf
<1>12. Restorable'
  <2>1. Canonical(before')
    BY <1>2 DEF IInv, Restorable
  <2>2. ASSUME NEW x \in 0..(TotalSize - 1)
        PROVE  Covers(before', x) <=> Covers(gaps', x) \/ \E s \in temp' : Within(tempAddr'[s], Size[s], x)
    <3>1. Covers(before, x) <=> Covers(gaps, x) \/ \E s \in temp : Within(tempAddr[s], Size[s], x)
      BY <1>2 DEF IInv, Restorable
    <3>2. (\E s \in temp : Within(tempAddr[s], Size[s], x))
             <=> (\E s \in temp' : Within(tempAddr'[s], Size[s], x)) \/ Within(a, n, x)
      BY <1>1, <1>2 DEF a, n
    <3> QED BY <3>1, <3>2, <1>2, <1>6, <1>7
  <2> QED BY <2>1, <2>2 DEF Restorable, Canonical, Covers
<1> QED BY <1>6, <1>8, <1>9, <1>10, <1>11, <1>12, ExactIsPrime DEF IInv, Canonical

(* freeNonAlive gives a dead range's interval back.                        *)
LEMMA FreeLiveRangeKeeps == IInv /\ FreeLiveRange => IInv'
<1> SUFFICES ASSUME IInv, FreeLiveRange PROVE IInv'
  OBVIOUS
<1>1. PICK r \in live \ alive : gaps' = Free(gaps, addr[r], Size[r]) /\ live' = live \ {r}
  BY DEF FreeLiveRange
<1>2. /\ mode = "free" /\ temp = {}
      /\ UNCHANGED <<reserved, alive, addr, mode, dir, todo, temp, tempAddr, before>>
  BY DEF FreeLiveRange, IInv, CallShape
<1> DEFINE a == addr[r]
           n == Size[r]
<1>3. r \in Ranges /\ a \in Nat /\ n \in Nat \ {0} /\ a + n <= TotalSize
  BY Ranging DEF IInv, Types, HeldApart
<1>x. Exact
  BY ExactIs DEF IInv
<1>4. \A x \in 0..(TotalSize - 1) : Within(a, n, x) => ~Covers(gaps, x)
  BY <1>x DEF Exact, HeldAt
<1>5. \A g \in gaps : g.end <= a \/ a + n <= g.begin
  BY <1>3, <1>4, Apart DEF IInv
<1>6. /\ Canonical(gaps')
      /\ \A x \in Int : Covers(gaps', x) <=> Covers(gaps, x) \/ Within(a, n, x)
  BY <1>1, <1>3, <1>5, FreeOK DEF IInv
<1>7. ASSUME NEW x \in 0..(TotalSize - 1)
      PROVE  /\ x \in Int
             /\ HeldAt(x) <=> HeldAt(x)' \/ Within(a, n, x)
             /\ HeldAt(x)' => ~Within(a, n, x)
  <2>1. HeldAt(x) <=> HeldAt(x)' \/ Within(a, n, x)
    BY <1>1, <1>2 DEF HeldAt
  <2>2. ASSUME HeldAt(x)', Within(a, n, x) PROVE FALSE
    <3>1. CASE \E i \in reserved : i.begin <= x /\ x < i.end
      <4>1. PICK i \in reserved : i.begin <= x /\ x < i.end
        BY <3>1
      <4>2. Disjoint(I(r), i) /\ i.begin \in Nat /\ i.end \in Nat
        BY Reserving DEF IInv, HeldApart, Types
      <4> QED BY <4>1, <4>2, <2>2, <1>3 DEF Disjoint, I, Interval, Within
    <3>2. CASE \E s \in live' : Within(addr[s], Size[s], x)
      <4>1. PICK s \in live : s # r /\ Within(addr[s], Size[s], x)
        BY <3>2, <1>1
      <4>2. Disjoint(I(s), I(r)) /\ addr[s] \in Int /\ Size[s] \in Nat
        BY <4>1, Ranging DEF IInv, HeldApart, Types
      <4> QED BY <4>1, <4>2, <2>2, <1>3 DEF Disjoint, I, Interval, Within
    <3> QED BY <2>2, <3>1, <3>2, <1>2 DEF HeldAt
  <2> QED BY <2>1, <2>2
<1> HIDE DEF a, n
<1>8. Exact'
  <2> SUFFICES ASSUME NEW x \in 0..(TotalSize - 1) PROVE Covers(gaps', x) <=> ~HeldAt(x)'
    BY DEF Exact, Covers
  <2> QED BY <1>6, <1>7, <1>x DEF Exact
<1>9. Types'
  BY <1>1, <1>2, <1>6 DEF IInv, Types, Canonical
<1>10. HeldApart'
  BY <1>1, <1>2 DEF IInv, HeldApart, I, T, Interval, Disjoint
<1>11. CallShape' /\ Restorable'
  BY <1>1, <1>2 DEF IInv, CallShape, RangesOf, Restorable
<1> QED BY <1>6, <1>8, <1>9, <1>10, <1>11, ExactIsPrime DEF IInv, Canonical

(* Every step preserves the invariant.                                     *)
LEMMA StepIInv == IInv /\ [Next]_vars => IInv'
<1> SUFFICES ASSUME IInv, [Next]_vars PROVE IInv'
  OBVIOUS
<1>1. CASE Reserve
  BY <1>1, ReserveKeeps
<1>2. ASSUME NEW s \in Requests, NEW d \in {"Up", "Down"}, CallAlloc(s, d) \/ CallCanAlloc(s, d)
      PROVE  IInv'
  BY <1>2, CallKeeps
<1>3. CASE Place
  BY <1>3, PlaceKeeps
<1>4. CASE Constructed \/ GiveUp \/ Answer \/ Released \/ CallFreeNonAlive \/ Freed
  BY <1>4, QuietStepsKeep
<1>5. ASSUME NEW r \in Ranges, MarkAsDead(r) \/ Deallocate(r) PROVE IInv'
  BY <1>5, QuietStepsKeep
<1>6. CASE Commit
  BY <1>6, CommitKeeps
<1>7. CASE Release
  BY <1>7, ReleaseKeeps
<1>8. CASE FreeLiveRange
  BY <1>8, FreeLiveRangeKeeps
<1>9. CASE UNCHANGED vars
  <2>1. Canonical(gaps)' /\ GapsExact' /\ HeldApart'
    BY <1>9, Quiet DEF vars
  <2>2. Types' /\ CallShape' /\ Restorable'
    BY <1>9 DEF vars, IInv, Types, CallShape, RangesOf, Restorable, Canonical, Covers, Within
  <2> QED BY <2>1, <2>2 DEF IInv
<1> QED BY <1>1, <1>2, <1>3, <1>4, <1>5, <1>6, <1>7, <1>8, <1>9 DEF Next

(* The invariant the theorems below follow from.                           *)
THEOREM Invariance == Spec => []IInv
  BY InitIInv, StepIInv, PTL DEF Spec

(* The variables keep their types, whatever the sizes and requests.        *)
THEOREM TypeCorrect == Spec => []TypeOK
<1>1. IInv => TypeOK
  BY DEF IInv, Canonical, TypeOK
<1> QED BY <1>1, Invariance, PTL

(* Live ranges never overlap each other or a reserved interval, and stay   *)
(* inside the memory: for every sequence of alloc, canAlloc, freeNonAlive  *)
(* and deallocate calls the clients of LinearScan can make.                *)
THEOREM RangesDisjoint == Spec => []LiveRangesDisjoint
<1>1. IInv => LiveRangesDisjoint
  BY DEF IInv, HeldApart, LiveRangesDisjoint, I
<1> QED BY <1>1, Invariance, PTL

(* Partitioner::alloc and free lose no address and give none twice, and    *)
(* free always merges: two gaps never touch, so a request that fits in the *)
(* contiguous free space fits in a gap.                                    *)
THEOREM FreeSpaceKept == Spec => []FreeSpaceExact
<1>1. IInv => FreeSpaceExact
  BY DEF IInv, Canonical, GapsMaximal, FreeSpaceExact
<1> QED BY <1>1, Invariance, PTL

(* canAlloc, and an alloc that fails, leave exactly the gaps they found:   *)
(* "Error new gaps created" is never thrown.                               *)
THEOREM RollbackExact == Spec => CanAllocRestores
<1>1. IInv /\ [Next]_vars => [mode = "release" /\ mode' = "idle" => gaps' = before]_vars
  <2> SUFFICES ASSUME IInv, Next, mode = "release", mode' = "idle" PROVE gaps' = before
    BY DEF vars
  <2>1. Released
    <3>1. ASSUME NEW s \in Requests, NEW d \in {"Up", "Down"}, CallAlloc(s, d) \/ CallCanAlloc(s, d)
          PROVE  FALSE
      BY <3>1 DEF CallAlloc, CallCanAlloc, Begin
    <3>2. ASSUME NEW r \in Ranges, MarkAsDead(r) \/ Deallocate(r) PROVE FALSE
      BY <3>2 DEF MarkAsDead, Deallocate
    <3> QED BY <3>1, <3>2 DEF Next, Reserve, Constructed, Place, GiveUp, Commit, Answer, Release,
                              CallFreeNonAlive, FreeLiveRange, Freed
  <2>2. temp = {} /\ gaps' = gaps
    BY <2>1 DEF Released
  <2>3. Canonical(before) /\ \A x \in 0..(TotalSize - 1) : Covers(before, x) <=> Covers(gaps, x)
    BY <2>2 DEF IInv, Restorable
  <2>4. before = gaps
    BY <2>3, CanonicalUnique DEF IInv
  <2> QED BY <2>2, <2>4
<1> QED BY <1>1, Invariance, PTL DEF Spec, CanAllocRestores

------------------------------------------------------------------------------
(* Alignment.                                                              *)

(* A multiple of n leaves nothing.                                         *)
LEMMA MultipleOf ==
    ASSUME NEW q \in Int, NEW n \in Nat \ {0}
    PROVE  (n * q) % n = 0
  BY SMTT(60)

(* The address getAddrFromGap gives is aligned, from below and from above. *)
LEMMA AddrAligned ==
    ASSUME NEW g \in Gap, NEW n \in Nat \ {0}, NEW al \in Nat \ {0}, NEW d,
           AddrFromGap(g, n, al, d) # InvalidAddress
    PROVE  AddrFromGap(g, n, al, d) % al = 0
<1>1. \A x \in Int : x \div al \in Int
  OBVIOUS
<1>2. g.begin \in Int /\ g.end \in Int
  BY DEF Gap
<1> DEFINE q == (g.begin + al - 1) \div al
           p == (g.end - n + al - 1) \div al
<1>3. q \in Int /\ AlignUp(g.begin, al) = al * q
  BY <1>1, <1>2 DEF AlignUp
<1>4. p \in Int /\ AlignUp(g.end - n, al) = al * p
  BY <1>1, <1>2 DEF AlignUp
<1> HIDE DEF p, q
<1>5. al * p - al = al * (p - 1)
  BY <1>4
<1>6. UpAddr(g, n, al) % al = 0
  BY <1>3, MultipleOf DEF UpAddr
<1>7. DownAddr(g, n, al) % al = 0
  <2>1. (al * p) % al = 0 /\ (al * (p - 1)) % al = 0
    BY <1>4, MultipleOf
  <2>2. DownAddr(g, n, al) = al * p \/ DownAddr(g, n, al) = al * (p - 1)
    BY <1>4, <1>5 DEF DownAddr
  <2> QED BY <2>1, <2>2
<1> QED BY <1>6, <1>7 DEF AddrFromGap

(* What the call in progress has placed is aligned as well.                *)
AlignInv == Aligned /\ \A r \in temp : tempAddr[r] % Alignment[r] = 0

(* Every step keeps addresses aligned.                                     *)
LEMMA StepAlignInv == IInv /\ AlignInv /\ [Next]_vars => AlignInv'
<1> SUFFICES ASSUME IInv, AlignInv, [Next]_vars PROVE AlignInv'
  OBVIOUS
<1> USE DEF AlignInv, Aligned
<1>1. CASE Place
  <2> DEFINE r == Head(todo)
  <2>1. PICK g \in ChosenGaps(gaps, Size[r], Alignment[r], dir) :
            /\ temp' = temp \cup {r}
            /\ tempAddr' = [tempAddr EXCEPT ![r] = AddrFromGap(g, Size[r], Alignment[r], dir)]
    BY <1>1 DEF Place
  <2>2. r \in Ranges
    BY <1>1 DEF Place, IInv, Types
  <2>3. g \in Gap /\ AddrFromGap(g, Size[r], Alignment[r], dir) # InvalidAddress
    BY DEF ChosenGaps, Candidates, Fitting, IInv, Types
  <2>4. AddrFromGap(g, Size[r], Alignment[r], dir) % Alignment[r] = 0
    BY <2>2, <2>3, Ranging, AddrAligned
  <2>5. tempAddr'[r] = AddrFromGap(g, Size[r], Alignment[r], dir)
        /\ \A q \in temp : q # r => tempAddr'[q] = tempAddr[q]
    BY <2>1, <2>2 DEF IInv, Types
  <2>6. UNCHANGED <<live, addr>>
    BY <1>1 DEF Place
  <2> HIDE DEF r
  <2> QED BY <2>1, <2>4, <2>5, <2>6
<1>2. CASE Commit
  BY <1>2 DEF Commit, IInv, Types
<1>3. CASE Release \/ FreeLiveRange
  BY <1>3 DEF Release, FreeLiveRange
<1>4. ASSUME NEW s \in Requests, NEW d \in {"Up", "Down"}, CallAlloc(s, d) \/ CallCanAlloc(s, d)
      PROVE  AlignInv'
  BY <1>4 DEF CallAlloc, CallCanAlloc
<1>5. ASSUME NEW r \in Ranges, MarkAsDead(r) \/ Deallocate(r) PROVE AlignInv'
  BY <1>5 DEF MarkAsDead, Deallocate, IInv, Types
<1>6. CASE Reserve \/ Constructed \/ GiveUp \/ Answer \/ CallFreeNonAlive \/ Freed
  BY <1>6 DEF Reserve, Constructed, GiveUp, Answer, CallFreeNonAlive, Freed
<1>7. CASE Released
  BY <1>7 DEF Released
<1>8. CASE UNCHANGED vars
  BY <1>8 DEF vars
<1> QED BY <1>1, <1>2, <1>3, <1>4, <1>5, <1>6, <1>7, <1>8 DEF Next

(* Every live range lies at a multiple of its alignment, whichever end it  *)
(* was allocated from and however gaps were cut before (getAddrFromGap).   *)
THEOREM AddressesAligned == Spec => []Aligned
<1>1. Init => AlignInv
  BY DEF Init, AlignInv, Aligned
<1>2. AlignInv => Aligned
  BY DEF AlignInv
<1> QED BY <1>1, <1>2, Invariance, StepAlignInv, PTL DEF Spec
==============================================================================
