----------------------------- MODULE Partitioner -----------------------------
(***************************************************************************)
(* The free space of a memory, kept as gaps (src/.../utils/partitioner.cpp *)
(* and the allocating half of linear_scan.hpp).  A gap is the half-open    *)
(* interval [begin, end).  The code keeps the gaps in a vector sorted by   *)
(* address; the vector is the set of its gaps.                             *)
(*                                                                         *)
(* All operators are pure: a component that allocates keeps its gaps in a  *)
(* variable of its own.                                                    *)
(***************************************************************************)
EXTENDS Integers

Gap == [begin : Nat, end : Nat]

InvalidAddress == -1    \* std::numeric_limits<AddressType>::max()

GapSize(g) == g.end - g.begin

AlignUp(x, alignment) == alignment * ((x + alignment - 1) \div alignment)

(***************************************************************************)
(* getAddrFromGap: the address the gap would give, or InvalidAddress.      *)
(***************************************************************************)
\* Variant: the address is not aligned.
UpUnaligned(g, size, alignment) == g.begin

UpAddr(g, size, alignment) == AlignUp(g.begin, alignment)

DownAddr(g, size, alignment) ==
    LET a == AlignUp(g.end - size, alignment)
    IN  IF a + size > g.end THEN a - alignment ELSE a

\* Variant: the padding is not counted when the size is compared.
AddrIfSizeFits(g, size, alignment, dir) ==
    LET a == IF dir = "Up" THEN UpAddr(g, size, alignment) ELSE DownAddr(g, size, alignment)
    IN  IF GapSize(g) >= size THEN a ELSE InvalidAddress

AddrFromGap(g, size, alignment, dir) ==
    LET a == IF dir = "Up" THEN UpAddr(g, size, alignment) ELSE DownAddr(g, size, alignment)
    IN  IF GapSize(g) >= size /\ g.begin <= a /\ a + size <= g.end THEN a ELSE InvalidAddress

Fitting(gaps, size, alignment, dir) ==
    {g \in gaps : AddrFromGap(g, size, alignment, dir) # InvalidAddress}

(***************************************************************************)
(* chooseMinimalGap: the smallest gap that fits, the first such gap in the *)
(* direction; the last gap in that direction only when no other one fits.  *)
(***************************************************************************)
Before(g, h, dir) == IF dir = "Up" THEN g.begin < h.begin ELSE g.begin > h.begin

Farthest(gaps, dir) == {g \in gaps : \A h \in gaps : h = g \/ Before(h, g, dir)}

Candidates(gaps, size, alignment, dir) ==
    LET fit == Fitting(gaps, size, alignment, dir)
    IN  IF fit \subseteq Farthest(gaps, dir) THEN fit ELSE fit \ Farthest(gaps, dir)

ChosenGaps(gaps, size, alignment, dir) ==
    {g \in Candidates(gaps, size, alignment, dir) :
        \A h \in Candidates(gaps, size, alignment, dir) :
            \/ GapSize(g) < GapSize(h)
            \/ GapSize(g) = GapSize(h) /\ (g = h \/ Before(g, h, dir))}

(***************************************************************************)
(* useGap, allocFixed: take [addr, addr + size) out of the gap around it.  *)
(***************************************************************************)
\* Variant: what is left of a gap stays, be it empty.
CarveKeepingEmpty(gaps, g, addr, size) ==
    (gaps \ {g}) \cup {[begin |-> g.begin, end |-> addr], [begin |-> addr + size, end |-> g.end]}

\* Variant: the padding in front of an aligned address goes with the interval.
CarveWithPadding(gaps, g, addr, size) ==
    (gaps \ {g}) \cup {h \in {[begin |-> addr + size, end |-> g.end]} : h.begin < h.end}

Carve(gaps, g, addr, size) ==
    (gaps \ {g}) \cup {h \in {[begin |-> g.begin, end |-> addr], [begin |-> addr + size, end |-> g.end]} :
                            h.begin < h.end}

AllocFixed(gaps, addr, size) ==
    Carve(gaps, CHOOSE g \in gaps : g.begin <= addr /\ addr + size <= g.end, addr, size)

(***************************************************************************)
(* Partitioner::alloc: the address and the gaps left.                      *)
(***************************************************************************)
Alloc(gaps, size, alignment, dir) ==
    IF Fitting(gaps, size, alignment, dir) = {}
    THEN [addr |-> InvalidAddress, gaps |-> gaps]
    ELSE LET g == CHOOSE g \in ChosenGaps(gaps, size, alignment, dir) : TRUE
             a == AddrFromGap(g, size, alignment, dir)
         IN  [addr |-> a, gaps |-> Carve(gaps, g, a, size)]

(***************************************************************************)
(* Partitioner::free: the interval joins the gaps that touch it.           *)
(***************************************************************************)
LeftOf(gaps, addr) == {g \in gaps : g.end = addr}

RightOf(gaps, end) == {g \in gaps : g.begin = end}

\* Variant: the interval joins the gap on its left only.
FreeJoiningLeft(gaps, addr, size) ==
    LET l == LeftOf(gaps, addr)
    IN  (gaps \ l) \cup {[begin |-> IF l = {} THEN addr ELSE (CHOOSE g \in l : TRUE).begin,
                          end   |-> addr + size]}

Free(gaps, addr, size) ==
    LET l == LeftOf(gaps, addr)
        r == RightOf(gaps, addr + size)
    IN  (gaps \ (l \cup r)) \cup
            {[begin |-> IF l = {} THEN addr ELSE (CHOOSE g \in l : TRUE).begin,
              end   |-> IF r = {} THEN addr + size ELSE (CHOOSE g \in r : TRUE).end]}
==============================================================================
