------------------------------ MODULE LinearScan ------------------------------
(***************************************************************************)
(* The linear-scan allocator (include/.../utils/linear_scan.hpp) over the  *)
(* partitioner, with the handler the compiler gives it                     *)
(* (core/linear_scan_handler.cpp).  A call of alloc or canAlloc works      *)
(* through its live ranges one at a time, so a call is a sequence of steps *)
(* under `mode`; the client (a scheduler) acts only when mode is "idle".   *)
(*                                                                         *)
(* Every caller in the compiler passes allowSpills = false, and the        *)
(* handler throws on a spill, so the spilling loop is not modelled; fixed  *)
(* ranges (StaticAllocOp) are made after the allocator has run.            *)
(***************************************************************************)
EXTENDS Partitioner, Sequences

CONSTANTS
    Ranges,         \* live ranges (buffers)
    Size,           \* [Ranges -> size]
    Alignment,      \* [Ranges -> alignment]
    TotalSize,      \* size of the memory
    Reserved,       \* the reserved intervals of the memory
    MaxRequest      \* bound: ranges in one request

ASSUME TotalSizeAssumption == TotalSize \in Nat \ {0}

ASSUME RangesAssumption ==
    /\ Size \in [Ranges -> Nat \ {0}]
    /\ Alignment \in [Ranges -> Nat \ {0}]

(* IE::getReservedMemOffsetAndSizeVec gives every resource its own place. *)
ASSUME ReservedAssumption ==
    /\ Reserved \subseteq Gap
    /\ \A r \in Reserved : r.begin < r.end /\ r.end <= TotalSize
    /\ \A r, s \in Reserved : r = s \/ r.end <= s.begin \/ s.end <= r.begin

VARIABLES
    gaps,       \* _par: the free intervals
    reserved,   \* reserved intervals the constructor has taken out
    live,       \* _liveRanges
    alive,      \* _aliveValues of the handler
    addr,       \* _valOffsets of the handler, InvalidAddress when absent
    mode,       \* the call in progress
    dir,        \* its direction
    todo,       \* its ranges still to be placed
    temp,       \* its ranges placed so far, at tempAddr
    tempAddr,
    before      \* history: the gaps when the last call began

vars == <<gaps, reserved, live, alive, addr, mode, dir, todo, temp, tempAddr, before>>

Requests == UNION {{s \in [1..n -> Ranges] : \A i, j \in 1..n : s[i] = s[j] => i = j} :
                       n \in 1..MaxRequest}

RangesOf(s) == {s[i] : i \in DOMAIN s}

NoAddr == [r \in Ranges |-> InvalidAddress]

Init ==
    /\ gaps = {[begin |-> 0, end |-> TotalSize]}
    /\ reserved = {} /\ live = {} /\ alive = {}
    /\ addr = NoAddr
    /\ mode = "reserve"
    /\ dir = "Up"
    /\ todo = <<>>
    /\ temp = {} /\ tempAddr = NoAddr
    /\ before = {}
------------------------------------------------------------------------------
(***************************************************************************)
(* The constructor takes the reserved intervals out of the memory.         *)
(***************************************************************************)
Reserve ==
    /\ mode = "reserve"
    /\ \E r \in Reserved \ reserved :
        /\ gaps' = AllocFixed(gaps, r.begin, r.end - r.begin)
        /\ reserved' = reserved \cup {r}
    /\ UNCHANGED <<live, alive, addr, mode, dir, todo, temp, tempAddr, before>>

Constructed ==
    /\ mode = "reserve" /\ reserved = Reserved
    /\ mode' = "idle"
    /\ UNCHANGED <<gaps, reserved, live, alive, addr, dir, todo, temp, tempAddr, before>>

(***************************************************************************)
(* The client begins a call: alloc for ranges without an address, which it *)
(* has marked alive, or canAlloc for any ranges.                           *)
(***************************************************************************)
Begin(call, s, d) ==
    /\ mode = "idle"
    /\ mode' = call /\ todo' = s /\ dir' = d /\ before' = gaps

CallAlloc(s, d) ==
    /\ \A r \in RangesOf(s) : addr[r] = InvalidAddress
    /\ Begin("alloc", s, d)
    /\ alive' = alive \cup RangesOf(s)
    /\ UNCHANGED <<gaps, reserved, live, addr, temp, tempAddr>>

CallCanAlloc(s, d) ==
    /\ Begin("canAlloc", s, d)
    /\ UNCHANGED <<gaps, reserved, live, alive, addr, temp, tempAddr>>

(***************************************************************************)
(* One turn of allocPlainRange (alloc) or of the temporary allocation      *)
(* (canAlloc): the range is placed, or the call gives up.                  *)
(***************************************************************************)
Place ==
    /\ mode \in {"alloc", "canAlloc"} /\ todo # <<>>
    /\ LET r == Head(todo)
       IN  \E g \in ChosenGaps(gaps, Size[r], Alignment[r], dir) :
            LET a == AddrFromGap(g, Size[r], Alignment[r], dir)
            IN  /\ gaps' = Carve(gaps, g, a, Size[r])
                /\ temp' = temp \cup {r}
                /\ tempAddr' = [tempAddr EXCEPT ![r] = a]
    /\ todo' = Tail(todo)
    /\ UNCHANGED <<reserved, live, alive, addr, mode, dir, before>>

GiveUp ==
    /\ mode \in {"alloc", "canAlloc"} /\ todo # <<>>
    /\ Fitting(gaps, Size[Head(todo)], Alignment[Head(todo)], dir) = {}
    /\ mode' = "release" /\ todo' = <<>>
    /\ UNCHANGED <<gaps, reserved, live, alive, addr, dir, temp, tempAddr, before>>

(* alloc has placed every range: _handler.allocated, _liveRanges.push_back. *)
Commit ==
    /\ mode = "alloc" /\ todo = <<>>
    /\ addr' = [r \in Ranges |-> IF r \in temp THEN tempAddr[r] ELSE addr[r]]
    /\ live' = live \cup temp
    /\ temp' = {} /\ tempAddr' = NoAddr
    /\ mode' = "idle"
    /\ UNCHANGED <<gaps, reserved, alive, dir, todo, before>>

Answer ==
    /\ mode = "canAlloc" /\ todo = <<>>
    /\ mode' = "release"
    /\ UNCHANGED <<gaps, reserved, live, alive, addr, dir, todo, temp, tempAddr, before>>

(* The deallocation loop of canAlloc, rollback of a failed alloc. *)
Release ==
    /\ mode = "release"
    /\ \E r \in temp :
        /\ gaps' = Free(gaps, tempAddr[r], Size[r])
        /\ temp' = temp \ {r}
    /\ UNCHANGED <<reserved, live, alive, addr, mode, dir, todo, tempAddr, before>>

Released ==
    /\ mode = "release" /\ temp = {}
    /\ mode' = "idle" /\ tempAddr' = NoAddr
    /\ UNCHANGED <<gaps, reserved, live, alive, addr, dir, todo, temp, before>>

(***************************************************************************)
(* freeNonAlive and the client's marks between the calls.                  *)
(***************************************************************************)
MarkAsDead(r) ==
    /\ mode = "idle" /\ r \in alive
    /\ alive' = alive \ {r}
    /\ UNCHANGED <<gaps, reserved, live, addr, mode, dir, todo, temp, tempAddr, before>>

CallFreeNonAlive ==
    /\ mode = "idle" /\ live \ alive # {}
    /\ mode' = "free"
    /\ UNCHANGED <<gaps, reserved, live, alive, addr, dir, todo, temp, tempAddr, before>>

FreeLiveRange ==
    /\ mode = "free"
    /\ \E r \in live \ alive :
        /\ gaps' = Free(gaps, addr[r], Size[r])
        /\ live' = live \ {r}
    /\ UNCHANGED <<reserved, alive, addr, mode, dir, todo, temp, tempAddr, before>>

Freed ==
    /\ mode = "free" /\ live \subseteq alive
    /\ mode' = "idle"
    /\ UNCHANGED <<gaps, reserved, live, alive, addr, dir, todo, temp, tempAddr, before>>

(* deallocate: the address of a spilled range is forgotten. *)
Deallocate(r) ==
    /\ mode = "idle" /\ r \notin live /\ addr[r] # InvalidAddress
    /\ addr' = [addr EXCEPT ![r] = InvalidAddress]
    /\ UNCHANGED <<gaps, reserved, live, alive, mode, dir, todo, temp, tempAddr, before>>

Next ==
    \/ Reserve \/ Constructed
    \/ \E s \in Requests, d \in {"Up", "Down"} : CallAlloc(s, d) \/ CallCanAlloc(s, d)
    \/ Place \/ GiveUp \/ Commit \/ Answer \/ Release \/ Released
    \/ \E r \in Ranges : MarkAsDead(r) \/ Deallocate(r)
    \/ CallFreeNonAlive \/ FreeLiveRange \/ Freed

Spec == Init /\ [][Next]_vars
------------------------------------------------------------------------------
(***************************************************************************)
(* Properties.                                                             *)
(***************************************************************************)
Interval(r, a) == [begin |-> a, end |-> a + Size[r]]

(* Every interval somebody holds. *)
Held == reserved \cup {Interval(r, addr[r]) : r \in live}
                 \cup {Interval(r, tempAddr[r]) : r \in temp}

Covers(I, a) == \E i \in I : i.begin <= a /\ a < i.end

Types ==
    /\ gaps \subseteq Gap
    /\ reserved \subseteq Reserved
    /\ live \subseteq Ranges /\ alive \subseteq Ranges /\ temp \subseteq Ranges
    /\ addr \in [Ranges -> Int] /\ tempAddr \in [Ranges -> Int]
    /\ mode \in {"reserve", "idle", "alloc", "canAlloc", "release", "free"}
    /\ dir \in {"Up", "Down"}
    /\ todo \in Seq(Ranges)
    /\ before \subseteq Gap

(* Types of the variables; there is no empty gap, and none beyond the      *)
(* memory.                                                                 *)
TypeOK == Types /\ \A g \in gaps : g.begin < g.end /\ g.end <= TotalSize

(* Two live ranges never share an address, whatever was allocated, tried,  *)
(* rolled back, freed and reserved in between.                             *)
Disjoint(i, j) == i.end <= j.begin \/ j.end <= i.begin

LiveRangesDisjoint ==
    /\ \A r, s \in live : r = s \/ Disjoint(Interval(r, addr[r]), Interval(s, addr[s]))
    /\ \A r \in live, i \in reserved : Disjoint(Interval(r, addr[r]), i)
    /\ \A r \in live : 0 <= addr[r] /\ addr[r] + Size[r] <= TotalSize

(* No memory is lost and none is given twice: an address is in a gap       *)
(* exactly when nobody holds it.                                           *)
GapsExact == \A a \in 0..(TotalSize - 1) : Covers(gaps, a) <=> ~Covers(Held, a)

(* Gaps that touch are one gap. *)
GapsMaximal == \A g, h \in gaps : g = h \/ g.end < h.begin \/ h.end < g.begin

(* The gaps are the free memory, and none is in pieces. *)
FreeSpaceExact == GapsExact /\ GapsMaximal

(* Every range lies at a multiple of its alignment. *)
Aligned == \A r \in live : addr[r] % Alignment[r] = 0

(* After a canAlloc, and after an alloc that gave up, the free space is    *)
(* gap for gap what it was ("Error new gaps created" is never thrown).     *)
CanAllocRestores == [][mode = "release" /\ mode' = "idle" => gaps' = before]_vars
==============================================================================
