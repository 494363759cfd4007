------------------------ MODULE ConstantFoldingCache ------------------------
(***************************************************************************)
(* ConstantFoldingCache (dialect/const/utils/constant_folding_cache.cpp)   *)
(* under the threads that use it: the bodies of the pool tasks             *)
(* processFoldingRequest submits, and the compiling threads that call      *)
(* ContentAttr::fold.                                                      *)
(*                                                                         *)
(* A step is what happens under one accessor of the tbb hash map, or one   *)
(* operation on the atomic _memoryUsedCache: addContent, removeContent and *)
(* cleanUpCache are sequences of such steps, and other threads run between *)
(* them.  replaceContentAttr is the one place that keeps an accessor while *)
(* it takes a second one.                                                  *)
(*                                                                         *)
(* The folded buffers themselves are external to the cache's readers:      *)
(* getContent hands out a Content that refers to the buffer of the cache   *)
(* entry without owning it.  A buffer is named by the task that folded it. *)
(***************************************************************************)
EXTENDS Integers, FiniteSets

CONSTANTS Worker,         \* pool tasks, one per folding request
          Client,         \* calls of ContentAttr::fold by compiling threads
          Attr,           \* ContentAttrs, told apart by their hash
          Batch,          \* the requests the workers may be given together
          Meaning,        \* Meaning[a]: what folding a yields
          Size,           \* Size[a]: totalAllocSize of a
          Limit,          \* _memoryUsageLimit
          CleanTo,        \* _memoryUsageLimit * _cacheCleanThreshold
          SizeModulus,    \* size_t counts modulo this
          Garbage,        \* what a freed buffer may read as
          Absent          \* no entry under a key

ASSUME ThreadAssumption == Worker \cap Client = {}
ASSUME FiniteAssumption == IsFiniteSet(Worker) /\ IsFiniteSet(Attr)
ASSUME SizeAssumption == /\ SizeModulus \in Nat \ {0}
                         /\ Size \in [Attr -> Nat]
                         /\ Limit \in Nat
                         /\ CleanTo \in Nat

FoldingRequest == [kind : {"fold", "equivalence", "partial"}, attr : Attr, from : Attr]

ASSUME BatchAssumption ==
    /\ Batch \subseteq [Worker -> FoldingRequest]
    \* EquivalenceRequest: fold() produces the same result for both attributes.
    /\ \A batch \in Batch, w \in Worker : batch[w].kind = "equivalence" =>
           /\ Meaning[batch[w].attr] = Meaning[batch[w].from]
           /\ Size[batch[w].attr] = Size[batch[w].from]

\* CachedContent; the value stands for the bytes of the buffer.
Entry == [buffer : Worker, value : {Meaning[a] : a \in Attr} \cup {Garbage}, refCount : Int]

ASSUME AbsentAssumption == Absent \notin Entry

\* The bytes S takes, of which each of its members x takes f[x].
Total(S, f) == Cardinality(UNION {{x} \X (1 .. f[x]) : x \in S})

\* All the contents of a batch take fewer bytes than size_t counts.
ASSUME WidthAssumption ==
    \A batch \in Batch :
        Total(Worker, [w \in Worker |-> Size[batch[w].attr]]) < SizeModulus

VARIABLES
    cache,           \* _cache: per attribute its entry, or Absent
    memoryUsedCache, \* _memoryUsedCache
    request,         \* the request of each worker
    pc,              \* where each worker is
    folded,          \* the content a worker is about to add
    borrowed,        \* the buffer a thread holds a reference to
    todo,            \* the snapshot cleanUpCache works through
    victim,          \* the attribute removeContent has erased
    client           \* where each fold call is

vars == <<cache, memoryUsedCache, request, pc, folded, borrowed, todo, victim, client>>

Cached == {a \in Attr : cache[a] # Absent}

\* The buffers the cache owns.
LiveBuffers == {cache[a].buffer : a \in Cached}

\* The accessor replaceContentAttr keeps on the original attribute.
Locked(a) == \E w \in Worker : pc[w] = "insert_new" /\ request[w].from = a

Init ==
    /\ cache = [a \in Attr |-> Absent]
    /\ memoryUsedCache = 0
    /\ request \in Batch
    /\ pc = [w \in Worker |-> "idle"]
    /\ folded = [w \in Worker |-> Garbage]
    /\ borrowed = [t \in Worker \cup Client |-> Absent]
    /\ todo = [w \in Worker |-> <<>>]
    /\ victim = [w \in Worker |-> Absent]
    /\ client = [c \in Client |-> "idle"]

Goto(w, label) == pc' = [pc EXCEPT ![w] = label]

-----------------------------------------------------------------------------
(* The task's body in processFoldingRequest.                               *)

BeginTask(w) ==
    /\ pc[w] = "idle"
    /\ Goto(w, IF request[w].kind = "equivalence" THEN "find_original" ELSE "has")
    /\ UNCHANGED <<cache, memoryUsedCache, request, folded, borrowed, todo, victim, client>>

\* replaceContentAttr: find(originalAttrAccessor, originalAttr), kept when found.
FindOriginal(w) ==
    /\ pc[w] = "find_original"
    /\ ~Locked(request[w].from)
    /\ Goto(w, IF request[w].from \in Cached THEN "insert_new" ELSE "has")
    /\ UNCHANGED <<cache, memoryUsedCache, request, folded, borrowed, todo, victim, client>>

\* replaceContentAttr: the content moves to the new attribute and the original
\* entry is erased.
InsertNew(w) ==
    LET a == request[w].attr
        o == request[w].from
    IN  /\ pc[w] = "insert_new"
        /\ ~Locked(a)
        /\ cache' = [cache EXCEPT
               ![a] = [buffer |-> cache[o].buffer, value |-> cache[o].value,
                       refCount |-> IF a \in Cached THEN cache[a].refCount ELSE 1],
               ![o] = Absent]
        /\ Goto(w, "done")
        /\ UNCHANGED <<memoryUsedCache, request, folded, borrowed, todo, victim, client>>

\* hasContent counts the query; a duplicated request ends here.
HasContent(w) ==
    LET a == request[w].attr
    IN  /\ pc[w] = "has"
        /\ ~Locked(a)
        /\ IF a \in Cached
           THEN /\ cache' = [cache EXCEPT ![a].refCount = @ + 1]
                /\ Goto(w, "done")
           ELSE /\ Goto(w, IF request[w].kind = "partial" THEN "get_partial" ELSE "fold")
                /\ UNCHANGED cache
        /\ UNCHANGED <<memoryUsedCache, request, folded, borrowed, todo, victim, client>>

\* tryFoldingPartially: getContent of the attribute without the new
\* transformation.
GetPartial(w) ==
    LET p == request[w].from
    IN  /\ pc[w] = "get_partial"
        /\ ~Locked(p)
        /\ IF p \in Cached
           THEN /\ cache' = [cache EXCEPT ![p].refCount = @ - 1]
                /\ borrowed' = [borrowed EXCEPT ![w] = cache[p].buffer]
                /\ Goto(w, "transform")
           ELSE /\ Goto(w, "fold")
                /\ UNCHANGED <<cache, borrowed>>
        /\ UNCHANGED <<memoryUsedCache, request, folded, todo, victim, client>>

\* tryFoldingPartially: the last transformations run on the borrowed buffer.  A
\* buffer freed meanwhile may read as anything.
TransformPartial(w) ==
    /\ pc[w] = "transform"
    /\ \E v \in {Meaning[request[w].attr]}
                \cup (IF borrowed[w] \in LiveBuffers THEN {} ELSE {Garbage}) :
           folded' = [folded EXCEPT ![w] = v]
    /\ Goto(w, "insert")
    /\ UNCHANGED <<cache, memoryUsedCache, request, borrowed, todo, victim, client>>

\* Variant: the content is added without having been folded.
FoldNothing(w) ==
    /\ pc[w] = "fold"
    /\ Goto(w, "insert")
    /\ UNCHANGED <<cache, memoryUsedCache, request, folded, borrowed, todo, victim, client>>

\* request.fold(bypassCache = true)
FoldRequest(w) ==
    /\ pc[w] = "fold"
    /\ folded' = [folded EXCEPT ![w] = Meaning[request[w].attr]]
    /\ Goto(w, "insert")
    /\ UNCHANGED <<cache, memoryUsedCache, request, borrowed, todo, victim, client>>

-----------------------------------------------------------------------------
(* addContent                                                              *)

\* insert() and the move of the content.  An entry that is there already keeps
\* its refCount and has its content replaced.
InsertContent(w) ==
    LET a == request[w].attr
    IN  /\ pc[w] = "insert"
        /\ ~Locked(a)
        /\ cache' = [cache EXCEPT
               ![a] = [buffer |-> w, value |-> folded[w],
                       refCount |-> IF a \in Cached THEN cache[a].refCount ELSE 1]]
        /\ Goto(w, "account")
        /\ UNCHANGED <<memoryUsedCache, request, folded, borrowed, todo, victim, client>>

\* Variant: an added content is not counted when it fills the cache.
AccountBelowLimit(w) ==
    /\ pc[w] = "account"
    /\ memoryUsedCache' = IF memoryUsedCache + Size[request[w].attr] < Limit
                          THEN memoryUsedCache + Size[request[w].attr]
                          ELSE memoryUsedCache
    /\ Goto(w, "limit")
    /\ UNCHANGED <<cache, request, folded, borrowed, todo, victim, client>>

AccountContent(w) ==
    /\ pc[w] = "account"
    /\ memoryUsedCache' = (memoryUsedCache + Size[request[w].attr]) % SizeModulus
    /\ Goto(w, "limit")
    /\ UNCHANGED <<cache, request, folded, borrowed, todo, victim, client>>

\* Variant: the limit may be reached exactly.
isMemoryLimitExceeded == memoryUsedCache > Limit

isMemoryLimitReached == memoryUsedCache >= Limit

\* What follows addContent: tryFoldingPartially removes the partial content
\* when the request took that way.
AfterAdd(w) ==
    IF borrowed[w] # Absent THEN "remove_partial" ELSE "done"

CheckLimit(w) ==
    /\ pc[w] = "limit"
    /\ Goto(w, IF isMemoryLimitReached THEN "clean" ELSE AfterAdd(w))
    /\ UNCHANGED <<cache, memoryUsedCache, request, folded, borrowed, todo, victim, client>>

-----------------------------------------------------------------------------
(* removeContent and cleanUpCache                                          *)

\* Variant: the size is subtracted whether or not the attribute was found.
EraseAndAlwaysSubtract(w, a, subtract, next) ==
    /\ ~Locked(a)
    /\ cache' = [cache EXCEPT ![a] = Absent]
    /\ victim' = [victim EXCEPT ![w] = a]
    /\ Goto(w, subtract)

\* removeContent: find and erase; the counter follows in a step of its own.
EraseContent(w, a, subtract, next) ==
    /\ ~Locked(a)
    /\ cache' = [cache EXCEPT ![a] = Absent]
    /\ victim' = [victim EXCEPT ![w] = a]
    /\ Goto(w, IF a \in Cached THEN subtract ELSE next)

\* Variant: the size is subtracted in wider arithmetic.
SubtractWithoutWrap(w, next) ==
    /\ memoryUsedCache' = memoryUsedCache - Size[victim[w]]
    /\ Goto(w, next)
    /\ UNCHANGED <<cache, request, folded, borrowed, todo, victim, client>>

SubtractSize(w, next) ==
    /\ memoryUsedCache' = (memoryUsedCache - Size[victim[w]]) % SizeModulus
    /\ Goto(w, next)
    /\ UNCHANGED <<cache, request, folded, borrowed, todo, victim, client>>

\* cleanUpCache iterates over the map under _mutex, which only other clean-ups
\* take: attributes inserted or erased meanwhile may be seen or missed.
BeginSnapshot(w) ==
    /\ pc[w] = "clean"
    /\ \A v \in Worker : pc[v] # "iterate"
    /\ todo' = [todo EXCEPT ![w] = [a \in Cached |-> 0]]
    /\ Goto(w, "iterate")
    /\ UNCHANGED <<cache, memoryUsedCache, request, folded, borrowed, victim, client>>

EndSnapshot(w) ==
    LET before == DOMAIN todo[w]
    IN  /\ pc[w] = "iterate"
        /\ \E seen \in SUBSET (before \cup Cached) :
               /\ before \cap Cached \subseteq seen
               /\ todo' = [todo EXCEPT ![w] =
                      [a \in seen |-> IF a \in Cached THEN cache[a].refCount ELSE 0]]
        /\ Goto(w, "evict")
        /\ UNCHANGED <<cache, memoryUsedCache, request, folded, borrowed, victim, client>>

\* The entries of the sorted snapshot, smallest refCount first; std::sort leaves
\* the order of equal ones open.
EvictNext(w) ==
    /\ pc[w] = "evict"
    /\ \E a \in DOMAIN todo[w] :
           /\ \A b \in DOMAIN todo[w] : todo[w][a] <= todo[w][b]
           /\ todo' = [todo EXCEPT ![w] = [b \in DOMAIN @ \ {a} |-> @[b]]]
           /\ EraseContent(w, a, "evict_subtract", "evict_test")
    /\ UNCHANGED <<memoryUsedCache, request, folded, borrowed, client>>

EvictSubtract(w) == pc[w] = "evict_subtract" /\ SubtractSize(w, "evict_test")

CleanEnough == memoryUsedCache <= CleanTo

\* Variant: the loop is left only by its break.
EvictUntilClean(w) ==
    /\ \/ pc[w] = "evict_test"
       \/ pc[w] = "evict" /\ DOMAIN todo[w] = {}
    /\ IF CleanEnough
       THEN /\ todo' = [todo EXCEPT ![w] = <<>>]
            /\ Goto(w, AfterAdd(w))
       ELSE /\ Goto(w, "evict")
            /\ UNCHANGED todo
    /\ UNCHANGED <<cache, memoryUsedCache, request, folded, borrowed, victim, client>>

\* Either break, or the end of the loop over the snapshot.
EvictTest(w) ==
    /\ \/ pc[w] = "evict_test"
       \/ pc[w] = "evict" /\ DOMAIN todo[w] = {}
    /\ IF DOMAIN todo[w] = {} \/ CleanEnough
       THEN /\ todo' = [todo EXCEPT ![w] = <<>>]
            /\ Goto(w, AfterAdd(w))
       ELSE /\ Goto(w, "evict")
            /\ UNCHANGED todo
    /\ UNCHANGED <<cache, memoryUsedCache, request, folded, borrowed, victim, client>>

\* tryFoldingPartially ends with removeContent of the partial attribute.
RemovePartial(w) ==
    /\ pc[w] = "remove_partial"
    /\ EraseContent(w, request[w].from, "remove_subtract", "done")
    /\ UNCHANGED <<memoryUsedCache, request, folded, borrowed, todo, client>>

RemoveSubtract(w) == pc[w] = "remove_subtract" /\ SubtractSize(w, "done")

-----------------------------------------------------------------------------
(* ContentAttr::fold on a compiling thread.                                *)

\* getContent hands out a reference to the entry's buffer; on a miss the thread
\* folds by itself and nothing here changes.
GetContent(c, a) ==
    /\ client[c] = "idle"
    /\ a \in Cached
    /\ ~Locked(a)
    /\ cache' = [cache EXCEPT ![a].refCount = @ - 1]
    /\ borrowed' = [borrowed EXCEPT ![c] = cache[a].buffer]
    /\ client' = [client EXCEPT ![c] = "using"]
    /\ UNCHANGED <<memoryUsedCache, request, pc, folded, todo, victim>>

\* The caller is done with the Content it was given.
DropContent(c) ==
    /\ client[c] = "using"
    /\ borrowed' = [borrowed EXCEPT ![c] = Absent]
    /\ client' = [client EXCEPT ![c] = "done"]
    /\ UNCHANGED <<cache, memoryUsedCache, request, pc, folded, todo, victim>>

-----------------------------------------------------------------------------
WorkerStep(w) ==
    \/ FindOriginal(w)
    \/ InsertNew(w)
    \/ HasContent(w)
    \/ GetPartial(w)
    \/ TransformPartial(w)
    \/ FoldRequest(w)
    \/ InsertContent(w)
    \/ AccountContent(w)
    \/ CheckLimit(w)
    \/ BeginSnapshot(w)
    \/ EndSnapshot(w)
    \/ EvictNext(w)
    \/ EvictSubtract(w)
    \/ EvictTest(w)
    \/ RemovePartial(w)
    \/ RemoveSubtract(w)

Terminated ==
    /\ \A w \in Worker : pc[w] = "done"
    /\ UNCHANGED vars

Next ==
    \/ \E w \in Worker : BeginTask(w) \/ WorkerStep(w)
    \/ \E c \in Client : (\E a \in Attr : GetContent(c, a)) \/ DropContent(c)
    \/ Terminated

Spec == Init /\ [][Next]_vars

\* A pool thread that has begun a task goes on with it.
FairSpec == Spec /\ \A w \in Worker : WF_vars(WorkerStep(w))

-----------------------------------------------------------------------------
Label == {"idle", "find_original", "insert_new", "has", "get_partial", "transform",
          "fold", "insert", "account", "limit", "clean", "iterate", "evict",
          "evict_subtract", "evict_test", "remove_partial", "remove_subtract", "done"}

TypeOK ==
    /\ cache \in [Attr -> Entry \cup {Absent}]
    /\ memoryUsedCache \in 0 .. SizeModulus - 1
    /\ request \in Batch
    /\ pc \in [Worker -> Label]
    /\ folded \in [Worker -> {Meaning[a] : a \in Attr} \cup {Garbage}]
    /\ borrowed \in [Worker \cup Client -> Worker \cup {Absent}]
    /\ DOMAIN todo = Worker /\ \A w \in Worker : DOMAIN todo[w] \subseteq Attr
    /\ victim \in [Worker -> Attr \cup {Absent}]
    /\ client \in [Client -> {"idle", "using", "done"}]

\* No task is inside addContent, removeContent or cleanUpCache.
Quiescent == \A w \in Worker : pc[w] \in {"idle", "done"}

CachedBytes == Total(Cached, Size)

\* The size of what each worker folds.
Folds == [w \in Worker |-> Size[request[w].attr]]

\* Sizes of contents inserted but not yet added to the counter ...
Unaccounted == Total({w \in Worker : pc[w] = "account"}, Folds)

\* ... and of contents erased but not yet subtracted from it.
Unsubtracted ==
    LET erasing == {w \in Worker : pc[w] \in {"evict_subtract", "remove_subtract"}}
    IN  Total(erasing, [w \in erasing |-> Size[victim[w]]])

\* What the counter says beyond the bytes cached.
Drift == (memoryUsedCache + Unaccounted - Unsubtracted - CachedBytes) % SizeModulus

DistinctFolds ==
    \A v, w \in Worker : /\ request[w].kind = "fold"
                         /\ v # w => request[v].attr # request[w].attr

\* However addContent, removeContent and cleanUpCache interleave, their separate
\* steps on the map and on the counter lose nothing, when no attribute is folded
\* twice.
AccountingExact == DistinctFolds => Drift = 0

\* Even when tasks add one attribute twice or replaceContentAttr overwrites an
\* entry, the counter never falls short of the bytes cached: a clean-up is never
\* skipped.
NeverUndercounts == Drift <= Total({w \in Worker : pc[w] # "idle"}, Folds)

\* The counter the limit is compared with.
AccountingRight == AccountingExact /\ NeverUndercounts

\* The contents that replaceContentAttr cannot have moved.
Unmoved ==
    {a \in Cached : \A w \in Worker : request[w].kind = "equivalence" => request[w].attr # a}

\* Whatever tasks add and evict at the same time, the cache is below its limit
\* once they are done.  Only contents that were moved are left out: under its
\* new attribute a content can escape the clean-up that has listed the old one.
BelowLimitWhenQuiescent == Quiescent => Total(Unmoved, Size) < Limit

\* The same of moved contents too.
EverythingBelowLimit == Quiescent => CachedBytes < Limit

\* What the cache returns for an attribute is what folding the attribute yields.
CachedContentRight == \A a \in Cached : cache[a].value = Meaning[a]

\* Every task that has begun ends: no clean-up loops and no accessor is waited
\* for forever.
TaskEnds == \A w \in Worker : pc[w] # "idle" ~> pc[w] = "done"

\* The Content that getContent handed out still refers to a buffer that exists.
HeldContentLive ==
    \A c \in Client : client[c] = "using" => borrowed[c] \in LiveBuffers

-----------------------------------------------------------------------------
(* Why cached contents are right when no request is folded partially.      *)

NoPartialRequests == \A batch \in Batch, w \in Worker : batch[w].kind # "partial"

\* What each stage of a task has established about the content it carries; the
\* accessor of replaceContentAttr keeps the original entry in place.
ContentInv ==
    /\ cache \in [Attr -> Entry \cup {Absent}]
    /\ request \in Batch
    /\ pc \in [Worker -> Label]
    /\ folded \in [Worker -> {Meaning[a] : a \in Attr} \cup {Garbage}]
    /\ borrowed \in [Worker \cup Client -> Worker \cup {Absent}]
    /\ \A w \in Worker :
        /\ borrowed[w] = Absent
        /\ pc[w] \notin {"get_partial", "transform", "remove_partial", "remove_subtract"}
        /\ pc[w] = "insert" => folded[w] = Meaning[request[w].attr]
        /\ pc[w] \in {"find_original", "insert_new"} => request[w].kind = "equivalence"
        /\ pc[w] = "insert_new" => request[w].from \in Cached
    /\ \A v, w \in Worker :
        pc[v] = "insert_new" /\ pc[w] = "insert_new" /\ request[v].from = request[w].from
            => v = w
    /\ CachedContentRight
=============================================================================
