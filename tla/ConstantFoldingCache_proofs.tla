--------------------- MODULE ConstantFoldingCache_proofs ---------------------
(***************************************************************************)
(* Proofs about the cache, for any number of tasks, readers and attributes, *)
(* any sizes and any memory limit: that every variable keeps its type; that *)
(* what the cache returns is what folding yields, as long as no request is *)
(* folded partially; what the byte counter may say beyond the bytes cached; *)
(* and that the limit holds once the tasks are done.                       *)
(***************************************************************************)
EXTENDS ConstantFoldingCache, TLAPS, FiniteSetTheorems

\* Steps of a task that leave the map alone.
LEMMA QuietStep ==
    ASSUME ContentInv, NoPartialRequests, NEW w \in Worker,
           \/ BeginTask(w)     \/ FindOriginal(w)  \/ GetPartial(w)
           \/ TransformPartial(w) \/ FoldRequest(w) \/ AccountContent(w)
           \/ CheckLimit(w)    \/ BeginSnapshot(w) \/ EndSnapshot(w)
           \/ EvictSubtract(w) \/ EvictTest(w)     \/ RemovePartial(w)
           \/ RemoveSubtract(w)
    PROVE  ContentInv'
<1> USE BatchAssumption
    DEF ContentInv, NoPartialRequests, Goto, Cached, CachedContentRight, Label, FoldingRequest
<1>1. CASE BeginTask(w)
  BY <1>1 DEF BeginTask
<1>2. CASE FindOriginal(w)
  BY <1>2 DEF FindOriginal, Locked
<1>3. CASE GetPartial(w) \/ TransformPartial(w) \/ RemovePartial(w) \/ RemoveSubtract(w)
  BY <1>3 DEF GetPartial, TransformPartial, RemovePartial, RemoveSubtract
<1>4. CASE FoldRequest(w)
  BY <1>4 DEF FoldRequest
<1>5. CASE AccountContent(w) \/ BeginSnapshot(w) \/ EndSnapshot(w)
  <2>1. \E l \in {"limit", "iterate", "evict"} : pc' = [pc EXCEPT ![w] = l]
    BY <1>5 DEF AccountContent, BeginSnapshot, EndSnapshot
  <2>2. UNCHANGED <<cache, request, folded, borrowed>>
    BY <1>5 DEF AccountContent, BeginSnapshot, EndSnapshot
  <2>3. pc[w] # "insert_new"
    BY <1>5 DEF AccountContent, BeginSnapshot, EndSnapshot
  <2> HIDE <1>5
  <2> QED BY <2>1, <2>2, <2>3
<1>6. CASE CheckLimit(w)
  BY <1>6 DEF CheckLimit, AfterAdd
<1>7. CASE EvictSubtract(w)
  BY <1>7 DEF EvictSubtract, SubtractSize
<1>8. CASE EvictTest(w)
  <2>1. AfterAdd(w) = "done"
    BY DEF AfterAdd
  <2>2. \E l \in {"done", "evict"} : pc' = [pc EXCEPT ![w] = l]
    BY <1>8, <2>1 DEF EvictTest
  <2>3. UNCHANGED <<cache, request, folded, borrowed>> /\ pc[w] # "insert_new"
    BY <1>8 DEF EvictTest
  <2> HIDE <1>8
  <2> QED BY <2>2, <2>3
<1> QED BY <1>1, <1>2, <1>3, <1>4, <1>5, <1>6, <1>7, <1>8

\* A step that changes one entry keeps the others right.
LEMMA EntryChanges ==
    ASSUME ContentInv, NEW a \in Attr, NEW e \in Entry \cup {Absent},
           cache' = [cache EXCEPT ![a] = e],
           e # Absent => e.value = Meaning[a]
    PROVE  /\ cache' \in [Attr -> Entry \cup {Absent}]
           /\ CachedContentRight'
           /\ \A b \in Cached : b # a => b \in Cached'
BY DEF ContentInv, Cached, CachedContentRight

\* addContent, hasContent and the eviction of one entry.
LEMMA SingleEntryStep ==
    ASSUME ContentInv, NoPartialRequests, NEW w \in Worker,
           InsertContent(w) \/ HasContent(w) \/ EvictNext(w)
    PROVE  ContentInv'
<1> USE BatchAssumption
<1>1. request[w] \in FoldingRequest /\ request[w].attr \in Attr
  BY DEF ContentInv, FoldingRequest
<1>2. CASE InsertContent(w)
  <2> DEFINE a == request[w].attr
             e == [buffer |-> w, value |-> folded[w],
                   refCount |-> IF a \in Cached THEN cache[a].refCount ELSE 1]
  <2>1. e \in Entry /\ e.value = Meaning[a]
    BY <1>1, <1>2 DEF InsertContent, ContentInv, Entry, Cached
  <2>2. cache' = [cache EXCEPT ![a] = e] /\ ~Locked(a)
    BY <1>2 DEF InsertContent
  <2>3. /\ cache' \in [Attr -> Entry \cup {Absent}] /\ CachedContentRight'
        /\ \A b \in Cached : b # a => b \in Cached'
    BY <1>1, <2>1, <2>2, EntryChanges
  <2> QED BY <1>2, <2>2, <2>3 DEF InsertContent, ContentInv, Goto, Label, Locked
<1>3. CASE HasContent(w) /\ request[w].attr \in Cached
  <2> DEFINE a == request[w].attr
             e == [cache[a] EXCEPT !.refCount = @ + 1]
  <2>1. e \in Entry /\ e.value = Meaning[a]
    BY <1>1, <1>3 DEF ContentInv, Entry, Cached, CachedContentRight
  <2>2. cache' = [cache EXCEPT ![a] = e] /\ ~Locked(a)
    BY <1>3 DEF HasContent
  <2>3. /\ cache' \in [Attr -> Entry \cup {Absent}] /\ CachedContentRight'
        /\ \A b \in Cached : b # a => b \in Cached'
    BY <1>1, <2>1, <2>2, EntryChanges
  <2> QED BY <1>3, <2>2, <2>3 DEF HasContent, ContentInv, Goto, Label, Locked
<1>4. CASE HasContent(w) /\ request[w].attr \notin Cached
  BY <1>4 DEF HasContent, ContentInv, NoPartialRequests, Goto, Label, Cached, CachedContentRight
<1>5. CASE EvictNext(w)
  <2>1. PICK a \in DOMAIN todo[w] :
           EraseContent(w, a, "evict_subtract", "evict_test")
    BY <1>5 DEF EvictNext
  <2>2. cache' = [cache EXCEPT ![a] = Absent] /\ ~Locked(a)
    BY <2>1 DEF EraseContent
  <2>3. pc[w] = "evict" /\ UNCHANGED <<request, folded, borrowed>>
    BY <1>5 DEF EvictNext
  <2>4. \E l \in {"evict_subtract", "evict_test"} : pc' = [pc EXCEPT ![w] = l]
    BY <2>1 DEF EraseContent, Goto
  <2>5. /\ cache' \in [Attr -> Entry \cup {Absent}] /\ CachedContentRight'
        /\ \A b \in Cached : b # a => b \in Cached'
    BY <2>2 DEF ContentInv, Cached, CachedContentRight
  <2> QED BY <2>2, <2>3, <2>4, <2>5 DEF ContentInv, Label, Locked
<1> QED BY <1>2, <1>3, <1>4, <1>5

\* replaceContentAttr moves a right content to an attribute that means the same.
LEMMA InsertNewStep ==
    ASSUME ContentInv, NoPartialRequests, NEW w \in Worker, InsertNew(w)
    PROVE  ContentInv'
<1> USE BatchAssumption
<1> DEFINE a == request[w].attr
           o == request[w].from
           e == [buffer |-> cache[o].buffer, value |-> cache[o].value,
                 refCount |-> IF a \in Cached THEN cache[a].refCount ELSE 1]
<1>1. a \in Attr /\ o \in Attr /\ o \in Cached /\ Meaning[a] = Meaning[o]
  BY DEF ContentInv, InsertNew, FoldingRequest
<1>2. e \in Entry /\ e.value = Meaning[a]
  BY <1>1 DEF ContentInv, Entry, Cached, CachedContentRight
<1>3. cache' = [cache EXCEPT ![a] = e, ![o] = Absent] /\ ~Locked(a)
  BY DEF InsertNew
<1>4. /\ cache' \in [Attr -> Entry \cup {Absent}] /\ CachedContentRight'
      /\ \A b \in Cached : b # a /\ b # o => b \in Cached'
  <2> HIDE DEF e
  <2> QED BY <1>1, <1>2, <1>3 DEF ContentInv, Cached, CachedContentRight
<1>5. pc[w] = "insert_new" /\ pc' = [pc EXCEPT ![w] = "done"]
      /\ UNCHANGED <<request, folded, borrowed>>
  BY DEF InsertNew, Goto
<1>6. \A v \in Worker : pc'[v] = "insert_new" => request[v].from \in Cached'
  <2> SUFFICES ASSUME NEW v \in Worker, pc'[v] = "insert_new"
               PROVE  request[v].from \in Cached'
    OBVIOUS
  <2>1. v # w /\ pc[v] = "insert_new"
    BY <1>5 DEF ContentInv
  <2>2. request[v].from # o /\ request[v].from # a /\ request[v].from \in Cached
    BY <1>3, <1>5, <2>1 DEF ContentInv, Locked
  <2> QED BY <1>4, <2>2
<1> HIDE DEF e
<1> QED BY <1>4, <1>5, <1>6 DEF ContentInv, Label

\* A reader's getContent changes a refCount and nothing a task relies on.
LEMMA ClientStep ==
    ASSUME ContentInv, NoPartialRequests, NEW c \in Client,
           (\E a \in Attr : GetContent(c, a)) \/ DropContent(c)
    PROVE  ContentInv'
<1>1. ASSUME NEW a \in Attr, GetContent(c, a)
      PROVE  ContentInv'
  <2> DEFINE e == [cache[a] EXCEPT !.refCount = @ - 1]
  <2>1. e \in Entry /\ e.value = Meaning[a] /\ cache[a].buffer \in Worker
    BY <1>1 DEF GetContent, ContentInv, Entry, Cached, CachedContentRight
  <2>2. cache' = [cache EXCEPT ![a] = e] /\ ~Locked(a)
    BY <1>1 DEF GetContent
  <2>3. /\ cache' \in [Attr -> Entry \cup {Absent}] /\ CachedContentRight'
        /\ \A b \in Cached : b # a => b \in Cached'
    BY <1>1, <2>1, <2>2, EntryChanges
  <2> QED BY <1>1, <2>1, <2>2, <2>3, ThreadAssumption DEF GetContent, ContentInv, Locked
<1>2. CASE DropContent(c)
  BY <1>2, ThreadAssumption DEF DropContent, ContentInv, Cached, CachedContentRight
<1> QED BY <1>1, <1>2

\* The invariant is inductive.
LEMMA ContentInductive ==
    ASSUME NoPartialRequests
    PROVE  /\ Init => ContentInv
           /\ ContentInv /\ [Next]_vars => ContentInv'
<1>1. Init => ContentInv
  BY BatchAssumption
     DEF Init, ContentInv, Entry, Label, Cached, CachedContentRight, FoldingRequest
<1>2. ASSUME ContentInv, [Next]_vars
      PROVE  ContentInv'
  <2>1. CASE \E w \in Worker : BeginTask(w) \/ WorkerStep(w)
    BY <1>2, <2>1, QuietStep, SingleEntryStep, InsertNewStep DEF WorkerStep
  <2>2. CASE \E c \in Client : (\E a \in Attr : GetContent(c, a)) \/ DropContent(c)
    BY <1>2, <2>2, ClientStep
  <2>3. CASE UNCHANGED vars
    BY <1>2, <2>3 DEF vars, ContentInv, Cached, CachedContentRight
  <2> QED BY <1>2, <2>1, <2>2, <2>3 DEF Next, Terminated
<1> QED BY <1>1, <1>2

\* A ContentAttr is never answered with the content of another, however tasks
\* add, evict and replace entries at the same time.
THEOREM ContentsAreRight ==
    ASSUME NoPartialRequests
    PROVE  Spec => []CachedContentRight
<1>1. ContentInv => CachedContentRight
  BY DEF ContentInv
<1> QED BY <1>1, ContentInductive, PTL DEF Spec

-----------------------------------------------------------------------------
(* Type correctness, partial requests included.                            *)

\* What the steps on an entry need besides the types: the attribute whose size
\* is still to be subtracted is known, and an original attribute under its
\* accessor keeps its entry.
TypeInv ==
    /\ TypeOK
    /\ \A w \in Worker : pc[w] \in {"evict_subtract", "remove_subtract"} => victim[w] \in Attr
    /\ \A w \in Worker : pc[w] = "insert_new" => request[w].from \in Cached
    /\ \A v, w \in Worker :
           pc[v] = "insert_new" /\ pc[w] = "insert_new" /\ request[v].from = request[w].from
               => v = w

\* The counter stays within the width of size_t.
LEMMA Wraps == ASSUME NEW n \in Int PROVE n % SizeModulus \in 0 .. SizeModulus - 1
  BY SizeAssumption

\* A worker has a request for two attributes.
LEMMA Requested ==
    ASSUME TypeInv, NEW w \in Worker
    PROVE  /\ request[w] \in FoldingRequest
           /\ request[w].attr \in Attr /\ request[w].from \in Attr
BY BatchAssumption DEF TypeInv, TypeOK, FoldingRequest

\* A step that writes one entry nobody holds an accessor of, and moves one worker
\* to a label that asks for nothing.
LEMMA EntryStep ==
    ASSUME TypeInv, NEW w \in Worker, NEW a \in Attr, NEW e \in Entry \cup {Absent},
           NEW l \in Label \ {"insert_new", "evict_subtract", "remove_subtract"},
           ~Locked(a), cache' = [cache EXCEPT ![a] = e], pc' = [pc EXCEPT ![w] = l],
           UNCHANGED <<memoryUsedCache, request, folded, todo, victim, client>>,
           borrowed' \in [Worker \cup Client -> Worker \cup {Absent}]
    PROVE  TypeInv'
<1>1. TypeOK'
  BY DEF TypeInv, TypeOK
<1>2. ASSUME NEW v \in Worker, pc'[v] = "insert_new" PROVE v # w /\ pc[v] = "insert_new"
  BY <1>2 DEF TypeInv, TypeOK
<1>3. ASSUME NEW v \in Worker, pc'[v] = "insert_new" PROVE request'[v].from \in Cached'
  <2>1. request[v].from # a /\ request[v].from \in Cached
    BY <1>2, <1>3 DEF TypeInv, Locked
  <2> QED BY <2>1 DEF Cached, TypeInv, TypeOK
<1>4. ASSUME NEW v \in Worker, pc'[v] \in {"evict_subtract", "remove_subtract"} PROVE victim'[v] \in Attr
  BY <1>4 DEF TypeInv, TypeOK
<1> QED BY <1>1, <1>2, <1>3, <1>4 DEF TypeInv

\* A step that leaves the map alone and does not take an accessor.
LEMMA LocalStep ==
    ASSUME TypeInv, NEW w \in Worker,
           NEW l \in Label \ {"insert_new", "evict_subtract", "remove_subtract"},
           pc' = [pc EXCEPT ![w] = l],
           UNCHANGED <<cache, request, borrowed, victim, client>>,
           memoryUsedCache' \in 0 .. SizeModulus - 1,
           folded' \in [Worker -> {Meaning[a] : a \in Attr} \cup {Garbage}],
           DOMAIN todo' = Worker, \A v \in Worker : DOMAIN todo'[v] \subseteq Attr
    PROVE  TypeInv'
<1>1. TypeOK'
  BY DEF TypeInv, TypeOK
<1>2. \A v \in Worker : pc'[v] \in {"insert_new", "evict_subtract", "remove_subtract"} => pc'[v] = pc[v]
  BY DEF TypeInv, TypeOK
<1> QED BY <1>1, <1>2 DEF TypeInv, Cached

\* The steps of a task that change no entry.
LEMMA TypeOfLocalSteps ==
    ASSUME TypeInv, NEW w \in Worker,
           \/ BeginTask(w) \/ TransformPartial(w) \/ FoldRequest(w) \/ AccountContent(w)
           \/ CheckLimit(w) \/ BeginSnapshot(w) \/ EndSnapshot(w)
           \/ EvictSubtract(w) \/ EvictTest(w) \/ RemoveSubtract(w)
    PROVE  TypeInv'
<1> USE Requested DEF Goto, Label
<1>t. TypeOK
  BY DEF TypeInv
<1>1. CASE BeginTask(w)
  <2>1. \E l \in {"find_original", "has"} : pc' = [pc EXCEPT ![w] = l]
    BY <1>1 DEF BeginTask
  <2>2. UNCHANGED <<cache, memoryUsedCache, request, folded, borrowed, todo, victim, client>>
    BY <1>1 DEF BeginTask
  <2> QED BY <1>t, <2>1, <2>2, LocalStep DEF TypeOK
<1>2. CASE TransformPartial(w)
  <2>1. PICK v \in {Meaning[request[w].attr], Garbage} : folded' = [folded EXCEPT ![w] = v]
    BY <1>2 DEF TransformPartial
  <2>2. folded' \in [Worker -> {Meaning[a] : a \in Attr} \cup {Garbage}]
    BY <1>t, <2>1 DEF TypeOK
  <2> QED BY <1>2, <1>t, <2>2, LocalStep DEF TypeOK, TransformPartial
<1>3. CASE FoldRequest(w)
  <2>1. folded' \in [Worker -> {Meaning[a] : a \in Attr} \cup {Garbage}]
    BY <1>3, <1>t DEF TypeOK, FoldRequest
  <2> QED BY <1>3, <1>t, <2>1, LocalStep DEF TypeOK, FoldRequest
<1>4. CASE AccountContent(w)
  <2>1. memoryUsedCache' \in 0 .. SizeModulus - 1
    BY <1>4, <1>t, Wraps, SizeAssumption DEF TypeOK, AccountContent
  <2> QED BY <1>4, <1>t, <2>1, LocalStep DEF TypeOK, AccountContent
<1>5. CASE CheckLimit(w)
  <2>1. \E l \in {"clean", "remove_partial", "done"} : pc' = [pc EXCEPT ![w] = l]
    BY <1>5 DEF CheckLimit, AfterAdd
  <2>2. UNCHANGED <<cache, memoryUsedCache, request, folded, borrowed, todo, victim, client>>
    BY <1>5 DEF CheckLimit
  <2> QED BY <1>t, <2>1, <2>2, LocalStep DEF TypeOK
<1>6. CASE BeginSnapshot(w)
  <2>1. DOMAIN todo' = Worker /\ \A v \in Worker : DOMAIN todo'[v] \subseteq Attr
    BY <1>6, <1>t DEF TypeOK, BeginSnapshot, Cached
  <2> QED BY <1>6, <1>t, <2>1, LocalStep DEF TypeOK, BeginSnapshot
<1>7. CASE EndSnapshot(w)
  <2>1. DOMAIN todo' = Worker /\ \A v \in Worker : DOMAIN todo'[v] \subseteq Attr
    BY <1>7, <1>t DEF TypeOK, EndSnapshot, Cached
  <2> QED BY <1>7, <1>t, <2>1, LocalStep DEF TypeOK, EndSnapshot
<1>8. CASE EvictSubtract(w) \/ RemoveSubtract(w)
  <2>1. victim[w] \in Attr
    BY <1>8 DEF TypeInv, EvictSubtract, RemoveSubtract
  <2>2. memoryUsedCache' \in 0 .. SizeModulus - 1
    BY <1>8, <1>t, <2>1, Wraps, SizeAssumption DEF TypeOK, EvictSubtract, RemoveSubtract, SubtractSize
  <2>3. \E l \in {"evict_test", "done"} : pc' = [pc EXCEPT ![w] = l]
    BY <1>8 DEF EvictSubtract, RemoveSubtract, SubtractSize
  <2>4. UNCHANGED <<cache, request, folded, borrowed, todo, victim, client>>
    BY <1>8 DEF EvictSubtract, RemoveSubtract, SubtractSize
  <2> QED BY <1>t, <2>2, <2>3, <2>4, LocalStep DEF TypeOK
<1>9. CASE EvictTest(w)
  <2>1. \E l \in {"remove_partial", "done", "evict"} : pc' = [pc EXCEPT ![w] = l]
    BY <1>9 DEF EvictTest, AfterAdd
  <2>2. todo' = todo \/ todo' = [todo EXCEPT ![w] = <<>>]
    BY <1>9 DEF EvictTest
  <2>e. DOMAIN <<>> = {}
    OBVIOUS
  <2>4. DOMAIN todo' = Worker /\ \A v \in Worker : DOMAIN todo'[v] \subseteq Attr
    <3>1. CASE todo' = todo
      BY <3>1, <1>t DEF TypeOK
    <3>2. CASE todo' = [todo EXCEPT ![w] = <<>>]
      <4>1. DOMAIN todo' = Worker /\ todo'[w] = <<>> /\ \A v \in Worker : v # w => todo'[v] = todo[v]
        BY <3>2, <1>t DEF TypeOK
      <4> QED BY <4>1, <2>e, <1>t DEF TypeOK
    <3> QED BY <2>2, <3>1, <3>2
  <2>3. UNCHANGED <<cache, memoryUsedCache, request, folded, borrowed, victim, client>>
    BY <1>9 DEF EvictTest
  <2> QED BY <1>t, <2>1, <2>3, <2>4, LocalStep DEF TypeOK
<1> QED BY <1>1, <1>2, <1>3, <1>4, <1>5, <1>6, <1>7, <1>8, <1>9

\* Taking the accessor of the original attribute.
LEMMA TypeOfFindOriginal ==
    ASSUME TypeInv, NEW w \in Worker, FindOriginal(w)
    PROVE  TypeInv'
BY DEF TypeInv, TypeOK, FindOriginal, Locked, Goto, Label, Cached

\* hasContent, getContent of a task, and addContent.
LEMMA TypeOfEntrySteps ==
    ASSUME TypeInv, NEW w \in Worker, HasContent(w) \/ GetPartial(w) \/ InsertContent(w)
    PROVE  TypeInv'
<1> USE DEF Goto
<1>t. TypeOK /\ request[w].attr \in Attr /\ request[w].from \in Attr
  BY Requested DEF TypeInv
<1>1. CASE HasContent(w) /\ request[w].attr \in Cached
  <2> DEFINE e == [cache[request[w].attr] EXCEPT !.refCount = @ + 1]
  <2>1. e \in Entry
    BY <1>1, <1>t DEF TypeOK, Entry, Cached
  <2>2. cache' = [cache EXCEPT ![request[w].attr] = e]
    BY <1>1 DEF HasContent
  <2> HIDE DEF e
  <2> QED BY <1>1, <1>t, <2>1, <2>2, EntryStep DEF HasContent, TypeOK, Label
<1>2. CASE HasContent(w) /\ request[w].attr \notin Cached
  <2>1. \E l \in {"get_partial", "fold"} : pc' = [pc EXCEPT ![w] = l]
    BY <1>2 DEF HasContent
  <2>2. UNCHANGED <<cache, memoryUsedCache, request, folded, borrowed, todo, victim, client>>
    BY <1>2 DEF HasContent
  <2> QED BY <1>t, <2>1, <2>2, LocalStep DEF TypeOK, Label
<1>3. CASE GetPartial(w) /\ request[w].from \in Cached
  <2> DEFINE e == [cache[request[w].from] EXCEPT !.refCount = @ - 1]
  <2>1. e \in Entry /\ cache[request[w].from].buffer \in Worker
    BY <1>3, <1>t DEF TypeOK, Entry, Cached
  <2>2. cache' = [cache EXCEPT ![request[w].from] = e]
    BY <1>3 DEF GetPartial
  <2>3. borrowed' \in [Worker \cup Client -> Worker \cup {Absent}]
    BY <1>3, <1>t, <2>1 DEF GetPartial, TypeOK
  <2> HIDE DEF e
  <2> QED BY <1>3, <1>t, <2>1, <2>2, <2>3, EntryStep DEF GetPartial, Label
<1>4. CASE GetPartial(w) /\ request[w].from \notin Cached
  <2>1. pc' = [pc EXCEPT ![w] = "fold"]
        /\ UNCHANGED <<cache, memoryUsedCache, request, folded, borrowed, todo, victim, client>>
    BY <1>4 DEF GetPartial
  <2> QED BY <1>t, <2>1, LocalStep DEF TypeOK, Label
<1>5. CASE InsertContent(w)
  <2> DEFINE a == request[w].attr
             e == [buffer |-> w, value |-> folded[w],
                   refCount |-> IF a \in Cached THEN cache[a].refCount ELSE 1]
  <2>1. e \in Entry
    BY <1>t DEF TypeOK, Entry, Cached
  <2>2. cache' = [cache EXCEPT ![request[w].attr] = e]
    BY <1>5 DEF InsertContent
  <2> HIDE DEF e
  <2> QED BY <1>5, <1>t, <2>1, <2>2, EntryStep DEF InsertContent, TypeOK, Label
<1> QED BY <1>1, <1>2, <1>3, <1>4, <1>5

\* removeContent, from a clean-up or at the end of a partial folding.
LEMMA TypeOfErasures ==
    ASSUME TypeInv, NEW w \in Worker, EvictNext(w) \/ RemovePartial(w)
    PROVE  TypeInv'
<1>t. TypeOK /\ request[w].from \in Attr
  BY Requested DEF TypeInv
<1>1. PICK a \in Attr, l \in Label \ {"insert_new"} :
          /\ ~Locked(a)
          /\ cache' = [cache EXCEPT ![a] = Absent]
          /\ victim' = [victim EXCEPT ![w] = a]
          /\ pc' = [pc EXCEPT ![w] = l]
  <2>1. CASE EvictNext(w)
    BY <2>1, <1>t DEF EvictNext, EraseContent, Goto, Label, TypeOK
  <2>2. CASE RemovePartial(w)
    BY <2>2, <1>t DEF RemovePartial, EraseContent, Goto, Label
  <2> QED BY <2>1, <2>2
<1>2. UNCHANGED <<memoryUsedCache, request, folded, borrowed, client>>
  BY DEF EvictNext, RemovePartial
<1>3. DOMAIN todo' = Worker /\ \A v \in Worker : DOMAIN todo'[v] \subseteq Attr
  <2>1. CASE EvictNext(w)
    <3>1. PICK b \in DOMAIN todo[w] : todo' = [todo EXCEPT ![w] = [c \in DOMAIN @ \ {b} |-> @[c]]]
      BY <2>1 DEF EvictNext
    <3> QED BY <3>1, <1>t DEF TypeOK
  <2>2. CASE RemovePartial(w)
    BY <2>2, <1>t DEF RemovePartial, TypeOK
  <2> QED BY <2>1, <2>2
<1>4. TypeOK'
  BY <1>1, <1>2, <1>3, <1>t DEF TypeOK
<1>5. ASSUME NEW v \in Worker, pc'[v] = "insert_new" PROVE v # w /\ pc[v] = "insert_new"
  BY <1>1, <1>5, <1>t DEF TypeOK
<1>6. ASSUME NEW v \in Worker, pc'[v] = "insert_new" PROVE request'[v].from \in Cached'
  <2>1. request[v].from # a /\ request[v].from \in Cached
    BY <1>1, <1>5, <1>6 DEF TypeInv, Locked
  <2> QED BY <1>1, <1>2, <2>1, <1>t DEF Cached, TypeOK
<1>7. ASSUME NEW v \in Worker, pc'[v] \in {"evict_subtract", "remove_subtract"} PROVE victim'[v] \in Attr
  BY <1>1, <1>7, <1>t DEF TypeInv, TypeOK
<1> QED BY <1>2, <1>4, <1>5, <1>6, <1>7 DEF TypeInv

\* replaceContentAttr: what it moves is an entry.
LEMMA TypeOfInsertNew ==
    ASSUME TypeInv, NEW w \in Worker, InsertNew(w)
    PROVE  TypeInv'
<1> DEFINE a == request[w].attr
           o == request[w].from
           e == [buffer |-> cache[o].buffer, value |-> cache[o].value,
                 refCount |-> IF a \in Cached THEN cache[a].refCount ELSE 1]
<1>1. TypeOK /\ a \in Attr /\ o \in Attr /\ o \in Cached
  BY Requested DEF TypeInv, InsertNew
<1>2. e \in Entry
  BY <1>1 DEF TypeOK, Entry, Cached
<1>3. cache' = [cache EXCEPT ![a] = e, ![o] = Absent] /\ ~Locked(a)
  BY DEF InsertNew
<1>4. pc[w] = "insert_new" /\ pc' = [pc EXCEPT ![w] = "done"]
      /\ UNCHANGED <<memoryUsedCache, request, folded, borrowed, todo, victim, client>>
  BY DEF InsertNew, Goto
<1> HIDE DEF e
<1>5. TypeOK'
  BY <1>1, <1>2, <1>3, <1>4 DEF TypeOK, Label
<1>6. ASSUME NEW v \in Worker, pc'[v] = "insert_new" PROVE v # w /\ pc[v] = "insert_new"
  BY <1>1, <1>4, <1>6 DEF TypeOK
<1>7. ASSUME NEW v \in Worker, pc'[v] = "insert_new" PROVE request'[v].from \in Cached'
  <2>1. request[v].from # a /\ request[v].from # o /\ request[v].from \in Cached
    BY <1>3, <1>4, <1>6, <1>7 DEF TypeInv, Locked
  <2> QED BY <1>1, <1>3, <1>4, <2>1 DEF Cached, TypeOK
<1>8. ASSUME NEW v \in Worker, pc'[v] \in {"evict_subtract", "remove_subtract"} PROVE victim'[v] \in Attr
  BY <1>1, <1>4, <1>8 DEF TypeInv, TypeOK
<1> QED BY <1>4, <1>5, <1>6, <1>7, <1>8 DEF TypeInv

\* A compiling thread's look-up.
LEMMA TypeOfClientStep ==
    ASSUME TypeInv, NEW c \in Client, (\E a \in Attr : GetContent(c, a)) \/ DropContent(c)
    PROVE  TypeInv'
<1>t. TypeOK
  BY DEF TypeInv
<1>1. ASSUME NEW a \in Attr, GetContent(c, a) PROVE TypeInv'
  <2> DEFINE e == [cache[a] EXCEPT !.refCount = @ - 1]
  <2>1. e \in Entry /\ cache[a].buffer \in Worker
    BY <1>1, <1>t DEF GetContent, TypeOK, Entry, Cached
  <2>2. cache' = [cache EXCEPT ![a] = e] /\ a \in Cached
    BY <1>1 DEF GetContent
  <2> HIDE DEF e
  <2>3. \A v \in Worker : pc[v] = "insert_new" => request[v].from \in Cached'
    <3>1. ~Locked(a)
      BY <1>1 DEF GetContent
    <3>2. \A v \in Worker : pc[v] = "insert_new" => request[v].from # a /\ request[v].from \in Cached
      BY <3>1 DEF Locked, TypeInv
    <3> QED BY <2>2, <3>2, <1>t DEF Cached, TypeOK
  <2>4. TypeOK'
    BY <1>1, <1>t, <2>1, <2>2 DEF GetContent, TypeOK
  <2> QED BY <1>1, <2>3, <2>4 DEF GetContent, TypeInv
<1>2. CASE DropContent(c)
  BY <1>2 DEF DropContent, TypeInv, TypeOK, Cached
<1> QED BY <1>1, <1>2

\* The invariant is inductive.
LEMMA TypeInductive == TypeInv /\ [Next]_vars => TypeInv'
<1> SUFFICES ASSUME TypeInv, [Next]_vars PROVE TypeInv'
  OBVIOUS
<1>1. CASE \E w \in Worker : BeginTask(w) \/ WorkerStep(w)
  BY <1>1, TypeOfLocalSteps, TypeOfFindOriginal, TypeOfEntrySteps, TypeOfErasures, TypeOfInsertNew
     DEF WorkerStep
<1>2. CASE \E c \in Client : (\E a \in Attr : GetContent(c, a)) \/ DropContent(c)
  BY <1>2, TypeOfClientStep
<1>3. CASE UNCHANGED vars
  BY <1>3 DEF vars, TypeInv, TypeOK, Cached
<1> QED BY <1>1, <1>2, <1>3 DEF Next, Terminated

\* Every variable keeps its type: an accessor is never used on an entry that is
\* gone, no size is subtracted of an attribute that was not erased, and the
\* counter stays a size_t, in every interleaving of tasks and callers.
THEOREM TypesKept == Spec => []TypeOK
<1>1. Init => TypeInv
  BY SizeAssumption DEF Init, TypeInv, TypeOK, Label
<1>2. TypeInv => TypeOK
  BY DEF TypeInv
<1> QED BY <1>1, <1>2, TypeInductive, PTL DEF Spec

-----------------------------------------------------------------------------
(* Sums.                                                                   *)

(* What one member takes.                                                  *)
LEMMA OneTakes ==
    ASSUME NEW x, NEW n \in Nat
    PROVE  IsFiniteSet({x} \X (1 .. n)) /\ Cardinality({x} \X (1 .. n)) = n
<1>1. IsFiniteSet({x}) /\ Cardinality({x}) = 1
  BY FS_Singleton
<1>2. 1 \in Int /\ n \in Int /\ (IF 1 > n THEN 0 ELSE n - 1 + 1) = n
  OBVIOUS
<1>3. IsFiniteSet(1 .. n) /\ Cardinality(1 .. n) = IF 1 > n THEN 0 ELSE n - 1 + 1
  BY <1>2, FS_Interval
<1>4. /\ IsFiniteSet({x} \X (1 .. n))
      /\ Cardinality({x} \X (1 .. n)) = Cardinality({x}) * Cardinality(1 .. n)
  BY <1>1, <1>3, FS_Product
<1> QED BY <1>1, <1>2, <1>3, <1>4

(* A sum of finitely many numbers is one.                                  *)
LEMMA TotalType ==
    ASSUME NEW S, IsFiniteSet(S), NEW f, \A x \in S : f[x] \in Nat
    PROVE  /\ IsFiniteSet(UNION {{x} \X (1 .. f[x]) : x \in S})
           /\ Total(S, f) \in Nat
<1> DEFINE g == [x \in S |-> {x} \X (1 .. f[x])]
           T == {{x} \X (1 .. f[x]) : x \in S}
<1>1. g \in Surjection(S, T)
  BY DEF Surjection
<1>2. IsFiniteSet(T)
  <2> HIDE DEF g, T
  <2> QED BY <1>1, FS_Surjection
<1>3. \A U \in T : IsFiniteSet(U)
  <2>1. ASSUME NEW x \in S PROVE IsFiniteSet({x} \X (1 .. f[x]))
    BY OneTakes
  <2> QED BY <2>1
<1>4. IsFiniteSet(UNION T)
  <2> HIDE DEF T
  <2> QED BY <1>2, <1>3, FS_UNION
<1> QED BY <1>4, FS_CardinalityType DEF Total

(* Nobody takes nothing.                                                   *)
LEMMA TotalEmpty == ASSUME NEW f PROVE Total({}, f) = 0
<1>1. UNION {{x} \X (1 .. f[x]) : x \in {}} = {}
  OBVIOUS
<1> QED BY <1>1, FS_EmptySet DEF Total

(* Only the values on the set count.                                       *)
LEMMA TotalSame ==
    ASSUME NEW S, NEW f, NEW g, \A x \in S : f[x] = g[x]
    PROVE  Total(S, f) = Total(S, g)
<1>1. UNION {{x} \X (1 .. f[x]) : x \in S} = UNION {{x} \X (1 .. g[x]) : x \in S}
  <2>1. \A x \in S : {x} \X (1 .. f[x]) = {x} \X (1 .. g[x])
    OBVIOUS
  <2>2. {{x} \X (1 .. f[x]) : x \in S} = {{x} \X (1 .. g[x]) : x \in S}
    BY <2>1
  <2> QED BY <2>2
<1> QED BY <1>1 DEF Total

(* One member more.                                                        *)
LEMMA TotalAdd ==
    ASSUME NEW S, IsFiniteSet(S), NEW f, \A x \in S : f[x] \in Nat,
           NEW y, y \notin S, f[y] \in Nat
    PROVE  Total(S \cup {y}, f) = Total(S, f) + f[y]
<1> DEFINE A == UNION {{x} \X (1 .. f[x]) : x \in S}
           B == {y} \X (1 .. f[y])
           C == UNION {{x} \X (1 .. f[x]) : x \in S \cup {y}}
<1>1. C = A \cup B
  OBVIOUS
<1>2. A \cap B = {}
  OBVIOUS
<1>3. IsFiniteSet(A) /\ Cardinality(A) \in Nat
  BY TotalType DEF Total
<1>4. IsFiniteSet(B) /\ Cardinality(B) = f[y]
  BY OneTakes
<1>5. Total(S, f) = Cardinality(A) /\ Total(S \cup {y}, f) = Cardinality(C)
  BY DEF Total
<1> HIDE DEF A, B, C
<1>6. Cardinality(A \cup B) = Cardinality(A) + Cardinality(B) - Cardinality(A \cap B)
  BY <1>3, <1>4, FS_Union
<1>7. Cardinality(A \cap B) = 0
  BY <1>2, FS_EmptySet
<1> QED BY <1>1, <1>3, <1>4, <1>5, <1>6, <1>7

(* One member less.                                                        *)
LEMMA TotalRemove ==
    ASSUME NEW S, IsFiniteSet(S), NEW f, \A x \in S : f[x] \in Nat, NEW y \in S
    PROVE  Total(S \ {y}, f) = Total(S, f) - f[y]
<1> DEFINE R == S \ {y}
<1>1. IsFiniteSet(R) /\ (\A x \in R : f[x] \in Nat) /\ y \notin R /\ f[y] \in Nat
  BY FS_Subset
<1>2. R \cup {y} = S
  OBVIOUS
<1> HIDE DEF R
<1>3. Total(R \cup {y}, f) = Total(R, f) + f[y]
  BY <1>1, TotalAdd
<1>4. Total(R, f) \in Nat
  BY <1>1, TotalType
<1>5. Total(S, f) = Total(R, f) + f[y]
  BY <1>2, <1>3
<1>6. ASSUME NEW r \in Nat, NEW s, NEW n \in Nat, s = r + n PROVE r = s - n
  BY <1>6
<1>7. Total(R, f) = Total(S, f) - f[y]
  BY <1>1, <1>4, <1>5, <1>6
<1> QED BY <1>7 DEF R

(* More members take no less.                                              *)
LEMMA TotalGrows ==
    ASSUME NEW S, IsFiniteSet(S), NEW f, \A x \in S : f[x] \in Nat, NEW R \in SUBSET S
    PROVE  Total(R, f) <= Total(S, f)
<1> DEFINE A == UNION {{x} \X (1 .. f[x]) : x \in R}
           B == UNION {{x} \X (1 .. f[x]) : x \in S}
<1>1. IsFiniteSet(B)
  BY TotalType
<1>2. A \subseteq B
  OBVIOUS
<1>3. Total(R, f) = Cardinality(A) /\ Total(S, f) = Cardinality(B)
  BY DEF Total
<1> HIDE DEF A, B
<1>4. Cardinality(A) <= Cardinality(B)
  BY <1>1, <1>2, FS_Subset
<1> QED BY <1>3, <1>4

-----------------------------------------------------------------------------
(* size_t.                                                                 *)

(* What is left of a number is it, less some turns.                        *)
LEMMA Turns ==
    ASSUME NEW n \in Int
    PROVE  \E k \in Int : n % SizeModulus = n + k * SizeModulus
<1> DEFINE M == SizeModulus
<1>1. M \in Nat \ {0}
  BY SizeAssumption
<1> HIDE DEF M
<1>2. n = M * (n \div M) + (n % M) /\ n \div M \in Int
  BY <1>1
<1>3. n % M = n + (-(n \div M)) * M
  BY <1>1, <1>2
<1> QED BY <1>2, <1>3 DEF M

(* Of the numbers that differ by turns, one is a size_t.                   *)
LEMMA OneTurn ==
    ASSUME NEW a \in 0 .. SizeModulus - 1, NEW b \in Nat, NEW k \in Int,
           a = b + k * SizeModulus
    PROVE  a <= b /\ (b < SizeModulus => a = b)
<1> DEFINE M == SizeModulus
           p == k * M
<1>1. M \in Nat \ {0} /\ a \in Nat /\ a < M /\ p \in Int /\ a = b + p
  BY SizeAssumption
<1>2. k >= 1 => p >= M
  BY <1>1
<1>3. k <= -1 => p <= -M
  BY <1>1
<1>4. k = 0 => p = 0
  BY <1>1
<1>5. k >= 1 \/ k <= -1 \/ k = 0
  OBVIOUS
<1> HIDE DEF M, p
<1> QED BY <1>1, <1>2, <1>3, <1>4, <1>5 DEF M

-----------------------------------------------------------------------------
(* The counter and the bytes cached.                                       *)

\* Tasks that have inserted their content or found that they need not.
Added ==
    {w \in Worker : pc[w] \notin {"idle", "find_original", "insert_new", "has", "get_partial",
                                  "transform", "fold", "insert"}}

\* Tasks between the two steps of addContent, and of removeContent.
Accounting == {w \in Worker : pc[w] = "account"}
Erasing == {w \in Worker : pc[w] \in {"evict_subtract", "remove_subtract"}}

\* What each of the latter has yet to subtract.
Victims == [w \in Worker |-> Size[victim[w]]]

\* With c bytes cached, a of them still to be counted, u erased bytes still to be
\* subtracted and t bytes added so far, the counter m says g bytes too much: those
\* of contents that replaced others, nothing when no attribute is folded twice.
Balanced(c, a, u, t, m) ==
    \E g \in Nat, k \in Int :
        /\ DistinctFolds => g = 0
        /\ c + u + g <= t
        /\ m + a = u + c + g + k * SizeModulus

CountInv ==
    /\ Balanced(CachedBytes, Unaccounted, Unsubtracted, Total(Added, Folds), memoryUsedCache)
    /\ \A w \in Worker :
           pc[w] \in {"find_original", "insert_new"} => request[w].kind = "equivalence"
    /\ DistinctFolds => \A w \in Worker : w \in Added \/ request[w].attr \notin Cached

(* The sums are numbers, and what their members take is.                   *)
LEMMA Numbers ==
    ASSUME TypeInv
    PROVE  /\ IsFiniteSet(Cached) /\ \A a \in Cached : Size[a] \in Nat
           /\ \A w \in Worker : Folds[w] \in Nat
           /\ \A w \in Erasing : Victims[w] \in Nat
           /\ IsFiniteSet(Accounting) /\ IsFiniteSet(Added) /\ IsFiniteSet(Erasing)
           /\ Accounting \subseteq Worker /\ Added \subseteq Worker /\ Erasing \subseteq Worker
<1>1. Cached \subseteq Attr /\ Accounting \subseteq Worker /\ Added \subseteq Worker
      /\ Erasing \subseteq Worker
  BY DEF Cached, Accounting, Added, Erasing
<1>2. /\ IsFiniteSet(Cached) /\ IsFiniteSet(Accounting)
      /\ IsFiniteSet(Added) /\ IsFiniteSet(Erasing)
  BY <1>1, FiniteAssumption, FS_Subset
<1>3. \A w \in Worker : Folds[w] \in Nat
  BY Requested, SizeAssumption DEF Folds
<1>4. \A w \in Erasing : victim[w] \in Attr /\ Victims[w] = Size[victim[w]]
  BY DEF TypeInv, Erasing, Victims
<1>5. \A a \in Attr : Size[a] \in Nat
  BY SizeAssumption
<1> QED BY <1>1, <1>2, <1>3, <1>4, <1>5

(* The sums are those of these sets.                                       *)
LEMMA SumsAre ==
    /\ CachedBytes = Total(Cached, Size)
    /\ Unaccounted = Total(Accounting, Folds)
    /\ Unsubtracted = Total(Erasing, Victims)
<1>1. Unsubtracted = Total(Erasing, [w \in Erasing |-> Size[victim[w]]])
  BY DEF Unsubtracted, Erasing
<1>2. \A w \in Erasing : [v \in Erasing |-> Size[victim[v]]][w] = Victims[w]
  BY DEF Victims, Erasing
<1>3. Total(Erasing, [v \in Erasing |-> Size[victim[v]]]) = Total(Erasing, Victims)
  BY <1>2, TotalSame
<1> QED BY <1>1, <1>3 DEF CachedBytes, Unaccounted, Accounting

\* The sums are numbers.
LEMMA SumsAreNumbers ==
    ASSUME TypeInv
    PROVE  /\ CachedBytes \in Nat /\ Unaccounted \in Nat /\ Unsubtracted \in Nat
           /\ Total(Added, Folds) \in Nat /\ memoryUsedCache \in Nat
<1>1. Total(Cached, Size) \in Nat
  BY Numbers, TotalType
<1>2. Total(Accounting, Folds) \in Nat
  BY Numbers, TotalType
<1>3. Total(Erasing, Victims) \in Nat
  BY Numbers, TotalType
<1>4. Total(Added, Folds) \in Nat
  BY Numbers, TotalType
<1>5. memoryUsedCache \in Nat
  BY SizeAssumption DEF TypeInv, TypeOK
<1> QED BY <1>1, <1>2, <1>3, <1>4, <1>5, SumsAre

(* A step that writes e more bytes over others keeps the balance.          *)
LEMMA Rebalance ==
    ASSUME NEW c \in Int, NEW a \in Int, NEW u \in Int, NEW t \in Int, NEW m \in Int,
           NEW c2 \in Int, NEW a2 \in Int, NEW u2 \in Int, NEW t2 \in Int, NEW m2 \in Int,
           Balanced(c, a, u, t, m), NEW e \in Nat, DistinctFolds => e = 0, NEW j \in Int,
           c2 + u2 + e - (c + u) <= t2 - t,
           m2 + a2 - (m + a) = u2 + c2 + e - (u + c) + j * SizeModulus
    PROVE  Balanced(c2, a2, u2, t2, m2)
<1> DEFINE M == SizeModulus
<1>1. M \in Int
  BY SizeAssumption
<1>2. PICK g \in Nat, k \in Int :
         (DistinctFolds => g = 0) /\ c + u + g <= t /\ m + a = u + c + g + k * M
  BY DEF Balanced
<1>3. m2 + a2 - (m + a) = u2 + c2 + e - (u + c) + j * M
  OBVIOUS
<1> HIDE DEF M
<1>4. k * M + j * M = (k + j) * M /\ k * M \in Int /\ j * M \in Int /\ (k + j) * M \in Int
  BY <1>1
<1>5. g + e \in Nat /\ k + j \in Int /\ (DistinctFolds => g + e = 0)
  BY <1>2
<1>6. c2 + u2 + (g + e) <= t2
  BY <1>2
<1>7. m2 + a2 = u2 + c2 + (g + e) + (k + j) * M
  BY <1>2, <1>3, <1>4
<1> QED BY <1>5, <1>6, <1>7 DEF Balanced, M

\* The sums of a state are numbers.
SumsTyped ==
    /\ CachedBytes \in Nat /\ Unaccounted \in Nat /\ Unsubtracted \in Nat
    /\ Total(Added, Folds) \in Nat /\ memoryUsedCache \in Nat
    /\ CachedBytes = Total(Cached, Size)
    /\ Unaccounted = Total(Accounting, Folds)
    /\ Unsubtracted = Total(Erasing, Victims)

\* So are those of the next state.
LEMMA SumsAlwaysTyped == (TypeInv => SumsTyped) /\ (TypeInv' => SumsTyped')
<1>1. TypeInv => SumsTyped
  BY SumsAre, SumsAreNumbers DEF SumsTyped
<1> QED BY <1>1, PTL

\* What a step of task w does to the balance, from what it does to the sums.
LEMMA StepBalance ==
    ASSUME TypeInv, TypeInv', CountInv, request' = request,
           NEW e \in Nat, DistinctFolds => e = 0, NEW j \in Int,
           CachedBytes' + Unsubtracted' + e - (CachedBytes + Unsubtracted)
               <= Total(Added', Folds) - Total(Added, Folds),
           memoryUsedCache' + Unaccounted' - (memoryUsedCache + Unaccounted)
               = Unsubtracted' + CachedBytes' + e - (Unsubtracted + CachedBytes) + j * SizeModulus
    PROVE  Balanced(CachedBytes, Unaccounted, Unsubtracted, Total(Added, Folds),
                    memoryUsedCache)'
<1>1. SumsTyped /\ SumsTyped'
  BY SumsAlwaysTyped
<1>2. Folds' = Folds /\ (DistinctFolds' <=> DistinctFolds)
  BY DEF Folds, DistinctFolds
<1>3. Total(Added, Folds)' = Total(Added', Folds)
  BY <1>2
<1>4. Balanced(CachedBytes, Unaccounted, Unsubtracted, Total(Added, Folds), memoryUsedCache)
  BY DEF CountInv
<1>5. /\ CachedBytes \in Int /\ Unaccounted \in Int /\ Unsubtracted \in Int
      /\ Total(Added, Folds) \in Int /\ memoryUsedCache \in Int
  BY <1>1 DEF SumsTyped
<1>6. /\ CachedBytes' \in Int /\ Unaccounted' \in Int /\ Unsubtracted' \in Int
      /\ Total(Added', Folds) \in Int /\ memoryUsedCache' \in Int
  BY <1>1, <1>3 DEF SumsTyped
<1>7. Balanced(CachedBytes', Unaccounted', Unsubtracted', Total(Added', Folds), memoryUsedCache')
  BY <1>4, <1>5, <1>6, Rebalance
<1> QED BY <1>2, <1>3, <1>7 DEF Balanced

\* The rest of the invariant: only requests to replace an attribute take an
\* accessor, and an attribute that is folded once is cached by nobody else.
LEMMA StepKinds ==
    ASSUME TypeInv, CountInv, request' = request, NEW w \in Worker, NEW l,
           pc' = [pc EXCEPT ![w] = l],
           l \in {"find_original", "insert_new"} => request[w].kind = "equivalence",
           w \in Added => w \in Added',
           DistinctFolds => \/ Cached' \subseteq Cached
                            \/ w \in Added' /\ Cached' \subseteq Cached \cup {request[w].attr}
    PROVE  /\ \A v \in Worker :
                  pc'[v] \in {"find_original", "insert_new"} => request'[v].kind = "equivalence"
           /\ (DistinctFolds => \A v \in Worker : v \in Added \/ request[v].attr \notin Cached)'
<1>1. \A v \in Worker : v # w => (v \in Added' <=> v \in Added) /\ pc'[v] = pc[v]
  BY DEF Added, TypeInv, TypeOK
<1>2. pc'[w] = l
  BY DEF TypeInv, TypeOK
<1>3. DistinctFolds' <=> DistinctFolds
  BY DEF DistinctFolds
<1>4. ASSUME DistinctFolds, NEW v \in Worker PROVE v \in Added' \/ request'[v].attr \notin Cached'
  <2>1. w \in Added \/ request[w].attr \notin Cached
    BY <1>4 DEF CountInv
  <2>2. v \in Added \/ request[v].attr \notin Cached
    BY <1>4 DEF CountInv
  <2>3. v # w => request[v].attr # request[w].attr
    BY <1>4 DEF DistinctFolds
  <2> QED BY <1>1, <1>4, <2>1, <2>2, <2>3
<1>5. \A v \in Worker :
          pc'[v] \in {"find_original", "insert_new"} => request'[v].kind = "equivalence"
  BY <1>1, <1>2 DEF CountInv
<1> QED BY <1>3, <1>4, <1>5

\* The steps that neither write nor erase an entry nor touch the counter.
LEMMA CountOfQuietSteps ==
    ASSUME TypeInv, TypeInv', CountInv, request' = request, memoryUsedCache' = memoryUsedCache,
           Cached' = Cached, Accounting' = Accounting, Erasing' = Erasing,
           \A v \in Erasing : victim'[v] = victim[v], Added \subseteq Added',
           NEW w \in Worker, NEW l, pc' = [pc EXCEPT ![w] = l],
           l \in {"find_original", "insert_new"} => request[w].kind = "equivalence"
    PROVE  CountInv'
<1>1. SumsTyped /\ SumsTyped'
  BY SumsAlwaysTyped
<1>2. Folds' = Folds
  BY DEF Folds
<1>3. Total(Erasing, Victims') = Total(Erasing, Victims)
  <2>1. \A v \in Erasing : Victims'[v] = Victims[v]
    BY DEF Victims, Erasing
  <2> QED BY <2>1, TotalSame
<1>4. CachedBytes' = CachedBytes /\ Unaccounted' = Unaccounted /\ Unsubtracted' = Unsubtracted
  BY <1>1, <1>2, <1>3 DEF SumsTyped
<1>5. Total(Added, Folds) <= Total(Added', Folds) /\ Total(Added', Folds) \in Nat
  <2>1. IsFiniteSet(Added') /\ \A v \in Added' : Folds[v] \in Nat
    <3>1. Added' \subseteq Worker
      BY DEF Added
    <3> QED BY <3>1, Numbers, FiniteAssumption, FS_Subset
  <2> QED BY <2>1, TotalGrows, TotalType
<1>6. Balanced(CachedBytes, Unaccounted, Unsubtracted, Total(Added, Folds), memoryUsedCache)'
  <2>1. 0 \in Nat /\ 0 \in Int /\ 0 * SizeModulus = 0
    BY SizeAssumption
  <2>2. CachedBytes' + Unsubtracted' + 0 - (CachedBytes + Unsubtracted)
               <= Total(Added', Folds) - Total(Added, Folds)
    BY <1>1, <1>4, <1>5 DEF SumsTyped
  <2>3. memoryUsedCache' + Unaccounted' - (memoryUsedCache + Unaccounted)
          = Unsubtracted' + CachedBytes' + 0 - (Unsubtracted + CachedBytes) + 0 * SizeModulus
    BY <1>1, <1>4, <2>1 DEF SumsTyped
  <2> QED BY <2>1, <2>2, <2>3, StepBalance
<1>7. /\ \A v \in Worker :
             pc'[v] \in {"find_original", "insert_new"} => request'[v].kind = "equivalence"
      /\ (DistinctFolds => \A v \in Worker : v \in Added \/ request[v].attr \notin Cached)'
  BY StepKinds
<1> QED BY <1>6, <1>7 DEF CountInv

\* insert() and the move of the content.
LEMMA CountOfInsert ==
    ASSUME TypeInv, TypeInv', CountInv, NEW w \in Worker, InsertContent(w)
    PROVE  CountInv'
<1> DEFINE a == request[w].attr
           s == Size[a]
<1>1. /\ pc[w] = "insert" /\ pc' = [pc EXCEPT ![w] = "account"]
      /\ UNCHANGED <<memoryUsedCache, request, folded, borrowed, todo, victim, client>>
      /\ Cached' = Cached \cup {a} /\ a \in Attr /\ s \in Nat
  <2>1. cache' = [cache EXCEPT ![a] = [buffer |-> w, value |-> folded[w],
               refCount |-> IF a \in Cached THEN cache[a].refCount ELSE 1]]
    BY DEF InsertContent
  <2>2. cache'[a] # Absent
    <3>1. a \in Attr /\ cache' \in [Attr -> Entry \cup {Absent}] /\ DOMAIN cache = Attr
      BY Requested DEF TypeInv, TypeOK
    <3>2. [buffer |-> w, value |-> folded[w],
           refCount |-> IF a \in Cached THEN cache[a].refCount ELSE 1] \in Entry
      BY <3>1 DEF Entry, TypeInv, TypeOK, Cached
    <3> QED BY <2>1, <3>1, AbsentAssumption, <3>2
  <2>3. \A b \in Attr : b # a => cache'[b] = cache[b]
    BY <2>1 DEF TypeInv, TypeOK
  <2>4. a \in Attr /\ s \in Nat
    BY Requested, SizeAssumption
  <2> HIDE DEF a
  <2>5. Cached' = Cached \cup {a}
    BY <2>2, <2>3, <2>4 DEF Cached
  <2> QED BY <2>4, <2>5 DEF InsertContent, Goto
<1> HIDE DEF a
<1>2. SumsTyped /\ SumsTyped' /\ Folds' = Folds /\ Victims' = Victims
  BY <1>1, SumsAlwaysTyped DEF Folds, Victims
<1>3. /\ w \notin Added /\ Added' = Added \cup {w}
      /\ w \notin Accounting /\ Accounting' = Accounting \cup {w} /\ Erasing' = Erasing
  BY <1>1 DEF Added, Accounting, Erasing, TypeInv, TypeOK
<1>4. Folds[w] = s
  BY DEF Folds, a
<1>5. Total(Added', Folds) = Total(Added, Folds) + s
  BY <1>1, <1>3, <1>4, Numbers, TotalAdd
<1>6. Unaccounted' = Unaccounted + s /\ Unsubtracted' = Unsubtracted
  <2>1. Total(Accounting', Folds) = Total(Accounting, Folds) + s
    BY <1>1, <1>3, <1>4, Numbers, TotalAdd
  <2> QED BY <1>2, <1>3, <2>1 DEF SumsTyped
<1>7. CachedBytes' = IF a \in Cached THEN CachedBytes ELSE CachedBytes + s
  <2>1. a \notin Cached => Total(Cached', Size) = Total(Cached, Size) + s
    BY <1>1, Numbers, TotalAdd
  <2>2. a \in Cached => Cached' = Cached
    BY <1>1
  <2> QED BY <1>2, <2>1, <2>2 DEF SumsTyped
<1>8. Balanced(CachedBytes, Unaccounted, Unsubtracted, Total(Added, Folds), memoryUsedCache)'
  <2> DEFINE e == IF a \in Cached THEN s ELSE 0
  <2>1. e \in Nat /\ 0 \in Int /\ 0 * SizeModulus = 0 /\ CachedBytes' + e = CachedBytes + s
    BY <1>1, <1>2, <1>7, SizeAssumption DEF SumsTyped
  <2>2. DistinctFolds => e = 0
    <3>1. DistinctFolds => a \notin Cached
      BY <1>3 DEF CountInv, a
    <3> QED BY <3>1
  <2> HIDE DEF e, s
  <2>3. CachedBytes' + Unsubtracted' + e - (CachedBytes + Unsubtracted)
               <= Total(Added', Folds) - Total(Added, Folds)
    BY <1>1, <1>2, <1>5, <1>6, <2>1 DEF SumsTyped
  <2>4. memoryUsedCache' + Unaccounted' - (memoryUsedCache + Unaccounted)
          = Unsubtracted' + CachedBytes' + e - (Unsubtracted + CachedBytes) + 0 * SizeModulus
    BY <1>1, <1>2, <1>6, <2>1 DEF SumsTyped
  <2> QED BY <1>1, <2>1, <2>2, <2>3, <2>4, StepBalance
<1>9. /\ \A v \in Worker :
             pc'[v] \in {"find_original", "insert_new"} => request'[v].kind = "equivalence"
      /\ (DistinctFolds => \A v \in Worker : v \in Added \/ request[v].attr \notin Cached)'
  BY <1>1, <1>3, StepKinds DEF a
<1> QED BY <1>8, <1>9 DEF CountInv

\* fetch_add: what was still to be counted is.
LEMMA CountOfAccount ==
    ASSUME TypeInv, TypeInv', CountInv, NEW w \in Worker, AccountContent(w)
    PROVE  CountInv'
<1> DEFINE s == Size[request[w].attr]
<1>1. /\ pc[w] = "account" /\ pc' = [pc EXCEPT ![w] = "limit"]
      /\ UNCHANGED <<cache, request, folded, borrowed, todo, victim, client>>
      /\ memoryUsedCache' = (memoryUsedCache + s) % SizeModulus
      /\ Cached' = Cached /\ s \in Nat
  BY Requested, SizeAssumption DEF AccountContent, Goto, Cached
<1>2. SumsTyped /\ SumsTyped' /\ Folds' = Folds /\ Victims' = Victims /\ Folds[w] = s
  BY <1>1, SumsAlwaysTyped DEF Folds, Victims
<1> HIDE DEF s
<1>3. /\ w \in Added /\ Added' = Added
      /\ w \in Accounting /\ Accounting' = Accounting \ {w} /\ Erasing' = Erasing
  BY <1>1 DEF Added, Accounting, Erasing, TypeInv, TypeOK
<1>4. Unaccounted' = Unaccounted - s /\ Unsubtracted' = Unsubtracted /\ CachedBytes' = CachedBytes
  <2>0. \A v \in Accounting : Folds[v] \in Nat
    BY Numbers
  <2>1. Total(Accounting', Folds) = Total(Accounting, Folds) - s
    BY <1>2, <1>3, <2>0, Numbers, TotalRemove
  <2> QED BY <1>1, <1>2, <1>3, <2>1 DEF SumsTyped
<1>5. PICK j \in Int : memoryUsedCache' = memoryUsedCache + s + j * SizeModulus
  BY <1>1, <1>2, Turns DEF SumsTyped
<1>6. Balanced(CachedBytes, Unaccounted, Unsubtracted, Total(Added, Folds), memoryUsedCache)'
  <2> DEFINE p == j * SizeModulus
  <2>0. p \in Int /\ 0 \in Nat /\ memoryUsedCache' = memoryUsedCache + s + p
    BY <1>5, SizeAssumption
  <2>1. CachedBytes' + Unsubtracted' + 0 - (CachedBytes + Unsubtracted)
               <= Total(Added', Folds) - Total(Added, Folds)
    BY <1>2, <1>3, <1>4 DEF SumsTyped
  <2> HIDE DEF p
  <2>2. memoryUsedCache' + Unaccounted' - (memoryUsedCache + Unaccounted)
          = Unsubtracted' + CachedBytes' + 0 - (Unsubtracted + CachedBytes) + p
    BY <1>1, <1>2, <1>4, <2>0 DEF SumsTyped
  <2> QED BY <1>1, <2>0, <2>1, <2>2, StepBalance DEF p
<1>7. /\ \A v \in Worker :
             pc'[v] \in {"find_original", "insert_new"} => request'[v].kind = "equivalence"
      /\ (DistinctFolds => \A v \in Worker : v \in Added \/ request[v].attr \notin Cached)'
  BY <1>1, <1>3, StepKinds
<1> QED BY <1>6, <1>7 DEF CountInv

\* removeContent: what was cached is now to be subtracted.
LEMMA CountOfErasure ==
    ASSUME TypeInv, TypeInv', CountInv, NEW w \in Worker, EvictNext(w) \/ RemovePartial(w)
    PROVE  CountInv'
<1>1. PICK a \in Attr, l \in {"evict_subtract", "remove_subtract", "evict_test", "done"} :
          /\ cache' = [cache EXCEPT ![a] = Absent]
          /\ victim' = [victim EXCEPT ![w] = a]
          /\ pc' = [pc EXCEPT ![w] = l]
          /\ l \in {"evict_subtract", "remove_subtract"} <=> a \in Cached
  <2>1. CASE EvictNext(w)
    BY <2>1 DEF EvictNext, EraseContent, Goto, TypeInv, TypeOK
  <2>2. CASE RemovePartial(w)
    BY <2>2, Requested DEF RemovePartial, EraseContent, Goto
  <2> QED BY <2>1, <2>2
<1>2. /\ UNCHANGED <<memoryUsedCache, request, folded, borrowed, client>>
      /\ pc[w] \in {"evict", "remove_partial"}
  BY DEF EvictNext, RemovePartial
<1>3. Cached' = Cached \ {a} /\ victim'[w] = a /\ \A v \in Worker : v # w => victim'[v] = victim[v]
  BY <1>1 DEF Cached, TypeInv, TypeOK
<1>4. w \in Added /\ Added' = Added /\ w \notin Accounting /\ Accounting' = Accounting
  BY <1>1, <1>2 DEF Added, Accounting, TypeInv, TypeOK
<1>5. w \notin Erasing /\ Erasing' = IF a \in Cached THEN Erasing \cup {w} ELSE Erasing
  BY <1>1, <1>2 DEF Erasing, TypeInv, TypeOK
<1>6. CASE a \notin Cached
  <2>1. Cached' = Cached /\ Erasing' = Erasing /\ \A v \in Erasing : victim'[v] = victim[v]
    BY <1>3, <1>5, <1>6 DEF Erasing
  <2> QED BY <1>1, <1>2, <1>4, <2>1, CountOfQuietSteps
<1>7. CASE a \in Cached
  <2> DEFINE s == Size[a]
  <2>1. SumsTyped /\ SumsTyped' /\ Folds' = Folds /\ s \in Nat
    BY <1>2, SumsAlwaysTyped, SizeAssumption DEF Folds
  <2>2. Unsubtracted' = Unsubtracted + s
    <3>1. \A v \in Erasing : Victims'[v] = Victims[v]
      BY <1>3, <1>5 DEF Victims, Erasing
    <3>2. Victims'[w] = s
      BY <1>3 DEF Victims
    <3>3. Total(Erasing, Victims') = Total(Erasing, Victims)
      BY <3>1, TotalSame
    <3>4. \A v \in Erasing : Victims'[v] \in Nat
      BY <3>1, Numbers
    <3> HIDE DEF s
    <3>5. Total(Erasing \cup {w}, Victims') = Total(Erasing, Victims') + s
      BY <1>5, <2>1, <3>2, <3>4, Numbers, TotalAdd
    <3>6. Unsubtracted' = Total(Erasing', Victims') /\ Unsubtracted = Total(Erasing, Victims)
      BY <2>1 DEF SumsTyped
    <3> QED BY <1>5, <1>7, <3>3, <3>5, <3>6
  <2>3. CachedBytes' = CachedBytes - s
    <3>1. Total(Cached \ {a}, Size) = Total(Cached, Size) - s
      BY <1>7, Numbers, TotalRemove
    <3> QED BY <1>3, <2>1, <3>1 DEF SumsTyped
  <2>4. Unaccounted' = Unaccounted
    BY <1>4, <2>1 DEF SumsTyped
  <2> HIDE DEF s
  <2>5. Balanced(CachedBytes, Unaccounted, Unsubtracted, Total(Added, Folds), memoryUsedCache)'
    <3>0. 0 \in Nat /\ 0 \in Int /\ 0 * SizeModulus = 0
      BY SizeAssumption
    <3>1. CachedBytes' + Unsubtracted' + 0 - (CachedBytes + Unsubtracted)
               <= Total(Added', Folds) - Total(Added, Folds)
      BY <1>4, <2>1, <2>2, <2>3 DEF SumsTyped
    <3>2. memoryUsedCache' + Unaccounted' - (memoryUsedCache + Unaccounted)
          = Unsubtracted' + CachedBytes' + 0 - (Unsubtracted + CachedBytes) + 0 * SizeModulus
      BY <1>2, <2>1, <2>2, <2>3, <2>4, <3>0 DEF SumsTyped
    <3> QED BY <1>2, <3>0, <3>1, <3>2, StepBalance
  <2>6. /\ \A v \in Worker :
             pc'[v] \in {"find_original", "insert_new"} => request'[v].kind = "equivalence"
        /\ (DistinctFolds => \A v \in Worker : v \in Added \/ request[v].attr \notin Cached)'
    BY <1>1, <1>2, <1>3, <1>4, StepKinds
  <2> QED BY <2>5, <2>6 DEF CountInv
<1> QED BY <1>6, <1>7

\* fetch_sub: what was still to be subtracted is, in size_t.
LEMMA CountOfSubtract ==
    ASSUME TypeInv, TypeInv', CountInv, NEW w \in Worker, EvictSubtract(w) \/ RemoveSubtract(w)
    PROVE  CountInv'
<1> DEFINE s == Size[victim[w]]
<1>1. PICK l \in {"evict_test", "done"} : pc' = [pc EXCEPT ![w] = l]
  BY DEF EvictSubtract, RemoveSubtract, SubtractSize, Goto
<1>2. /\ pc[w] \in {"evict_subtract", "remove_subtract"}
      /\ UNCHANGED <<cache, request, folded, borrowed, todo, victim, client>>
      /\ memoryUsedCache' = (memoryUsedCache - s) % SizeModulus
      /\ Cached' = Cached /\ s \in Nat
  <2>1. /\ pc[w] \in {"evict_subtract", "remove_subtract"}
        /\ UNCHANGED <<cache, request, folded, borrowed, todo, victim, client>>
        /\ memoryUsedCache' = (memoryUsedCache - s) % SizeModulus
    BY DEF EvictSubtract, RemoveSubtract, SubtractSize
  <2>2. s \in Nat
    BY <2>1, SizeAssumption DEF TypeInv
  <2> QED BY <2>1, <2>2 DEF Cached
<1>3. SumsTyped /\ SumsTyped' /\ Folds' = Folds /\ Victims' = Victims /\ Victims[w] = s
  BY <1>2, SumsAlwaysTyped DEF Folds, Victims
<1> HIDE DEF s
<1>4. /\ w \in Added /\ Added' = Added
      /\ w \in Erasing /\ Erasing' = Erasing \ {w} /\ Accounting' = Accounting
  BY <1>1, <1>2 DEF Added, Accounting, Erasing, TypeInv, TypeOK
<1>5. Unsubtracted' = Unsubtracted - s /\ Unaccounted' = Unaccounted /\ CachedBytes' = CachedBytes
  <2>1. Total(Erasing', Victims) = Total(Erasing, Victims) - s
    BY <1>3, <1>4, Numbers, TotalRemove
  <2> QED BY <1>2, <1>3, <1>4, <2>1 DEF SumsTyped
<1>6. PICK j \in Int : memoryUsedCache' = memoryUsedCache - s + j * SizeModulus
  <2>1. memoryUsedCache - s \in Int
    BY <1>2, <1>3 DEF SumsTyped
  <2> QED BY <1>2, <2>1, Turns
<1>7. Balanced(CachedBytes, Unaccounted, Unsubtracted, Total(Added, Folds), memoryUsedCache)'
  <2> DEFINE p == j * SizeModulus
  <2>0. p \in Int /\ 0 \in Nat /\ memoryUsedCache' = memoryUsedCache - s + p
    BY <1>6, SizeAssumption
  <2> HIDE DEF p
  <2>1. CachedBytes' + Unsubtracted' + 0 - (CachedBytes + Unsubtracted)
               <= Total(Added', Folds) - Total(Added, Folds)
    BY <1>2, <1>3, <1>4, <1>5 DEF SumsTyped
  <2>2. memoryUsedCache' + Unaccounted' - (memoryUsedCache + Unaccounted)
          = Unsubtracted' + CachedBytes' + 0 - (Unsubtracted + CachedBytes) + p
    BY <1>2, <1>3, <1>5, <2>0 DEF SumsTyped
  <2> QED BY <1>2, <2>0, <2>1, <2>2, StepBalance DEF p
<1>8. /\ \A v \in Worker :
             pc'[v] \in {"find_original", "insert_new"} => request'[v].kind = "equivalence"
      /\ (DistinctFolds => \A v \in Worker : v \in Added \/ request[v].attr \notin Cached)'
  BY <1>1, <1>2, <1>4, StepKinds
<1> QED BY <1>7, <1>8 DEF CountInv

\* replaceContentAttr: the bytes stay, or replace as many.
LEMMA CountOfInsertNew ==
    ASSUME TypeInv, TypeInv', CountInv, NEW w \in Worker, InsertNew(w)
    PROVE  CountInv'
<1> DEFINE a == request[w].attr
           o == request[w].from
           s == Size[a]
           x == [buffer |-> cache[o].buffer, value |-> cache[o].value,
                 refCount |-> IF a \in Cached THEN cache[a].refCount ELSE 1]
<1>1. /\ pc[w] = "insert_new" /\ pc' = [pc EXCEPT ![w] = "done"] /\ ~Locked(a)
      /\ UNCHANGED <<memoryUsedCache, request, folded, borrowed, todo, victim, client>>
      /\ cache' = [cache EXCEPT ![a] = x, ![o] = Absent]
  BY DEF InsertNew, Goto
<1>2. a \in Attr /\ o \in Cached /\ o \in Attr /\ a # o
  <2>1. a \in Attr /\ o \in Attr
    BY Requested
  <2>2. o \in Cached
    BY <1>1 DEF TypeInv
  <2> QED BY <1>1, <2>1, <2>2 DEF Locked
<1>3. Size[o] = s /\ s \in Nat /\ ~DistinctFolds
  <2>1. request[w].kind = "equivalence"
    BY <1>1 DEF CountInv
  <2>2. request \in Batch
    BY DEF TypeInv, TypeOK
  <2> QED BY <1>2, <2>1, <2>2, BatchAssumption, SizeAssumption DEF DistinctFolds
<1>4. Cached' = (Cached \cup {a}) \ {o}
  <2>1. x \in Entry
    <3>1. cache[o] \in Entry /\ (a \in Cached => cache[a] \in Entry)
      BY <1>2 DEF TypeInv, TypeOK, Cached
    <3>2. cache[o].buffer \in Worker /\ (a \in Cached => cache[a].refCount \in Int)
          /\ cache[o].value \in {Meaning[b] : b \in Attr} \cup {Garbage}
      BY <3>1 DEF Entry
    <3> HIDE DEF a, o
    <3> QED BY <3>2 DEF Entry
  <2>2. x # Absent
    BY <2>1, AbsentAssumption
  <2> HIDE DEF x, a, o
  <2> QED BY <1>1, <1>2, <2>2 DEF Cached, TypeInv, TypeOK
<1>5. /\ SumsTyped /\ SumsTyped' /\ Folds' = Folds /\ Victims' = Victims
      /\ Folds[w] = s
  BY <1>1, SumsAlwaysTyped DEF Folds, Victims
<1>6. /\ w \notin Added /\ Added' = Added \cup {w}
      /\ Erasing' = Erasing /\ Accounting' = Accounting
  BY <1>1 DEF Added, Accounting, Erasing, TypeInv, TypeOK
<1> HIDE DEF a, o, x
<1>7. Total(Added', Folds) = Total(Added, Folds) + s
  BY <1>3, <1>5, <1>6, Numbers, TotalAdd
<1>8. Unaccounted' = Unaccounted /\ Unsubtracted' = Unsubtracted
  BY <1>5, <1>6 DEF SumsTyped
<1>9. CachedBytes' = IF a \in Cached THEN CachedBytes - s ELSE CachedBytes
  <2> DEFINE C == Cached \cup {a}
  <2>1. IsFiniteSet(C) /\ (\A b \in C : Size[b] \in Nat) /\ o \in C
    <3>1. C \subseteq Attr
      BY <1>2 DEF Cached
    <3> QED BY <1>2, <3>1, FiniteAssumption, SizeAssumption, FS_Subset
  <2>2. Cached' = C \ {o}
    BY <1>4
  <2>3. Total(C, Size) = IF a \in Cached THEN Total(Cached, Size) ELSE Total(Cached, Size) + s
    <3>1. a \in Cached => C = Cached
      OBVIOUS
    <3>2. a \notin Cached => Total(C, Size) = Total(Cached, Size) + s
      BY <1>3, Numbers, TotalAdd
    <3> QED BY <3>1, <3>2
  <2>4. Total(Cached', Size) = Total(C, Size) - s
    <3> HIDE DEF C
    <3>1. Total(C \ {o}, Size) = Total(C, Size) - Size[o]
      BY <2>1, TotalRemove
    <3> QED BY <1>3, <2>2, <3>1
  <2> HIDE DEF s, C
  <2> QED BY <1>3, <1>5, <2>3, <2>4 DEF SumsTyped
<1>10. Balanced(CachedBytes, Unaccounted, Unsubtracted, Total(Added, Folds), memoryUsedCache)'
  <2> DEFINE e == IF a \in Cached THEN s ELSE 0
  <2>1. e \in Nat /\ 0 \in Int /\ 0 * SizeModulus = 0 /\ CachedBytes' = CachedBytes - e /\ e <= s
    BY <1>3, <1>5, <1>9, SizeAssumption DEF SumsTyped
  <2>2. DistinctFolds => e = 0
    BY <1>3
  <2> HIDE DEF e, s
  <2>3. CachedBytes' + Unsubtracted' + e - (CachedBytes + Unsubtracted)
               <= Total(Added', Folds) - Total(Added, Folds)
    BY <1>3, <1>5, <1>7, <1>8, <2>1 DEF SumsTyped
  <2>4. memoryUsedCache' + Unaccounted' - (memoryUsedCache + Unaccounted)
          = Unsubtracted' + CachedBytes' + e - (Unsubtracted + CachedBytes) + 0 * SizeModulus
    BY <1>1, <1>5, <1>8, <2>1 DEF SumsTyped
  <2> QED BY <1>1, <2>1, <2>2, <2>3, <2>4, StepBalance
<1>11. /\ \A v \in Worker :
             pc'[v] \in {"find_original", "insert_new"} => request'[v].kind = "equivalence"
       /\ (DistinctFolds => \A v \in Worker : v \in Added \/ request[v].attr \notin Cached)'
  BY <1>1, <1>3, <1>6, StepKinds
<1> QED BY <1>10, <1>11 DEF CountInv

\* A hit of a query or of a look-up changes a refCount: the entry stays.
LEMMA EntryStays ==
    ASSUME TypeInv, NEW a \in Cached, NEW n \in Int,
           cache' = [cache EXCEPT ![a].refCount = n]
    PROVE  Cached' = Cached
<1> DEFINE x == [cache[a] EXCEPT !.refCount = n]
<1>1. cache[a] \in Entry /\ a \in Attr
  BY DEF TypeInv, TypeOK, Cached
<1>2. x \in Entry
  BY <1>1 DEF Entry
<1>3. cache' = [cache EXCEPT ![a] = x] /\ x # Absent
  BY <1>2, AbsentAssumption
<1> HIDE DEF x
<1> QED BY <1>1, <1>3 DEF Cached, TypeInv, TypeOK

\* The tasks' other steps.
LEMMA CountOfOtherSteps ==
    ASSUME TypeInv, TypeInv', CountInv, NEW w \in Worker,
           \/ BeginTask(w) \/ FindOriginal(w) \/ HasContent(w) \/ GetPartial(w)
           \/ TransformPartial(w) \/ FoldRequest(w) \/ CheckLimit(w)
           \/ BeginSnapshot(w) \/ EndSnapshot(w) \/ EvictTest(w)
    PROVE  CountInv'
<1> USE DEF Goto
<1>1. UNCHANGED <<memoryUsedCache, request, victim>>
  BY DEF BeginTask, FindOriginal, HasContent, GetPartial, TransformPartial, FoldRequest,
         CheckLimit, BeginSnapshot, EndSnapshot, EvictTest
<1>0. \A a \in Cached : cache[a].refCount + 1 \in Int /\ cache[a].refCount - 1 \in Int
  <2> SUFFICES ASSUME NEW a \in Cached
               PROVE  cache[a].refCount + 1 \in Int /\ cache[a].refCount - 1 \in Int
    OBVIOUS
  <2>1. cache[a] \in Entry
    BY DEF TypeInv, TypeOK, Cached
  <2>2. cache[a].refCount \in Int
    BY ONLY <2>1 DEF Entry
  <2> QED BY ONLY <2>2
<1>2. Cached' = Cached
  <2>1. CASE cache' = cache
    BY <2>1 DEF Cached
  <2>2. CASE HasContent(w) /\ request[w].attr \in Cached
    <3> DEFINE a == request[w].attr
    <3>1. cache' = [cache EXCEPT ![a].refCount = cache[a].refCount + 1] /\ a \in Cached
      BY <2>2 DEF HasContent
    <3>2. cache[a].refCount + 1 \in Int
      BY ONLY <1>0, <3>1
    <3> QED BY <3>1, <3>2, EntryStays
  <2>3. CASE GetPartial(w) /\ request[w].from \in Cached
    <3> DEFINE a == request[w].from
    <3>1. cache' = [cache EXCEPT ![a].refCount = cache[a].refCount - 1] /\ a \in Cached
      BY <2>3 DEF GetPartial
    <3>2. cache[a].refCount - 1 \in Int
      BY ONLY <1>0, <3>1
    <3> QED BY <3>1, <3>2, EntryStays
  <2> QED
    BY <2>1, <2>2, <2>3
       DEF BeginTask, FindOriginal, HasContent, GetPartial, TransformPartial, FoldRequest,
           CheckLimit, BeginSnapshot, EndSnapshot, EvictTest
<1>3. \E l \in Label : /\ pc' = [pc EXCEPT ![w] = l]
                       /\ l \notin {"account", "evict_subtract", "remove_subtract"}
                       /\ l \in {"find_original", "insert_new"} => request[w].kind = "equivalence"
                       /\ w \in Added => l \in {"done", "remove_partial", "clean", "iterate", "evict"}
  <2>1. CASE BeginTask(w)
    <3>1. pc[w] = "idle"
      BY <2>1 DEF BeginTask
    <3>2. CASE request[w].kind = "equivalence"
      BY <2>1, <3>1, <3>2 DEF BeginTask, Label, Added
    <3>3. CASE request[w].kind # "equivalence"
      BY <2>1, <3>1, <3>3 DEF BeginTask, Label, Added
    <3> QED BY <3>2, <3>3
  <2>2. CASE FindOriginal(w)
    <3>1. pc[w] = "find_original" /\ request[w].kind = "equivalence"
      BY <2>2 DEF FindOriginal, CountInv
    <3>2. pc' = [pc EXCEPT ![w] = "insert_new"] \/ pc' = [pc EXCEPT ![w] = "has"]
      BY <2>2 DEF FindOriginal
    <3> QED BY <3>1, <3>2 DEF Label, Added
  <2>3. CASE HasContent(w)
    <3>1. \E l \in {"done", "get_partial", "fold"} : pc' = [pc EXCEPT ![w] = l]
      BY <2>3 DEF HasContent
    <3> QED BY <2>3, <3>1 DEF HasContent, Label, Added
  <2>4. CASE GetPartial(w) \/ TransformPartial(w) \/ FoldRequest(w)
    BY <2>4 DEF GetPartial, TransformPartial, FoldRequest, Label, Added
  <2>5. CASE CheckLimit(w)
    <3>1. \E l \in {"clean", "remove_partial", "done"} : pc' = [pc EXCEPT ![w] = l]
      BY <2>5 DEF CheckLimit, AfterAdd
    <3> QED BY <3>1 DEF Label
  <2>6. CASE BeginSnapshot(w) \/ EndSnapshot(w)
    <3>1. \E l \in {"iterate", "evict"} : pc' = [pc EXCEPT ![w] = l]
      BY <2>6 DEF BeginSnapshot, EndSnapshot
    <3> QED BY <3>1 DEF Label
  <2>7. CASE EvictTest(w)
    <3>1. \E l \in {"evict", "remove_partial", "done"} : pc' = [pc EXCEPT ![w] = l]
      BY <2>7 DEF EvictTest, AfterAdd
    <3> QED BY <3>1 DEF Label
  <2> QED BY <2>1, <2>2, <2>3, <2>4, <2>5, <2>6, <2>7
<1>4. pc[w] \notin {"account", "evict_subtract", "remove_subtract"}
  BY DEF BeginTask, FindOriginal, HasContent, GetPartial, TransformPartial, FoldRequest,
         CheckLimit, BeginSnapshot, EndSnapshot, EvictTest
<1>5. PICK l \in Label :
         /\ pc' = [pc EXCEPT ![w] = l]
         /\ l \notin {"account", "evict_subtract", "remove_subtract"}
         /\ l \in {"find_original", "insert_new"} => request[w].kind = "equivalence"
         /\ w \in Added => l \in {"done", "remove_partial", "clean", "iterate", "evict"}
  BY <1>3
<1>6. Accounting' = Accounting /\ Erasing' = Erasing /\ Added \subseteq Added'
  BY <1>4, <1>5 DEF Accounting, Erasing, Added, TypeInv, TypeOK
<1> QED BY <1>1, <1>2, <1>5, <1>6, CountOfQuietSteps

\* Compiling threads look up, and count for nothing.
LEMMA CountOfClients ==
    ASSUME TypeInv, CountInv, UNCHANGED <<memoryUsedCache, request, pc, victim>>,
           Cached' = Cached
    PROVE  CountInv'
<1>1. /\ Added' = Added /\ Folds' = Folds /\ (DistinctFolds' <=> DistinctFolds)
      /\ CachedBytes' = CachedBytes /\ Unaccounted' = Unaccounted
      /\ Unsubtracted' = Unsubtracted
  BY DEF Added, Folds, DistinctFolds, CachedBytes, Unaccounted, Unsubtracted
<1>2. Balanced(CachedBytes, Unaccounted, Unsubtracted, Total(Added, Folds), memoryUsedCache)'
  BY <1>1 DEF CountInv, Balanced
<1> QED BY <1>1, <1>2 DEF CountInv

\* The invariant is inductive.
LEMMA CountInductive == TypeInv /\ CountInv /\ [Next]_vars => CountInv'
<1> SUFFICES ASSUME TypeInv, CountInv, [Next]_vars PROVE CountInv'
  OBVIOUS
<1>0. TypeInv'
  BY TypeInductive
<1>1. CASE \E w \in Worker : BeginTask(w) \/ WorkerStep(w)
  BY <1>0, <1>1, CountOfInsert, CountOfAccount, CountOfErasure, CountOfSubtract,
     CountOfInsertNew, CountOfOtherSteps DEF WorkerStep
<1>2. ASSUME NEW c \in Client, NEW a \in Attr, GetContent(c, a) PROVE CountInv'
  <2>1. cache' = [cache EXCEPT ![a].refCount = cache[a].refCount - 1] /\ a \in Cached
        /\ UNCHANGED <<memoryUsedCache, request, pc, victim>>
    BY <1>2 DEF GetContent
  <2>2. cache[a].refCount - 1 \in Int
    BY <2>1 DEF TypeInv, TypeOK, Cached, Entry
  <2>3. Cached' = Cached
    BY <2>1, <2>2, EntryStays
  <2> QED BY <2>1, <2>3, CountOfClients
<1>3. ASSUME NEW c \in Client, DropContent(c) PROVE CountInv'
  <2>1. UNCHANGED <<cache, memoryUsedCache, request, pc, victim>>
    BY <1>3 DEF DropContent
  <2> QED BY <2>1, CountOfClients DEF Cached
<1>4. CASE UNCHANGED vars
  BY <1>4, CountOfClients DEF vars, Cached
<1> QED BY <1>1, <1>2, <1>3, <1>4 DEF Next, Terminated

\* Nothing is cached and nothing counted.
LEMMA CountInit == Init => TypeInv /\ CountInv
<1> SUFFICES ASSUME Init PROVE TypeInv /\ CountInv
  OBVIOUS
<1>1. TypeInv
  BY SizeAssumption DEF Init, TypeInv, TypeOK, Label
<1>2. Cached = {} /\ Accounting = {} /\ Erasing = {} /\ Added = {}
  BY DEF Init, Cached, Accounting, Erasing, Added
<1>3. /\ CachedBytes = 0 /\ Unaccounted = 0 /\ Unsubtracted = 0 /\ Total(Added, Folds) = 0
      /\ memoryUsedCache = 0
  BY <1>2, TotalEmpty, SumsAre DEF Init
<1>4. Balanced(0, 0, 0, 0, 0)
  <2>1. 0 \in Nat /\ 0 \in Int /\ 0 * SizeModulus = 0
    BY SizeAssumption
  <2> QED BY <2>1 DEF Balanced
<1>5. \A w \in Worker : pc[w] = "idle"
  BY DEF Init
<1> QED BY <1>1, <1>2, <1>3, <1>4, <1>5 DEF CountInv

\* The counter never falls short of the bytes cached, and says exactly them when
\* no attribute is folded twice.
THEOREM CounterIsRight == Spec => []AccountingRight
<1>1. ASSUME TypeInv, CountInv PROVE AccountingRight
  <2> DEFINE D == memoryUsedCache + Unaccounted - Unsubtracted - CachedBytes
  <2>1. SumsTyped
    BY <1>1, SumsAlwaysTyped
  <2>2. PICK g \in Nat, k \in Int :
           /\ DistinctFolds => g = 0
           /\ CachedBytes + Unsubtracted + g <= Total(Added, Folds)
           /\ memoryUsedCache + Unaccounted = Unsubtracted + CachedBytes + g + k * SizeModulus
    BY <1>1 DEF CountInv, Balanced
  <2>3. k * SizeModulus \in Int
    BY SizeAssumption
  <2>4. D \in Int /\ D = g + k * SizeModulus
    BY <2>1, <2>2, <2>3 DEF SumsTyped
  <2>5. Drift = D % SizeModulus
    BY DEF Drift
  <2> HIDE DEF D
  <2>6. Drift \in 0 .. SizeModulus - 1
    BY <2>4, <2>5, Wraps
  <2>7. PICK j \in Int : Drift = D + j * SizeModulus
    BY <2>4, <2>5, Turns
  <2>8. Drift = g + (k + j) * SizeModulus /\ k + j \in Int
    BY <2>4, <2>7, SizeAssumption
  <2>9. Drift <= g /\ (g < SizeModulus => Drift = g)
    BY <2>6, <2>8, OneTurn
  <2>10. DistinctFolds => Drift = 0
    BY <2>2, <2>9, SizeAssumption
  <2>11. Total(Added, Folds) <= Total({w \in Worker : pc[w] # "idle"}, Folds)
         /\ Total({w \in Worker : pc[w] # "idle"}, Folds) \in Nat
    <3> DEFINE S == {w \in Worker : pc[w] # "idle"}
    <3>1. IsFiniteSet(S) /\ \A w \in S : Folds[w] \in Nat
      BY <1>1, Numbers, FiniteAssumption, FS_Subset
    <3>2. Added \subseteq S
      BY DEF Added
    <3> HIDE DEF S
    <3>3. Total(Added, Folds) <= Total(S, Folds) /\ Total(S, Folds) \in Nat
      BY <3>1, <3>2, TotalGrows, TotalType
    <3> QED BY <3>3 DEF S
  <2>12. Drift <= Total({w \in Worker : pc[w] # "idle"}, Folds)
    BY <2>1, <2>2, <2>6, <2>9, <2>11, SizeAssumption DEF SumsTyped
  <2> QED BY <2>10, <2>12 DEF AccountingRight, AccountingExact, NeverUndercounts
<1>2. Spec => [](TypeInv /\ CountInv)
  BY CountInit, CountInductive, TypeInductive, PTL DEF Spec
<1>3. TypeInv /\ CountInv => AccountingRight
  BY <1>1
<1> QED BY <1>2, <1>3, PTL

-----------------------------------------------------------------------------
(* The limit.                                                              *)

\* A clean-up that will not end before it has seen what is cached.
Cleans(w) ==
    \/ pc[w] \in {"limit", "clean"}
    \/ /\ pc[w] \in {"iterate", "evict", "evict_subtract", "evict_test"}
       /\ Unmoved \subseteq DOMAIN todo[w]

\* Whoever brings the cache to its limit is about to clean it.
LimitInv ==
    \/ \E w \in Worker : pc[w] = "account"
    \/ Total(Unmoved, Size) < Limit
    \/ \E w \in Worker : Cleans(w)

\* Between additions the counter covers what is cached: it has not wrapped.
LEMMA CounterCovers ==
    ASSUME TypeInv, CountInv, \A w \in Worker : pc[w] # "account"
    PROVE  CachedBytes <= memoryUsedCache
<1>1. SumsTyped
  BY SumsAlwaysTyped
<1>2. Unaccounted = 0
  <2>1. Accounting = {}
    BY DEF Accounting
  <2> QED BY <1>1, <2>1, TotalEmpty DEF SumsTyped
<1>3. PICK g \in Nat, k \in Int :
         /\ CachedBytes + Unsubtracted + g <= Total(Added, Folds)
         /\ memoryUsedCache + Unaccounted = Unsubtracted + CachedBytes + g + k * SizeModulus
  BY DEF CountInv, Balanced
<1>4. Total(Added, Folds) <= Total(Worker, Folds) /\ Total(Worker, Folds) < SizeModulus
      /\ Total(Worker, Folds) \in Nat
  <2>1. Total(Added, Folds) <= Total(Worker, Folds) /\ Total(Worker, Folds) \in Nat
    BY Numbers, FiniteAssumption, TotalGrows, TotalType
  <2>2. request \in Batch
    BY DEF TypeInv, TypeOK
  <2> QED BY <2>1, <2>2, WidthAssumption DEF Folds
<1> DEFINE b == CachedBytes + Unsubtracted + g
<1>5. b \in Nat /\ b < SizeModulus /\ CachedBytes <= b
  BY <1>1, <1>3, <1>4, SizeAssumption DEF SumsTyped
<1>6. memoryUsedCache = b + k * SizeModulus
  <2> DEFINE p == k * SizeModulus
  <2>1. p \in Int
    BY SizeAssumption
  <2>2. memoryUsedCache + Unaccounted = Unsubtracted + CachedBytes + g + p
    BY <1>3
  <2> HIDE DEF p
  <2>3. memoryUsedCache = b + p
    BY <1>1, <1>2, <2>1, <2>2 DEF SumsTyped
  <2> QED BY <2>3 DEF p
<1>7. memoryUsedCache \in 0 .. SizeModulus - 1
  BY DEF TypeInv, TypeOK
<1> HIDE DEF b
<1>8. memoryUsedCache = b
  BY <1>5, <1>6, <1>7, OneTurn
<1> QED BY <1>5, <1>8

\* A counter below the limit means that the cache is.
LEMMA BelowCounter ==
    ASSUME TypeInv, CountInv, \A w \in Worker : pc[w] # "account", memoryUsedCache < Limit
    PROVE  Total(Unmoved, Size) < Limit
<1>1. Unmoved \subseteq Cached
  BY DEF Unmoved
<1>2. Total(Unmoved, Size) <= Total(Cached, Size) /\ Total(Unmoved, Size) \in Nat
  <2>1. IsFiniteSet(Unmoved) /\ \A a \in Unmoved : Size[a] \in Nat
    BY <1>1, Numbers, FS_Subset
  <2> QED BY <1>1, <2>1, Numbers, TotalGrows, TotalType
<1>3. CachedBytes <= memoryUsedCache /\ SumsTyped
  BY CounterCovers, SumsAlwaysTyped
<1> QED BY <1>2, <1>3, SizeAssumption DEF SumsTyped

\* A step of task w that adds nothing and does not end a clean-up.
LEMMA LimitOfStep ==
    ASSUME TypeInv, LimitInv, request' = request, Unmoved' \subseteq Unmoved,
           NEW w \in Worker, NEW l, pc' = [pc EXCEPT ![w] = l],
           \A v \in Worker : v # w => todo'[v] = todo[v],
           pc[w] = "account" => l = "limit",
           \/ Cleans(w) => Cleans(w)'
           \/ (\A v \in Worker : pc[v] # "account") => Total(Unmoved, Size) < Limit
    PROVE  LimitInv'
<1>1. Total(Unmoved', Size) <= Total(Unmoved, Size)
      /\ Total(Unmoved', Size) \in Nat /\ Total(Unmoved, Size) \in Nat
  <2>1. Unmoved \subseteq Cached
    BY DEF Unmoved
  <2>2. IsFiniteSet(Unmoved) /\ \A a \in Unmoved : Size[a] \in Nat
    BY <2>1, Numbers, FS_Subset
  <2>3. IsFiniteSet(Unmoved') /\ \A a \in Unmoved' : Size[a] \in Nat
    BY <2>2, FS_Subset
  <2> QED BY <2>2, <2>3, TotalGrows, TotalType
<1>2. Total(Unmoved, Size)' = Total(Unmoved', Size)
  OBVIOUS
<1>3. (\A v \in Worker : v # w => pc'[v] = pc[v]) /\ pc'[w] = l
  BY DEF TypeInv, TypeOK
<1>4. ASSUME NEW v \in Worker, v # w, Cleans(v) PROVE Cleans(v)'
  BY <1>3, <1>4 DEF Cleans
<1>5. CASE \E v \in Worker : pc[v] = "account"
  <2>1. PICK v \in Worker : pc[v] = "account"
    BY <1>5
  <2>2. CASE v = w
    <3>1. Cleans(w)'
      BY <1>3, <2>1, <2>2 DEF Cleans
    <3> QED BY <3>1 DEF LimitInv
  <2>3. CASE v # w
    BY <1>3, <2>1, <2>3 DEF LimitInv
  <2> QED BY <2>2, <2>3
<1>6. CASE Total(Unmoved, Size) < Limit
  BY <1>1, <1>2, <1>6, SizeAssumption DEF LimitInv
<1>7. CASE /\ \A v \in Worker : pc[v] # "account"
           /\ ~(Total(Unmoved, Size) < Limit)
  <2>1. PICK v \in Worker : Cleans(v)
    BY <1>7 DEF LimitInv
  <2>2. Cleans(w) => Cleans(w)'
    BY <1>7
  <2>3. Cleans(v)'
    BY <1>4, <2>1, <2>2
  <2> QED BY <2>3 DEF LimitInv
<1> QED BY <1>5, <1>6, <1>7

\* What is unmoved follows from what is cached.
LEMMA UnmovedFollows ==
    ASSUME request' = request, Cached' \subseteq Cached
    PROVE  Unmoved' \subseteq Unmoved
BY DEF Unmoved

\* addContent and replaceContentAttr.
LEMMA LimitOfAdditions ==
    ASSUME TypeInv, CountInv, LimitInv, NEW w \in Worker,
           InsertContent(w) \/ AccountContent(w) \/ InsertNew(w)
    PROVE  LimitInv'
<1>1. CASE InsertContent(w)
  <2>1. pc'[w] = "account"
    BY <1>1 DEF InsertContent, Goto, TypeInv, TypeOK
  <2> QED BY <2>1 DEF LimitInv
<1>2. CASE AccountContent(w)
  <2>1. pc'[w] = "limit"
    BY <1>2 DEF AccountContent, Goto, TypeInv, TypeOK
  <2> QED BY <2>1 DEF LimitInv, Cleans
<1>3. CASE InsertNew(w)
  <2> DEFINE a == request[w].attr
             o == request[w].from
             x == [buffer |-> cache[o].buffer, value |-> cache[o].value,
                   refCount |-> IF a \in Cached THEN cache[a].refCount ELSE 1]
  <2>1. /\ pc[w] = "insert_new" /\ pc' = [pc EXCEPT ![w] = "done"]
        /\ request' = request /\ todo' = todo
        /\ cache' = [cache EXCEPT ![a] = x, ![o] = Absent]
    BY <1>3 DEF InsertNew, Goto
  <2>2. request[w].kind = "equivalence"
    BY <2>1 DEF CountInv
  <2>3. ASSUME NEW b \in Attr, b # a, cache'[b] # Absent PROVE cache[b] # Absent
    <3> HIDE DEF a, o, x
    <3>1. cache'[b] = cache[b] \/ cache'[b] = Absent
      BY <2>1, <2>3 DEF TypeInv, TypeOK
    <3> QED BY <2>3, <3>1
  <2> HIDE DEF x
  <2>4. Unmoved' \subseteq Unmoved
    BY <2>1, <2>2, <2>3 DEF Unmoved, Cached
  <2>5. ~Cleans(w)
    BY <2>1 DEF Cleans
  <2> QED BY <2>1, <2>4, <2>5, LimitOfStep
<1> QED BY <1>1, <1>2, <1>3

\* cleanUpCache: the entries it has listed are those it still may evict.
LEMMA LimitOfCleaning ==
    ASSUME TypeInv, CountInv, LimitInv, CleanTo < Limit, NEW w \in Worker,
           CheckLimit(w) \/ BeginSnapshot(w) \/ EndSnapshot(w) \/ EvictTest(w)
    PROVE  LimitInv'
<1> USE DEF Goto
<1>1. UNCHANGED <<cache, memoryUsedCache, request>> /\ Cached' = Cached
  BY DEF CheckLimit, BeginSnapshot, EndSnapshot, EvictTest, Cached
<1>2. Unmoved' = Unmoved
  BY <1>1 DEF Unmoved
<1>3. Unmoved \subseteq Cached
  BY DEF Unmoved
<1>4. memoryUsedCache \in Nat
  BY SizeAssumption DEF TypeInv, TypeOK
<1>5. CASE CheckLimit(w)
  <2>1. pc[w] = "limit" /\ todo' = todo
    BY <1>5 DEF CheckLimit
  <2>2. CASE isMemoryLimitReached
    <3>1. pc' = [pc EXCEPT ![w] = "clean"]
      BY <1>5, <2>2 DEF CheckLimit
    <3>2. pc'[w] = "clean"
      BY <3>1 DEF TypeInv, TypeOK
    <3>3. Cleans(w)'
      BY <3>2 DEF Cleans
    <3> QED BY <1>1, <1>2, <2>1, <3>1, <3>3, LimitOfStep
  <2>3. CASE ~isMemoryLimitReached
    <3>1. PICK l : pc' = [pc EXCEPT ![w] = l]
      BY <1>5 DEF CheckLimit
    <3>2. memoryUsedCache < Limit
      BY <1>4, <2>3, SizeAssumption DEF isMemoryLimitReached
    <3>3. (\A v \in Worker : pc[v] # "account") => Total(Unmoved, Size) < Limit
      BY <3>2, BelowCounter
    <3> QED BY <1>1, <1>2, <2>1, <3>1, <3>3, LimitOfStep
  <2> QED BY <2>2, <2>3
<1>6. CASE BeginSnapshot(w)
  <2>1. /\ pc' = [pc EXCEPT ![w] = "iterate"] /\ pc[w] = "clean"
        /\ \A v \in Worker : v # w => todo'[v] = todo[v]
        /\ pc'[w] = "iterate" /\ DOMAIN todo'[w] = Cached
    BY <1>6 DEF BeginSnapshot, TypeInv, TypeOK
  <2>2. Cleans(w)'
    BY <1>2, <1>3, <2>1 DEF Cleans
  <2> QED BY <1>1, <1>2, <2>1, <2>2, LimitOfStep
<1>7. CASE EndSnapshot(w)
  <2>1. /\ pc' = [pc EXCEPT ![w] = "evict"] /\ pc[w] = "iterate"
        /\ pc'[w] = "evict"
        /\ \A v \in Worker : v # w => todo'[v] = todo[v]
        /\ DOMAIN todo[w] \cap Cached \subseteq DOMAIN todo'[w]
    BY <1>7 DEF EndSnapshot, TypeInv, TypeOK
  <2>2. Cleans(w) => Cleans(w)'
    BY <1>2, <1>3, <2>1 DEF Cleans
  <2> QED BY <1>1, <1>2, <2>1, <2>2, LimitOfStep
<1>8. CASE EvictTest(w)
  <2>1. pc[w] \in {"evict_test", "evict"}
    BY <1>8 DEF EvictTest
  <2>2. CASE CleanEnough
    <3>1. PICK l : pc' = [pc EXCEPT ![w] = l]
      BY <1>8, <2>2 DEF EvictTest
    <3>2. \A v \in Worker : v # w => todo'[v] = todo[v]
      BY <1>8, <2>2 DEF EvictTest, TypeInv, TypeOK
    <3>3. memoryUsedCache < Limit
      BY <1>4, <2>2, SizeAssumption DEF CleanEnough
    <3>4. (\A v \in Worker : pc[v] # "account") => Total(Unmoved, Size) < Limit
      BY <3>3, BelowCounter
    <3> QED BY <1>1, <1>2, <2>1, <3>1, <3>2, <3>4, LimitOfStep
  <2>3. CASE DOMAIN todo[w] # {} /\ ~CleanEnough
    <3>1. pc' = [pc EXCEPT ![w] = "evict"] /\ todo' = todo /\ pc'[w] = "evict"
      BY <1>8, <2>3 DEF EvictTest, TypeInv, TypeOK
    <3>2. Cleans(w) => Cleans(w)'
      BY <1>2, <2>1, <3>1 DEF Cleans
    <3> QED BY <1>1, <1>2, <2>1, <3>1, <3>2, LimitOfStep
  <2>4. CASE DOMAIN todo[w] = {}
    <3>1. PICK l : pc' = [pc EXCEPT ![w] = l]
      BY <1>8, <2>4 DEF EvictTest
    <3>2. \A v \in Worker : v # w => todo'[v] = todo[v]
      BY <1>8, <2>4 DEF EvictTest, TypeInv, TypeOK
    <3>3. CASE Unmoved = {}
      <4>1. Total(Unmoved, Size) < Limit
        BY <3>3, TotalEmpty, SizeAssumption
      <4> QED BY <1>1, <1>2, <2>1, <3>1, <3>2, <4>1, LimitOfStep
    <3>4. CASE Unmoved # {}
      <4>1. ~Cleans(w)
        BY <2>1, <2>4, <3>4 DEF Cleans
      <4> QED BY <1>1, <1>2, <2>1, <3>1, <3>2, <4>1, LimitOfStep
    <3> QED BY <3>3, <3>4
  <2> QED BY <2>2, <2>3, <2>4
<1> QED BY <1>5, <1>6, <1>7, <1>8

\* removeContent: what is evicted was listed, and is cached no more.
LEMMA LimitOfErasure ==
    ASSUME TypeInv, LimitInv, NEW w \in Worker,
           EvictNext(w) \/ RemovePartial(w) \/ EvictSubtract(w) \/ RemoveSubtract(w)
    PROVE  LimitInv'
<1>1. CASE EvictNext(w)
  <2>1. PICK a \in DOMAIN todo[w] :
           /\ todo' = [todo EXCEPT ![w] = [b \in DOMAIN @ \ {a} |-> @[b]]]
           /\ EraseContent(w, a, "evict_subtract", "evict_test")
    BY <1>1 DEF EvictNext
  <2>2. PICK l \in {"evict_subtract", "evict_test"} : pc' = [pc EXCEPT ![w] = l]
    BY <2>1 DEF EraseContent, Goto
  <2>3. pc[w] = "evict" /\ request' = request
    BY <1>1 DEF EvictNext
  <2>4. Cached' = Cached \ {a}
    BY <2>1 DEF EraseContent, Cached, TypeInv, TypeOK
  <2>5. Unmoved' \subseteq Unmoved \ {a}
    BY <2>3, <2>4 DEF Unmoved
  <2>6. (\A v \in Worker : v # w => todo'[v] = todo[v]) /\ DOMAIN todo'[w] = DOMAIN todo[w] \ {a}
    BY <2>1 DEF TypeInv, TypeOK
  <2>7. pc'[w] = l
    BY <2>2 DEF TypeInv, TypeOK
  <2>8. Cleans(w) => Cleans(w)'
    BY <2>2, <2>3, <2>5, <2>6, <2>7 DEF Cleans
  <2> QED BY <2>2, <2>3, <2>5, <2>6, <2>8, LimitOfStep
<1>2. CASE RemovePartial(w)
  <2>1. PICK l : pc' = [pc EXCEPT ![w] = l]
    BY <1>2 DEF RemovePartial, EraseContent, Goto
  <2>2. pc[w] = "remove_partial" /\ request' = request /\ todo' = todo
    BY <1>2 DEF RemovePartial
  <2>3. Cached' \subseteq Cached
    BY <1>2, Requested DEF RemovePartial, EraseContent, Cached, TypeInv, TypeOK
  <2>4. ~Cleans(w)
    BY <2>2 DEF Cleans
  <2> QED BY <2>1, <2>2, <2>3, <2>4, UnmovedFollows, LimitOfStep
<1>3. CASE EvictSubtract(w)
  <2>1. /\ pc[w] = "evict_subtract" /\ pc' = [pc EXCEPT ![w] = "evict_test"]
        /\ request' = request /\ todo' = todo /\ cache' = cache
    BY <1>3 DEF EvictSubtract, SubtractSize, Goto
  <2>2. Cached' = Cached /\ pc'[w] = "evict_test"
    BY <2>1 DEF Cached, TypeInv, TypeOK
  <2>3. Unmoved' = Unmoved
    BY <2>1, <2>2 DEF Unmoved
  <2>4. Cleans(w) => Cleans(w)'
    BY <2>1, <2>2, <2>3 DEF Cleans
  <2> QED BY <2>1, <2>3, <2>4, LimitOfStep
<1>4. CASE RemoveSubtract(w)
  <2>1. /\ pc[w] = "remove_subtract" /\ pc' = [pc EXCEPT ![w] = "done"]
        /\ request' = request /\ todo' = todo /\ cache' = cache
    BY <1>4 DEF RemoveSubtract, SubtractSize, Goto
  <2>2. Cached' = Cached /\ ~Cleans(w)
    BY <2>1 DEF Cached, Cleans
  <2> QED BY <2>1, <2>2, UnmovedFollows, LimitOfStep
<1> QED BY <1>1, <1>2, <1>3, <1>4

\* Queries, and foldings, add nothing.
LEMMA LimitOfFolding ==
    ASSUME TypeInv, LimitInv, NEW w \in Worker,
           \/ BeginTask(w) \/ FindOriginal(w) \/ HasContent(w) \/ GetPartial(w)
           \/ TransformPartial(w) \/ FoldRequest(w)
    PROVE  LimitInv'
<1> USE DEF Goto
<1>1. request' = request /\ todo' = todo
  BY DEF BeginTask, FindOriginal, HasContent, GetPartial, TransformPartial, FoldRequest
<1>2. Cached' \subseteq Cached
  <2>1. CASE HasContent(w) /\ request[w].attr \in Cached
    BY <2>1 DEF HasContent, Cached, TypeInv, TypeOK
  <2>2. CASE GetPartial(w) /\ request[w].from \in Cached
    BY <2>2 DEF GetPartial, Cached, TypeInv, TypeOK
  <2>3. CASE cache' = cache
    BY <2>3 DEF Cached
  <2> QED BY <2>1, <2>2, <2>3
      DEF BeginTask, FindOriginal, HasContent, GetPartial, TransformPartial, FoldRequest
<1>3. PICK l : pc' = [pc EXCEPT ![w] = l]
  BY DEF BeginTask, FindOriginal, HasContent, GetPartial, TransformPartial, FoldRequest
<1>4. pc[w] # "account" /\ ~Cleans(w)
  BY DEF BeginTask, FindOriginal, HasContent, GetPartial, TransformPartial, FoldRequest, Cleans
<1> QED BY <1>1, <1>2, <1>3, <1>4, UnmovedFollows, LimitOfStep

\* The invariant is inductive, given the other two.
LEMMA LimitInductive ==
    ASSUME CleanTo < Limit
    PROVE  TypeInv /\ CountInv /\ LimitInv /\ [Next]_vars => LimitInv'
<1> SUFFICES ASSUME TypeInv, CountInv, LimitInv, [Next]_vars PROVE LimitInv'
  OBVIOUS
<1>1. CASE \E w \in Worker : BeginTask(w) \/ WorkerStep(w)
  BY <1>1, LimitOfAdditions, LimitOfCleaning, LimitOfErasure, LimitOfFolding DEF WorkerStep
<1>2. ASSUME UNCHANGED <<request, pc, todo>>, Cached' = Cached PROVE LimitInv'
  <2>1. Unmoved' = Unmoved
    BY <1>2 DEF Unmoved
  <2>2. \A w \in Worker : Cleans(w)' <=> Cleans(w)
    BY <1>2, <2>1 DEF Cleans
  <2>3. Total(Unmoved, Size)' = Total(Unmoved, Size)
    BY <2>1
  <2> QED BY <1>2, <2>2, <2>3 DEF LimitInv
<1>3. ASSUME NEW c \in Client, NEW a \in Attr, GetContent(c, a) PROVE LimitInv'
  <2>1. cache' = [cache EXCEPT ![a].refCount = cache[a].refCount - 1] /\ a \in Cached
        /\ UNCHANGED <<request, pc, todo>>
    BY <1>3 DEF GetContent
  <2>2. cache[a].refCount - 1 \in Int
    BY <2>1 DEF TypeInv, TypeOK, Cached, Entry
  <2>3. Cached' = Cached
    BY <2>1, <2>2, EntryStays
  <2> QED BY <1>2, <2>1, <2>3
<1>4. ASSUME NEW c \in Client, DropContent(c) PROVE LimitInv'
  BY <1>2, <1>4 DEF DropContent, Cached
<1>5. CASE UNCHANGED vars
  BY <1>2, <1>5 DEF vars, Cached
<1> QED BY <1>1, <1>3, <1>4, <1>5 DEF Next, Terminated

\* Whatever tasks add, query, move and evict at the same time, what was not moved
\* takes less than the limit once they are done, provided a clean-up aims below it.
THEOREM LimitHolds ==
    ASSUME CleanTo < Limit
    PROVE  Spec => []BelowLimitWhenQuiescent
<1>1. Init => TypeInv /\ CountInv /\ LimitInv
  <2>1. ASSUME Init PROVE LimitInv
    <3>1. Unmoved = {}
      BY <2>1 DEF Init, Unmoved, Cached
    <3>2. Total(Unmoved, Size) = 0
      BY <3>1, TotalEmpty
    <3> QED BY <3>2, SizeAssumption DEF LimitInv
  <2> QED BY <2>1, CountInit
<1>2. TypeInv /\ CountInv /\ LimitInv /\ [Next]_vars => (TypeInv /\ CountInv /\ LimitInv)'
  BY CountInductive, TypeInductive, LimitInductive
<1>3. LimitInv => BelowLimitWhenQuiescent
  BY DEF LimitInv, BelowLimitWhenQuiescent, Quiescent, Cleans
<1> QED BY <1>1, <1>2, <1>3, PTL DEF Spec

\* Without requests to replace an attribute the whole cache stays below the limit.
THEOREM CacheBelowLimit ==
    ASSUME CleanTo < Limit,
           \A batch \in Batch, w \in Worker : batch[w].kind # "equivalence"
    PROVE  Spec => []EverythingBelowLimit
<1>1. TypeInv /\ BelowLimitWhenQuiescent => EverythingBelowLimit
  <2> SUFFICES ASSUME TypeInv, BelowLimitWhenQuiescent, Quiescent PROVE CachedBytes < Limit
    BY DEF EverythingBelowLimit
  <2>1. Unmoved = Cached
    BY DEF Unmoved, TypeInv, TypeOK
  <2> QED BY <2>1 DEF BelowLimitWhenQuiescent, CachedBytes
<1>2. Spec => []BelowLimitWhenQuiescent
  BY LimitHolds
<1>3. Spec => []TypeInv
  BY CountInit, TypeInductive, PTL DEF Spec
<1> QED BY <1>1, <1>2, <1>3, PTL
=============================================================================
