------------------ MODULE BackgroundConstantFolding_proofs ------------------
(***************************************************************************)
(* Safety of BackgroundConstantFolding and its refinement of               *)
(* FoldingService, for any set of requests, any task limit and any sizes   *)
(* of the thread pool.                                                     *)
(***************************************************************************)
EXTENDS BackgroundConstantFolding, FiniteSetTheorems, TLAPS

-----------------------------------------------------------------------------
(* The counter.                                                            *)

\* The tasks _activeTasks counts are finitely many, and none is left exactly
\* when their number is zero.
LEMMA LiveFinite ==
    ASSUME TypeOK
    PROVE  /\ IsFiniteSet(Live)
           /\ Cardinality(Live) \in Nat
           /\ Cardinality(Live) = 0 <=> Live = {}
<1>1. Live \subseteq Request
  BY DEF Live
<1>2. IsFiniteSet(Live)
  BY <1>1, FS_Subset, RequestAssumption
<1> QED BY <1>2, FS_CardinalityType, FS_EmptySet

\* A step that leaves the tasks alone leaves the counted tasks alone.
LEMMA LiveUnchanged ==
    ASSUME task' = task
    PROVE  Live' = Live
BY DEF Live

-----------------------------------------------------------------------------
(* The queue.                                                              *)

\* What getRequest pops was queued, and what is left is the rest of the queue.
LEMMA PopFacts ==
    ASSUME TypeOK, requestQueue # <<>>
    PROVE  /\ Len(requestQueue) \in Nat \ {0}
           /\ Head(requestQueue) = requestQueue[1]
           /\ Head(requestQueue) \in Queued
           /\ Head(requestQueue) \in Request \cup {TerminationToken}
           /\ Tail(requestQueue) \in Seq(Request \cup {TerminationToken})
           /\ Len(Tail(requestQueue)) = Len(requestQueue) - 1
           /\ \A i \in 1 .. Len(requestQueue) - 1 :
                  Tail(requestQueue)[i] = requestQueue[i + 1]
BY DEF TypeOK, Queued

\* getRequest keeps the order of the queue, so the token is popped last.
LEMMA GetRequestStep ==
    ASSUME IndInv, GetRequest
    PROVE  TypeOK' /\ LockInv' /\ PhaseInv' /\ QueueInv' /\ CustodyInv'
<1> USE RequestAssumption, PoolAssumption DEF IndInv, GetRequest, poolVars
<1> DEFINE h == Head(requestQueue)
           n == Len(requestQueue)
<1>1. /\ n \in Nat \ {0}
      /\ h = requestQueue[1]
      /\ h \in Queued
      /\ h \in Request \cup {TerminationToken}
      /\ requestQueue' \in Seq(Request \cup {TerminationToken})
      /\ Len(requestQueue') = n - 1
      /\ \A i \in 1 .. n - 1 : requestQueue'[i] = requestQueue[i + 1]
  BY PopFacts
<1>2. h = TerminationToken => main = "join"
  BY <1>1 DEF TypeOK, MainState, PhaseInv, QueueInv
<1>3. TypeOK'
  BY <1>1 DEF TypeOK, ListenerState
<1>4. LockInv' /\ PhaseInv'
  <2>1. listener' \in {"exited", "lock"} /\ (listener' = "exited" => main = "join")
    BY <1>2
  <2>2. UNCHANGED <<mutex, main, isEnabled, managed, sent>> /\ listener = "get"
    OBVIOUS
  <2> QED BY <2>1, <2>2 DEF LockInv, PhaseInv
<1>5. Queued = Queued' \cup {h}
  <2>1. ASSUME NEW q \in Queued, q # h PROVE q \in Queued'
    <3>1. PICK i \in 1 .. n : requestQueue[i] = q
      BY <2>1 DEF Queued
    <3>2. i - 1 \in 1 .. n - 1 /\ requestQueue'[i - 1] = q
      BY <1>1, <2>1, <3>1
    <3> QED BY <1>1, <3>2 DEF Queued
  <2>2. ASSUME NEW q \in Queued' PROVE q \in Queued
    <3>1. PICK i \in 1 .. n - 1 : requestQueue'[i] = q
      BY <1>1, <2>2 DEF Queued
    <3>2. i + 1 \in 1 .. n /\ requestQueue[i + 1] = q
      BY <1>1, <3>1
    <3> QED BY <3>2 DEF Queued
  <2> QED BY <1>1, <2>1, <2>2
<1>6. h \notin Queued'
  BY <1>1 DEF Queued, QueueInv
<1>7. QueueInv'
  <2>1. \A i, j \in 1 .. Len(requestQueue') : requestQueue'[i] = requestQueue'[j] => i = j
    <3>1. SUFFICES ASSUME NEW i \in 1 .. n - 1, NEW j \in 1 .. n - 1,
                          requestQueue'[i] = requestQueue'[j]
                   PROVE  i = j
      BY <1>1
    <3>2. /\ i + 1 \in 1 .. n /\ j + 1 \in 1 .. n
          /\ requestQueue[i + 1] = requestQueue[j + 1]
      BY <1>1, <3>1
    <3> QED BY <3>2, <1>1 DEF QueueInv
  <2>2. Queued' \subseteq sent' \cup {TerminationToken}
    BY <1>5 DEF QueueInv
  <2>3. main' \in {"construct", "compile"} => TerminationToken \notin Queued'
    BY <1>5 DEF QueueInv
  <2>4. CASE h = TerminationToken
    <3>1. requestQueue[n] = TerminationToken
      BY <1>2, <2>4 DEF QueueInv
    <3>2. n = 1
      BY <1>1, <2>4, <3>1 DEF QueueInv
    <3>3. requestQueue' = <<>>
      BY <1>1, <3>2
    <3> QED BY <2>1, <2>2, <2>3, <2>4, <3>3 DEF QueueInv
  <2>5. CASE h # TerminationToken
    <3>1. ASSUME main' = "join"
          PROVE  Len(requestQueue') > 0 /\ requestQueue'[Len(requestQueue')] = TerminationToken
      <4>1. requestQueue[n] = TerminationToken
        BY <3>1 DEF QueueInv
      <4>2. n > 1
        BY <1>1, <2>5, <4>1
      <4> QED BY <1>1, <4>1, <4>2
    <3> QED BY <2>1, <2>2, <2>3, <2>5, <3>1 DEF QueueInv
  <2> QED BY <2>4, <2>5
<1>8. CustodyInv'
  BY <1>1, <1>5, <1>6 DEF TypeOK, CustodyInv, QueueInv, Holding
<1> QED BY <1>3, <1>4, <1>7, <1>8

-----------------------------------------------------------------------------
(* Steps of the compiling thread.                                          *)

\* Everything but the counter survives a step of the compiling thread.
LEMMA MainStepStructure ==
    ASSUME IndInv, MainStep
    PROVE  TypeOK' /\ LockInv' /\ PhaseInv' /\ QueueInv' /\ CustodyInv'
<1> USE RequestAssumption, PoolAssumption DEF IndInv, poolVars
<1>1. CASE Construct
  <2> USE <1>1 DEF Construct, CanFoldInBackground
  <2>1. TypeOK'
    BY DEF TypeOK, MainState, ListenerState
  <2>2. LockInv' /\ PhaseInv'
    BY DEF TypeOK, LockInv, PhaseInv
  <2>3. QueueInv'
    BY DEF TypeOK, PhaseInv, QueueInv, Queued
  <2>4. CustodyInv'
    BY DEF TypeOK, PhaseInv, CustodyInv, Queued, Holding
  <2> QED BY <2>1, <2>2, <2>3, <2>4
<1>2. CASE StopFoldingListener
  <2> USE <1>2 DEF StopFoldingListener
  <2>1. TypeOK'
    BY DEF TypeOK, MainState
  <2>2. LockInv' /\ PhaseInv'
    BY DEF TypeOK, LockInv, PhaseInv
  <2>3. QueueInv'
    BY DEF TypeOK, PhaseInv, QueueInv, Queued
  <2>4. CustodyInv'
    BY DEF TypeOK, PhaseInv, CustodyInv, Queued, Holding
  <2> QED BY <2>1, <2>2, <2>3, <2>4
<1>3. ASSUME JoinListener \/ RemoveCache \/ MainLock \/ MainCheck \/ MainWait
      PROVE  TypeOK' /\ LockInv' /\ PhaseInv' /\ QueueInv' /\ CustodyInv'
  <2> USE <1>3 DEF JoinListener, RemoveCache, MainLock, MainCheck, MainWait, TasksDrained
  <2>1. TypeOK'
    BY DEF TypeOK, MainState
  <2>2. LockInv' /\ PhaseInv'
    BY DEF TypeOK, LockInv, PhaseInv
  <2>3. QueueInv' /\ CustodyInv'
    BY DEF TypeOK, PhaseInv, QueueInv, CustodyInv, Queued, Holding
  <2> QED BY <2>1, <2>2, <2>3
<1> QED BY <1>1, <1>2, <1>3 DEF MainStep

\* The destructor's predicate is what lets it return.
LEMMA MainStepCount ==
    ASSUME IndInv, MainStep
    PROVE  CountInv'
<1>1. Live' = Live /\ activeTasks' = activeTasks
  BY LiveUnchanged DEF MainStep, Construct, StopFoldingListener, JoinListener, RemoveCache,
     MainLock, MainCheck, MainWait
<1>2. listener' = "submit" => listener = "submit"
  BY DEF MainStep, Construct, StopFoldingListener, JoinListener, RemoveCache,
     MainLock, MainCheck, MainWait, IndInv, TypeOK
<1>3. main' = "done" => Live = {}
  <2>1. CASE StopFoldingListener
    BY <2>1 DEF StopFoldingListener, IndInv, PhaseInv, CustodyInv, Live
  <2>2. CASE MainCheck
    BY <2>2, LiveFinite DEF MainCheck, TasksDrained, IndInv, CountInv, ActiveTasksExact
  <2>3. CASE Construct \/ JoinListener \/ RemoveCache \/ MainLock \/ MainWait
    BY <2>3 DEF Construct, JoinListener, RemoveCache, MainLock, MainWait
  <2> QED BY <2>1, <2>2, <2>3 DEF MainStep
<1> QED BY <1>1, <1>2, <1>3 DEF IndInv, CountInv, ActiveTasksExact, TaskLimit

-----------------------------------------------------------------------------
(* Steps of the listener.                                                  *)

\* Everything but the counter survives a step of the listener.
LEMMA ListenerStepStructure ==
    ASSUME IndInv, ListenerStep
    PROVE  TypeOK' /\ LockInv' /\ PhaseInv' /\ QueueInv' /\ CustodyInv'
<1> USE RequestAssumption, PoolAssumption DEF IndInv, poolVars
<1>1. CASE GetRequest
  BY <1>1, GetRequestStep
<1>2. ASSUME StartListener \/ ListenerLock \/ ListenerCheck \/ ListenerWait
      PROVE  TypeOK' /\ LockInv' /\ PhaseInv' /\ QueueInv' /\ CustodyInv'
  <2> USE <1>2 DEF StartListener, ListenerLock, ListenerCheck, ListenerWait, TaskSlotFree
  <2>1. TypeOK'
    BY DEF TypeOK, ListenerState
  <2>2. LockInv' /\ PhaseInv'
    BY DEF TypeOK, LockInv, PhaseInv
  <2>3. QueueInv' /\ CustodyInv'
    BY DEF TypeOK, PhaseInv, QueueInv, CustodyInv, Queued, Holding
  <2> QED BY <2>1, <2>2, <2>3
<1>3. CASE SubmitTask
  <2> USE <1>3 DEF SubmitTask
  <2>1. current \in Request /\ current \in sent /\ current \notin Queued
    BY DEF TypeOK, CustodyInv, Holding
  <2>2. TypeOK'
    BY <2>1 DEF TypeOK, ListenerState, TaskState
  <2>3. LockInv' /\ PhaseInv'
    BY DEF TypeOK, LockInv, PhaseInv
  <2>4. QueueInv'
    BY DEF TypeOK, QueueInv, Queued
  <2>5. CustodyInv'
    BY <2>1 DEF TypeOK, CustodyInv, Queued, Holding
  <2> QED BY <2>2, <2>3, <2>4, <2>5
<1> QED BY <1>1, <1>2, <1>3 DEF ListenerStep

\* The counter goes up with the task it counts, and only below the limit.
LEMMA ListenerStepCount ==
    ASSUME IndInv, ListenerStep
    PROVE  CountInv'
<1>1. main' = main
  BY DEF ListenerStep, StartListener, GetRequest, ListenerLock, ListenerCheck, ListenerWait,
     SubmitTask
<1>2. ASSUME StartListener \/ GetRequest \/ ListenerLock \/ ListenerCheck \/ ListenerWait
      PROVE  CountInv'
  <2>1. Live' = Live /\ activeTasks' = activeTasks
    BY <1>2, LiveUnchanged
       DEF StartListener, GetRequest, ListenerLock, ListenerCheck, ListenerWait
  <2>2. listener' = "submit" => activeTasks < MaxConcurrentTasks
    BY <1>2 DEF StartListener, GetRequest, ListenerLock, ListenerCheck, ListenerWait,
       TaskSlotFree
  <2> QED BY <1>1, <2>1, <2>2 DEF IndInv, CountInv, ActiveTasksExact, TaskLimit
<1>3. CASE SubmitTask
  <2> USE <1>3 DEF SubmitTask
  <2>1. current \in Request /\ task[current] = "idle"
    BY DEF IndInv, TypeOK, CustodyInv, Holding
  <2>2. Live' = Live \cup {current} /\ current \notin Live
    BY <2>1 DEF IndInv, TypeOK, Live
  <2>3. Cardinality(Live') = Cardinality(Live) + 1
    BY <2>2, LiveFinite, FS_AddElement DEF IndInv
  <2>4. main # "done"
    BY DEF IndInv, PhaseInv
  <2>5. /\ activeTasks = Cardinality(Live) /\ activeTasks < MaxConcurrentTasks
        /\ activeTasks \in Nat
    BY DEF IndInv, TypeOK, CountInv, ActiveTasksExact
  <2>6. activeTasks' = Cardinality(Live') /\ Cardinality(Live') <= MaxConcurrentTasks
    BY <2>3, <2>5, LimitAssumption
  <2> QED BY <1>1, <2>4, <2>6 DEF CountInv, ActiveTasksExact, TaskLimit
<1> QED BY <1>2, <1>3 DEF ListenerStep

-----------------------------------------------------------------------------
(* Steps of the pool tasks and of the environment.                         *)

\* A task's step preserves the invariant; its decrement matches the task that
\* leaves.
LEMMA TaskStepInv ==
    ASSUME IndInv, NEW r \in Request, TaskStep(r)
    PROVE  IndInv'
<1> USE RequestAssumption, PoolAssumption DEF IndInv, poolVars
<1>1. CASE StartTask(r)
  <2> USE <1>1 DEF StartTask
  <2>1. TypeOK' /\ LockInv' /\ PhaseInv'
    BY DEF TypeOK, LockInv, PhaseInv, TaskState
  <2>2. QueueInv' /\ CustodyInv'
    BY DEF TypeOK, QueueInv, CustodyInv, Queued, Holding
  <2>3. Live' = Live
    BY DEF TypeOK, Live
  <2>4. CountInv'
    BY <2>3 DEF CountInv, ActiveTasksExact, TaskLimit
  <2> QED BY <2>1, <2>2, <2>4
<1>2. CASE DecrementActiveTasks(r)
  <2> USE <1>2 DEF DecrementActiveTasks
  <2>1. Live' = Live \ {r} /\ r \in Live
    BY DEF TypeOK, Live
  <2>2. Cardinality(Live') = Cardinality(Live) - 1
    BY <2>1, LiveFinite, FS_RemoveElement
  <2>3. Cardinality(Live) \in Nat \ {0}
    BY <2>1, LiveFinite
  <2>4. activeTasks' = Cardinality(Live') /\ activeTasks' \in Nat /\ activeTasks' < activeTasks
    BY <2>2, <2>3 DEF CountInv, ActiveTasksExact
  <2>5. TypeOK' /\ LockInv' /\ PhaseInv'
    BY <2>4 DEF TypeOK, LockInv, PhaseInv, TaskState
  <2>6. QueueInv' /\ CustodyInv'
    BY DEF TypeOK, QueueInv, CustodyInv, Queued, Holding
  <2>7. CountInv'
    BY <2>1, <2>2, <2>3, <2>4, LimitAssumption
       DEF TypeOK, CountInv, ActiveTasksExact, TaskLimit
  <2> QED BY <2>5, <2>6, <2>7
<1>3. CASE NotifyOne(r)
  <2> USE <1>3 DEF NotifyOne
  <2>1. TypeOK' /\ LockInv' /\ PhaseInv'
    BY DEF TypeOK, LockInv, PhaseInv, TaskState, MainState, ListenerState
  <2>2. QueueInv' /\ CustodyInv'
    BY DEF TypeOK, PhaseInv, QueueInv, CustodyInv, Queued, Holding
  <2>3. Live' = Live
    BY DEF TypeOK, Live
  <2>4. CountInv'
    BY <2>3 DEF CountInv, ActiveTasksExact, TaskLimit
  <2> QED BY <2>1, <2>2, <2>4
<1> QED BY <1>1, <1>2, <1>3 DEF TaskStep

\* A pass that enqueues a request, and a spurious wakeup, preserve the invariant.
LEMMA EnvironmentStepInv ==
    ASSUME IndInv, (\E r \in Request : EnqueueRequest(r)) \/ SpuriousWakeup
    PROVE  IndInv'
<1> USE RequestAssumption, PoolAssumption DEF IndInv, poolVars
<1>1. ASSUME NEW r \in Request, EnqueueRequest(r)
      PROVE  IndInv'
  <2> USE <1>1 DEF EnqueueRequest
  <2>1. TypeOK' /\ LockInv' /\ PhaseInv'
    <3>1. TypeOK'
      BY DEF TypeOK
    <3>2. isEnabled
      BY Zenon DEF PhaseInv
    <3> QED BY <3>1, <3>2 DEF TypeOK, LockInv, PhaseInv
  <2>2. QueueInv'
    BY DEF TypeOK, PhaseInv, QueueInv, Queued
  <2>3. CustodyInv'
    <3>1. Queued' = Queued \cup {r}
      BY DEF TypeOK, Queued
    <3>2. r \notin Queued
      BY DEF QueueInv
    <3> QED BY <3>1, <3>2 DEF TypeOK, CustodyInv, Holding
  <2>4. CountInv'
    BY LiveUnchanged DEF CountInv, ActiveTasksExact, TaskLimit
  <2> QED BY <2>1, <2>2, <2>3, <2>4
<1>2. ASSUME SpuriousWakeup
      PROVE  IndInv'
  <2> USE <1>2 DEF SpuriousWakeup
  <2>1. TypeOK' /\ LockInv' /\ PhaseInv'
    BY DEF TypeOK, LockInv, PhaseInv, MainState, ListenerState
  <2>2. QueueInv' /\ CustodyInv'
    BY DEF TypeOK, PhaseInv, QueueInv, CustodyInv, Queued, Holding
  <2>3. CountInv'
    BY LiveUnchanged DEF CountInv, ActiveTasksExact, TaskLimit
  <2> QED BY <2>1, <2>2, <2>3
<1> QED BY <1>1, <1>2

-----------------------------------------------------------------------------
\* The invariant holds when the object is constructed.
LEMMA InitInv == Init => IndInv
<1> SUFFICES ASSUME Init PROVE IndInv
  OBVIOUS
<1> USE RequestAssumption, PoolAssumption, LimitAssumption DEF Init
<1>1. TypeOK
  <2>1. requestQueue \in Seq(Request \cup {TerminationToken})
    OBVIOUS
  <2>2. task \in [Request -> TaskState]
    BY DEF TaskState
  <2>3. isEnabled \in BOOLEAN /\ managed \in BOOLEAN /\ multithreading \in BOOLEAN
    BY Zenon
  <2>4. activeTasks \in Nat /\ main \in MainState /\ listener \in ListenerState
    BY DEF MainState, ListenerState
  <2> QED BY <2>1, <2>2, <2>3, <2>4 DEF TypeOK
<1>2. LockInv /\ PhaseInv
  <2>1. LockInv
    BY DEF LockInv
  <2>2. main = "construct" /\ listener = "none" /\ sent = {} /\ ~managed /\ isEnabled
    OBVIOUS
  <2>3. PhaseInv
    BY <2>2 DEF PhaseInv
  <2> QED BY <2>1, <2>3
<1>3. QueueInv /\ CustodyInv
  <2>1. Queued = {} /\ ~Holding
    BY DEF Queued, Holding
  <2> QED BY <2>1 DEF QueueInv, CustodyInv
<1>4. Live = {}
  BY DEF Live
<1>5. CountInv
  BY <1>4, FS_EmptySet DEF CountInv, ActiveTasksExact, TaskLimit
<1> QED BY <1>1, <1>2, <1>3, <1>5 DEF IndInv

\* Every step, of any thread, preserves the invariant.
LEMMA NextInv == IndInv /\ [Next]_vars => IndInv'
<1> SUFFICES ASSUME IndInv, [Next]_vars PROVE IndInv'
  OBVIOUS
<1>1. CASE MainStep
  BY <1>1, MainStepStructure, MainStepCount DEF IndInv
<1>2. CASE ListenerStep
  BY <1>2, ListenerStepStructure, ListenerStepCount DEF IndInv
<1>3. CASE \E r \in Request : TaskStep(r)
  BY <1>3, TaskStepInv
<1>4. CASE (\E r \in Request : EnqueueRequest(r)) \/ SpuriousWakeup
  BY <1>4, EnvironmentStepInv
<1>5. CASE UNCHANGED vars
  BY <1>5 DEF vars, IndInv, TypeOK, LockInv, PhaseInv, QueueInv, CustodyInv, CountInv,
     ActiveTasksExact, TaskLimit, Live, Queued, Holding
<1> QED BY <1>1, <1>2, <1>3, <1>4, <1>5 DEF Next, Terminated

\* The inductive invariant holds in every reachable state.
THEOREM Invariance == Spec => []IndInv
BY InitInv, NextInv, PTL DEF Spec

\* Type correctness.
THEOREM TypeCorrectness == Spec => []TypeOK
<1>1. IndInv => TypeOK
  BY DEF IndInv
<1> QED BY <1>1, Invariance, PTL

\* processFoldingRequest's counter is exact and its limit is respected, however
\* decrements interleave with the listener's check.
THEOREM TaskCounting == Spec => []TasksCounted
<1>1. IndInv => TasksCounted
  BY DEF IndInv, CountInv, TasksCounted
<1> QED BY <1>1, Invariance, PTL

\* The listener and the destructor are never blocked on _cv together.
THEOREM SingleWaiter == Spec => []OneWaiter
<1>1. IndInv => OneWaiter
  BY DEF IndInv, PhaseInv, OneWaiter
<1> QED BY <1>1, Invariance, PTL

\* Joining the listener means every enqueued request reached the pool.
THEOREM RequestsReachPool == Spec => []NoRequestLost
<1>1. IndInv => NoRequestLost
  <2> SUFFICES ASSUME IndInv, NEW r \in sent,
                      main \in {"remove", "lock", "check", "to_wait", "waiting", "done"}
               PROVE  task[r] # "idle"
    BY DEF NoRequestLost
  <2>1. listener = "exited"
    BY DEF IndInv, PhaseInv
  <2>2. Queued = {} /\ ~Holding
    BY <2>1 DEF IndInv, QueueInv, Queued, Holding
  <2> QED BY <2>2 DEF IndInv, CustodyInv
<1> QED BY <1>1, Invariance, PTL

\* The listener and the body of every task are over once the destructor has
\* returned; a task's notify_one need not be.
THEOREM DestructorDrains == Spec => []OnlyNotifyLeft
<1>1. IndInv /\ NoRequestLost /\ main = "done" => listener \in {"none", "exited"}
  BY DEF IndInv, PhaseInv
<1>2. ASSUME IndInv, NoRequestLost, main = "done", NEW r \in Request
      PROVE  task[r] \in IF r \in sent THEN {"notify", "done"} ELSE {"idle"}
  BY <1>2 DEF IndInv, TypeOK, TaskState, CustodyInv, CountInv, Live, NoRequestLost
<1>3. IndInv /\ NoRequestLost => OnlyNotifyLeft
  BY <1>1, <1>2 DEF OnlyNotifyLeft
<1> QED BY <1>3, Invariance, RequestsReachPool, PTL

\* The destructor loses no request and outlives every use of the object but a
\* task's last notify_one, which it does not wait for.
THEOREM TeardownWaits == Spec => []TeardownUpToNotify
<1>1. NoRequestLost /\ OnlyNotifyLeft <=> TeardownUpToNotify
  BY DEF TeardownUpToNotify
<1> QED BY <1>1, RequestsReachPool, DestructorDrains, PTL

-----------------------------------------------------------------------------
(* Refinement of FoldingService.                                           *)

\* The abstract foldings under way are the tasks the counter counts.
LEMMA ActiveIsLive == IndInv => Service!Active = Live
<1> SUFFICES ASSUME IndInv PROVE Service!Active = Live
  OBVIOUS
<1>1. \A r \in Request : StatusOf(r) = "active" <=> task[r] \in {"submitted", "running"}
  BY DEF IndInv, TypeOK, CustodyInv, StatusOf
<1> QED BY <1>1 DEF Service!Active, Live, statusBar

\* The instance counts the way this module does.
LEMMA SameCardinality == \A S : Service!Cardinality(S) = Cardinality(S)
BY Zenon DEF Service!Cardinality, Cardinality

\* A step that keeps the requests' whereabouts keeps their status.
LEMMA StatusUnchanged ==
    ASSUME task' = task, sent' = sent
    PROVE  statusBar' = statusBar
BY DEF statusBar, StatusOf

\* A step that moves one request changes its status and no other.
LEMMA StatusMoves ==
    ASSUME NEW r \in Request,
           \A q \in Request \ {r} : StatusOf(q)' = StatusOf(q)
    PROVE  statusBar' = [statusBar EXCEPT ![r] = StatusOf(r)']
BY DEF statusBar

\* Steps of the compiling thread open, close or end the service.
LEMMA MainRefines ==
    ASSUME IndInv, NoRequestLost, MainStep
    PROVE  [Service!Next]_(Service!absVars)
<1>1. statusBar' = statusBar
  BY StatusUnchanged DEF MainStep, Construct, StopFoldingListener, JoinListener, RemoveCache,
     MainLock, MainCheck, MainWait
<1>2. CASE StopFoldingListener /\ isEnabled
  <2>1. serviceBar = "open" /\ serviceBar' = "closed"
    BY <1>2 DEF StopFoldingListener, serviceBar
  <2> QED BY <1>1, <2>1 DEF Service!Next, Service!Close
<1>3. CASE StopFoldingListener /\ ~isEnabled
  <2>1. serviceBar = "open" /\ serviceBar' = "gone"
    BY <1>3 DEF StopFoldingListener, serviceBar
  <2>2. \A r \in Request : statusBar[r] \in {"unsent", "folded"}
    BY <1>3 DEF IndInv, PhaseInv, statusBar, StatusOf
  <2> QED BY <1>1, <2>1, <2>2 DEF Service!Next, Service!Vanish
<1>4. CASE MainCheck /\ TasksDrained
  <2>1. serviceBar = "closed" /\ serviceBar' = "gone"
    BY <1>4 DEF MainCheck, serviceBar
  <2>2. Live = {}
    BY <1>4, LiveFinite DEF TasksDrained, IndInv, CountInv, ActiveTasksExact
  <2>3. \A r \in Request : statusBar[r] \in {"unsent", "folded"}
    BY <1>4, <2>2 DEF MainCheck, NoRequestLost, Live, statusBar, StatusOf
  <2> QED BY <1>1, <2>1, <2>3 DEF Service!Next, Service!Vanish
<1>5. CASE Construct \/ JoinListener \/ RemoveCache \/ MainLock \/ MainWait
           \/ (MainCheck /\ ~TasksDrained)
  <2>1. serviceBar' = serviceBar
    BY <1>5 DEF Construct, JoinListener, RemoveCache, MainLock, MainCheck, MainWait, serviceBar
  <2> QED BY <1>1, <2>1 DEF Service!absVars
<1> QED BY <1>2, <1>3, <1>4, <1>5 DEF MainStep

\* Submitting a task begins a folding; the other steps of the listener are
\* invisible.
LEMMA ListenerRefines ==
    ASSUME IndInv, ListenerStep
    PROVE  [Service!Next]_(Service!absVars)
<1>1. serviceBar' = serviceBar
  BY DEF ListenerStep, StartListener, GetRequest, ListenerLock, ListenerCheck, ListenerWait,
     SubmitTask, serviceBar
<1>2. ASSUME StartListener \/ GetRequest \/ ListenerLock \/ ListenerCheck \/ ListenerWait
      PROVE  UNCHANGED Service!absVars
  <2>1. statusBar' = statusBar
    BY <1>2, StatusUnchanged
       DEF StartListener, GetRequest, ListenerLock, ListenerCheck, ListenerWait
  <2> QED BY <1>1, <2>1 DEF Service!absVars
<1>3. CASE SubmitTask
  <2> USE <1>3 DEF SubmitTask
  <2>1. current \in Request /\ current \in sent /\ task[current] = "idle"
    BY DEF IndInv, TypeOK, CustodyInv, Holding
  <2>2. StatusOf(current) = "pending" /\ StatusOf(current)' = "active"
    BY <2>1 DEF IndInv, TypeOK, StatusOf
  <2>3. \A q \in Request \ {current} : StatusOf(q)' = StatusOf(q)
    BY <2>1 DEF IndInv, TypeOK, StatusOf
  <2>4. statusBar' = [statusBar EXCEPT ![current] = "active"]
    BY <2>1, <2>2, <2>3, StatusMoves
  <2>5. statusBar[current] = "pending"
    BY <2>1, <2>2 DEF statusBar
  <2>6. serviceBar # "gone"
    BY DEF IndInv, TypeOK, MainState, PhaseInv, serviceBar
  <2>7. Service!Cardinality(Service!Active) < MaxConcurrentTasks
    BY ActiveIsLive, SameCardinality DEF IndInv, CountInv, ActiveTasksExact
  <2>8. Service!Begin(current)
    BY <1>1, <2>4, <2>5, <2>6, <2>7 DEF Service!Begin
  <2> QED BY <2>1, <2>8 DEF Service!Next
<1> QED BY <1>2, <1>3 DEF ListenerStep

\* The decrement ends a folding; starting a task and notifying are invisible.
LEMMA TaskRefines ==
    ASSUME IndInv, NEW r \in Request, TaskStep(r)
    PROVE  [Service!Next]_(Service!absVars)
<1>1. serviceBar' = serviceBar
  BY DEF TaskStep, StartTask, DecrementActiveTasks, NotifyOne, serviceBar
<1>2. \A q \in Request \ {r} : StatusOf(q)' = StatusOf(q)
  BY DEF TaskStep, StartTask, DecrementActiveTasks, NotifyOne, IndInv, TypeOK, StatusOf
<1>3. statusBar' = [statusBar EXCEPT ![r] = StatusOf(r)']
  BY <1>2, StatusMoves
<1>4. r \in sent
  BY DEF TaskStep, StartTask, DecrementActiveTasks, NotifyOne, IndInv, CustodyInv
<1>5. CASE StartTask(r) \/ NotifyOne(r)
  <2>1. StatusOf(r)' = StatusOf(r)
    <3>1. CASE StartTask(r)
      BY <1>4, <3>1 DEF StartTask, IndInv, TypeOK, StatusOf
    <3>2. CASE NotifyOne(r)
      BY <1>4, <3>2 DEF NotifyOne, IndInv, TypeOK, StatusOf
    <3> QED BY <1>5, <3>1, <3>2
  <2>2. statusBar' = statusBar
    BY <1>3, <2>1 DEF statusBar
  <2> QED BY <1>1, <2>2 DEF Service!absVars
<1>6. CASE DecrementActiveTasks(r)
  <2>1. StatusOf(r) = "active" /\ StatusOf(r)' = "folded"
    BY <1>4, <1>6 DEF DecrementActiveTasks, IndInv, TypeOK, StatusOf
  <2>2. serviceBar # "gone"
    BY <1>6 DEF DecrementActiveTasks, IndInv, CountInv, Live, serviceBar
  <2>3. statusBar[r] = "active"
    BY <2>1 DEF statusBar
  <2>4. Service!Finish(r)
    BY <1>1, <1>3, <2>1, <2>2, <2>3 DEF Service!Finish
  <2> QED BY <2>4 DEF Service!Next
<1> QED BY <1>5, <1>6 DEF TaskStep

\* Every step of the threads is a step of the service, or invisible to it.
LEMMA NextRefines ==
    IndInv /\ NoRequestLost /\ [Next]_vars => [Service!Next]_(Service!absVars)
<1> SUFFICES ASSUME IndInv, NoRequestLost, [Next]_vars
             PROVE  [Service!Next]_(Service!absVars)
  OBVIOUS
<1>1. CASE MainStep
  BY <1>1, MainRefines
<1>2. CASE ListenerStep
  BY <1>2, ListenerRefines
<1>3. CASE \E r \in Request : TaskStep(r)
  BY <1>3, TaskRefines
<1>4. ASSUME NEW r \in Request, EnqueueRequest(r)
      PROVE  Service!Submit(r)
  <2> USE <1>4 DEF EnqueueRequest
  <2>1. serviceBar = "open" /\ serviceBar' = "open"
    BY DEF serviceBar
  <2>2. StatusOf(r) = "unsent" /\ StatusOf(r)' = "pending"
    BY DEF IndInv, CustodyInv, StatusOf
  <2>3. \A q \in Request \ {r} : StatusOf(q)' = StatusOf(q)
    BY DEF StatusOf
  <2>4. statusBar' = [statusBar EXCEPT ![r] = "pending"]
    BY <2>2, <2>3, StatusMoves
  <2>5. statusBar[r] = "unsent"
    BY <2>2 DEF statusBar
  <2> QED BY <2>1, <2>4, <2>5 DEF Service!Submit
<1>5. ASSUME SpuriousWakeup \/ UNCHANGED vars
      PROVE  UNCHANGED Service!absVars
  <2>1. statusBar' = statusBar
    BY <1>5, StatusUnchanged DEF SpuriousWakeup, vars
  <2>2. serviceBar' = serviceBar
    BY <1>5 DEF SpuriousWakeup, vars, serviceBar
  <2> QED BY <2>1, <2>2 DEF Service!absVars
<1> QED BY <1>1, <1>2, <1>3, <1>4, <1>5 DEF Next, Terminated, Service!Next

\* Background folding implements the folding service: nothing is folded twice,
\* beyond the limit, after the service closed to it, or left behind.
THEOREM Refinement == Spec => ImplementsService
<1>1. Init => Service!Init
  BY DEF Init, Service!Init, statusBar, serviceBar, StatusOf
<1> QED BY <1>1, NextRefines, Invariance, RequestsReachPool, PTL
        DEF Spec, ImplementsService, Service!Spec
=============================================================================
