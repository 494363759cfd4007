---------------------- MODULE BackgroundConstantFolding ----------------------
(***************************************************************************)
(* BackgroundConstantFolding                                               *)
(* (dialect/const/utils/constant_folding_in_background.cpp): the threads,  *)
(* the lock, the condition variable and the lifetime of background         *)
(* constant folding for one MLIRContext.                                   *)
(*                                                                         *)
(* The thread that compiles constructs the object, its passes push folding *)
(* requests, and its destructor stops the listener, removes the cache and  *)
(* waits for the tasks.  The listener is a pool thread that pops requests  *)
(* and submits one pool task per request, never more than                  *)
(* MaxConcurrentTasks at a time.  What a task does with the cache is the   *)
(* subject of ConstantFoldingCache; here its body is one stretch, from     *)
(* "running" to the destructor of TaskCompletionNotifier.                  *)
(***************************************************************************)
EXTENDS Naturals, Sequences, FiniteSets

CONSTANTS Request,             \* requests passes may enqueue, each once
          MaxConcurrentTasks,  \* _maxConcurrentTasks
          ThreadCount,         \* sizes the context's thread pool may have
          TerminationToken     \* the request that stops the listener

ASSUME RequestAssumption == IsFiniteSet(Request) /\ TerminationToken \notin Request
ASSUME LimitAssumption == MaxConcurrentTasks \in Nat
ASSUME PoolAssumption == ThreadCount \subseteq Nat

VARIABLES
    multithreading, \* ctx->isMultithreadingEnabled()
    threadCount,    \* ctx->getThreadPool().getThreadCount()
    isEnabled,      \* _isEnabled
    managed,        \* the context has a cache in ConstantFoldingCacheManager
    requestQueue,   \* the cache's _requestQueue
    sent,           \* requests a pass has pushed
    main,           \* where the compiling thread is
    listener,       \* where the listener thread is
    current,        \* the request the listener holds
    mutex,          \* owner of _mutex
    activeTasks,    \* _activeTasks
    task            \* where the pool task of each request is

vars == <<multithreading, threadCount, isEnabled, managed, requestQueue, sent,
          main, listener, current, mutex, activeTasks, task>>

poolVars == <<multithreading, threadCount>>

MainState == {"construct", "compile", "join", "remove", "lock", "check",
              "to_wait", "waiting", "done"}
ListenerState == {"none", "submitted", "get", "lock", "check", "submit",
                  "to_wait", "waiting", "exited"}
TaskState == {"idle", "submitted", "running", "notify", "done"}

\* Tasks the counter _activeTasks stands for.
Live == {r \in Request : task[r] \in {"submitted", "running"}}

\* Pool threads in use: the listener keeps one for the whole compilation.
BusyThreads ==
    Cardinality({r \in Request : task[r] \in {"running", "notify"}})
    + (IF listener \in {"none", "submitted", "exited"} THEN 0 ELSE 1)

Init ==
    /\ multithreading \in BOOLEAN
    /\ threadCount \in ThreadCount
    /\ isEnabled = TRUE
    /\ managed = FALSE
    /\ requestQueue = <<>>
    /\ sent = {}
    /\ main = "construct"
    /\ listener = "none"
    /\ current = TerminationToken
    /\ mutex = "none"
    /\ activeTasks = 0
    /\ task = [r \in Request |-> "idle"]

-----------------------------------------------------------------------------
(* The compiling thread.                                                   *)

\* Variant: the pool's size is not looked at.
CanFoldAnyPool == multithreading

\* The constructor's two early returns.
CanFoldInBackground == multithreading /\ threadCount > 1

\* The constructor registers the cache and submits the listener to the pool.
Construct ==
    /\ main = "construct"
    /\ main' = "compile"
    /\ isEnabled' = CanFoldInBackground
    /\ managed' = CanFoldInBackground
    /\ listener' = IF CanFoldInBackground THEN "submitted" ELSE listener
    /\ UNCHANGED <<poolVars, requestQueue, sent, current, mutex, activeTasks, task>>

\* ContentSetup::get -> enqueueCache: a request is pushed only when the
\* manager has a cache for the context.
EnqueueRequest(r) ==
    /\ main = "compile"
    /\ managed
    /\ r \notin sent
    /\ requestQueue' = Append(requestQueue, r)
    /\ sent' = sent \cup {r}
    /\ UNCHANGED <<poolVars, isEnabled, managed, main, listener, current, mutex,
                   activeTasks, task>>

\* Variant: the termination token overtakes the requests.
StopFoldingListenerFirst ==
    /\ main = "compile"
    /\ main' = IF isEnabled THEN "join" ELSE "done"
    /\ requestQueue' = IF isEnabled THEN <<TerminationToken>> \o requestQueue
                                    ELSE requestQueue
    /\ UNCHANGED <<poolVars, isEnabled, managed, sent, listener, current, mutex,
                   activeTasks, task>>

\* The destructor returns at once when nothing was started; else
\* stopFoldingListener pushes the termination token.
StopFoldingListener ==
    /\ main = "compile"
    /\ main' = IF isEnabled THEN "join" ELSE "done"
    /\ requestQueue' = IF isEnabled THEN Append(requestQueue, TerminationToken)
                                    ELSE requestQueue
    /\ UNCHANGED <<poolVars, isEnabled, managed, sent, listener, current, mutex,
                   activeTasks, task>>

\* Variant: a listener that is blocked on _cv counts as stopped.
JoinBlockedListener ==
    /\ main = "join"
    /\ listener \in {"waiting", "exited"}
    /\ main' = "remove"
    /\ UNCHANGED <<poolVars, isEnabled, managed, requestQueue, sent, listener,
                   current, mutex, activeTasks, task>>

\* _listenerThread.wait()
JoinListener ==
    /\ main = "join"
    /\ listener = "exited"
    /\ main' = "remove"
    /\ UNCHANGED <<poolVars, isEnabled, managed, requestQueue, sent, listener,
                   current, mutex, activeTasks, task>>

\* cacheManager.removeCache(_ctx) destroys the cache object.
RemoveCache ==
    /\ main = "remove"
    /\ managed' = FALSE
    /\ main' = "lock"
    /\ UNCHANGED <<poolVars, isEnabled, requestQueue, sent, listener, current,
                   mutex, activeTasks, task>>

MainLock ==
    /\ main = "lock"
    /\ mutex = "none"
    /\ mutex' = "main"
    /\ main' = "check"
    /\ UNCHANGED <<poolVars, isEnabled, managed, requestQueue, sent, listener,
                   current, activeTasks, task>>

\* Variant: one task too many may be left.
TasksNearlyDrained == activeTasks <= 1

\* The predicate of the destructor's _cv.wait.
TasksDrained == activeTasks = 0

MainCheck ==
    /\ main = "check"
    /\ main' = IF TasksDrained THEN "done" ELSE "to_wait"
    /\ mutex' = IF TasksDrained THEN "none" ELSE mutex
    /\ UNCHANGED <<poolVars, isEnabled, managed, requestQueue, sent, listener,
                   current, activeTasks, task>>

\* _cv.wait blocks and releases the lock in one step.
MainWait ==
    /\ main = "to_wait"
    /\ main' = "waiting"
    /\ mutex' = "none"
    /\ UNCHANGED <<poolVars, isEnabled, managed, requestQueue, sent, listener,
                   current, activeTasks, task>>

-----------------------------------------------------------------------------
(* The listener thread (initFoldingListener, processFoldingRequest).       *)

\* A pool thread takes the listener's closure.
StartListener ==
    /\ listener = "submitted"
    /\ BusyThreads < threadCount
    /\ listener' = "get"
    /\ UNCHANGED <<poolVars, isEnabled, managed, requestQueue, sent, main,
                   current, mutex, activeTasks, task>>

\* getRequest blocks while the queue is empty; the token ends the loop.
GetRequest ==
    /\ listener = "get"
    /\ requestQueue # <<>>
    /\ current' = Head(requestQueue)
    /\ requestQueue' = Tail(requestQueue)
    /\ listener' = IF Head(requestQueue) = TerminationToken THEN "exited" ELSE "lock"
    /\ UNCHANGED <<poolVars, isEnabled, managed, sent, main, mutex, activeTasks, task>>

ListenerLock ==
    /\ listener = "lock"
    /\ mutex = "none"
    /\ mutex' = "listener"
    /\ listener' = "check"
    /\ UNCHANGED <<poolVars, isEnabled, managed, requestQueue, sent, main,
                   current, activeTasks, task>>

\* Variant: the limit is off by one.
TaskSlotFreeOrOneMore == activeTasks <= MaxConcurrentTasks

\* The predicate of the listener's _cv.wait.
TaskSlotFree == activeTasks < MaxConcurrentTasks

ListenerCheck ==
    /\ listener = "check"
    /\ listener' = IF TaskSlotFree THEN "submit" ELSE "to_wait"
    /\ UNCHANGED <<poolVars, isEnabled, managed, requestQueue, sent, main,
                   current, mutex, activeTasks, task>>

ListenerWait ==
    /\ listener = "to_wait"
    /\ listener' = "waiting"
    /\ mutex' = "none"
    /\ UNCHANGED <<poolVars, isEnabled, managed, requestQueue, sent, main,
                   current, activeTasks, task>>

\* Variant: the task is submitted without being counted.
SubmitUncounted ==
    /\ listener = "submit"
    /\ task' = [task EXCEPT ![current] = "submitted"]
    /\ mutex' = "none"
    /\ listener' = "get"
    /\ UNCHANGED <<poolVars, isEnabled, managed, requestQueue, sent, main, current,
                   activeTasks>>

\* _activeTasks++ and threadPool.async, then the lock goes out of scope.
SubmitTask ==
    /\ listener = "submit"
    /\ activeTasks' = activeTasks + 1
    /\ task' = [task EXCEPT ![current] = "submitted"]
    /\ mutex' = "none"
    /\ listener' = "get"
    /\ UNCHANGED <<poolVars, isEnabled, managed, requestQueue, sent, main, current>>

-----------------------------------------------------------------------------
(* The pool tasks.                                                         *)

StartTask(r) ==
    /\ task[r] = "submitted"
    /\ BusyThreads < threadCount
    /\ task' = [task EXCEPT ![r] = "running"]
    /\ UNCHANGED <<poolVars, isEnabled, managed, requestQueue, sent, main,
                   listener, current, mutex, activeTasks>>

\* Variant: the notifier is copied, and its destructor runs twice.
DecrementTwice(r) ==
    /\ task[r] = "running"
    /\ activeTasks' = activeTasks - 2
    /\ task' = [task EXCEPT ![r] = "notify"]
    /\ UNCHANGED <<poolVars, isEnabled, managed, requestQueue, sent, main,
                   listener, current, mutex>>

\* ~TaskCompletionNotifier: the atomic decrement, made without _mutex ...
DecrementActiveTasks(r) ==
    /\ task[r] = "running"
    /\ activeTasks' = activeTasks - 1
    /\ task' = [task EXCEPT ![r] = "notify"]
    /\ UNCHANGED <<poolVars, isEnabled, managed, requestQueue, sent, main,
                   listener, current, mutex>>

\* ... then notify_one, which wakes one of the threads blocked on _cv.  The
\* destructor does not wait for it: with main = "done" this is a call on a
\* destroyed object, undefined, of which the model keeps that nobody is woken.
NotifyOne(r) ==
    /\ task[r] = "notify"
    /\ task' = [task EXCEPT ![r] = "done"]
    /\ \/ /\ listener = "waiting"
          /\ listener' = "lock"
          /\ UNCHANGED main
       \/ /\ main = "waiting"
          /\ main' = "lock"
          /\ UNCHANGED listener
       \/ /\ listener # "waiting" /\ main # "waiting"
          /\ UNCHANGED <<listener, main>>
    /\ UNCHANGED <<poolVars, isEnabled, managed, requestQueue, sent, current,
                   mutex, activeTasks>>

\* A condition variable may wake a waiter without a notification.
SpuriousWakeup ==
    /\ \/ /\ listener = "waiting"
          /\ listener' = "lock"
          /\ UNCHANGED main
       \/ /\ main = "waiting"
          /\ main' = "lock"
          /\ UNCHANGED listener
    /\ UNCHANGED <<poolVars, isEnabled, managed, requestQueue, sent, current,
                   mutex, activeTasks, task>>

-----------------------------------------------------------------------------
MainStep ==
    \/ Construct
    \/ StopFoldingListener
    \/ JoinListener
    \/ RemoveCache
    \/ MainLock
    \/ MainCheck
    \/ MainWait

ListenerStep ==
    \/ StartListener
    \/ GetRequest
    \/ ListenerLock
    \/ ListenerCheck
    \/ ListenerWait
    \/ SubmitTask

TaskStep(r) == StartTask(r) \/ DecrementActiveTasks(r) \/ NotifyOne(r)

\* The object is gone, and no task is left that would still notify.
Terminated ==
    /\ main = "done"
    /\ \A r \in Request : task[r] \in {"idle", "done"}
    /\ UNCHANGED vars

Next ==
    \/ MainStep
    \/ \E r \in Request : EnqueueRequest(r)
    \/ ListenerStep
    \/ \E r \in Request : TaskStep(r)
    \/ SpuriousWakeup
    \/ Terminated

Spec == Init /\ [][Next]_vars

\* The operating system runs every runnable thread; a pass need not enqueue
\* anything and a spurious wakeup need not happen.
Fairness ==
    /\ WF_vars(MainStep)
    /\ WF_vars(ListenerStep)
    /\ \A r \in Request : WF_vars(TaskStep(r))

FairSpec == Spec /\ Fairness

-----------------------------------------------------------------------------
TypeOK ==
    /\ multithreading \in BOOLEAN
    /\ threadCount \in ThreadCount
    /\ isEnabled \in BOOLEAN
    /\ managed \in BOOLEAN
    /\ requestQueue \in Seq(Request \cup {TerminationToken})
    /\ sent \in SUBSET Request
    /\ main \in MainState
    /\ listener \in ListenerState
    /\ current \in Request \cup {TerminationToken}
    /\ mutex \in {"none", "listener", "main"}
    /\ activeTasks \in Nat
    /\ task \in [Request -> TaskState]

\* The counter processFoldingRequest and ~TaskCompletionNotifier keep without a
\* common lock is, in every state, the number of tasks that are in the pool and
\* have not finished their body.
ActiveTasksExact == activeTasks = Cardinality(Live)

\* processFoldingRequest never has more than _maxConcurrentTasks tasks in the
\* pool, though the predicate it waits for is stale when the task is submitted.
TaskLimit == Cardinality(Live) <= MaxConcurrentTasks

\* The pool's tasks are counted without a race that shows, and limited.
TasksCounted == ActiveTasksExact /\ TaskLimit

\* The listener and the destructor never block on _cv together, so a single
\* notify_one cannot wake the wrong one of two waiters.
OneWaiter ==
    ~(listener \in {"to_wait", "waiting"} /\ main \in {"to_wait", "waiting"})

\* Once stopFoldingListener has seen the listener end, every request a pass
\* enqueued has been handed to the pool: the termination token overtakes none.
NoRequestLost ==
    main \in {"remove", "lock", "check", "to_wait", "waiting", "done"}
        => \A r \in sent : task[r] # "idle"

\* When ~BackgroundConstantFolding returns, the listener has ended or was never
\* started, and every accepted request's task has folded it and decremented
\* _activeTasks.  The task need not have ended: its notify_one can still come,
\* on the destroyed _cv, and nothing else can (see NotifiesLiveObject).
OnlyNotifyLeft ==
    main = "done" =>
        /\ listener \in {"none", "exited"}
        /\ \A r \in Request :
               task[r] \in IF r \in sent THEN {"notify", "done"} ELSE {"idle"}

\* Tearing the service down loses no request on its way to the pool, and waits
\* for every use of the object by the listener and the tasks, except for the
\* notification with which a task ends.
TeardownUpToNotify == NoRequestLost /\ OnlyNotifyLeft

\* No task notifies a condition variable that is already destroyed.  The code
\* does not guarantee it: _activeTasks is 0, and the destructor's predicate
\* true, before the last task calls notify_one.
NotifiesLiveObject == \A r \in Request : task[r] = "notify" => main # "done"

\* A thread is blocked on _cv, what it waits for holds, and no notification is
\* on its way: the decrement and notify_one fell between its evaluation of the
\* predicate and its blocking.
WakeupMissed ==
    /\ \A r \in Request : task[r] # "notify"
    /\ \/ listener = "waiting" /\ TaskSlotFree
       \/ main = "waiting" /\ TasksDrained

\* The destructor returns, unless a wakeup is missed: no other order of the
\* threads' steps, and no size of the pool the constructor accepts, blocks it.
ReturnsUnlessWakeupMissed == main = "join" ~> (main = "done" \/ WakeupMissed)

\* Every accepted request is folded, unless a wakeup is missed.
FoldedUnlessWakeupMissed ==
    \A r \in Request : r \in sent ~> (task[r] = "done" \/ WakeupMissed)

\* The destructor always returns, as the unit tests that join the compiling
\* threads take for granted.
DestructorReturns == main = "join" ~> main = "done"

\* The cache a pool task holds a reference to exists while the task runs.
TasksUseLiveCache == \A r \in Request : task[r] = "running" => managed

-----------------------------------------------------------------------------
(* The inductive invariant behind the safety properties.                   *)

\* The listener has popped a request it has not submitted yet.
Holding == listener \in {"lock", "check", "submit", "to_wait", "waiting"}

Queued == {requestQueue[i] : i \in 1 .. Len(requestQueue)}

\* Who owns _mutex follows from where the two threads are.
LockInv ==
    /\ mutex = "listener" <=> listener \in {"check", "submit", "to_wait"}
    /\ mutex = "main" <=> main \in {"check", "to_wait"}

\* How far the compiling thread is bounds how far the listener is.
PhaseInv ==
    /\ main = "construct" => listener = "none" /\ sent = {} /\ ~managed
    /\ main = "compile" => managed = isEnabled
    /\ main \notin {"construct", "compile", "done"} => isEnabled
    /\ main # "construct" => (isEnabled <=> listener # "none")
    /\ main \in {"remove", "lock", "check", "to_wait", "waiting"} => listener = "exited"
    /\ main = "done" /\ isEnabled => listener = "exited"
    /\ ~isEnabled => sent = {}
    /\ main \in {"construct", "compile"} => listener # "exited"

\* Requests wait in the queue once, and the token is behind all of them.
QueueInv ==
    /\ \A i, j \in 1 .. Len(requestQueue) : requestQueue[i] = requestQueue[j] => i = j
    /\ Queued \subseteq sent \cup {TerminationToken}
    /\ main \in {"construct", "compile"} => TerminationToken \notin Queued
    /\ main = "join" /\ listener # "exited" =>
           Len(requestQueue) > 0 /\ requestQueue[Len(requestQueue)] = TerminationToken
    /\ listener = "exited" => requestQueue = <<>>

\* A request without a task is in the queue or in the listener's hands, and one
\* that is there has no task.
CustodyInv ==
    /\ \A r \in Request \ sent : task[r] = "idle"
    /\ \A r \in sent : task[r] = "idle" <=> (r \in Queued \/ (Holding /\ current = r))
    /\ Holding => current \in sent /\ current \notin Queued

CountInv ==
    /\ ActiveTasksExact
    /\ TaskLimit
    /\ listener = "submit" => activeTasks < MaxConcurrentTasks
    /\ main = "done" => Live = {}

IndInv == TypeOK /\ LockInv /\ PhaseInv /\ QueueInv /\ CustodyInv /\ CountInv

-----------------------------------------------------------------------------
(* The service this implements.                                            *)

StatusOf(r) ==
    CASE r \notin sent -> "unsent"
      [] r \in sent /\ task[r] = "idle" -> "pending"
      [] r \in sent /\ task[r] \in {"submitted", "running"} -> "active"
      [] OTHER -> "folded"

statusBar == [r \in Request |-> StatusOf(r)]

serviceBar == CASE main \in {"construct", "compile"} -> "open"
                [] main = "done" -> "gone"
                [] OTHER -> "closed"

Service == INSTANCE FoldingService WITH status <- statusBar, service <- serviceBar

\* The threads, the lock and the queue together do nothing but what
\* FoldingService allows.
ImplementsService == Service!Spec
=============================================================================
