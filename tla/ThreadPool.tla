----------------------------- MODULE ThreadPool -----------------------------
(***************************************************************************)
(* tcp_server/threadpool.c: the pool of worker threads on which the epoll  *)
(* loop runs handle().  One mutex, one condition variable, a circular task *)
(* queue, and the creation and shutdown protocols.                         *)
(*                                                                         *)
(* Threads interleave between lock operations: taking the lock is one step *)
(* and the critical section up to the release (or to pthread_cond_wait,    *)
(* which releases) is the next.  The mutex operations themselves do not    *)
(* fail, nor do the allocations of threadpool_create.  A task is one       *)
(* submission; executing it is one step (WFinish).                         *)
(***************************************************************************)
EXTENDS Integers, FiniteSets

CONSTANTS
  Workers,      \* pool->threads: one per iteration of the creation loop
  Callers,      \* threads that hold the pool pointer
  Creator,      \* the caller that runs threadpool_create
  Destroyers,   \* the callers that will call threadpool_destroy once
  Tasks,        \* submissions, each made at most once
  QueueSize,    \* pool->queue_size
  MaxSpurious,  \* bound: spurious wakeups of pthread_cond_wait in a behaviour
  None          \* no thread, or no task

\* threadpool.c:98 rejects other sizes; threads are told apart from callers.
ASSUME PoolAssumption ==
  /\ IsFiniteSet(Workers) /\ Workers # {}
  /\ QueueSize \in Nat \ {0}
  /\ Workers \cap Callers = {}
  /\ Creator \in Callers
  /\ Destroyers \subseteq Callers
  /\ None \notin Workers \cup Callers \cup Tasks
  /\ MaxSpurious \in Nat

VARIABLES
  lock,       \* owner of pool->lock, or None
  waiting,    \* workers blocked on pool->notify and not yet signalled
  queue,      \* pool->queue, a circular buffer
  head,       \* pool->head: index of the oldest pending task
  tail,       \* pool->tail: index of the next free slot
  count,      \* pool->count
  shutdown,   \* pool->shutdown: 0, immediate_shutdown or graceful_shutdown
  threads,    \* the workers entered in pool->threads (thread_count of them)
  started,    \* pool->started
  handed,     \* threadpool_create has returned the pool
  freed,      \* threadpool_free has released the pool
  wpc,        \* where each worker is in threadpool_thread
  task,       \* the local variable task of each worker while it runs it
  cpc,        \* where each caller is in create, add or destroy
  result,     \* what threadpool_add has returned for each task
  done,       \* tasks whose function has returned
  spurious    \* spurious wakeups so far (bounded by MaxSpurious)

poolVars   == <<queue, head, tail, count>>
createVars == <<threads, started, handed>>
vars == <<lock, waiting, queue, head, tail, count, shutdown, threads, started,
          handed, freed, wpc, task, cpc, result, done, spurious>>

Immediate == 1
Graceful  == 2

-----------------------------------------------------------------------------
(* Helpers: the ring arithmetic, the condition variable, the tests.        *)

\* Mutant: the index runs off the end of the array.
WrapNever(i) == i

\* head and tail step back to 0 at queue_size.
Wrap(i) == IF i = QueueSize THEN 0 ELSE i

\* The slot i places after slot h.
Slot(h, i) == IF h + i < QueueSize THEN h + i ELSE h + i - QueueSize

Full == count = QueueSize

MustSleep == count = 0 /\ shutdown = 0

\* Mutant: a graceful shutdown stops the workers at once.
MustExitEager == shutdown # 0

\* Mutant: an immediate shutdown drains the queue like a graceful one.
MustExitLate == shutdown # 0 /\ count = 0

MustExit == shutdown = Immediate \/ (shutdown = Graceful /\ count = 0)

\* Mutant: the task is queued and nobody is told.
SignalLost == UNCHANGED waiting

\* pthread_cond_signal releases one waiter, if there is one.
Signal == IF waiting = {} THEN UNCHANGED waiting
          ELSE \E w \in waiting : waiting' = waiting \ {w}

\* Mutant: destroy wakes one worker only.
BroadcastOne == Signal

\* pthread_cond_broadcast releases them all.
Broadcast == waiting' = {}

Owns(th) == lock = th

-----------------------------------------------------------------------------
Init ==
  /\ lock     = None
  /\ waiting  = {}
  /\ queue    = [i \in 0..QueueSize-1 |-> None]
  /\ head     = 0 /\ tail = 0 /\ count = 0
  /\ shutdown = 0
  /\ threads  = {}
  /\ started  = 0
  /\ handed   = FALSE
  /\ freed    = FALSE
  /\ wpc      = [w \in Workers |-> "unborn"]
  /\ task     = [w \in Workers |-> None]
  /\ cpc      = [c \in Callers |-> IF c = Creator THEN "create" ELSE "idle"]
  /\ result   = [t \in Tasks |-> "unsent"]
  /\ done     = {}
  /\ spurious = 0

-----------------------------------------------------------------------------
(* threadpool_create, by Creator                                           *)

\* pthread_create succeeds: the worker runs, the pool does not count it yet.
CreateThread(w) ==
  /\ cpc[Creator] = "create"
  /\ wpc[w] = "unborn"
  /\ wpc' = [wpc EXCEPT ![w] = "lock"]
  /\ cpc' = [cpc EXCEPT ![Creator] = "count"]
  /\ UNCHANGED <<lock, waiting, poolVars, shutdown, createVars, freed, task,
                 result, done, spurious>>

\* Mutant: the thread is joinable but not counted as started.
CountThreadOnly(w) ==
  /\ cpc[Creator] = "count"
  /\ wpc[w] # "unborn" /\ w \notin threads
  /\ threads' = threads \cup {w}
  /\ cpc' = [cpc EXCEPT ![Creator] = "create"]
  /\ UNCHANGED <<lock, waiting, poolVars, shutdown, started, handed, freed, wpc,
                 task, result, done, spurious>>

\* thread_count++, started++, without the lock.
CountThread(w) ==
  /\ cpc[Creator] = "count"
  /\ wpc[w] # "unborn" /\ w \notin threads
  /\ threads' = threads \cup {w}
  /\ started' = started + 1
  /\ cpc' = [cpc EXCEPT ![Creator] = "create"]
  /\ UNCHANGED <<lock, waiting, poolVars, shutdown, handed, freed, wpc, task,
                 result, done, spurious>>

\* All threads exist: return the pool.
CreateReturn ==
  /\ cpc[Creator] = "create"
  /\ threads = Workers
  /\ handed' = TRUE
  /\ cpc' = [cpc EXCEPT ![Creator] = "idle"]
  /\ UNCHANGED <<lock, waiting, poolVars, shutdown, threads, started, freed,
                 wpc, task, result, done, spurious>>

\* pthread_create fails: threadpool_destroy(pool, 0) and return NULL.
CreateFail ==
  /\ cpc[Creator] = "create"
  /\ threads # Workers
  /\ cpc' = [cpc EXCEPT ![Creator] = "undo"]
  /\ UNCHANGED <<lock, waiting, poolVars, shutdown, createVars, freed, wpc,
                 task, result, done, spurious>>

-----------------------------------------------------------------------------
(* threadpool_add, by a caller that holds the pool                         *)

AddLock(c) ==
  /\ handed /\ ~freed
  /\ cpc[c] = "idle"
  /\ \E t \in Tasks : result[t] = "unsent"
  /\ Owns(None)
  /\ lock' = c
  /\ cpc' = [cpc EXCEPT ![c] = "add"]
  /\ UNCHANGED <<waiting, poolVars, shutdown, createVars, freed, wpc, task,
                 result, done, spurious>>

\* threadpool_queue_full is tested before threadpool_shutdown.
AddRefused(c, t) ==
  /\ cpc[c] = "add" /\ result[t] = "unsent"
  /\ Full \/ shutdown # 0
  /\ result' = [result EXCEPT ![t] = IF Full THEN "full" ELSE "shutdown"]
  /\ lock' = None
  /\ cpc' = [cpc EXCEPT ![c] = "idle"]
  /\ UNCHANGED <<waiting, poolVars, shutdown, createVars, freed, wpc, task,
                 done, spurious>>

AddAccepted(c, t) ==
  /\ cpc[c] = "add" /\ result[t] = "unsent"
  /\ ~Full /\ shutdown = 0
  /\ queue' = [queue EXCEPT ![tail] = t]
  /\ tail'  = Wrap(tail + 1)
  /\ count' = count + 1
  /\ Signal
  /\ result' = [result EXCEPT ![t] = "ok"]
  /\ lock' = None
  /\ cpc' = [cpc EXCEPT ![c] = "idle"]
  /\ UNCHANGED <<head, shutdown, createVars, freed, wpc, task, done, spurious>>

-----------------------------------------------------------------------------
(* threadpool_thread, by a worker                                          *)

\* The lock is taken at the top of the loop, or taken back when
\* pthread_cond_wait returns.
WLock(w) ==
  /\ wpc[w] = "lock" \/ (wpc[w] = "wait" /\ w \notin waiting)
  /\ Owns(None)
  /\ lock' = w
  /\ wpc' = [wpc EXCEPT ![w] = "check"]
  /\ UNCHANGED <<waiting, poolVars, shutdown, createVars, freed, task, cpc,
                 result, done, spurious>>

WWait(w) ==
  /\ wpc[w] = "check"
  /\ MustSleep
  /\ waiting' = waiting \cup {w}
  /\ lock' = None
  /\ wpc' = [wpc EXCEPT ![w] = "wait"]
  /\ UNCHANGED <<poolVars, shutdown, createVars, freed, task, cpc, result,
                 done, spurious>>

\* pthread_cond_wait may return without a signal.
WSpurious(w) ==
  /\ w \in waiting
  /\ spurious < MaxSpurious
  /\ waiting' = waiting \ {w}
  /\ spurious' = spurious + 1
  /\ UNCHANGED <<lock, poolVars, shutdown, createVars, freed, wpc, task, cpc,
                 result, done>>

WTake(w) ==
  /\ wpc[w] = "check"
  /\ ~MustSleep /\ ~MustExit
  /\ task'  = [task EXCEPT ![w] = queue[head]]
  /\ head'  = Wrap(head + 1)
  /\ count' = count - 1
  /\ lock' = None
  /\ wpc' = [wpc EXCEPT ![w] = "run"]
  /\ UNCHANGED <<waiting, queue, tail, shutdown, createVars, freed, cpc,
                 result, done, spurious>>

\* (*(task.function))(task.argument) returns.
WFinish(w) ==
  /\ wpc[w] = "run"
  /\ done' = done \cup {task[w]}
  /\ task' = [task EXCEPT ![w] = None]
  /\ wpc' = [wpc EXCEPT ![w] = "lock"]
  /\ UNCHANGED <<lock, waiting, poolVars, shutdown, createVars, freed, cpc,
                 result, spurious>>

WExit(w) ==
  /\ wpc[w] = "check"
  /\ ~MustSleep /\ MustExit
  /\ started' = started - 1
  /\ lock' = None
  /\ wpc' = [wpc EXCEPT ![w] = "exited"]
  /\ UNCHANGED <<waiting, poolVars, shutdown, threads, handed, freed, task,
                 cpc, result, done, spurious>>

-----------------------------------------------------------------------------
(* threadpool_destroy, by a destroyer or by a creator undoing its work     *)

DestroyLock(c) ==
  /\ \/ cpc[c] = "undo"
     \/ cpc[c] = "idle" /\ c \in Destroyers /\ handed /\ ~freed
  /\ Owns(None)
  /\ lock' = c
  /\ cpc' = [cpc EXCEPT ![c] = "destroy"]
  /\ UNCHANGED <<waiting, poolVars, shutdown, createVars, freed, wpc, task,
                 result, done, spurious>>

\* The flag is the caller's choice; threadpool_create passes 0.
DestroyShut(c, mode) ==
  /\ cpc[c] = "destroy"
  /\ shutdown = 0
  /\ handed \/ mode = Immediate
  /\ shutdown' = mode
  /\ Broadcast
  /\ lock' = None
  /\ cpc' = [cpc EXCEPT ![c] = "join"]
  /\ UNCHANGED <<poolVars, createVars, freed, wpc, task, result, done,
                 spurious>>

\* Already shutting down: break leaves the loop with the lock still held.
DestroyAgain(c) ==
  /\ cpc[c] = "destroy"
  /\ shutdown # 0
  /\ cpc' = [cpc EXCEPT ![c] = "returned"]
  /\ UNCHANGED <<lock, waiting, poolVars, shutdown, createVars, freed, wpc,
                 task, result, done, spurious>>

\* The loop of pthread_join ends when every counted thread has exited.
DestroyJoin(c) ==
  /\ cpc[c] = "join"
  /\ \A w \in threads : wpc[w] = "exited"
  /\ cpc' = [cpc EXCEPT ![c] = "free"]
  /\ UNCHANGED <<lock, waiting, poolVars, shutdown, createVars, freed, wpc,
                 task, result, done, spurious>>

\* Mutant: the mutex is destroyed without being taken first.
DestroyFreeUnlocked(c) ==
  /\ cpc[c] = "free"
  /\ freed' = (freed \/ started <= 0)
  /\ cpc' = [cpc EXCEPT ![c] = "returned"]
  /\ UNCHANGED <<lock, waiting, poolVars, shutdown, createVars, wpc, task,
                 result, done, spurious>>

\* threadpool_free gives up while started > 0; otherwise it takes the lock
\* "just in case" before it destroys it.
DestroyFree(c) ==
  /\ cpc[c] = "free"
  /\ started > 0 \/ Owns(None)
  /\ freed' = (freed \/ started <= 0)
  /\ cpc' = [cpc EXCEPT ![c] = "returned"]
  /\ UNCHANGED <<lock, waiting, poolVars, shutdown, createVars, wpc, task,
                 result, done, spurious>>

-----------------------------------------------------------------------------
Create ==
  \/ \E w \in Workers : CreateThread(w) \/ CountThread(w)
  \/ CreateReturn
  \/ CreateFail

Add(c) == AddLock(c) \/ \E t \in Tasks : AddRefused(c, t) \/ AddAccepted(c, t)

Work(w) == WLock(w) \/ WWait(w) \/ WTake(w) \/ WFinish(w) \/ WExit(w)

Destroy(c) ==
  \/ DestroyLock(c)
  \/ \E mode \in {Immediate, Graceful} : DestroyShut(c, mode)
  \/ DestroyAgain(c)
  \/ DestroyJoin(c)
  \/ DestroyFree(c)

Next ==
  \/ Create
  \/ \E c \in Callers : Add(c) \/ Destroy(c)
  \/ \E w \in Workers : Work(w) \/ WSpurious(w)

Spec == Init /\ [][Next]_vars

\* A thread that can take a step is scheduled, and a call once begun goes on;
\* nobody has to call add or destroy, and no wakeup has to be spurious.
Fairness ==
  /\ WF_vars(Create)
  /\ \A w \in Workers : WF_vars(Work(w))
  /\ \A c \in Callers :
       /\ WF_vars(\E t \in Tasks : AddRefused(c, t) \/ AddAccepted(c, t))
       /\ WF_vars(cpc[c] # "idle" /\ Destroy(c))

FairSpec == Spec /\ Fairness

-----------------------------------------------------------------------------
(* Properties                                                              *)

TypeOK ==
  /\ lock \in Workers \cup Callers \cup {None}
  /\ waiting \subseteq Workers
  /\ queue \in [0..QueueSize-1 -> Tasks \cup {None}]
  /\ head \in 0..QueueSize-1 /\ tail \in 0..QueueSize-1
  /\ count \in 0..QueueSize
  /\ shutdown \in {0, Immediate, Graceful}
  /\ threads \subseteq Workers
  /\ started \in Int
  /\ handed \in BOOLEAN /\ freed \in BOOLEAN
  /\ wpc \in [Workers -> {"unborn", "lock", "check", "wait", "run", "exited"}]
  /\ task \in [Workers -> Tasks \cup {None}]
  /\ cpc \in [Callers -> {"create", "count", "undo", "idle", "add", "destroy",
                          "join", "free", "returned"}]
  /\ result \in [Tasks -> {"unsent", "ok", "full", "shutdown"}]
  /\ done \subseteq Tasks
  /\ spurious \in 0..MaxSpurious

\* Workers on their way to the queue: none of them sleeps unsignalled and none
\* is executing a task.
Awake == {w \in Workers : \/ wpc[w] \in {"lock", "check"}
                          \/ wpc[w] = "wait" /\ w \notin waiting}

\* No lost wakeup: while a worker sleeps on the condition variable, every
\* pending task has a worker of its own on the way to it, although each
\* threadpool_add signals once only and signals may be overtaken by workers
\* that come back from a task or wake spuriously.
NoIdleWorker == waiting # {} => count <= Cardinality(Awake)

\* Counted threads that have not exited.
Live == {w \in threads : wpc[w] # "exited"}

\* pool->started, maintained by the creator without the lock and by the exiting
\* workers under it, is the number of counted threads that have not exited:
\* threadpool_free's test of it means what it is meant to mean.
StartedExact == started = Cardinality(Live)

\* The pool is released only when no thread can touch it again: every worker
\* that was ever created has left, and nobody is inside a critical section.
FreedQuiet ==
  freed => /\ \A w \in Workers : wpc[w] \in {"unborn", "exited"}
           /\ lock = None

\* threadpool.h, threadpool_destroy: a graceful shutdown "processes all pending
\* tasks before shutdown"; once the pool is released every accepted task ran.
GracefulDrained ==
  freed /\ shutdown = Graceful => \A t \in Tasks : result[t] = "ok" => t \in done

Pending == [i \in 1..count |-> queue[Slot(head, i - 1)]]

Phase ==
  IF freed THEN "closed"
  ELSE IF shutdown = 0 THEN "open"
  ELSE IF shutdown = Graceful THEN "draining" ELSE "stopping"

Pool == INSTANCE TaskPool WITH
          pending  <- Pending,
          running  <- task,
          accepted <- {t \in Tasks : result[t] = "ok"},
          phase    <- Phase

\* The ring, the lock and the shutdown protocol implement the bounded FIFO of
\* TaskPool: accepted tasks start in order, at most once, each on one worker.
PoolPromise == Pool!Spec

\* Every task threadpool_add accepted is executed, unless somebody asks for an
\* immediate shutdown.
AcceptedRuns ==
  \A t \in Tasks : result[t] = "ok" ~> (t \in done \/ shutdown = Immediate)

\* threadpool.h: threadpool_destroy "stops and destroys a thread pool"; whoever
\* has entered it comes back from it, the joins included.
DestroyReturns ==
  \A c \in Callers :
    cpc[c] \in {"undo", "destroy", "join", "free"} ~> cpc[c] = "returned"

=============================================================================
