-------------------------- MODULE ThreadPoolProofs --------------------------
(***************************************************************************)
(* Proofs about ThreadPool, for any number of workers, callers and tasks   *)
(* and any queue size: the inductive invariant IInv, the safety properties *)
(* that follow from it, and the implementation of TaskPool.                *)
(***************************************************************************)
EXTENDS ThreadPool, Sequences, SequenceTheorems, FiniteSetTheorems, TLAPS

\* A worker between its lock and its release owns the mutex, and so does a
\* caller in a critical section of add or destroy.
LockInv ==
  /\ \A w \in Workers : wpc[w] = "check" <=> lock = w
  /\ \A c \in Callers : cpc[c] \in {"add", "destroy"} => lock = c

\* Sleepers sleep in pthread_cond_wait, and none is left after a broadcast.
WaitInv ==
  /\ \A w \in waiting : wpc[w] = "wait"
  /\ shutdown # 0 => waiting = {}

\* tail is count slots after head, and the slots between hold tasks.
RingInv ==
  /\ tail = Slot(head, count)
  /\ \A i \in 0..count-1 : queue[Slot(head, i)] \in Tasks

\* Creation is over before anybody else uses the pool or shuts it down, and
\* threads are counted one at a time.
CreateInv ==
  /\ \A c \in Callers : cpc[c] \in {"create", "count", "undo"} =>
                          c = Creator /\ ~handed /\ shutdown = 0
  /\ ~handed => \A c \in Callers \ {Creator} : cpc[c] = "idle"
  /\ ~handed => cpc[Creator] # "add"
  /\ handed => threads = Workers
  /\ shutdown = Graceful => handed
  /\ \A w \in threads : wpc[w] # "unborn"
  /\ cpc[Creator] # "count" =>
       \A w \in Workers : wpc[w] # "unborn" => w \in threads
  /\ \A v, w \in Workers \ threads :
       wpc[v] # "unborn" /\ wpc[w] # "unborn" => v = w

\* Workers leave only during a shutdown, a graceful one only when the queue is
\* empty; a worker holds a task exactly while it runs it.
ExitInv ==
  \A w \in Workers :
    /\ wpc[w] = "exited" => shutdown # 0
    /\ wpc[w] = "exited" /\ shutdown = Graceful => count = 0
    /\ wpc[w] = "run" <=> task[w] # None

\* The pool is released after the joins.
JoinInv ==
  /\ \A c \in Callers : cpc[c] \in {"join", "free"} => shutdown # 0
  /\ \A c \in Callers : cpc[c] = "free" => \A w \in threads : wpc[w] = "exited"
  /\ freed => /\ shutdown # 0
              /\ \A w \in threads : wpc[w] = "exited"
              /\ lock = None

PendingTasks == {queue[Slot(head, i)] : i \in 0..count-1}

\* An accepted task is queued, running or done.
TaskInv ==
  \A t \in Tasks : result[t] = "ok" =>
     \/ t \in done
     \/ \E w \in Workers : task[w] = t
     \/ t \in PendingTasks

ControlInv == TypeOK /\ LockInv /\ WaitInv /\ CreateInv /\ ExitInv /\ JoinInv

IInv == /\ ControlInv
        /\ RingInv
        /\ TaskInv
        /\ StartedExact
        /\ NoIdleWorker

-----------------------------------------------------------------------------
(* Control and the lock.                                                   *)

\* Control: who is where, who owns the lock, who sleeps.  Every action can
\* disturb it, so there is one step per action.
LEMMA ControlStep ==
  ASSUME ControlInv, RingInv, [Next]_vars
  PROVE  ControlInv'
<1> USE PoolAssumption DEF ControlInv, TypeOK, LockInv, WaitInv, CreateInv, ExitInv, JoinInv,
                           poolVars, createVars, Immediate, Graceful
<1>1. ASSUME NEW w \in Workers, CreateThread(w)
      PROVE  ControlInv'
  BY <1>1 DEF CreateThread
<1>2. ASSUME NEW w \in Workers, CountThread(w)
      PROVE  ControlInv'
  BY <1>2 DEF CountThread
<1>3. CASE CreateReturn
  BY <1>3 DEF CreateReturn
<1>4. CASE CreateFail
  BY <1>4 DEF CreateFail
<1>5. ASSUME NEW c \in Callers, AddLock(c)
      PROVE  ControlInv'
  BY <1>5 DEF AddLock, Owns
<1>6. ASSUME NEW c \in Callers, NEW t \in Tasks, AddRefused(c, t)
      PROVE  ControlInv'
  BY <1>6 DEF AddRefused, Full
<1>7. ASSUME NEW c \in Callers, NEW t \in Tasks, AddAccepted(c, t)
      PROVE  ControlInv'
  BY <1>7 DEF AddAccepted, Full, Signal, Wrap
<1>8. ASSUME NEW w \in Workers, WLock(w)
      PROVE  ControlInv'
  BY <1>8 DEF WLock, Owns
<1>9. ASSUME NEW w \in Workers, WWait(w)
      PROVE  ControlInv'
  BY <1>9 DEF WWait, MustSleep
<1>10. ASSUME NEW w \in Workers, WSpurious(w)
      PROVE  ControlInv'
  BY <1>10 DEF WSpurious
<1>11. ASSUME NEW w \in Workers, WTake(w)
      PROVE  ControlInv'
  <2>1. count > 0
    BY <1>11 DEF WTake, MustSleep, MustExit
  <2>2. queue[head] \in Tasks
    BY <2>1 DEF RingInv, Slot
  <2>3. TypeOK' /\ LockInv' /\ WaitInv'
    BY <1>11, <2>1, <2>2 DEF WTake, Wrap
  <2>4. CreateInv' /\ JoinInv'
    BY <1>11 DEF WTake
  <2>5. ExitInv'
    BY <1>11, <2>1, <2>2 DEF WTake, MustExit
  <2> QED BY <2>3, <2>4, <2>5
<1>12. ASSUME NEW w \in Workers, WFinish(w)
      PROVE  ControlInv'
  BY <1>12 DEF WFinish
<1>13. ASSUME NEW w \in Workers, WExit(w)
      PROVE  ControlInv'
  BY <1>13 DEF WExit, MustSleep, MustExit
<1>14. ASSUME NEW c \in Callers, DestroyLock(c)
      PROVE  ControlInv'
  BY <1>14 DEF DestroyLock, Owns
<1>15. ASSUME NEW c \in Callers, NEW mode \in {Immediate, Graceful}, DestroyShut(c, mode)
      PROVE  ControlInv'
  BY <1>15 DEF DestroyShut, Broadcast
<1>16. ASSUME NEW c \in Callers, DestroyAgain(c)
      PROVE  ControlInv'
  BY <1>16 DEF DestroyAgain
<1>17. ASSUME NEW c \in Callers, DestroyJoin(c)
      PROVE  ControlInv'
  BY <1>17 DEF DestroyJoin
<1>18. ASSUME NEW c \in Callers, DestroyFree(c)
      PROVE  ControlInv'
  BY <1>18 DEF DestroyFree, Owns
<1>19. CASE UNCHANGED vars
  BY <1>19 DEF vars
<1> HIDE DEF ControlInv, TypeOK, LockInv, WaitInv, CreateInv, ExitInv, JoinInv, poolVars, createVars
<1>20. CASE Create
  BY <1>20, <1>1, <1>2, <1>3, <1>4 DEF Create
<1>21. ASSUME NEW c \in Callers, Add(c) \/ Destroy(c)
       PROVE  ControlInv'
  BY <1>21, <1>5, <1>6, <1>7, <1>14, <1>15, <1>16, <1>17, <1>18 DEF Add, Destroy
<1>22. ASSUME NEW w \in Workers, Work(w) \/ WSpurious(w)
       PROVE  ControlInv'
  BY <1>22, <1>8, <1>9, <1>10, <1>11, <1>12, <1>13 DEF Work
<1> QED BY <1>19, <1>20, <1>21, <1>22 DEF Next

-----------------------------------------------------------------------------
(* The queue.                                                              *)

\* Only an accepted submission and a worker's pop touch the ring.
LEMMA QueueFrame ==
  ASSUME [Next]_vars
  PROVE  \/ \E c \in Callers, t \in Tasks : AddAccepted(c, t)
         \/ \E w \in Workers : WTake(w)
         \/ UNCHANGED poolVars
  BY DEF Next, Create, Add, Work, Destroy, vars, CreateThread, CountThread,
         CreateReturn, CreateFail, AddLock, AddRefused, WLock, WWait,
         WSpurious, WFinish, WExit, DestroyLock, DestroyShut, DestroyAgain,
         DestroyJoin, DestroyFree, poolVars

\* Different places are different slots.
LEMMA SlotInjective ==
  ASSUME NEW h \in 0..QueueSize-1, NEW i \in 0..QueueSize-1, NEW j \in 0..QueueSize-1,
         i # j
  PROVE  Slot(h, i) # Slot(h, j)
  BY PoolAssumption DEF Slot

\* Stepping the head and stepping the place are the same thing.
LEMMA SlotFacts ==
  ASSUME NEW h \in 0..QueueSize-1
  PROVE  /\ Slot(h, 0) = h
         /\ \A i \in 0..QueueSize-1 : Slot(h, i) \in 0..QueueSize-1
         /\ \A i \in 0..QueueSize-1 : Wrap(Slot(h, i) + 1) = Slot(h, i + 1)
         /\ \A i \in 0..QueueSize-1 : Slot(Wrap(h + 1), i) = Slot(h, i + 1)
  BY PoolAssumption DEF Slot, Wrap

\* An accepted submission extends the pending tasks at the far end and leaves
\* the slots of the others alone.
LEMMA AcceptRing ==
  ASSUME TypeOK, RingInv, NEW c \in Callers, NEW t \in Tasks, AddAccepted(c, t)
  PROVE  /\ count' = count + 1 /\ count \in 0..QueueSize-1 /\ head' = head
         /\ \A i \in 0..count-1 : queue'[Slot(head, i)] = queue[Slot(head, i)]
         /\ queue'[Slot(head, count)] = t
         /\ tail' = Slot(head, count + 1)
<1> USE PoolAssumption DEF TypeOK, RingInv
<1>1. /\ count' = count + 1 /\ count \in 0..QueueSize-1 /\ head' = head
      /\ queue' = [queue EXCEPT ![tail] = t] /\ tail' = Wrap(tail + 1)
  BY DEF AddAccepted, Full
<1>2. tail = Slot(head, count) /\ tail \in 0..QueueSize-1
  OBVIOUS
<1>3. tail' = Slot(head, count + 1)
  BY <1>1, <1>2, SlotFacts
<1>4. \A i \in 0..count-1 : i \in 0..QueueSize-1 /\ i # count
  BY <1>1
<1>5. ASSUME NEW i \in 0..count-1
      PROVE  Slot(head, i) # tail /\ Slot(head, i) \in 0..QueueSize-1
  <2>1. i \in 0..QueueSize-1 /\ count \in 0..QueueSize-1 /\ i # count
    BY <1>1, <1>4
  <2>2. Slot(head, i) # Slot(head, count)
    BY <2>1, SlotInjective
  <2> QED BY <1>2, <2>1, <2>2, SlotFacts
<1> QED BY <1>1, <1>2, <1>3, <1>5

\* A pop takes the oldest pending task; the others move one place up.
LEMMA TakeRing ==
  ASSUME TypeOK, RingInv, NEW w \in Workers, WTake(w)
  PROVE  /\ count > 0 /\ count' = count - 1 /\ queue' = queue /\ tail' = tail
         /\ task' = [task EXCEPT ![w] = queue[Slot(head, 0)]]
         /\ \A i \in 0..count-1 : Slot(head', i) = Slot(head, i + 1)
<1> USE PoolAssumption DEF TypeOK, RingInv
<1>1. /\ count > 0 /\ count' = count - 1 /\ head' = Wrap(head + 1)
      /\ queue' = queue /\ tail' = tail
      /\ task' = [task EXCEPT ![w] = queue[head]]
  BY DEF WTake, MustSleep, MustExit, Immediate, Graceful
<1>2. Slot(head, 0) = head
  BY SlotFacts
<1>3. \A i \in 0..count-1 : Slot(head', i) = Slot(head, i + 1)
  BY <1>1, SlotFacts
<1> QED BY <1>1, <1>2, <1>3

\* RingInv is preserved: tail stays count slots after head, over slots with tasks.
LEMMA RingStep ==
  ASSUME TypeOK, RingInv, [Next]_vars
  PROVE  RingInv'
<1> USE DEF RingInv, TypeOK
<1>1. ASSUME NEW c \in Callers, NEW t \in Tasks, AddAccepted(c, t)
      PROVE  RingInv'
  BY <1>1, AcceptRing
<1>2. ASSUME NEW w \in Workers, WTake(w)
      PROVE  RingInv'
  <2>1. tail' = Slot(head', count')
    BY <1>2, TakeRing
  <2>2. ASSUME NEW i \in 0..count'-1
        PROVE  queue'[Slot(head', i)] \in Tasks
    <3>1. i \in 0..count-1 /\ i + 1 \in 0..count-1
      BY <1>2, TakeRing
    <3> QED BY <1>2, <3>1, TakeRing
  <2> QED BY <2>1, <2>2
<1>3. CASE UNCHANGED poolVars
  BY <1>3 DEF poolVars
<1> QED BY <1>1, <1>2, <1>3, QueueFrame

\* What each of the two does to the set of pending tasks.
LEMMA AcceptPending ==
  ASSUME TypeOK, RingInv, NEW c \in Callers, NEW t \in Tasks, AddAccepted(c, t)
  PROVE  PendingTasks' = PendingTasks \cup {t}
  BY AcceptRing DEF PendingTasks

\* A pop removes no task but its own from the set of pending tasks.
LEMMA TakePending ==
  ASSUME TypeOK, RingInv, NEW w \in Workers, WTake(w)
  PROVE  PendingTasks \subseteq PendingTasks' \cup {task'[w]}
<1> SUFFICES ASSUME NEW i \in 0..count-1
             PROVE  queue[Slot(head, i)] \in PendingTasks' \cup {task'[w]}
  BY DEF PendingTasks
<1>1. CASE i = 0
  BY <1>1, TakeRing DEF TypeOK
<1>2. CASE i # 0
  <2>1. i - 1 \in 0..count'-1 /\ i - 1 \in 0..count-1 /\ (i - 1) + 1 = i
    BY <1>2, TakeRing DEF TypeOK
  <2>2. queue'[Slot(head', i - 1)] = queue[Slot(head, i)]
    BY <2>1, TakeRing
  <2> QED BY <2>1, <2>2 DEF PendingTasks
<1> QED BY <1>1, <1>2

\* An accepted task stays queued, running or done.
LEMMA TaskStep ==
  ASSUME ControlInv, RingInv, TaskInv, [Next]_vars
  PROVE  TaskInv'
<1> USE DEF ControlInv, TypeOK, TaskInv
<1>1. ASSUME NEW c \in Callers, NEW t \in Tasks, AddAccepted(c, t)
      PROVE  TaskInv'
  BY <1>1, AcceptPending DEF AddAccepted
<1>2. ASSUME NEW w \in Workers, WTake(w)
      PROVE  TaskInv'
  <2>1. task[w] = None
    BY <1>2 DEF WTake, ExitInv
  <2>2. task' = [task EXCEPT ![w] = task'[w]]
    BY <1>2 DEF WTake
  <2>3. UNCHANGED <<result, done>>
    BY <1>2 DEF WTake
  <2> QED BY <1>2, <2>1, <2>2, <2>3, TakePending, PoolAssumption
<1>3. CASE UNCHANGED poolVars
  <2>1. PendingTasks' = PendingTasks
    BY <1>3 DEF poolVars, PendingTasks, Slot
  <2>2. ASSUME NEW w \in Workers, WFinish(w)
        PROVE  TaskInv'
    BY <2>1, <2>2 DEF WFinish
  <2>3. ASSUME NEW c \in Callers, NEW t \in Tasks, AddRefused(c, t)
        PROVE  TaskInv'
    BY <2>1, <2>3 DEF AddRefused
  <2>4. CASE UNCHANGED <<task, result, done>>
    BY <2>1, <2>4
  <2> QED BY <2>2, <2>3, <2>4, <1>1, <1>2
          DEF Next, Create, Add, Work, Destroy, vars, CreateThread, CountThread,
              CreateReturn, CreateFail, AddLock, WLock, WWait, WSpurious, WExit,
              DestroyLock, DestroyShut, DestroyAgain, DestroyJoin, DestroyFree
<1> QED BY <1>1, <1>2, <1>3, QueueFrame

-----------------------------------------------------------------------------
(* The counters.                                                           *)

\* started follows the counted threads: the creator adds, an exit subtracts.
LEMMA StartedStep ==
  ASSUME ControlInv, StartedExact, [Next]_vars
  PROVE  StartedExact'
<1> USE PoolAssumption DEF ControlInv, TypeOK, StartedExact, CreateInv, poolVars, createVars
<1>0. IsFiniteSet(Live)
  BY FS_Subset DEF Live
<1>1. ASSUME NEW w \in Workers, CountThread(w)
      PROVE  StartedExact'
  <2>1. CASE wpc[w] # "exited"
    <3>1. Live' = Live \cup {w} /\ w \notin Live
      BY <1>1, <2>1 DEF CountThread, Live
    <3> QED BY <1>0, <1>1, <3>1, FS_AddElement, FS_CardinalityType DEF CountThread
  <2>2. CASE wpc[w] = "exited"
    BY <1>1, <2>2 DEF CountThread, ExitInv
  <2> QED BY <2>1, <2>2
<1>2. ASSUME NEW w \in Workers, WExit(w)
      PROVE  StartedExact'
  <2>1. w \in threads
    BY <1>2 DEF WExit, MustSleep, MustExit, Immediate, Graceful
  <2>2. Live' = Live \ {w} /\ w \in Live
    BY <1>2, <2>1 DEF WExit, Live
  <2> QED BY <1>0, <1>2, <2>2, FS_RemoveElement, FS_CardinalityType DEF WExit
<1>3. CASE UNCHANGED <<started, Live>>
  BY <1>3
<1>4. ASSUME NEW w \in Workers, Work(w) \/ WSpurious(w), ~WExit(w)
      PROVE  UNCHANGED <<started, Live>>
  BY <1>4 DEF Work, WLock, WWait, WTake, WFinish, WSpurious, Live
<1>5. ASSUME NEW w \in Workers, CreateThread(w)
      PROVE  UNCHANGED <<started, Live>>
  BY <1>5 DEF CreateThread, Live
<1> QED BY <1>1, <1>2, <1>3, <1>4, <1>5
        DEF Next, Create, Add, Destroy, vars, CreateReturn, CreateFail, AddLock,
            AddRefused, AddAccepted, DestroyLock, DestroyShut, DestroyAgain,
            DestroyJoin, DestroyFree, Live

\* One more worker, or one less, on the way to the queue.
LEMMA AwakeFinite ==
  ASSUME TypeOK
  PROVE  /\ IsFiniteSet(Awake) /\ Cardinality(Awake) \in Nat
         /\ \A w \in Workers \ Awake : Cardinality(Awake \cup {w}) = Cardinality(Awake) + 1
         /\ \A w \in Awake : Cardinality(Awake \ {w}) = Cardinality(Awake) - 1
<1>1. IsFiniteSet(Awake)
  BY PoolAssumption, FS_Subset DEF Awake
<1> QED BY <1>1, FS_CardinalityType, FS_AddElement, FS_RemoveElement

\* The workers on the way to the queue stay at least as many as the pending
\* tasks, or none sleeps.
LEMMA WakeStep ==
  ASSUME ControlInv, NoIdleWorker, [Next]_vars
  PROVE  NoIdleWorker'
<1> USE PoolAssumption, AwakeFinite DEF ControlInv, TypeOK, WaitInv, NoIdleWorker, poolVars, createVars
<1>1. ASSUME NEW c \in Callers, NEW t \in Tasks, AddAccepted(c, t)
      PROVE  NoIdleWorker'
  <2>1. CASE waiting = {}
    BY <1>1, <2>1 DEF AddAccepted, Signal
  <2>2. CASE waiting # {}
    <3>1. PICK w \in waiting : waiting' = waiting \ {w}
      BY <1>1, <2>2 DEF AddAccepted, Signal
    <3>2. w \in Workers \ Awake /\ Awake' = Awake \cup {w}
      BY <1>1, <3>1 DEF AddAccepted, Awake
    <3>3. count' = count + 1
      BY <1>1 DEF AddAccepted
    <3> QED BY <2>2, <3>2, <3>3
  <2> QED BY <2>1, <2>2
<1>2. ASSUME NEW w \in Workers, WTake(w)
      PROVE  NoIdleWorker'
  <2>1. w \in Awake /\ Awake' = Awake \ {w}
    BY <1>2 DEF WTake, Awake
  <2>2. count' = count - 1 /\ waiting' = waiting
    BY <1>2 DEF WTake
  <2> QED BY <2>1, <2>2
<1>3. ASSUME NEW w \in Workers, WFinish(w) \/ WSpurious(w) \/ CreateThread(w)
      PROVE  NoIdleWorker'
  <2>1. w \in Workers \ Awake /\ Awake' = Awake \cup {w}
    BY <1>3 DEF WFinish, WSpurious, CreateThread, Awake
  <2>2. count' = count /\ waiting' \subseteq waiting
    BY <1>3 DEF WFinish, WSpurious, CreateThread
  <2> QED BY <2>1, <2>2
<1>4. ASSUME NEW w \in Workers, WLock(w)
      PROVE  NoIdleWorker'
  <2>1. Awake' = Awake
    BY <1>4 DEF WLock, Awake
  <2>2. count' = count /\ waiting' = waiting
    BY <1>4 DEF WLock
  <2> QED BY <2>1, <2>2
<1>5. ASSUME NEW w \in Workers, WWait(w)
      PROVE  NoIdleWorker'
  <2>1. count' = 0 /\ TypeOK'
    BY <1>5 DEF WWait, MustSleep
  <2>2. Cardinality(Awake)' \in Nat
    <3>1. IsFiniteSet(Awake')
      BY FS_Subset DEF Awake
    <3> QED BY <3>1, FS_CardinalityType
  <2> QED BY <2>1, <2>2
<1>6. ASSUME NEW w \in Workers, WExit(w)
      PROVE  NoIdleWorker'
  BY <1>6 DEF WExit, MustSleep, MustExit, Immediate, Graceful
<1>7. ASSUME NEW c \in Callers, NEW mode \in {Immediate, Graceful}, DestroyShut(c, mode)
      PROVE  NoIdleWorker'
  BY <1>7 DEF DestroyShut, Broadcast
<1>8. CASE UNCHANGED <<count, waiting, wpc>>
  BY <1>8 DEF Awake
<1> QED BY <1>1, <1>2, <1>3, <1>4, <1>5, <1>6, <1>7, <1>8
        DEF Next, Create, Add, Work, Destroy, vars, CountThread, CreateReturn,
            CreateFail, AddLock, AddRefused, DestroyLock, DestroyAgain,
            DestroyJoin, DestroyFree

-----------------------------------------------------------------------------
(* The invariant and what follows from it.                                 *)

\* threadpool_create leaves the pool in a state the invariant admits.
LEMMA InitInv == Init => IInv
<1> SUFFICES ASSUME Init PROVE IInv
  OBVIOUS
<1> USE PoolAssumption DEF Init
<1>1. ControlInv
  <2>1. TypeOK
    <3>1. queue \in [0..QueueSize-1 -> Tasks \cup {None}]
      OBVIOUS
    <3>2. head \in 0..QueueSize-1 /\ tail \in 0..QueueSize-1 /\ count \in 0..QueueSize
      OBVIOUS
    <3>3. cpc \in [Callers -> {"create", "count", "undo", "idle", "add", "destroy",
                               "join", "free", "returned"}]
      OBVIOUS
    <3>4. /\ wpc \in [Workers -> {"unborn", "lock", "check", "wait", "run", "exited"}]
          /\ task \in [Workers -> Tasks \cup {None}]
          /\ result \in [Tasks -> {"unsent", "ok", "full", "shutdown"}]
      OBVIOUS
    <3>5. /\ lock \in Workers \cup Callers \cup {None}
          /\ waiting \subseteq Workers /\ threads \subseteq Workers /\ done \subseteq Tasks
          /\ started \in Int /\ spurious \in 0..MaxSpurious
      OBVIOUS
    <3>6. shutdown \in {0, Immediate, Graceful} /\ handed \in BOOLEAN /\ freed \in BOOLEAN
      OBVIOUS
    <3> QED BY ONLY <3>1, <3>2, <3>3, <3>4, <3>5, <3>6 DEF TypeOK
  <2>2. LockInv /\ WaitInv /\ ExitInv /\ JoinInv
    BY DEF LockInv, WaitInv, ExitInv, JoinInv
  <2>3. CreateInv
    BY DEF CreateInv, Graceful
  <2> QED BY <2>1, <2>2, <2>3 DEF ControlInv
<1>2. RingInv /\ TaskInv
  BY DEF RingInv, Slot, TaskInv
<1>3. StartedExact /\ NoIdleWorker
  <2>1. Live = {}
    BY DEF Live
  <2> QED BY <2>1, FS_EmptySet DEF StartedExact, NoIdleWorker
<1> QED BY <1>1, <1>2, <1>3 DEF IInv

\* IInv is an invariant: the prover's form of everything the safety run checks.
THEOREM Inductive == Spec => []IInv
<1>1. IInv /\ [Next]_vars => IInv'
  BY ControlStep, RingStep, TaskStep, StartedStep, WakeStep DEF IInv, ControlInv
<1> QED BY InitInv, <1>1, PTL DEF Spec

\* threadpool.c never leaves its variables' ranges: the ring indices stay
\* inside the array and count inside the queue size.
THEOREM TypeCorrect == Spec => []TypeOK
<1>1. IInv => TypeOK
  BY DEF IInv, ControlInv
<1> QED BY Inductive, <1>1, PTL

\* No wakeup is lost by threadpool_add's single pthread_cond_signal.
THEOREM NoLostWakeup == Spec => []NoIdleWorker
<1>1. IInv => NoIdleWorker
  BY DEF IInv
<1> QED BY Inductive, <1>1, PTL

\* pool->started is exact although the creator counts without the lock.
THEOREM StartedIsExact == Spec => []StartedExact
<1>1. IInv => StartedExact
  BY DEF IInv
<1> QED BY Inductive, <1>1, PTL

\* threadpool_free releases a pool that no thread can touch any more.
THEOREM FreeIsQuiet == Spec => []FreedQuiet
<1>1. IInv => FreedQuiet
  BY PoolAssumption DEF IInv, ControlInv, CreateInv, JoinInv, TypeOK, FreedQuiet
<1> QED BY Inductive, <1>1, PTL

\* A graceful threadpool_destroy completes every accepted task.
THEOREM GracefulDrains == Spec => []GracefulDrained
<1>1. ASSUME IInv
      PROVE  GracefulDrained
  <2> SUFFICES ASSUME freed, shutdown = Graceful, NEW t \in Tasks, result[t] = "ok"
               PROVE  t \in done
    BY DEF GracefulDrained
  <2> USE <1>1 DEF IInv, ControlInv, TypeOK
  <2>1. threads = Workers /\ Workers # {}
    BY PoolAssumption DEF CreateInv
  <2>2. \A w \in Workers : wpc[w] = "exited"
    BY <2>1 DEF JoinInv
  <2>3. count = 0
    BY <2>1, <2>2 DEF ExitInv
  <2>4. PendingTasks = {}
    BY <2>3 DEF PendingTasks
  <2>5. \A w \in Workers : task[w] = None
    BY <2>2 DEF ExitInv
  <2> QED BY <2>4, <2>5, PoolAssumption DEF TaskInv
<1> QED BY Inductive, <1>1, PTL

-----------------------------------------------------------------------------
(* The pool implements TaskPool.                                           *)

\* The pending tasks, read from head, are a sequence of length count.
LEMMA PendingIsSeq ==
  ASSUME TypeOK, RingInv
  PROVE  /\ Pending \in Seq(Tasks) /\ Len(Pending) = count
         /\ \A i \in 1..count : Pending[i] = queue[Slot(head, i - 1)]
<1>1. count \in Nat
  BY PoolAssumption DEF TypeOK
<1>2. ASSUME NEW i \in 1..count
      PROVE  queue[Slot(head, i - 1)] \in Tasks
  BY <1>1, i - 1 \in 0..count-1 DEF RingInv
<1>3. Pending \in [1..count -> Tasks]
  BY <1>2 DEF Pending
<1> QED BY <1>1, <1>3, SeqDef DEF Pending

\* threadpool_add appends to that sequence.
LEMMA AcceptAppends ==
  ASSUME TypeOK, RingInv, NEW c \in Callers, NEW t \in Tasks, AddAccepted(c, t)
  PROVE  Pending' = Append(Pending, t)
<1>1. /\ count' = count + 1 /\ head' = head /\ count \in Nat
      /\ \A i \in 0..count-1 : queue'[Slot(head, i)] = queue[Slot(head, i)]
      /\ queue'[Slot(head, count)] = t
  BY AcceptRing, PoolAssumption DEF TypeOK
<1>2. Pending' = [i \in 1..count+1 |-> queue'[Slot(head, i - 1)]]
  BY <1>1 DEF Pending
<1>3. ASSUME NEW i \in 1..count+1
      PROVE  queue'[Slot(head, i - 1)] = Append(Pending, t)[i]
  <2>1. CASE i = count + 1
    BY <1>1, <2>1, PendingIsSeq, AppendProperties
  <2>2. CASE i # count + 1
    <3>1. i \in 1..count /\ i - 1 \in 0..count-1
      BY <1>1, <2>2
    <3> QED BY <1>1, <3>1, PendingIsSeq, AppendProperties
  <2> QED BY <2>1, <2>2
<1>4. /\ Append(Pending, t) \in Seq(Tasks)
      /\ Len(Append(Pending, t)) = count + 1
  BY <1>1, PendingIsSeq, AppendProperties
<1>5. Append(Pending, t) = [i \in 1..count+1 |-> Append(Pending, t)[i]]
  BY <1>4, LenProperties
<1> QED BY <1>2, <1>3, <1>5

\* threadpool_thread takes the head of that sequence.
LEMMA TakeIsHead ==
  ASSUME TypeOK, RingInv, NEW w \in Workers, WTake(w)
  PROVE  /\ Pending # <<>>
         /\ task' = [task EXCEPT ![w] = Head(Pending)]
         /\ Pending' = Tail(Pending)
<1>1. /\ count > 0 /\ count' = count - 1 /\ queue' = queue /\ count \in Nat
      /\ task' = [task EXCEPT ![w] = queue[Slot(head, 0)]]
      /\ \A i \in 0..count-1 : Slot(head', i) = Slot(head, i + 1)
  BY TakeRing, PoolAssumption DEF TypeOK
<1>2. Pending # <<>> /\ Head(Pending) = queue[Slot(head, 0)]
  BY <1>1, PendingIsSeq, 1 \in 1..count, 1 - 1 = 0
<1>3. Pending' = [i \in 1..count-1 |-> queue[Slot(head', i - 1)]]
  BY <1>1 DEF Pending
<1>4. ASSUME NEW i \in 1..count-1
      PROVE  queue[Slot(head', i - 1)] = Pending[i + 1]
  <2>1. i - 1 \in 0..count-1 /\ (i - 1) + 1 = i /\ i + 1 \in 1..count /\ (i + 1) - 1 = i
    BY <1>1
  <2> QED BY <1>1, <2>1, PendingIsSeq
<1>5. Tail(Pending) = [i \in 1..count-1 |-> Pending[i + 1]]
  <2>1. /\ Tail(Pending) \in Seq(Tasks) /\ Len(Tail(Pending)) = count - 1
        /\ \A i \in 1..count-1 : Tail(Pending)[i] = Pending[i + 1]
    BY <1>1, <1>2, PendingIsSeq, HeadTailProperties
  <2>2. Tail(Pending) = [i \in 1..count-1 |-> Tail(Pending)[i]]
    BY <2>1, LenProperties
  <2> QED BY <2>1, <2>2
<1> QED BY <1>1, <1>2, <1>3, <1>4, <1>5

\* Every step of the pool is a step of TaskPool or leaves its view unchanged.
LEMMA PoolStep ==
  ASSUME IInv, [Next]_vars
  PROVE  [Pool!Next]_(Pool!vars)
<1> DEFINE Accepted == {t \in Tasks : result[t] = "ok"}
<1> USE DEF IInv, ControlInv, TypeOK
<1>1. ASSUME NEW c \in Callers, NEW t \in Tasks, AddAccepted(c, t)
      PROVE  Pool!Next
  <2>1. Pending' = Append(Pending, t) /\ Len(Pending) < QueueSize
    <3>1. Len(Pending) = count /\ count \in 0..QueueSize-1
      BY <1>1, PendingIsSeq, AcceptRing
    <3>2. Pending' = Append(Pending, t)
      BY <1>1, AcceptAppends
    <3> QED BY <3>1, <3>2, PoolAssumption
  <2>2. Accepted' = Accepted \cup {t} /\ t \notin Accepted
    BY <1>1 DEF AddAccepted
  <2>3. Phase = "open" /\ Phase' = Phase /\ UNCHANGED <<task, done>>
    <3>1. ~freed /\ shutdown = 0
      BY <1>1 DEF AddAccepted, JoinInv
    <3>2. UNCHANGED <<freed, shutdown, task, done>>
      BY <1>1 DEF AddAccepted, createVars
    <3> QED BY <3>1, <3>2 DEF Phase
  <2> QED BY <2>1, <2>2, <2>3 DEF Pool!Next, Pool!Submit
<1>2. ASSUME NEW w \in Workers, WTake(w)
      PROVE  Pool!Next
  <2>1. /\ Pending # <<>> /\ task' = [task EXCEPT ![w] = Head(Pending)]
        /\ Pending' = Tail(Pending)
    BY <1>2, TakeIsHead
  <2>2. task[w] = None /\ UNCHANGED <<result, done>>
    BY <1>2 DEF WTake, ExitInv
  <2>3. Phase \in {"open", "draining"} /\ Phase' = Phase
    BY <1>2, PoolAssumption DEF WTake, MustSleep, MustExit, Phase, JoinInv, LockInv
  <2> QED BY <2>1, <2>2, <2>3 DEF Pool!Next, Pool!Start
<1>3. CASE UNCHANGED poolVars
  <2>1. Pending' = Pending
    BY <1>3 DEF Pending, poolVars
  <2>2. ASSUME NEW w \in Workers, WFinish(w)
        PROVE  Pool!Next
    <3>1. task[w] # None /\ Phase' = Phase
      BY <2>2 DEF WFinish, ExitInv, Phase
    <3> QED BY <2>1, <2>2, <3>1 DEF WFinish, Pool!Next, Pool!Finish
  <2>3. ASSUME NEW c \in Callers, NEW mode \in {Immediate, Graceful}, DestroyShut(c, mode)
        PROVE  Pool!Next
    <3>1. Phase = "open" /\ Phase' \in {"draining", "stopping"}
      BY <2>3 DEF DestroyShut, JoinInv, Phase, Immediate, Graceful
    <3> QED BY <2>1, <2>3, <3>1 DEF DestroyShut, Pool!Next, Pool!Shutdown
  <2>4. ASSUME NEW c \in Callers, DestroyFree(c)
        PROVE  Pool!Next \/ UNCHANGED Pool!vars
    <3>1. UNCHANGED <<task, result, done, shutdown>> /\ shutdown # 0
      BY <2>4 DEF DestroyFree, JoinInv
    <3>2. CASE freed \/ ~freed'
      <4>1. Phase' = Phase
        BY <2>4, <3>1, <3>2 DEF Phase, DestroyFree
      <4> QED BY <2>1, <3>1, <4>1 DEF Pool!vars
    <3>3. CASE ~freed /\ freed'
      <4>1. Phase \in {"draining", "stopping"} /\ Phase' = "closed"
        BY <3>1, <3>3 DEF Phase
      <4>2. \A w \in Workers : task[w] = None
        <5>1. \A w \in Workers : w \in threads => wpc[w] = "exited"
          BY <2>4 DEF DestroyFree, JoinInv
        <5>2. \A w \in Workers : w \notin threads => wpc[w] = "unborn"
          BY <2>4, <3>1, PoolAssumption DEF DestroyFree, CreateInv
        <5> QED BY <5>1, <5>2 DEF ExitInv
      <4>3. Phase = "draining" => Pending = <<>>
        <5> SUFFICES ASSUME Phase = "draining"
                     PROVE  count = 0
          BY PendingIsSeq
        <5>1. shutdown = Graceful /\ threads = Workers /\ Workers # {}
          BY <3>1, <3>3, PoolAssumption DEF Phase, CreateInv, Immediate, Graceful
        <5> QED BY <2>4, <5>1 DEF DestroyFree, JoinInv, ExitInv
      <4> QED BY <2>1, <3>1, <4>1, <4>2, <4>3 DEF Pool!Next, Pool!Close
    <3> QED BY <2>4, <3>2, <3>3 DEF DestroyFree
  <2>5. CASE UNCHANGED <<task, done, shutdown, freed, Accepted>>
    BY <2>1, <2>5 DEF Pool!vars, Phase
  <2>6. ASSUME NEW c \in Callers, NEW t \in Tasks, AddRefused(c, t)
        PROVE  UNCHANGED <<task, done, shutdown, freed, Accepted>>
    BY <2>6 DEF AddRefused
  <2> QED BY <2>2, <2>3, <2>4, <2>5, <2>6, <1>1, <1>2
          DEF Next, Create, Add, Work, Destroy, vars, CreateThread, CountThread,
              CreateReturn, CreateFail, AddLock, WLock, WWait, WSpurious, WExit,
              DestroyLock, DestroyAgain, DestroyJoin
<1> QED BY <1>1, <1>2, <1>3, QueueFrame

\* The ring, the mutex, the condition variable and the shutdown protocol of
\* threadpool.c implement the bounded FIFO of TaskPool.
THEOREM ImplementsTaskPool == Spec => PoolPromise
<1>1. Init => Pool!Init
  <2> SUFFICES ASSUME Init PROVE Pool!Init
    OBVIOUS
  <2>1. Pending = <<>>
    BY DEF Init, Pending
  <2>2. Phase = "open" /\ {t \in Tasks : result[t] = "ok"} = {}
    <3>1. ~freed /\ shutdown = 0 /\ \A t \in Tasks : result[t] # "ok"
      BY DEF Init
    <3> QED BY <3>1 DEF Phase
  <2> QED BY <2>1, <2>2 DEF Init, Pool!Init
<1>2. IInv /\ [Next]_vars => [Pool!Next]_(Pool!vars)
  BY PoolStep
<1> QED BY <1>1, <1>2, Inductive, PTL DEF Spec, PoolPromise, Pool!Spec

=============================================================================
