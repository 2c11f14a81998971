------------------------------ MODULE TaskPool ------------------------------
(***************************************************************************)
(* What threadpool.h promises its callers, without lock, condition         *)
(* variable, ring buffer or thread creation: tasks are accepted into a     *)
(* bounded first-in first-out queue, each accepted task is started at most *)
(* once and in the order of acceptance, a graceful destroy completes every *)
(* accepted task, an immediate one may drop those not started, and the     *)
(* pool is released only when nothing runs.                                *)
(*                                                                         *)
(* ThreadPool is shown to implement this module.                           *)
(***************************************************************************)
EXTENDS Naturals, Sequences

CONSTANTS
  Workers,    \* the threads of the pool
  Tasks,      \* the (function, argument) pairs handed to the pool
  QueueSize,  \* how many accepted tasks may wait
  None        \* the task of an idle worker

VARIABLES
  pending,    \* accepted tasks that no worker has started, oldest first
  running,    \* the task each worker is executing, or None
  accepted,   \* every task ever accepted
  done,       \* every task that has returned
  phase       \* "open", "draining" (graceful), "stopping" (immediate), "closed"

vars == <<pending, running, accepted, done, phase>>

Init ==
  /\ pending  = <<>>
  /\ running  = [w \in Workers |-> None]
  /\ accepted = {}
  /\ done     = {}
  /\ phase    = "open"

Submit(t) ==
  /\ phase = "open"
  /\ t \notin accepted
  /\ Len(pending) < QueueSize
  /\ pending'  = Append(pending, t)
  /\ accepted' = accepted \cup {t}
  /\ UNCHANGED <<running, done, phase>>

Start(w) ==
  /\ phase \in {"open", "draining"}
  /\ running[w] = None
  /\ pending # <<>>
  /\ running' = [running EXCEPT ![w] = Head(pending)]
  /\ pending' = Tail(pending)
  /\ UNCHANGED <<accepted, done, phase>>

Finish(w) ==
  /\ running[w] # None
  /\ done'    = done \cup {running[w]}
  /\ running' = [running EXCEPT ![w] = None]
  /\ UNCHANGED <<pending, accepted, phase>>

Shutdown(p) ==
  /\ phase = "open"
  /\ phase' = p
  /\ UNCHANGED <<pending, running, accepted, done>>

Close ==
  /\ phase \in {"draining", "stopping"}
  /\ \A w \in Workers : running[w] = None
  /\ phase = "draining" => pending = <<>>
  /\ phase' = "closed"
  /\ UNCHANGED <<pending, running, accepted, done>>

Next ==
  \/ \E t \in Tasks : Submit(t)
  \/ \E w \in Workers : Start(w) \/ Finish(w)
  \/ \E p \in {"draining", "stopping"} : Shutdown(p)
  \/ Close

Spec == Init /\ [][Next]_vars

=============================================================================
