------------------------------ MODULE CmdQueue ------------------------------
(***************************************************************************)
(* handle/queue.c: the ring buffer through which the pool's workers hand   *)
(* parsed commands to the command thread.  There is no lock: the workers   *)
(* push, get_cmd pops, and their loads and stores interleave.              *)
(*                                                                         *)
(* push_element is cut into the test (which also computes the index, kept  *)
(* in a register by -O2), the store of tail and the copy of the command;   *)
(* pop_element into the test with the store of front and the copy.  A      *)
(* command is a struct of some 1.4 KB, so a copy is two steps, the client  *)
(* (field fd) and the rest (body): a copy can be seen half done.           *)
(***************************************************************************)
EXTENDS Naturals, Sequences

CONSTANTS
  Producers,  \* workers that run a protocol's parse function
  Cmds,       \* commands, each pushed at most once
  QueueSize,  \* QUEUESIZE
  MaxTaken,   \* bound: the pops considered (a clash can replay for ever)
  None        \* no command

ASSUME QueueAssumption ==
  QueueSize \in Nat \ {0, 1} /\ MaxTaken \in Nat /\ None \notin Cmds

VARIABLES
  data,    \* pCQ->data, the client half and the body half of each slot
  front,   \* pCQ->front: the slot before the oldest command
  tail,    \* pCQ->tail: the slot of the youngest command
  ppc,     \* where each producer is in push_element
  next,    \* the index each producer has computed
  cmd,     \* the argument of each producer's push_element
  result,  \* whether the test of full let each command in
  cpc,     \* where get_cmd is in pop_element
  got,     \* *pData, as far as it has been copied
  \* history
  order,   \* commands in the order in which they entered the queue
  taken,   \* what pop_cmd_queue has handed to get_cmd
  clash    \* whether two pushes have claimed a slot over each other

ring == <<data, front, tail>>
vars == <<data, front, tail, ppc, next, cmd, result, cpc, got, order,
          taken, clash>>

Slots == 0..QueueSize-1
Empty == [fd |-> None, body |-> None]

\* Mutant: the modulo is forgotten.
SuccPastEnd(i) == i + 1

\* (i + 1) % QUEUESIZE
Succ(i) == IF i = QueueSize - 1 THEN 0 ELSE i + 1

\* Mutant: full is not recognised when the free slot is the first one.
FullNoWrap == tail + 1 = front

IsFull == Succ(tail) = front

\* Mutant: the last command is left in the queue.
EmptyEarly == front = tail \/ Succ(front) = tail

IsEmpty == front = tail

-----------------------------------------------------------------------------
\* The queue is a static object; init_circle_queue leaves it alone (it
\* initialises a copy of its own).
Init ==
  /\ data   = [i \in Slots |-> Empty]
  /\ front  = 0 /\ tail = 0
  /\ ppc    = [p \in Producers |-> "idle"]
  /\ next   = [p \in Producers |-> 0]
  /\ cmd    = [p \in Producers |-> None]
  /\ result = [c \in Cmds |-> "unsent"]
  /\ cpc    = "idle"
  /\ got    = Empty
  /\ order  = <<>>
  /\ taken  = <<>>
  /\ clash  = FALSE

-----------------------------------------------------------------------------
(* push_element                                                            *)

PushFull(p, c) ==
  /\ ppc[p] = "idle" /\ result[c] = "unsent"
  /\ IsFull
  /\ result' = [result EXCEPT ![c] = "full"]
  /\ UNCHANGED <<ring, ppc, next, cmd, cpc, got, order, taken, clash>>

\* History: the push of p claims its slot from a tail that another push is
\* about to move, or claims a slot that a push a lap behind still fills.
Overlaps(p) ==
  \E q \in Producers \ {p} :
    \/ ppc[q] = "tail"
    \/ ppc[q] \in {"fd", "body"} /\ next[q] = Succ(tail)

PushTest(p, c) ==
  /\ ppc[p] = "idle" /\ result[c] = "unsent"
  /\ ~IsFull
  /\ next'   = [next EXCEPT ![p] = Succ(tail)]
  /\ cmd'    = [cmd EXCEPT ![p] = c]
  /\ result' = [result EXCEPT ![c] = "ok"]
  /\ ppc'    = [ppc EXCEPT ![p] = "tail"]
  /\ clash'  = (clash \/ Overlaps(p))
  /\ UNCHANGED <<ring, cpc, got, order, taken>>

PushTail(p) ==
  /\ ppc[p] = "tail"
  /\ tail'  = next[p]
  /\ order' = Append(order, cmd[p])
  /\ ppc'   = [ppc EXCEPT ![p] = "fd"]
  /\ UNCHANGED <<data, front, next, cmd, result, cpc, got, taken, clash>>

PushFd(p) ==
  /\ ppc[p] = "fd"
  /\ data' = [data EXCEPT ![next[p]].fd = cmd[p]]
  /\ ppc'  = [ppc EXCEPT ![p] = "body"]
  /\ UNCHANGED <<front, tail, next, cmd, result, cpc, got, order, taken, clash>>

PushBody(p) ==
  /\ ppc[p] = "body"
  /\ data' = [data EXCEPT ![next[p]].body = cmd[p]]
  /\ ppc'  = [ppc EXCEPT ![p] = "idle"]
  /\ UNCHANGED <<front, tail, next, cmd, result, cpc, got, order, taken, clash>>

-----------------------------------------------------------------------------
(* pop_element, by get_cmd; on an empty queue it returns -1 and get_cmd    *)
(* sleeps and tries again, which changes nothing here                      *)

PopFront ==
  /\ cpc = "idle"
  /\ Len(taken) < MaxTaken
  /\ ~IsEmpty
  /\ front' = Succ(front)
  /\ cpc' = "fd"
  /\ UNCHANGED <<data, tail, ppc, next, cmd, result, got, order, taken, clash>>

\* Mutant: pop copies from the slot after the one it has freed.
PopFdNext ==
  /\ cpc = "fd"
  /\ got' = [got EXCEPT !.fd = data[Succ(front)].fd]
  /\ cpc' = "body"
  /\ UNCHANGED <<ring, ppc, next, cmd, result, order, taken, clash>>

PopFd ==
  /\ cpc = "fd"
  /\ got' = [got EXCEPT !.fd = data[front].fd]
  /\ cpc' = "body"
  /\ UNCHANGED <<ring, ppc, next, cmd, result, order, taken, clash>>

PopBody ==
  /\ cpc = "body"
  /\ got' = [got EXCEPT !.body = data[front].body]
  /\ taken' = Append(taken, got')
  /\ cpc' = "idle"
  /\ UNCHANGED <<ring, ppc, next, cmd, result, order, clash>>

Push(p) == PushTail(p) \/ PushFd(p) \/ PushBody(p)
Pop == PopFront \/ PopFd \/ PopBody

Next ==
  \/ \E p \in Producers :
       Push(p) \/ \E c \in Cmds : PushFull(p, c) \/ PushTest(p, c)
  \/ Pop

Spec == Init /\ [][Next]_vars

\* get_cmd loops for ever and a worker inside push_element is scheduled.
FairSpec ==
  /\ Spec
  /\ WF_vars(Pop)
  /\ \A p \in Producers : WF_vars(Push(p))

-----------------------------------------------------------------------------
(* Properties                                                              *)

Halves == [fd : Cmds \cup {None}, body : Cmds \cup {None}]

TypeOK ==
  /\ data \in [Slots -> Halves]
  /\ front \in Slots /\ tail \in Slots
  /\ ppc \in [Producers -> {"idle", "tail", "fd", "body"}]
  /\ next \in [Producers -> Slots]
  /\ cmd \in [Producers -> Cmds \cup {None}]
  /\ result \in [Cmds -> {"unsent", "ok", "full"}]
  /\ cpc \in {"idle", "fd", "body"}
  /\ got \in Halves
  /\ order \in Seq(Cmds \cup {None})
  /\ taken \in Seq(Halves)
  /\ clash \in BOOLEAN

\* Pops begun: get_cmd moves front first and copies afterwards.
Popped == Len(taken) + (IF cpc = "idle" THEN 0 ELSE 1)

Fifo == INSTANCE CmdFifo WITH
          Capacity <- QueueSize - 1,
          items    <- SubSeq(order, Popped + 1, Len(order)),
          mixed    <- clash

\* Until two workers claim a slot over each other, the two index comparisons
\* keep a bounded first-in first-out queue of QUEUESIZE - 1 commands, although
\* pops, and the copies of other workers' pushes, run between any two steps of
\* a push.
FifoPromise == Fifo!Spec

Storing(i, half) ==
  \E p \in Producers :
    /\ next[p] = i
    /\ ppc[p] \in (IF half = "fd" THEN {"fd"} ELSE {"fd", "body"})

\* Until two workers claim a slot over each other, a pop that reads a slot
\* before the push that claimed it has filled it is the only way in which
\* get_cmd obtains anything but the next command.
StaleOnlyInWindow ==
  [][ ~clash =>
        /\ cpc = "fd" /\ cpc' = "body" /\ ~Storing(front, "fd")
             => got'.fd = order[Popped]
        /\ cpc = "body" /\ cpc' = "idle" /\ ~Storing(front, "body")
             => got'.body = order[Popped] ]_vars

\* Until two workers claim a slot over each other, every command that entered
\* the queue leaves it: get_cmd's polling cannot miss one for ever.
AllTaken ==
  \A k \in 1..QueueSize+1 : Len(order) >= k ~> Len(taken) >= k \/ clash

\* handle.c: get_cmd "queries the command queue and takes a command out": it
\* does not take out more than was put in.
NoReplay == Len(taken) <= Len(order)

=============================================================================
