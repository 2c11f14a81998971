----------------------------- MODULE ClientList -----------------------------
(***************************************************************************)
(* The list of clients of tcp_server/op_epoll.c, load by load and store by *)
(* store.  The epoll loop adds a client when it accepts one; the workers   *)
(* remove one when op_read finds it gone, the command thread when op_write *)
(* does.  There is no lock, and nobody asks whether the client is listed.  *)
(*                                                                         *)
(* A store outside clilist[] overwrites what lies beside it, tailindex     *)
(* included: nothing can be said of what follows, and the model stops.     *)
(***************************************************************************)
EXTENDS Integers, FiniteSets

CONSTANTS
  Fds,         \* descriptors that accept may return
  Loop,        \* the thread of start_server
  Deleters,    \* the workers and the command thread
  None,        \* no descriptor
  MaxConnect,  \* MAX_CONNECT
  MaxDels      \* bound: calls of del_clilist

ASSUME ListAssumption ==
  /\ Loop \notin Deleters
  /\ Fds \subseteq Nat /\ None \notin Fds
  /\ MaxConnect \in Nat \ {0}
  /\ MaxDels \in Nat

VARIABLES
  clilist, tailindex,
  overrun,   \* a client was stored outside clilist[]
  pc,        \* where each thread is in add_clilist or del_clilist
  fd,        \* cli.fd of each thread's call
  i, j,      \* the loop variables of each call of del_clilist
  loaded,    \* the tailindex each thread has loaded to count up or down
  added,     \* history: the clients added
  dels,      \* history: calls of del_clilist completed
  members,   \* history: clients added and not removed
  missed,    \* history: a client was removed that was not on the list
  clash      \* history: a call began while another one ran

list    == <<clilist, tailindex, overrun>>
locals  == <<pc, fd, i, j, loaded>>
history == <<added, dels, members, missed, clash>>
vars    == <<list, locals, history>>

Threads == Deleters \cup {Loop}
Slots   == 0..MaxConnect-1

Busy(th) == pc[th] # "idle"

Goto(th, label) == pc' = [pc EXCEPT ![th] = label]

\* A call on f begins.
Begin(th, f, label) ==
  /\ ~overrun /\ ~Busy(th)
  /\ Goto(th, label)
  /\ fd' = [fd EXCEPT ![th] = f]
  /\ clash' = (clash \/ \E u \in Threads : Busy(u))

\* The call returns and its variables are gone.
Return(th) ==
  /\ Goto(th, "idle")
  /\ fd' = [fd EXCEPT ![th] = None]
  /\ i' = [i EXCEPT ![th] = 0] /\ j' = [j EXCEPT ![th] = 0]
  /\ loaded' = [loaded EXCEPT ![th] = 0]

-----------------------------------------------------------------------------
Init ==
  /\ clilist = [k \in Slots |-> None] /\ tailindex = 0 /\ overrun = FALSE
  /\ pc = [th \in Threads |-> "idle"]
  /\ fd = [th \in Threads |-> None]
  /\ i = [th \in Threads |-> 0] /\ j = [th \in Threads |-> 0]
  /\ loaded = [th \in Threads |-> 0]
  /\ added = {} /\ members = {} /\ dels = 0
  /\ missed = FALSE /\ clash = FALSE

-----------------------------------------------------------------------------
(* add_clilist, by the loop                                                *)

\* accept returns the lowest free descriptor, and none is ever closed.
Accept(f) ==
  /\ f \notin added /\ \A g \in Fds \ added : f <= g
  /\ Begin(Loop, f, "store")
  /\ UNCHANGED <<list, i, j, loaded, added, dels, members, missed>>

\* Mutant: clilist.clilist[++clilist.tailindex].
AddStorePast ==
  /\ pc[Loop] = "store" /\ ~overrun
  /\ overrun' = (tailindex + 1 \notin Slots)
  /\ clilist' = [k \in Slots |-> IF k = tailindex + 1 THEN fd[Loop] ELSE clilist[k]]
  /\ Goto(Loop, "load")
  /\ UNCHANGED <<tailindex, fd, i, j, loaded, history>>

\* tailindex is not compared with MAX_CONNECT.
AddStore ==
  /\ pc[Loop] = "store" /\ ~overrun
  /\ overrun' = (tailindex \notin Slots)
  /\ clilist' = [k \in Slots |-> IF k = tailindex THEN fd[Loop] ELSE clilist[k]]
  /\ Goto(Loop, "load")
  /\ UNCHANGED <<tailindex, fd, i, j, loaded, history>>

\* tailindex ++ and tailindex -- load first.
Load(th) ==
  /\ pc[th] = "load" /\ ~overrun
  /\ loaded' = [loaded EXCEPT ![th] = tailindex]
  /\ Goto(th, "count")
  /\ UNCHANGED <<list, fd, i, j, history>>

AddCount ==
  /\ pc[Loop] = "count" /\ ~overrun
  /\ tailindex' = loaded[Loop] + 1
  /\ added' = added \cup {fd[Loop]}
  /\ members' = members \cup {fd[Loop]}
  /\ Return(Loop)
  /\ UNCHANGED <<clilist, overrun, dels, missed, clash>>

-----------------------------------------------------------------------------
(* del_clilist, by a worker or the command thread                          *)

\* A client that was accepted is gone.  op_read and op_write both find it out,
\* and op_write again for each reply that was still to come.
Gone(th, f) ==
  /\ dels + Cardinality({u \in Deleters : Busy(u)}) < MaxDels
  /\ f \in added
  /\ Begin(th, f, "find")
  /\ UNCHANGED <<list, i, j, loaded, added, dels, members, missed>>

\* if(clilist.clilist[i].fd == cli.fd)
FindMatch(th) ==
  /\ pc[th] = "find" /\ ~overrun
  /\ i[th] < tailindex /\ clilist[i[th]] = fd[th]
  /\ j' = [j EXCEPT ![th] = i[th]]
  /\ Goto(th, "shift")
  /\ UNCHANGED <<list, fd, i, loaded, history>>

\* Mutant: the search steps by the list's length.
FindNextFar(th) ==
  /\ pc[th] = "find" /\ ~overrun
  /\ i[th] < tailindex /\ clilist[i[th]] # fd[th]
  /\ i' = [i EXCEPT ![th] = @ + MaxConnect]
  /\ UNCHANGED <<list, pc, fd, j, loaded, history>>

FindNext(th) ==
  /\ pc[th] = "find" /\ ~overrun
  /\ i[th] < tailindex /\ clilist[i[th]] # fd[th]
  /\ i' = [i EXCEPT ![th] = @ + 1]
  /\ UNCHANGED <<list, pc, fd, j, loaded, history>>

FindEnd(th) ==
  /\ pc[th] = "find" /\ ~overrun
  /\ i[th] >= tailindex
  /\ Goto(th, "load")
  /\ UNCHANGED <<list, fd, i, j, loaded, history>>

\* Mutant: clilist[j+1] = clilist[j].
ShiftDown(th) ==
  /\ pc[th] = "shift" /\ ~overrun
  /\ j[th] < tailindex - 1
  /\ clilist' = [clilist EXCEPT ![j[th] + 1] = clilist[j[th]]]
  /\ j' = [j EXCEPT ![th] = @ + 1]
  /\ UNCHANGED <<tailindex, overrun, pc, fd, i, loaded, history>>

Shift(th) ==
  /\ pc[th] = "shift" /\ ~overrun
  /\ j[th] < tailindex - 1
  /\ clilist' = [clilist EXCEPT ![j[th]] = clilist[j[th] + 1]]
  /\ j' = [j EXCEPT ![th] = @ + 1]
  /\ UNCHANGED <<tailindex, overrun, pc, fd, i, loaded, history>>

\* Mutant: the entry that moved up is looked at again.
ShiftEndStays(th) ==
  /\ pc[th] = "shift" /\ ~overrun
  /\ j[th] >= tailindex - 1
  /\ Goto(th, "find")
  /\ UNCHANGED <<list, fd, i, j, loaded, history>>

\* The search goes on behind the entry.
ShiftEnd(th) ==
  /\ pc[th] = "shift" /\ ~overrun
  /\ j[th] >= tailindex - 1
  /\ i' = [i EXCEPT ![th] = @ + 1]
  /\ Goto(th, "find")
  /\ UNCHANGED <<list, fd, j, loaded, history>>

\* Mutant: the entry counts twice.
DelCountTwice(th) ==
  /\ pc[th] = "count" /\ ~overrun
  /\ tailindex' = loaded[th] - 2
  /\ dels' = dels + 1
  /\ missed' = (missed \/ fd[th] \notin members)
  /\ members' = members \ {fd[th]}
  /\ Return(th)
  /\ UNCHANGED <<clilist, overrun, added, clash>>

\* tailindex is decremented whether or not an entry was found.
DelCount(th) ==
  /\ pc[th] = "count" /\ ~overrun
  /\ tailindex' = loaded[th] - 1
  /\ dels' = dels + 1
  /\ missed' = (missed \/ fd[th] \notin members)
  /\ members' = members \ {fd[th]}
  /\ Return(th)
  /\ UNCHANGED <<clilist, overrun, added, clash>>

-----------------------------------------------------------------------------
Add     == (\E f \in Fds : Accept(f)) \/ AddStore \/ Load(Loop) \/ AddCount
Run(th) == \/ FindMatch(th) \/ FindNext(th) \/ FindEnd(th) \/ Shift(th) \/ ShiftEnd(th)
           \/ Load(th) \/ DelCount(th)

Next == Add \/ \E th \in Deleters : Run(th) \/ \E f \in Fds : Gone(th, f)

Spec == Init /\ [][Next]_vars

\* Whoever is inside a call goes on.
FairSpec == Spec /\ WF_vars(AddStore \/ Load(Loop) \/ AddCount)
                 /\ \A th \in Deleters : WF_vars(Run(th))

-----------------------------------------------------------------------------
(* Properties                                                              *)

TypeOK ==
  /\ clilist \in [Slots -> Fds \cup {None}] /\ overrun \in BOOLEAN
  /\ tailindex \in Int /\ tailindex <= MaxConnect
  /\ pc \in [Threads -> {"idle", "store", "load", "count", "find", "shift"}]
  /\ \A th \in Deleters : pc[th] # "store"
  /\ pc[Loop] \notin {"find", "shift"}
  /\ fd \in [Threads -> Fds \cup {None}]
  /\ \A th \in Threads : Busy(th) => fd[th] \in Fds
  /\ i \in [Threads -> 0..MaxConnect] /\ j \in [Threads -> Slots]
  /\ loaded \in [Threads -> Int]
  /\ added \subseteq Fds /\ members \subseteq added /\ dels \in Nat
  /\ missed \in BOOLEAN /\ clash \in BOOLEAN

Quiet   == \A th \in Threads : ~Busy(th)
Entries == {clilist[k] : k \in 0..tailindex-1}

\* "del by fd", op_epoll.c:102: while no two calls overlap and only clients on
\* the list are removed, clilist[0..tailindex) holds the clients added and not
\* removed, each once, wherever in the list they stood.
ListIsMembers ==
  Quiet /\ ~clash /\ ~missed /\ ~overrun =>
    Entries = members /\ tailindex = Cardinality(members)

\* Overlapping calls lose updates of tailindex, and a client that is not listed
\* is counted down like any other; still tailindex never leaves the calls made
\* behind, and without overlaps it is exact.
DriftBounded ==
  /\ -dels <= tailindex /\ tailindex <= Cardinality(added)
  /\ Quiet /\ ~clash => tailindex = Cardinality(added) - dels

\* tailindex is compared neither with MAX_CONNECT nor with 0.  A client is
\* stored outside clilist[] only when the list is full, when a client was
\* removed that was not listed, or when calls overlapped.
OverrunCause == overrun => missed \/ clash \/ Cardinality(members) >= MaxConnect

\* Both loops of del_clilist run up to a tailindex that other threads move.
DelEnds == \A th \in Deleters : Busy(th) ~> ~Busy(th) \/ overrun

=============================================================================
