---------------------------- MODULE EpollServer ----------------------------
(***************************************************************************)
(* tcp_server/op_epoll.c with handle() of handle/handle.c: the epoll loop, *)
(* the pool's workers and the command thread around one events[] array.    *)
(*                                                                         *)
(* The loop hands a worker the address of events[i].data.fd, not the       *)
(* descriptor; the worker reads it when it reads the socket and again when *)
(* it parses or removes the client, while the loop refills the array.      *)
(*                                                                         *)
(* The pool is taken as TaskPool specifies it.  The command queue is the   *)
(* ring of handle/queue.c, which workers fill without a lock and get_cmd   *)
(* empties; a command is copied in one step here (CmdQueue tears it).      *)
(* Requests are well formed and have a reply.  No descriptor is ever       *)
(* closed by the program, so a connection is its own descriptor.  SIGPIPE  *)
(* is taken as ignored: writing to a peer that is gone returns an error.   *)
(***************************************************************************)
EXTENDS Integers, Sequences, FiniteSets, SequencesExt

CONSTANTS
  Conns,           \* connections, each opened at most once
  Listen,          \* listenfd
  Workers,         \* threads of the pool
  None,            \* no descriptor of the server, no request
  PoolQueue,       \* QUEUE: jobs the pool holds
  QueueSize,       \* QUEUESIZE: slots of the command queue
  ReadMax,         \* requests that fit in the 255 bytes of one read
  MaxSent,         \* bound: requests per connection
  MaxOutstanding,  \* requests a client sends before it waits for a reply
  Hasty,           \* whether a client may leave before its replies are there
  Leavings         \* how clients leave: "closed", or "reset" (breaking off)

ASSUME EpollAssumption ==
  /\ IsFiniteSet(Conns) /\ None \notin Conns \cup {Listen} /\ Listen \notin Conns
  /\ {PoolQueue, ReadMax} \subseteq Nat \ {0} /\ QueueSize \in Nat \ {0, 1}
  /\ {MaxSent, MaxOutstanding} \subseteq Nat
  /\ Leavings \subseteq {"closed", "reset"}
  /\ Hasty \in BOOLEAN

VARIABLES
  peer,     \* each connection at the client: "new", "open", "closed", "reset"
  sent,     \* requests each client has sent
  replies,  \* the sequence of replies each client has received
  backlog,  \* connections not yet accepted, oldest first
  inbox,    \* requests that have arrived and are not read
  watched,  \* descriptors in the epoll set
  ready,    \* descriptors with an edge not yet reported, oldest first
  loop,     \* start_server: "wait", "scan" or "returned"
  events,   \* events[], the descriptors only
  nfds, pos,       \* nfds and i of the loop
  clilist, tailindex,
  jobs,     \* indices into events[] queued in the pool
  wpc,      \* where each worker is in handle
  slot,     \* the index its argument points to
  line,     \* the request at the start of its line[]
  cmd,      \* the command it pushes
  next,     \* the slot of the ring it has claimed
  data, front, tail,  \* cmd_circle_queue
  gpc,      \* where get_cmd is: "pop", "copy" or "write"
  got,      \* its cmd
  \* history
  moved,    \* an entry of events[] changed under a pointer to it
  clash,    \* two pushes claimed one slot of the ring
  slip      \* a slot of the ring was taken before it was filled

net    == <<peer, sent, replies, inbox>>
epoll  == <<watched, ready>>
server == <<loop, events, nfds, pos, backlog>>
list   == <<clilist, tailindex>>
push   == <<cmd, next>>
work   == <<wpc, slot, line, push>>
ring   == <<data, front, tail>>
getcmd == <<gpc, got>>
vars   == <<net, epoll, server, list, jobs, work, ring, getcmd, moved, clash, slip>>

Fds   == Conns \cup {Listen}
Slots == 0..Cardinality(Conns)
Ring  == 0..QueueSize-1

\* A slot of the static ring that was never filled.
Blank == [fd |-> None, req |-> None]

\* (i + 1) % QUEUESIZE
Succ(i) == IF i = QueueSize - 1 THEN 0 ELSE i + 1

\* A change of state of f becomes an edge, unless one is pending (EPOLLET).
Edge(f) ==
  ready' = IF f \in watched /\ ~Contains(ready, f) THEN Append(ready, f) ELSE ready

Readable(c) == inbox[c] # <<>> \/ peer[c] # "open"

-----------------------------------------------------------------------------
(* The list of clients.                                                    *)

AddClient(c) ==
  /\ clilist' = [i \in DOMAIN clilist |-> IF i = tailindex THEN c ELSE clilist[i]]
  /\ tailindex' = tailindex + 1

\* Mutant: the entries move up and the count stays.
DelClientShift(f) ==
  LET at == {i \in DOMAIN clilist : i < tailindex /\ clilist[i] = f}
  IN  /\ clilist' = [j \in DOMAIN clilist |->
                       IF (\E i \in at : i <= j) /\ j + 1 < tailindex
                       THEN clilist[j + 1] ELSE clilist[j]]
      /\ UNCHANGED tailindex

\* tailindex is decremented whether or not the loop has found the descriptor.
DelClient(f) ==
  LET at == {i \in DOMAIN clilist : i < tailindex /\ clilist[i] = f}
  IN  /\ clilist' = [j \in DOMAIN clilist |->
                       IF (\E i \in at : i <= j) /\ j + 1 < tailindex
                       THEN clilist[j + 1] ELSE clilist[j]]
      /\ tailindex' = tailindex - 1

Unwatch(f) ==
  /\ watched' = watched \ {f}
  /\ ready' = IF Contains(ready, f)
              THEN RemoveAt(ready, CHOOSE i \in DOMAIN ready : ready[i] = f) ELSE ready

-----------------------------------------------------------------------------
Init ==
  /\ peer    = [c \in Conns |-> "new"]
  /\ sent    = [c \in Conns |-> 0]
  /\ replies = [c \in Conns |-> <<>>]
  /\ inbox   = [c \in Conns |-> <<>>]
  /\ backlog = <<>>
  /\ watched = {Listen}
  /\ ready   = <<>>
  /\ loop    = "wait"
  /\ events  = [i \in Slots |-> None]
  /\ nfds = 0 /\ pos = 0
  /\ clilist = [i \in Slots |-> None]
  /\ tailindex = 0
  /\ jobs    = <<>>
  /\ wpc     = [w \in Workers |-> "idle"]
  /\ slot    = [w \in Workers |-> 0]
  /\ line    = [w \in Workers |-> None]
  /\ cmd     = [w \in Workers |-> Blank]
  /\ next    = [w \in Workers |-> 0]
  /\ data    = [s \in Ring |-> Blank]
  /\ front = 0 /\ tail = 0
  /\ gpc = "pop" /\ got = Blank
  /\ moved = FALSE /\ clash = FALSE /\ slip = FALSE

-----------------------------------------------------------------------------
(* The clients                                                             *)

Own(c) == SelectSeq(replies[c], LAMBDA r : r.from = c)

Connect(c) ==
  /\ peer[c] = "new"
  /\ peer' = [peer EXCEPT ![c] = "open"]
  /\ backlog' = Append(backlog, c)
  /\ Edge(Listen)
  /\ UNCHANGED <<sent, replies, inbox, watched, loop, events, nfds, pos, list,
                 jobs, work, ring, getcmd, moved, clash, slip>>

Send(c) ==
  /\ peer[c] = "open"
  /\ sent[c] < MaxSent
  /\ sent[c] - Len(Own(c)) < MaxOutstanding
  /\ sent' = [sent EXCEPT ![c] = @ + 1]
  /\ inbox' = [inbox EXCEPT ![c] = Append(@, [from |-> c, n |-> sent[c] + 1])]
  /\ Edge(c)
  /\ UNCHANGED <<peer, replies, watched, server, list, jobs, work, ring, getcmd,
                 moved, clash, slip>>

Leave(c, how) ==
  /\ peer[c] = "open"
  /\ Hasty \/ sent[c] = Len(Own(c))
  /\ peer' = [peer EXCEPT ![c] = how]
  /\ Edge(c)
  /\ UNCHANGED <<sent, replies, inbox, watched, server, list, jobs, work, ring,
                 getcmd, moved, clash, slip>>

-----------------------------------------------------------------------------
(* start_server's loop                                                     *)

\* The entries of events[] that a queued job or a worker's argument points to.
Pointed == ToSet(jobs) \cup
           {slot[w] : w \in {v \in Workers : wpc[v] \in {"read", "delete", "forget", "parse"}}}

Moves == \E i \in Pointed : events'[i] # events[i]

\* Mutant: i is not set back to 0.
EpollWaitGoesOn ==
  /\ loop = "wait"
  /\ ready # <<>>
  /\ events' = [i \in Slots |-> IF i < Len(ready) THEN ready[i + 1] ELSE events[i]]
  /\ nfds' = Len(ready) /\ pos' = pos
  /\ ready' = <<>>
  /\ loop' = "scan"
  /\ moved' = (moved \/ Moves)
  /\ UNCHANGED <<net, watched, backlog, list, jobs, work, ring, getcmd, clash, slip>>

\* epoll_wait fills the array from the start and forgets the edges.
EpollWait ==
  /\ loop = "wait"
  /\ ready # <<>>
  /\ events' = [i \in Slots |-> IF i < Len(ready) THEN ready[i + 1] ELSE events[i]]
  /\ nfds' = Len(ready) /\ pos' = 0
  /\ ready' = <<>>
  /\ loop' = "scan"
  /\ moved' = (moved \/ Moves)
  /\ UNCHANGED <<net, watched, backlog, list, jobs, work, ring, getcmd, clash, slip>>

Step == pos' = pos + 1 /\ loop' = IF pos + 1 = nfds THEN "wait" ELSE "scan"

\* Mutant: accept until there is no connection left, the usual loop for an
\* edge-triggered socket.
AcceptAll ==
  /\ loop = "scan" /\ events[pos] = Listen
  /\ backlog # <<>>
  /\ clilist' = [i \in DOMAIN clilist |->
                   IF tailindex <= i /\ i < tailindex + Len(backlog)
                   THEN backlog[i - tailindex + 1] ELSE clilist[i]]
  /\ tailindex' = tailindex + Len(backlog)
  /\ watched' = watched \cup ToSet(backlog)
  /\ ready' = ready \o SelectSeq(backlog, Readable)
  /\ backlog' = <<>>
  /\ Step
  /\ UNCHANGED <<net, events, nfds, jobs, work, ring, getcmd, moved, clash, slip>>

\* Mutant: the new descriptor is not added to the epoll set.
AcceptUnwatched ==
  /\ loop = "scan" /\ events[pos] = Listen
  /\ backlog # <<>>
  /\ AddClient(Head(backlog))
  /\ backlog' = Tail(backlog)
  /\ Step
  /\ UNCHANGED <<net, epoll, events, nfds, jobs, work, ring, getcmd, moved, clash, slip>>

\* One connection per edge of the listening socket.
Accept ==
  /\ loop = "scan" /\ events[pos] = Listen
  /\ backlog # <<>>
  /\ LET c == Head(backlog) IN
       /\ AddClient(c)
       /\ watched' = watched \cup {c}
       /\ ready' = IF Readable(c) THEN Append(ready, c) ELSE ready
  /\ backlog' = Tail(backlog)
  /\ Step
  /\ UNCHANGED <<net, events, nfds, jobs, work, ring, getcmd, moved, clash, slip>>

\* accept may fail for other reasons than an empty backlog: clilen is read
\* without having been set (EINVAL), the connection was aborted, descriptors are
\* used up (get_ip leaks one a call).  start_server returns whatever it is, and
\* its array is dead: any entry may be overwritten.
AcceptFails ==
  /\ loop = "scan" /\ events[pos] = Listen
  /\ loop' = "returned"
  /\ \E lost \in SUBSET Slots :
       events' = [i \in Slots |-> IF i \in lost THEN None ELSE events[i]]
  /\ moved' = (moved \/ Moves)
  /\ UNCHANGED <<net, epoll, nfds, pos, backlog, list, jobs, work, ring, getcmd, clash, slip>>

\* The result of threadpool_add is not looked at: a full pool loses the edge.
Dispatch ==
  /\ loop = "scan" /\ events[pos] # Listen
  /\ jobs' = IF Len(jobs) < PoolQueue THEN Append(jobs, pos) ELSE jobs
  /\ Step
  /\ UNCHANGED <<net, epoll, events, nfds, backlog, list, work, ring, getcmd,
                 moved, clash, slip>>

-----------------------------------------------------------------------------
(* handle, by a worker                                                     *)

Take(w) ==
  /\ wpc[w] = "idle" /\ jobs # <<>>
  /\ slot' = [slot EXCEPT ![w] = Head(jobs)]
  /\ jobs' = Tail(jobs)
  /\ wpc'  = [wpc EXCEPT ![w] = "read"]
  /\ UNCHANGED <<net, epoll, server, list, line, push, ring, getcmd, moved, clash, slip>>

\* op_read returns data: what fits, and only what stands first is parsed.
Read(w) ==
  LET f == events[slot[w]] IN
  /\ wpc[w] = "read"
  /\ f \in Conns /\ inbox[f] # <<>>
  /\ line'  = [line EXCEPT ![w] = Head(inbox[f])]
  /\ inbox' = [inbox EXCEPT ![f] = SubSeq(@, ReadMax + 1, Len(@))]
  /\ wpc'   = [wpc EXCEPT ![w] = "parse"]
  /\ UNCHANGED <<peer, sent, replies, epoll, server, list, jobs, slot, push, ring,
                 getcmd, moved, clash, slip>>

\* op_read returns -1, nothing to read; or it reads what is no request, from a
\* descriptor that is not the server's.
ReadNothing(w) ==
  LET f == events[slot[w]] IN
  /\ wpc[w] = "read"
  /\ f # Listen /\ (f \in Conns => ~Readable(f))
  /\ wpc' = [wpc EXCEPT ![w] = "idle"]
  /\ UNCHANGED <<net, epoll, server, list, jobs, slot, line, push, ring, getcmd,
                 moved, clash, slip>>

\* read returns 0 or an error, as it does on the listening socket and may on a
\* descriptor that is not the server's.
ReadEnd(w) ==
  LET f == events[slot[w]] IN
  /\ wpc[w] = "read"
  /\ f \in Conns => inbox[f] = <<>> /\ Readable(f)
  /\ wpc' = [wpc EXCEPT ![w] = "delete"]
  /\ UNCHANGED <<net, epoll, server, list, jobs, slot, line, push, ring, getcmd,
                 moved, clash, slip>>

\* op_delete_event(fd) and del_clilist(member) follow the pointer again.
DeleteEvent(w) ==
  /\ wpc[w] = "delete"
  /\ Unwatch(events[slot[w]])
  /\ wpc' = [wpc EXCEPT ![w] = "forget"]
  /\ UNCHANGED <<net, server, list, jobs, slot, line, push, ring, getcmd, moved, clash, slip>>

ForgetClient(w) ==
  /\ wpc[w] = "forget"
  /\ DelClient(events[slot[w]])
  /\ wpc' = [wpc EXCEPT ![w] = "idle"]
  /\ UNCHANGED <<net, epoll, server, jobs, slot, line, push, ring, getcmd, moved, clash, slip>>

\* History: the push of w claims its slot from a tail that another push is about
\* to move, or claims the slot that a push a lap behind still fills.
Overlaps(w) ==
  \E v \in Workers \ {w} :
    \/ wpc[v] = "tail"
    \/ wpc[v] = "data" /\ next[v] = Succ(tail)

IsFull == Succ(tail) = front

\* protocol->parse(clisockfd, line): cmd.fd is read through the pointer, then
\* push_element looks for room and computes the slot.  A full queue loses the
\* command.
Parse(w) ==
  /\ wpc[w] = "parse"
  /\ line' = [line EXCEPT ![w] = None]
  /\ \/ /\ IsFull
        /\ wpc' = [wpc EXCEPT ![w] = "idle"]
        /\ UNCHANGED <<push, clash>>
     \/ /\ ~IsFull
        /\ wpc'  = [wpc EXCEPT ![w] = "tail"]
        /\ cmd'  = [cmd EXCEPT ![w] = [fd |-> events[slot[w]], req |-> line[w]]]
        /\ next' = [next EXCEPT ![w] = Succ(tail)]
        /\ clash' = (clash \/ Overlaps(w))
  /\ UNCHANGED <<net, epoll, server, list, jobs, slot, ring, getcmd, moved, slip>>

PushTail(w) ==
  /\ wpc[w] = "tail"
  /\ tail' = next[w]
  /\ wpc' = [wpc EXCEPT ![w] = "data"]
  /\ UNCHANGED <<net, epoll, server, list, jobs, slot, line, push, data, front, getcmd,
                 moved, clash, slip>>

PushData(w) ==
  /\ wpc[w] = "data"
  /\ data' = [data EXCEPT ![next[w]] = cmd[w]]
  /\ cmd'  = [cmd EXCEPT ![w] = Blank]
  /\ next' = [next EXCEPT ![w] = 0]
  /\ wpc'  = [wpc EXCEPT ![w] = "idle"]
  /\ UNCHANGED <<net, epoll, server, list, jobs, slot, line, front, tail, getcmd,
                 moved, clash, slip>>

-----------------------------------------------------------------------------
(* get_cmd: take the oldest command, execute it and write the reply to     *)
(* cmd.fd                                                                  *)

\* Mutant: get_cmd_head, which leaves the command in the queue.
PopHead ==
  /\ gpc = "pop" /\ front # tail
  /\ got' = data[Succ(front)]
  /\ gpc' = "write"
  /\ UNCHANGED <<net, epoll, server, list, jobs, work, ring, moved, clash, slip>>

Pop ==
  /\ gpc = "pop" /\ front # tail
  /\ front' = Succ(front)
  /\ gpc' = "copy"
  /\ UNCHANGED <<net, epoll, server, list, jobs, work, data, tail, got, moved, clash, slip>>

Copy ==
  /\ gpc = "copy"
  /\ got' = data[front]
  /\ gpc' = "write"
  /\ slip' = (slip \/ \E w \in Workers : wpc[w] = "data" /\ next[w] = front)
  /\ UNCHANGED <<net, epoll, server, list, jobs, work, ring, moved, clash>>

\* A write can succeed on an open connection, and on a descriptor that is not the
\* server's (0 in a slot that was never filled).
Writable(f) == f # Listen /\ (f \in Conns => peer[f] # "reset")
Gone(f)     == f \in Conns => peer[f] = "reset"

Reply ==
  /\ gpc = "write" /\ Writable(got.fd)
  /\ replies' = [c \in Conns |-> IF c = got.fd THEN Append(replies[c], got.req) ELSE replies[c]]
  /\ gpc' = "pop" /\ got' = Blank
  /\ UNCHANGED <<peer, sent, inbox, epoll, server, list, jobs, work, ring, moved, clash, slip>>

\* op_write returns -3 after it has removed the client.
ReplyFails ==
  /\ gpc = "write" /\ Gone(got.fd)
  /\ Unwatch(got.fd)
  /\ DelClient(got.fd)
  /\ gpc' = "pop" /\ got' = Blank
  /\ UNCHANGED <<net, server, jobs, work, ring, moved, clash, slip>>

-----------------------------------------------------------------------------
Client(c) == Connect(c) \/ Send(c) \/ \E how \in Leavings : Leave(c, how)
Loop      == EpollWait \/ Accept \/ AcceptFails \/ Dispatch
Handle(w) == \/ Take(w) \/ Read(w) \/ ReadNothing(w) \/ ReadEnd(w)
             \/ DeleteEvent(w) \/ ForgetClient(w)
             \/ Parse(w) \/ PushTail(w) \/ PushData(w)
GetCmd    == Pop \/ Copy \/ Reply \/ ReplyFails

Next ==
  \/ \E c \in Conns : Client(c)
  \/ Loop
  \/ \E w \in Workers : Handle(w)
  \/ GetCmd

Spec == Init /\ [][Next]_vars

\* The program's threads are scheduled; clients do as they please.
FairSpec == /\ Spec
            /\ WF_vars(Loop)
            /\ WF_vars(GetCmd)
            /\ \A w \in Workers : WF_vars(Handle(w))

-----------------------------------------------------------------------------
(* Properties                                                              *)

Requests == [from : Conns, n : 1..MaxSent]
Commands == [fd : Fds \cup {None}, req : Requests] \cup {Blank}

TypeOK ==
  /\ peer \in [Conns -> {"new", "open", "closed", "reset"}]
  /\ sent \in [Conns -> 0..MaxSent]
  /\ inbox \in [Conns -> Seq(Requests)] /\ replies \in [Conns -> Seq(Requests)]
  /\ backlog \in Seq(Conns)
  /\ watched \subseteq Fds
  /\ ready \in Seq(watched) /\ IsInjective(ready)
  /\ loop \in {"wait", "scan", "returned"}
  /\ events \in [Slots -> Fds \cup {None}]
  /\ nfds \in 0..Cardinality(Slots) /\ pos \in 0..nfds
  /\ clilist \in [Slots -> Conns \cup {None}]
  /\ tailindex \in Int
  /\ jobs \in Seq(Slots) /\ Len(jobs) <= PoolQueue
  /\ wpc \in [Workers -> {"idle", "read", "delete", "forget", "parse", "tail", "data"}]
  /\ slot \in [Workers -> Slots]
  /\ line \in [Workers -> Requests \cup {None}]
  /\ cmd \in [Workers -> Commands] /\ next \in [Workers -> Ring]
  /\ data \in [Ring -> Commands] /\ front \in Ring /\ tail \in Ring
  /\ gpc \in {"pop", "copy", "write"} /\ got \in Commands
  /\ {moved, clash, slip} \subseteq BOOLEAN

\* The listening socket is non-blocking and start_server returns for ever when
\* accept fails, so an edge without a connection behind it would end the server.
\* Edges merge and are reported late, but one accept per edge never finds the
\* backlog empty: it is always another error that ends the loop.
AcceptFinds == loop = "scan" /\ events[pos] = Listen => backlog # <<>>

\* However the threads race for the array and the sockets, a request is answered
\* at most once, counting the replies of all clients.  Only the ring can repeat
\* one: two pushes that claim one slot, or a slot taken before it is filled.
AnsweredOnce ==
  ~clash /\ ~slip =>
    \A c, d \in Conns : \A i \in 1..Len(replies[c]), k \in 1..Len(replies[d]) :
      replies[c][i] = replies[d][k] => c = d /\ i = k

Accepted == {c \in Conns : peer[c] # "new" /\ ~Contains(backlog, c)}

\* The pointers into events[] are the only way in which clients are mistaken for
\* each other: until the loop refills or leaves the array under a pointer, every
\* command answers the client that sent it, and no client is taken out of the
\* epoll set before it leaves.
OnlyPointersMistake ==
  ~moved =>
    /\ got.req # None => got.fd = got.req.from
    /\ \A c \in Accepted : peer[c] = "open" => c \in watched

\* A client that is alone and waits for each reply gets it, unless it leaves,
\* accept has failed, or a slot of the ring was taken before it was filled.
Answered ==
  \A c \in Conns, n \in 1..MaxSent :
    sent[c] >= n ~> \/ Len(Own(c)) >= n \/ peer[c] # "open"
                    \/ loop = "returned" \/ slip

\* A client that is alone and has left, not before its replies, is removed from
\* the epoll set and from the list.  (One that leaves with a request unread is
\* not: one edge stands for the request and the end, and one read sees the
\* request.)
Forgotten ==
  \A c \in Conns :
    peer[c] = "closed" ~>
      /\ c \notin watched
      /\ \A i \in Slots : i < tailindex => clilist[i] # c

\* handle.h: cmd.fd is "the client's fd", never another client's.
CmdFd == \A s \in Ring : data[s].fd \in Conns => data[s].fd = data[s].req.from

=============================================================================
