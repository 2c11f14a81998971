------------------------------ MODULE Startup -------------------------------
(***************************************************************************)
(* main.c with what it starts: config_file, the server thread, the command *)
(* thread, the lists of protocols and of commands, which main fills while  *)
(* both threads run, and the requests that meet them at that time.  Any    *)
(* call may fail; main looks only at the first two.  The machine may go    *)
(* down at any time (it has a reboot command), and main runs again.        *)
(*                                                                         *)
(* The workers push to the ring of handle/queue.c without a lock (CmdQueue *)
(* has it in detail): two pushes can claim one slot, and the command       *)
(* thread can take a slot that is claimed and not yet filled.              *)
(***************************************************************************)
EXTENDS ConfigFile

CONSTANTS
  Requests,   \* requests that clients send
  ProtocolOf, \* the protocol each one is written in
  CommandOf,  \* the command each one names
  QueueSize,  \* QUEUESIZE
  None,       \* a slot that was never filled
  MaxBoots    \* bound: how often the machine goes down

\* The order of main's calls.
Following ==
  [config |-> "logger", logger |-> "server", server |-> "queue", queue |-> "ht",
   ht |-> "sl", sl |-> "text", text |-> "commands", commands |-> "sleep"]

\* cmd_register_enter: help, then reboot, network, media, system.
Table == <<"help", "reboot", "get_ip", "set_ip", "preview_on", "preview_off",
           "set_date", "add_user", "sys_info">>

Protocols == {"ht", "sl", "text"}

ASSUME StartupAssumption ==
  /\ ProtocolOf \in [Requests -> Protocols]
  /\ CommandOf \in [Requests -> {Table[i] : i \in DOMAIN Table}]
  /\ QueueSize \in Nat \ {0, 1} /\ None \notin Requests
  /\ MaxBoots \in Nat

VARIABLES
  main,       \* the call main makes next
  protocols,  \* ptProtocolSupportedHead
  commands,   \* how many commands of Table are in the list
  server,     \* the server thread
  get_cmd,    \* whether the command thread runs
  data,       \* cmd_circle_queue's slots,
  front,      \* the one before the oldest command
  tail,       \* and that of the youngest
  request,    \* what became of each request; a worker handles it
  next,       \* the slot that its worker has claimed
  late,       \* history: requests sent when main slept
  raced,      \* history: two pushes claimed one slot, or one was taken unfilled
  boots       \* how often the machine went down

threads == <<server, get_cmd>>
ring    == <<data, front, tail>>
traffic == <<ring, request, next, late, raced>>
lists   == <<protocols, commands>>
vars    == <<config, main, lists, threads, traffic, boots>>

Slots == 0..QueueSize-1

\* (i + 1) % QUEUESIZE
Succ(i) == IF i = QueueSize - 1 THEN 0 ELSE i + 1

Init ==
  /\ ConfigInit
  /\ main = "config"
  /\ protocols = {} /\ commands = 0
  /\ server = "none" /\ get_cmd = FALSE
  /\ data = [s \in Slots |-> None] /\ front = 0 /\ tail = 0
  /\ request = [r \in Requests |-> "unsent"]
  /\ next = [r \in Requests |-> 0]
  /\ late = {} /\ raced = FALSE
  /\ boots = 0

-----------------------------------------------------------------------------
(* main                                                                    *)

Config ==
  /\ main = "config"
  /\ ConfigStep
  /\ UNCHANGED <<main, lists, threads, traffic, boots>>

ConfigReturns ==
  /\ main = "config"
  /\ \/ ConfigReturn("done") /\ main' = Following["config"]
     \/ ConfigReturn("failed") /\ main' = "exited"
  /\ UNCHANGED <<lists, threads, traffic, boots>>

Logger ==
  /\ main = "logger"
  /\ main' \in {Following["logger"], "exited"}
  /\ UNCHANGED <<config, lists, threads, traffic, boots>>

\* The result of start_server_thread is not looked at ...
StartServer ==
  /\ main = "server"
  /\ server' \in {"create", "none"}
  /\ main' = Following["server"]
  /\ UNCHANGED <<config, lists, get_cmd, traffic, boots>>

\* ... nor that of start_cmd_thread: without memory for the queue or without a
\* thread there is nobody to take a command.  (The queue itself is static.)
StartCmd ==
  /\ main = "queue"
  /\ get_cmd' \in BOOLEAN
  /\ main' = Following["queue"]
  /\ UNCHANGED <<config, lists, server, traffic, boots>>

\* Mutant: every protocol becomes the head of the list.
RegisterProtocolHead ==
  /\ main \in Protocols
  /\ protocols' = {main}
  /\ main' = Following[main]
  /\ UNCHANGED <<config, commands, threads, traffic, boots>>

RegisterProtocol ==
  /\ main \in Protocols
  /\ protocols' = protocols \cup {main}
  /\ main' = Following[main]
  /\ UNCHANGED <<config, commands, threads, traffic, boots>>

RegisterCmd ==
  /\ main = "commands"
  /\ commands' = commands + 1
  /\ main' = IF commands' = Len(Table) THEN Following["commands"] ELSE main
  /\ UNCHANGED <<config, protocols, threads, traffic, boots>>

Main == \/ Config \/ ConfigReturns \/ Logger \/ StartServer \/ StartCmd
        \/ RegisterProtocol \/ RegisterCmd

-----------------------------------------------------------------------------
(* The server and the requests                                             *)

\* start_server: without a pool the thread ends.
CreatePool ==
  /\ server = "create"
  /\ server' \in {"bind", "ended"}
  /\ UNCHANGED <<config, main, lists, get_cmd, traffic, boots>>

\* init_servsock, whose -1 is added to epoll like a descriptor: the server
\* waits for ever and hears nothing.
InitServsock ==
  /\ server = "bind"
  /\ server' \in {"listening", "deaf"}
  /\ UNCHANGED <<config, main, lists, get_cmd, traffic, boots>>

Send(r) ==
  /\ server = "listening" /\ request[r] = "unsent"
  /\ request' = [request EXCEPT ![r] = "sent"]
  /\ late' = IF main = "sleep" THEN late \cup {r} ELSE late
  /\ UNCHANGED <<config, main, lists, threads, ring, next, raced, boots>>

\* History: the push of r claims its slot from a tail that another push is about
\* to move, or claims the slot that a push a lap behind still fills.
Overlaps(r) ==
  \E q \in Requests \ {r} :
    \/ request[q] = "claiming"
    \/ request[q] = "filling" /\ next[q] = Succ(tail)

\* A worker looks for the protocol.  Without one it drops the request; its parse
\* function looks for room and computes the slot ...
Parse(r) ==
  /\ request[r] = "sent"
  /\ \/ /\ ProtocolOf[r] \notin protocols
        /\ request' = [request EXCEPT ![r] = "dropped"]
        /\ UNCHANGED <<next, raced>>
     \/ /\ ProtocolOf[r] \in protocols
        /\ request' = [request EXCEPT ![r] = IF Succ(tail) = front THEN "full" ELSE "claiming"]
        /\ next' = [next EXCEPT ![r] = Succ(tail)]
        /\ raced' = (raced \/ (Succ(tail) # front /\ Overlaps(r)))
  /\ UNCHANGED <<config, main, lists, threads, ring, late, boots>>

\* ... claims it ...
PushTail(r) ==
  /\ request[r] = "claiming"
  /\ tail' = next[r]
  /\ request' = [request EXCEPT ![r] = "filling"]
  /\ UNCHANGED <<config, main, lists, threads, data, front, next, late, raced, boots>>

\* ... and fills it.
PushData(r) ==
  /\ request[r] = "filling"
  /\ data' = [data EXCEPT ![next[r]] = r]
  /\ request' = [request EXCEPT ![r] = "queued"]
  /\ UNCHANGED <<config, main, lists, threads, front, tail, next, late, raced, boots>>

Handle(r) == Parse(r) \/ PushTail(r) \/ PushData(r)

Registered(name) == \E i \in 1..commands : Table[i] = name

\* Mutant: the youngest command is left in the queue.
TakeEarly ==
  /\ get_cmd /\ front # tail /\ Succ(front) # tail
  /\ front' = Succ(front)
  /\ request' = [r \in Requests |->
                   IF r # data[front'] THEN request[r]
                   ELSE IF Registered(CommandOf[r]) THEN "answered" ELSE "unknown"]
  /\ raced' = (raced \/ \E r \in Requests : request[r] = "filling" /\ next[r] = front')
  /\ UNCHANGED <<config, main, lists, threads, data, tail, next, late, boots>>

\* The command thread pops what is in the next slot and looks for the command.
Take ==
  /\ get_cmd /\ front # tail
  /\ front' = Succ(front)
  /\ request' = [r \in Requests |->
                   IF r # data[front'] THEN request[r]
                   ELSE IF Registered(CommandOf[r]) THEN "answered" ELSE "unknown"]
  /\ raced' = (raced \/ \E r \in Requests : request[r] = "filling" /\ next[r] = front')
  /\ UNCHANGED <<config, main, lists, threads, data, tail, next, late, boots>>

\* The process is gone with all its memory; the clients see it and may ask again.
Crash ==
  /\ boots < MaxBoots /\ boots' = boots + 1
  /\ ConfigCrash
  /\ main' = "config"
  /\ protocols' = {} /\ commands' = 0
  /\ server' = "none" /\ get_cmd' = FALSE
  /\ data' = [s \in Slots |-> None] /\ front' = 0 /\ tail' = 0
  /\ request' = [r \in Requests |-> "unsent"]
  /\ next' = [r \in Requests |-> 0]
  /\ late' = {} /\ raced' = FALSE

-----------------------------------------------------------------------------
Next ==
  \/ Main
  \/ CreatePool
  \/ InitServsock
  \/ \E r \in Requests : Send(r) \/ Handle(r)
  \/ Take
  \/ Crash

Spec == Init /\ [][Next]_vars

\* Threads are scheduled; clients and crashes owe nothing.
FairSpec ==
  /\ Spec
  /\ WF_vars(Main) /\ WF_vars(CreatePool) /\ WF_vars(InitServsock) /\ WF_vars(Take)
  /\ \A r \in Requests : WF_vars(Handle(r))

-----------------------------------------------------------------------------
(* Properties                                                              *)

\* The server accepts requests before main has registered anything.  Such a
\* request may find no protocol or no command, but one that was sent when main
\* had finished never does, in whatever start.
RefusedOnlyEarly ==
  \A r \in late : request[r] \notin {"dropped", "unknown"}

\* The worker's push and main's start_cmd_thread are not ordered by any lock:
\* it is main's order that lets nothing into the queue before it is set up.
QueueSetUpFirst ==
  front # tail => main \notin {"config", "logger", "server", "queue"}

\* main ends or comes to its endless sleep, however the file is built that
\* config_file scans and whatever fails.
MainSettles == <>[](main \in {"sleep", "exited"})

\* A request to a server that has finished its start is answered, unless there
\* was no command thread to be had, the queue is full, the machine goes down, or
\* the ring races: two workers push at once, or the command thread takes a slot
\* before its command is there.
LateAnswered ==
  \A r \in Requests :
    (r \in late /\ get_cmd) ~> (request[r] \in {"answered", "full"} \/ raced \/ main = "config")

=============================================================================
