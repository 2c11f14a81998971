----------------------------- MODULE Dispatcher -----------------------------
(***************************************************************************)
(* The command thread: get_cmd of handle/handle.c, the command list of     *)
(* functions/function_manager.c and the commands of functions/*.c, with    *)
(* the static variables and the one reply buffer they share.               *)
(*                                                                         *)
(* One thread executes commands, so a command with its reply is one step,  *)
(* but for strtok: network.c cuts addresses with it while workers cut text *)
(* requests, and libc has one position for all (TextProtocol models what   *)
(* that does to the workers).  What the calls into the system answer is    *)
(* chosen.  The program may end instead of a step where it reads past its  *)
(* reply buffer; that shows as a behaviour that stops.                     *)
(*                                                                         *)
(* A name that no command registers is Other.  Interface names are shorter *)
(* than the six characters that the statics have for them.                 *)
(***************************************************************************)
EXTENDS Integers, Sequences, FiniteSets

CONSTANTS
  Devs,       \* network interfaces of the machine
  NoDev,      \* a name that is no interface
  Addrs,      \* IP addresses
  Times,      \* values of the clock
  None,       \* nothing
  Garbled,    \* four bytes that are not the address they stand for
  Statuses,   \* what system() may return
  MaxSocks,   \* sockets the process may still open
  Used        \* bound: the commands that clients send

Other == "set_wifi"

\* cmd_register_enter, in its order.
Table == <<"help", "reboot", "get_ip", "set_ip", "preview_on", "preview_off",
           "set_date", "add_user", "sys_info">>

Names == {Table[i] : i \in DOMAIN Table} \cup {Other}

ASSUME DispatcherAssumption ==
  /\ NoDev \notin Devs /\ None \notin Devs \cup {NoDev} \cup Addrs \cup Times
  /\ Garbled \notin Addrs \cup {None}
  /\ 0 \in Statuses /\ Statuses \subseteq Int
  /\ MaxSocks \in Nat
  /\ Used \subseteq Names

VARIABLES
  registry,   \* the list from g_ptCmdListHead, names only
  flag,       \* network.c: flag
  ip_info,    \* network.c: ip_info and ip_info_text
  ip_info_text,
  mode,       \* system.c: mode, nowTm2 and result
  nowTm2,
  result,
  reply,      \* get_cmd: reply
  socks,      \* sockets get_ip and set_hand_ip have left open
  addr,       \* the address of each interface
  camera,     \* whether the camera records
  rtsp,       \* whether the RTSP server previews
  last,       \* the last command and what became of it
  wanted      \* history: what the last preview command has made run, if both
              \* its scripts succeeded

network == <<flag, ip_info, ip_info_text, socks, addr>>
system  == <<mode, nowTm2, result>>
media   == <<camera, rtsp, wanted>>
vars    == <<registry, network, system, reply, media, last>>

\* What a handler reads of a request: the interface it names, the address it
\* gives, whether it asks to change something (first byte 1).
ArgsOf(name) ==
  CASE name = "get_ip" -> [dev : Devs \cup {NoDev}]
    [] name = "set_ip" -> [dev : Devs \cup {NoDev}, ip : Addrs \cup {None}]
    [] name \in {"set_date", "add_user"} -> [set : BOOLEAN]
    [] OTHER -> {None}

\* A binary command with an id of its protocol's table has the name of that
\* id; with another id it keeps the name that the worker's stack held, any name
\* and help among them.  A text command has the cmd_id that the stack held, and
\* if that is not 0 its handler reads data, from the stack as well.  So every
\* name comes with every cmd_id and every argument.
Cmds == UNION {[cmd_id : {0, 1}, name : {n}, arg : ArgsOf(n)] : n \in Used}

IsText(c) == c.cmd_id = 0

NO_DEV     == 22
ERR_PARAMS == 23

-----------------------------------------------------------------------------
(* Replies                                                                 *)

NoInfo == [dev |-> None, ip |-> None]

\* What get_cmd sends for the result of do_cmd_list or do_text_cmd.
Sent(c, ret) ==
  CASE ~IsText(c) /\ ret > 0  -> "frame"
    [] ~IsText(c) /\ ret <= 0 -> "nothing"
    [] IsText(c) /\ ret >= 0  -> "done"
    [] OTHER                  -> "error"

Record(c, ret, fresh, done) ==
  last' = [cmd |-> c, ret |-> ret, fresh |-> fresh, done |-> done, sent |-> Sent(c, ret)]

\* The handler returned ret # 0, or there is no get_reply: the buffer keeps
\* what an earlier command left in it.
Return(c, ret, done) == UNCHANGED reply /\ Record(c, ret, FALSE, done)

\* get_reply wrote content and returned its length.
GetReply(c, content, length, done) == reply' = content /\ Record(c, length, TRUE, done)

\* The list is walked by name.
Find(name) == \E i \in DOMAIN registry : registry[i] = name

-----------------------------------------------------------------------------
Init ==
  /\ registry = <<>>
  /\ flag = 0 /\ ip_info = NoInfo /\ ip_info_text = NoInfo
  /\ mode = 0 /\ nowTm2 = None /\ result = 0
  /\ reply = [kind |-> "unset", of |-> None]
  /\ socks = 0
  /\ addr \in [Devs -> Addrs]
  /\ camera = TRUE /\ rtsp = FALSE /\ wanted = "camera"
  /\ last = None

\* main registers the commands after it has started the command thread.
RegisterCmd ==
  /\ Len(registry) < Len(Table)
  /\ registry' = Append(registry, Table[Len(registry) + 1])
  /\ UNCHANGED <<network, system, reply, media, last>>

Unknown(c) ==
  /\ ~Find(c.name)
  /\ Return(c, -1, FALSE)
  /\ UNCHANGED <<registry, network, system, media>>

\* text_do_help writes its lines itself; the binary path finds no do_cmd.
Help(c) ==
  /\ c.name = "help" /\ Find("help")
  /\ Return(c, 0, IsText(c))
  /\ UNCHANGED <<registry, network, system, media>>

\* The machine restarts, or reboot fails.  Interfaces keep their addresses.
Reboot(c) ==
  /\ c.name = "reboot" /\ Find("reboot")
  /\ \/ /\ registry' = <<>>
        /\ flag' = 0 /\ ip_info' = NoInfo /\ ip_info_text' = NoInfo
        /\ mode' = 0 /\ nowTm2' = None /\ result' = 0
        /\ reply' = [kind |-> "unset", of |-> None]
        /\ camera' = TRUE /\ rtsp' = FALSE /\ wanted' = "camera"
        /\ socks' = 0 /\ last' = None
        /\ UNCHANGED addr
     \/ /\ Return(c, -1, FALSE)
        /\ UNCHANGED <<registry, network, system, media>>

-----------------------------------------------------------------------------
(* network.c                                                               *)

\* get_ip: the socket it opens is never closed.
GetIpFails(dev)  == socks = MaxSocks \/ dev \notin Devs
OpenSocket       == socks' = IF socks < MaxSocks THEN socks + 1 ELSE socks

\* get_ip_reply: flag tells which of the two statics holds the answer.
IpReply == IF flag' = 1 THEN [kind |-> "text", of |-> ip_info_text']
                        ELSE [kind |-> "hex", of |-> ip_info']

\* ip_to_hex_str cuts the address with strtok.  If a worker calls strtok in
\* between, the bytes are those of the worker's words as well, and more than
\* four of them run over what follows ip_info.
IpToHexStr(dev) ==
  \/ /\ ip_info' = [dev |-> dev, ip |-> addr[dev]]
     /\ UNCHANGED ip_info_text
  \/ /\ ip_info' = [dev |-> dev, ip |-> Garbled]
     /\ ip_info_text' \in {ip_info_text, NoInfo}

BinGetIp(c) ==
  LET dev == c.arg.dev IN
  /\ c.name = "get_ip" /\ Find("get_ip") /\ ~IsText(c)
  /\ UNCHANGED <<registry, addr, system, media>>
  /\ OpenSocket
  /\ IF GetIpFails(dev)
     THEN /\ ip_info' = [dev |-> dev, ip |-> None]
          /\ UNCHANGED <<flag, ip_info_text>>
          /\ Return(c, -NO_DEV, FALSE)
     ELSE /\ IpToHexStr(dev)
          /\ flag' = 0
          /\ GetReply(c, IpReply, 10, TRUE)

\* Mutant: flag is not set.
TextGetIpKeepsFlag(c) ==
  LET dev == c.arg.dev IN
  /\ c.name = "get_ip" /\ Find("get_ip") /\ IsText(c)
  /\ UNCHANGED <<registry, ip_info, addr, system, media>>
  /\ OpenSocket
  /\ UNCHANGED flag
  /\ IF GetIpFails(dev)
     THEN /\ ip_info_text' = [dev |-> dev, ip |-> None]
          /\ Return(c, -NO_DEV, FALSE)
     ELSE /\ ip_info_text' = [dev |-> dev, ip |-> addr[dev]]
          /\ GetReply(c, IpReply, 10, TRUE)

TextGetIp(c) ==
  LET dev == c.arg.dev IN
  /\ c.name = "get_ip" /\ Find("get_ip") /\ IsText(c)
  /\ UNCHANGED <<registry, ip_info, addr, system, media>>
  /\ OpenSocket
  /\ IF GetIpFails(dev)
     THEN /\ ip_info_text' = [dev |-> dev, ip |-> None]
          /\ UNCHANGED flag
          /\ Return(c, -NO_DEV, FALSE)
     ELSE /\ ip_info_text' = [dev |-> dev, ip |-> addr[dev]]
          /\ flag' = 1
          /\ GetReply(c, IpReply, 10, TRUE)

\* Mutant: an error code is returned without its sign.
SetDeviceIpPositive(c, dev, ip) ==
  /\ UNCHANGED <<socks, addr>>
  /\ Return(c, ERR_PARAMS, FALSE)

\* check_right_ip counts the parts of the address, with the strtok it shares
\* with the workers, and compares only the first: it may refuse an address and
\* let through what is none.  set_hand_ip reads a copy without terminator, so
\* the address set may be another one; it closes its socket only where
\* everything succeeded, and may fail to bring the interface up after it has
\* set the address.
SetDeviceIp(c, dev, ip) ==
  \/ /\ Return(c, -ERR_PARAMS, FALSE)
     /\ UNCHANGED <<socks, addr>>
  \/ /\ socks = MaxSocks
     /\ Return(c, -1, FALSE)
     /\ UNCHANGED <<socks, addr>>
  \/ /\ socks < MaxSocks
     /\ Return(c, -ERR_PARAMS, FALSE)
     /\ socks' = socks + 1
     /\ UNCHANGED addr
  \/ /\ socks < MaxSocks /\ dev \in Devs
     /\ \E new \in Addrs :
          /\ addr' = [addr EXCEPT ![dev] = new]
          /\ \/ Return(c, 0, new = ip) /\ UNCHANGED socks
             \/ Return(c, -1, FALSE) /\ socks' = socks + 1

\* ip_info has 4 bytes for the address: a longer one runs over what the
\* linker put behind it: flag and ip_info_text may or may not be lost.
BinSetIp(c) ==
  /\ c.name = "set_ip" /\ Find("set_ip") /\ ~IsText(c)
  /\ ip_info' = [dev |-> c.arg.dev, ip |-> c.arg.ip]
  /\ SetDeviceIp(c, c.arg.dev, c.arg.ip)
  /\ ip_info_text' \in {ip_info_text, NoInfo} /\ flag' \in {0, 1}
  /\ UNCHANGED <<registry, system, media>>

\* Its ip_info_text is a local variable.
TextSetIp(c) ==
  /\ c.name = "set_ip" /\ Find("set_ip") /\ IsText(c)
  /\ SetDeviceIp(c, c.arg.dev, c.arg.ip)
  /\ UNCHANGED <<registry, flag, ip_info, ip_info_text, system, media>>

-----------------------------------------------------------------------------
(* system.c                                                                *)

\* set_date_reply: mode tells a query from a setting.
DateReply == IF mode' = 0 THEN [kind |-> "time", of |-> nowTm2']
                          ELSE [kind |-> "verdict", of |-> FALSE]

\* Set the hardware clock and then the system's.  When the first fails the
\* second is not tried and the command goes on as a success.
SetClock(c) ==
  /\ c.arg.set
  /\ mode' = 1
  /\ UNCHANGED nowTm2
  /\ \E hwclock, date \in Statuses :
       IF hwclock = 0 /\ date # 0
       THEN Return(c, date, FALSE)
       ELSE GetReply(c, DateReply, 1, hwclock = 0)

\* Mutant: mode is not set back by a query.
QueryClockKeepsMode(c) ==
  /\ ~c.arg.set
  /\ nowTm2' \in Times
  /\ UNCHANGED mode
  /\ GetReply(c, DateReply, 11, TRUE)

QueryClock(c) ==
  /\ ~c.arg.set
  /\ mode' = 0
  /\ nowTm2' \in Times
  /\ GetReply(c, DateReply, 11, TRUE)

BinSetDate(c) ==
  /\ c.name = "set_date" /\ Find("set_date") /\ ~IsText(c)
  /\ QueryClock(c) \/ SetClock(c)
  /\ UNCHANGED <<registry, network, result, media>>

\* text_set_system_date does nothing; set_date_reply answers as for the last
\* binary command.
TextSetDate(c) ==
  /\ c.name = "set_date" /\ Find("set_date") /\ IsText(c)
  /\ UNCHANGED <<registry, network, system, media>>
  /\ GetReply(c, DateReply, 11, FALSE)

\* Mutant: add_system_user_reply does not clear result.
AddUserReplyKeeps(c, failed, done) ==
  /\ GetReply(c, [kind |-> "verdict", of |-> failed \/ result = 1], 1, done)
  /\ result' = IF failed THEN 1 ELSE result

\* add_system_user sets result, add_system_user_reply clears it.
AddUserReply(c, failed, done) ==
  /\ GetReply(c, [kind |-> "verdict", of |-> failed \/ result = 1], 1, done)
  /\ result' = 0

BinAddUser(c) ==
  /\ c.name = "add_user" /\ Find("add_user") /\ ~IsText(c)
  /\ IF c.arg.set THEN \E status \in Statuses : AddUserReply(c, status # 0, status = 0)
                  ELSE AddUserReply(c, FALSE, FALSE)
  /\ UNCHANGED <<registry, network, mode, nowTm2, media>>

\* text_add_system_user does nothing.
TextAddUser(c) ==
  /\ c.name = "add_user" /\ Find("add_user") /\ IsText(c)
  /\ AddUserReply(c, FALSE, FALSE)
  /\ UNCHANGED <<registry, network, mode, nowTm2, media>>

SysInfo(c) ==
  /\ c.name = "sys_info" /\ Find("sys_info")
  /\ GetReply(c, [kind |-> "info", of |-> None], 32, TRUE)
  /\ UNCHANGED <<registry, network, system, media>>

-----------------------------------------------------------------------------
(* media.c: the result of the first script is not looked at.               *)

\* A script that fails may or may not have stopped or started its server.
Stop(running, status)  == IF status = 0 THEN {FALSE} ELSE {running, FALSE}
Start(running, status) == IF status = 0 THEN {TRUE} ELSE {running, TRUE}

Preview(c, stop, start, server) ==
  /\ wanted' = IF stop = 0 /\ start = 0 THEN server ELSE "unsure"
  /\ Return(c, start, stop = 0 /\ start = 0)

PreviewOn(c) ==
  /\ c.name = "preview_on" /\ Find("preview_on")
  /\ \E stop, start \in Statuses :
       /\ camera' \in Stop(camera, stop) /\ rtsp' \in Start(rtsp, start)
       /\ Preview(c, stop, start, "rtsp")
  /\ UNCHANGED <<registry, network, system>>

\* Mutant: the server is not stopped.
PreviewOffOnlyStarts(c) ==
  /\ c.name = "preview_off" /\ Find("preview_off")
  /\ \E start \in Statuses :
       /\ camera' \in Start(camera, start)
       /\ Preview(c, 0, start, "camera")
  /\ UNCHANGED <<registry, network, system, rtsp>>

PreviewOff(c) ==
  /\ c.name = "preview_off" /\ Find("preview_off")
  /\ \E stop, start \in Statuses :
       /\ rtsp' \in Stop(rtsp, stop) /\ camera' \in Start(camera, start)
       /\ Preview(c, stop, start, "camera")
  /\ UNCHANGED <<registry, network, system>>

-----------------------------------------------------------------------------
DoCmd(c) ==
  \/ Unknown(c) \/ Help(c) \/ Reboot(c)
  \/ BinGetIp(c) \/ TextGetIp(c) \/ BinSetIp(c) \/ TextSetIp(c)
  \/ BinSetDate(c) \/ TextSetDate(c) \/ BinAddUser(c) \/ TextAddUser(c) \/ SysInfo(c)
  \/ PreviewOn(c) \/ PreviewOff(c)

Next == RegisterCmd \/ \E c \in Cmds : DoCmd(c)

Spec == Init /\ [][Next]_vars

-----------------------------------------------------------------------------
(* Properties                                                              *)

\* The last command executed had this name, and its get_reply was reached.
Answered(name) == last # None /\ last.cmd.name = name /\ last.fresh

\* get_ip keeps its answer in one of two statics and flag says in which, while
\* set_ip runs over all three: a reply names the interface of this request in
\* the form of the path it came by, with its address of now.  Only the address
\* of a binary reply can be wrong, where a worker's strtok came in between, and
\* never is it one that an earlier request asked for.
AddressOwn ==
  Answered("get_ip") =>
    /\ reply.kind = IF IsText(last.cmd) THEN "text" ELSE "hex"
    /\ reply.of.dev = last.cmd.arg.dev
    /\ \/ reply.of.ip = addr[last.cmd.arg.dev]
       \/ reply.of.ip = Garbled /\ ~IsText(last.cmd)

\* set_date is a query and a setter with one get_reply: the reply is of the
\* kind this request asks for.  (Not so on the text path, which has no handler.)
DateOwn ==
  Answered("set_date") /\ ~IsText(last.cmd) =>
    reply.kind = IF last.cmd.arg.set THEN "verdict" ELSE "time"

\* result outlives the command that sets it: a binary add_user says it failed
\* exactly when this request failed to add a user, never for an earlier one.
\* The text path adds no user, whatever its usage says, and is always told
\* that it succeeded, after a binary request that failed as well.
VerdictOwn ==
  Answered("add_user") =>
    IF IsText(last.cmd) THEN ~reply.of
                        ELSE reply.of <=> last.cmd.arg.set /\ ~last.done

Scripted == {"set_date", "preview_on", "preview_off"}

\* get_cmd's reply buffer is shared by all commands and a result above 0 is
\* taken for a length.  A frame that no get_reply wrote is sent only for a
\* command that hands on the status of a script, positive because the script
\* failed (and above the buffer's 512 bytes for every exit code but 1 and 2);
\* as text, besides, for commands that have no reply of their own.
StaleReplyCause ==
  last # None /\ last.sent \in {"frame", "done"} /\ ~last.fresh =>
    \/ last.ret > 0 /\ last.cmd.name \in Scripted /\ ~last.done
    \/ /\ last.ret = 0 /\ last.sent = "done"
       /\ last.cmd.name \notin {"get_ip", "set_date", "add_user", "sys_info"}

\* Camera and RTSP server exclude each other, but a script that fails to stop
\* the one does not keep the other from being started.  Whatever earlier
\* scripts have left running, a preview command whose scripts succeed leaves
\* the one it is for, alone, until the next preview command.
MediaMended ==
  /\ wanted = "rtsp"   => rtsp /\ ~camera
  /\ wanted = "camera" => camera /\ ~rtsp

=============================================================================
