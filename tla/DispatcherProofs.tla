-------------------------- MODULE DispatcherProofs --------------------------
(***************************************************************************)
(* Proofs about Dispatcher: the replies of the commands that keep their    *)
(* answer in static variables, the causes of stale replies, and the media  *)
(* scripts.  Each property of a reply relates the last command to the      *)
(* reply buffer, and each command rewrites both, so an action that is not  *)
(* the command in question settles it by the name.                         *)
(***************************************************************************)
EXTENDS Dispatcher, TLAPS

\* A command that returns before its get_reply leaves nothing to answer for.
LEMMA ReturnAnswersNothing ==
  ASSUME NEW c, NEW ret, NEW done, Return(c, ret, done), NEW name
  PROVE  ~Answered(name)'
  BY DEF Return, Record, Answered

\* A command with a reply is the last one executed, under its own name.
LEMMA ReplyNamesCommand ==
  ASSUME NEW c, NEW content, NEW length, NEW done, GetReply(c, content, length, done)
  PROVE  /\ last'.cmd = c /\ last'.done = done /\ reply' = content
         /\ \A name : Answered(name)' => name = c.name
  BY DEF GetReply, Record, Answered

-----------------------------------------------------------------------------
(* Which command answers.                                                  *)

\* An execution that is no get_ip and reaches a get_reply answers for another
\* command; the other executions answer for none.
LEMMA OtherThanGetIp ==
  ASSUME NEW c, DoCmd(c), ~BinGetIp(c), ~TextGetIp(c)
  PROVE  ~Answered("get_ip")'
<1>1. CASE Unknown(c) \/ Help(c) \/ PreviewOn(c) \/ PreviewOff(c)
  BY <1>1, ReturnAnswersNothing DEF Unknown, Help, PreviewOn, PreviewOff, Preview
<1>2. CASE Reboot(c)
  BY <1>2, ReturnAnswersNothing DEF Reboot, Answered
<1>3. CASE BinSetIp(c) \/ TextSetIp(c)
  BY <1>3, ReturnAnswersNothing DEF BinSetIp, TextSetIp, SetDeviceIp
<1>4. CASE BinSetDate(c)
  <2>1. CASE QueryClock(c)
    BY <1>4, <2>1, ReplyNamesCommand DEF BinSetDate, QueryClock
  <2>2. CASE SetClock(c)
    BY <1>4, <2>2, ReplyNamesCommand, ReturnAnswersNothing DEF BinSetDate, SetClock
  <2> QED BY <1>4, <2>1, <2>2 DEF BinSetDate
<1>5. CASE TextSetDate(c)
  BY <1>5, ReplyNamesCommand DEF TextSetDate
<1>6. CASE BinAddUser(c) \/ TextAddUser(c)
  BY <1>6, ReplyNamesCommand DEF BinAddUser, TextAddUser, AddUserReply
<1>7. CASE SysInfo(c)
  BY <1>7, ReplyNamesCommand DEF SysInfo
<1> QED BY <1>1, <1>2, <1>3, <1>4, <1>5, <1>6, <1>7 DEF DoCmd

\* The same for set_date.
LEMMA OtherThanSetDate ==
  ASSUME NEW c, DoCmd(c), ~BinSetDate(c), ~TextSetDate(c)
  PROVE  ~Answered("set_date")'
<1>1. CASE Unknown(c) \/ Help(c) \/ PreviewOn(c) \/ PreviewOff(c)
  BY <1>1, ReturnAnswersNothing DEF Unknown, Help, PreviewOn, PreviewOff, Preview
<1>2. CASE Reboot(c)
  BY <1>2, ReturnAnswersNothing DEF Reboot, Answered
<1>3. CASE BinSetIp(c) \/ TextSetIp(c)
  BY <1>3, ReturnAnswersNothing DEF BinSetIp, TextSetIp, SetDeviceIp
<1>4. CASE BinGetIp(c) \/ TextGetIp(c)
  BY <1>4, ReplyNamesCommand, ReturnAnswersNothing DEF BinGetIp, TextGetIp
<1>5. CASE BinAddUser(c) \/ TextAddUser(c)
  BY <1>5, ReplyNamesCommand DEF BinAddUser, TextAddUser, AddUserReply
<1>6. CASE SysInfo(c)
  BY <1>6, ReplyNamesCommand DEF SysInfo
<1> QED BY <1>1, <1>2, <1>3, <1>4, <1>5, <1>6 DEF DoCmd

\* The same for add_user.
LEMMA OtherThanAddUser ==
  ASSUME NEW c, DoCmd(c), ~BinAddUser(c), ~TextAddUser(c)
  PROVE  ~Answered("add_user")'
<1>1. CASE Unknown(c) \/ Help(c) \/ PreviewOn(c) \/ PreviewOff(c)
  BY <1>1, ReturnAnswersNothing DEF Unknown, Help, PreviewOn, PreviewOff, Preview
<1>2. CASE Reboot(c)
  BY <1>2, ReturnAnswersNothing DEF Reboot, Answered
<1>3. CASE BinSetIp(c) \/ TextSetIp(c)
  BY <1>3, ReturnAnswersNothing DEF BinSetIp, TextSetIp, SetDeviceIp
<1>4. CASE BinGetIp(c) \/ TextGetIp(c)
  BY <1>4, ReplyNamesCommand, ReturnAnswersNothing DEF BinGetIp, TextGetIp
<1>5. CASE BinSetDate(c)
  BY <1>5, ReplyNamesCommand, ReturnAnswersNothing DEF BinSetDate, QueryClock, SetClock
<1>6. CASE TextSetDate(c)
  BY <1>6, ReplyNamesCommand DEF TextSetDate
<1>7. CASE SysInfo(c)
  BY <1>7, ReplyNamesCommand DEF SysInfo
<1> QED BY <1>1, <1>2, <1>3, <1>4, <1>5, <1>6, <1>7 DEF DoCmd

-----------------------------------------------------------------------------
(* get_ip                                                                  *)

\* A get_ip that succeeds has set flag and the static that flag names.
LEMMA GetIpStep ==
  ASSUME NEW c, BinGetIp(c) \/ TextGetIp(c)
  PROVE  AddressOwn'
<1>1. CASE GetIpFails(c.arg.dev)
  <2>1. ~Answered("get_ip")'
    BY <1>1, ReturnAnswersNothing DEF BinGetIp, TextGetIp
  <2> QED BY <2>1 DEF AddressOwn, Answered
<1>2. CASE ~GetIpFails(c.arg.dev) /\ BinGetIp(c)
  <2>1. /\ GetReply(c, IpReply, 10, TRUE) /\ flag' = 0 /\ ~IsText(c)
        /\ addr' = addr
    BY <1>2 DEF BinGetIp
  <2>2. PICK ip : ip_info' = [dev |-> c.arg.dev, ip |-> ip] /\ ip \in {addr[c.arg.dev], Garbled}
    BY <1>2 DEF BinGetIp, IpToHexStr
  <2>3. reply' = IpReply /\ last'.cmd = c
    BY <2>1, ReplyNamesCommand
  <2>4. IpReply = [kind |-> "hex", of |-> [dev |-> c.arg.dev, ip |-> ip]]
    BY <2>1, <2>2 DEF IpReply
  <2>5. reply'.kind = "hex" /\ reply'.of.dev = c.arg.dev /\ reply'.of.ip \in {addr[c.arg.dev], Garbled}
    BY <2>2, <2>3, <2>4
  <2> QED BY <2>1, <2>3, <2>5 DEF AddressOwn, IsText
<1>3. CASE ~GetIpFails(c.arg.dev) /\ TextGetIp(c)
  <2>1. /\ GetReply(c, IpReply, 10, TRUE) /\ flag' = 1 /\ IsText(c)
        /\ ip_info_text' = [dev |-> c.arg.dev, ip |-> addr[c.arg.dev]]
        /\ addr' = addr
    BY <1>3 DEF TextGetIp
  <2>2. reply' = IpReply /\ last'.cmd = c
    BY <2>1, ReplyNamesCommand
  <2>3. IpReply = [kind |-> "text", of |-> [dev |-> c.arg.dev, ip |-> addr[c.arg.dev]]]
    BY <2>1 DEF IpReply
  <2> QED BY <2>1, <2>2, <2>3 DEF AddressOwn, IsText
<1> QED BY <1>1, <1>2, <1>3

\* Whatever set_ip leaves in network.c's statics, and however the two paths
\* alternate, get_ip answers for the interface it was asked for with that
\* interface's address, or on the binary path with bytes that a worker's strtok
\* has garbled; never with the answer to an earlier request.
THEOREM AddressIsOwn == Spec => []AddressOwn
<1>1. Init => AddressOwn
  BY DEF Init, AddressOwn, Answered
<1>2. AddressOwn /\ [Next]_vars => AddressOwn'
  <2> SUFFICES ASSUME AddressOwn, [Next]_vars PROVE AddressOwn'
    OBVIOUS
  <2>1. CASE RegisterCmd
    BY <2>1 DEF RegisterCmd, media, network, AddressOwn, Answered
  <2>2. ASSUME NEW c \in Cmds, DoCmd(c) PROVE AddressOwn'
    <3>1. CASE BinGetIp(c) \/ TextGetIp(c)
      BY <3>1, GetIpStep
    <3>2. CASE ~BinGetIp(c) /\ ~TextGetIp(c)
      <4>1. ~Answered("get_ip")'
        BY <2>2, <3>2, OtherThanGetIp
      <4> QED BY <4>1 DEF AddressOwn, Answered
    <3> QED BY <3>1, <3>2
  <2>3. CASE UNCHANGED vars
    BY <2>3 DEF vars, network, AddressOwn, Answered
  <2> QED BY <2>1, <2>2, <2>3 DEF Next
<1> QED BY <1>1, <1>2, PTL DEF Spec

-----------------------------------------------------------------------------
(* set_date                                                                *)

\* A query leaves mode 0 and a setting mode 1 before the one get_reply reads it.
LEMMA SetDateStep ==
  ASSUME NEW c, BinSetDate(c) \/ TextSetDate(c)
  PROVE  DateOwn'
<1>1. CASE TextSetDate(c)
  <2>1. last'.cmd = c /\ IsText(c)
    BY <1>1, ReplyNamesCommand DEF TextSetDate
  <2> QED BY <2>1 DEF DateOwn, IsText
<1>2. CASE BinSetDate(c) /\ QueryClock(c)
  <2>1. GetReply(c, DateReply, 11, TRUE) /\ mode' = 0 /\ ~c.arg.set
    BY <1>2 DEF QueryClock
  <2>2. reply' = DateReply /\ last'.cmd = c
    BY <2>1, ReplyNamesCommand
  <2> QED BY <2>1, <2>2 DEF DateOwn, DateReply
<1>3. CASE BinSetDate(c) /\ SetClock(c)
  <2>1. PICK hwclock \in Statuses, date \in Statuses :
          IF hwclock = 0 /\ date # 0 THEN Return(c, date, FALSE)
          ELSE GetReply(c, DateReply, 1, hwclock = 0)
    BY <1>3 DEF SetClock
  <2>2. CASE hwclock = 0 /\ date # 0
    <3>1. ~Answered("set_date")'
      BY <2>1, <2>2, ReturnAnswersNothing
    <3> QED BY <3>1 DEF DateOwn, Answered
  <2>3. CASE ~(hwclock = 0 /\ date # 0)
    <3>1. reply' = DateReply /\ last'.cmd = c
      BY <2>1, <2>3, ReplyNamesCommand
    <3>2. mode' = 1 /\ c.arg.set
      BY <1>3 DEF SetClock
    <3> QED BY <3>1, <3>2 DEF DateOwn, DateReply
  <2> QED BY <2>2, <2>3
<1> QED BY <1>1, <1>2, <1>3 DEF BinSetDate

\* A binary set_date is answered with the time when it asked for it and with
\* the outcome when it set it, whatever commands came before.
THEOREM DateIsOwn == Spec => []DateOwn
<1>1. Init => DateOwn
  BY DEF Init, DateOwn, Answered
<1>2. DateOwn /\ [Next]_vars => DateOwn'
  <2> SUFFICES ASSUME DateOwn, [Next]_vars PROVE DateOwn'
    OBVIOUS
  <2>1. CASE RegisterCmd
    BY <2>1 DEF RegisterCmd, DateOwn, Answered, IsText
  <2>2. ASSUME NEW c \in Cmds, DoCmd(c) PROVE DateOwn'
    <3>1. CASE BinSetDate(c) \/ TextSetDate(c)
      BY <3>1, SetDateStep
    <3>2. CASE ~BinSetDate(c) /\ ~TextSetDate(c)
      <4>1. ~Answered("set_date")'
        BY <2>2, <3>2, OtherThanSetDate
      <4> QED BY <4>1 DEF DateOwn, Answered
    <3> QED BY <3>1, <3>2
  <2>3. CASE UNCHANGED vars
    BY <2>3 DEF vars, DateOwn, Answered, IsText
  <2> QED BY <2>1, <2>2, <2>3 DEF Next
<1> QED BY <1>1, <1>2, PTL DEF Spec

-----------------------------------------------------------------------------
(* add_user                                                                *)

\* VerdictOwn is not inductive: a reply also says "failed" when result was left
\* at 1.  Between commands it never is.
VerdictInv == result = 0 /\ VerdictOwn

\* The handler sets result only where it failed, and the reply clears it.
LEMMA AddUserStep ==
  ASSUME NEW c, VerdictInv, BinAddUser(c) \/ TextAddUser(c)
  PROVE  VerdictInv'
<1>1. ASSUME NEW failed, NEW done, AddUserReply(c, failed, done),
             failed <=> ~IsText(c) /\ c.arg.set /\ ~done
      PROVE  VerdictInv'
  <2>1. result' = 0
    BY <1>1 DEF AddUserReply
  <2>2. /\ reply' = [kind |-> "verdict", of |-> failed \/ result = 1]
        /\ last'.cmd = c /\ last'.done = done
    BY <1>1, ReplyNamesCommand DEF AddUserReply
  <2>3. reply'.of <=> ~IsText(c) /\ c.arg.set /\ ~done
    <3>1. result # 1
      BY DEF VerdictInv
    <3>2. reply'.of = (failed \/ result = 1)
      BY <2>2, Zenon
    <3> QED BY <1>1, <3>1, <3>2, Zenon
  <2>4. IF IsText(c) THEN ~reply'.of ELSE reply'.of <=> c.arg.set /\ ~done
    BY <2>3, Zenon
  <2>5. IsText(last.cmd)' <=> IsText(c)
    BY <2>2 DEF IsText
  <2> QED BY <2>1, <2>2, <2>4, <2>5 DEF VerdictInv, VerdictOwn
<1>2. CASE TextAddUser(c)
  BY <1>2, <1>1 DEF TextAddUser
<1>3. CASE BinAddUser(c)
  BY <1>3, <1>1 DEF BinAddUser
<1> QED BY <1>2, <1>3

\* The other commands leave result alone; a restart clears it.
LEMMA ResultKept ==
  ASSUME NEW c, result = 0, DoCmd(c), ~BinAddUser(c), ~TextAddUser(c)
  PROVE  result' = 0
  BY DEF DoCmd, Unknown, Help, Reboot, BinGetIp, TextGetIp, BinSetIp, TextSetIp,
         BinSetDate, TextSetDate, SysInfo, PreviewOn, PreviewOff, system

\* A binary add_user reports its own failure and never that of an earlier
\* command; a text add_user, which adds nothing, is never told of a failure.
THEOREM VerdictIsOwn == Spec => []VerdictOwn
<1>1. Init => VerdictInv
  BY DEF Init, VerdictInv, VerdictOwn, Answered
<1>2. VerdictInv /\ [Next]_vars => VerdictInv'
  <2> SUFFICES ASSUME VerdictInv, [Next]_vars PROVE VerdictInv'
    OBVIOUS
  <2>1. CASE RegisterCmd
    BY <2>1 DEF RegisterCmd, system, VerdictInv, VerdictOwn, Answered, IsText
  <2>2. ASSUME NEW c \in Cmds, DoCmd(c) PROVE VerdictInv'
    <3>1. CASE BinAddUser(c) \/ TextAddUser(c)
      BY <3>1, AddUserStep
    <3>2. CASE ~BinAddUser(c) /\ ~TextAddUser(c)
      <4>1. ~Answered("add_user")' /\ result' = 0
        BY <2>2, <3>2, OtherThanAddUser, ResultKept DEF VerdictInv
      <4> QED BY <4>1 DEF VerdictInv, VerdictOwn, Answered
    <3> QED BY <3>1, <3>2
  <2>3. CASE UNCHANGED vars
    BY <2>3 DEF vars, system, VerdictInv, VerdictOwn, Answered, IsText
  <2> QED BY <2>1, <2>2, <2>3 DEF Next
<1>3. VerdictInv => VerdictOwn
  BY DEF VerdictInv
<1> QED BY <1>1, <1>2, <1>3, PTL DEF Spec

-----------------------------------------------------------------------------
(* What is sent without having been written                                *)

\* A reply written by get_reply is fresh; without one, only these results are
\* sent: the status of a script, and 0 of a text command without a reply.
LEMMA ReplyIsFresh ==
  ASSUME NEW c, NEW content, NEW length, NEW done, GetReply(c, content, length, done)
  PROVE  StaleReplyCause'
  BY DEF GetReply, Record, StaleReplyCause

\* The status of a script is handed on by the scripted commands, and only a
\* script that failed has one above 0.
LEMMA StatusIsKnown ==
  ASSUME NEW c, NEW ret \in Statuses, NEW done, Return(c, ret, done),
         c.name \in Scripted, done => ret = 0,
         ret = 0 => c.name \notin {"get_ip", "set_date", "add_user", "sys_info"}
  PROVE  StaleReplyCause'
<1>1. last' = [cmd |-> c, ret |-> ret, fresh |-> FALSE, done |-> done, sent |-> Sent(c, ret)]
  BY DEF Return, Record
<1>2. ret \in Int
  BY DispatcherAssumption DEF DispatcherAssumption
<1>3. CASE ret > 0
  BY <1>1, <1>3 DEF StaleReplyCause
<1>4. CASE ret = 0
  <2>1. Sent(c, ret) \in {"nothing", "done"}
    BY <1>4 DEF Sent
  <2> QED BY <1>1, <1>4, <2>1 DEF StaleReplyCause
<1>5. CASE ret < 0
  <2>1. Sent(c, ret) \in {"nothing", "error"}
    BY <1>2, <1>5 DEF Sent
  <2> QED BY <1>1, <2>1 DEF StaleReplyCause
<1> QED BY <1>2, <1>3, <1>4, <1>5

LEMMA ReturnIsKnown ==
  ASSUME NEW c, NEW done, Return(c, 0, done),
         c.name \notin {"get_ip", "set_date", "add_user", "sys_info"}
  PROVE  StaleReplyCause'
<1>1. last' = [cmd |-> c, ret |-> 0, fresh |-> FALSE, done |-> done, sent |-> Sent(c, 0)]
  BY DEF Return, Record
<1>2. Sent(c, 0) \in {"nothing", "done"}
  BY DEF Sent
<1> QED BY <1>1, <1>2 DEF StaleReplyCause

LEMMA ErrorIsNoReply ==
  ASSUME NEW c, NEW ret, NEW done, Return(c, ret, done),
         ret = -1 \/ ret = -NO_DEV \/ ret = -ERR_PARAMS
  PROVE  StaleReplyCause'
<1>1. last' = [cmd |-> c, ret |-> ret, fresh |-> FALSE, done |-> done, sent |-> Sent(c, ret)]
  BY DEF Return, Record
<1>2. ret \in Int /\ ret < 0
  BY DEF NO_DEV, ERR_PARAMS
<1>3. Sent(c, ret) \in {"nothing", "error"}
  BY <1>2 DEF Sent
<1> QED BY <1>1, <1>3 DEF StaleReplyCause

LEMMA StaleStep == ASSUME NEW c \in Cmds, DoCmd(c) PROVE StaleReplyCause'
<1>1. CASE Unknown(c)
  BY <1>1, ErrorIsNoReply DEF Unknown
<1>2. CASE Help(c)
  BY <1>2, ReturnIsKnown DEF Help
<1>3. CASE Reboot(c)
  <2>1. CASE last' = None
    BY <2>1 DEF StaleReplyCause
  <2>2. CASE Return(c, -1, FALSE)
    BY <2>2, ErrorIsNoReply
  <2> QED BY <1>3, <2>1, <2>2 DEF Reboot
<1>4. CASE BinGetIp(c)
  <2>1. CASE Return(c, -NO_DEV, FALSE)
    BY <2>1, ErrorIsNoReply
  <2> QED BY <1>4, <2>1, ReplyIsFresh DEF BinGetIp
<1>5. CASE TextGetIp(c)
  <2>1. CASE Return(c, -NO_DEV, FALSE)
    BY <2>1, ErrorIsNoReply
  <2> QED BY <1>5, <2>1, ReplyIsFresh DEF TextGetIp
<1>6. CASE BinSetIp(c) \/ TextSetIp(c)
  <2>1. c.name = "set_ip" /\ SetDeviceIp(c, c.arg.dev, c.arg.ip)
    BY <1>6 DEF BinSetIp, TextSetIp
  <2>2. Return(c, -ERR_PARAMS, FALSE) \/ Return(c, -1, FALSE) \/ \E done : Return(c, 0, done)
    BY <2>1 DEF SetDeviceIp
  <2>3. ASSUME NEW done, Return(c, 0, done) PROVE StaleReplyCause'
    BY <2>1, <2>3, ReturnIsKnown
  <2> QED BY <2>2, <2>3, ErrorIsNoReply
<1>7. CASE BinSetDate(c)
  <2>1. ASSUME NEW date \in Statuses, date # 0, Return(c, date, FALSE) PROVE StaleReplyCause'
    <3>1. c.name \in Scripted
      BY <1>7 DEF BinSetDate, Scripted
    <3> QED BY <2>1, <3>1, StatusIsKnown
  <2> QED BY <1>7, <2>1, ReplyIsFresh DEF BinSetDate, QueryClock, SetClock
<1>8. CASE TextSetDate(c) \/ BinAddUser(c) \/ TextAddUser(c) \/ SysInfo(c)
  BY <1>8, ReplyIsFresh DEF TextSetDate, BinAddUser, TextAddUser, AddUserReply, SysInfo
<1>9. CASE PreviewOn(c) \/ PreviewOff(c)
  <2>1. c.name \in {"preview_on", "preview_off"}
    BY <1>9 DEF PreviewOn, PreviewOff
  <2>2. PICK stop \in Statuses, start \in Statuses : Return(c, start, stop = 0 /\ start = 0)
    BY <1>9 DEF PreviewOn, PreviewOff, Preview
  <2>3. c.name \in Scripted
    BY <2>1 DEF Scripted
  <2> QED BY <2>1, <2>2, <2>3, StatusIsKnown
<1> QED BY <1>1, <1>2, <1>3, <1>4, <1>5, <1>6, <1>7, <1>8, <1>9 DEF DoCmd

\* Whatever system() returns, leftovers of the reply buffer are sent for a
\* failed script and, as text, by commands that have no reply, never otherwise.
THEOREM StaleHasCause == Spec => []StaleReplyCause
<1>1. Init => StaleReplyCause
  BY DEF Init, StaleReplyCause
<1>2. StaleReplyCause /\ [Next]_vars => StaleReplyCause'
  <2> SUFFICES ASSUME StaleReplyCause, [Next]_vars PROVE StaleReplyCause'
    OBVIOUS
  <2>1. CASE RegisterCmd \/ UNCHANGED vars
    BY <2>1 DEF RegisterCmd, vars, StaleReplyCause
  <2> QED BY <2>1, StaleStep DEF Next
<1> QED BY <1>1, <1>2, PTL DEF Spec

-----------------------------------------------------------------------------
(* The camera and the RTSP server                                          *)

\* A preview command whose scripts succeed leaves its server running alone,
\* from whatever earlier failures have left, until the next preview command.
THEOREM MediaIsMended == Spec => []MediaMended
<1>1. Init => MediaMended
  BY DEF Init, MediaMended
<1>2. MediaMended /\ [Next]_vars => MediaMended'
  <2> SUFFICES ASSUME MediaMended, [Next]_vars PROVE MediaMended'
    OBVIOUS
  <2>1. CASE UNCHANGED media
    BY <2>1 DEF media, MediaMended
  <2>2. ASSUME NEW c, Reboot(c) PROVE MediaMended'
    <3>1. CASE camera' = TRUE /\ rtsp' = FALSE /\ wanted' = "camera"
      BY <3>1 DEF MediaMended
    <3>2. CASE UNCHANGED media
      BY <3>2 DEF media, MediaMended
    <3> QED BY <2>2, <3>1, <3>2 DEF Reboot
  <2>3. ASSUME NEW c, PreviewOn(c) PROVE MediaMended'
    <3>1. PICK stop \in Statuses, start \in Statuses :
             /\ camera' \in Stop(camera, stop) /\ rtsp' \in Start(rtsp, start)
             /\ wanted' = IF stop = 0 /\ start = 0 THEN "rtsp" ELSE "unsure"
      BY <2>3 DEF PreviewOn, Preview
    <3> QED BY <3>1 DEF Stop, Start, MediaMended
  <2>4. ASSUME NEW c, PreviewOff(c) PROVE MediaMended'
    <3>1. PICK stop \in Statuses, start \in Statuses :
             /\ rtsp' \in Stop(rtsp, stop) /\ camera' \in Start(camera, start)
             /\ wanted' = IF stop = 0 /\ start = 0 THEN "camera" ELSE "unsure"
      BY <2>4 DEF PreviewOff, Preview
    <3> QED BY <3>1 DEF Stop, Start, MediaMended
  <2>5. ASSUME NEW c, DoCmd(c), ~Reboot(c), ~PreviewOn(c), ~PreviewOff(c) PROVE UNCHANGED media
    BY <2>5 DEF DoCmd, Unknown, Help, BinGetIp, TextGetIp, BinSetIp, TextSetIp, BinSetDate,
       TextSetDate, BinAddUser, TextAddUser, SysInfo
  <2> QED BY <2>1, <2>2, <2>3, <2>4, <2>5 DEF Next, RegisterCmd, vars
<1> QED BY <1>1, <1>2, PTL DEF Spec

=============================================================================
