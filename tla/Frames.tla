------------------------------- MODULE Frames -------------------------------
(***************************************************************************)
(* The binary protocols: check_data and parse of protocol/ht_protocol.c    *)
(* and protocol/sl_vins100.c, the choice between them in                   *)
(* protocol/protocol.c, the checksum of common/common.c, and do_response   *)
(* of handle/handle.c.                                                     *)
(*                                                                         *)
(* A request travels from the client through line[255] into a command, and *)
(* its reply back into a frame.  Lines are sequences of bytes; what lies   *)
(* behind the bytes read is 0, as line[] is cleared.  Requests are frames  *)
(* that fit into line[]: a length field that points out of it makes        *)
(* check_data read beyond the array, which is not modelled.  The text      *)
(* protocol is TextProtocol's subject: here it is the third of the list,   *)
(* which a damaged frame can reach.                                        *)
(***************************************************************************)
EXTENDS Integers, Sequences

CONSTANTS
  FrameIds, CmdIds, Devices,   \* numbers that requests carry
  Datas,      \* contents of requests: sequences of bytes
  Replies,    \* what get_reply writes: sequences of bytes
  Bursts,     \* damage done to three neighbouring bytes: the bits to flip in each
  Followers,  \* what stands in line[] behind a request: sequences of bytes
  Names       \* what a parser's stack holds in cmd_name

\* Devices have 32 bits.  The longest request fits into line[255], and the
\* longest reply into get_cmd's reply[512].  Damage spans up to 16 bits: where it
\* begins in the first byte's lowest bits, it ends in front of these in the third.
ASSUME FramesAssumption ==
  /\ \A id \in FrameIds \cup CmdIds : id \in Nat /\ id < 65536
  /\ 0 \notin CmdIds
  /\ \A device \in Devices : device \in Nat /\ device \div 65536 < 65536
  /\ Datas \cup Replies \cup Followers \subseteq Seq(0..255)
  /\ \A data \in Datas : Len(data) <= 240
  /\ \A reply \in Replies : Len(reply) <= 512
  /\ Bursts \subseteq (0..255) \X (0..255) \X (0..255) /\ <<0, 0, 0>> \notin Bursts
  /\ \A bits \in Bursts : \E m \in {1, 2, 4, 8, 16, 32, 64, 128, 256} :
       bits[1] < m /\ bits[3] % m = 0

VARIABLES
  protocols,  \* the list from ptProtocolSupportedHead, names only
  stage,      \* of the request: "none", "sent", "damaged", "refused", "parsed",
              \* "overrun", "replied"
  request,    \* what the client asked
  line,       \* handle: line
  cmd,        \* st_cmd_frame
  answer      \* the bytes of the reply

vars == <<protocols, stage, request, line, cmd, answer>>

None == [protocol |-> "none"]

U16(n) == <<n \div 256, n % 256>>   \* two bytes, the high one first
U32(n) == U16(n \div 65536) \o U16(n % 65536)

\* buf[i], and the number at buf[i], buf[i + 1].
At(buf, i)   == IF i < Len(buf) THEN buf[i + 1] ELSE 0
At16(buf, i) == At(buf, i) * 256 + At(buf, i + 1)

-----------------------------------------------------------------------------
(* The checksum.                                                           *)

\* a ^ b: a bit is set where it is set in one of the two.
Xor(a, b) ==
  LET bit(n)   == n * ((b \div n + a \div n) % 2)
      digit(n) == (bit(n) + bit(2 * n)) + (bit(4 * n) + bit(8 * n))
  IN  (digit(1) + digit(16)) + (digit(256) + digit(4096))

crc16_tab ==
  << \h0000, \h1021, \h2042, \h3063, \h4084, \h50a5, \h60c6, \h70e7,
    \h8108, \h9129, \ha14a, \hb16b, \hc18c, \hd1ad, \he1ce, \hf1ef,
    \h1231, \h0210, \h3273, \h2252, \h52b5, \h4294, \h72f7, \h62d6,
    \h9339, \h8318, \hb37b, \ha35a, \hd3bd, \hc39c, \hf3ff, \he3de,
    \h2462, \h3443, \h0420, \h1401, \h64e6, \h74c7, \h44a4, \h5485,
    \ha56a, \hb54b, \h8528, \h9509, \he5ee, \hf5cf, \hc5ac, \hd58d,
    \h3653, \h2672, \h1611, \h0630, \h76d7, \h66f6, \h5695, \h46b4,
    \hb75b, \ha77a, \h9719, \h8738, \hf7df, \he7fe, \hd79d, \hc7bc,
    \h48c4, \h58e5, \h6886, \h78a7, \h0840, \h1861, \h2802, \h3823,
    \hc9cc, \hd9ed, \he98e, \hf9af, \h8948, \h9969, \ha90a, \hb92b,
    \h5af5, \h4ad4, \h7ab7, \h6a96, \h1a71, \h0a50, \h3a33, \h2a12,
    \hdbfd, \hcbdc, \hfbbf, \heb9e, \h9b79, \h8b58, \hbb3b, \hab1a,
    \h6ca6, \h7c87, \h4ce4, \h5cc5, \h2c22, \h3c03, \h0c60, \h1c41,
    \hedae, \hfd8f, \hcdec, \hddcd, \had2a, \hbd0b, \h8d68, \h9d49,
    \h7e97, \h6eb6, \h5ed5, \h4ef4, \h3e13, \h2e32, \h1e51, \h0e70,
    \hff9f, \hefbe, \hdfdd, \hcffc, \hbf1b, \haf3a, \h9f59, \h8f78,
    \h9188, \h81a9, \hb1ca, \ha1eb, \hd10c, \hc12d, \hf14e, \he16f,
    \h1080, \h00a1, \h30c2, \h20e3, \h5004, \h4025, \h7046, \h6067,
    \h83b9, \h9398, \ha3fb, \hb3da, \hc33d, \hd31c, \he37f, \hf35e,
    \h02b1, \h1290, \h22f3, \h32d2, \h4235, \h5214, \h6277, \h7256,
    \hb5ea, \ha5cb, \h95a8, \h8589, \hf56e, \he54f, \hd52c, \hc50d,
    \h34e2, \h24c3, \h14a0, \h0481, \h7466, \h6447, \h5424, \h4405,
    \ha7db, \hb7fa, \h8799, \h97b8, \he75f, \hf77e, \hc71d, \hd73c,
    \h26d3, \h36f2, \h0691, \h16b0, \h6657, \h7676, \h4615, \h5634,
    \hd94c, \hc96d, \hf90e, \he92f, \h99c8, \h89e9, \hb98a, \ha9ab,
    \h5844, \h4865, \h7806, \h6827, \h18c0, \h08e1, \h3882, \h28a3,
    \hcb7d, \hdb5c, \heb3f, \hfb1e, \h8bf9, \h9bd8, \habbb, \hbb9a,
    \h4a75, \h5a54, \h6a37, \h7a16, \h0af1, \h1ad0, \h2ab3, \h3a92,
    \hfd2e, \hed0f, \hdd6c, \hcd4d, \hbdaa, \had8b, \h9de8, \h8dc9,
    \h7c26, \h6c07, \h5c64, \h4c45, \h3ca2, \h2c83, \h1ce0, \h0cc1,
    \hef1f, \hff3e, \hcf5d, \hdf7c, \haf9b, \hbfba, \h8fd9, \h9ff8,
    \h6e17, \h7e36, \h4e55, \h5e74, \h2e93, \h3eb2, \h0ed1, \h1ef0 >>

\* Mutant: the table is indexed with the low byte, as for reflected checksums.
CrcStepReflected(cksum, byte) ==
  Xor(crc16_tab[Xor(cksum % 256, byte) + 1], (cksum * 256) % 65536)

CrcStep(cksum, byte) ==
  Xor(crc16_tab[Xor(cksum \div 256, byte) + 1], (cksum * 256) % 65536)

\* uhf_crc16_ccitt_tab(buf, len)
Crc(buf, len) ==
  LET cksum[i \in 0..len] == IF i = 0 THEN 0 ELSE CrcStep(cksum[i - 1], At(buf, i - 1))
  IN  cksum[len]

-----------------------------------------------------------------------------
(* The protocols.                                                          *)

Order == <<"HT", "SL", "TEXT">>

FrameHead(p) == IF p = "HT" THEN <<\h48, \h54>> ELSE <<\h22, \h53>>

\* Mutant: the direction and device of SL are not counted.
ContentStartHt(p) == 8

\* Where the content of a frame begins.
ContentStart(p) == IF p = "HT" THEN 8 ELSE 13

\* Mutant: one byte of the checksum is compared.
CheckLow(p, buf) ==
  LET data_len == At16(buf, 2) IN
  /\ <<At(buf, 0), At(buf, 1)>> = FrameHead(p)
  /\ Crc(buf, data_len) % 256 = At16(buf, data_len) % 256

\* ht_check_data, sl_check_data: the length field says where the checksum is.
Check(p, buf) ==
  LET data_len == At16(buf, 2) IN
  /\ <<At(buf, 0), At(buf, 1)>> = FrameHead(p)
  /\ Crc(buf, data_len) = At16(buf, data_len)

\* get_cmd_name: cmd_list, one table per protocol.
CmdNames(p) ==
  LET settings == <<"sys_info", "set_date", "set_wifi",
                    IF p = "HT" THEN "set_ftp_account" ELSE "add_user", "set_video_info",
                    "set_brightness", "get_electricity", "power_off", "reboot", "get_ip",
                    "set_ip">>
      media == <<"start_record", "stop_record", "preview_on", "preview_off">>
  IN  [id \in \h100..\h10a \cup \h200..\h203 |->
         IF id < \h200 THEN settings[id - \hff] ELSE media[id - \h1ff]]

\* ht_parse, sl_parse.  An id that has no name leaves cmd_name as the stack had
\* it, and ht_parse leaves device_id so.
Parse(p, buf, stack) ==
  LET cmd_id == At16(buf, 6) IN
  [protocol  |-> p,
   frame_id  |-> At16(buf, 4),
   cmd_id    |-> cmd_id,
   cmd_name  |-> IF cmd_id \in DOMAIN CmdNames(p) THEN CmdNames(p)[cmd_id] ELSE stack.cmd_name,
   device_id |-> IF p = "SL" THEN At16(buf, 9) * 65536 + At16(buf, 11) ELSE stack.device_id,
   data      |-> [i \in 1..At16(buf, 2) - ContentStart(p) |-> At(buf, ContentStart(p) + i - 1)]]

Stacks == [cmd_name : Names, device_id : Devices]

\* Mutant: the length field counts the checksum.
ReplyLengthOver(buf_len) == buf_len

\* The length field of a reply: where the checksum is.
ReplyLength(buf_len) == buf_len - 2

\* do_response: the reply is an SL frame whatever the request was, with two
\* bytes of the device.
Response(c, reply) ==
  LET head == FrameHead("SL") \o U16(ReplyLength(13 + Len(reply))) \o U16(c.frame_id)
              \o U16(c.cmd_id) \o <<255>> \o U16(c.device_id % 65536) \o reply
  IN  head \o U16(Crc(head, Len(head)))

-----------------------------------------------------------------------------
(* The client's side, which is not in the repository: the frames that the  *)
(* checks accept.                                                          *)

Requests == [protocol : {"HT", "SL"}, frame_id : FrameIds, cmd_id : CmdIds,
             device_id : Devices, data : Datas]

Frame(r) ==
  LET rest == (IF r.protocol = "SL" THEN <<0>> \o U32(r.device_id) ELSE <<>>) \o r.data
      body == FrameHead(r.protocol) \o U16(8 + Len(rest)) \o U16(r.frame_id) \o U16(r.cmd_id)
              \o rest
  IN  body \o U16(Crc(body, Len(body)))

Flip(buf, i, bits) ==
  [buf EXCEPT ![i] = Xor(@, bits[1]), ![i + 1] = Xor(@, bits[2]), ![i + 2] = Xor(@, bits[3])]

-----------------------------------------------------------------------------
Init ==
  /\ protocols = <<>>
  /\ stage = "none" /\ request = None /\ cmd = None
  /\ line = <<>> /\ answer = <<>>

\* main registers the protocols after it has started the server.
RegisterProtocol ==
  /\ Len(protocols) < Len(Order)
  /\ protocols' = Append(protocols, Order[Len(protocols) + 1])
  /\ UNCHANGED <<stage, request, line, cmd, answer>>

Send(r, rest) ==
  /\ stage = "none"
  /\ stage' = "sent"
  /\ request' = r
  /\ line' = Frame(r) \o rest
  /\ Len(line') <= 255
  /\ UNCHANGED <<protocols, cmd, answer>>

\* The frame is damaged on its way, its head and its length field as its content.
Damage(i, bits) ==
  /\ stage = "sent"
  /\ i \in 1..Len(Frame(request)) - 2
  /\ line' = Flip(line, i, bits)
  /\ At16(line', 2) <= 253
     \/ <<At(line', 0), At(line', 1)>> \notin {FrameHead("HT"), FrameHead("SL")}
  /\ stage' = "damaged"
  /\ UNCHANGED <<protocols, request, cmd, answer>>

\* text_check_data asks for [ or digits at the start, behind spaces.  It copies up
\* to the first 0 and does not terminate the copy: what it finds behind is its
\* stack's.
TextVerdicts ==
  {accepts \in BOOLEAN : accepts => At(line, 0) \in {0, 32, 91} \cup 49..57}

\* do_protocol_handle: where the list has a protocol that accepts the line.  The
\* first of them is taken.
Accepting(text) ==
  {n \in DOMAIN protocols : IF protocols[n] = "TEXT" THEN text ELSE Check(protocols[n], line)}

Taken(n, text) == n \in Accepting(text) /\ \A m \in Accepting(text) : n <= m

HandleNone ==
  /\ stage \in {"sent", "damaged"}
  /\ \E text \in TextVerdicts : Accepting(text) = {}
  /\ stage' = "refused"
  /\ UNCHANGED <<protocols, request, line, cmd, answer>>

Handle ==
  /\ stage \in {"sent", "damaged"}
  /\ \E n \in DOMAIN protocols, text \in TextVerdicts, stack \in Stacks :
       /\ Taken(n, text) /\ protocols[n] # "TEXT"
       /\ ContentStart(protocols[n]) <= At16(line, 2)
       /\ cmd' = Parse(protocols[n], line, stack)
  /\ stage' = "parsed"
  /\ UNCHANGED <<protocols, request, line, answer>>

\* Where the length field points in front of the content, cmd_len wraps to some
\* 65530, and memcpy leaves line[] and cmd.data.
HandleOverrun ==
  /\ stage \in {"sent", "damaged"}
  /\ \E n \in DOMAIN protocols, text \in TextVerdicts :
       /\ Taken(n, text) /\ protocols[n] # "TEXT"
       /\ At16(line, 2) < ContentStart(protocols[n])
  /\ stage' = "overrun"
  /\ UNCHANGED <<protocols, request, line, cmd, answer>>

\* text_parse takes the line for words.
HandleText ==
  /\ stage \in {"sent", "damaged"}
  /\ \E n \in DOMAIN protocols, text \in TextVerdicts :
       Taken(n, text) /\ protocols[n] = "TEXT"
  /\ cmd' = [protocol |-> "TEXT"]
  /\ stage' = "parsed"
  /\ UNCHANGED <<protocols, request, line, answer>>

\* get_cmd answers commands without an id as text.
DoResponse(reply) ==
  /\ stage = "parsed"
  /\ cmd.protocol # "TEXT" /\ cmd.cmd_id # 0
  /\ answer' = Response(cmd, reply)
  /\ stage' = "replied"
  /\ UNCHANGED <<protocols, request, line, cmd>>

Next ==
  \/ RegisterProtocol
  \/ \E r \in Requests, rest \in Followers : Send(r, rest)
  \/ \E i \in 1..Len(line), bits \in Bursts : Damage(i, bits)
  \/ HandleNone
  \/ Handle
  \/ HandleOverrun
  \/ HandleText
  \/ \E reply \in Replies : DoResponse(reply)

Spec == Init /\ [][Next]_vars

-----------------------------------------------------------------------------
(* Properties                                                              *)

Shift(crc) ==
  IF crc >= 32768 THEN Xor((crc * 2) % 65536, \h1021) ELSE crc * 2

\* One byte of a division by x^16+x^12+x^5+1, a bit at a time.
Divide(crc, byte) ==
  LET rem[k \in 0..8] == IF k = 0 THEN Xor(crc, byte * 256) ELSE Shift(rem[k - 1])
  IN  rem[8]

\* The checksum is what common.h states, "x^16+x^12+x^5+1": along every frame
\* the table gives the remainder of the division by that polynomial.  The
\* frames of the run use each of the 256 entries.
CrcIsCcitt ==
  stage = "sent" =>
    \A n \in 1..Len(line) : Crc(line, n) = Divide(Crc(line, n - 1), line[n])

\* What stands behind a request in the same read does not change how it is
\* understood: the command is what the client sent, over both protocols, with the
\* name of its id if the protocol has one, and a frame is refused only before its
\* protocol is registered.  An id without a name is executed under whatever name
\* the parser's stack held.
ParsedIsSent ==
  [][/\ stage = "sent" /\ stage' = "parsed" =>
          /\ \A f \in {"protocol", "frame_id", "cmd_id", "data"} : cmd'[f] = request[f]
          /\ request.protocol = "SL" => cmd'.device_id = request.device_id
          /\ LET names == CmdNames(request.protocol) IN
             request.cmd_id \in DOMAIN names => cmd'.cmd_name = names[request.cmd_id]
     /\ stage = "sent" /\ stage' = "refused" =>
          \A n \in DOMAIN protocols : protocols[n] # request.protocol
     /\ stage = "sent" => stage' # "overrun"]_vars

\* A frame with up to 16 neighbouring bits damaged, wherever they lie, is not
\* executed as a binary command: not where the length field is left alone, and
\* not where it points behind a frame that is alone in line[], where checksum and
\* content are looked for in the cleared part.  What remains is a shortened length
\* field, or one that points into another frame, which may find a checksum that
\* fits; and a head that the text protocol takes for words.
DamageRefused ==
  [][stage = "damaged" /\ stage' \in {"parsed", "overrun"} =>
       \/ cmd'.protocol = "TEXT" /\ line[1] # Frame(request)[1]
       \/ /\ At16(line, 2) # At16(Frame(request), 2)
          /\ At16(line, 2) < At16(Frame(request), 2) \/ Len(line) > Len(Frame(request))]_vars

\* A reply passes the check the server itself makes, with the ids of the
\* command and the bytes of get_reply where that check expects them.
ReplyAccepted ==
  stage = "replied" =>
    /\ Check("SL", answer)
    /\ At16(answer, 4) = cmd.frame_id /\ At16(answer, 6) = cmd.cmd_id
    /\ SubSeq(answer, 12, At16(answer, 2)) \in Replies

=============================================================================
