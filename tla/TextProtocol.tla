---------------------------- MODULE TextProtocol ----------------------------
(***************************************************************************)
(* protocol/text_protocol.c: text_check_data and text_parse, run by every  *)
(* worker of the pool, and the command thread's ip_to_hex_str and          *)
(* check_right_ip of functions/network.c.  All of them cut strings with    *)
(* strtok, whose position is one variable of the process.                  *)
(*                                                                         *)
(* A string is a sequence of pieces: parts of words, the delimiters Space  *)
(* and Dot, and Nul, with which strtok replaces a delimiter.  A line       *)
(* begins with its first word, the parts of which are spelled out and hold *)
(* no Dot, and a Space follows (without one the copy in text_check_data    *)
(* has no end).                                                            *)
(***************************************************************************)
EXTENDS Integers, Sequences, FiniteSetsExt, SequencesExt

CONSTANTS
  Workers,   \* threads of the pool
  GetCmd,    \* the command thread
  Lines,     \* requests: sequences of pieces
  Addresses, \* what the command thread cuts at dots
  Code,      \* the character codes of the parts of first words
  Number,    \* the number for which the first word of each line stands
  Space, Dot, Nul, Junk,   \* pieces of no word; what a dead stack holds
  MaxRuns,   \* bound: strings the threads are given in all
  MaxBusy    \* bound: threads that are at work at once

Threads == Workers \cup {GetCmd}

\* Pieces are named by strings, and a string ends in front of its first Nul.
ASSUME TextAssumption ==
  /\ GetCmd \notin Workers /\ MaxRuns \in Nat /\ MaxBusy \in Nat
  /\ Lines \cup Addresses \subseteq Seq(STRING \ {Nul})
  /\ \A l \in Lines : \E n \in 1..Len(l) - 1 :
       l[n + 1] = Space /\ \A k \in 1..n : l[k] \in DOMAIN Code
  /\ {Space, Dot, Nul, Junk} \cap DOMAIN Code = {} /\ Nul \notin {Space, Dot}

VARIABLES
  olds,    \* strtok: where the next call goes on
  buf,     \* the strings: handle's line (or ip), text_check_data's tmp_str
  pc,      \* where each thread is
  input,   \* what each thread was given
  from,    \* the position a thread has loaded from olds
  token,   \* the string strtok returned to it: where it begins
  tokens,  \* what it has copied, in order
  crossed, \* history: another thread has called strtok meanwhile
  runs     \* strings given to them

vars == <<olds, buf, pc, input, from, token, tokens, crossed, runs>>

Nowhere == [of |-> GetCmd, str |-> "tmp_str", at |-> 1]

Delimiter(th) == IF th = GetCmd THEN Dot ELSE Space

-----------------------------------------------------------------------------
(* strtok                                                                  *)

At(s, k) == IF k <= Len(s) THEN s[k] ELSE Nul

\* The first of the places of s from k on, or its end.
First(s, k, places) == Min(places \cup {IF k > Len(s) THEN k ELSE Len(s) + 1})

\* strspn and strcspn: the first place from k on that holds none of the pieces,
\* or one of them.
Skip(s, k, pieces) == First(s, k, {m \in k..Len(s) : s[m] \notin pieces})
Seek(s, k, pieces) == First(s, k, {m \in k..Len(s) : s[m] \in pieces})

\* The C string that begins at k.
CString(s, k) == SubSeq(s, k, Seek(s, k, {Nul}) - 1)

\* strtok on s from k: where the token starts, s with its end marked, and where
\* the next call goes on.
Cut(s, k, delimiter) ==
  LET start == Skip(s, k, {delimiter})
      end   == Seek(s, start, {delimiter, Nul})
  IN  [start |-> start,
       found |-> At(s, start) # Nul,
       s     |-> IF At(s, end) = Nul THEN s ELSE [s EXCEPT ![end] = Nul],
       rest  |-> IF At(s, end) = Nul THEN end ELSE end + 1]

\* A call by th that goes on at p, and what th does when it finds a token or
\* none.  Everybody who is at work is crossed by it.
Strtok(th, p, found, none) ==
  \E c \in {Cut(buf[p.of][p.str], p.at, Delimiter(th))} :
  /\ buf'   = [buf EXCEPT ![p.of][p.str] = c.s]
  /\ olds'  = [p EXCEPT !.at = c.rest]
  /\ token' = [token EXCEPT ![th] = IF c.found THEN [p EXCEPT !.at = c.start] ELSE Nowhere]
  /\ pc'    = [pc EXCEPT ![th] = IF c.found THEN found ELSE none]
  /\ crossed' = [u \in Threads |-> crossed[u] \/ (u # th /\ pc[u] # "idle")]

Own(th, str) == [of |-> th, str |-> str, at |-> 1]

\* The string at which th's pointer points.
Token(th) == CString(buf[token[th].of][token[th].str], token[th].at)

-----------------------------------------------------------------------------
(* The first word                                                          *)

FirstWord(l) == SubSeq(l, 1, Seek(l, 1, {Space}) - 1)

\* The characters of a string of such parts.
Letters(string) ==
  IF \A k \in DOMAIN string : string[k] \in DOMAIN Code
  THEN FlattenSeq([k \in DOMAIN string |-> Code[string[k]]]) ELSE <<>>

\* "^[[1-9]+]$": opening brackets and digits but 0, then a closing bracket.
Matches(string) ==
  LET s == Letters(string) IN
  /\ Len(s) > 1 /\ s[Len(s)] = 93
  /\ \A k \in 1..Len(s) - 1 : s[k] = 91 \/ s[k] \in 49..57

\* The digits, whatever stands between them.
StringToInteger(string) ==
  LET s == Letters(string)
      value[k \in 0..Len(s)] ==
        IF k = 0 THEN 0 ELSE IF s[k] \in 48..57 THEN value[k - 1] * 10 + s[k] - 48
                             ELSE value[k - 1]
  IN  value[Len(s)]

ASSUME NumberAssumption ==
  \A l \in Lines : Number[l] = StringToInteger(FirstWord(l))

\* cmd.frame_id has 16 bits.
FrameId(th) == StringToInteger(tokens[th][1]) % 65536

-----------------------------------------------------------------------------
Init ==
  /\ olds = Nowhere
  /\ buf = [th \in Threads |-> [line |-> <<>>, tmp_str |-> <<>>]]
  /\ pc = [th \in Threads |-> "idle"]
  /\ input = [th \in Threads |-> <<>>]
  /\ from = [th \in Threads |-> Nowhere]
  /\ token = [th \in Threads |-> Nowhere]
  /\ tokens = [th \in Threads |-> <<>>]
  /\ crossed = [th \in Threads |-> FALSE]
  /\ runs = 0

\* A worker has read a line, or the command thread has an address.  A thread's
\* stack is where it was, and so are its strings.
Begin(th) ==
  /\ pc[th] = "idle"
  /\ runs < MaxRuns /\ Cardinality({u \in Threads : pc[u] # "idle"}) < MaxBusy
  /\ \E l \in IF th = GetCmd THEN Addresses ELSE Lines :
       /\ input' = [input EXCEPT ![th] = l]
       /\ buf' = [buf EXCEPT ![th].line = l]
  /\ pc' = [pc EXCEPT ![th] = IF th = GetCmd THEN "first" ELSE "copy"]
  /\ runs' = runs + 1
  /\ UNCHANGED <<olds, from, token, tokens, crossed>>

-----------------------------------------------------------------------------
(* text_check_data                                                         *)

\* strncpy of strlen bytes: no Nul is copied, and what stood behind stays.
Copy(th) ==
  /\ pc[th] = "copy"
  /\ \E rest \in {<<>>, <<Junk>>} :
       buf' = [buf EXCEPT ![th].tmp_str = CString(buf[th].line, 1) \o rest]
  /\ pc' = [pc EXCEPT ![th] = "check"]
  /\ UNCHANGED <<olds, input, from, token, tokens, crossed, runs>>

\* Mutant: text_check_data cuts the line and not a copy of it.
CheckInPlace(th) ==
  /\ pc[th] = "check"
  /\ Strtok(th, Own(th, "line"), "match", "done")
  /\ UNCHANGED <<input, from, tokens, runs>>

Check(th) ==
  /\ pc[th] = "check"
  /\ Strtok(th, Own(th, "tmp_str"), "match", "done")
  /\ UNCHANGED <<input, from, tokens, runs>>

\* tmp_str is gone when the function returns: other calls may use its place.
Match(th) ==
  /\ pc[th] = "match"
  /\ pc' = [pc EXCEPT ![th] = IF Matches(Token(th)) THEN "first" ELSE "done"]
  /\ \/ UNCHANGED buf
     \/ buf' = [buf EXCEPT ![th].tmp_str = <<Junk>>]
  /\ token' = [token EXCEPT ![th] = Nowhere]
  /\ UNCHANGED <<olds, input, from, tokens, crossed, runs>>

-----------------------------------------------------------------------------
(* text_parse, ip_to_hex_str and check_right_ip: cut the string to its end *)

\* Mutant: text_parse goes on where text_check_data stopped.
CutFirstOn(th) ==
  /\ pc[th] = "first"
  /\ Strtok(th, olds, "use", "push")
  /\ UNCHANGED <<input, from, tokens, runs>>

CutFirst(th) ==
  /\ pc[th] = "first"
  /\ Strtok(th, Own(th, "line"), "use", "push")
  /\ UNCHANGED <<input, from, tokens, runs>>

\* The token is copied or read as a number.
Use(th) ==
  /\ pc[th] = "use"
  /\ tokens' = [tokens EXCEPT ![th] = Append(@, Token(th))]
  /\ token' = [token EXCEPT ![th] = Nowhere]
  /\ pc' = [pc EXCEPT ![th] = "again"]
  /\ UNCHANGED <<olds, buf, input, from, crossed, runs>>

\* strtok(NULL, ...) loads the position ...
Again(th) ==
  /\ pc[th] = "again"
  /\ from' = [from EXCEPT ![th] = olds]
  /\ pc' = [pc EXCEPT ![th] = "cut"]
  /\ UNCHANGED <<olds, buf, input, token, tokens, crossed, runs>>

\* ... and goes on there.
CutNext(th) ==
  /\ pc[th] = "cut"
  /\ Strtok(th, from[th], "use", "push")
  /\ from' = [from EXCEPT ![th] = Nowhere]
  /\ UNCHANGED <<input, tokens, runs>>

\* push_cmd_queue, or the function returns what it has found; a line that does
\* not match is left alone.
Leave(th) ==
  /\ pc[th] \in {"push", "done"}
  /\ pc' = [pc EXCEPT ![th] = "idle"]
  /\ input' = [input EXCEPT ![th] = <<>>]
  /\ token' = [token EXCEPT ![th] = Nowhere]
  /\ tokens' = [tokens EXCEPT ![th] = <<>>]
  /\ crossed' = [crossed EXCEPT ![th] = FALSE]
  /\ UNCHANGED <<olds, buf, from, runs>>

-----------------------------------------------------------------------------
Step(th) == \/ Copy(th) \/ Check(th) \/ Match(th) \/ CutFirst(th) \/ Use(th)
            \/ Again(th) \/ CutNext(th) \/ Leave(th)

Next == \E th \in Threads : Begin(th) \/ Step(th)

Spec == Init /\ [][Next]_vars

-----------------------------------------------------------------------------
(* Properties                                                              *)

\* Whoever else cuts strings meanwhile, the number of a request that is parsed,
\* "[id]" of the protocol, by which its reply is known, is that of its own first
\* word: its digits in the 16 bits of frame_id.  Whether the request is accepted
\* depends on that word too, unless another thread's call has put a Nul behind it.
\* (Before the copy, that leaves the copy without an end.)
FirstWordOwn ==
  \A th \in Workers :
    LET line == buf[th].line
        word == FirstWord(input[th])
    IN  /\ pc[th] = "use" /\ tokens[th] = <<>> => Token(th) = word
        /\ pc[th] = "push" =>
             tokens[th] # <<>> /\ FrameId(th) = Number[input[th]] % 65536
        /\ pc[th] = "match" /\ line[Len(word) + 1] = Space => Token(th) = word

\* Where the fields of s begin, and the field that begins at k.
Starts(s, delimiter) ==
  {k \in DOMAIN s : s[k] # delimiter /\ (k > 1 => s[k - 1] = delimiter)}

Field(s, delimiter, k) == SubSeq(s, k, Seek(s, k, {delimiter}) - 1)

\* s split at the delimiter.
Fields(s, delimiter) ==
  LET starts   == Starts(s, delimiter)
      start(n) == CHOOSE k \in starts : Cardinality({m \in starts : m < k}) = n - 1
  IN  [n \in 1..Cardinality(starts) |-> Field(s, delimiter, start(n))]

\* strtok keeps its position in one variable: what a thread has cut is what it
\* was given, split at its own delimiter, unless another thread called strtok
\* between.  (Then words are lost, doubled or taken from another's request.)
TornOnlyWhenCrossed ==
  \A th \in Threads :
    pc[th] = "push" /\ ~crossed[th] => tokens[th] = Fields(input[th], Delimiter(th))

=============================================================================
