----------------------------- MODULE ConfigFile -----------------------------
(***************************************************************************)
(* common/common.c: config_file, which records the program's version in a  *)
(* file of lines "attribute=value" that it shares with others.  The line   *)
(* of the attribute is filled with zeros where it stands and written over; *)
(* if there is none, it is written where the lines read so far end.        *)
(*                                                                         *)
(* Offsets come from strlen, which sees nothing behind a zero.  fseek and  *)
(* fclose flush what has been written: a crash between them leaves the     *)
(* zeros in the file, and so does an fseek that fails behind them.  What   *)
(* fprintf and fclose return is not looked at.                             *)
(***************************************************************************)
EXTENDS Naturals, Sequences

CONSTANTS
  Attribute,  \* atrribute, one byte
  Values,     \* values of the program's versions, sequences of bytes
  Files,      \* contents of the file before the first start
  LineMax     \* bytes that fgets reads at once, 511

\* Bytes are named by strings; the files are text, and a version is one line that
\* fgets reads at once.
ASSUME ConfigAssumption ==
  /\ Attribute \in STRING \ {"nul", "nl", "="}
  /\ Values \subseteq Seq(STRING \ {"nul", "nl"})
  /\ Files \subseteq Seq(STRING \ {"nul"})
  /\ LineMax \in Nat /\ LineMax >= 3
  /\ \A v \in Values : Len(v) + 3 <= LineMax

VARIABLES
  file,     \* the file's bytes
  cpc,      \* where config_file is
  fpos,     \* bytes read
  len,      \* where config_file believes the line it looks at begins
  line_len, \* strlen of that line
  buffer1,  \* the attribute of the last line that had one
  value,    \* the argument
  \* history
  original, \* the file before the first start
  torn,     \* some start crashed or failed after its zeros and before its line's end
  resized   \* some start wrote a line of another length than it found

config == <<file, cpc, fpos, len, line_len, buffer1, value, original, torn, resized>>

\* The first place from k on that holds the byte, or the end of s.
Find(s, k, byte) ==
  LET places == {m \in k..Len(s) : s[m] = byte} IN
  IF places = {} THEN Len(s) + 1 ELSE CHOOSE m \in places : \A n \in places : m <= n

CString(s) == SubSeq(s, 1, Find(s, 1, "nul") - 1)
Name(s)    == SubSeq(CString(s), 1, Find(CString(s), 1, "=") - 1)

\* Mutant: bytes are put between those of the file.
Insert(s, at, t) == SubSeq(s, 1, at) \o t \o SubSeq(s, at + 1, Len(s))

\* fwrite of t at offset at.
Overwrite(s, at, t) == SubSeq(s, 1, at) \o t \o SubSeq(s, at + Len(t) + 1, Len(s))

LineOf(v) == <<Attribute, "=">> \o v \o <<"nl">>

ConfigInit ==
  /\ file \in Files /\ original = file
  /\ cpc = "closed"
  /\ fpos = 0 /\ len = 0 /\ line_len = 0
  /\ buffer1 = <<>> /\ value = <<>>
  /\ torn = FALSE /\ resized = FALSE

Open ==
  /\ cpc = "closed"
  /\ value' \in Values
  /\ cpc' \in {"read", "failed"}     \* fopen
  /\ fpos' = 0 /\ len' = 0 /\ line_len' = 0 /\ buffer1' = <<>>
  /\ UNCHANGED <<file, original, torn, resized>>

\* fgets: up to a newline, the end of the file or the end of its buffer.
NextLine ==
  LET end  == Find(file, fpos + 1, "nl")
      stop == IF Len(file) < fpos + LineMax THEN Len(file) ELSE fpos + LineMax
  IN  SubSeq(file, fpos + 1, IF end > stop THEN stop ELSE end)

\* Mutant: the line that was found counts as one of those before it.
ReadLineCounted ==
  /\ cpc = "read" /\ fpos < Len(file)
  /\ fpos' = fpos + Len(NextLine) /\ line_len' = Len(CString(NextLine))
  /\ buffer1' = IF Name(NextLine) = <<>> THEN buffer1 ELSE Name(NextLine)
  /\ len' = len + line_len'
  /\ cpc' = IF buffer1' = <<Attribute>> THEN "clear" ELSE "read"
  /\ UNCHANGED <<file, value, original, torn, resized>>

\* Mutant: reading goes on where strlen says that the line ends.
ReadLineByStrlen ==
  /\ cpc = "read" /\ fpos < Len(file)
  /\ line_len' = Len(CString(NextLine)) /\ fpos' = fpos + line_len'
  /\ buffer1'  = IF Name(NextLine) = <<>> THEN buffer1 ELSE Name(NextLine)
  /\ IF buffer1' = <<Attribute>>
     THEN cpc' = "clear" /\ UNCHANGED len
     ELSE cpc' = "read"  /\ len' = len + line_len'
  /\ UNCHANGED <<file, value, original, torn, resized>>

\* fgets, and sscanf up to the equals sign; an empty attribute stores nothing.
\* A piece from the middle of a long line is taken for a line like any other.  At
\* the line of the attribute len goes back to where the line begins.
ReadLine ==
  /\ cpc = "read" /\ fpos < Len(file)
  /\ fpos' = fpos + Len(NextLine) /\ line_len' = Len(CString(NextLine))
  /\ buffer1' = IF Name(NextLine) = <<>> THEN buffer1 ELSE Name(NextLine)
  /\ IF buffer1' = <<Attribute>>
     THEN cpc' = "clear" /\ UNCHANGED len
     ELSE cpc' = "read"  /\ len' = len + line_len'
  /\ UNCHANGED <<file, value, original, torn, resized>>

EndOfFile ==
  /\ cpc = "read" /\ fpos = Len(file)
  /\ cpc' = "append"
  /\ UNCHANGED <<file, fpos, len, line_len, buffer1, value, original, torn, resized>>

Cleared == Overwrite(file, len, [i \in 1..line_len |-> "nul"])

Clear ==
  /\ cpc = "clear"
  /\ file' = Cleared
  /\ cpc' = "rewrite"
  /\ UNCHANGED <<fpos, len, line_len, buffer1, value, original, torn, resized>>

\* fseek fails in front of the line or, with the zeros in the file or lost, behind
\* them: the program ends.
SeekFails ==
  /\ cpc \in {"clear", "append"}
  /\ \/ UNCHANGED <<file, torn>>
     \/ cpc = "clear" /\ file' = Cleared /\ torn' = TRUE
  /\ cpc' = "failed"
  /\ UNCHANGED <<fpos, len, line_len, buffer1, value, original, resized>>

\* Mutant: the line is written at the beginning of the file.
WriteRewound ==
  /\ cpc \in {"rewrite", "append"}
  /\ file' = Overwrite(file, 0, LineOf(value))
  /\ resized' = (resized \/ (cpc = "rewrite" /\ line_len # Len(LineOf(value))))
  /\ cpc' = "done"
  /\ UNCHANGED <<fpos, len, line_len, buffer1, value, original, torn>>

\* fprintf and fclose.  On a full disk only the first n bytes arrive, unnoticed.
Write ==
  /\ cpc \in {"rewrite", "append"}
  /\ \E n \in 0..Len(LineOf(value)) :
       /\ file' = Overwrite(file, len, SubSeq(LineOf(value), 1, n))
       /\ torn' = (torn \/ n < Len(LineOf(value)))
  /\ resized' = (resized \/ (cpc = "rewrite" /\ line_len # Len(LineOf(value))))
  /\ cpc' = "done"
  /\ UNCHANGED <<fpos, len, line_len, buffer1, value, original>>

ConfigStep == Open \/ ReadLine \/ EndOfFile \/ Clear \/ SeekFails \/ Write

\* The locals are gone.
Forget ==
  /\ cpc' = "closed"
  /\ fpos' = 0 /\ len' = 0 /\ line_len' = 0 /\ buffer1' = <<>> /\ value' = <<>>
  /\ UNCHANGED <<file, original, resized>>

ConfigReturn(result) == cpc = result /\ Forget /\ UNCHANGED torn

ConfigCrash == Forget /\ torn' = (torn \/ cpc = "rewrite")

-----------------------------------------------------------------------------
(* Properties                                                              *)

\* Behind p bytes of s begins a line that config_file takes for the attribute's:
\* A=..., or an A with which the file ends.
OwnAt(s, p) ==
  /\ p < Len(s) /\ s[p + 1] = Attribute
  /\ p = 0 \/ s[p] = "nl"
  /\ p + 1 = Len(s) \/ s[p + 2] = "="

\* The bytes in front of the attribute's first line, or all.
OwnPlace(s) ==
  LET own == {p \in 0..Len(s) : OwnAt(s, p)} IN
  IF own = {} THEN Len(s) ELSE CHOOSE p \in own : \A q \in own : p <= q

\* s without that line.
Others(s) ==
  SubSeq(s, 1, OwnPlace(s)) \o SubSeq(s, Find(s, OwnPlace(s) + 1, "nl") + 1, Len(s))

\* A last line without an end: what is appended becomes part of it.
Ragged == original # <<>> /\ original[Len(original)] # "nl"

\* A line that fgets does not read at once: one of its pieces may look like the
\* attribute's line.
Long ==
  \E i \in 0..Len(original) - LineMax : \A j \in 1..LineMax : original[i + j] # "nl"

Plain == ~Ragged /\ ~Long

\* In a file of whole lines, none of them long, the version can be read after
\* config_file: the first line of the attribute holds it, however often the
\* program was started and whatever the other versions wrote, unless a start
\* crashed or a write failed half-way.
Recorded ==
  cpc = "done" /\ ~torn /\ Plain =>
    LET p == OwnPlace(file) IN
    /\ p + Len(LineOf(value)) <= Len(file)
    /\ SubSeq(file, p + 1, p + Len(LineOf(value))) = LineOf(value)

\* Nor is anybody else's line touched in such a file, by a call that succeeds or
\* fails, as long as all versions are equally long and no start crashed or failed
\* half-way.  (A shorter line leaves zeros in front of its neighbour, a longer one
\* runs into it; behind the zeros of a crash, offsets are short and the next start
\* writes over a line.)
OthersKept ==
  cpc \in {"closed", "done", "failed"} /\ ~torn /\ ~resized /\ Plain =>
    Others(file) = Others(original)

\* Whatever crashes or fails, the bytes before the line of the attribute are safe
\* if no line is long.
PrefixKept ==
  ~Long => \A k \in 1..OwnPlace(original) : k <= Len(file) /\ file[k] = original[k]

=============================================================================
