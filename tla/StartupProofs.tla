---------------------------- MODULE StartupProofs ----------------------------
(***************************************************************************)
(* Proofs about Startup, for any files without zeros, any versions, any    *)
(* requests and any number of restarts.                                    *)
(*                                                                         *)
(* About config_file there are two invariants.  IInv holds whatever fails  *)
(* and however often the machine goes down, also between the two writes.   *)
(* config_file counts bytes with strlen, so its offset may fall short of   *)
(* what it has read; ReadInv says that this happens only after it has      *)
(* passed every byte in front of the attribute's line: those are as they   *)
(* were and hold no zero.  WholeInv holds until a start crashes half-way:  *)
(* offsets are exact, and the file is the original with one line replaced. *)
(*                                                                         *)
(* MainInv is about main, its lists and the requests.                      *)
(***************************************************************************)
EXTENDS Startup, SequenceTheorems, WellFoundedInduction, TLAPS

\* A byte; the provers do not know that its names are strings.
Byte == STRING \cup {"nul", "nl", "="}

\* The k-th byte stands before the line of the attribute, in a file without long
\* lines.
Safe(k) == ~Long /\ k \in 1..OwnPlace(original)

\* No safe byte lies behind offset n.
Passed(n) == \A k \in Nat : Safe(k) => k <= n

Types ==
  /\ original \in Seq(Byte \ {"nul"})
  /\ file \in Seq(Byte) /\ value \in Seq(Byte \ {"nul", "nl"})
  /\ Len(value) + 3 <= LineMax
  /\ fpos \in Nat /\ len \in Nat /\ line_len \in Nat

ReadInv ==
  cpc = "read" =>
    /\ len <= fpos /\ fpos <= Len(file)
    /\ buffer1 # <<Attribute>>
    /\ \/ Passed(len)
       \/ len = fpos /\ (fpos \in {0, Len(file)} \/ file[fpos] = "nl")

WriteInv == cpc \in {"clear", "rewrite", "append"} => Passed(len) /\ len <= Len(file)

IInv == Types /\ PrefixKept /\ ReadInv /\ WriteInv

-----------------------------------------------------------------------------
(* Strings                                                                 *)

\* A set of natural numbers that is not empty has a least element.
LEMMA Least ==
  ASSUME NEW T \in SUBSET Nat, T # {}
  PROVE  \E m \in T : \A n \in T : m <= n
<1> DEFINE R == OpToRel(<, Nat)
<1>1. PICK m \in T : \A n \in T : ~(<<n, m>> \in R)
  <2>1. IsWellFoundedOn(R, Nat)
    BY NatLessThanWellFounded
  <2> HIDE DEF R
  <2> QED BY <2>1, WFMin
<1>2. ASSUME NEW n \in T, n < m PROVE FALSE
  <2>1. <<n, m>> \in R
    BY <1>2 DEF OpToRel
  <2> HIDE DEF R
  <2> QED BY <1>1, <2>1
<1> QED BY <1>2

\* What Find promises.
LEMMA FindProperties ==
  ASSUME NEW s, Len(s) \in Nat, NEW k \in 1..Len(s) + 1, NEW byte
  PROVE  /\ Find(s, k, byte) \in k..Len(s) + 1
         /\ Find(s, k, byte) <= Len(s) => s[Find(s, k, byte)] = byte
         /\ \A m \in k..Find(s, k, byte) - 1 : s[m] # byte
<1> DEFINE places == {m \in k..Len(s) : s[m] = byte}
<1>1. CASE places = {}
  BY <1>1 DEF Find
<1>2. CASE places # {}
  <2>1. \E m \in places : \A n \in places : m <= n
    <3>1. places \in SUBSET Nat
      OBVIOUS
    <3> HIDE DEF places
    <3> QED BY <1>2, <3>1, Least
  <2>2. /\ Find(s, k, byte) \in places
        /\ \A n \in places : Find(s, k, byte) <= n
    BY <1>2, <2>1 DEF Find
  <2> QED BY <2>2
<1> QED BY <1>1, <1>2

\* What OwnPlace promises.
LEMMA OwnPlaceProperties ==
  ASSUME NEW s, Len(s) \in Nat
  PROVE  /\ OwnPlace(s) \in 0..Len(s)
         /\ \A q \in 0..OwnPlace(s) - 1 : ~OwnAt(s, q)
         /\ OwnPlace(s) = Len(s) \/ OwnAt(s, OwnPlace(s))
<1> DEFINE own == {p \in 0..Len(s) : OwnAt(s, p)}
<1>1. CASE own = {}
  BY <1>1 DEF OwnPlace
<1>2. CASE own # {}
  <2>1. \E p \in own : \A q \in own : p <= q
    <3>1. own \in SUBSET Nat
      OBVIOUS
    <3> HIDE DEF own
    <3> QED BY <1>2, <3>1, Least
  <2>2. /\ OwnPlace(s) \in own
        /\ \A q \in own : OwnPlace(s) <= q
    BY <1>2, <2>1 DEF OwnPlace
  <2> QED BY <2>2
<1> QED BY <1>1, <1>2

\* CString ends in front of the first zero.
LEMMA CStringProperties ==
  ASSUME NEW s \in Seq(Byte)
  PROVE  /\ CString(s) \in Seq(Byte) /\ Len(CString(s)) <= Len(s)
         /\ \A i \in 1..Len(CString(s)) : CString(s)[i] = s[i]
         /\ Len(CString(s)) < Len(s) => s[Len(CString(s)) + 1] = "nul"
<1> DEFINE end == Find(s, 1, "nul")
<1>1. /\ end \in 1..Len(s) + 1
      /\ end <= Len(s) => s[end] = "nul"
  BY FindProperties
<1> HIDE DEF end
<1>2. \A i \in 1..end - 1 : s[i] \in Byte
  BY <1>1
<1>3. /\ SubSeq(s, 1, end - 1) \in Seq(Byte)
      /\ Len(SubSeq(s, 1, end - 1)) = end - 1
      /\ \A i \in 1..end - 1 : SubSeq(s, 1, end - 1)[i] = s[i]
  BY <1>1, <1>2, SubSeqProperties
<1>4. CString(s) = SubSeq(s, 1, end - 1)
  BY DEF CString, end
<1> QED BY <1>1, <1>3, <1>4

\* A line that is named by one byte begins with it, and with an equals sign or the
\* end of the string behind it.
LEMMA NameProperties ==
  ASSUME NEW s \in Seq(Byte), NEW a \in Byte, Name(s) = <<a>>
  PROVE  /\ Len(CString(s)) >= 1 /\ s[1] = a
         /\ Len(CString(s)) = 1 \/ s[2] = "="
<1> DEFINE c == CString(s)
           end == Find(c, 1, "=")
<1>1. /\ c \in Seq(Byte) /\ Len(c) <= Len(s)
      /\ \A i \in 1..Len(c) : c[i] = s[i]
  BY CStringProperties
<1>2. Name(s) = SubSeq(c, 1, end - 1)
  BY DEF Name
<1> HIDE DEF c
<1>3. /\ end \in 1..Len(c) + 1
      /\ end <= Len(c) => c[end] = "="
  BY <1>1, FindProperties
<1> HIDE DEF end
<1>4. /\ Len(SubSeq(c, 1, end - 1)) = end - 1
      /\ \A i \in 1..end - 1 : SubSeq(c, 1, end - 1)[i] = c[i]
  <2>1. \A i \in 1..end - 1 : c[i] \in Byte
    BY <1>1, <1>3
  <2> QED BY <1>3, <2>1, SubSeqProperties
<1>5. end = 2 /\ c[1] = a
  <2> DEFINE n == Name(s)
  <2>1. Len(n) = 1 /\ n[1] = a
    OBVIOUS
  <2>2. Len(n) = end - 1 /\ \A i \in 1..end - 1 : n[i] = c[i]
    BY <1>2, <1>4
  <2> HIDE DEF n
  <2>3. end - 1 = 1
    BY <1>3, <2>1, <2>2
  <2> QED BY <1>3, <2>1, <2>2, <2>3
<1>6. Len(c) >= 1 /\ s[1] = a /\ (Len(c) = 1 \/ s[2] = "=")
  BY <1>1, <1>3, <1>5
<1> QED BY <1>6 DEF c

\* What fgets returns.
LEMMA NextLineProperties ==
  ASSUME Types, fpos < Len(file)
  PROVE  /\ NextLine \in Seq(Byte)
         /\ Len(NextLine) >= 1 /\ fpos + Len(NextLine) <= Len(file)
         /\ Len(NextLine) <= LineMax
         /\ \A i \in 1..Len(NextLine) : NextLine[i] = file[fpos + i]
         /\ \A i \in 1..Len(NextLine) - 1 : file[fpos + i] # "nl"
         /\ \/ fpos + Len(NextLine) = Len(file)
            \/ Len(NextLine) = LineMax
            \/ file[fpos + Len(NextLine)] = "nl"
<1> DEFINE end  == Find(file, fpos + 1, "nl")
           stop == IF Len(file) < fpos + LineMax THEN Len(file) ELSE fpos + LineMax
           last == IF end > stop THEN stop ELSE end
<1>1. /\ file \in Seq(Byte) /\ Len(file) \in Nat /\ fpos \in Nat
      /\ LineMax \in Nat /\ LineMax >= 3
  BY ConfigAssumption DEF Types
<1>2. /\ end \in fpos + 1..Len(file) + 1
      /\ end <= Len(file) => file[end] = "nl"
      /\ \A m \in fpos + 1..end - 1 : file[m] # "nl"
  BY <1>1, FindProperties
<1>3. NextLine = SubSeq(file, fpos + 1, last)
  BY DEF NextLine
<1>4. /\ stop \in fpos + 1..Len(file) /\ stop <= fpos + LineMax
      /\ stop = Len(file) \/ stop = fpos + LineMax
  BY <1>1
<1> HIDE DEF end, stop
<1>5. /\ last \in fpos + 1..Len(file) /\ last <= fpos + LineMax
      /\ last = Len(file) \/ last = fpos + LineMax \/ file[last] = "nl"
      /\ \A m \in fpos + 1..last - 1 : file[m] # "nl"
  BY <1>1, <1>2, <1>4
<1> HIDE DEF last
<1>6. \A i \in fpos + 1..last : file[i] \in Byte
  BY <1>1, <1>5
<1>7. /\ NextLine \in Seq(Byte)
      /\ Len(NextLine) = last - fpos
      /\ \A i \in 1..last - fpos : NextLine[i] = file[fpos + i]
  <2>1. /\ SubSeq(file, fpos + 1, last) \in Seq(Byte)
        /\ Len(SubSeq(file, fpos + 1, last)) = last - (fpos + 1) + 1
        /\ \A i \in 1..last - (fpos + 1) + 1 :
             SubSeq(file, fpos + 1, last)[i] = file[(fpos + 1) + i - 1]
    BY <1>1, <1>5, <1>6, SubSeqProperties
  <2> QED BY <1>1, <1>3, <1>5, <2>1
<1> QED BY <1>1, <1>5, <1>7

\* fwrite changes what stands at its offset, and nothing else.
LEMMA OverwriteProperties ==
  ASSUME NEW s \in Seq(Byte), NEW t \in Seq(Byte), NEW at \in 0..Len(s)
  PROVE  /\ Overwrite(s, at, t) \in Seq(Byte)
         /\ Len(Overwrite(s, at, t)) = IF at + Len(t) <= Len(s) THEN Len(s) ELSE at + Len(t)
         /\ \A k \in 1..at : Overwrite(s, at, t)[k] = s[k]
         /\ \A i \in 1..Len(t) : Overwrite(s, at, t)[at + i] = t[i]
         /\ \A k \in at + Len(t) + 1..Len(s) : Overwrite(s, at, t)[k] = s[k]
<1> DEFINE head == SubSeq(s, 1, at)
           back == SubSeq(s, at + Len(t) + 1, Len(s))
<1>1. /\ head \in Seq(Byte) /\ Len(head) = at
      /\ \A k \in 1..at : head[k] = s[k]
  <2>1. \A i \in 1..at : s[i] \in Byte
    OBVIOUS
  <2> QED BY <2>1, SubSeqProperties
<1>2. /\ back \in Seq(Byte)
      /\ Len(back) = IF at + Len(t) <= Len(s) THEN Len(s) - (at + Len(t)) ELSE 0
      /\ \A k \in at + Len(t) + 1..Len(s) : back[k - (at + Len(t))] = s[k]
  <2>1. \A i \in at + Len(t) + 1..Len(s) : s[i] \in Byte
    OBVIOUS
  <2>2. /\ back \in Seq(Byte)
        /\ Len(back) = IF at + Len(t) + 1 <= Len(s) THEN Len(s) - (at + Len(t) + 1) + 1 ELSE 0
        /\ \A i \in 1..Len(s) - (at + Len(t) + 1) + 1 : back[i] = s[at + Len(t) + 1 + i - 1]
    BY <2>1, SubSeqProperties
  <2> HIDE DEF back
  <2>4. Len(back) = IF at + Len(t) <= Len(s) THEN Len(s) - (at + Len(t)) ELSE 0
    BY <2>2
  <2>3. ASSUME NEW k \in at + Len(t) + 1..Len(s) PROVE back[k - (at + Len(t))] = s[k]
    <3>1. k - (at + Len(t)) \in 1..Len(s) - (at + Len(t) + 1) + 1
      OBVIOUS
    <3>2. at + Len(t) + 1 + (k - (at + Len(t))) - 1 = k
      OBVIOUS
    <3> QED BY <2>2, <3>1, <3>2
  <2> QED BY <2>2, <2>3, <2>4
<1>3. Overwrite(s, at, t) = (head \o t) \o back
  BY DEF Overwrite
<1> HIDE DEF head, back
<1> DEFINE fore == head \o t
<1>4. /\ fore \in Seq(Byte) /\ Len(fore) = at + Len(t)
      /\ \A k \in 1..at : fore[k] = s[k]
      /\ \A i \in 1..Len(t) : fore[at + i] = t[i]
  <2>1. /\ fore \in Seq(Byte) /\ Len(fore) = Len(head) + Len(t)
        /\ \A i \in 1..Len(head) + Len(t) :
             fore[i] = IF i <= Len(head) THEN head[i] ELSE t[i - Len(head)]
    BY <1>1, ConcatProperties
  <2> HIDE DEF fore
  <2>2. \A k \in 1..at : fore[k] = s[k]
    BY <1>1, <2>1
  <2>3. ASSUME NEW i \in 1..Len(t) PROVE fore[at + i] = t[i]
    <3>1. at + i \in 1..Len(head) + Len(t) /\ ~(at + i <= Len(head)) /\ at + i - Len(head) = i
      BY <1>1
    <3> QED BY <2>1, <3>1
  <2> QED BY <1>1, <2>1, <2>2, <2>3
<1> HIDE DEF fore
<1>5. /\ fore \o back \in Seq(Byte) /\ Len(fore \o back) = Len(fore) + Len(back)
      /\ \A i \in 1..Len(fore) + Len(back) :
           (fore \o back)[i] = IF i <= Len(fore) THEN fore[i] ELSE back[i - Len(fore)]
  <2>1. fore \in Seq(Byte) /\ back \in Seq(Byte)
    BY <1>2, <1>4
  <2> QED BY <2>1, ConcatProperties
<1> DEFINE all == fore \o back
<1>6. Overwrite(s, at, t) = all
  BY <1>3 DEF fore
<1> HIDE DEF all
<1>7. /\ all \in Seq(Byte)
      /\ Len(all) = IF at + Len(t) <= Len(s) THEN Len(s) ELSE at + Len(t)
      /\ \A k \in 1..at : all[k] = s[k]
      /\ \A i \in 1..Len(t) : all[at + i] = t[i]
      /\ \A k \in at + Len(t) + 1..Len(s) : all[k] = s[k]
  <2> DEFINE n == at + Len(t)
             m == Len(back)
  <2>1. n \in Nat /\ m \in Nat /\ Len(fore) = n
    BY <1>2, <1>4
  <2>2. /\ all \in Seq(Byte) /\ Len(all) = n + m
        /\ \A i \in 1..n + m : all[i] = IF i <= n THEN fore[i] ELSE back[i - n]
    BY <1>5, <2>1 DEF all
  <2> HIDE DEF all
  <2>3. m = IF n <= Len(s) THEN Len(s) - n ELSE 0
    BY <1>2
  <2>4. \A k \in n + 1..Len(s) : back[k - n] = s[k]
    BY <1>2
  <2>5. \A k \in 1..at : k <= n /\ k \in 1..n + m
    BY <2>1
  <2>6. \A i \in 1..Len(t) : at + i <= n /\ at + i \in 1..n + m
    BY <2>1
  <2> HIDE DEF n, m
  <2>7. \A k \in n + 1..Len(s) : k \in 1..n + m /\ ~(k <= n)
    BY <2>1, <2>3
  <2>8. Len(all) = IF n <= Len(s) THEN Len(s) ELSE n
    BY <2>1, <2>2, <2>3
  <2> QED BY <1>4, <2>2, <2>4, <2>5, <2>6, <2>7, <2>8 DEF n
<1> QED BY <1>6, <1>7

\* What is written is one line of the attribute's.
LEMMA LineOfProperties ==
  ASSUME NEW v \in Seq(Byte \ {"nul", "nl"})
  PROVE  /\ LineOf(v) \in Seq(Byte) /\ Len(LineOf(v)) = Len(v) + 3
         /\ LineOf(v)[1] = Attribute /\ LineOf(v)[2] = "="
         /\ LineOf(v)[Len(LineOf(v))] = "nl"
         /\ \A i \in 1..Len(LineOf(v)) - 1 : LineOf(v)[i] \notin {"nl", "nul"}
<1> DEFINE a == <<Attribute, "=">>
           b == a \o v
           z == <<"nl">>
           t == b \o z
           n == Len(v)
<1>1. /\ Attribute \in Byte \ {"nul", "nl"} /\ "=" \in Byte /\ "nl" \in Byte
  BY ConfigAssumption DEF Byte
<1>2. /\ a \in Seq(Byte) /\ Len(a) = 2 /\ a[1] = Attribute /\ a[2] = "="
      /\ z \in Seq(Byte) /\ Len(z) = 1 /\ z[1] = "nl"
  BY <1>1
<1>3. v \in Seq(Byte) /\ n \in Nat /\ \A i \in 1..n : v[i] \notin {"nul", "nl"}
  OBVIOUS
<1> HIDE DEF a, z
<1>4. /\ b \in Seq(Byte) /\ Len(b) = 2 + n
      /\ \A i \in 1..2 + n : b[i] = IF i <= 2 THEN a[i] ELSE v[i - 2]
  <2>1. b \in Seq(Byte) /\ Len(b) = Len(a) + Len(v)
        /\ \A i \in 1..Len(a) + Len(v) : b[i] = IF i <= Len(a) THEN a[i] ELSE v[i - Len(a)]
    BY <1>2, <1>3, ConcatProperties
  <2> HIDE DEF b
  <2> QED BY <1>2, <2>1
<1> HIDE DEF b
<1>5. /\ t \in Seq(Byte) /\ Len(t) = 2 + n + 1
      /\ \A i \in 1..2 + n + 1 : t[i] = IF i <= 2 + n THEN b[i] ELSE z[i - (2 + n)]
  <2>1. t \in Seq(Byte) /\ Len(t) = Len(b) + Len(z)
        /\ \A i \in 1..Len(b) + Len(z) : t[i] = IF i <= Len(b) THEN b[i] ELSE z[i - Len(b)]
    BY <1>2, <1>4, ConcatProperties
  <2> HIDE DEF t
  <2> QED BY <1>2, <1>4, <2>1
<1>6. LineOf(v) = t
  BY DEF LineOf, t, b, a, z
<1> HIDE DEF t, n
<1>7. Len(t) = n + 3 /\ t[1] = Attribute /\ t[2] = "=" /\ t[n + 3] = "nl"
  <2>1. t[n + 3] = z[1]
    <3>1. n + 3 \in 1..2 + n + 1 /\ ~(n + 3 <= 2 + n) /\ n + 3 - (2 + n) = 1
      BY <1>3
    <3> DEFINE m == n + 3
    <3> HIDE DEF m
    <3>2. m \in 1..2 + n + 1 /\ ~(m <= 2 + n) /\ m - (2 + n) = 1
      BY <1>3 DEF m
    <3>3. t[m] = z[m - (2 + n)]
      BY <1>5, <3>2
    <3>4. t[m] = z[1]
      BY <3>2, <3>3
    <3> QED BY <3>4 DEF m
  <2>2. Len(t) = n + 3
    BY <1>3, <1>5
  <2>3. t[1] = a[1] /\ t[2] = a[2]
    <3>1. 1 \in 1..2 + n + 1 /\ 2 \in 1..2 + n + 1 /\ 1 \in 1..2 + n /\ 2 \in 1..2 + n
      BY <1>3
    <3> QED BY <1>3, <1>4, <1>5, <3>1
  <2> QED BY <1>2, <2>1, <2>2, <2>3
<1>8. ASSUME NEW i \in 1..n + 2 PROVE t[i] \notin {"nl", "nul"}
  <2>1. t[i] = b[i] /\ i \in 1..2 + n
    BY <1>3, <1>5
  <2>2. CASE i <= 2
    <3>1. i = 1 \/ i = 2
      BY <2>2
    <3>2. t[i] = Attribute \/ t[i] = "="
      BY <1>7, <3>1
    <3> QED BY <1>1, <3>2
  <2>3. CASE ~(i <= 2)
    <3>1. i - 2 \in 1..n
      BY <1>3, <2>3
    <3> QED BY <1>3, <1>4, <2>1, <2>3, <3>1
  <2> QED BY <2>2, <2>3
<1>9. Len(t) - 1 = n + 2
  BY <1>3, <1>7
<1> QED BY <1>5, <1>6, <1>7, <1>8, <1>9 DEF n

-----------------------------------------------------------------------------
(* The invariant                                                           *)

\* Bytes before a safe one are safe.
LEMMA SafeBelow ==
  ASSUME Types, NEW k \in Nat, Safe(k), NEW m \in 1..k
  PROVE  Safe(m)
BY OwnPlaceProperties DEF Types, Safe

\* Safe bytes are as they were, and none is a zero.
LEMMA SafeByte ==
  ASSUME IInv, NEW k \in Nat, Safe(k)
  PROVE  k <= Len(file) /\ file[k] = original[k] /\ file[k] # "nul"
<1>1. k \in 1..Len(original) /\ original \in Seq(Byte \ {"nul"})
  BY OwnPlaceProperties DEF Safe, IInv, Types
<1>2. original[k] # "nul"
  BY <1>1
<1> QED BY <1>1, <1>2 DEF Safe, IInv, PrefixKept

\* Where the offset is that of the bytes read, a line that config_file takes for
\* the attribute's has no safe byte.
LEMMA FoundIsUnsafe ==
  ASSUME IInv, cpc = "read", fpos < Len(file), Name(NextLine) = <<Attribute>>,
         fpos = 0 \/ file[fpos] = "nl"
  PROVE  Passed(fpos)
<1> SUFFICES ASSUME NEW k \in Nat, Safe(k), k > fpos PROVE FALSE
  BY DEF Passed, IInv, Types
<1> DEFINE P == OwnPlace(original)
<1>1. /\ Types /\ fpos \in Nat /\ Len(original) \in Nat
      /\ P \in 0..Len(original) /\ k <= P
      /\ \A q \in 0..P - 1 : ~OwnAt(original, q)
      /\ P = Len(original) \/ OwnAt(original, P)
  BY OwnPlaceProperties DEF IInv, Types, Safe
<1> HIDE DEF P
<1>2. Safe(fpos + 1) /\ (fpos > 0 => Safe(fpos))
  BY <1>1, SafeBelow
<1>3. ~OwnAt(original, fpos) /\ fpos + 1 <= Len(original)
  BY <1>1
<1>4. /\ NextLine \in Seq(Byte)
      /\ \A i \in 1..Len(NextLine) : NextLine[i] = file[fpos + i]
      /\ Len(NextLine) >= 1
      /\ \/ fpos + Len(NextLine) = Len(file)
         \/ Len(NextLine) = LineMax
         \/ file[fpos + Len(NextLine)] = "nl"
      /\ fpos + Len(NextLine) <= Len(file)
  BY <1>1, NextLineProperties
<1>5. /\ NextLine[1] = Attribute
      /\ Len(CString(NextLine)) >= 1
      /\ Len(CString(NextLine)) = 1 \/ NextLine[2] = "="
  BY <1>4, NameProperties, ConfigAssumption DEF Byte
<1>6. original[fpos + 1] = Attribute
  BY <1>1, <1>2, <1>4, <1>5, SafeByte
<1>7. fpos = 0 \/ original[fpos] = "nl"
  BY <1>1, <1>2, SafeByte
<1>8. fpos + 1 < Len(original) /\ original[fpos + 2] # "="
  BY <1>1, <1>3, <1>6, <1>7 DEF OwnAt
<1>9. Safe(fpos + 2)
  <2>1. original[fpos + 1] # "nl"
    BY <1>6, ConfigAssumption
  <2>2. ~OwnAt(original, fpos + 1)
    BY <1>1, <2>1 DEF OwnAt
  <2>3. fpos + 1 # P
    BY <1>1, <1>8, <2>2
  <2> QED BY <1>1, <2>3 DEF Safe, P
<1>10. /\ fpos + 2 <= Len(file)
       /\ file[fpos + 2] = original[fpos + 2] /\ file[fpos + 2] # "nul"
  BY <1>1, <1>9, SafeByte
<1>11. Len(NextLine) >= 2
  <2>1. file[fpos + 1] # "nl"
    BY <1>4, <1>5, ConfigAssumption
  <2> QED BY <1>1, <1>4, <1>10, <2>1, ConfigAssumption DEF Types
<1>12. NextLine[2] = file[fpos + 2]
  BY <1>4, <1>11
<1>13. Len(CString(NextLine)) = 1
  BY <1>5, <1>8, <1>10, <1>12
<1>14. NextLine[2] = "nul"
  <2>1. Len(CString(NextLine)) < Len(NextLine) => NextLine[Len(CString(NextLine)) + 1] = "nul"
    BY <1>4, CStringProperties
  <2>2. NextLine[1 + 1] = "nul"
    BY <1>4, <1>11, <1>13, <2>1
  <2> QED BY <2>2
<1> QED BY <1>10, <1>12, <1>14

\* Where strlen ends before the line does, all safe bytes have been passed.
LEMMA ShortIsPassed ==
  ASSUME IInv, fpos < Len(file), Len(CString(NextLine)) < Len(NextLine)
  PROVE  Passed(fpos + Len(CString(NextLine)))
<1> DEFINE m == Len(CString(NextLine))
<1> SUFFICES ASSUME NEW k \in Nat, Safe(k), k > fpos + m PROVE FALSE
  <2>1. m \in Nat /\ fpos \in Nat
    BY CStringProperties, NextLineProperties DEF IInv, Types
  <2> HIDE DEF m
  <2>2. Passed(fpos + m)
    BY <2>1 DEF Passed
  <2> QED BY <2>2 DEF m
<1>1. Types /\ fpos \in Nat
  BY DEF IInv, Types
<1>2. /\ NextLine \in Seq(Byte)
      /\ \A i \in 1..Len(NextLine) : NextLine[i] = file[fpos + i]
  BY <1>1, NextLineProperties
<1>3. m \in Nat /\ m < Len(NextLine) /\ NextLine[m + 1] = "nul"
  BY <1>2, CStringProperties
<1> HIDE DEF m
<1>4. file[fpos + m + 1] = "nul"
  <2>1. NextLine[m + 1] = file[fpos + (m + 1)]
    BY <1>2, <1>3
  <2>2. fpos + (m + 1) = fpos + m + 1
    BY <1>1, <1>3
  <2> QED BY <1>3, <2>1, <2>2
<1>5. Safe(fpos + m + 1)
  BY <1>1, <1>3, SafeBelow
<1> QED BY <1>1, <1>3, <1>4, <1>5, SafeByte

\* Where fgets stops in the middle of a line, all safe bytes have been passed.
LEMMA PieceIsPassed ==
  ASSUME IInv, fpos < Len(file), Len(NextLine) = LineMax, file[fpos + LineMax] # "nl"
  PROVE  Passed(fpos + LineMax)
<1> SUFFICES ASSUME NEW k \in Nat, Safe(k), k > fpos + LineMax PROVE FALSE
  BY ConfigAssumption DEF Passed, IInv, Types
<1>1. Types /\ fpos \in Nat /\ LineMax \in Nat /\ LineMax >= 3 /\ Len(original) \in Nat
  BY ConfigAssumption DEF IInv, Types
<1>2. \A i \in 1..LineMax - 1 : file[fpos + i] # "nl"
  BY <1>1, NextLineProperties
<1>3. ASSUME NEW j \in 1..LineMax PROVE original[fpos + j] # "nl"
  <2>1. Safe(fpos + j)
    BY <1>1, SafeBelow
  <2>2. original[fpos + j] = file[fpos + j]
    BY <1>1, <2>1, SafeByte
  <2>3. CASE j = LineMax
    BY <2>2, <2>3
  <2>4. CASE j \in 1..LineMax - 1
    BY <1>2, <2>2, <2>4
  <2> QED BY <1>1, <2>3, <2>4
<1>4. fpos \in 0..Len(original) - LineMax
  BY <1>1, OwnPlaceProperties DEF Safe
<1> QED BY <1>3, <1>4 DEF Long, Safe

\* A line more: the offset keeps up with the bytes read, or all safe ones are behind.
LEMMA ReadLineStep == ASSUME IInv, ReadLine PROVE IInv'
<1> DEFINE line == NextLine
           m == Len(CString(NextLine))
<1>1. /\ cpc = "read" /\ fpos < Len(file)
      /\ fpos' = fpos + Len(line) /\ line_len' = m
      /\ buffer1' = IF Name(line) = <<>> THEN buffer1 ELSE Name(line)
      /\ IF buffer1' = <<Attribute>>
         THEN cpc' = "clear" /\ len' = len
         ELSE cpc' = "read"  /\ len' = len + m
      /\ UNCHANGED <<file, value, original>>
  BY DEF ReadLine
<1>2. /\ Types /\ ReadInv /\ fpos \in Nat /\ len \in Nat /\ Len(file) \in Nat
  BY DEF IInv, Types
<1>3. /\ line \in Seq(Byte) /\ Len(line) >= 1 /\ fpos + Len(line) <= Len(file)
      /\ \/ fpos + Len(line) = Len(file)
         \/ file[fpos + Len(line)] = "nl"
         \/ Passed(fpos + Len(line))
  BY <1>1, <1>2, NextLineProperties, PieceIsPassed
<1>4. m \in Nat /\ m <= Len(line)
  BY <1>3, CStringProperties
<1>5. m < Len(line) => Passed(fpos + m)
  BY <1>1, ShortIsPassed
<1>6. /\ len <= fpos /\ buffer1 # <<Attribute>>
      /\ \/ Passed(len)
         \/ len = fpos /\ (fpos = 0 \/ file[fpos] = "nl")
  BY <1>1, <1>2 DEF ReadInv
<1>7. Name(line) = <<Attribute>> => Passed(len)
  BY <1>1, <1>6, FoundIsUnsafe
<1> HIDE DEF line, m
<1>8. Types'
  BY <1>1, <1>2, <1>3, <1>4 DEF Types
<1>9. PrefixKept'
  BY <1>1 DEF IInv, PrefixKept, OwnPlace, OwnAt, Long
<1>10. \A k \in Nat : Safe(k)' <=> Safe(k)
  BY <1>1 DEF Safe, OwnPlace, OwnAt, Long
<1>11. ReadInv'
  <2> SUFFICES ASSUME cpc' = "read" PROVE ReadInv'
    BY DEF ReadInv
  <2>1. len' = len + m /\ buffer1' # <<Attribute>>
    BY <1>1
  <2>2. CASE Passed(len)
    <3>1. Passed(len)'
      BY <1>2, <1>4, <1>10, <2>1, <2>2 DEF Passed
    <3> QED BY <1>1, <1>2, <1>3, <1>4, <1>6, <2>1, <3>1 DEF ReadInv
  <2>3. CASE len = fpos /\ m < Len(line)
    <3>1. Passed(len)'
      BY <1>2, <1>4, <1>5, <1>10, <2>1, <2>3 DEF Passed
    <3> QED BY <1>1, <1>2, <1>3, <1>4, <1>6, <2>1, <3>1 DEF ReadInv
  <2>4. CASE len = fpos /\ m = Len(line)
    <3>1. len' = fpos + Len(line) /\ fpos' = fpos + Len(line)
      BY <1>1, <2>1, <2>4
    <3>2. Passed(fpos + Len(line)) => Passed(len)'
      BY <1>10, <3>1 DEF Passed
    <3> QED BY <1>1, <1>2, <1>3, <2>1, <3>1, <3>2 DEF ReadInv
  <2> QED BY <1>3, <1>4, <1>6, <2>2, <2>3, <2>4
<1>12. WriteInv'
  <2> SUFFICES ASSUME cpc' = "clear" PROVE WriteInv'
    BY <1>1 DEF WriteInv
  <2>1. len' = len /\ Name(line) = <<Attribute>>
    BY <1>1, <1>6
  <2>2. Passed(len)'
    BY <1>2, <1>7, <1>10, <2>1 DEF Passed
  <2> QED BY <1>1, <1>2, <1>6, <2>1, <2>2 DEF WriteInv
<1> QED BY <1>8, <1>9, <1>11, <1>12 DEF IInv

\* Both writes of config_file: what is safe lies before their offset.
LEMMA StoreStep ==
  ASSUME IInv, cpc \in {"clear", "rewrite", "append"},
         NEW t \in Seq(Byte), file' = Overwrite(file, len, t),
         cpc' \in {"rewrite", "done", "failed"}, UNCHANGED <<fpos, len, line_len, value, original>>
  PROVE  IInv'
<1>1. Types /\ PrefixKept /\ Passed(len) /\ len \in 0..Len(file)
  BY DEF IInv, Types, WriteInv
<1>2. /\ file' \in Seq(Byte) /\ len <= Len(file')
      /\ \A k \in 1..len : file'[k] = file[k]
  BY <1>1, OverwriteProperties DEF Types
<1>3. Types'
  BY <1>1, <1>2 DEF Types
<1>4. Passed(len)'
  BY <1>1 DEF Passed, Safe, OwnPlace, OwnAt, Long
<1>5. PrefixKept'
  <2>0. Long' = Long /\ OwnPlace(original)' = OwnPlace(original) /\ original' = original
    BY DEF OwnPlace, OwnAt, Long
  <2> SUFFICES ASSUME ~Long, NEW k \in 1..OwnPlace(original)
               PROVE  k <= Len(file') /\ file'[k] = original[k]
    BY <2>0 DEF PrefixKept
  <2>1. Safe(k) /\ k \in Nat
    BY OwnPlaceProperties DEF Safe, Types
  <2>2. k <= len
    BY <1>1, <2>1 DEF Passed
  <2>3. file[k] = original[k]
    BY <1>1 DEF PrefixKept
  <2> QED BY <1>1, <1>2, <2>1, <2>2, <2>3 DEF Types
<1> QED BY <1>2, <1>3, <1>4, <1>5 DEF IInv, ReadInv, WriteInv

\* Every step of config_file.
LEMMA ConfigStepKeeps == ASSUME IInv, ConfigStep PROVE IInv'
<1>1. CASE Open
  <2>1. /\ value' \in Seq(Byte \ {"nul", "nl"}) /\ Len(value') + 3 <= LineMax
        /\ cpc' \in {"read", "failed"}
        /\ fpos' = 0 /\ len' = 0 /\ line_len' = 0 /\ buffer1' = <<>>
        /\ UNCHANGED <<file, original>>
    BY <1>1, ConfigAssumption DEF Open, Byte
  <2>2. Len(file) \in Nat
    BY DEF IInv, Types
  <2>3. buffer1' # <<Attribute>>
    BY <2>1
  <2>4. PrefixKept'
    BY <2>1 DEF IInv, PrefixKept, OwnPlace, OwnAt, Long
  <2> QED BY <2>1, <2>2, <2>3, <2>4 DEF IInv, Types, ReadInv, WriteInv
<1>2. CASE ReadLine
  BY <1>2, ReadLineStep
<1>3. CASE EndOfFile
  <2>1. /\ cpc = "read" /\ fpos = Len(file) /\ cpc' = "append"
        /\ UNCHANGED <<file, fpos, len, line_len, value, original>>
    BY <1>3 DEF EndOfFile
  <2>2. Types /\ PrefixKept /\ len <= Len(file) /\ (Passed(len) \/ len = Len(file))
    BY <2>1 DEF IInv, ReadInv
  <2>3. Passed(Len(file))
    BY SafeByte DEF Passed
  <2>4. PrefixKept'
    BY <2>1, <2>2 DEF PrefixKept, OwnPlace, OwnAt, Long
  <2>5. Passed(len) /\ len \in Nat
    BY <2>2, <2>3 DEF Types
  <2>6. Passed(len)'
    BY <2>1, <2>5 DEF Passed, Safe, OwnPlace, OwnAt, Long
  <2> QED BY <2>1, <2>2, <2>4, <2>6 DEF IInv, Types, ReadInv, WriteInv
<1>4. CASE Clear \/ (SeekFails /\ file' # file)
  <2>1. [i \in 1..line_len |-> "nul"] \in Seq(Byte)
    <3>1. line_len \in Nat /\ "nul" \in Byte
      BY DEF IInv, Types, Byte
    <3>2. [i \in 1..line_len |-> "nul"] \in [1..line_len -> Byte]
      BY <3>1
    <3> QED BY <3>1, <3>2, SeqDef
  <2> DEFINE t == [i \in 1..line_len |-> "nul"]
  <2>2. /\ cpc \in {"clear", "rewrite", "append"} /\ file' = Overwrite(file, len, t)
        /\ cpc' \in {"rewrite", "done", "failed"}
        /\ UNCHANGED <<fpos, len, line_len, value, original>>
    BY <1>4 DEF Clear, SeekFails, Cleared
  <2> HIDE DEF t
  <2>3. t \in Seq(Byte)
    BY <2>1 DEF t
  <2> QED BY <2>2, <2>3, StoreStep
<1>5. CASE SeekFails /\ file' = file
  <2>1. /\ cpc' = "failed" /\ UNCHANGED <<file, fpos, len, line_len, value, original>>
    BY <1>5 DEF SeekFails
  <2>2. PrefixKept'
    BY <2>1 DEF IInv, PrefixKept, OwnPlace, OwnAt, Long
  <2> QED BY <2>1, <2>2 DEF IInv, Types, ReadInv, WriteInv
<1>6. CASE Write
  <2>1. LineOf(value) \in Seq(Byte)
    BY LineOfProperties DEF IInv, Types
  <2>2. PICK n \in 0..Len(LineOf(value)) :
          file' = Overwrite(file, len, SubSeq(LineOf(value), 1, n))
    BY <1>6 DEF Write
  <2> DEFINE t == SubSeq(LineOf(value), 1, n)
  <2>3. t \in Seq(Byte)
    <3> DEFINE u == LineOf(value)
    <3>1. u \in Seq(Byte) /\ n \in 0..Len(u) /\ t = SubSeq(u, 1, n)
      BY <2>1
    <3> HIDE DEF u, t
    <3>2. \A i \in 1..n : u[i] \in Byte
      BY <3>1
    <3> QED BY <3>1, <3>2, SubSeqProperties
  <2>4. /\ cpc \in {"clear", "rewrite", "append"} /\ file' = Overwrite(file, len, t)
        /\ cpc' \in {"rewrite", "done", "failed"}
        /\ UNCHANGED <<fpos, len, line_len, value, original>>
    BY <1>6, <2>2 DEF Write
  <2> HIDE DEF t
  <2> QED BY <2>3, <2>4, StoreStep
<1> QED BY <1>1, <1>2, <1>3, <1>4, <1>5, <1>6 DEF ConfigStep

\* The call has returned, or the machine goes down.
LEMMA ForgetKeeps == ASSUME IInv, Forget PROVE IInv'
<1>1. PrefixKept'
  BY DEF Forget, IInv, PrefixKept, OwnPlace, OwnAt, Long
<1>2. value' = <<>> /\ Len(value') + 3 <= LineMax
  BY ConfigAssumption DEF Forget
<1> QED BY <1>1, <1>2 DEF Forget, IInv, Types, ReadInv, WriteInv

LEMMA Inductive == Spec => []IInv
<1>1. Init => IInv
  <2> SUFFICES ASSUME Init PROVE IInv
    OBVIOUS
  <2>1. /\ original \in Seq(Byte \ {"nul"}) /\ file = original /\ cpc = "closed"
        /\ fpos = 0 /\ len = 0 /\ line_len = 0 /\ value = <<>> /\ Len(value) + 3 <= LineMax
    BY ConfigAssumption DEF Init, ConfigInit, Byte
  <2>2. file \in Seq(Byte)
    BY <2>1
  <2>3. OwnPlace(original) \in 0..Len(original)
    BY <2>1, OwnPlaceProperties
  <2> QED BY <2>1, <2>2, <2>3 DEF IInv, Types, PrefixKept, ReadInv, WriteInv
<1>2. IInv /\ [Next]_vars => IInv'
  <2> SUFFICES ASSUME IInv, [Next]_vars PROVE IInv'
    OBVIOUS
  <2>1. ConfigStep \/ Forget \/ UNCHANGED config
    BY DEF Next, Main, Config, ConfigReturns, ConfigReturn, Logger, StartServer, StartCmd,
       RegisterProtocol, RegisterCmd, CreatePool, InitServsock, Send, Handle, Parse, PushTail,
       PushData, Take, Crash, ConfigCrash, vars
  <2>2. CASE UNCHANGED config
    BY <2>2 DEF config, IInv, Types, PrefixKept, OwnPlace, OwnAt, Long, ReadInv, WriteInv, Passed, Safe
  <2> QED BY <2>1, <2>2, ConfigStepKeeps, ForgetKeeps
<1> QED BY <1>1, <1>2, PTL DEF Spec

\* The bytes before the attribute's line survive every start and every crash.
THEOREM PrefixIsKept == Spec => []PrefixKept
<1>1. IInv => PrefixKept
  BY DEF IInv
<1> QED BY <1>1, Inductive, PTL

-----------------------------------------------------------------------------
(* The attribute's line and the others'                                    *)

P == OwnPlace(original)

\* Where the attribute's line ends in the original; P, if there is none.
OwnEnd == IF P = Len(original) THEN P ELSE Find(original, P + 1, "nl")

Untouched == file = original /\ P = Len(original)

\* Behind P begins a line of the attribute's.
Headed == P + 2 <= Len(file) /\ file[P + 1] = Attribute /\ file[P + 2] = "="

\* That line ends at e ...
Line(e) ==
  /\ e \in P + 3..Len(file) /\ e - P <= LineMax /\ file[e] = "nl"
  /\ \A k \in P + 1..e - 1 : file[k] \notin {"nl", "nul"}

\* ... and behind e stands what stood behind it in the original.
Behind(e) ==
  /\ e <= Len(file) /\ Len(file) - e = Len(original) - OwnEnd
  /\ \A k \in 1..Len(original) - OwnEnd : file[e + k] = original[OwnEnd + k]

ScanInv ==
  cpc = "read" => len = fpos /\ fpos <= P /\ (fpos = 0 \/ file[fpos] = "nl")

PlaceInv == cpc \in {"clear", "rewrite", "append"} => len = P

FileInv ==
  /\ cpc # "rewrite" => Untouched \/ Headed
  /\ cpc = "clear" => Headed
  /\ cpc = "append" => Untouched

DoneInv ==
  cpc = "done" =>
    /\ P + Len(LineOf(value)) <= Len(file)
    /\ \A i \in 1..Len(LineOf(value)) : file[P + i] = LineOf(value)[i]

OthersInv ==
  ~resized =>
    /\ cpc \notin {"clear", "rewrite"} => Untouched \/ \E e \in Nat : Line(e) /\ Behind(e)
    /\ cpc = "clear" => Line(P + line_len) /\ Behind(P + line_len)
    /\ cpc = "rewrite" => Behind(P + line_len)

\* While no start has crashed or failed half-way.
WholeInv == ~torn /\ Plain => ScanInv /\ PlaceInv /\ FileInv /\ DoneInv /\ OthersInv

\* The original does not change, nor does what depends on it alone.
LEMMA SamePlace ==
  ASSUME UNCHANGED original
  PROVE  P' = P /\ OwnEnd' = OwnEnd /\ Plain' = Plain
<1>1. P' = P
  BY DEF P, OwnPlace, OwnAt, Long
<1> QED BY <1>1 DEF OwnEnd, Find, Plain, Ragged, Long

\* The place of the attribute's line, and what stands in front of it.
LEMMA Front ==
  ASSUME IInv, Plain
  PROVE  /\ original \in Seq(Byte \ {"nul"}) /\ file \in Seq(Byte)
         /\ P \in 0..Len(original) /\ P <= Len(file)
         /\ P = Len(original) \/ OwnAt(original, P)
         /\ \A q \in 0..P - 1 : ~OwnAt(original, q)
         /\ \A k \in 1..P : file[k] = original[k] /\ file[k] # "nul"
         /\ P = 0 \/ file[P] = "nl"
<1>1. /\ original \in Seq(Byte \ {"nul"}) /\ file \in Seq(Byte)
      /\ P \in 0..Len(original)
      /\ P = Len(original) \/ OwnAt(original, P)
      /\ \A q \in 0..P - 1 : ~OwnAt(original, q)
  BY OwnPlaceProperties DEF P, IInv, Types
<1>2. ASSUME NEW k \in 1..P PROVE k <= Len(file) /\ file[k] = original[k] /\ file[k] # "nul"
  <2>1. Safe(k) /\ k \in Nat
    BY <1>1 DEF Safe, P, Plain
  <2> QED BY <2>1, SafeByte
<1>3. P = 0 \/ original[P] = "nl"
  <2>1. CASE OwnAt(original, P)
    BY <2>1 DEF OwnAt
  <2>2. CASE P = Len(original) /\ P # 0
    <3>1. original # <<>>
      BY <1>1, <2>2
    <3> QED BY <2>2, <3>1 DEF Plain, Ragged
  <2> QED BY <1>1, <2>1, <2>2
<1>4. P <= Len(file)
  BY <1>1, <1>2
<1> QED BY <1>1, <1>2, <1>3, <1>4

\* A line A=... has the name A.
LEMMA OwnName ==
  ASSUME NEW s \in Seq(Byte), Len(s) >= 2, s[1] = Attribute, s[2] = "="
  PROVE  Name(s) = <<Attribute>>
<1> DEFINE c == CString(s)
           end == Find(c, 1, "=")
<1>1. Attribute # "nul" /\ Attribute # "=" /\ Attribute \in Byte
  BY ConfigAssumption DEF Byte
<1>2. /\ c \in Seq(Byte) /\ Len(c) <= Len(s)
      /\ \A i \in 1..Len(c) : c[i] = s[i]
      /\ Len(c) < Len(s) => s[Len(c) + 1] = "nul"
  BY CStringProperties
<1> HIDE DEF c
<1>3. Len(c) >= 2
  <2>1. Len(c) # 0
    BY <1>1, <1>2
  <2>2. Len(c) # 1
    BY <1>1, <1>2
  <2> QED BY <1>2, <2>1, <2>2
<1>4. c[1] = Attribute /\ c[2] = "="
  BY <1>2, <1>3
<1>5. /\ end \in 1..Len(c) + 1
      /\ end <= Len(c) => c[end] = "="
      /\ \A m \in 1..end - 1 : c[m] # "="
  BY <1>2, FindProperties
<1> HIDE DEF end
<1>6. end = 2
  BY <1>1, <1>2, <1>3, <1>4, <1>5
<1>7. SubSeq(c, 1, 1) = <<c[1]>>
  <2>1. c[1] \in Byte /\ \A i \in 1..1 : c[i] \in Byte
    BY <1>2, <1>3
  <2>2. /\ SubSeq(c, 1, 1) \in Seq(Byte) /\ Len(SubSeq(c, 1, 1)) = 1
        /\ SubSeq(c, 1, 1)[1] = c[1]
    BY <2>1, SubSeqProperties
  <2>3. <<c[1]>> \in Seq(Byte) /\ Len(<<c[1]>>) = 1 /\ <<c[1]>>[1] = c[1]
    BY <2>1
  <2> DEFINE t == SubSeq(c, 1, 1)
             u == <<c[1]>>
  <2> HIDE DEF t, u
  <2>4. t \in Seq(Byte) /\ u \in Seq(Byte) /\ Len(t) = 1 /\ Len(u) = 1 /\ t[1] = u[1]
    BY <2>2, <2>3 DEF t, u
  <2>5. \A i \in 1..Len(t) : t[i] = u[i]
    BY <2>4
  <2>6. t = u
    BY <2>4, <2>5, SeqEqual
  <2> QED BY <2>6 DEF t, u
<1>8. Name(s) = SubSeq(c, 1, end - 1)
  BY DEF Name, c, end
<1> QED BY <1>4, <1>6, <1>7, <1>8

\* The line that begins behind P is the first of the attribute's.
LEMMA HeadedPlace ==
  ASSUME IInv, Plain, Headed
  PROVE  OwnPlace(file) = P
<1> DEFINE Q == OwnPlace(file)
<1>1. /\ Q \in 0..Len(file)
      /\ \A q \in 0..Q - 1 : ~OwnAt(file, q)
      /\ Q = Len(file) \/ OwnAt(file, Q)
  BY Front, OwnPlaceProperties
<1> HIDE DEF Q
<1>2. OwnAt(file, P)
  BY Front DEF Headed, OwnAt
<1>3. ASSUME NEW q \in 0..P - 1, OwnAt(file, q) PROVE FALSE
  <2>1. q + 1 \in 1..P /\ q \in Nat /\ P \in Nat /\ Len(file) \in Nat
    BY Front
  <2>2. /\ file[q + 1] = Attribute /\ (q = 0 \/ file[q] = "nl")
        /\ file[q + 2] = "="
    BY <1>3, <2>1 DEF OwnAt, Headed
  <2>3. original[q + 1] = Attribute /\ (q = 0 \/ original[q] = "nl")
    BY <2>1, <2>2, Front
  <2>4. CASE q + 2 = P + 1
    BY <2>2, <2>4, ConfigAssumption DEF Headed
  <2>5. CASE q + 2 <= P
    <3>1. original[q + 2] = "=" /\ q < Len(original)
      BY <2>1, <2>2, <2>5, Front
    <3> QED BY <2>1, <2>3, <3>1, Front DEF OwnAt
  <2> QED BY <2>1, <2>4, <2>5
<1> QED BY <1>1, <1>2, <1>3, Front DEF Q, Headed

\* As long as no start has crashed half-way, reading keeps to the lines of the
\* original until it meets the attribute's.
LEMMA ReadExact ==
  ASSUME IInv, Plain, ScanInv, FileInv, cpc = "read", fpos < Len(file)
  PROVE  \/ fpos = P /\ Headed /\ Name(NextLine) = <<Attribute>>
         \/ /\ fpos < P /\ Name(NextLine) # <<Attribute>>
            /\ Len(CString(NextLine)) = Len(NextLine)
            /\ fpos + Len(NextLine) <= P
            /\ file[fpos + Len(NextLine)] = "nl"
<1> DEFINE n == Len(NextLine)
           m == Len(CString(NextLine))
<1>1. /\ Types /\ fpos \in Nat /\ Len(file) \in Nat /\ P \in Nat /\ P <= Len(file)
      /\ fpos <= P /\ (fpos = 0 \/ file[fpos] = "nl")
  BY Front DEF IInv, Types, ScanInv
<1>2. /\ NextLine \in Seq(Byte) /\ n \in Nat
      /\ n >= 1 /\ fpos + n <= Len(file)
      /\ \A i \in 1..n : NextLine[i] = file[fpos + i]
      /\ \A i \in 1..n - 1 : file[fpos + i] # "nl"
      /\ fpos + n = Len(file) \/ n = LineMax \/ file[fpos + n] = "nl"
  BY <1>1, NextLineProperties
<1>3. m \in Nat /\ m <= n /\ (m < n => NextLine[m + 1] = "nul")
  BY <1>2, CStringProperties
<1>4. CASE fpos = P
  <2>1. Headed
    BY <1>4 DEF FileInv, Untouched
  <2>2. n >= 2
    <3>1. file[fpos + 1] # "nl"
      BY <1>4, <2>1, ConfigAssumption DEF Headed
    <3>2. fpos + 1 < Len(file)
      BY <1>1, <1>4, <2>1 DEF Headed
    <3> QED BY <1>1, <1>2, <3>1, <3>2, ConfigAssumption
  <2>3. NextLine[1] = Attribute /\ NextLine[2] = "="
    BY <1>2, <1>4, <2>1, <2>2 DEF Headed
  <2> HIDE DEF n, m
  <2>4. Name(NextLine) = <<Attribute>>
    BY <1>2, <2>2, <2>3, OwnName DEF n
  <2> QED BY <1>4, <2>1, <2>4
<1>5. CASE fpos < P
  <2>1. file[P] = "nl"
    BY <1>1, <1>5, Front
  <2>2. fpos + n <= P
    <3>1. SUFFICES ASSUME fpos + n > P PROVE FALSE
      BY <1>1, <1>2
    <3>2. P - fpos \in 1..n - 1 /\ fpos + (P - fpos) = P
      BY <1>1, <1>2, <1>5, <3>1
    <3> QED BY <1>2, <2>1, <3>2
  <2>3. file[fpos + n] = "nl"
    <3>1. SUFFICES ASSUME n = LineMax, file[fpos + n] # "nl" PROVE FALSE
      BY <1>1, <1>2, <2>1, <2>2
    <3>2. Passed(fpos + n)
      BY <1>1, <3>1, PieceIsPassed
    <3>3. Safe(P) /\ P \in Nat
      BY <1>1, <1>5 DEF Safe, P, Plain
    <3>4. P <= fpos + n
      BY <3>2, <3>3 DEF Passed
    <3> QED BY <1>1, <1>2, <2>1, <2>2, <3>1, <3>4
  <2>4. m = n
    <3>1. SUFFICES ASSUME m < n PROVE FALSE
      BY <1>2, <1>3
    <3>2. fpos + (m + 1) \in 1..P /\ m + 1 \in 1..n
      BY <1>1, <1>2, <1>3, <2>2, <3>1
    <3>3. file[fpos + (m + 1)] = "nul"
      BY <1>2, <1>3, <3>1, <3>2
    <3> QED BY <3>2, <3>3, Front
  <2>5. Name(NextLine) # <<Attribute>>
    <3>1. SUFFICES ASSUME Name(NextLine) = <<Attribute>> PROVE FALSE
      OBVIOUS
    <3>2. Passed(fpos)
      BY <1>1, <3>1, FoundIsUnsafe
    <3>3. Safe(P) /\ P \in Nat
      BY <1>1, <1>5 DEF Safe, P, Plain
    <3> QED BY <1>1, <1>5, <3>2, <3>3 DEF Passed
  <2> QED BY <1>5, <2>2, <2>3, <2>4, <2>5
<1> QED BY <1>1, <1>4, <1>5

\* What is said about the file stays true while it does not change.
LEMMA SameFile ==
  ASSUME UNCHANGED <<file, original>>
  PROVE  /\ P' = P /\ Plain' = Plain /\ (Untouched' <=> Untouched) /\ (Headed' <=> Headed)
         /\ \A e \in Nat : (Line(e)' <=> Line(e)) /\ (Behind(e)' <=> Behind(e))
BY SamePlace DEF Untouched, Headed, Line, Behind

LEMMA WholeOpen == ASSUME IInv, WholeInv, Open PROVE WholeInv'
<1>1. /\ cpc = "closed" /\ cpc' \in {"read", "failed"} /\ fpos' = 0 /\ len' = 0
      /\ UNCHANGED <<file, original, torn, resized>>
  BY DEF Open
<1> SUFFICES ASSUME ~torn, Plain
             PROVE  (ScanInv /\ PlaceInv /\ FileInv /\ DoneInv /\ OthersInv)'
  BY <1>1, SamePlace DEF WholeInv
<1>2. FileInv /\ OthersInv /\ 0 <= P
  BY Front DEF WholeInv
<1>3. ScanInv' /\ PlaceInv' /\ DoneInv' /\ FileInv'
  BY <1>1, <1>2, SameFile DEF ScanInv, PlaceInv, DoneInv, FileInv
<1>4. OthersInv'
  BY <1>1, <1>2, SameFile DEF OthersInv
<1> QED BY <1>3, <1>4

\* A line that is not the attribute's leaves len where reading is; at the
\* attribute's the offset is its place, and its length the line's.
LEMMA WholeReadLine == ASSUME IInv, WholeInv, ReadLine PROVE WholeInv'
<1> DEFINE line == NextLine
           m == Len(CString(NextLine))
<1>1. /\ cpc = "read" /\ fpos < Len(file)
      /\ fpos' = fpos + Len(line) /\ line_len' = m
      /\ buffer1' = IF Name(line) = <<>> THEN buffer1 ELSE Name(line)
      /\ IF buffer1' = <<Attribute>>
         THEN cpc' = "clear" /\ len' = len
         ELSE cpc' = "read"  /\ len' = len + m
      /\ UNCHANGED <<file, original, torn, resized>>
  BY DEF ReadLine
<1> SUFFICES ASSUME ~torn, Plain
             PROVE  (ScanInv /\ PlaceInv /\ FileInv /\ DoneInv /\ OthersInv)'
  BY <1>1, SamePlace DEF WholeInv
<1>2. ScanInv /\ FileInv /\ OthersInv
  BY DEF WholeInv
<1>3. len = fpos /\ buffer1 # <<Attribute>> /\ fpos \in Nat
  BY <1>1, <1>2 DEF ScanInv, IInv, ReadInv, Types
<1>4. \/ fpos = P /\ Headed /\ Name(line) = <<Attribute>>
      \/ /\ fpos < P /\ Name(line) # <<Attribute>>
         /\ m = Len(line) /\ fpos + Len(line) <= P /\ file[fpos + Len(line)] = "nl"
  BY <1>1, <1>2, ReadExact
<1>5. /\ line \in Seq(Byte) /\ Len(line) >= 1 /\ fpos + Len(line) <= Len(file)
      /\ \A i \in 1..Len(line) : line[i] = file[fpos + i]
      /\ \A i \in 1..Len(line) - 1 : file[fpos + i] # "nl"
      /\ fpos + Len(line) = Len(file) \/ Len(line) = LineMax \/ file[fpos + Len(line)] = "nl"
  BY <1>1, NextLineProperties DEF IInv
<1>6. m \in Nat /\ m <= Len(line) /\ (m < Len(line) => line[m + 1] = "nul")
  BY <1>5, CStringProperties
<1>7. P \in Nat /\ Len(file) \in Nat
  BY Front
<1> HIDE DEF line, m
<1>8. CASE Name(line) = <<Attribute>>
  <2>1. cpc' = "clear" /\ len' = P /\ fpos = P /\ Headed
    BY <1>1, <1>3, <1>4, <1>8
  <2>2. Headed' /\ P' = P
    BY <1>1, <2>1, SameFile
  <2>3. ASSUME ~resized PROVE Line(P + m) /\ Behind(P + m)
    <3>1. PICK e \in Nat : Line(e) /\ Behind(e)
      <4>1. ~Untouched
        BY <1>7, <2>1, Front DEF Untouched, Headed
      <4> QED BY <1>1, <1>2, <2>3, <4>1 DEF OthersInv
    <3>2. /\ e \in P + 3..Len(file) /\ e - P <= LineMax /\ file[e] = "nl"
          /\ \A k \in P + 1..e - 1 : file[k] # "nl" /\ file[k] # "nul"
      BY <3>1 DEF Line
    <3>3. P + Len(line) = e
      <4>1. ~(P + Len(line) > e)
        <5>1. SUFFICES ASSUME P + Len(line) > e PROVE FALSE
          OBVIOUS
        <5>2. e - P \in 1..Len(line) - 1 /\ P + (e - P) = e
          BY <1>5, <1>7, <3>2, <5>1
        <5> QED BY <1>5, <2>1, <3>2, <5>2
      <4>2. ~(P + Len(line) < e)
        <5>1. SUFFICES ASSUME P + Len(line) < e PROVE FALSE
          OBVIOUS
        <5>2. P + Len(line) \in P + 1..e - 1 /\ P + Len(line) # Len(file)
          BY <1>5, <1>7, <3>2, <5>1
        <5> QED BY <1>5, <1>7, <2>1, <3>2, <5>1, <5>2, ConfigAssumption
      <4> QED BY <1>5, <1>7, <4>1, <4>2
    <3>4. m = Len(line)
      <4>1. SUFFICES ASSUME m < Len(line) PROVE FALSE
        BY <1>5, <1>6
      <4>2. m + 1 \in 1..Len(line) /\ P + (m + 1) \in P + 1..e
        BY <1>5, <1>6, <1>7, <3>2, <3>3, <4>1
      <4>3. file[P + (m + 1)] = "nul"
        BY <1>5, <1>6, <2>1, <4>1, <4>2
      <4>4. P + (m + 1) \in P + 1..e - 1 \/ P + (m + 1) = e
        BY <1>7, <3>2, <4>2
      <4> QED BY <3>2, <4>3, <4>4
    <3> QED BY <3>1, <3>3, <3>4
  <2>4. OthersInv'
    <3>1. P + m \in Nat /\ P' + line_len' = P + m
      BY <1>1, <1>6, <1>7, <2>2
    <3>2. ASSUME ~resized PROVE Line(P + line_len)' /\ Behind(P + line_len)'
      BY <1>1, <2>3, <3>1, <3>2, SamePlace DEF Line, Behind
    <3> QED BY <1>1, <2>1, <3>2 DEF OthersInv
  <2> QED BY <2>1, <2>2, <2>4 DEF ScanInv, PlaceInv, FileInv, DoneInv
<1>9. CASE Name(line) # <<Attribute>>
  <2>1. cpc' = "read" /\ len' = fpos' /\ fpos' <= P /\ file[fpos'] = "nl"
    BY <1>1, <1>3, <1>4, <1>9
  <2>2. ScanInv' /\ PlaceInv' /\ DoneInv' /\ FileInv'
    BY <1>1, <1>2, <2>1, SameFile DEF ScanInv, PlaceInv, DoneInv, FileInv
  <2>3. OthersInv'
    BY <1>1, <1>2, <2>1, SameFile DEF OthersInv
  <2> QED BY <2>2, <2>3
<1> QED BY <1>8, <1>9

\* Without a line of the attribute's, reading ends at its place: the file's end.
LEMMA WholeEndOfFile == ASSUME IInv, WholeInv, EndOfFile PROVE WholeInv'
<1>1. /\ cpc = "read" /\ fpos = Len(file) /\ cpc' = "append"
      /\ UNCHANGED <<file, original, len, torn, resized>>
  BY DEF EndOfFile
<1> SUFFICES ASSUME ~torn, Plain
             PROVE  (ScanInv /\ PlaceInv /\ FileInv /\ DoneInv /\ OthersInv)'
  BY <1>1, SamePlace DEF WholeInv
<1>2. ScanInv /\ FileInv /\ OthersInv /\ P \in Nat /\ P <= Len(file) /\ Len(file) \in Nat
  BY Front DEF WholeInv
<1>3. len = P /\ P = Len(file)
  BY <1>1, <1>2 DEF ScanInv
<1>4. Untouched
  BY <1>1, <1>2, <1>3 DEF FileInv, Headed
<1>5. ScanInv' /\ PlaceInv' /\ DoneInv' /\ FileInv'
  BY <1>1, <1>3, <1>4, SameFile DEF ScanInv, PlaceInv, DoneInv, FileInv
<1>6. OthersInv'
  BY <1>1, <1>4, SameFile DEF OthersInv
<1> QED BY <1>5, <1>6

\* The zeros stand where the line stood.
LEMMA WholeClear == ASSUME IInv, WholeInv, Clear PROVE WholeInv'
<1> DEFINE t == [i \in 1..line_len |-> "nul"]
<1>1. /\ cpc = "clear" /\ cpc' = "rewrite" /\ file' = Overwrite(file, len, t)
      /\ UNCHANGED <<original, len, line_len, torn, resized>>
  BY DEF Clear, Cleared
<1> SUFFICES ASSUME ~torn, Plain
             PROVE  (ScanInv /\ PlaceInv /\ FileInv /\ DoneInv /\ OthersInv)'
  BY <1>1, SamePlace DEF WholeInv
<1>2. /\ OthersInv /\ len = P /\ P' = P /\ OwnEnd' = OwnEnd
      /\ line_len \in Nat /\ P \in Nat /\ P <= Len(file) /\ file \in Seq(Byte)
      /\ original \in Seq(Byte \ {"nul"})
  BY <1>1, Front, SamePlace DEF WholeInv, PlaceInv, IInv, Types
<1>3. ScanInv' /\ PlaceInv' /\ DoneInv' /\ FileInv'
  BY <1>1, <1>2 DEF ScanInv, PlaceInv, DoneInv, FileInv
<1>4. ASSUME ~resized PROVE Behind(P + line_len)'
  <2>1. Line(P + line_len) /\ Behind(P + line_len)
    BY <1>1, <1>2, <1>4 DEF OthersInv
  <2>2. t \in Seq(Byte) /\ Len(t) = line_len
    <3>1. t \in [1..line_len -> Byte]
      BY DEF Byte
    <3>2. t \in Seq(Byte)
      BY <1>2, <3>1, SeqDef
    <3> QED BY <1>2, <3>2
  <2> HIDE DEF t
  <2>3. /\ Len(file') = Len(file)
        /\ \A k \in P + line_len + 1..Len(file) : file'[k] = file[k]
    <3>1. P + Len(t) <= Len(file) /\ P \in 0..Len(file)
      BY <1>2, <2>1, <2>2 DEF Line
    <3> QED BY <1>1, <1>2, <2>2, <3>1, OverwriteProperties
  <2> DEFINE e == P + line_len
             rest == Len(original) - OwnEnd
  <2>4. e \in Nat /\ Len(file) - e = rest /\ e <= Len(file) /\ Len(file) \in Nat
    BY <1>2, <2>1 DEF Behind
  <2>5. \A k \in 1..rest : file[e + k] = original[OwnEnd + k]
    BY <2>1 DEF Behind
  <2> HIDE DEF e, rest
  <2>6. \A k \in 1..rest : file'[e + k] = file[e + k]
    <3>1. \A k \in 1..rest : e + k \in e + 1..Len(file)
      BY <2>4
    <3>2. \A k \in e + 1..Len(file) : file'[k] = file[k]
      BY <2>3 DEF e
    <3> QED BY <3>1, <3>2
  <2>7. (P + line_len)' = e
    BY <1>1, <1>2 DEF e
  <2>8. Len(original') - OwnEnd' = rest
    BY <1>1, <1>2 DEF rest
  <2> QED BY <1>1, <1>2, <2>3, <2>4, <2>5, <2>6, <2>7, <2>8 DEF Behind
<1>5. OthersInv'
  BY <1>1, <1>4 DEF OthersInv
<1> QED BY <1>3, <1>5

\* If it fails, the file is as it was, or the start has failed half-way.
LEMMA WholeSeekFails == ASSUME IInv, WholeInv, SeekFails PROVE WholeInv'
<1>1. /\ cpc \in {"clear", "append"} /\ cpc' = "failed"
      /\ (file' = file /\ torn' = torn) \/ torn' = TRUE
      /\ UNCHANGED <<original, line_len, resized>>
  BY DEF SeekFails
<1> SUFFICES ASSUME ~torn', Plain
             PROVE  (ScanInv /\ PlaceInv /\ FileInv /\ DoneInv /\ OthersInv)'
  BY <1>1, SamePlace DEF WholeInv
<1>2. file' = file /\ torn' = torn
  BY <1>1
<1>3. FileInv /\ OthersInv /\ P \in Nat /\ line_len \in Nat
  BY <1>2, Front DEF WholeInv, IInv, Types
<1>4. ScanInv' /\ PlaceInv' /\ DoneInv' /\ FileInv'
  BY <1>1, <1>2, <1>3, SameFile DEF ScanInv, PlaceInv, DoneInv, FileInv
<1>5. OthersInv'
  <2>1. P + line_len \in Nat
    BY <1>3
  <2>2. ~resized => Untouched \/ \E e \in Nat : Line(e) /\ Behind(e)
    BY <1>1, <1>3, <2>1 DEF OthersInv
  <2> QED BY <1>1, <1>2, <2>2, SameFile DEF OthersInv
<1> QED BY <1>4, <1>5

\* The new line stands where the old one stood, or behind all others.
LEMMA WholeWrite == ASSUME IInv, WholeInv, Write PROVE WholeInv'
<1> DEFINE t == LineOf(value)
<1> SUFFICES ASSUME ~torn', Plain
             PROVE  (ScanInv /\ PlaceInv /\ FileInv /\ DoneInv /\ OthersInv)'
  BY SamePlace DEF WholeInv, Write
<1>0. t \in Seq(Byte) /\ SubSeq(t, 1, Len(t)) = t
  <2>1. t \in Seq(Byte)
    BY LineOfProperties DEF IInv, Types
  <2> HIDE DEF t
  <2>2. /\ SubSeq(t, 1, Len(t)) \in Seq(Byte) /\ Len(SubSeq(t, 1, Len(t))) = Len(t)
        /\ \A i \in 1..Len(t) : SubSeq(t, 1, Len(t))[i] = t[i]
    BY <2>1, SubSeqProperties
  <2> DEFINE u == SubSeq(t, 1, Len(t))
  <2> HIDE DEF u
  <2>3. u \in Seq(Byte) /\ Len(u) = Len(t) /\ \A i \in 1..Len(u) : u[i] = t[i]
    BY <2>2 DEF u
  <2>4. u = t
    BY <2>1, <2>3, SeqEqual
  <2> QED BY <2>1, <2>4 DEF u
<1>1. /\ cpc \in {"rewrite", "append"} /\ cpc' = "done"
      /\ file' = Overwrite(file, len, t) /\ ~torn
      /\ resized' = (resized \/ (cpc = "rewrite" /\ line_len # Len(t)))
      /\ UNCHANGED <<original, len, line_len, value>>
  <2>1. PICK n \in 0..Len(t) : /\ file' = Overwrite(file, len, SubSeq(t, 1, n))
                               /\ torn' = (torn \/ n < Len(t))
    BY DEF Write
  <2>2. ~torn /\ ~(n < Len(t))
    BY <2>1, Zenon
  <2>3. n = Len(t)
    <3> HIDE DEF t
    <3>1. t \in Seq(Byte)
      BY <1>0
    <3>2. Len(t) \in Nat
      BY <3>1
    <3>3. n \in 0..Len(t)
      BY <2>1
    <3>4. ~(n < Len(t))
      BY <2>2
    <3> QED BY <3>2, <3>3, <3>4
  <2> QED BY <1>0, <2>1, <2>2, <2>3 DEF Write
<1>2. /\ OthersInv /\ FileInv /\ len = P /\ P' = P /\ OwnEnd' = OwnEnd
      /\ line_len \in Nat /\ P \in Nat /\ P <= Len(file) /\ file \in Seq(Byte)
      /\ original \in Seq(Byte \ {"nul"})
  BY <1>1, Front, SamePlace DEF WholeInv, PlaceInv, IInv, Types
<1>3. /\ t \in Seq(Byte) /\ Len(t) \in Nat /\ Len(t) >= 3
      /\ t[1] = Attribute /\ t[2] = "=" /\ t[Len(t)] = "nl"
      /\ \A i \in 1..Len(t) - 1 : t[i] \notin {"nl", "nul"}
      /\ Len(t) <= LineMax
  <2>1. value \in Seq(Byte \ {"nul", "nl"}) /\ Len(value) + 3 <= LineMax
    BY DEF IInv, Types
  <2> QED BY <2>1, LineOfProperties
<1>4. LineOf(value') = t
  BY <1>1
<1> DEFINE n == Len(t)
<1> HIDE DEF t
<1>5. /\ file' \in Seq(Byte)
      /\ Len(file') = IF P + n <= Len(file) THEN Len(file) ELSE P + n
      /\ \A i \in 1..n : file'[P + i] = t[i]
      /\ \A k \in P + n + 1..Len(file) : file'[k] = file[k]
  BY <1>1, <1>2, <1>3, OverwriteProperties
<1>6. n \in Nat /\ n >= 3 /\ Len(file) \in Nat
  BY <1>2, <1>3
<1> HIDE DEF n
<1>7. P + n <= Len(file')
  BY <1>2, <1>5, <1>6
<1>8. Headed'
  <2>1. file'[P + 1] = Attribute /\ file'[P + 2] = "="
    BY <1>3, <1>5, <1>6
  <2> QED BY <1>2, <1>6, <1>7, <2>1 DEF Headed
<1>9. DoneInv'
  BY <1>2, <1>4, <1>5, <1>7 DEF DoneInv, n
<1>10. ASSUME ~resized' PROVE Line(P + n)' /\ Behind(P + n)'
  <2> DEFINE e == P + n
             rest == Len(original) - OwnEnd
  <2>0. e \in Nat
    BY <1>2, <1>6
  <2>1. e \in P + 3..Len(file') /\ file'[e] = "nl" /\ e - P <= LineMax
    BY <1>2, <1>3, <1>5, <1>6, <1>7 DEF n
  <2>2. ASSUME NEW k \in P + 1..e - 1 PROVE file'[k] \notin {"nl", "nul"}
    <3>1. k - P \in 1..n - 1 /\ k - P \in 1..n /\ P + (k - P) = k
      BY <1>2, <1>6
    <3> QED BY <1>3, <1>5, <3>1 DEF n
  <2>3. Len(file') - e = rest /\ \A k \in 1..rest : file'[e + k] = original[OwnEnd + k]
    <3>1. CASE cpc = "append"
      <4>1. file = original /\ P = Len(original) /\ OwnEnd = P
        BY <1>2, <3>1 DEF FileInv, Untouched, OwnEnd
      <4> QED BY <1>2, <1>5, <1>6, <4>1
    <3>2. CASE cpc = "rewrite"
      <4>1. line_len = n /\ ~resized
        BY <1>1, <1>10, <3>2 DEF n
      <4>2. e <= Len(file) /\ Len(file) - e = rest
            /\ \A k \in 1..rest : file[e + k] = original[OwnEnd + k]
        BY <1>2, <3>2, <4>1 DEF OthersInv, Behind
      <4>3. \A k \in 1..rest : e + k \in e + 1..Len(file)
        BY <1>6, <2>0, <4>2
      <4> QED BY <1>5, <4>2, <4>3
    <3> QED BY <1>1, <3>1, <3>2
  <2>4. (P + n)' = e
    <3>1. n' = n
      BY <1>4 DEF n, t
    <3> QED BY <1>2, <3>1
  <2> HIDE DEF e
  <2> QED BY <1>1, <1>2, <2>1, <2>2, <2>3, <2>4 DEF Line, Behind
<1>11. OthersInv'
  <2>1. SUFFICES ASSUME ~resized' PROVE \E e \in Nat : Line(e)' /\ Behind(e)'
    BY <1>1 DEF OthersInv
  <2>2. P + n \in Nat /\ (P + n)' = P + n
    <3>1. n' = n
      BY <1>4 DEF n, t
    <3> QED BY <1>2, <1>6, <3>1
  <2> QED BY <1>10, <2>1, <2>2 DEF Line, Behind
<1> QED BY <1>1, <1>8, <1>9, <1>11 DEF ScanInv, PlaceInv, FileInv

\* A call that ends, or a crash that is not half-way.
LEMMA WholeForget ==
  ASSUME IInv, WholeInv, Forget, torn' = torn \/ torn' = (torn \/ cpc = "rewrite"),
         cpc = "rewrite" => torn'
  PROVE  WholeInv'
<1>1. cpc' = "closed" /\ UNCHANGED <<file, original, resized>>
  BY DEF Forget
<1>2. /\ P' = P /\ Plain' = Plain /\ (Untouched' <=> Untouched) /\ (Headed' <=> Headed)
      /\ \A e \in Nat : (Line(e)' <=> Line(e)) /\ (Behind(e)' <=> Behind(e))
  BY <1>1, SameFile
<1>3. SUFFICES ASSUME ~torn', Plain'
               PROVE  ScanInv' /\ PlaceInv' /\ FileInv' /\ DoneInv' /\ OthersInv'
  BY DEF WholeInv
<1>4. ~torn /\ cpc # "rewrite" /\ Plain
  <2>1. Plain
    BY <1>2, <1>3
  <2>2. cpc # "rewrite"
    BY <1>3
  <2>3. ~torn
    BY <1>3
  <2> QED BY <2>1, <2>2, <2>3
<1>5. FileInv /\ OthersInv /\ P \in Nat /\ line_len \in Nat
  BY <1>4, Front DEF WholeInv, IInv, Types
<1>6. ScanInv' /\ PlaceInv' /\ DoneInv'
  BY <1>1 DEF ScanInv, PlaceInv, DoneInv
<1>7. FileInv'
  <2>1. Untouched \/ Headed
    BY <1>4, <1>5 DEF FileInv
  <2>2. Untouched' \/ Headed'
    BY <1>2, <2>1
  <2> QED BY <1>1, <2>2 DEF FileInv
<1>8. OthersInv'
  <2>1. SUFFICES ASSUME ~resized'
                 PROVE  Untouched' \/ \E e \in Nat : Line(e)' /\ Behind(e)'
    BY <1>1 DEF OthersInv
  <2>2. ~resized
    BY <1>1, <2>1
  <2>3. P + line_len \in Nat
    BY <1>5
  <2>4. Untouched \/ \E e \in Nat : Line(e) /\ Behind(e)
    BY <1>4, <1>5, <2>2, <2>3 DEF OthersInv
  <2> QED BY <1>2, <2>4
<1> QED BY <1>6, <1>7, <1>8

LEMMA WholeInit == Init => WholeInv
<1> SUFFICES ASSUME Init, Plain PROVE WholeInv
  BY DEF WholeInv
<1>1. /\ original \in Seq(Byte \ {"nul"}) /\ file = original /\ cpc = "closed" /\ fpos = 0
  BY ConfigAssumption DEF Init, ConfigInit, Byte
<1>2. /\ Len(original) \in Nat /\ P \in 0..Len(original)
      /\ P = Len(original) \/ OwnAt(original, P)
  BY <1>1, OwnPlaceProperties DEF P
<1>3. CASE P = Len(original)
  BY <1>1, <1>3 DEF WholeInv, ScanInv, PlaceInv, FileInv, DoneInv, OthersInv, Untouched
<1>4. CASE P < Len(original)
  <2> DEFINE e == Find(original, P + 1, "nl")
             last == Len(original)
  <2>1. original[P + 1] = Attribute /\ P + 1 # last /\ original[P + 2] = "="
        /\ original[last] = "nl" /\ P + 2 <= last /\ last \in Nat
    <3>1. OwnAt(original, P) /\ original # <<>>
      BY <1>1, <1>2, <1>4
    <3>2. original[last] = "nl"
      BY <3>1 DEF Plain, Ragged
    <3>3. Attribute # "nl"
      BY ConfigAssumption
    <3> QED BY <1>2, <1>4, <3>1, <3>2, <3>3 DEF OwnAt
  <2>2. Headed
    BY <1>1, <2>1 DEF Headed
  <2>3. /\ e \in P + 1..last + 1
        /\ e <= last => original[e] = "nl"
        /\ \A m \in P + 1..e - 1 : original[m] # "nl"
    <3>1. P + 1 \in 1..last + 1
      BY <1>2
    <3> QED BY <2>1, <3>1, FindProperties
  <2>4. OwnEnd = e
    BY <1>4 DEF OwnEnd
  <2> HIDE DEF e
  <2>5. e <= last
    <3>1. e # last + 1
      <4>1. e = last + 1 => last \in P + 1..e - 1
        BY <1>2, <2>1
      <4> QED BY <2>1, <2>3, <4>1
    <3> QED BY <1>2, <2>1, <2>3, <3>1
  <2>6. e # P + 1 /\ e # P + 2
    BY <2>1, <2>3, <2>5, ConfigAssumption
  <2>7. e \in Nat /\ e \in P + 3..last /\ P \in Nat
    BY <1>2, <2>1, <2>3, <2>5, <2>6
  <2>8. Line(e)
    <3>1. \A k \in P + 1..e - 1 : original[k] # "nul"
      BY <1>1, <2>7
    <3>2. e - P <= LineMax
      <4>1. SUFFICES ASSUME e - P > LineMax PROVE FALSE
        BY <2>7, ConfigAssumption
      <4>2. P \in 0..last - LineMax /\ LineMax \in Nat
        BY <2>1, <2>7, <4>1, ConfigAssumption
      <4>3. \A j \in 1..LineMax : original[P + j] # "nl"
        BY <2>3, <2>7, <4>1, <4>2
      <4> QED BY <4>2, <4>3 DEF Plain, Long
    <3> QED BY <1>1, <2>3, <2>7, <3>1, <3>2 DEF Line
  <2>9. Behind(e)
    BY <1>1, <2>4, <2>7 DEF Behind
  <2> QED BY <1>1, <2>2, <2>7, <2>8, <2>9 DEF WholeInv, ScanInv, PlaceInv, FileInv, DoneInv, OthersInv
<1> QED BY <1>2, <1>3, <1>4

LEMMA WholeInductive == Spec => []WholeInv
<1>1. IInv /\ WholeInv /\ [Next]_vars => WholeInv'
  <2> SUFFICES ASSUME IInv, WholeInv, [Next]_vars PROVE WholeInv'
    OBVIOUS
  <2>1. \/ ConfigStep \/ ConfigReturn("done") \/ ConfigReturn("failed")
        \/ ConfigCrash \/ UNCHANGED config
    BY DEF Next, Main, Config, ConfigReturns, Logger, StartServer, StartCmd,
       RegisterProtocol, RegisterCmd, CreatePool, InitServsock, Send, Handle, Parse, PushTail,
       PushData, Take, Crash, vars
  <2>2. CASE ConfigStep
    BY <2>2, WholeOpen, WholeReadLine, WholeEndOfFile, WholeClear, WholeSeekFails,
       WholeWrite DEF ConfigStep
  <2>3. CASE ConfigReturn("done") \/ ConfigReturn("failed")
    <3>1. Forget /\ torn' = torn /\ cpc # "rewrite"
      BY <2>3 DEF ConfigReturn
    <3> QED BY <3>1, WholeForget
  <2>4. CASE ConfigCrash
    <3>1. Forget /\ torn' = (torn \/ cpc = "rewrite")
      BY <2>4 DEF ConfigCrash
    <3>2. cpc = "rewrite" => torn'
      BY <3>1
    <3> QED BY <3>1, <3>2, WholeForget
  <2>5. CASE UNCHANGED config
    <3>1. UNCHANGED <<file, cpc, fpos, len, line_len, value, original, torn, resized>>
      BY <2>5 DEF config
    <3>2. /\ P' = P /\ Plain' = Plain /\ (Untouched' <=> Untouched) /\ (Headed' <=> Headed)
          /\ \A e \in Nat : (Line(e)' <=> Line(e)) /\ (Behind(e)' <=> Behind(e))
      BY <3>1, SameFile
    <3>3. SUFFICES ASSUME ~torn', Plain'
                   PROVE  ScanInv' /\ PlaceInv' /\ FileInv' /\ DoneInv' /\ OthersInv'
      BY DEF WholeInv
    <3>4. /\ ScanInv /\ PlaceInv /\ FileInv /\ DoneInv /\ OthersInv
          /\ P \in Nat /\ line_len \in Nat
      BY <3>1, <3>2, <3>3, Front DEF WholeInv, IInv, Types
    <3>5. ScanInv' /\ PlaceInv'
      BY <3>1, <3>2, <3>4 DEF ScanInv, PlaceInv
    <3>6. FileInv'
      BY <3>1, <3>2, <3>4 DEF FileInv
    <3>7. DoneInv'
      <4>1. LineOf(value)' = LineOf(value)
        BY <3>1 DEF LineOf
      <4> QED BY <3>1, <3>2, <3>4, <4>1 DEF DoneInv
    <3>8. OthersInv'
      <4>1. P + line_len \in Nat /\ (P + line_len)' = P + line_len
        BY <3>1, <3>2, <3>4
      <4> QED BY <3>1, <3>2, <3>4, <4>1 DEF OthersInv, Untouched, Line, Behind
    <3> QED BY <3>5, <3>6, <3>7, <3>8
  <2> QED BY <2>1, <2>2, <2>3, <2>4, <2>5
<1> QED BY <1>1, WholeInit, Inductive, PTL DEF Spec

\* However often the program starts and whatever the versions are, the first line
\* of the attribute's holds the version that config_file was called with.
THEOREM VersionIsRecorded == Spec => []Recorded
<1>1. IInv /\ WholeInv => Recorded
  <2> SUFFICES ASSUME IInv, WholeInv, cpc = "done", ~torn, Plain
               PROVE  /\ OwnPlace(file) + Len(LineOf(value)) <= Len(file)
                      /\ SubSeq(file, OwnPlace(file) + 1, OwnPlace(file) + Len(LineOf(value)))
                           = LineOf(value)
    BY DEF Recorded
  <2> DEFINE t == LineOf(value)
             n == Len(t)
  <2>1. /\ t \in Seq(Byte) /\ n \in Nat /\ n >= 2 /\ t[1] = Attribute /\ t[2] = "="
    <3>1. value \in Seq(Byte \ {"nul", "nl"})
      BY DEF IInv, Types
    <3> HIDE DEF t
    <3>2. t \in Seq(Byte) /\ Len(t) = Len(value) + 3 /\ t[1] = Attribute /\ t[2] = "="
      BY <3>1, LineOfProperties DEF t
    <3> QED BY <3>1, <3>2
  <2>2. P + n <= Len(file) /\ \A i \in 1..n : file[P + i] = t[i]
    BY DEF WholeInv, DoneInv
  <2> HIDE DEF t, n
  <2>3. P \in Nat /\ file \in Seq(Byte) /\ Len(file) \in Nat
    BY Front
  <2>4. Headed
    BY <2>1, <2>2, <2>3 DEF Headed
  <2>5. OwnPlace(file) = P
    BY <2>4, HeadedPlace
  <2> DEFINE u == SubSeq(file, P + 1, P + n)
  <2>6. u \in Seq(Byte) /\ Len(u) = n /\ \A i \in 1..n : u[i] = file[P + i]
    <3>1. \A i \in P + 1..P + n : file[i] \in Byte
      BY <2>1, <2>2, <2>3
    <3>2. /\ u \in Seq(Byte)
          /\ Len(u) = IF P + 1 <= P + n THEN P + n - (P + 1) + 1 ELSE 0
          /\ \A i \in 1..P + n - (P + 1) + 1 : u[i] = file[P + 1 + i - 1]
      BY <2>1, <2>3, <3>1, SubSeqProperties
    <3> HIDE DEF u
    <3>3. P + n - (P + 1) + 1 = n /\ P + 1 <= P + n
      BY <2>1, <2>3
    <3>4. \A i \in 1..n : P + 1 + i - 1 = P + i
      BY <2>3
    <3> QED BY <3>2, <3>3, <3>4
  <2> HIDE DEF u
  <2>7. u = t
    <3>1. Len(t) = n
      BY DEF n
    <3> QED BY <2>1, <2>2, <2>6, <3>1, SeqEqual
  <2> QED BY <2>2, <2>5, <2>7 DEF u, t, n
<1> QED BY <1>1, Inductive, WholeInductive, PTL

\* The others of s: its first p characters and the r of them after the e-th.
OthersAre(s, p, e, r) ==
  /\ Others(s) \in Seq(Byte) /\ Len(Others(s)) = p + r
  /\ \A i \in 1..p + r : Others(s)[i] = IF i <= p THEN s[i] ELSE s[e + (i - p)]

\* What Others leaves of a file.
LEMMA OthersProperties ==
  ASSUME NEW s \in Seq(Byte), NEW p \in 0..Len(s), p = OwnPlace(s),
         NEW e \in Nat, e = Find(s, p + 1, "nl"),
         NEW r \in Nat, r = IF e <= Len(s) THEN Len(s) - e ELSE 0
  PROVE  OthersAre(s, p, e, r)
<1> DEFINE u == SubSeq(s, 1, p)
           w == SubSeq(s, e + 1, Len(s))
           o == u \o w
<1>1. Len(s) \in Nat /\ p \in Nat
  OBVIOUS
<1>2. u \in Seq(Byte) /\ Len(u) = p /\ \A i \in 1..p : u[i] = s[i]
  <2>1. \A i \in 1..p : s[i] \in Byte
    OBVIOUS
  <2> QED BY <1>1, <2>1, SubSeqProperties
<1>3. w \in Seq(Byte) /\ Len(w) = r /\ \A i \in 1..r : w[i] = s[e + i]
  <2>1. \A i \in e + 1..Len(s) : s[i] \in Byte
    OBVIOUS
  <2>2. /\ w \in Seq(Byte)
        /\ Len(w) = IF e + 1 <= Len(s) THEN Len(s) - (e + 1) + 1 ELSE 0
        /\ \A i \in 1..Len(s) - (e + 1) + 1 : w[i] = s[e + 1 + i - 1]
    BY <1>1, <2>1, SubSeqProperties
  <2> HIDE DEF w
  <2>3. Len(w) = r
    BY <1>1, <2>2
  <2>4. \A i \in 1..r : e + 1 + i - 1 = e + i /\ i \in 1..Len(s) - (e + 1) + 1
    BY <1>1
  <2> QED BY <2>2, <2>3, <2>4
<1>4. Others(s) = o
  BY DEF Others
<1> HIDE DEF u, w
<1>5. /\ o \in Seq(Byte) /\ Len(o) = Len(u) + Len(w)
      /\ \A i \in 1..Len(u) + Len(w) : o[i] = IF i <= Len(u) THEN u[i] ELSE w[i - Len(u)]
  BY <1>2, <1>3, ConcatProperties
<1> HIDE DEF o
<1>6. ASSUME NEW i \in 1..p + r PROVE o[i] = IF i <= p THEN s[i] ELSE s[e + (i - p)]
  <2>1. CASE i <= p
    BY <1>1, <1>2, <1>3, <1>5, <2>1
  <2>2. CASE ~(i <= p)
    <3>1. i - p \in 1..r
      BY <1>1, <2>2
    <3>2. o[i] = w[i - p]
      BY <1>1, <1>2, <1>3, <1>5, <2>2
    <3> QED BY <1>3, <2>2, <3>1, <3>2
  <2> QED BY <2>1, <2>2
<1> QED BY <1>2, <1>3, <1>4, <1>5, <1>6 DEF OthersAre

\* As long as all versions are equally long and no start crashes half-way, the
\* lines of others are as they were before the first start.
THEOREM OthersAreKept == Spec => []OthersKept
<1>1. IInv /\ WholeInv => OthersKept
  <2> SUFFICES ASSUME IInv, WholeInv, cpc \in {"closed", "done", "failed"}, ~torn, ~resized, Plain
               PROVE  Others(file) = Others(original)
    BY DEF OthersKept
  <2>1. /\ original \in Seq(Byte) /\ file \in Seq(Byte)
        /\ P \in 0..Len(original) /\ P \in 0..Len(file)
        /\ Len(original) \in Nat /\ Len(file) \in Nat /\ P \in Nat
        /\ \A k \in 1..P : file[k] = original[k]
    <3>1. /\ original \in Seq(Byte \ {"nul"}) /\ file \in Seq(Byte)
          /\ P \in 0..Len(original) /\ P <= Len(file)
          /\ \A k \in 1..P : file[k] = original[k]
      BY Front
    <3> QED BY <3>1
  <2>2. Untouched \/ (Headed /\ \E e \in Nat : Line(e) /\ Behind(e))
    BY DEF WholeInv, FileInv, OthersInv
  <2>3. CASE Untouched
    BY <2>3 DEF Untouched
  <2>4. CASE Headed /\ \E e \in Nat : Line(e) /\ Behind(e)
    <3>1. PICK e \in Nat : Line(e) /\ Behind(e)
      BY <2>4
    <3>2. OwnPlace(file) = P
      BY <2>4, HeadedPlace
    <3> DEFINE f == Find(file, P + 1, "nl")
               d == Find(original, P + 1, "nl")
               r == Len(original) - OwnEnd
    <3>3. f = e
      <4>1. /\ f \in P + 1..Len(file) + 1
            /\ f <= Len(file) => file[f] = "nl"
            /\ \A m \in P + 1..f - 1 : file[m] # "nl"
        <5>1. P + 1 \in 1..Len(file) + 1
          BY <2>1
        <5> QED BY <2>1, <5>1, FindProperties
      <4> HIDE DEF f
      <4>2. /\ e \in P + 3..Len(file) /\ file[e] = "nl"
            /\ \A k \in P + 1..e - 1 : file[k] # "nl"
        BY <3>1 DEF Line
      <4>3. ~(e < f)
        BY <2>1, <4>1, <4>2
      <4>4. ~(f < e)
        BY <2>1, <4>1, <4>2
      <4> QED BY <2>1, <4>1, <4>2, <4>3, <4>4
    <3>4. /\ d \in Nat /\ r \in Nat /\ r = IF d <= Len(original) THEN Len(original) - d ELSE 0
          /\ r > 0 => OwnEnd = d
      <4>1. d \in P + 1..Len(original) + 1
        <5>1. P + 1 \in 1..Len(original) + 1
          BY <2>1
        <5> QED BY <2>1, <5>1, FindProperties
      <4>2. Len(file) - e = r /\ e <= Len(file)
        BY <3>1 DEF Behind
      <4>3. OwnEnd = IF P = Len(original) THEN P ELSE d
        BY DEF OwnEnd
      <4> HIDE DEF d
      <4>4. r \in Nat
        BY <2>1, <4>1, <4>2, <4>3
      <4>5. CASE P = Len(original)
        BY <2>1, <4>1, <4>3, <4>5
      <4>6. CASE P # Len(original)
        <5>1. OwnEnd = d /\ d \in Nat /\ d <= Len(original)
          BY <2>1, <4>1, <4>3, <4>4, <4>6
        <5> QED BY <2>1, <5>1
      <4> QED BY <4>5, <4>6
    <3>5. r = IF e <= Len(file) THEN Len(file) - e ELSE 0
      BY <3>1 DEF Behind
    <3>6. \A k \in 1..r : file[e + k] = original[OwnEnd + k]
      BY <3>1 DEF Behind
    <3> HIDE DEF r, d
    <3>7. /\ Others(file) \in Seq(Byte) /\ Len(Others(file)) = P + r
          /\ \A i \in 1..P + r : Others(file)[i] = IF i <= P THEN file[i] ELSE file[e + (i - P)]
      <4>1. P = OwnPlace(file) /\ e = Find(file, P + 1, "nl") /\ r \in Nat
        BY <3>2, <3>3, <3>4
      <4> HIDE DEF f
      <4>2. /\ file \in Seq(Byte) /\ P \in 0..Len(file) /\ e \in Nat
            /\ r = IF e <= Len(file) THEN Len(file) - e ELSE 0
        BY <2>1, <3>5
      <4> DEFINE q == OwnPlace(file)
                 g == Find(file, q + 1, "nl")
      <4>3. q = P /\ g = e
        BY <4>1
      <4>4. q \in 0..Len(file) /\ g \in Nat /\ r = IF g <= Len(file) THEN Len(file) - g ELSE 0
        BY <4>2, <4>3
      <4>5. q = OwnPlace(file) /\ g = Find(file, q + 1, "nl")
        OBVIOUS
      <4> HIDE DEF q, g
      <4>6. OthersAre(file, q, g, r)
        BY <4>1, <4>2, <4>4, <4>5, OthersProperties
      <4> QED BY <4>3, <4>6 DEF OthersAre
    <3>8. /\ Others(original) \in Seq(Byte) /\ Len(Others(original)) = P + r
          /\ \A i \in 1..P + r :
               Others(original)[i] = IF i <= P THEN original[i] ELSE original[d + (i - P)]
      <4> DEFINE q == OwnPlace(original)
                 g == Find(original, q + 1, "nl")
      <4>1. q = P /\ g = d
        BY DEF P, d
      <4>2. /\ original \in Seq(Byte) /\ q \in 0..Len(original) /\ g \in Nat /\ r \in Nat
            /\ r = IF g <= Len(original) THEN Len(original) - g ELSE 0
        <5> HIDE DEF q, g
        <5> QED BY <2>1, <3>4, <4>1
      <4>3. q = OwnPlace(original) /\ g = Find(original, q + 1, "nl")
        OBVIOUS
      <4> HIDE DEF f, q, g
      <4>4. OthersAre(original, q, g, r)
        BY <4>2, <4>3, OthersProperties
      <4> QED BY <4>1, <4>4 DEF OthersAre
    <3>9. \A i \in 1..P + r : Others(file)[i] = Others(original)[i]
      <4>1. ASSUME NEW i \in 1..P + r PROVE Others(file)[i] = Others(original)[i]
        <5>1. CASE i <= P
          BY <2>1, <3>7, <3>8, <5>1, <3>4
        <5>2. CASE ~(i <= P)
          <6>1. i - P \in 1..r /\ r > 0
            BY <2>1, <3>4, <5>2
          <6> QED BY <3>4, <3>6, <3>7, <3>8, <5>2, <6>1
        <5> QED BY <5>1, <5>2
      <4> QED BY <4>1
    <3> DEFINE x == Others(file)
               y == Others(original)
    <3> HIDE DEF x, y
    <3>10. x \in Seq(Byte) /\ y \in Seq(Byte) /\ Len(x) = Len(y)
           /\ \A i \in 1..Len(x) : x[i] = y[i]
      BY <3>7, <3>8, <3>9 DEF x, y
    <3>11. x = y
      BY <3>10, SeqEqual
    <3> QED BY <3>11 DEF x, y
  <2> QED BY <2>2, <2>3, <2>4
<1> QED BY <1>1, Inductive, WholeInductive, PTL

-----------------------------------------------------------------------------
(* main, the lists and the requests                                       *)

MainTypes ==
  /\ main \in DOMAIN Following \cup {"sleep", "exited"}
  /\ data \in [Slots -> Requests \cup {None}] /\ front \in Slots /\ tail \in Slots
  /\ next \in [Requests -> Slots]
  /\ request \in [Requests -> {"unsent", "sent", "dropped", "full", "claiming", "filling",
                               "queued", "unknown", "answered"}]
  /\ late \subseteq Requests
  /\ commands \in Nat

\* What the lists hold at each of main's calls.
ListsInv ==
  /\ main \in {"config", "logger", "server", "queue"} => protocols = {}
  /\ main = "ht" => protocols = {}
  /\ main = "sl" => protocols = {"ht"}
  /\ main = "text" => protocols = {"ht", "sl"}
  /\ main \in {"commands", "sleep"} => protocols = Protocols
  /\ main = "sleep" => commands = Len(Table)

\* A late request that is still on its way meets a main that sleeps.
LateInv ==
  /\ \A r \in late :
       /\ request[r] # "unsent"
       /\ request[r] \in {"sent", "claiming", "filling"} => main = "sleep"
  /\ \A s \in Slots : data[s] \in late => main = "sleep"

\* No worker is at the queue, and nothing is in it.
NoCommand == front = tail /\ \A r \in Requests : request[r] \notin {"claiming", "filling"}

\* That is so until main has set it up.
QueueInv == main \in {"config", "logger", "server", "queue"} => NoCommand

MainInv == MainTypes /\ ListsInv /\ LateInv /\ RefusedOnlyEarly /\ QueueInv

\* The slot behind a slot is one.
LEMMA SuccIsSlot == ASSUME NEW s \in Slots PROVE Succ(s) \in Slots
BY StartupAssumption DEF Slots, Succ

\* The calls of main that touch neither threads nor lists of requests.
LEMMA MainStep == ASSUME MainInv, Main PROVE MainInv'
<1> USE DEF MainInv, MainTypes, ListsInv, LateInv, RefusedOnlyEarly, QueueInv, NoCommand, Following,
        lists, threads, traffic, ring
<1>1. CASE Config
  BY <1>1 DEF Config
<1>2. CASE ConfigReturns
  BY <1>2 DEF ConfigReturns
<1>3. CASE Logger
  BY <1>3 DEF Logger
<1>4. CASE StartServer
  BY <1>4 DEF StartServer
<1>5. CASE StartCmd
  BY <1>5 DEF StartCmd
<1>6. CASE RegisterProtocol
  <2>1. /\ protocols' = protocols \cup {main} /\ main' = Following[main]
        /\ UNCHANGED <<commands, data, front, tail, request, next, late>>
    BY <1>6 DEF RegisterProtocol
  <2>2. CASE main = "ht"
    <3>1. main' = "sl" /\ protocols' = protocols \cup {"ht"}
      BY <2>1, <2>2
    <3> QED BY <2>1, <2>2, <3>1
  <2>3. CASE main = "sl"
    <3>1. main' = "text" /\ protocols' = {"ht", "sl"}
      BY <2>1, <2>3
    <3> QED BY <2>1, <2>3, <3>1
  <2>4. CASE main = "text"
    <3>1. main' = "commands" /\ protocols' = Protocols
      BY <2>1, <2>4 DEF Protocols
    <3> QED BY <2>1, <2>4, <3>1
  <2> QED BY <1>6, <2>2, <2>3, <2>4 DEF RegisterProtocol, Protocols
<1>7. CASE RegisterCmd
  BY <1>7 DEF RegisterCmd
<1> QED BY <1>1, <1>2, <1>3, <1>4, <1>5, <1>6, <1>7 DEF Main

\* A command the program has is found once main sleeps.
LEMMA AllRegistered ==
  ASSUME MainInv, main = "sleep", NEW r \in Requests
  PROVE  ProtocolOf[r] \in protocols /\ Registered(CommandOf[r])
<1>1. commands = Len(Table) /\ protocols = Protocols
  BY DEF MainInv, ListsInv
<1>2. DOMAIN Table = 1..Len(Table)
  BY DEF Table
<1> QED BY <1>1, <1>2, StartupAssumption DEF Registered

\* A worker, or a client that sends.
LEMMA RequestStep ==
  ASSUME MainInv, NEW r \in Requests, Send(r) \/ Handle(r)
  PROVE  MainInv'
<1> USE DEF MainInv, MainTypes, ListsInv, LateInv, RefusedOnlyEarly, QueueInv, NoCommand
<1>1. CASE Send(r)
  <2>1. /\ request' = [request EXCEPT ![r] = "sent"]
        /\ request[r] = "unsent" /\ r \notin late
        /\ late' = IF main = "sleep" THEN late \cup {r} ELSE late
        /\ UNCHANGED <<main, protocols, commands, data, front, tail, next>>
    BY <1>1 DEF Send, lists, ring
  <2>2. CASE main = "sleep"
    BY <2>1, <2>2
  <2>3. CASE main # "sleep"
    <3>1. late' = late /\ \A q \in late : request'[q] = request[q]
      BY <2>1, <2>3
    <3> QED BY <2>1, <2>3, <3>1
  <2> QED BY <2>1, <2>2, <2>3
<1>2. CASE Parse(r)
  <2>1. /\ request[r] = "sent"
        /\ UNCHANGED <<main, protocols, commands, data, front, tail, late>>
    BY <1>2 DEF Parse, lists, ring
  <2>2. CASE ProtocolOf[r] \in protocols
    <3>1. /\ request' = [request EXCEPT ![r] = IF Succ(tail) = front THEN "full" ELSE "claiming"]
          /\ next' = [next EXCEPT ![r] = Succ(tail)]
      BY <1>2, <2>2 DEF Parse
    <3>2. Succ(tail) \in Slots
      BY SuccIsSlot
    <3>3. main \notin {"config", "logger", "server", "queue"}
      BY <2>2
    <3>4. MainTypes' /\ ListsInv' /\ QueueInv'
      BY <2>1, <3>1, <3>2, <3>3
    <3>5. LateInv' /\ RefusedOnlyEarly'
      BY <2>1, <3>1
    <3> QED BY <3>4, <3>5
  <2>3. CASE ProtocolOf[r] \notin protocols
    <3>1. request' = [request EXCEPT ![r] = "dropped"] /\ next' = next
      BY <1>2, <2>3 DEF Parse
    <3>2. r \notin late
      BY <2>1, <2>3, AllRegistered
    <3> QED BY <2>1, <3>1, <3>2
  <2> QED BY <2>2, <2>3
<1>3. CASE PushTail(r)
  <2>1. /\ request[r] = "claiming" /\ request' = [request EXCEPT ![r] = "filling"]
        /\ tail' = next[r]
        /\ UNCHANGED <<main, protocols, commands, data, front, next, late>>
    BY <1>3 DEF PushTail, lists
  <2> QED BY <2>1
<1>4. CASE PushData(r)
  <2>1. /\ request[r] = "filling" /\ request' = [request EXCEPT ![r] = "queued"]
        /\ data' = [data EXCEPT ![next[r]] = r]
        /\ UNCHANGED <<main, protocols, commands, front, tail, next, late>>
    BY <1>4 DEF PushData, lists
  <2>2. MainTypes' /\ ListsInv' /\ RefusedOnlyEarly' /\ QueueInv'
    BY <2>1
  <2>3. r \in late => main = "sleep"
    BY <2>1
  <2>4. LateInv'
    BY <2>1, <2>3
  <2> QED BY <2>2, <2>4
<1> QED BY <1>1, <1>2, <1>3, <1>4 DEF Handle

\* What the command thread takes is registered if it is late.
LEMMA TakeStep == ASSUME MainInv, Take PROVE MainInv'
<1> DEFINE verdict(r) == IF Registered(CommandOf[r]) THEN "answered" ELSE "unknown"
<1>1. /\ front # tail /\ front' = Succ(front)
      /\ request' = [r \in Requests |-> IF r # data[front'] THEN request[r] ELSE verdict(r)]
      /\ UNCHANGED <<main, protocols, commands, data, tail, next, late>>
  BY DEF Take, lists
<1>2. /\ MainTypes /\ ListsInv /\ LateInv /\ RefusedOnlyEarly /\ QueueInv /\ front' \in Slots
  BY <1>1, SuccIsSlot DEF MainInv, MainTypes
<1>3. main \notin {"config", "logger", "server", "queue"}
  BY <1>1, <1>2 DEF QueueInv, NoCommand
<1>4. \A r \in Requests : verdict(r) \in {"answered", "unknown"}
  OBVIOUS
<1>5. \A r \in Requests : r \in late /\ r = data[front'] => verdict(r) = "answered"
  BY <1>2, AllRegistered DEF LateInv
<1> HIDE DEF verdict
<1>6. MainTypes'
  BY <1>1, <1>2, <1>4 DEF MainTypes
<1>7. ListsInv' /\ QueueInv'
  BY <1>1, <1>2, <1>3 DEF ListsInv, QueueInv
<1>8. \A r \in Requests : request'[r] = IF r # data[front'] THEN request[r] ELSE verdict(r)
  BY <1>1
<1>9. late \subseteq Requests
  BY <1>2 DEF MainTypes
<1>10. LateInv'
  BY <1>1, <1>2, <1>4, <1>8, <1>9 DEF LateInv
<1>11. RefusedOnlyEarly'
  BY <1>1, <1>2, <1>5, <1>8, <1>9 DEF RefusedOnlyEarly
<1> QED BY <1>6, <1>7, <1>10, <1>11 DEF MainInv

LEMMA CrashStep == ASSUME MainInv, Crash PROVE MainInv'
<1>1. /\ main' = "config" /\ protocols' = {} /\ commands' = 0 /\ late' = {}
      /\ data' = [s \in Slots |-> None] /\ front' = 0 /\ tail' = 0
      /\ request' = [r \in Requests |-> "unsent"] /\ next' = [r \in Requests |-> 0]
      /\ 0 \in Slots
  BY StartupAssumption DEF Crash, Slots
<1> QED BY <1>1 DEF MainInv, MainTypes, ListsInv, LateInv, RefusedOnlyEarly, QueueInv, NoCommand,
       Following

LEMMA MainInductive == Spec => []MainInv
<1>1. Init => MainInv
  BY StartupAssumption DEF Init, Slots, MainInv, MainTypes, ListsInv, LateInv, RefusedOnlyEarly,
     QueueInv, NoCommand, Following
<1>2. MainInv /\ [Next]_vars => MainInv'
  <2> SUFFICES ASSUME MainInv, [Next]_vars PROVE MainInv'
    OBVIOUS
  <2>1. CASE CreatePool \/ InitServsock \/ UNCHANGED vars
    BY <2>1 DEF CreatePool, InitServsock, vars, lists, threads, traffic, ring, MainInv, MainTypes,
       ListsInv, LateInv, RefusedOnlyEarly, QueueInv, NoCommand
  <2> QED BY <2>1, MainStep, RequestStep, TakeStep, CrashStep DEF Next
<1> QED BY <1>1, <1>2, PTL DEF Spec

\* A request sent when main has finished finds its protocol and its command.
THEOREM LateIsNeverRefused == Spec => []RefusedOnlyEarly
<1>1. MainInv => RefusedOnlyEarly
  BY DEF MainInv
<1> QED BY <1>1, MainInductive, PTL

\* Nothing is queued before start_cmd_thread has set up the queue.
THEOREM QueueIsSetUpFirst == Spec => []QueueSetUpFirst
<1>1. MainInv => QueueSetUpFirst
  BY DEF MainInv, QueueInv, NoCommand, QueueSetUpFirst
<1> QED BY <1>1, MainInductive, PTL

=============================================================================
