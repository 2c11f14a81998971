------------------------- MODULE TextProtocolProofs -------------------------
(***************************************************************************)
(* Proofs about TextProtocol, for any threads, requests and addresses.     *)
(*                                                                         *)
(* strtok keeps one position for all threads.  The proofs rest on what a   *)
(* call of another thread may do to a string:                              *)
(*   - it changes a delimiter to a Nul and nothing else, wherever it goes  *)
(*     on, so that the first word of a line keeps its pieces and ends where *)
(*     it did (WordInv), and its copy does too if it was made before;      *)
(*   - CutInv: as long as nobody else calls strtok, behind the position    *)
(*     the string is as it was given, and in front of it the copied tokens *)
(*     are its fields, as many as begin there.                             *)
(***************************************************************************)
EXTENDS TextProtocol, FiniteSetTheorems, SequenceTheorems, WellFoundedInduction, TLAPS

Piece == STRING \cup {Nul, Junk}

Positions == [of : Threads, str : {"line", "tmp_str"}, at : Nat \ {0}]

Places == {"idle", "copy", "check", "match", "first", "use", "again", "cut", "push", "done"}

Types ==
  /\ olds \in Positions
  /\ from \in [Threads -> Positions] /\ token \in [Threads -> Positions]
  /\ buf \in [Threads -> [line : Seq(Piece), tmp_str : Seq(Piece)]]
  /\ pc \in [Threads -> Places]
  /\ input \in [Threads -> Seq(STRING \ {Nul})]
  /\ tokens \in [Threads -> Seq(Seq(Piece))]
  /\ crossed \in [Threads -> BOOLEAN]

InputInv ==
  /\ pc[GetCmd] \notin {"copy", "check", "match", "done"}
  /\ \A th \in Workers : pc[th] # "idle" => input[th] \in Lines
  /\ \A th \in Threads :
       pc[th] \in {"idle", "copy", "check", "match", "first", "done"} => tokens[th] = <<>>

\* Where the Space behind the first word of a line is.
WordEnd(l) == Seek(l, 1, {Space})

\* s begins with the first word of l, and one of the pieces follows.
Begins(s, l, pieces) ==
  /\ Len(s) >= WordEnd(l) /\ s[WordEnd(l)] \in pieces
  /\ \A k \in 1..WordEnd(l) - 1 : s[k] = l[k]

\* No other thread has put a Nul behind the word.
Whole(th) == buf[th].line[WordEnd(input[th])] = Space

WordOwn(th) ==
  /\ pc[th] \in {"copy", "check", "match", "first"} =>
       Begins(buf[th].line, input[th], {Space, Nul})
  /\ pc[th] = "check" /\ Whole(th) => Begins(buf[th].tmp_str, input[th], {Space, Nul})
  /\ pc[th] = "match" /\ Whole(th) => /\ Begins(buf[th].tmp_str, input[th], {Nul})
                                      /\ token[th] = Own(th, "tmp_str")
  /\ pc[th] = "use" /\ tokens[th] = <<>> => /\ Begins(buf[th].line, input[th], {Nul})
                                            /\ token[th] = Own(th, "line")
  /\ pc[th] \in {"again", "cut", "push"} \/ tokens[th] # <<>> =>
       Len(tokens[th]) >= 1 /\ tokens[th][1] = FirstWord(input[th])

WordInv == \A th \in Workers : WordOwn(th)

\* How many fields of s begin in front of r.
Count(s, delimiter, r) == Cardinality({m \in Starts(s, delimiter) : m < r})

\* From r on, where a field may begin, line is s.
Rest(s, line, r, delimiter) ==
  /\ r \in 1..Len(s) + 1 /\ Len(line) = Len(s)
  /\ \A k \in r..Len(s) : line[k] = s[k]
  /\ r = 1 \/ r = Len(s) + 1 \/ s[r - 1] = delimiter

\* th's line has been cut as far as p, and n fields begin in front of it.
CutTo(th, p, n) ==
  /\ p.of = th /\ p.str = "line"
  /\ Rest(input[th], buf[th].line, p.at, Delimiter(th))
  /\ Count(input[th], Delimiter(th), p.at) = n

\* t is the n-th field of s.
IsField(s, delimiter, n, t) ==
  \E k \in Starts(s, delimiter) : Count(s, delimiter, k) = n - 1 /\ t = Field(s, delimiter, k)

CutOwn(th) ==
  /\ pc[th] \in {"copy", "check", "match", "first"} => buf[th].line = input[th]
  /\ pc[th] = "use"   => /\ token[th].of = th /\ token[th].str = "line"
                         /\ CutTo(th, olds, Len(tokens[th]) + 1)
                         /\ IsField(input[th], Delimiter(th), Len(tokens[th]) + 1, Token(th))
  /\ pc[th] = "again" => CutTo(th, olds, Len(tokens[th]))
  /\ pc[th] = "cut"   => CutTo(th, from[th], Len(tokens[th]))
  /\ pc[th] = "push"  => Len(tokens[th]) = Cardinality(Starts(input[th], Delimiter(th)))
  /\ \A n \in 1..Len(tokens[th]) : IsField(input[th], Delimiter(th), n, tokens[th][n])

CutInv == \A th \in Threads : ~crossed[th] => CutOwn(th)

IInv == Types /\ InputInv /\ WordInv /\ CutInv

-----------------------------------------------------------------------------
(* strtok                                                                  *)

\* A set of natural numbers that is not empty has a least element.
LEMMA Least ==
  ASSUME NEW T \in SUBSET Nat, T # {}
  PROVE  Min(T) \in T /\ \A n \in T : Min(T) <= n
<1> DEFINE R == OpToRel(<, Nat)
<1>1. PICK m \in T : \A n \in T : ~(<<n, m>> \in R)
  <2>1. IsWellFoundedOn(R, Nat)
    BY NatLessThanWellFounded
  <2> HIDE DEF R
  <2> QED BY <2>1, WFMin
<1>2. ASSUME NEW n \in T, n < m PROVE FALSE
  <2>1. <<n, m>> \in R
    BY <1>2 DEF OpToRel
  <2> HIDE DEF R
  <2> QED BY <1>1, <2>1
<1>3. \E k \in T : \A n \in T : k <= n
  BY <1>2
<1> QED BY <1>3 DEF Min

LEMMA FirstProperties ==
  ASSUME NEW s, Len(s) \in Nat, NEW k \in Nat, NEW places \in SUBSET (k..Len(s))
  PROVE  /\ First(s, k, places) \in Nat /\ First(s, k, places) >= k
         /\ k <= Len(s) => First(s, k, places) <= Len(s) + 1
         /\ k > Len(s) => First(s, k, places) = k
         /\ First(s, k, places) <= Len(s) => First(s, k, places) \in places
         /\ \A m \in k..First(s, k, places) - 1 : m \in 1..Len(s) => m \notin places
<1> DEFINE end == IF k > Len(s) THEN k ELSE Len(s) + 1
           T == places \cup {end}
           f == Min(T)
<1>1. T \in SUBSET Nat /\ T # {} /\ end \in Nat /\ end > Len(s)
  <2>1. end \in Nat /\ end > Len(s)
    OBVIOUS
  <2>2. places \in SUBSET Nat
    OBVIOUS
  <2> HIDE DEF end
  <2> QED BY <2>1, <2>2
<1>2. f \in T /\ \A n \in T : f <= n
  <2> HIDE DEF T
  <2> QED BY <1>1, Least
<1>3. First(s, k, places) = f
  BY DEF First
<1> HIDE DEF f
<1> QED BY <1>1, <1>2, <1>3

\* What Skip and Seek promise.
LEMMA SkipProperties ==
  ASSUME NEW s, Len(s) \in Nat, NEW k \in Nat \ {0}, NEW pieces
  PROVE  /\ Skip(s, k, pieces) \in Nat /\ Skip(s, k, pieces) >= k
         /\ k <= Len(s) => Skip(s, k, pieces) <= Len(s) + 1
         /\ k > Len(s) => Skip(s, k, pieces) = k
         /\ Skip(s, k, pieces) <= Len(s) => s[Skip(s, k, pieces)] \notin pieces
         /\ \A m \in k..Skip(s, k, pieces) - 1 : m <= Len(s) => s[m] \in pieces
BY FirstProperties DEF Skip

LEMMA SeekProperties ==
  ASSUME NEW s, Len(s) \in Nat, NEW k \in Nat \ {0}, NEW pieces
  PROVE  /\ Seek(s, k, pieces) \in Nat /\ Seek(s, k, pieces) >= k
         /\ k <= Len(s) => Seek(s, k, pieces) <= Len(s) + 1
         /\ k > Len(s) => Seek(s, k, pieces) = k
         /\ Seek(s, k, pieces) <= Len(s) => s[Seek(s, k, pieces)] \in pieces
         /\ \A m \in k..Seek(s, k, pieces) - 1 : m <= Len(s) => s[m] \notin pieces
BY FirstProperties DEF Seek

\* A place that is what Seek promises is the one Seek finds.
LEMMA SeekIs ==
  ASSUME NEW s, Len(s) \in Nat, NEW k \in 1..Len(s), NEW pieces,
         NEW e \in k..Len(s) + 1, e <= Len(s) => s[e] \in pieces,
         \A m \in k..e - 1 : s[m] \notin pieces
  PROVE  Seek(s, k, pieces) = e
<1> DEFINE f == Seek(s, k, pieces)
<1>1. /\ f \in k..Len(s) + 1
      /\ f <= Len(s) => s[f] \in pieces
      /\ \A m \in k..f - 1 : m <= Len(s) => s[m] \notin pieces
  BY SeekProperties
<1> HIDE DEF f
<1>2. ~(f < e)
  BY <1>1
<1>3. ~(e < f)
  BY <1>1
<1> QED BY <1>1, <1>2, <1>3 DEF f

\* What a worker's line begins with, and what the others are given.
LEMMA Inputs ==
  /\ Workers \subseteq Threads /\ GetCmd \in Threads /\ GetCmd \notin Workers
  /\ \A th \in Threads : th \in Workers \/ th = GetCmd
  /\ \A l \in Lines : /\ WordEnd(l) \in 2..Len(l) /\ l[WordEnd(l)] = Space
                      /\ \A k \in 1..WordEnd(l) - 1 : l[k] \notin {Space, Dot, Nul}
                      /\ Begins(l, l, {Space, Nul})
  /\ \A l \in Lines \cup Addresses : l \in Seq(STRING \ {Nul}) /\ l \in Seq(Piece)
  /\ \A th \in Threads : Delimiter(th) \in {Space, Dot} \ {Nul}
  /\ Space # Nul /\ Dot # Nul
<1>1. \A l \in Lines \cup Addresses : l \in Seq(STRING \ {Nul})
  BY TextAssumption
<1>2. \A l \in Lines \cup Addresses : l \in Seq(Piece)
  BY <1>1 DEF Piece
<1>3. ASSUME NEW l \in Lines
      PROVE  /\ WordEnd(l) \in 2..Len(l) /\ l[WordEnd(l)] = Space
             /\ \A k \in 1..WordEnd(l) - 1 : l[k] \notin {Space, Dot, Nul}
             /\ Begins(l, l, {Space, Nul})
  <2>1. PICK n \in 1..Len(l) - 1 : l[n + 1] = Space /\ \A k \in 1..n : l[k] \in DOMAIN Code
    BY TextAssumption
  <2>2. Len(l) \in Nat
    BY <1>1
  <2>3. \A k \in 1..n : l[k] \notin {Space, Dot, Nul}
    BY <2>1, TextAssumption
  <2>4. WordEnd(l) = n + 1
    <3>1. 1 \in 1..Len(l) /\ n + 1 \in 1..Len(l) + 1 /\ n + 1 - 1 = n
      BY <2>2
    <3>2. \A m \in 1..n + 1 - 1 : l[m] \notin {Space}
      BY <2>3, <3>1
    <3>3. Seek(l, 1, {Space}) = n + 1
      BY <2>1, <2>2, <3>1, <3>2, SeekIs
    <3> QED BY <3>3 DEF WordEnd
  <2>5. \A k \in 1..WordEnd(l) - 1 : k \in 1..n
    BY <2>2, <2>4
  <2> QED BY <2>1, <2>2, <2>3, <2>4, <2>5 DEF Begins
<1>4. Space # Nul /\ Dot # Nul /\ \A th \in Threads : Delimiter(th) \in {Space, Dot} \ {Nul}
  BY TextAssumption DEF Delimiter
<1>5. /\ Workers \subseteq Threads /\ GetCmd \in Threads /\ GetCmd \notin Workers
      /\ \A th \in Threads : th \in Workers \/ th = GetCmd
  BY TextAssumption DEF Threads
<1> QED BY <1>1, <1>2, <1>3, <1>4, <1>5

\* strtok changes nothing but a delimiter, to a Nul, and it goes forward.
LEMMA CutProperties ==
  ASSUME NEW s \in Seq(Piece), NEW k \in Nat \ {0}, NEW delimiter
  PROVE  LET c == Cut(s, k, delimiter) IN
         /\ c.s \in Seq(Piece) /\ Len(c.s) = Len(s)
         /\ \A m \in 1..Len(s) : c.s[m] = s[m] \/ (s[m] = delimiter /\ c.s[m] = Nul)
         /\ c.start \in Nat \ {0} /\ c.rest \in Nat \ {0}
         /\ c.found \in BOOLEAN
<1> DEFINE start == Skip(s, k, {delimiter})
           end == Seek(s, start, {delimiter, Nul})
           t == IF At(s, end) = Nul THEN s ELSE [s EXCEPT ![end] = Nul]
           c == Cut(s, k, delimiter)
<1>1. Len(s) \in Nat
  OBVIOUS
<1>2. start \in Nat \ {0}
  BY <1>1, SkipProperties
<1> HIDE DEF start
<1>3. end \in Nat \ {0} /\ (end <= Len(s) => s[end] \in {delimiter, Nul})
  BY <1>1, <1>2, SeekProperties
<1>4. /\ c.start = start /\ c.found = (At(s, start) # Nul)
      /\ c.s = t /\ c.rest = IF At(s, end) = Nul THEN end ELSE end + 1
  BY DEF Cut, start
<1> HIDE DEF end
<1>5. /\ t \in Seq(Piece) /\ Len(t) = Len(s)
      /\ \A m \in 1..Len(s) : t[m] = s[m] \/ (s[m] = delimiter /\ t[m] = Nul)
  <2>1. CASE At(s, end) # Nul
    <3>1. end \in 1..Len(s) /\ s[end] # Nul
      BY <1>1, <1>3, <2>1 DEF At
    <3>2. Nul \in Piece /\ s[end] = delimiter
      BY <1>1, <1>3, <3>1 DEF Piece
    <3> QED BY <2>1, <3>1, <3>2
  <2>2. CASE At(s, end) = Nul
    BY <2>2
  <2> QED BY <2>1, <2>2
<1> HIDE DEF t, c
<1>6. c.rest \in Nat \ {0} /\ c.start \in Nat \ {0}
  BY <1>2, <1>3, <1>4
<1>7. c.found \in BOOLEAN
  BY <1>4
<1> QED BY <1>4, <1>5, <1>6, <1>7 DEF c

\* A string that begins with the first word of a line still does when s has become
\* t, and what is a Space behind the word was one.
Keeps(s, t) ==
  \A l \in Lines :
    /\ Begins(s, l, {Space, Nul}) =>
         Begins(t, l, {Space, Nul}) /\ (t[WordEnd(l)] = Space => s[WordEnd(l)] = Space)
    /\ Begins(s, l, {Nul}) => Begins(t, l, {Nul})

\* It is so wherever strtok goes on.
LEMMA CutKeepsBegins ==
  ASSUME NEW s \in Seq(Piece), NEW k \in Nat \ {0}, NEW d \in {Space, Dot}
  PROVE  Keeps(s, Cut(s, k, d).s)
<1> SUFFICES ASSUME NEW l \in Lines
             PROVE  LET t == Cut(s, k, d).s IN
                    /\ Begins(s, l, {Space, Nul}) =>
                         /\ Begins(t, l, {Space, Nul})
                         /\ t[WordEnd(l)] = Space => s[WordEnd(l)] = Space
                    /\ Begins(s, l, {Nul}) => Begins(t, l, {Nul})
  BY DEF Keeps
<1> DEFINE t == Cut(s, k, d).s
           e == WordEnd(l)
<1>1. Len(t) = Len(s) /\ \A m \in 1..Len(s) : t[m] = s[m] \/ (s[m] = d /\ t[m] = Nul)
  BY CutProperties
<1> HIDE DEF t
<1>2. e \in Nat /\ e >= 2 /\ Space # Nul /\ Dot # Nul /\ Len(s) \in Nat
  <2>1. e \in 2..Len(l) /\ Len(l) \in Nat
    BY Inputs
  <2> HIDE DEF e
  <2> QED BY <2>1, Inputs
<1>3. \A m \in 1..e - 1 : l[m] \notin {Space, Dot, Nul}
  BY Inputs
<1> HIDE DEF e
<1>4. ASSUME Len(s) >= e, \A m \in 1..e - 1 : s[m] = l[m]
      PROVE  \A m \in 1..e - 1 : t[m] = l[m]
  <2>1. \A m \in 1..e - 1 : m \in 1..Len(s)
    BY <1>2, <1>4
  <2> QED BY <1>1, <1>3, <1>4, <2>1
<1>5. ASSUME Len(s) >= e
      PROVE  t[e] = s[e] \/ (s[e] = d /\ t[e] = Nul)
  BY <1>1, <1>2, <1>5
<1> QED BY <1>1, <1>2, <1>4, <1>5 DEF Begins, t, e

\* Cut from its beginning, such a string gives the word.
LEMMA CutsFirstWord ==
  ASSUME NEW s \in Seq(Piece), NEW l \in Lines, Begins(s, l, {Space, Nul})
  PROVE  LET c == Cut(s, 1, Space) IN
         c.found /\ c.start = 1 /\ Begins(c.s, l, {Nul})
<1> DEFINE e == WordEnd(l)
<1>1. /\ e \in Nat /\ e >= 2 /\ Len(s) \in Nat /\ Len(s) >= e
      /\ s[e] \in {Space, Nul} /\ \A k \in 1..e - 1 : s[k] = l[k]
      /\ \A k \in 1..e - 1 : s[k] \notin {Space, Nul}
  <2>1. e \in 2..Len(l) /\ Len(l) \in Nat /\ \A k \in 1..e - 1 : l[k] \notin {Space, Nul}
    BY Inputs
  <2> QED BY <2>1 DEF Begins
<1> HIDE DEF e
<1>2. 1 \in 1..e - 1 /\ s[1] \notin {Space, Nul}
  BY <1>1
<1>3. Skip(s, 1, {Space}) = 1
  <2> DEFINE f == Skip(s, 1, {Space})
  <2>1. f \in Nat /\ f >= 1 /\ \A m \in 1..f - 1 : m <= Len(s) => s[m] \in {Space}
    BY <1>1, SkipProperties
  <2> HIDE DEF f
  <2>2. f = 1
    BY <1>1, <1>2, <2>1
  <2> QED BY <2>2 DEF f
<1>4. Seek(s, 1, {Space, Nul}) = e
  <2>1. 1 \in 1..Len(s) /\ e \in 1..Len(s) + 1
    BY <1>1
  <2> QED BY <1>1, <2>1, SeekIs
<1> DEFINE c == Cut(s, 1, Space)
           start == Skip(s, 1, {Space})
           end == Seek(s, start, {Space, Nul})
<1>5. /\ c.start = start /\ c.found = (At(s, start) # Nul)
      /\ c.s = IF At(s, end) = Nul THEN s ELSE [s EXCEPT ![end] = Nul]
  BY DEF Cut
<1>6. start = 1 /\ end = e
  BY <1>3, <1>4
<1> HIDE DEF start, end, c
<1>7. c.start = 1 /\ c.found
  <2>1. At(s, start) # Nul
    BY <1>1, <1>2, <1>6 DEF At
  <2> QED BY <1>5, <1>6, <2>1
<1>8. Len(c.s) = Len(s) /\ c.s[e] = Nul /\ \A k \in 1..e - 1 : c.s[k] = s[k]
  <2>1. At(s, end) = s[e] /\ e \in 1..Len(s) /\ \A k \in 1..e - 1 : k # e
    BY <1>1, <1>6 DEF At
  <2> QED BY <1>1, <1>5, <1>6, <2>1
<1>9. Begins(c.s, l, {Nul})
  BY <1>1, <1>8 DEF Begins, e
<1> QED BY <1>7, <1>9 DEF c

\* In front of a Nul, the word is a string of its own.
LEMMA WordAlone ==
  ASSUME NEW s \in Seq(Piece), NEW l \in Lines, Begins(s, l, {Nul})
  PROVE  CString(s, 1) = FirstWord(l)
<1> DEFINE e == WordEnd(l)
<1>1. /\ e \in Nat /\ e >= 2 /\ Len(s) \in Nat /\ Len(s) >= e /\ s[e] = Nul /\ e <= Len(l)
      /\ \A k \in 1..e - 1 : s[k] = l[k] /\ s[k] # Nul
      /\ l \in Seq(Piece)
  <2>1. e \in 2..Len(l) /\ Len(l) \in Nat /\ \A k \in 1..e - 1 : l[k] \notin {Nul}
    BY Inputs
  <2>2. l \in Seq(Piece)
    BY Inputs
  <2> QED BY <2>1, <2>2 DEF Begins
<1> HIDE DEF e
<1>2. Seek(s, 1, {Nul}) = e
  <2>1. /\ 1 \in 1..Len(s) /\ e \in 1..Len(s) + 1 /\ \A m \in 1..e - 1 : s[m] \notin {Nul}
        /\ e <= Len(s) => s[e] \in {Nul}
    BY <1>1
  <2> QED BY <1>1, <2>1, SeekIs
<1> DEFINE u == SubSeq(s, 1, e - 1)
           w == SubSeq(l, 1, e - 1)
<1>3. \A i \in 1..e - 1 : s[i] \in Piece /\ l[i] \in Piece
  <2>1. \A i \in 1..e - 1 : i \in 1..Len(s)
    BY <1>1
  <2> QED BY <1>1, <2>1
<1>4. u \in Seq(Piece) /\ Len(u) = e - 1 /\ \A i \in 1..e - 1 : u[i] = s[i]
  <2>1. /\ u \in Seq(Piece) /\ Len(u) = IF 1 <= e - 1 THEN e - 1 - 1 + 1 ELSE 0
        /\ \A i \in 1..e - 1 - 1 + 1 : u[i] = s[1 + i - 1]
    BY <1>1, <1>3, SubSeqProperties
  <2> HIDE DEF u
  <2> QED BY <1>1, <2>1
<1>5. w \in Seq(Piece) /\ Len(w) = e - 1 /\ \A i \in 1..e - 1 : w[i] = l[i]
  <2>1. /\ w \in Seq(Piece) /\ Len(w) = IF 1 <= e - 1 THEN e - 1 - 1 + 1 ELSE 0
        /\ \A i \in 1..e - 1 - 1 + 1 : w[i] = l[1 + i - 1]
    BY <1>1, <1>3, SubSeqProperties
  <2> HIDE DEF w
  <2> QED BY <1>1, <2>1
<1> HIDE DEF u, w
<1>6. u = w
  BY <1>1, <1>4, <1>5, SeqEqual
<1> QED BY <1>2, <1>6 DEF CString, FirstWord, WordEnd, u, w, e

\* The copy of a line begins as the line does if a Space is behind the word.
LEMMA CopyBegins ==
  ASSUME NEW s \in Seq(Piece), NEW l \in Lines, NEW t \in Seq(Piece),
         Begins(s, l, {Space, Nul}), s[WordEnd(l)] = Space
  PROVE  Begins(CString(s, 1) \o t, l, {Space, Nul})
<1> DEFINE e == WordEnd(l)
           f == Seek(s, 1, {Nul})
           u == SubSeq(s, 1, f - 1)
<1>1. /\ e \in Nat /\ e >= 2 /\ Len(s) \in Nat /\ Len(s) >= e /\ s[e] = Space
      /\ \A k \in 1..e - 1 : s[k] = l[k] /\ s[k] # Nul
      /\ Space # Nul
  <2>1. e \in 2..Len(l) /\ Len(l) \in Nat /\ \A k \in 1..e - 1 : l[k] \notin {Nul}
    BY Inputs
  <2> QED BY <2>1, Inputs DEF Begins
<1> HIDE DEF e
<1>2. f \in Nat /\ f > e /\ f <= Len(s) + 1
  <2>1. f \in Nat /\ f >= 1 /\ f <= Len(s) + 1 /\ (f <= Len(s) => s[f] \in {Nul})
    BY <1>1, SeekProperties
  <2> HIDE DEF f
  <2> QED BY <1>1, <2>1
<1> HIDE DEF f
<1>3. \A i \in 1..f - 1 : s[i] \in Piece
  BY <1>1, <1>2
<1>4. u \in Seq(Piece) /\ Len(u) = f - 1 /\ \A i \in 1..f - 1 : u[i] = s[i]
  <2>1. /\ u \in Seq(Piece) /\ Len(u) = IF 1 <= f - 1 THEN f - 1 - 1 + 1 ELSE 0
        /\ \A i \in 1..f - 1 - 1 + 1 : u[i] = s[1 + i - 1]
    BY <1>2, <1>3, SubSeqProperties
  <2> HIDE DEF u
  <2> QED BY <1>1, <1>2, <2>1
<1> HIDE DEF u
<1> DEFINE c == u \o t
<1>5. /\ Len(c) = Len(u) + Len(t) /\ Len(t) \in Nat
      /\ \A i \in 1..Len(u) : c[i] = u[i]
  <2>1. /\ Len(c) = Len(u) + Len(t)
        /\ \A i \in 1..Len(u) + Len(t) : c[i] = IF i <= Len(u) THEN u[i] ELSE t[i - Len(u)]
    BY <1>4, ConcatProperties
  <2> HIDE DEF c
  <2>2. Len(u) \in Nat /\ Len(t) \in Nat
    BY <1>2, <1>4
  <2> QED BY <2>1, <2>2
<1> HIDE DEF c
<1>6. Len(c) >= e /\ c[e] = Space /\ \A k \in 1..e - 1 : c[k] = l[k]
  BY <1>1, <1>2, <1>4, <1>5
<1>7. Begins(c, l, {Space, Nul})
  BY <1>6 DEF Begins, e
<1> QED BY <1>7 DEF CString, c, u, f

-----------------------------------------------------------------------------
(* Fields                                                                  *)

\* There are finitely many fields in front of any place.
LEMMA CountProperties ==
  ASSUME NEW s, Len(s) \in Nat, DOMAIN s = 1..Len(s), NEW delimiter, NEW r
  PROVE  /\ IsFiniteSet(Starts(s, delimiter)) /\ Cardinality(Starts(s, delimiter)) \in Nat
         /\ Starts(s, delimiter) \subseteq 1..Len(s)
         /\ IsFiniteSet({m \in Starts(s, delimiter) : m < r}) /\ Count(s, delimiter, r) \in Nat
<1> DEFINE starts == Starts(s, delimiter)
           front == {m \in starts : m < r}
<1>1. IsFiniteSet(1..Len(s))
  BY FS_Interval
<1>2. starts \in SUBSET (1..Len(s))
  BY DEF Starts
<1>3. IsFiniteSet(starts)
  BY <1>1, <1>2, FS_Subset
<1>4. front \in SUBSET starts
  OBVIOUS
<1>5. IsFiniteSet(front)
  BY <1>3, <1>4, FS_Subset
<1> HIDE DEF starts, front
<1>6. Cardinality(starts) \in Nat /\ Cardinality(front) \in Nat
  BY <1>3, <1>5, FS_CardinalityType
<1> QED BY <1>2, <1>3, <1>5, <1>6 DEF Count, starts, front

\* No two fields have the same number, ...
LEMMA CountIsNumber ==
  ASSUME NEW s, Len(s) \in Nat, DOMAIN s = 1..Len(s), NEW delimiter,
         NEW j \in Starts(s, delimiter), NEW k \in Starts(s, delimiter),
         Count(s, delimiter, j) = Count(s, delimiter, k)
  PROVE  j = k
<1> DEFINE front(n) == {m \in Starts(s, delimiter) : m < n}
<1>1. j \in Nat /\ k \in Nat
  BY DEF Starts
<1>2. ASSUME NEW a \in {j, k}, NEW b \in {j, k}, a < b PROVE FALSE
  <2>1. front(a) \in SUBSET front(b) /\ a \in front(b) /\ a \notin front(a)
    <3>1. a \in Starts(s, delimiter) /\ a \in Nat /\ b \in Nat /\ a < b
      BY <1>1, <1>2
    <3>2. Starts(s, delimiter) \in SUBSET Nat
      BY DEF Starts
    <3> QED BY <3>1, <3>2
  <2>2. IsFiniteSet(front(b)) /\ Cardinality(front(a)) = Cardinality(front(b))
    BY CountProperties DEF Count
  <2> HIDE DEF front
  <2>3. front(b) = front(a)
    BY <2>1, <2>2, FS_Subset
  <2> QED BY <2>1, <2>3
<1> QED BY <1>1, <1>2

\* ... and each is a number up to that of all.
LEMMA CountInRange ==
  ASSUME NEW s, Len(s) \in Nat, DOMAIN s = 1..Len(s), NEW delimiter,
         NEW k \in Starts(s, delimiter)
  PROVE  Count(s, delimiter, k) + 1 \in 1..Cardinality(Starts(s, delimiter))
<1> DEFINE starts == Starts(s, delimiter)
           front == {m \in starts : m < k}
<1>1. IsFiniteSet(starts) /\ IsFiniteSet(front) /\ k \in Nat
      /\ Cardinality(starts) \in Nat /\ Cardinality(front) \in Nat
  <2>1. k \in Nat
    BY DEF Starts
  <2>2. /\ IsFiniteSet(starts) /\ IsFiniteSet(front)
        /\ Cardinality(starts) \in Nat /\ Count(s, delimiter, k) \in Nat
    BY CountProperties
  <2> QED BY <2>1, <2>2 DEF Count
<1>2. front \in SUBSET starts /\ k \in starts /\ k \notin front
  BY <1>1
<1> HIDE DEF starts, front
<1>3. Cardinality(front) <= Cardinality(starts) /\ Cardinality(front) # Cardinality(starts)
  BY <1>1, <1>2, FS_Subset
<1> QED BY <1>1, <1>3 DEF Count, starts, front

\* A sequence of all fields in their order is what Fields gives.
LEMMA AllFields ==
  ASSUME NEW s, Len(s) \in Nat, DOMAIN s = 1..Len(s), NEW delimiter,
         NEW S, NEW t \in Seq(S), Len(t) = Cardinality(Starts(s, delimiter)),
         \A n \in 1..Len(t) : IsField(s, delimiter, n, t[n])
  PROVE  t = Fields(s, delimiter)
<1> DEFINE starts == Starts(s, delimiter)
           start(n) == CHOOSE k \in starts : Cardinality({m \in starts : m < k}) = n - 1
           f == [n \in 1..Len(t) |-> Field(s, delimiter, start(n))]
<1>1. ASSUME NEW n \in 1..Len(t) PROVE t[n] = Field(s, delimiter, start(n))
  <2>1. PICK k \in starts : Count(s, delimiter, k) = n - 1 /\ t[n] = Field(s, delimiter, k)
    BY DEF IsField
  <2>2. start(n) \in starts /\ Cardinality({m \in starts : m < start(n)}) = n - 1
    BY <2>1 DEF Count
  <2> HIDE DEF start
  <2>3. Count(s, delimiter, start(n)) = n - 1
    BY <2>2 DEF Count
  <2>4. start(n) = k
    BY <2>1, <2>2, <2>3, CountIsNumber
  <2> QED BY <2>1, <2>4
<1>2. Fields(s, delimiter) = f
  BY DEF Fields
<1> HIDE DEF start
<1>3. t = f
  <2>1. t = [n \in 1..Len(t) |-> t[n]]
    OBVIOUS
  <2> QED BY <1>1, <2>1
<1> QED BY <1>2, <1>3

\* A call that goes on at a place where a field may begin returns the next field, or
\* finds that there is none.
LEMMA CutsField ==
  ASSUME NEW s \in Seq(STRING \ {Nul}), NEW line \in Seq(Piece), NEW d, d # Nul,
         NEW r \in Nat \ {0}, Rest(s, line, r, d)
  PROVE  LET c == Cut(line, r, d) IN
         /\ c.found => /\ IsField(s, d, Count(s, d, r) + 1, CString(c.s, c.start))
                       /\ Rest(s, c.s, c.rest, d)
                       /\ Count(s, d, c.rest) = Count(s, d, r) + 1
         /\ ~c.found => Count(s, d, r) = Cardinality(Starts(s, d))
<1> DEFINE c == Cut(line, r, d)
           n == Len(s)
           start == Skip(line, r, {d})
           end == Seek(line, start, {d, Nul})
           starts == Starts(s, d)
           front(k) == {m \in starts : m < k}
<1>1. /\ n \in Nat /\ r \in 1..n + 1 /\ Len(line) = n /\ DOMAIN s = 1..n
      /\ \A k \in r..n : line[k] = s[k]
      /\ r = 1 \/ r = n + 1 \/ s[r - 1] = d
      /\ \A k \in 1..n : s[k] # Nul
  BY DEF Rest
<1>2. /\ c.start = start /\ c.found = (At(line, start) # Nul)
      /\ c.s = IF At(line, end) = Nul THEN line ELSE [line EXCEPT ![end] = Nul]
      /\ c.rest = IF At(line, end) = Nul THEN end ELSE end + 1
  BY DEF Cut
<1>3. starts = {k \in 1..n : s[k] # d /\ (k > 1 => s[k - 1] = d)}
  BY <1>1 DEF Starts
<1>4. start \in r..n + 1 /\ (start <= n => s[start] # d) /\ \A m \in r..start - 1 : s[m] = d
  <2>1. /\ start \in Nat /\ start >= r
        /\ r <= n => start <= n + 1
        /\ r > n => start = r
        /\ start <= n => line[start] \notin {d}
        /\ \A m \in r..start - 1 : m <= n => line[m] \in {d}
    BY <1>1, SkipProperties
  <2> HIDE DEF start, n
  <2>2. start \in r..n + 1
    BY <1>1, <2>1
  <2>3. ASSUME NEW m \in r..start - 1 PROVE s[m] = d
    <3>1. m \in r..n /\ m <= n
      BY <1>1, <2>2
    <3> QED BY <1>1, <2>1, <3>1
  <2> QED BY <1>1, <2>1, <2>2, <2>3
<1>5. \A k \in Nat : Count(s, d, k) = Cardinality(front(k))
  BY DEF Count
<1>6. \A k \in Nat : IsFiniteSet(front(k)) /\ Cardinality(front(k)) \in Nat
  BY <1>1, CountProperties DEF Count
<1> HIDE DEF start, end, starts, n, c
<1>7. ~c.found => Count(s, d, r) = Cardinality(starts)
  <2> SUFFICES ASSUME ~c.found PROVE front(r) = starts
    BY <1>1, <1>5
  <2>1. ~(start <= n)
    <3>1. ~(At(line, start) # Nul)
      BY <1>2
    <3> QED BY <1>1, <1>4, <3>1 DEF At
  <2>2. \A m \in starts : m < r
    BY <1>1, <1>3, <1>4, <2>1
  <2> QED BY <2>2
<1>8. ASSUME c.found
      PROVE  /\ IsField(s, d, Count(s, d, r) + 1, CString(c.s, c.start))
             /\ Rest(s, c.s, c.rest, d)
             /\ Count(s, d, c.rest) = Count(s, d, r) + 1
  <2>1. start \in 1..n
    <3>1. At(line, start) # Nul
      BY <1>2, <1>8
    <3> QED BY <1>1, <1>4, <3>1 DEF At
  <2>2. start \in starts
    <3>1. CASE start = r
      BY <1>1, <1>3, <1>4, <2>1, <3>1
    <3>2. CASE start > r
      <4>1. start - 1 \in r..start - 1
        BY <1>1, <1>4, <3>2
      <4> QED BY <1>3, <1>4, <2>1, <4>1
    <3> QED BY <1>1, <1>4, <3>1, <3>2
  <2>3. front(start) = front(r)
    <3>1. ASSUME NEW m \in starts, m < start PROVE m < r
      BY <1>1, <1>3, <1>4, <3>1
    <3>2. ASSUME NEW m \in starts, m < r PROVE m < start
      BY <1>1, <1>3, <1>4, <3>2
    <3> QED BY <3>1, <3>2
  <2>4. /\ end \in start + 1..n + 1
        /\ end <= n => s[end] = d
        /\ \A m \in start..end - 1 : line[m] = s[m] /\ s[m] \notin {d, Nul}
    <3>1. /\ end \in Nat /\ end >= start /\ end <= n + 1
          /\ end <= n => line[end] \in {d, Nul}
          /\ \A m \in start..end - 1 : m <= n => line[m] \notin {d, Nul}
      <4>1. Len(line) \in Nat /\ start \in Nat \ {0} /\ start <= Len(line)
        BY <1>1, <2>1
      <4>2. end = Seek(line, start, {d, Nul})
        BY DEF end
      <4>3. /\ end \in Nat /\ end >= start /\ end <= Len(line) + 1
            /\ end <= Len(line) => line[end] \in {d, Nul}
            /\ \A m \in start..end - 1 : m <= Len(line) => line[m] \notin {d, Nul}
        BY <4>1, <4>2, SeekProperties
      <4> QED BY <1>1, <4>3
    <3>2. end # start
      BY <1>1, <1>4, <2>1, <3>1
    <3>3. end <= n => end \in r..n /\ end \in 1..n
      BY <1>1, <1>4, <2>1, <3>1
    <3>4. end <= n => s[end] = d
      BY <1>1, <3>1, <3>3
    <3>5. ASSUME NEW m \in start..end - 1 PROVE line[m] = s[m] /\ s[m] \notin {d, Nul}
      <4>1. m \in r..n /\ m <= n
        BY <1>1, <1>4, <2>1, <3>1
      <4> QED BY <1>1, <3>1, <4>1
    <3> QED BY <1>1, <2>1, <3>1, <3>2, <3>4, <3>5
  <2>5. /\ c.s \in Seq(Piece) /\ Len(c.s) = n
        /\ \A k \in start..end - 1 : c.s[k] = s[k]
        /\ end <= n => c.s[end] = Nul
        /\ \A k \in end + 1..n : c.s[k] = s[k]
        /\ c.rest = IF end <= n THEN end + 1 ELSE end
    <3>1. CASE end <= n
      <4>1. At(line, end) = d /\ end \in 1..n
        BY <1>1, <1>4, <2>1, <2>4, <3>1 DEF At
      <4>2. c.s = [line EXCEPT ![end] = Nul] /\ c.rest = end + 1
        BY <1>2, <4>1
      <4>3. Nul \in Piece
        BY DEF Piece
      <4>4. \A k \in end + 1..n : k \in r..n /\ k # end
        BY <1>1, <1>4, <2>1, <2>4
      <4>5. \A k \in start..end - 1 : k \in 1..n /\ k # end
        BY <1>1, <2>1, <2>4
      <4>6. c.s \in Seq(Piece) /\ Len(c.s) = n /\ c.s[end] = Nul
            /\ \A k \in 1..n : k # end => c.s[k] = line[k]
        BY <1>1, <4>1, <4>2, <4>3
      <4>7. \A k \in start..end - 1 : c.s[k] = s[k]
        BY <2>4, <4>5, <4>6
      <4>8. \A k \in end + 1..n : c.s[k] = s[k]
        <5>1. \A k \in end + 1..n : k \in 1..n
          BY <1>1, <4>1
        <5> QED BY <1>1, <4>4, <4>6, <5>1
      <4> QED BY <3>1, <4>2, <4>6, <4>7, <4>8
    <3>2. CASE ~(end <= n)
      <4>1. At(line, end) = Nul
        BY <1>1, <2>1, <2>4, <3>2 DEF At
      <4>2. c.s = line /\ c.rest = end
        BY <1>2, <4>1
      <4> QED BY <1>1, <2>1, <2>4, <3>2, <4>2
    <3> QED BY <3>1, <3>2
  <2>6. Rest(s, c.s, c.rest, d)
    <3>1. CASE end <= n
      BY <1>1, <2>1, <2>4, <2>5, <3>1 DEF Rest, n
    <3>2. CASE ~(end <= n)
      BY <1>1, <2>1, <2>4, <2>5, <3>2 DEF Rest, n
    <3> QED BY <3>1, <3>2
  <2>7. CString(c.s, start) = Field(s, d, start)
    <3>1. Seek(c.s, start, {Nul}) = end
      <4>1. \A m \in start..end - 1 : c.s[m] \notin {Nul}
        BY <2>4, <2>5
      <4>2. start \in 1..Len(c.s) /\ end \in start..Len(c.s) + 1 /\ Len(c.s) \in Nat
        BY <1>1, <2>1, <2>4, <2>5
      <4>3. end <= Len(c.s) => c.s[end] \in {Nul}
        BY <2>5
      <4> QED BY <4>1, <4>2, <4>3, SeekIs
    <3>2. Seek(s, start, {d}) = end
      <4>1. start \in 1..Len(s) /\ end \in start..Len(s) + 1 /\ Len(s) \in Nat
        BY <1>1, <2>1, <2>4 DEF n
      <4>2. end <= Len(s) => s[end] \in {d}
        BY <2>4 DEF n
      <4>3. \A m \in start..end - 1 : s[m] \notin {d}
        BY <2>4
      <4> QED BY <4>1, <4>2, <4>3, SeekIs
    <3> DEFINE u == SubSeq(c.s, start, end - 1)
               v == SubSeq(s, start, end - 1)
               l == end - start
    <3>3. l \in Nat /\ end - 1 \in Nat /\ start \in Nat /\ start <= end - 1 /\ end - 1 - start + 1 = l
      BY <1>1, <2>1, <2>4
    <3>4. \A i \in start..end - 1 : c.s[i] \in Piece /\ s[i] \in Piece
      <4>1. \A i \in start..end - 1 : i \in 1..n
        BY <1>1, <2>1, <2>4
      <4>2. \A i \in 1..n : c.s[i] \in Piece
        BY <2>5
      <4> QED BY <2>5, <4>1, <4>2
    <3>5. u \in Seq(Piece) /\ Len(u) = l /\ \A i \in 1..l : u[i] = c.s[start + i - 1]
      <4>1. /\ u \in Seq(Piece)
            /\ Len(u) = IF start <= end - 1 THEN end - 1 - start + 1 ELSE 0
            /\ \A i \in 1..end - 1 - start + 1 : u[i] = c.s[start + i - 1]
        BY <3>3, <3>4, SubSeqProperties
      <4> HIDE DEF u, l
      <4> QED BY <3>3, <4>1
    <3>6. v \in Seq(Piece) /\ Len(v) = l /\ \A i \in 1..l : v[i] = s[start + i - 1]
      <4>1. /\ v \in Seq(Piece)
            /\ Len(v) = IF start <= end - 1 THEN end - 1 - start + 1 ELSE 0
            /\ \A i \in 1..end - 1 - start + 1 : v[i] = s[start + i - 1]
        BY <3>3, <3>4, SubSeqProperties
      <4> HIDE DEF v, l
      <4> QED BY <3>3, <4>1
    <3> HIDE DEF u, v
    <3>7. \A i \in 1..l : start + i - 1 \in start..end - 1
      BY <1>1, <2>1, <2>4
    <3>8. \A i \in 1..l : u[i] = v[i]
      BY <2>5, <3>5, <3>6, <3>7
    <3>9. u = v
      BY <3>5, <3>6, <3>8, SeqEqual
    <3> QED BY <3>1, <3>2, <3>9 DEF CString, Field, u, v
  <2>8. front(c.rest) = front(start) \cup {start} /\ start \notin front(start)
    <3>1. start < c.rest /\ c.rest \in Nat /\ start \in Nat /\ c.rest <= end + 1 /\ c.rest <= n + 1
      BY <1>1, <2>1, <2>4, <2>5
    <3>2. ASSUME NEW m \in starts, m < c.rest PROVE m <= start
      <4>1. m \in 1..n /\ (m > 1 => s[m - 1] = d)
        BY <1>3
      <4>2. CASE m > start
        <5>1. m - 1 \in start..end - 1 /\ m > 1
          BY <1>1, <2>1, <2>4, <3>1, <3>2, <4>1, <4>2
        <5> QED BY <2>4, <4>1, <5>1
      <4> QED BY <3>1, <4>1, <4>2
    <3>3. \A m \in starts : m \in Nat
      BY <1>1, <1>3
    <3>4. ASSUME NEW m \in starts, m < start PROVE m < c.rest
      BY <3>1, <3>3, <3>4
    <3>5. ASSUME NEW m \in starts, m < c.rest, m # start PROVE m < start
      BY <3>1, <3>2, <3>3, <3>5
    <3>6. ~(start < start)
      BY <3>1
    <3> QED BY <2>2, <3>1, <3>4, <3>5, <3>6
  <2>9. Count(s, d, c.rest) = Count(s, d, r) + 1
    <3>1. c.rest \in Nat /\ start \in Nat
      BY <1>1, <2>1, <2>4, <2>5
    <3>2. Cardinality(front(start) \cup {start}) = Cardinality(front(start)) + 1
      <4>1. IsFiniteSet(front(start))
        BY <1>6, <3>1
      <4> HIDE DEF front
      <4> QED BY <2>8, <4>1, FS_AddElement
    <3> HIDE DEF front
    <3> QED BY <1>1, <1>5, <2>3, <2>8, <3>1, <3>2
  <2>10. IsField(s, d, Count(s, d, r) + 1, CString(c.s, c.start))
    <3>1. Count(s, d, start) = Count(s, d, r) /\ Count(s, d, r) \in Nat
      <4> HIDE DEF front
      <4> QED BY <1>1, <1>5, <1>6, <2>1, <2>3
    <3> QED BY <1>2, <2>2, <2>7, <3>1 DEF IsField, starts
  <2> QED BY <2>6, <2>9, <2>10
<1> QED BY <1>7, <1>8 DEF c, starts

-----------------------------------------------------------------------------
(* Steps                                                                   *)

\* A C string is a string.
LEMMA CStringType ==
  ASSUME NEW s \in Seq(Piece), NEW k \in Nat \ {0}
  PROVE  CString(s, k) \in Seq(Piece)
<1> DEFINE e == Seek(s, k, {Nul})
<1>1. e \in Nat /\ e >= k /\ (k <= Len(s) => e <= Len(s) + 1) /\ (k > Len(s) => e = k)
  BY SeekProperties
<1> HIDE DEF e
<1>2. \A i \in k..e - 1 : s[i] \in Piece
  BY <1>1
<1>3. SubSeq(s, k, e - 1) \in Seq(Piece)
  <2>1. e - 1 \in Int /\ k \in Int
    BY <1>1
  <2> QED BY <1>1, <1>2, <2>1, SubSeqProperties
<1> QED BY <1>3 DEF CString, e

\* What a call of strtok does to the state.
LEMMA StrtokEffect ==
  ASSUME Types, NEW th \in Threads, NEW p \in Positions,
         NEW found \in Places, NEW none \in Places, Strtok(th, p, found, none)
  PROVE  LET c == Cut(buf[p.of][p.str], p.at, Delimiter(th)) IN
         /\ buf' \in [Threads -> [line : Seq(Piece), tmp_str : Seq(Piece)]]
         /\ \A u \in Threads : u # p.of => buf'[u] = buf[u]
         /\ p.str = "line" => buf'[p.of].line = c.s /\ buf'[p.of].tmp_str = buf[p.of].tmp_str
         /\ p.str = "tmp_str" => buf'[p.of].line = buf[p.of].line /\ buf'[p.of].tmp_str = c.s
         /\ olds' = [p EXCEPT !.at = c.rest] /\ olds' \in Positions
         /\ token' = [token EXCEPT ![th] = IF c.found THEN [p EXCEPT !.at = c.start]
                                                    ELSE Nowhere]
         /\ token' \in [Threads -> Positions]
         /\ pc' = [pc EXCEPT ![th] = IF c.found THEN found ELSE none]
         /\ crossed' = [u \in Threads |-> crossed[u] \/ (u # th /\ pc[u] # "idle")]
<1> DEFINE s == buf[p.of][p.str]
           c == Cut(s, p.at, Delimiter(th))
<1>1. /\ p.of \in Threads /\ p.str \in {"line", "tmp_str"} /\ p.at \in Nat \ {0}
      /\ p = [of |-> p.of, str |-> p.str, at |-> p.at]
  BY DEF Positions
<1>2. /\ buf[p.of] \in [line : Seq(Piece), tmp_str : Seq(Piece)] /\ s \in Seq(Piece)
      /\ buf \in [Threads -> [line : Seq(Piece), tmp_str : Seq(Piece)]]
  BY <1>1 DEF Types
<1>3. /\ buf' = [buf EXCEPT ![p.of][p.str] = c.s]
      /\ olds' = [p EXCEPT !.at = c.rest]
      /\ token' = [token EXCEPT ![th] = IF c.found THEN [p EXCEPT !.at = c.start]
                                                 ELSE Nowhere]
      /\ pc' = [pc EXCEPT ![th] = IF c.found THEN found ELSE none]
      /\ crossed' = [u \in Threads |-> crossed[u] \/ (u # th /\ pc[u] # "idle")]
  BY DEF Strtok
<1> HIDE DEF s
<1>4. c.s \in Seq(Piece) /\ c.rest \in Nat \ {0} /\ c.start \in Nat \ {0}
  BY <1>1, <1>2, CutProperties
<1> HIDE DEF c
<1>5. olds' \in Positions /\ [p EXCEPT !.at = c.start] \in Positions /\ Nowhere \in Positions
  <2>1. Nowhere \in Positions
    BY Inputs DEF Positions, Nowhere
  <2> QED BY <1>1, <1>3, <1>4, <2>1 DEF Positions
<1>6. token' \in [Threads -> Positions]
  BY <1>3, <1>5 DEF Types
<1>7. CASE p.str = "line"
  <2> DEFINE r == buf[p.of]
             q == [r EXCEPT !["line"] = c.s]
  <2>1. buf' = [buf EXCEPT ![p.of] = q]
    BY <1>3, <1>7
  <2>2. q.line = c.s /\ q.tmp_str = r.tmp_str /\ q \in [line : Seq(Piece), tmp_str : Seq(Piece)]
    BY <1>2, <1>4
  <2> HIDE DEF q
  <2>3. /\ buf'[p.of] = q /\ \A u \in Threads : u # p.of => buf'[u] = buf[u]
        /\ buf' \in [Threads -> [line : Seq(Piece), tmp_str : Seq(Piece)]]
    BY <1>1, <1>2, <2>1, <2>2
  <2> QED BY <1>3, <1>5, <1>6, <1>7, <2>2, <2>3 DEF c, s
<1>8. CASE p.str = "tmp_str"
  <2> DEFINE r == buf[p.of]
             q == [r EXCEPT !["tmp_str"] = c.s]
  <2>1. buf' = [buf EXCEPT ![p.of] = q]
    BY <1>3, <1>8
  <2>2. q.tmp_str = c.s /\ q.line = r.line /\ q \in [line : Seq(Piece), tmp_str : Seq(Piece)]
    BY <1>2, <1>4
  <2> HIDE DEF q
  <2>3. /\ buf'[p.of] = q /\ \A u \in Threads : u # p.of => buf'[u] = buf[u]
        /\ buf' \in [Threads -> [line : Seq(Piece), tmp_str : Seq(Piece)]]
    BY <1>1, <1>2, <2>1, <2>2
  <2> QED BY <1>3, <1>5, <1>6, <1>8, <2>2, <2>3 DEF c, s
<1> QED BY <1>1, <1>7, <1>8

\* A call of strtok keeps the first words of all lines and copies.
LEMMA StrtokKeepsBegins ==
  ASSUME Types, NEW th \in Threads, NEW p \in Positions,
         NEW found \in Places, NEW none \in Places, Strtok(th, p, found, none),
         NEW u \in Threads
  PROVE  Keeps(buf[u].line, buf'[u].line) /\ Keeps(buf[u].tmp_str, buf'[u].tmp_str)
<1> DEFINE s == buf[p.of][p.str]
           c == Cut(s, p.at, Delimiter(th))
<1>1. \A t : Keeps(t, t)
  BY DEF Keeps
<1>2. Keeps(s, c.s)
  <2>1. /\ p.of \in Threads /\ p.str \in {"line", "tmp_str"} /\ p.at \in Nat \ {0}
        /\ Delimiter(th) \in {Space, Dot}
    BY Inputs DEF Positions
  <2>2. s \in Seq(Piece)
    BY <2>1 DEF Types
  <2> QED BY <2>1, <2>2, CutKeepsBegins
<1>3. CASE u # p.of
  <2>1. buf'[u] = buf[u]
    BY <1>3, StrtokEffect
  <2> QED BY <1>1, <2>1
<1>4. CASE u = p.of /\ p.str = "line"
  <2>1. buf'[u].line = c.s /\ buf'[u].tmp_str = buf[u].tmp_str /\ s = buf[u].line
    BY <1>4, StrtokEffect
  <2> HIDE DEF s, c
  <2> QED BY <1>1, <1>2, <2>1
<1>5. CASE u = p.of /\ p.str = "tmp_str"
  <2>1. buf'[u].line = buf[u].line /\ buf'[u].tmp_str = c.s /\ s = buf[u].tmp_str
    BY <1>5, StrtokEffect
  <2> HIDE DEF s, c
  <2> QED BY <1>1, <1>2, <2>1
<1> QED BY <1>3, <1>4, <1>5 DEF Positions

\* The other threads at a call of strtok.
LEMMA StrtokOthers ==
  ASSUME IInv, NEW th \in Threads, NEW p \in Positions,
         NEW found \in Places, NEW none \in Places, Strtok(th, p, found, none),
         UNCHANGED <<input, tokens>>, NEW u \in Threads, u # th
  PROVE  /\ u \in Workers => WordOwn(u)'
         /\ ~crossed'[u] => CutOwn(u)'
<1>1. Types /\ InputInv /\ WordInv
  BY DEF IInv
<1>2. /\ pc'[u] = pc[u] /\ token'[u] = token[u]
      /\ crossed'[u] = (crossed[u] \/ (u # th /\ pc[u] # "idle"))
  BY <1>1, StrtokEffect DEF Types
<1>3. ASSUME u \in Workers PROVE WordOwn(u)'
  <2>1. Keeps(buf[u].line, buf'[u].line) /\ Keeps(buf[u].tmp_str, buf'[u].tmp_str)
    BY <1>1, StrtokKeepsBegins
  <2>2. WordOwn(u)
    BY <1>1, <1>3 DEF WordInv
  <2>3. CASE pc[u] \in {"copy", "check", "match", "first"}
    <3>1. input[u] \in Lines /\ tokens[u] = <<>>
      BY <1>1, <1>3, <2>3 DEF InputInv
    <3>2. /\ Begins(buf'[u].line, input[u], {Space, Nul})
          /\ Whole(u)' => Whole(u)
      BY <2>1, <2>2, <2>3, <3>1 DEF WordOwn, Keeps, Whole
    <3>3. /\ pc[u] = "check" /\ Whole(u)' => Begins(buf'[u].tmp_str, input[u], {Space, Nul})
          /\ pc[u] = "match" /\ Whole(u)' => Begins(buf'[u].tmp_str, input[u], {Nul})
                                            /\ token[u] = Own(u, "tmp_str")
      BY <2>1, <2>2, <3>1, <3>2 DEF WordOwn, Keeps
    <3> QED BY <1>2, <2>3, <3>1, <3>2, <3>3 DEF WordOwn, Own
  <2>4. CASE pc[u] = "use" /\ tokens[u] = <<>>
    <3>1. input[u] \in Lines
      BY <1>1, <1>3, <2>4 DEF InputInv
    <3>2. Begins(buf'[u].line, input[u], {Nul}) /\ token[u] = Own(u, "line")
      BY <2>1, <2>2, <2>4, <3>1 DEF WordOwn, Keeps
    <3> QED BY <1>2, <2>4, <3>2 DEF WordOwn, Own
  <2>5. CASE pc[u] \notin {"copy", "check", "match", "first"} /\ ~(pc[u] = "use" /\ tokens[u] = <<>>)
    BY <1>2, <2>2, <2>5 DEF WordOwn
  <2> QED BY <2>3, <2>4, <2>5
<1>4. ASSUME ~crossed'[u] PROVE CutOwn(u)'
  <2>1. pc'[u] = "idle" /\ tokens'[u] = <<>>
    BY <1>1, <1>2, <1>4 DEF InputInv
  <2> QED BY <2>1 DEF CutOwn
<1> QED BY <1>3, <1>4

\* The other threads at any other step.
LEMMA Quiet ==
  ASSUME IInv, NEW u \in Threads, olds' = olds,
         buf'[u] = buf[u], pc'[u] = pc[u], input'[u] = input[u], token'[u] = token[u],
         tokens'[u] = tokens[u], from'[u] = from[u], crossed'[u] = crossed[u]
  PROVE  /\ u \in Workers => WordOwn(u)'
         /\ ~crossed'[u] => CutOwn(u)'
<1>1. u \in Workers => WordOwn(u)'
  BY DEF IInv, WordInv, WordOwn, Whole, Own
<1>2. ASSUME ~crossed'[u] PROVE CutOwn(u)'
  <2>1. CutOwn(u)
    BY <1>2 DEF IInv, CutInv
  <2>2. pc[u] = "use" => Token(u)' = Token(u)
    BY <2>1 DEF CutOwn, Token
  <2> QED BY <2>1, <2>2 DEF CutOwn, CutTo
<1> QED BY <1>1, <1>2

\* It is enough to look at the thread that takes the step.
LEMMA OneThread ==
  ASSUME NEW th \in Threads,
         \A u \in Threads : u # th => /\ u \in Workers => WordOwn(u)'
                                      /\ ~crossed'[u] => CutOwn(u)',
         th \in Workers => WordOwn(th)', ~crossed'[th] => CutOwn(th)',
         Types', InputInv'
  PROVE  IInv'
<1>1. WordInv'
  <2>1. Workers \subseteq Threads
    BY DEF Threads
  <2> QED BY <2>1 DEF WordInv
<1>2. CutInv'
  BY DEF CutInv
<1> QED BY <1>1, <1>2 DEF IInv

LEMMA BeginStep == ASSUME IInv, NEW th \in Threads, Begin(th) PROVE IInv'
<1>1. PICK l \in IF th = GetCmd THEN Addresses ELSE Lines :
        /\ input' = [input EXCEPT ![th] = l]
        /\ buf' = [buf EXCEPT ![th].line = l]
  BY DEF Begin
<1>2. /\ pc[th] = "idle" /\ pc' = [pc EXCEPT ![th] = IF th = GetCmd THEN "first" ELSE "copy"]
      /\ UNCHANGED <<olds, from, token, tokens, crossed>>
  BY DEF Begin
<1>3. Types /\ InputInv
  BY DEF IInv
<1>4. l \in Seq(STRING \ {Nul}) /\ l \in Seq(Piece)
  BY Inputs
<1>5. /\ buf' \in [Threads -> [line : Seq(Piece), tmp_str : Seq(Piece)]]
      /\ buf'[th].line = l /\ \A u \in Threads : u # th => buf'[u] = buf[u]
  <2> DEFINE q == [buf[th] EXCEPT !.line = l]
  <2>1. q \in [line : Seq(Piece), tmp_str : Seq(Piece)] /\ q.line = l
    BY <1>3, <1>4 DEF Types
  <2>2. buf' = [buf EXCEPT ![th] = q]
    BY <1>1
  <2> HIDE DEF q
  <2> QED BY <1>3, <2>1, <2>2 DEF Types
<1>6. \A u \in Threads : u # th => /\ u \in Workers => WordOwn(u)'
                                   /\ ~crossed'[u] => CutOwn(u)'
  BY <1>1, <1>2, <1>3, <1>5, Quiet DEF Types
<1>7. Types'
  BY <1>1, <1>2, <1>3, <1>4, <1>5 DEF Types, Places
<1>8. InputInv'
  BY <1>1, <1>2, <1>3, Inputs DEF InputInv, Types
<1>9. /\ input'[th] = l /\ tokens'[th] = <<>>
      /\ th # GetCmd => pc'[th] = "copy" /\ l \in Lines
      /\ th = GetCmd => pc'[th] = "first"
  BY <1>1, <1>2, <1>3 DEF Types, InputInv
<1>10. ASSUME th \in Workers PROVE WordOwn(th)'
  <2>1. Begins(buf'[th].line, input'[th], {Space, Nul}) /\ pc'[th] = "copy"
    BY <1>5, <1>9, <1>10, Inputs
  <2> QED BY <1>9, <2>1 DEF WordOwn
<1>11. CutOwn(th)'
  BY <1>5, <1>9 DEF CutOwn
<1> QED BY <1>6, <1>7, <1>8, <1>10, <1>11, OneThread

LEMMA CopyStep == ASSUME IInv, NEW th \in Threads, Copy(th) PROVE IInv'
<1>1. PICK rest \in {<<>>, <<Junk>>} :
        buf' = [buf EXCEPT ![th].tmp_str = CString(buf[th].line, 1) \o rest]
  BY DEF Copy
<1>2. /\ pc[th] = "copy" /\ pc' = [pc EXCEPT ![th] = "check"]
      /\ UNCHANGED <<olds, input, from, token, tokens, crossed>>
  BY DEF Copy
<1>3. Types /\ InputInv /\ WordInv /\ CutInv
  BY DEF IInv
<1>4. th \in Workers /\ input[th] \in Lines /\ tokens[th] = <<>> /\ buf[th].line \in Seq(Piece)
  BY <1>2, <1>3, Inputs DEF InputInv, Types
<1> DEFINE copy == CString(buf[th].line, 1) \o rest
<1>5. rest \in Seq(Piece) /\ copy \in Seq(Piece)
  <2>1. <<>> \in Seq(Piece) /\ <<Junk>> \in Seq(Piece)
    BY DEF Piece
  <2>2. CString(buf[th].line, 1) \in Seq(Piece)
    BY <1>4, CStringType
  <2> QED BY <2>1, <2>2, ConcatProperties
<1>6. /\ buf' \in [Threads -> [line : Seq(Piece), tmp_str : Seq(Piece)]]
      /\ buf'[th].line = buf[th].line /\ buf'[th].tmp_str = copy
      /\ \A u \in Threads : u # th => buf'[u] = buf[u]
  <2> DEFINE q == [buf[th] EXCEPT !.tmp_str = copy]
  <2>1. buf' = [buf EXCEPT ![th] = q]
    BY <1>1
  <2> HIDE DEF copy
  <2>2. q \in [line : Seq(Piece), tmp_str : Seq(Piece)] /\ q.line = buf[th].line /\ q.tmp_str = copy
    BY <1>3, <1>5 DEF Types
  <2> HIDE DEF q
  <2> QED BY <1>3, <2>1, <2>2 DEF Types
<1>7. \A u \in Threads : u # th => /\ u \in Workers => WordOwn(u)'
                                   /\ ~crossed'[u] => CutOwn(u)'
  BY <1>2, <1>3, <1>6, Quiet DEF Types
<1>8. Types'
  BY <1>2, <1>3, <1>6 DEF Types, Places
<1>9. InputInv'
  BY <1>2, <1>3, <1>4, Inputs DEF InputInv, Types
<1>10. pc'[th] = "check" /\ tokens'[th] = <<>> /\ input'[th] = input[th]
  BY <1>2, <1>3, <1>4 DEF Types
<1>11. WordOwn(th)'
  <2>1. WordOwn(th)
    BY <1>3, <1>4 DEF WordInv
  <2>2. Begins(buf[th].line, input[th], {Space, Nul})
    BY <1>2, <2>1 DEF WordOwn
  <2>3. Whole(th)' => Whole(th)
    BY <1>6, <1>10 DEF Whole
  <2>4. Whole(th) => Begins(copy, input[th], {Space, Nul})
    BY <1>4, <1>5, <2>2, CopyBegins DEF Whole
  <2> HIDE DEF copy
  <2> QED BY <1>6, <1>10, <2>2, <2>3, <2>4 DEF WordOwn
<1>12. ASSUME ~crossed'[th] PROVE CutOwn(th)'
  <2>1. buf[th].line = input[th]
    BY <1>2, <1>3, <1>12 DEF CutInv, CutOwn
  <2> QED BY <1>6, <1>10, <2>1 DEF CutOwn
<1> QED BY <1>7, <1>8, <1>9, <1>11, <1>12, OneThread

LEMMA CheckStep == ASSUME IInv, NEW th \in Threads, Check(th) PROVE IInv'
<1> DEFINE p == Own(th, "tmp_str")
           s == buf[th].tmp_str
           c == Cut(buf[p.of][p.str], p.at, Delimiter(th))
<1>1. Types /\ InputInv /\ WordInv /\ CutInv
  BY DEF IInv
<1>2. pc[th] = "check" /\ Strtok(th, p, "match", "done") /\ UNCHANGED <<input, from, tokens, runs>>
  BY DEF Check
<1>3. th \in Workers /\ input[th] \in Lines /\ tokens[th] = <<>>
  BY <1>1, <1>2, Inputs DEF InputInv
<1>4. p \in Positions /\ p.of = th /\ p.str = "tmp_str" /\ p.at = 1 /\ "match" \in Places
      /\ "done" \in Places
  BY DEF Own, Positions, Places
<1>5. \A u \in Threads : u # th => /\ u \in Workers => WordOwn(u)'
                                   /\ ~crossed'[u] => CutOwn(u)'
  BY <1>2, <1>4, StrtokOthers
<1>6. /\ buf' \in [Threads -> [line : Seq(Piece), tmp_str : Seq(Piece)]]
      /\ buf'[th].line = buf[th].line /\ buf'[th].tmp_str = c.s
      /\ olds' \in Positions
      /\ token' = [token EXCEPT ![th] = IF c.found THEN [p EXCEPT !.at = c.start] ELSE Nowhere]
      /\ token' \in [Threads -> Positions]
      /\ pc' = [pc EXCEPT ![th] = IF c.found THEN "match" ELSE "done"]
      /\ crossed' = [u \in Threads |-> crossed[u] \/ (u # th /\ pc[u] # "idle")]
  BY <1>1, <1>2, <1>4, StrtokEffect
<1>7. WordOwn(th)
  BY <1>1, <1>3 DEF WordInv
<1>8. Whole(th) => c.found /\ c.start = 1 /\ Begins(c.s, input[th], {Nul})
  <2>1. s \in Seq(Piece) /\ (Whole(th) => Begins(s, input[th], {Space, Nul}))
    BY <1>1, <1>2, <1>7 DEF Types, WordOwn
  <2>2. Delimiter(th) = Space
    BY <1>3, Inputs DEF Delimiter
  <2>3. c = Cut(s, 1, Space)
    BY <1>4, <2>2
  <2> HIDE DEF s, c
  <2> QED BY <1>3, <2>1, <2>3, CutsFirstWord
<1> HIDE DEF c
<1>9. /\ pc'[th] \in {"match", "done"} /\ \A u \in Threads : u # th => pc'[u] = pc[u]
      /\ c.found /\ c.start = 1 => token'[th] = Own(th, "tmp_str")
      /\ tokens'[th] = <<>> /\ input'[th] = input[th]
  BY <1>1, <1>2, <1>3, <1>6 DEF Types, Own
<1>10. Types'
  BY <1>1, <1>2, <1>6 DEF Types, Places
<1>11. InputInv'
  BY <1>1, <1>2, <1>3, <1>9, Inputs DEF InputInv
<1>12. WordOwn(th)'
  <2>1. Begins(buf'[th].line, input'[th], {Space, Nul})
    BY <1>2, <1>6, <1>7, <1>9 DEF WordOwn
  <2>2. Whole(th)' => Whole(th)
    BY <1>6, <1>9 DEF Whole
  <2>3. Whole(th)' => /\ Begins(buf'[th].tmp_str, input'[th], {Nul})
                      /\ token'[th] = Own(th, "tmp_str")
    BY <1>6, <1>8, <1>9, <2>2
  <2> QED BY <1>9, <2>1, <2>3 DEF WordOwn, Own
<1>13. ASSUME ~crossed'[th] PROVE CutOwn(th)'
  <2>1. CutOwn(th)
    BY <1>1, <1>6, <1>13 DEF CutInv
  <2> QED BY <1>2, <1>6, <1>9, <2>1 DEF CutOwn
<1> QED BY <1>5, <1>10, <1>11, <1>12, <1>13, OneThread

LEMMA MatchStep == ASSUME IInv, NEW th \in Threads, Match(th) PROVE IInv'
<1>1. Types /\ InputInv /\ WordInv /\ CutInv
  BY DEF IInv
<1>2. /\ pc[th] = "match" /\ pc'[th] \in {"first", "done"}
      /\ pc' = [pc EXCEPT ![th] = pc'[th]]
      /\ buf' = buf \/ buf' = [buf EXCEPT ![th].tmp_str = <<Junk>>]
      /\ token' = [token EXCEPT ![th] = Nowhere]
      /\ UNCHANGED <<olds, input, from, tokens, crossed>>
  BY <1>1 DEF Match, Types
<1>3. th \in Workers /\ input[th] \in Lines /\ tokens[th] = <<>>
  BY <1>1, <1>2, Inputs DEF InputInv
<1>4. /\ buf' \in [Threads -> [line : Seq(Piece), tmp_str : Seq(Piece)]]
      /\ buf'[th].line = buf[th].line
      /\ \A u \in Threads : u # th => buf'[u] = buf[u]
  <2> DEFINE q == [buf[th] EXCEPT !.tmp_str = <<Junk>>]
  <2>1. <<Junk>> \in Seq(Piece)
    BY DEF Piece
  <2>2. q \in [line : Seq(Piece), tmp_str : Seq(Piece)] /\ q.line = buf[th].line
    BY <1>1, <2>1 DEF Types
  <2>3. buf' = buf \/ buf' = [buf EXCEPT ![th] = q]
    BY <1>2
  <2> HIDE DEF q
  <2> QED BY <1>1, <2>2, <2>3 DEF Types
<1>5. \A u \in Threads : u # th => /\ u \in Workers => WordOwn(u)'
                                   /\ ~crossed'[u] => CutOwn(u)'
  BY <1>1, <1>2, <1>4, Quiet DEF Types
<1>6. Types'
  <2>1. Nowhere \in Positions
    BY Inputs DEF Nowhere, Positions
  <2> QED BY <1>1, <1>2, <1>4, <2>1 DEF Types, Places
<1>7. InputInv'
  BY <1>1, <1>2, <1>3, Inputs DEF InputInv, Types
<1>8. WordOwn(th)'
  <2>1. Begins(buf[th].line, input[th], {Space, Nul})
    BY <1>1, <1>2, <1>3 DEF WordInv, WordOwn
  <2> QED BY <1>2, <1>3, <1>4, <2>1 DEF WordOwn
<1>9. ASSUME ~crossed'[th] PROVE CutOwn(th)'
  <2>1. CutOwn(th)
    BY <1>1, <1>2, <1>9 DEF CutInv
  <2> QED BY <1>2, <1>3, <1>4, <2>1 DEF CutOwn
<1> QED BY <1>5, <1>6, <1>7, <1>8, <1>9, OneThread

LEMMA CutFirstStep == ASSUME IInv, NEW th \in Threads, CutFirst(th) PROVE IInv'
<1> DEFINE p == Own(th, "line")
           s == buf[th].line
           d == Delimiter(th)
           c == Cut(buf[p.of][p.str], p.at, Delimiter(th))
<1>1. Types /\ InputInv /\ WordInv /\ CutInv
  BY DEF IInv
<1>2. pc[th] = "first" /\ Strtok(th, p, "use", "push") /\ UNCHANGED <<input, from, tokens, runs>>
  BY DEF CutFirst
<1>3. tokens[th] = <<>> /\ (th \in Workers => input[th] \in Lines) /\ s \in Seq(Piece)
      /\ input[th] \in Seq(STRING \ {Nul})
  BY <1>1, <1>2 DEF InputInv, Types
<1>4. /\ p \in Positions /\ p.of = th /\ p.str = "line" /\ p.at = 1
      /\ "use" \in Places /\ "push" \in Places
  BY DEF Own, Positions, Places
<1>5. \A u \in Threads : u # th => /\ u \in Workers => WordOwn(u)'
                                   /\ ~crossed'[u] => CutOwn(u)'
  BY <1>2, <1>4, StrtokOthers
<1>6. /\ buf' \in [Threads -> [line : Seq(Piece), tmp_str : Seq(Piece)]]
      /\ buf'[th].line = c.s
      /\ olds' = [p EXCEPT !.at = c.rest] /\ olds' \in Positions
      /\ token' = [token EXCEPT ![th] = IF c.found THEN [p EXCEPT !.at = c.start] ELSE Nowhere]
      /\ token' \in [Threads -> Positions]
      /\ pc' = [pc EXCEPT ![th] = IF c.found THEN "use" ELSE "push"]
      /\ crossed' = [u \in Threads |-> crossed[u] \/ (u # th /\ pc[u] # "idle")]
  BY <1>1, <1>2, <1>4, StrtokEffect
<1>7. c = Cut(s, 1, d)
  BY <1>4
<1>8. ASSUME th \in Workers
      PROVE  c.found /\ c.start = 1 /\ Begins(c.s, input[th], {Nul})
  <2>1. Begins(s, input[th], {Space, Nul})
    BY <1>1, <1>2, <1>8 DEF WordInv, WordOwn
  <2>2. d = Space
    BY <1>8, Inputs DEF Delimiter
  <2> HIDE DEF s, c, d
  <2> QED BY <1>3, <1>7, <1>8, <2>1, <2>2, CutsFirstWord
<1> HIDE DEF c
<1>9. /\ pc'[th] = IF c.found THEN "use" ELSE "push"
      /\ c.found => token'[th].of = th /\ token'[th].str = "line" /\ token'[th].at = c.start
      /\ c.found /\ c.start = 1 => token'[th] = Own(th, "line")
      /\ olds'.of = th /\ olds'.str = "line" /\ olds'.at = c.rest
      /\ tokens'[th] = <<>> /\ input'[th] = input[th]
  BY <1>1, <1>2, <1>3, <1>4, <1>6 DEF Types, Own
<1>10. Types'
  BY <1>1, <1>2, <1>6 DEF Types, Places
<1>11. InputInv'
  <2>1. pc'[th] \in {"use", "push"} /\ \A u \in Threads : u # th => pc'[u] = pc[u]
    BY <1>1, <1>6, <1>9 DEF Types
  <2> QED BY <1>1, <1>2, <2>1, Inputs DEF InputInv
<1>12. ASSUME th \in Workers PROVE WordOwn(th)'
  BY <1>6, <1>8, <1>9, <1>12 DEF WordOwn, Own
<1>13. ASSUME ~crossed'[th] PROVE CutOwn(th)'
  <2>1. s = input[th]
    BY <1>1, <1>2, <1>6, <1>13 DEF CutInv, CutOwn
  <2>2. Rest(input[th], s, 1, d)
    BY <1>3, <2>1 DEF Rest
  <2>3. Count(input[th], d, 1) = 0
    <3>1. {m \in Starts(input[th], d) : m < 1} = {}
      BY <1>3 DEF Starts
    <3> QED BY <3>1, FS_EmptySet DEF Count
  <2>4. /\ c.found => /\ IsField(input[th], d, 0 + 1, CString(c.s, c.start))
                      /\ Rest(input[th], c.s, c.rest, d)
                      /\ Count(input[th], d, c.rest) = 0 + 1
        /\ ~c.found => 0 = Cardinality(Starts(input[th], d))
    <3>1. d # Nul /\ 1 \in Nat \ {0}
      BY Inputs
    <3> DEFINE l == input[th]
               b == Cut(s, 1, d)
    <3> HIDE DEF s, d, l
    <3>2. /\ b.found => /\ IsField(l, d, Count(l, d, 1) + 1, CString(b.s, b.start))
                        /\ Rest(l, b.s, b.rest, d)
                        /\ Count(l, d, b.rest) = Count(l, d, 1) + 1
          /\ ~b.found => Count(l, d, 1) = Cardinality(Starts(l, d))
      <4>1. s \in Seq(Piece) /\ l \in Seq(STRING \ {Nul}) /\ Rest(l, s, 1, d)
        BY <1>3, <2>2 DEF l
      <4> QED BY <3>1, <4>1, CutsField
    <3>3. b = c
      BY <1>7
    <3> HIDE DEF b
    <3> QED BY <2>3, <3>2, <3>3 DEF l
  <2>5. Len(tokens'[th]) = 0
    BY <1>9
  <2>6. CASE c.found
    <3>1. Token(th)' = CString(c.s, c.start)
      BY <1>6, <1>9, <2>6 DEF Token
    <3> QED BY <1>6, <1>9, <2>4, <2>5, <2>6, <3>1 DEF CutOwn, CutTo
  <2>7. CASE ~c.found
    BY <1>9, <2>4, <2>5, <2>7 DEF CutOwn
  <2> QED BY <2>6, <2>7
<1> QED BY <1>5, <1>10, <1>11, <1>12, <1>13, OneThread

LEMMA UseStep == ASSUME IInv, NEW th \in Threads, Use(th) PROVE IInv'
<1> DEFINE t == Token(th)
           n == Len(tokens[th])
<1>1. Types /\ InputInv /\ WordInv /\ CutInv
  BY DEF IInv
<1>2. /\ pc[th] = "use" /\ pc' = [pc EXCEPT ![th] = "again"]
      /\ tokens' = [tokens EXCEPT ![th] = Append(tokens[th], t)]
      /\ token' = [token EXCEPT ![th] = Nowhere]
      /\ UNCHANGED <<olds, buf, input, from, crossed>>
  BY DEF Use
<1>3. t \in Seq(Piece)
  <2>1. token[th] \in Positions
    BY <1>1 DEF Types
  <2>2. buf[token[th].of][token[th].str] \in Seq(Piece) /\ token[th].at \in Nat \ {0}
    BY <1>1, <2>1 DEF Types, Positions
  <2> QED BY <2>2, CStringType DEF Token
<1> HIDE DEF t
<1>4. /\ tokens[th] \in Seq(Seq(Piece)) /\ n \in Nat
      /\ tokens'[th] \in Seq(Seq(Piece)) /\ Len(tokens'[th]) = n + 1
      /\ tokens'[th][n + 1] = t
      /\ \A i \in 1..n : tokens'[th][i] = tokens[th][i]
  <2>1. tokens[th] \in Seq(Seq(Piece)) /\ tokens'[th] = Append(tokens[th], t)
    BY <1>1, <1>2 DEF Types
  <2> QED BY <1>3, <2>1, AppendProperties
<1>5. \A u \in Threads : u # th => /\ u \in Workers => WordOwn(u)'
                                   /\ ~crossed'[u] => CutOwn(u)'
  BY <1>1, <1>2, Quiet DEF Types
<1>6. Types'
  <2>1. Nowhere \in Positions
    BY Inputs DEF Nowhere, Positions
  <2>2. tokens' \in [Threads -> Seq(Seq(Piece))]
    BY <1>1, <1>2, <1>4 DEF Types
  <2> QED BY <1>1, <1>2, <2>1, <2>2 DEF Types, Places
<1>7. InputInv'
  BY <1>1, <1>2, Inputs DEF InputInv, Types
<1>8. pc'[th] = "again" /\ input'[th] = input[th]
  BY <1>1, <1>2 DEF Types
<1>9. ASSUME th \in Workers PROVE WordOwn(th)'
  <2>1. WordOwn(th)
    BY <1>1, <1>9 DEF WordInv
  <2>2. CASE tokens[th] = <<>>
    <3>1. Begins(buf[th].line, input[th], {Nul}) /\ token[th] = Own(th, "line")
      BY <1>2, <2>1, <2>2 DEF WordOwn
    <3>2. input[th] \in Lines /\ buf[th].line \in Seq(Piece)
      BY <1>1, <1>2, <1>9, Inputs DEF InputInv, Types
    <3>3. t = FirstWord(input[th])
      <4>1. t = CString(buf[th].line, 1)
        BY <3>1 DEF t, Token, Own
      <4> QED BY <3>1, <3>2, <4>1, WordAlone
    <3>4. n = 0
      BY <2>2
    <3>5. tokens'[th][1] = FirstWord(input[th])
      BY <1>4, <3>3, <3>4
    <3> QED BY <1>4, <1>8, <3>4, <3>5 DEF WordOwn
  <2>3. CASE tokens[th] # <<>>
    <3>1. n >= 1 /\ tokens[th][1] = FirstWord(input[th])
      BY <2>1, <2>3 DEF WordOwn
    <3>2. tokens'[th][1] = FirstWord(input[th])
      BY <1>4, <3>1
    <3> QED BY <1>4, <1>8, <3>1, <3>2 DEF WordOwn
  <2> QED BY <2>2, <2>3
<1>10. ASSUME ~crossed'[th] PROVE CutOwn(th)'
  <2>1. CutOwn(th)
    BY <1>1, <1>2, <1>10 DEF CutInv
  <2>2. CutTo(th, olds, n + 1) /\ IsField(input[th], Delimiter(th), n + 1, t)
        /\ \A i \in 1..n : IsField(input[th], Delimiter(th), i, tokens[th][i])
    BY <1>2, <2>1 DEF CutOwn, t
  <2>3. CutTo(th, olds, Len(tokens[th]))'
    <3>1. Len(tokens'[th]) = n + 1
      BY <1>4
    <3>2. /\ olds'.of = th /\ olds'.str = "line"
          /\ Rest(input'[th], buf'[th].line, olds'.at, Delimiter(th))
          /\ Count(input'[th], Delimiter(th), olds'.at) = n + 1
      BY <1>2, <2>2 DEF CutTo
    <3> QED BY <3>1, <3>2 DEF CutTo
  <2>4. Len(tokens'[th]) = n + 1
    BY <1>4
  <2>5. \A i \in 1..n + 1 : IsField(input'[th], Delimiter(th), i, tokens'[th][i])
    <3>1. ASSUME NEW i \in 1..n + 1
          PROVE  IsField(input'[th], Delimiter(th), i, tokens'[th][i])
      <4>1. CASE i \in 1..n
        BY <1>4, <1>8, <2>2, <4>1
      <4>2. CASE i = n + 1
        BY <1>4, <1>8, <2>2, <4>2
      <4> QED BY <1>4, <4>1, <4>2
    <3> QED BY <3>1
  <2> QED BY <1>8, <2>3, <2>4, <2>5 DEF CutOwn
<1> QED BY <1>5, <1>6, <1>7, <1>9, <1>10, OneThread

LEMMA AgainStep == ASSUME IInv, NEW th \in Threads, Again(th) PROVE IInv'
<1>1. Types /\ InputInv /\ WordInv /\ CutInv
  BY DEF IInv
<1>2. /\ pc[th] = "again" /\ pc' = [pc EXCEPT ![th] = "cut"]
      /\ from' = [from EXCEPT ![th] = olds]
      /\ UNCHANGED <<olds, buf, input, token, tokens, crossed>>
  BY DEF Again
<1>3. \A u \in Threads : u # th => /\ u \in Workers => WordOwn(u)'
                                   /\ ~crossed'[u] => CutOwn(u)'
  BY <1>1, <1>2, Quiet DEF Types
<1>4. Types'
  BY <1>1, <1>2 DEF Types, Places
<1>5. InputInv'
  BY <1>1, <1>2, Inputs DEF InputInv, Types
<1>6. pc'[th] = "cut" /\ from'[th] = olds
  BY <1>1, <1>2 DEF Types
<1>7. ASSUME th \in Workers PROVE WordOwn(th)'
  BY <1>1, <1>2, <1>6, <1>7 DEF WordInv, WordOwn
<1>8. ASSUME ~crossed'[th] PROVE CutOwn(th)'
  <2>1. CutOwn(th)
    BY <1>1, <1>2, <1>8 DEF CutInv
  <2> QED BY <1>2, <1>6, <2>1 DEF CutOwn, CutTo
<1> QED BY <1>3, <1>4, <1>5, <1>7, <1>8, OneThread

LEMMA CutNextStep == ASSUME IInv, NEW th \in Threads, CutNext(th) PROVE IInv'
<1> DEFINE p == from[th]
           s == buf[p.of][p.str]
           d == Delimiter(th)
           n == Len(tokens[th])
           c == Cut(s, p.at, d)
<1>1. Types /\ InputInv /\ WordInv /\ CutInv
  BY DEF IInv
<1>2. /\ pc[th] = "cut" /\ Strtok(th, p, "use", "push")
      /\ from' = [from EXCEPT ![th] = Nowhere] /\ UNCHANGED <<input, tokens, runs>>
  BY DEF CutNext
<1>3. /\ p \in Positions /\ "use" \in Places /\ "push" \in Places
      /\ p.of \in Threads /\ p.str \in {"line", "tmp_str"} /\ p.at \in Nat \ {0}
      /\ Nowhere \in Positions
  <2>1. Nowhere \in Positions
    BY Inputs DEF Nowhere, Positions
  <2> QED BY <1>1, <2>1 DEF Types, Positions, Places
<1>4. s \in Seq(Piece) /\ input[th] \in Seq(STRING \ {Nul}) /\ d # Nul
  BY <1>1, <1>3, Inputs DEF Types
<1>5. \A u \in Threads : u # th => /\ u \in Workers => WordOwn(u)'
                                   /\ ~crossed'[u] => CutOwn(u)'
  BY <1>2, <1>3, StrtokOthers
<1>6. /\ buf' \in [Threads -> [line : Seq(Piece), tmp_str : Seq(Piece)]]
      /\ p.str = "line" => buf'[p.of].line = c.s
      /\ olds' = [p EXCEPT !.at = c.rest] /\ olds' \in Positions
      /\ token' = [token EXCEPT ![th] = IF c.found THEN [p EXCEPT !.at = c.start] ELSE Nowhere]
      /\ token' \in [Threads -> Positions]
      /\ pc' = [pc EXCEPT ![th] = IF c.found THEN "use" ELSE "push"]
      /\ crossed' = [u \in Threads |-> crossed[u] \/ (u # th /\ pc[u] # "idle")]
  <2>1. /\ Types /\ p \in Positions /\ Strtok(th, p, "use", "push")
        /\ "use" \in Places /\ "push" \in Places
    BY <1>1, <1>2, <1>3
  <2> HIDE DEF p
  <2> QED BY <2>1, StrtokEffect
<1>8. c = Cut(s, p.at, d)
  OBVIOUS
<1> HIDE DEF c, s
<1>9. /\ pc'[th] = IF c.found THEN "use" ELSE "push"
      /\ c.found => token'[th].of = p.of /\ token'[th].str = p.str /\ token'[th].at = c.start
      /\ olds'.of = p.of /\ olds'.str = p.str /\ olds'.at = c.rest
      /\ tokens'[th] = tokens[th] /\ input'[th] = input[th]
      /\ pc'[th] \in {"use", "push"} /\ \A u \in Threads : u # th => pc'[u] = pc[u]
  BY <1>1, <1>2, <1>3, <1>6 DEF Types, Positions
<1>10. Types'
  BY <1>1, <1>2, <1>3, <1>6 DEF Types, Places
<1>11. InputInv'
  BY <1>1, <1>2, <1>9, Inputs DEF InputInv
<1>12. ASSUME th \in Workers PROVE WordOwn(th)'
  <2>1. n >= 1 /\ tokens[th][1] = FirstWord(input[th])
    BY <1>1, <1>2, <1>12 DEF WordInv, WordOwn
  <2>2. tokens[th] # <<>>
    BY <2>1
  <2> QED BY <1>9, <2>1, <2>2 DEF WordOwn
<1>13. ASSUME ~crossed'[th] PROVE CutOwn(th)'
  <2>1. CutOwn(th)
    BY <1>1, <1>6, <1>13 DEF CutInv
  <2>2. /\ p.of = th /\ p.str = "line" /\ s = buf[th].line
        /\ Rest(input[th], s, p.at, d) /\ Count(input[th], d, p.at) = n
        /\ \A i \in 1..n : IsField(input[th], d, i, tokens[th][i])
    BY <1>2, <2>1 DEF CutOwn, CutTo, s
  <2>3. /\ c.found => /\ IsField(input[th], d, n + 1, CString(c.s, c.start))
                      /\ Rest(input[th], c.s, c.rest, d)
                      /\ Count(input[th], d, c.rest) = n + 1
        /\ ~c.found => n = Cardinality(Starts(input[th], d))
    <3> DEFINE l == input[th]
               k == p.at
               b == Cut(s, k, d)
    <3> HIDE DEF d, n, l, k
    <3>1. /\ b.found => /\ IsField(l, d, Count(l, d, k) + 1, CString(b.s, b.start))
                        /\ Rest(l, b.s, b.rest, d)
                        /\ Count(l, d, b.rest) = Count(l, d, k) + 1
          /\ ~b.found => Count(l, d, k) = Cardinality(Starts(l, d))
      <4>1. s \in Seq(Piece) /\ l \in Seq(STRING \ {Nul}) /\ Rest(l, s, k, d) /\ d # Nul
            /\ k \in Nat \ {0}
        BY <1>3, <1>4, <2>2 DEF l, k
      <4> QED BY <4>1, CutsField
    <3>2. b = c /\ Count(l, d, k) = n
      BY <1>8, <2>2 DEF l, k
    <3> HIDE DEF b
    <3> QED BY <3>1, <3>2 DEF l
  <2>4. CASE c.found
    <3>1. Token(th)' = CString(c.s, c.start)
      BY <1>6, <1>9, <2>2, <2>4 DEF Token
    <3> QED BY <1>6, <1>9, <2>2, <2>3, <2>4, <3>1 DEF CutOwn, CutTo
  <2>5. CASE ~c.found
    BY <1>9, <2>2, <2>3, <2>5 DEF CutOwn
  <2> QED BY <2>4, <2>5
<1> QED BY <1>5, <1>10, <1>11, <1>12, <1>13, OneThread

LEMMA LeaveStep == ASSUME IInv, NEW th \in Threads, Leave(th) PROVE IInv'
<1>1. Types /\ InputInv
  BY DEF IInv
<1>2. /\ pc' = [pc EXCEPT ![th] = "idle"]
      /\ input' = [input EXCEPT ![th] = <<>>]
      /\ token' = [token EXCEPT ![th] = Nowhere]
      /\ tokens' = [tokens EXCEPT ![th] = <<>>]
      /\ crossed' = [crossed EXCEPT ![th] = FALSE]
      /\ UNCHANGED <<olds, buf, from>>
  BY DEF Leave
<1>3. \A u \in Threads : u # th => /\ u \in Workers => WordOwn(u)'
                                   /\ ~crossed'[u] => CutOwn(u)'
  BY <1>1, <1>2, Quiet DEF Types
<1>4. Types'
  <2>1. Nowhere \in Positions
    BY Inputs DEF Nowhere, Positions
  <2> QED BY <1>1, <1>2, <2>1 DEF Types, Places
<1>5. InputInv'
  BY <1>1, <1>2, Inputs DEF InputInv, Types
<1>6. pc'[th] = "idle" /\ tokens'[th] = <<>>
  BY <1>1, <1>2 DEF Types
<1>7. WordOwn(th)'
  BY <1>6 DEF WordOwn
<1>8. CutOwn(th)'
  BY <1>6 DEF CutOwn
<1> QED BY <1>3, <1>4, <1>5, <1>7, <1>8, OneThread

LEMMA Inductive == Spec => []IInv
<1>1. Init => IInv
  <2> SUFFICES ASSUME Init PROVE IInv
    OBVIOUS
  <2>1. Nowhere \in Positions
    BY Inputs DEF Nowhere, Positions
  <2> QED BY <2>1, Inputs DEF Init, IInv, Types, Places, InputInv, WordInv, WordOwn,
        CutInv, CutOwn
<1>2. IInv /\ [Next]_vars => IInv'
  <2> SUFFICES ASSUME IInv, [Next]_vars PROVE IInv'
    OBVIOUS
  <2>1. ASSUME NEW th \in Threads, Begin(th) \/ Step(th) PROVE IInv'
    BY <2>1, BeginStep, CopyStep, CheckStep, MatchStep, CutFirstStep, UseStep, AgainStep,
       CutNextStep, LeaveStep DEF Step
  <2>2. CASE UNCHANGED vars
    <3>1. \A u \in Threads : /\ u \in Workers => WordOwn(u)'
                             /\ ~crossed'[u] => CutOwn(u)'
      BY <2>2, Quiet DEF vars
    <3>2. Types' /\ InputInv'
      BY <2>2 DEF vars, IInv, Types, InputInv
    <3> QED BY <3>1, <3>2, OneThread, Inputs
  <2> QED BY <2>1, <2>2 DEF Next
<1> QED BY <1>1, <1>2, PTL DEF Spec

LEMMA FirstWordLength ==
  ASSUME NEW l \in Lines
  PROVE  Len(FirstWord(l)) + 1 = WordEnd(l)
<1> DEFINE e == WordEnd(l)
<1>1. e \in Nat /\ e >= 2 /\ l \in Seq(Piece) /\ \A i \in 1..e - 1 : l[i] \in Piece
  <2>1. e \in 2..Len(l) /\ Len(l) \in Nat /\ l \in Seq(Piece)
    BY Inputs
  <2> HIDE DEF e
  <2>2. \A i \in 1..e - 1 : i \in 1..Len(l)
    BY <2>1
  <2> QED BY <2>1, <2>2
<1> HIDE DEF e
<1>2. Len(SubSeq(l, 1, e - 1)) = IF 1 <= e - 1 THEN e - 1 - 1 + 1 ELSE 0
  BY <1>1, SubSeqProperties
<1> QED BY <1>1, <1>2 DEF FirstWord, WordEnd, e

\* Whatever the others cut meanwhile, the number of a request that is parsed is that
\* of its own first word, and so is its acceptance unless a Nul was put behind it.
THEOREM FirstWordIsOwn == Spec => []FirstWordOwn
<1>1. IInv => FirstWordOwn
  <2> DEFINE word(th) == FirstWord(input[th])
  <2> SUFFICES ASSUME IInv, NEW th \in Workers
               PROVE  /\ pc[th] = "use" /\ tokens[th] = <<>> => Token(th) = word(th)
                      /\ pc[th] = "push" =>
                           tokens[th] # <<>> /\ FrameId(th) = Number[input[th]] % 65536
                      /\ pc[th] = "match" /\ buf[th].line[Len(word(th)) + 1] = Space =>
                           Token(th) = word(th)
    BY DEF FirstWordOwn
  <2>1. Types /\ InputInv /\ WordOwn(th) /\ th \in Threads
    BY Inputs DEF IInv, WordInv
  <2>2. pc[th] # "idle" => input[th] \in Lines
    BY <2>1 DEF InputInv
  <2>3. buf[th].line \in Seq(Piece) /\ buf[th].tmp_str \in Seq(Piece)
    BY <2>1 DEF Types
  <2>4. ASSUME pc[th] = "match", buf[th].line[Len(word(th)) + 1] = Space
        PROVE  Token(th) = word(th)
    <3>1. Whole(th)
      BY <2>2, <2>4, FirstWordLength DEF Whole
    <3>2. Begins(buf[th].tmp_str, input[th], {Nul}) /\ token[th] = Own(th, "tmp_str")
      BY <2>1, <2>4, <3>1 DEF WordOwn
    <3>3. Token(th) = CString(buf[th].tmp_str, 1)
      BY <3>2 DEF Token, Own
    <3> QED BY <2>2, <2>3, <2>4, <3>2, <3>3, WordAlone
  <2>5. ASSUME pc[th] = "use", tokens[th] = <<>> PROVE Token(th) = word(th)
    <3>1. Begins(buf[th].line, input[th], {Nul}) /\ token[th] = Own(th, "line")
      BY <2>1, <2>5 DEF WordOwn
    <3>2. Token(th) = CString(buf[th].line, 1)
      BY <3>1 DEF Token, Own
    <3> QED BY <2>2, <2>3, <2>5, <3>1, <3>2, WordAlone
  <2>6. ASSUME pc[th] = "push"
        PROVE  tokens[th] # <<>> /\ FrameId(th) = Number[input[th]] % 65536
    <3>1. Len(tokens[th]) >= 1 /\ tokens[th][1] = word(th)
      BY <2>1, <2>6 DEF WordOwn
    <3>2. FrameId(th) = StringToInteger(word(th)) % 65536
      BY <3>1 DEF FrameId
    <3>3. StringToInteger(word(th)) = Number[input[th]]
      BY <2>2, <2>6, NumberAssumption
    <3>4. tokens[th] # <<>>
      BY <3>1
    <3> QED BY <3>2, <3>3, <3>4
  <2> QED BY <2>4, <2>5, <2>6
<1> QED BY <1>1, Inductive, PTL

\* What a thread has cut is what it was given, unless another called strtok between.
THEOREM TornWhenCrossed == Spec => []TornOnlyWhenCrossed
<1>1. IInv => TornOnlyWhenCrossed
  <2> SUFFICES ASSUME IInv, NEW th \in Threads, pc[th] = "push", ~crossed[th]
               PROVE  tokens[th] = Fields(input[th], Delimiter(th))
    BY DEF TornOnlyWhenCrossed
  <2>1. /\ tokens[th] \in Seq(Seq(Piece)) /\ Len(input[th]) \in Nat
        /\ DOMAIN input[th] = 1..Len(input[th])
    BY DEF IInv, Types
  <2>2. CutOwn(th)
    BY DEF IInv, CutInv
  <2> QED BY <2>1, <2>2, AllFields DEF CutOwn
<1> QED BY <1>1, Inductive, PTL

=============================================================================
