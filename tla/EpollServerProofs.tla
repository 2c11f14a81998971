------------------------- MODULE EpollServerProofs -------------------------
(***************************************************************************)
(* Proofs about EpollServer, for any connections and workers, any          *)
(* capacities and any number of requests.                                  *)
(*                                                                         *)
(* Four invariants, each on top of the one before: IInv (what the array,   *)
(* the jobs and the lists hold), ListenInv (each edge of the listening     *)
(* socket has a connection behind it), RingInv (what the slots of the      *)
(* command queue hold) and OnceInv (a request is in one place at a time),  *)
(* the last two until the ring goes wrong.                                 *)
(***************************************************************************)
EXTENDS EpollServer, FiniteSetTheorems, TLAPS

\* While the loop scans, there is something left to scan; a worker that parses
\* has a request, and one that pushes has a command with one.
ScanInv ==
  /\ loop = "scan" => pos < nfds
  /\ \A w \in Workers : wpc[w] = "parse" => line[w] \in Requests
  /\ \A w \in Workers : wpc[w] \in {"tail", "data"} => cmd[w].req \in Requests

\* A connection waits in the backlog, once, or has been accepted; only accepted
\* ones are watched, and the list of clients has room for them.
AcceptInv ==
  /\ \A i \in 1..Len(backlog) : peer[backlog[i]] # "new"
  /\ IsInjective(backlog)
  /\ watched \subseteq Accepted \cup {Listen}
  /\ tailindex <= Cardinality(Accepted)

\* The inductive invariant of type correctness.
IInv == TypeOK /\ ScanInv /\ AcceptInv

-----------------------------------------------------------------------------
(* Sequences                                                               *)

\* What the library's operators return, in the form the steps below need.
LEMMA ElementType ==
  ASSUME NEW S, NEW s \in Seq(S), NEW i \in 1..Len(s)
  PROVE  s[i] \in S
  OBVIOUS

LEMMA AppendType ==
  ASSUME NEW S, NEW s \in Seq(S), NEW e \in S
  PROVE  Append(s, e) \in Seq(S) /\ Len(Append(s, e)) = Len(s) + 1 /\ Len(s) \in Nat
  OBVIOUS

LEMMA HeadTailType ==
  ASSUME NEW S, NEW s \in Seq(S), s # <<>>
  PROVE  /\ Head(s) \in S /\ Head(s) = s[1] /\ Len(s) \in Nat \ {0}
         /\ Tail(s) \in Seq(S) /\ Len(Tail(s)) = Len(s) - 1
         /\ \A i \in 1..Len(s) - 1 : Tail(s)[i] = s[i + 1]
  OBVIOUS

LEMMA SuffixType ==
  ASSUME NEW S, NEW s \in Seq(S), NEW m \in Nat
  PROVE  /\ SubSeq(s, m + 1, Len(s)) \in Seq(S)
         /\ Len(SubSeq(s, m + 1, Len(s))) = IF m < Len(s) THEN Len(s) - m ELSE 0
         /\ \A i \in 1..Len(s) - m : SubSeq(s, m + 1, Len(s))[i] = s[m + i]
  OBVIOUS

-----------------------------------------------------------------------------
(* The list of pending edges                                               *)

\* An edge that is not pending is put behind the others.
LEMMA AppendFacts ==
  ASSUME NEW S, NEW s \in Seq(S), NEW e \in S, IsInjective(s), ~Contains(s, e)
  PROVE  /\ Append(s, e) \in Seq(S) /\ IsInjective(Append(s, e))
         /\ \A x : Contains(Append(s, e), x) <=> x = e \/ Contains(s, x)
<1>1. Append(s, e) \in Seq(S) /\ IsInjective(Append(s, e))
  BY DEF IsInjective, Contains
<1>2. /\ Len(Append(s, e)) = Len(s) + 1 /\ Len(s) \in Nat
      /\ \A k \in 1..Len(s) : Append(s, e)[k] = s[k]
      /\ Append(s, e)[Len(s) + 1] = e
  OBVIOUS
<1> QED BY <1>1, <1>2 DEF Contains

\* The parts of a concatenation.
LEMMA ConcatType ==
  ASSUME NEW S, NEW a \in Seq(S), NEW b \in Seq(S)
  PROVE  a \o b \in Seq(S) /\ Len(a \o b) = Len(a) + Len(b)
  OBVIOUS

LEMMA ConcatLeft ==
  ASSUME NEW S, NEW a \in Seq(S), NEW b \in Seq(S), NEW k \in 1..Len(a)
  PROVE  (a \o b)[k] = a[k]
  OBVIOUS

LEMMA ConcatRight ==
  ASSUME NEW S, NEW a \in Seq(S), NEW b \in Seq(S), NEW k \in 1..Len(b)
  PROVE  (a \o b)[k + Len(a)] = b[k]
  OBVIOUS

\* Taking element i out moves the later ones down.
LEMMA RemoveAtFacts ==
  ASSUME NEW S, NEW s \in Seq(S), NEW i \in 1..Len(s)
  PROVE  /\ RemoveAt(s, i) \in Seq(S) /\ Len(RemoveAt(s, i)) = Len(s) - 1
         /\ \A k \in 1..Len(s) - 1 : RemoveAt(s, i)[k] = IF k < i THEN s[k] ELSE s[k + 1]
<1> DEFINE a == SubSeq(s, 1, i - 1)
           b == SubSeq(s, i + 1, Len(s))
<1>1. Len(s) \in Nat /\ \A k \in 1..Len(s) : s[k] \in S
  OBVIOUS
<1>2. a \in Seq(S) /\ Len(a) = i - 1 /\ \A k \in 1..i - 1 : a[k] = s[k]
  OBVIOUS
<1>3. b \in Seq(S) /\ Len(b) = Len(s) - i /\ \A k \in 1..Len(s) - i : b[k] = s[k + i]
  OBVIOUS
<1> HIDE DEF a, b
<1>4. RemoveAt(s, i) = a \o b
  BY DEF RemoveAt, a, b
<1>5. a \o b \in Seq(S) /\ Len(a \o b) = Len(a) + Len(b)
  BY <1>2, <1>3, ConcatType
<1>6. ASSUME NEW k \in 1..Len(s) - 1 PROVE (a \o b)[k] = IF k < i THEN s[k] ELSE s[k + 1]
  <2>1. CASE k < i
    <3>1. k \in 1..Len(a) /\ a[k] = s[k]
      BY <1>1, <1>2, <2>1
    <3> QED BY <1>2, <1>3, <2>1, <3>1, ConcatLeft
  <2>2. CASE ~(k < i)
    <3> DEFINE m == k - (i - 1)
    <3>1. m \in 1..Len(b) /\ k = m + Len(a) /\ m + i = k + 1
      BY <1>1, <1>2, <1>3, <2>2
    <3> HIDE DEF m
    <3>2. (a \o b)[m + Len(a)] = b[m]
      BY <1>2, <1>3, <3>1, ConcatRight
    <3>3. b[m] = s[m + i]
      BY <1>3, <3>1
    <3> QED BY <2>2, <3>1, <3>2, <3>3
  <2> QED BY <1>1, <2>1, <2>2
<1>7. Len(a \o b) = Len(s) - 1
  BY <1>1, <1>2, <1>3, <1>5
<1> QED BY <1>4, <1>5, <1>6, <1>7

\* f has no value twice; g is f without its element i; what g has, f has elsewhere.
Distinct(f, n) == \A k, m \in 1..n : f[k] = f[m] => k = m

Shifted(f, g, n, i) == \A k \in 1..n - 1 : g[k] = IF k < i THEN f[k] ELSE f[k + 1]

Kept(f, g, n, i) == \A k \in 1..n - 1 : \E m \in 1..n : m # i /\ g[k] = f[m]

\* The same of functions: what is left was there, at another place than i.
LEMMA ShiftFacts ==
  ASSUME NEW n \in Nat, NEW i \in 1..n, NEW f, NEW g, Shifted(f, g, n, i), Distinct(f, n)
  PROVE  Kept(f, g, n, i) /\ Distinct(g, n - 1)
<1> USE DEF Distinct, Shifted, Kept
<1>1. \A k \in 1..n - 1 : k < i => k \in 1..n /\ k # i
  OBVIOUS
<1>2. \A k \in 1..n - 1 : ~(k < i) => k + 1 \in 1..n /\ k + 1 # i
  OBVIOUS
<1>3. ASSUME NEW k \in 1..n - 1, NEW m \in 1..n - 1, g[k] = g[m] PROVE k = m
  <2>1. /\ g[k] = IF k < i THEN f[k] ELSE f[k + 1]
        /\ g[m] = IF m < i THEN f[m] ELSE f[m + 1]
    OBVIOUS
  <2>2. CASE k < i /\ m < i
    BY <1>1, <1>3, <2>1, <2>2
  <2>3. CASE k < i /\ ~(m < i)
    <3>1. k = m + 1
      BY <1>1, <1>2, <1>3, <2>1, <2>3
    <3> QED BY <2>3, <3>1
  <2>4. CASE ~(k < i) /\ m < i
    <3>1. k + 1 = m
      BY <1>1, <1>2, <1>3, <2>1, <2>4
    <3> QED BY <2>4, <3>1
  <2>5. CASE ~(k < i) /\ ~(m < i)
    <3>1. k + 1 = m + 1
      BY <1>1, <1>2, <1>3, <2>1, <2>5
    <3> QED BY <3>1
  <2> QED BY <2>2, <2>3, <2>4, <2>5
<1> QED BY <1>1, <1>2, <1>3

\* What is unwatched has no edge any more; the others keep theirs.
LEMMA RemoveFacts ==
  ASSUME NEW S, NEW s \in Seq(S), NEW e, IsInjective(s), Contains(s, e),
         NEW t, t = RemoveAt(s, CHOOSE i \in DOMAIN s : s[i] = e)
  PROVE  /\ t \in Seq(S \ {e}) /\ IsInjective(t)
         /\ \A x : Contains(t, x) => Contains(s, x)
<1> DEFINE i == CHOOSE i \in DOMAIN s : s[i] = e
<1>1. i \in 1..Len(s) /\ s[i] = e /\ t = RemoveAt(s, i)
  <2>1. \E j \in DOMAIN s : s[j] = e
    BY DEF Contains
  <2>2. i \in DOMAIN s /\ s[i] = e
    BY <2>1
  <2> QED BY <2>2
<1> HIDE DEF i
<1> DEFINE n == Len(s)
<1>2. /\ t \in Seq(S) /\ n \in Nat /\ i \in 1..n /\ Len(t) = n - 1
      /\ DOMAIN s = 1..n /\ DOMAIN t = 1..n - 1
  BY <1>1, RemoveAtFacts
<1>3. Shifted(s, t, n, i)
  BY <1>1, RemoveAtFacts DEF Shifted
<1>4. Distinct(s, n)
  BY <1>2 DEF IsInjective, Distinct
<1>5. \A k \in 1..n : s[k] \in S
  OBVIOUS
<1> HIDE DEF n
<1>6. Kept(s, t, n, i) /\ Distinct(t, n - 1)
  BY <1>2, <1>3, <1>4, ShiftFacts
<1>7. \A k \in 1..n - 1 : t[k] \in S \ {e}
  BY <1>1, <1>2, <1>4, <1>5, <1>6 DEF Distinct, Kept
<1>8. t \in Seq(S \ {e})
  BY <1>2, <1>7
<1>9. IsInjective(t)
  BY <1>2, <1>6 DEF IsInjective, Distinct
<1>10. \A x : Contains(t, x) => Contains(s, x)
  BY <1>2, <1>6 DEF Contains, Kept, n
<1> QED BY <1>8, <1>9, <1>10

\* How many there are.
LEMMA IntervalCount == ASSUME NEW n \in Nat PROVE Cardinality(1..n) = n
  BY FS_Interval

LEMMA SlotCount ==
  /\ IsFiniteSet(Conns) /\ Cardinality(Conns) \in Nat
  /\ Cardinality(Slots) = Cardinality(Conns) + 1
  /\ IsFiniteSet(Fds) /\ Cardinality(Fds) = Cardinality(Conns) + 1
<1>1. IsFiniteSet(Conns) /\ Cardinality(Conns) \in Nat
  BY EpollAssumption, FS_CardinalityType DEF EpollAssumption
<1>2. IsFiniteSet(Fds) /\ Cardinality(Fds) = Cardinality(Conns) + 1
  <2>1. Fds = Conns \cup {Listen} /\ Listen \notin Conns
    BY EpollAssumption DEF EpollAssumption, Fds
  <2> QED BY <1>1, <2>1, FS_AddElement
<1>3. ASSUME NEW n \in Nat PROVE Cardinality(0..n) = n + 1
  BY FS_Interval
<1> QED BY <1>1, <1>2, <1>3 DEF Slots

\* There are never more edges than descriptors.
LEMMA EdgesBounded ==
  ASSUME NEW s \in Seq(Fds), IsInjective(s)
  PROVE  Len(s) \in 0..Cardinality(Conns) + 1
<1> DEFINE n == Len(s)
<1>1. n \in Nat /\ s \in [1..n -> Fds]
  OBVIOUS
<1> HIDE DEF n
<1>2. s \in Injection(1..n, Fds)
  BY <1>1 DEF Injection, IsInjective
<1>3. Cardinality(1..n) <= Cardinality(Fds)
  BY <1>2, SlotCount, FS_Injection
<1> QED BY <1>1, <1>3, SlotCount, IntervalCount DEF n

-----------------------------------------------------------------------------
(* What the helpers keep                                                   *)

\* A request or a departure adds at most the edge of its own descriptor.
LEMMA EdgeFacts ==
  ASSUME TypeOK, NEW f, Edge(f)
  PROVE  /\ ready' \in Seq(watched) /\ IsInjective(ready')
         /\ \A x : Contains(ready', x) => x = f \/ Contains(ready, x)
<1>1. ready \in Seq(watched) /\ IsInjective(ready)
  BY DEF TypeOK
<1>2. CASE f \in watched /\ ~Contains(ready, f)
  <2>1. ready' = Append(ready, f)
    BY <1>2 DEF Edge
  <2> QED BY <1>1, <1>2, <2>1, AppendFacts
<1>3. CASE ~(f \in watched /\ ~Contains(ready, f))
  BY <1>1, <1>3 DEF Edge
<1> QED BY <1>2, <1>3

\* Unwatching loses the edge of the descriptor and no other.
LEMMA UnwatchFacts ==
  ASSUME TypeOK, NEW f, Unwatch(f)
  PROVE  /\ watched' = watched \ {f}
         /\ ready' \in Seq(watched') /\ IsInjective(ready')
         /\ \A x : Contains(ready', x) => Contains(ready, x)
<1>1. ready \in Seq(watched) /\ IsInjective(ready)
  BY DEF TypeOK
<1>2. watched' = watched \ {f}
  BY DEF Unwatch
<1>3. CASE Contains(ready, f)
  <2>1. ready' = RemoveAt(ready, CHOOSE i \in DOMAIN ready : ready[i] = f)
    BY <1>3 DEF Unwatch
  <2> QED BY <1>1, <1>2, <1>3, <2>1, RemoveFacts
<1>4. CASE ~Contains(ready, f)
  <2>1. ready' = ready
    BY <1>4 DEF Unwatch
  <2>2. ready \in Seq(watched \ {f})
    BY <1>1, <1>4 DEF Contains
  <2> QED BY <1>1, <1>2, <2>1, <2>2
<1> QED BY <1>3, <1>4

\* As many clients are accepted as are watched or were, at most all.
LEMMA AcceptedCount ==
  /\ Accepted \subseteq Conns /\ IsFiniteSet(Accepted)
  /\ Cardinality(Accepted) \in Nat /\ Cardinality(Accepted) <= Cardinality(Conns)
<1>1. Accepted \subseteq Conns
  BY DEF Accepted
<1> QED BY <1>1, SlotCount, FS_Subset, FS_CardinalityType

\* A list that has room stays well formed, and never grows by forgetting.
LEMMA DelClientFacts ==
  ASSUME TypeOK, AcceptInv, NEW f, DelClient(f)
  PROVE  clilist' \in [Slots -> Conns \cup {None}] /\ tailindex' = tailindex - 1
<1>1. /\ clilist \in [Slots -> Conns \cup {None}] /\ tailindex \in Int
      /\ tailindex <= Cardinality(Conns) /\ Cardinality(Conns) \in Nat
  BY AcceptedCount, SlotCount DEF TypeOK, AcceptInv
<1>2. \A j \in Slots : j + 1 < tailindex => j + 1 \in Slots
  BY <1>1 DEF Slots
<1>3. ASSUME NEW j \in Slots, NEW B \in BOOLEAN
      PROVE  (IF B /\ j + 1 < tailindex THEN clilist[j + 1] ELSE clilist[j]) \in Conns \cup {None}
  BY <1>1, <1>2
<1> DEFINE at == {i \in DOMAIN clilist : i < tailindex /\ clilist[i] = f}
<1>4. /\ clilist' = [j \in DOMAIN clilist |->
                       IF (\E i \in at : i <= j) /\ j + 1 < tailindex
                       THEN clilist[j + 1] ELSE clilist[j]]
      /\ tailindex' = tailindex - 1
  BY DEF DelClient
<1> HIDE DEF at
<1> QED BY <1>1, <1>3, <1>4

\* Who was accepted stays so while no one connects and no one is accepted.
LEMMA AcceptedSame ==
  ASSUME backlog' = backlog, \A c \in Conns : peer'[c] = "new" <=> peer[c] = "new"
  PROVE  Accepted' = Accepted
  BY DEF Accepted, Contains

\* Steps that accept no one keep the books of accepted connections.
LEMMA AcceptInvKept ==
  ASSUME TypeOK, AcceptInv, backlog' = backlog,
         \A c \in Conns : peer'[c] = "new" <=> peer[c] = "new",
         watched' \subseteq watched, tailindex' <= tailindex, tailindex' \in Int
  PROVE  AcceptInv'
<1>1. Accepted' = Accepted
  BY AcceptedSame
<1>2. tailindex \in Int /\ Cardinality(Accepted) \in Nat
      /\ \A i \in 1..Len(backlog) : backlog[i] \in Conns
  BY AcceptedCount DEF TypeOK
<1> QED BY <1>1, <1>2 DEF AcceptInv

\* The oldest connection of the backlog was not accepted and is not watched; it
\* is now.
LEMMA AcceptTakes ==
  ASSUME TypeOK, AcceptInv, backlog # <<>>, backlog' = Tail(backlog), peer' = peer
  PROVE  /\ Head(backlog) \in Conns \ (Accepted \cup watched)
         /\ Accepted' = Accepted \cup {Head(backlog)}
         /\ Cardinality(Accepted') = Cardinality(Accepted) + 1
         /\ \A i \in 1..Len(backlog') : peer[backlog'[i]] # "new"
         /\ IsInjective(backlog')
<1>1. /\ backlog \in Seq(Conns) /\ IsInjective(backlog)
      /\ Len(backlog) \in Nat \ {0} /\ DOMAIN backlog = 1..Len(backlog)
      /\ Head(backlog) = backlog[1] /\ backlog[1] \in Conns
  BY DEF TypeOK, AcceptInv
<1>2. /\ Tail(backlog) \in Seq(Conns) /\ Len(Tail(backlog)) = Len(backlog) - 1
      /\ \A i \in 1..Len(backlog) - 1 : Tail(backlog)[i] = backlog[i + 1]
  BY <1>1
<1>3. \A c : Contains(backlog, c) <=> c = Head(backlog) \/ Contains(Tail(backlog), c)
  <2>1. ASSUME NEW i \in 1..Len(backlog), i # 1 PROVE Contains(Tail(backlog), backlog[i])
    <3>1. i - 1 \in 1..Len(backlog) - 1 /\ (i - 1) + 1 = i
      BY <1>1, <2>1
    <3> QED BY <1>2, <3>1 DEF Contains
  <2>2. \A i \in 1..Len(backlog) - 1 : i + 1 \in 1..Len(backlog)
    BY <1>1
  <2> QED BY <1>1, <1>2, <2>1, <2>2 DEF Contains
<1>4. ~Contains(Tail(backlog), Head(backlog))
  BY <1>1, <1>2 DEF Contains, IsInjective
<1>5. peer[Head(backlog)] # "new"
  BY <1>1 DEF AcceptInv
<1>6. Accepted' = Accepted \cup {Head(backlog)} /\ Head(backlog) \notin Accepted
  BY <1>1, <1>3, <1>4, <1>5 DEF Accepted
<1>7. Head(backlog) \notin watched
  BY <1>1, <1>6, EpollAssumption DEF AcceptInv, EpollAssumption
<1>8. Cardinality(Accepted') = Cardinality(Accepted) + 1
  BY <1>6, AcceptedCount, FS_AddElement
<1>9. IsInjective(Tail(backlog))
  BY <1>1, <1>2 DEF IsInjective
<1>10. \A i \in 1..Len(Tail(backlog)) : peer[Tail(backlog)[i]] # "new"
  BY <1>1, <1>2 DEF AcceptInv
<1> QED BY <1>1, <1>6, <1>7, <1>8, <1>9, <1>10

\* The history of pointers is a truth value.
LEMMA MovedType ==
  ASSUME TypeOK, moved' = (moved \/ Moves)
  PROVE  moved' \in BOOLEAN
  BY Zenon DEF TypeOK

\* The ring's indices.
LEMMA RingFacts ==
  /\ 0 \in Ring
  /\ \A i \in Ring : Succ(i) \in Ring
  /\ \A i, k \in Ring : Succ(i) = Succ(k) => i = k
  BY EpollAssumption DEF EpollAssumption, Ring, Succ

-----------------------------------------------------------------------------
(* The invariant                                                           *)

\* Nobody is connected and nothing is watched but the listening socket.
LEMMA InitInv == Init => IInv
<1> SUFFICES ASSUME Init PROVE IInv
  OBVIOUS
<1> USE EpollAssumption DEF EpollAssumption, Init
<1>1. TypeOK
  <2>1. 0 \in Slots /\ 0 \in 0..Cardinality(Slots) /\ 0 \in Ring
    BY SlotCount DEF Slots, Ring
  <2>2. ready \in Seq(watched) /\ IsInjective(ready) /\ Len(jobs) = 0
    BY DEF IsInjective
  <2>3. Blank \in Commands
    BY DEF Commands
  <2>4. /\ cmd \in [Workers -> Commands] /\ data \in [Ring -> Commands] /\ got \in Commands
        /\ next \in [Workers -> Ring]
    BY <2>1, <2>3
  <2> QED BY <2>1, <2>2, <2>4 DEF TypeOK, Fds
<1>2. ScanInv
  BY DEF ScanInv
<1>3. AcceptInv
  BY AcceptedCount DEF AcceptInv, IsInjective
<1> QED BY <1>1, <1>2, <1>3 DEF IInv

\* Clients change what arrives, and add edges.
LEMMA ClientStep ==
  ASSUME IInv, NEW c \in Conns, Client(c)
  PROVE  IInv'
<1> USE DEF IInv
<1> USE DEF server, list, work, epoll, push, ring, getcmd
<1>1. CASE Connect(c)
  <2> USE <1>1 DEF Connect
  <2>1. /\ ready' \in Seq(watched) /\ IsInjective(ready')
    BY EdgeFacts
  <2>2. backlog' \in Seq(Conns) /\ Len(backlog') = Len(backlog) + 1 /\ Len(backlog) \in Nat
        /\ backlog'[Len(backlog) + 1] = c
        /\ \A i \in 1..Len(backlog) : backlog'[i] = backlog[i] /\ backlog[i] \in Conns
    BY DEF TypeOK
  <2>3. TypeOK'
    BY <2>1, <2>2 DEF TypeOK
  <2>4. ScanInv'
    BY DEF ScanInv
  <2>5. ~Contains(backlog, c)
    BY DEF AcceptInv, Contains
  <2>6. IsInjective(backlog')
    BY <2>5, AppendFacts DEF AcceptInv, TypeOK
  <2>7. Accepted' = Accepted
    <3>1. peer' \in [Conns -> {"new", "open", "closed", "reset"}] /\ peer'[c] = "open"
          /\ \A d \in Conns \ {c} : peer'[d] = peer[d]
      BY DEF TypeOK
    <3>2. Contains(backlog', c) /\ \A d \in Conns \ {c} : Contains(backlog', d) <=> Contains(backlog, d)
      BY <2>2, <2>5, AppendFacts DEF TypeOK, AcceptInv
    <3> QED BY <3>1, <3>2 DEF Accepted
  <2>8. \A i \in 1..Len(backlog') : peer'[backlog'[i]] # "new"
    <3>1. ASSUME NEW i \in 1..Len(backlog) PROVE peer'[backlog[i]] # "new"
      BY <2>2 DEF AcceptInv, TypeOK
    <3>2. Len(backlog) \in Nat /\ peer'[c] # "new"
      BY <2>2 DEF TypeOK
    <3>3. ASSUME NEW i \in 1..Len(backlog') PROVE peer'[backlog'[i]] # "new"
      <4>1. i \in 1..Len(backlog) \/ i = Len(backlog) + 1
        BY <2>2, <3>2
      <4> QED BY <2>2, <3>1, <3>2, <4>1
    <3> QED BY <3>3
  <2> QED BY <2>3, <2>4, <2>6, <2>7, <2>8 DEF AcceptInv
<1>2. CASE Send(c)
  <2> USE <1>2 DEF Send
  <2>1. ready' \in Seq(watched) /\ IsInjective(ready')
    BY EdgeFacts
  <2>2. [from |-> c, n |-> sent[c] + 1] \in Requests /\ sent[c] + 1 \in 0..MaxSent
    <3>1. MaxSent \in Nat /\ sent[c] \in 0..MaxSent /\ sent[c] < MaxSent
      BY EpollAssumption DEF TypeOK, EpollAssumption
    <3>2. sent[c] + 1 \in 1..MaxSent
      BY <3>1
    <3> QED BY <3>1, <3>2 DEF Requests
  <2>3. inbox' \in [Conns -> Seq(Requests)]
    BY <2>2 DEF TypeOK
  <2>4. TypeOK'
    BY <2>1, <2>2, <2>3 DEF TypeOK
  <2>5. ScanInv'
    BY DEF ScanInv
  <2>6. AcceptInv'
    BY AcceptInvKept DEF TypeOK
  <2> QED BY <2>4, <2>5, <2>6
<1>3. ASSUME NEW how \in Leavings, Leave(c, how)
      PROVE  IInv'
  <2> USE <1>3 DEF Leave
  <2>1. ready' \in Seq(watched) /\ IsInjective(ready')
    BY EdgeFacts
  <2>2. how \in {"closed", "reset"}
    BY EpollAssumption DEF EpollAssumption
  <2>3. TypeOK'
    BY <2>1, <2>2 DEF TypeOK
  <2>4. ScanInv'
    BY DEF ScanInv
  <2>5. \A d \in Conns : peer'[d] = "new" <=> peer[d] = "new"
    BY <2>2 DEF TypeOK
  <2>6. AcceptInv'
    BY <2>5, AcceptInvKept DEF TypeOK
  <2> QED BY <2>3, <2>4, <2>6
<1> QED BY <1>1, <1>2, <1>3 DEF Client

\* The loop refills the array, accepts, and hands out slots.
LEMMA LoopStep ==
  ASSUME IInv, Loop
  PROVE  IInv'
<1> USE DEF IInv
<1> USE DEF net, list, work, epoll, push, ring, getcmd
<1>1. CASE EpollWait
  <2> USE <1>1 DEF EpollWait
  <2>1. /\ ready \in Seq(Fds) /\ IsInjective(ready) /\ Len(ready) \in Nat \ {0}
        /\ \A i \in 1..Len(ready) : ready[i] \in Fds
    BY DEF TypeOK
  <2>2. Len(ready) \in 0..Cardinality(Slots) /\ Slots = 0..Cardinality(Conns)
        /\ Cardinality(Slots) = Cardinality(Conns) + 1 /\ Cardinality(Conns) \in Nat
    BY <2>1, EdgesBounded, SlotCount DEF Slots
  <2>3. ASSUME NEW i \in Slots
        PROVE  events'[i] \in Fds \cup {None}
    <3>1. events'[i] = IF i < Len(ready) THEN ready[i + 1] ELSE events[i]
      OBVIOUS
    <3>2. i < Len(ready) => i + 1 \in 1..Len(ready)
      BY <2>1, <2>2
    <3> QED BY <2>1, <3>1, <3>2 DEF TypeOK
  <2>4. events' \in [Slots -> Fds \cup {None}]
    BY <2>3
  <2>5. ready' \in Seq(watched') /\ IsInjective(ready')
    BY DEF IsInjective
  <2>6. moved' \in BOOLEAN
    BY MovedType
  <2>7. TypeOK'
    BY <2>2, <2>4, <2>5, <2>6 DEF TypeOK
  <2>8. pos' < nfds'
    BY <2>1
  <2>9. ScanInv'
    BY <2>8 DEF ScanInv
  <2>10. AcceptInv'
    BY AcceptInvKept DEF TypeOK
  <2> QED BY <2>7, <2>9, <2>10
<1>2. CASE Accept
  <2> USE <1>2 DEF Accept
  <2> DEFINE c == Head(backlog)
  <2>1. /\ c \in Conns \ (Accepted \cup watched)
        /\ Accepted' = Accepted \cup {c}
        /\ Cardinality(Accepted') = Cardinality(Accepted) + 1
        /\ \A i \in 1..Len(backlog') : peer[backlog'[i]] # "new"
        /\ IsInjective(backlog') /\ backlog' \in Seq(Conns)
    <3>1. backlog' \in Seq(Conns)
      BY HeadTailType DEF TypeOK
    <3> QED BY <3>1, AcceptTakes
  <2>2. /\ AddClient(c) /\ watched' = watched \cup {c}
        /\ ready' = IF Readable(c) THEN Append(ready, c) ELSE ready
    OBVIOUS
  <2> HIDE DEF c
  <2>3. ready' \in Seq(watched') /\ IsInjective(ready')
    <3>1. ready \in Seq(watched') /\ IsInjective(ready) /\ c \in watched' /\ ~Contains(ready, c)
      BY <2>1, <2>2 DEF TypeOK, Contains
    <3> QED BY <2>2, <3>1, AppendFacts
  <2>4. clilist' \in [Slots -> Conns \cup {None}] /\ tailindex' = tailindex + 1
    BY <2>1, <2>2 DEF AddClient, TypeOK
  <2>5. pos' \in 0..nfds /\ loop' \in {"wait", "scan"} /\ (loop' = "scan" => pos' < nfds)
    BY SlotCount DEF Step, ScanInv, TypeOK
  <2>6. TypeOK'
    BY <2>1, <2>2, <2>3, <2>4, <2>5, SMTT(60) DEF TypeOK, Fds
  <2>7. ScanInv'
    BY <2>5 DEF ScanInv, Step, TypeOK
  <2>8. AcceptInv'
    <3>1. watched' \subseteq Accepted' \cup {Listen}
      BY <2>1, <2>2 DEF AcceptInv
    <3>2. tailindex' <= Cardinality(Accepted')
      BY <2>1, <2>4, AcceptedCount DEF AcceptInv, TypeOK
    <3> QED BY <2>1, <3>1, <3>2 DEF AcceptInv
  <2> QED BY <2>6, <2>7, <2>8
<1>3. CASE AcceptFails
  <2> USE <1>3 DEF AcceptFails
  <2>1. events' \in [Slots -> Fds \cup {None}]
    BY DEF TypeOK
  <2>2. moved' \in BOOLEAN
    BY MovedType
  <2>3. TypeOK' /\ ScanInv'
    BY <2>1, <2>2 DEF TypeOK, ScanInv
  <2>4. AcceptInv'
    BY AcceptInvKept DEF TypeOK
  <2> QED BY <2>3, <2>4
<1>4. CASE Dispatch
  <2> USE <1>4 DEF Dispatch
  <2>1. pos \in Slots
    BY SlotCount DEF ScanInv, TypeOK, Slots
  <2>2. jobs' \in Seq(Slots) /\ Len(jobs') <= PoolQueue
    <3>1. CASE Len(jobs) < PoolQueue
      <4>1. /\ jobs' = Append(jobs, pos) /\ jobs \in Seq(Slots) /\ Len(jobs) \in Nat
            /\ PoolQueue \in Nat
        BY <3>1, EpollAssumption DEF TypeOK, EpollAssumption
      <4>2. jobs' \in Seq(Slots) /\ Len(jobs') = Len(jobs) + 1
        BY <2>1, <4>1
      <4> QED BY <3>1, <4>1, <4>2
    <3>2. CASE ~(Len(jobs) < PoolQueue)
      BY <3>2 DEF TypeOK
    <3> QED BY <3>1, <3>2
  <2>3. pos' \in 0..nfds /\ loop' \in {"wait", "scan"} /\ (loop' = "scan" => pos' < nfds)
    BY SlotCount DEF Step, ScanInv, TypeOK
  <2>4. TypeOK'
    BY <2>2, <2>3 DEF TypeOK
  <2>5. ScanInv'
    BY <2>3 DEF ScanInv
  <2>6. AcceptInv'
    BY AcceptInvKept DEF TypeOK
  <2> QED BY <2>4, <2>5, <2>6
<1> QED BY <1>1, <1>2, <1>3, <1>4 DEF Loop

\* Workers follow their slots, and push what they have parsed.
LEMMA HandleStep ==
  ASSUME IInv, NEW w \in Workers, Handle(w)
  PROVE  IInv'
<1> USE DEF IInv
<1> USE DEF net, epoll, server, list, work, push, ring, getcmd
<1>0. \A i \in Ring : Succ(i) \in Ring
  BY RingFacts
<1>1. CASE Take(w)
  <2> USE <1>1 DEF Take
  <2>1. /\ jobs \in Seq(Slots) /\ Len(jobs) \in Nat \ {0} /\ Len(jobs) <= PoolQueue
        /\ Head(jobs) = jobs[1] /\ jobs[1] \in Slots
    BY DEF TypeOK
  <2>2. /\ jobs' \in Seq(Slots) /\ Len(jobs') = Len(jobs) - 1
        /\ \A i \in 1..Len(jobs) - 1 : jobs'[i] = jobs[i + 1]
    BY <2>1
  <2>3. Len(jobs') <= PoolQueue
    BY <2>1, <2>2, EpollAssumption DEF EpollAssumption
  <2>4. TypeOK'
    BY <2>1, <2>2, <2>3 DEF TypeOK
  <2>5. ScanInv'
    BY DEF ScanInv, TypeOK
  <2>6. AcceptInv'
    BY AcceptInvKept DEF TypeOK
  <2> QED BY <2>4, <2>5, <2>6
<1>2. CASE Read(w)
  <2> DEFINE f == events[slot[w]]
  <2> USE <1>2 DEF Read
  <2>1. f \in Conns /\ inbox[f] \in Seq(Requests) /\ inbox[f] # <<>>
    BY DEF TypeOK
  <2>2. Head(inbox[f]) \in Requests
    BY <2>1
  <2>3. SubSeq(inbox[f], ReadMax + 1, Len(inbox[f])) \in Seq(Requests)
    <3>1. ReadMax \in Nat
      BY EpollAssumption DEF EpollAssumption
    <3> QED BY <2>1, <3>1, SuffixType
  <2>4. /\ line' = [line EXCEPT ![w] = Head(inbox[f])]
        /\ inbox' = [inbox EXCEPT ![f] = SubSeq(@, ReadMax + 1, Len(@))]
    OBVIOUS
  <2> HIDE DEF f
  <2>5. inbox' \in [Conns -> Seq(Requests)]
    <3>1. inbox'[f] = SubSeq(inbox[f], ReadMax + 1, Len(inbox[f]))
      BY <2>1, <2>4 DEF TypeOK
    <3>2. \A d \in Conns \ {f} : inbox'[d] = inbox[d]
      BY <2>4 DEF TypeOK
    <3>3. inbox' \in [Conns -> Seq(Requests)] <=> \A d \in Conns : inbox'[d] \in Seq(Requests)
      BY <2>4 DEF TypeOK
    <3> QED BY <2>1, <2>3, <3>1, <3>2, <3>3 DEF TypeOK
  <2>6. line' \in [Workers -> Requests \cup {None}] /\ line'[w] \in Requests
    BY <2>2, <2>4 DEF TypeOK
  <2>7. TypeOK'
    BY <2>5, <2>6 DEF TypeOK
  <2>8. ScanInv'
    BY <2>4, <2>6 DEF ScanInv, TypeOK
  <2>9. AcceptInv'
    BY AcceptInvKept DEF TypeOK
  <2> QED BY <2>7, <2>8, <2>9
<1>3. CASE ReadNothing(w) \/ ReadEnd(w)
  <2> USE <1>3 DEF ReadNothing, ReadEnd
  <2>1. TypeOK' /\ ScanInv'
    BY DEF TypeOK, ScanInv
  <2>2. AcceptInv'
    BY AcceptInvKept DEF TypeOK
  <2> QED BY <2>1, <2>2
<1>4. CASE DeleteEvent(w)
  <2> USE <1>4 DEF DeleteEvent
  <2>1. /\ watched' \subseteq watched
        /\ ready' \in Seq(watched') /\ IsInjective(ready')
    BY UnwatchFacts
  <2>2. TypeOK' /\ ScanInv'
    BY <2>1 DEF TypeOK, ScanInv
  <2>3. AcceptInv'
    BY <2>1, AcceptInvKept DEF TypeOK
  <2> QED BY <2>2, <2>3
<1>5. CASE ForgetClient(w)
  <2> USE <1>5 DEF ForgetClient
  <2>1. clilist' \in [Slots -> Conns \cup {None}] /\ tailindex' = tailindex - 1
    BY DelClientFacts
  <2>2. TypeOK' /\ ScanInv'
    BY <2>1 DEF TypeOK, ScanInv
  <2>3. AcceptInv'
    BY <2>1, AcceptInvKept DEF TypeOK
  <2> QED BY <2>2, <2>3
<1>6. CASE Parse(w)
  <2> USE <1>6 DEF Parse
  <2>1. slot[w] \in Slots /\ events[slot[w]] \in Fds \cup {None} /\ line[w] \in Requests
    BY DEF ScanInv, TypeOK
  <2>2. [fd |-> events[slot[w]], req |-> line[w]] \in Commands
    BY <2>1 DEF Commands
  <2>3. cmd' \in [Workers -> Commands] /\ next' \in [Workers -> Ring]
    <3> DEFINE e == [fd |-> events[slot[w]], req |-> line[w]]
    <3>1. /\ cmd' \in {cmd, [cmd EXCEPT ![w] = e]}
          /\ next' \in {next, [next EXCEPT ![w] = Succ(tail)]}
      OBVIOUS
    <3>2. /\ e \in Commands /\ Succ(tail) \in Ring
          /\ cmd \in [Workers -> Commands] /\ next \in [Workers -> Ring]
      BY <1>0, <2>2 DEF TypeOK
    <3> HIDE <1>6 DEF e, Parse
    <3> QED BY <3>1, <3>2
  <2>4. clash' \in BOOLEAN
    <3>1. clash' = clash \/ clash' = (clash \/ Overlaps(w))
      OBVIOUS
    <3> QED BY <3>1, Zenon DEF TypeOK
  <2>5. TypeOK'
    BY <2>3, <2>4 DEF TypeOK
  <2>6. ScanInv'
    BY <2>1 DEF ScanInv, TypeOK
  <2>7. AcceptInv'
    BY AcceptInvKept DEF TypeOK
  <2> QED BY <2>5, <2>6, <2>7
<1>7. CASE PushTail(w)
  <2> USE <1>7 DEF PushTail
  <2>1. TypeOK' /\ ScanInv'
    BY DEF TypeOK, ScanInv
  <2>2. AcceptInv'
    BY AcceptInvKept DEF TypeOK
  <2> QED BY <2>1, <2>2
<1>8. CASE PushData(w)
  <2> USE <1>8 DEF PushData
  <2>1. Blank \in Commands /\ 0 \in Ring
    BY RingFacts DEF Commands
  <2>2. TypeOK' /\ ScanInv'
    BY <2>1 DEF TypeOK, ScanInv
  <2>3. AcceptInv'
    BY AcceptInvKept DEF TypeOK
  <2> QED BY <2>2, <2>3
<1> QED BY <1>1, <1>2, <1>3, <1>4, <1>5, <1>6, <1>7, <1>8 DEF Handle

\* The command thread writes to whatever descriptor it has found in the ring.
LEMMA GetCmdStep ==
  ASSUME IInv, GetCmd
  PROVE  IInv'
<1> USE DEF IInv
<1> USE DEF net, epoll, server, list, work, push, ring, getcmd
<1>1. Blank \in Commands
  BY DEF Commands
<1>2. CASE Pop
  <2> USE <1>2 DEF Pop
  <2>1. TypeOK' /\ ScanInv'
    BY RingFacts DEF TypeOK, ScanInv
  <2>2. AcceptInv'
    BY AcceptInvKept DEF TypeOK
  <2> QED BY <2>1, <2>2
<1>3. CASE Copy
  <2> USE <1>3 DEF Copy
  <2>1. slip' \in BOOLEAN
    BY Zenon DEF TypeOK
  <2>2. TypeOK' /\ ScanInv'
    BY <2>1 DEF TypeOK, ScanInv
  <2>3. AcceptInv'
    BY AcceptInvKept DEF TypeOK
  <2> QED BY <2>2, <2>3
<1>4. CASE Reply
  <2> USE <1>4 DEF Reply
  <2>1. got.fd \in Conns => got.req \in Requests
    BY EpollAssumption DEF TypeOK, Commands, Blank, EpollAssumption
  <2>2. replies' \in [Conns -> Seq(Requests)]
    <3>1. ASSUME NEW c \in Conns, c = got.fd PROVE Append(replies[c], got.req) \in Seq(Requests)
      BY <2>1, <3>1 DEF TypeOK
    <3> QED BY <3>1 DEF TypeOK
  <2>3. TypeOK' /\ ScanInv'
    BY <1>1, <2>2 DEF TypeOK, ScanInv
  <2>4. AcceptInv'
    BY AcceptInvKept DEF TypeOK
  <2> QED BY <2>3, <2>4
<1>5. CASE ReplyFails
  <2> USE <1>5 DEF ReplyFails
  <2>1. /\ watched' \subseteq watched
        /\ ready' \in Seq(watched') /\ IsInjective(ready')
    BY UnwatchFacts
  <2>2. clilist' \in [Slots -> Conns \cup {None}] /\ tailindex' = tailindex - 1
    BY DelClientFacts
  <2>3. TypeOK' /\ ScanInv'
    BY <1>1, <2>1, <2>2 DEF TypeOK, ScanInv
  <2>4. AcceptInv'
    BY <2>1, <2>2, AcceptInvKept DEF TypeOK
  <2> QED BY <2>3, <2>4
<1> QED BY <1>2, <1>3, <1>4, <1>5 DEF GetCmd

\* Every step keeps the invariant.
LEMMA Inductive == IInv /\ [Next]_vars => IInv'
<1>1. CASE UNCHANGED vars
  BY <1>1 DEF IInv, TypeOK, ScanInv, AcceptInv, Accepted, vars, net, epoll, server, list, work, push, ring, getcmd
<1> QED BY <1>1, ClientStep, LoopStep, HandleStep, GetCmdStep DEF Next

\* The loop's indices stay inside events[], what workers and jobs point to are
\* slots of it, the indices of the command queue stay inside the ring, and the
\* pool's queue and the list of clients keep to their sizes.
THEOREM TypeCorrect == Spec => []TypeOK
<1>1. IInv => TypeOK
  BY DEF IInv
<1> QED BY <1>1, InitInv, Inductive, PTL DEF Spec

-----------------------------------------------------------------------------
(* What accept finds                                                       *)

\* The listening socket has an edge in the kernel; in what is left of the scan.
Pending  == Contains(ready, Listen)
Scanning == loop = "scan" /\ \E i \in pos..nfds-1 : events[i] = Listen

\* Each edge of the listening socket, whether it waits in the kernel or in what
\* is left of the scan, has a connection of its own in the backlog.
ListenInv ==
  /\ loop = "scan" => \A i, k \in pos..nfds-1 : events[i] = events[k] => i = k
  /\ Pending \/ Scanning => Len(backlog) >= 1
  /\ Pending /\ Scanning => Len(backlog) >= 2

\* Steps that touch neither the loop nor the backlog can only lose edges of the
\* listening socket.
LEMMA ListenKept ==
  ASSUME ListenInv, UNCHANGED <<loop, pos, nfds, events, backlog>>,
         Contains(ready', Listen) => Contains(ready, Listen)
  PROVE  ListenInv'
  BY DEF ListenInv, Pending, Scanning

\* The scan goes on behind pos.
LEMMA ListenStep ==
  ASSUME IInv, ListenInv, loop = "scan", Step, UNCHANGED <<nfds, events>>
  PROVE  /\ loop' = "scan" => \A i, k \in pos'..nfds'-1 : events'[i] = events'[k] => i = k
         /\ Scanning' => Scanning
         /\ events[pos] = Listen => Scanning /\ ~Scanning'
<1>1. pos \in Nat /\ nfds \in Nat /\ pos < nfds /\ pos' = pos + 1
  BY SlotCount DEF IInv, TypeOK, ScanInv, Step
<1> QED BY <1>1 DEF ListenInv, Scanning

\* Edges of the listening socket come with connections and go with them.
LEMMA ListenInductive == IInv /\ ListenInv /\ [Next]_vars => ListenInv'
<1> SUFFICES ASSUME IInv, ListenInv, [Next]_vars PROVE ListenInv'
  OBVIOUS
<1> USE DEF net, epoll, server, list, work, push, ring, getcmd
<1>1. TypeOK /\ AcceptInv
  BY DEF IInv
<1>2. Len(backlog) \in Nat
  BY <1>1 DEF TypeOK
<1>3. ASSUME NEW c \in Conns, Connect(c) PROVE ListenInv'
  <2> USE <1>3 DEF Connect
  <2>1. Len(backlog') = Len(backlog) + 1
    BY <1>1, AppendType DEF TypeOK
  <2> QED BY <1>2, <2>1 DEF ListenInv, Pending, Scanning
<1>4. ASSUME NEW c \in Conns, Send(c) \/ \E how \in Leavings : Leave(c, how) PROVE ListenInv'
  <2> USE <1>4 DEF Send, Leave
  <2>1. Contains(ready', Listen) => Contains(ready, Listen)
    BY <1>1, EdgeFacts, EpollAssumption DEF EpollAssumption
  <2> QED BY <2>1, ListenKept
<1>5. CASE EpollWait
  <2> USE <1>5 DEF EpollWait
  <2>1. /\ ready \in Seq(Fds) /\ IsInjective(ready) /\ Len(ready) \in Nat \ {0}
        /\ DOMAIN ready = 1..Len(ready) /\ Len(ready) <= Cardinality(Conns) + 1
    BY <1>1, EdgesBounded DEF TypeOK
  <2>2. \A i \in pos'..nfds'-1 : i + 1 \in 1..Len(ready) /\ events'[i] = ready[i + 1]
    <3>1. \A i \in 0..Len(ready)-1 : i \in Slots
      BY <2>1, SlotCount DEF Slots
    <3> QED BY <2>1, <3>1
  <2>3. \A i, k \in pos'..nfds'-1 : events'[i] = events'[k] => i = k
    <3> SUFFICES ASSUME NEW i \in pos'..nfds'-1, NEW k \in pos'..nfds'-1, events'[i] = events'[k]
                 PROVE  i = k
      OBVIOUS
    <3>1. i + 1 = k + 1
      BY <2>1, <2>2 DEF IsInjective
    <3> QED BY <2>1, <3>1
  <2>4. Scanning' => Pending
    BY <2>2 DEF Scanning, Pending, Contains
  <2>5. ~Pending'
    BY DEF Pending, Contains
  <2> QED BY <2>3, <2>4, <2>5 DEF ListenInv
<1>6. CASE Accept
  <2> USE <1>6 DEF Accept
  <2>1. Len(backlog') = Len(backlog) - 1
    <3>1. backlog \in Seq(Conns) /\ backlog # <<>> /\ backlog' = Tail(backlog)
      BY <1>1 DEF TypeOK
    <3> QED BY <3>1, HeadTailType
  <2>2. Pending' => Pending
    <3>1. Head(backlog) \in Conns /\ Head(backlog) # Listen /\ Head(backlog) \notin watched
      <4>1. Head(backlog) \in Conns /\ Head(backlog) \notin watched
        BY <1>1, AcceptTakes
      <4> QED BY <4>1, EpollAssumption DEF EpollAssumption
    <3>2. ready \in Seq(Fds) /\ IsInjective(ready) /\ ~Contains(ready, Head(backlog))
      <4>1. ready \in Seq(watched) /\ IsInjective(ready) /\ watched \subseteq Fds
        BY <1>1 DEF TypeOK
      <4> DEFINE h == Head(backlog)
      <4>2. h \notin watched
        BY <3>1
      <4> HIDE <1>6 DEF Accept, h
      <4>3. ready \in Seq(Fds) /\ ~Contains(ready, h)
        BY <4>1, <4>2 DEF Contains
      <4> QED BY <4>1, <4>3 DEF h
    <3>3. ready' = Append(ready, Head(backlog)) \/ ready' = ready
      OBVIOUS
    <3>4. Head(backlog) \in Fds
      BY <3>1 DEF Fds
    <3> QED BY <3>1, <3>2, <3>3, <3>4, AppendFacts DEF Pending
  <2>3. Step /\ UNCHANGED <<nfds, events>> /\ loop = "scan"
    OBVIOUS
  <2>4. /\ loop' = "scan" => \A i, k \in pos'..nfds'-1 : events'[i] = events'[k] => i = k
        /\ Scanning /\ ~Scanning'
    BY <2>3, ListenStep
  <2> QED BY <1>2, <2>1, <2>2, <2>4 DEF ListenInv
<1>7. CASE AcceptFails
  <2> USE <1>7 DEF AcceptFails
  <2>1. ~Scanning' /\ (Pending' <=> Pending)
    BY DEF Scanning, Pending
  <2> QED BY <2>1 DEF ListenInv
<1>8. CASE Dispatch
  <2> USE <1>8 DEF Dispatch
  <2>1. Step /\ UNCHANGED <<nfds, events>> /\ loop = "scan"
    OBVIOUS
  <2>2. /\ loop' = "scan" => \A i, k \in pos'..nfds'-1 : events'[i] = events'[k] => i = k
        /\ Scanning' => Scanning /\ (Pending' <=> Pending)
    BY <2>1, ListenStep DEF Pending
  <2>3. Pending' <=> Pending
    BY DEF Pending
  <2> QED BY <2>2, <2>3 DEF ListenInv
<1>9. ASSUME NEW w \in Workers, Handle(w) PROVE ListenInv'
  <2>1. UNCHANGED <<loop, pos, nfds, events, backlog>>
    BY <1>9 DEF Handle, Take, Read, ReadNothing, ReadEnd, DeleteEvent, ForgetClient, Parse,
                PushTail, PushData
  <2>2. Contains(ready', Listen) => Contains(ready, Listen)
    <3>1. CASE DeleteEvent(w)
      BY <1>1, <3>1, UnwatchFacts DEF DeleteEvent
    <3>2. CASE ~DeleteEvent(w)
      BY <1>9, <3>2 DEF Handle, Take, Read, ReadNothing, ReadEnd, ForgetClient, Parse,
                        PushTail, PushData
    <3> QED BY <3>1, <3>2
  <2> QED BY <2>1, <2>2, ListenKept
<1>10. CASE GetCmd
  <2>1. UNCHANGED <<loop, pos, nfds, events, backlog>>
    BY <1>10 DEF GetCmd, Pop, Copy, Reply, ReplyFails
  <2>2. Contains(ready', Listen) => Contains(ready, Listen)
    <3>1. CASE ReplyFails
      BY <1>1, <3>1, UnwatchFacts DEF ReplyFails
    <3>2. CASE Pop \/ Copy \/ Reply
      BY <3>2 DEF Pop, Copy, Reply
    <3> QED BY <1>10, <3>1, <3>2 DEF GetCmd
  <2> QED BY <2>1, <2>2, ListenKept
<1>11. CASE UNCHANGED vars
  <2>1. UNCHANGED <<loop, pos, nfds, events, backlog, ready>>
    BY <1>11 DEF vars
  <2> QED BY <2>1, ListenKept
<1>12. Loop => ListenInv'
  BY <1>5, <1>6, <1>7, <1>8 DEF Loop
<1>13. ASSUME NEW c \in Conns, Client(c) PROVE ListenInv'
  BY <1>3, <1>4, <1>13 DEF Client
<1> QED BY <1>9, <1>10, <1>11, <1>12, <1>13 DEF Next

\* An edge never comes without a connection, however edges merge and connections
\* come while the loop scans: accept is never called on an empty backlog.
THEOREM AcceptAlwaysFinds == Spec => []AcceptFinds
<1>1. Init => ListenInv
  BY DEF Init, ListenInv, Pending, Scanning, Contains
<1>2. ASSUME IInv, ListenInv, loop = "scan", events[pos] = Listen PROVE backlog # <<>>
  <2>1. Scanning
    BY <1>2, SlotCount DEF Scanning, IInv, ScanInv, TypeOK
  <2> QED BY <1>2, <2>1 DEF ListenInv
<1>3. IInv /\ ListenInv => AcceptFinds
  BY <1>2 DEF AcceptFinds
<1> QED BY <1>1, <1>3, InitInv, Inductive, ListenInductive, PTL DEF Spec

-----------------------------------------------------------------------------
(* The ring, until two pushes claim one slot or a slot is taken unfilled   *)

\* The slots behind f, up to t.
Between(f, t, s) == IF f <= t THEN f < s /\ s <= t ELSE f < s \/ s <= t

\* The slots of the commands in the queue, and the one get_cmd is copying.
Waiting(s) == Between(front, tail, s) \/ (gpc = "copy" /\ s = front)

Filling(s) == \E w \in Workers : wpc[w] = "data" /\ next[w] = s

\* The slots that hold a command somebody waits for.
Full(s) == Waiting(s) /\ ~Filling(s)

\* At most one worker has claimed a slot, the one behind tail; those that fill
\* theirs work on different ones of the queue.
RingInv ==
  /\ \A w \in Workers : wpc[w] = "tail" => next[w] = Succ(tail) /\ Succ(tail) # front
  /\ \A v, w \in Workers : wpc[v] = "tail" /\ wpc[w] = "tail" => v = w
  /\ \A w \in Workers : wpc[w] = "data" => Waiting(next[w])
  /\ \A v, w \in Workers : wpc[v] = "data" /\ wpc[w] = "data" /\ next[v] = next[w] => v = w
  /\ \A s \in Ring : Full(s) => data[s].req \in Requests
  /\ gpc = "write" => got.req \in Requests

Sound == ~clash /\ ~slip

\* Storing tail puts the slot behind it into the queue.
LEMMA BetweenPush ==
  ASSUME NEW f \in Ring, NEW t \in Ring, Succ(t) # f
  PROVE  /\ \A s \in Ring : Between(f, Succ(t), s) <=> Between(f, t, s) \/ s = Succ(t)
         /\ ~Between(f, t, Succ(t))
  BY EpollAssumption DEF EpollAssumption, Between, Ring, Succ

\* Storing front takes the slot behind it out.
LEMMA BetweenPop ==
  ASSUME NEW f \in Ring, NEW t \in Ring, f # t
  PROVE  /\ \A s \in Ring : Between(f, t, s) <=> Between(Succ(f), t, s) \/ s = Succ(f)
         /\ Succ(t) # Succ(f)
  BY EpollAssumption DEF EpollAssumption, Between, Ring, Succ

LEMMA BetweenEnd ==
  ASSUME NEW f \in Ring, NEW t \in Ring
  PROVE  ~Between(f, t, f)
  BY DEF Between, Ring

\* Steps of threads that do not work on the ring.
LEMMA RingKept ==
  ASSUME RingInv, UNCHANGED <<front, tail, data, next>>,
         \A w \in Workers : /\ wpc'[w] = "tail" <=> wpc[w] = "tail"
                            /\ wpc'[w] = "data" <=> wpc[w] = "data",
         gpc' = "copy" <=> gpc = "copy",
         gpc' = "write" => got'.req \in Requests
  PROVE  RingInv' /\ \A s : Full(s)' <=> Full(s)
<1>1. \A s : (Waiting(s)' <=> Waiting(s)) /\ (Filling(s)' <=> Filling(s))
  BY DEF Waiting, Filling
<1>2. \A s : Full(s)' <=> Full(s)
  BY <1>1 DEF Full
<1> QED BY <1>1, <1>2 DEF RingInv

\* A worker claims a slot when no other has.
LEMMA RingParse ==
  ASSUME TypeOK, RingInv, NEW w \in Workers, Parse(w), ~clash'
  PROVE  RingInv' /\ \A s : Full(s)' <=> Full(s)
<1>1. UNCHANGED <<front, tail, data, gpc, got>> /\ wpc[w] = "parse"
  BY DEF Parse, ring, getcmd
<1>2. /\ wpc \in [Workers -> {"idle", "read", "delete", "forget", "parse", "tail", "data"}]
      /\ next \in [Workers -> Ring]
  BY DEF TypeOK
<1>3. CASE IsFull
  <2>1. wpc' = [wpc EXCEPT ![w] = "idle"] /\ next' = next
    BY <1>3 DEF Parse, push
  <2> QED BY <1>1, <1>2, <2>1, RingKept DEF RingInv
<1>4. CASE ~IsFull
  <2>1. /\ wpc' = [wpc EXCEPT ![w] = "tail"] /\ next' = [next EXCEPT ![w] = Succ(tail)]
        /\ ~Overlaps(w)
    BY <1>4 DEF Parse
  <2>2. \A v \in Workers \ {w} : wpc'[v] = wpc[v] /\ next'[v] = next[v] /\ wpc[v] # "tail"
    BY <1>2, <2>1 DEF Overlaps
  <2>3. wpc'[w] = "tail" /\ next'[w] = Succ(tail) /\ Succ(tail) # front
    BY <1>2, <1>4, <2>1 DEF IsFull
  <2>4. \A s : (Waiting(s)' <=> Waiting(s)) /\ (Filling(s)' <=> Filling(s))
    BY <1>1, <2>2, <2>3 DEF Waiting, Filling
  <2>5. \A s : Full(s)' <=> Full(s)
    BY <2>4 DEF Full
  <2> QED BY <1>1, <2>2, <2>3, <2>4, <2>5 DEF RingInv
<1> QED BY <1>3, <1>4

\* The claimed slot joins the queue, not yet filled.
LEMMA RingPushTail ==
  ASSUME TypeOK, RingInv, NEW w \in Workers, PushTail(w)
  PROVE  RingInv' /\ \A s \in Ring : Full(s)' <=> Full(s)
<1>1. /\ UNCHANGED <<front, data, next, gpc, got>> /\ wpc[w] = "tail" /\ tail' = next[w]
      /\ wpc' = [wpc EXCEPT ![w] = "data"]
  BY DEF PushTail, push, getcmd
<1>2. /\ wpc \in [Workers -> {"idle", "read", "delete", "forget", "parse", "tail", "data"}]
      /\ next \in [Workers -> Ring] /\ front \in Ring /\ tail \in Ring
  BY DEF TypeOK
<1>3. tail' = Succ(tail) /\ next[w] = Succ(tail) /\ Succ(tail) # front
  BY <1>1 DEF RingInv
<1>4. wpc'[w] = "data" /\ \A v \in Workers \ {w} : wpc'[v] = wpc[v] /\ wpc[v] # "tail"
  BY <1>1, <1>2 DEF RingInv
<1>5. /\ \A s \in Ring : Waiting(s)' <=> Waiting(s) \/ s = next[w]
      /\ ~Waiting(next[w])
  BY <1>1, <1>2, <1>3, BetweenPush DEF Waiting
<1>6. \A s : Filling(s)' <=> Filling(s) \/ s = next[w]
  BY <1>1, <1>4 DEF Filling
<1>7. \A s \in Ring : Full(s)' <=> Full(s)
  BY <1>5, <1>6 DEF Full
<1>8. \A v \in Workers : wpc'[v] = "data" => Waiting(next[v])'
  BY <1>1, <1>2, <1>4, <1>5 DEF RingInv
<1>9. \A v \in Workers \ {w} : wpc[v] = "data" => next[v] # next[w]
  BY <1>5 DEF RingInv
<1> QED BY <1>1, <1>4, <1>7, <1>8, <1>9 DEF RingInv

\* The claimed slot is filled, with a request.
LEMMA RingPushData ==
  ASSUME TypeOK, ScanInv, RingInv, NEW w \in Workers, PushData(w)
  PROVE  /\ RingInv'
         /\ next[w] \in Ring /\ ~Full(next[w]) /\ data'[next[w]] = cmd[w]
         /\ \A s \in Ring : Full(s)' <=> Full(s) \/ s = next[w]
         /\ \A s \in Ring \ {next[w]} : data'[s] = data[s]
<1>1. /\ UNCHANGED <<front, tail, gpc, got>> /\ wpc[w] = "data"
      /\ data' = [data EXCEPT ![next[w]] = cmd[w]]
      /\ wpc' = [wpc EXCEPT ![w] = "idle"] /\ next' = [next EXCEPT ![w] = 0]
  BY DEF PushData, getcmd
<1>2. /\ wpc \in [Workers -> {"idle", "read", "delete", "forget", "parse", "tail", "data"}]
      /\ next \in [Workers -> Ring] /\ data \in [Ring -> Commands]
  BY DEF TypeOK
<1>3. wpc'[w] = "idle" /\ \A v \in Workers \ {w} : wpc'[v] = wpc[v] /\ next'[v] = next[v]
  BY <1>1, <1>2
<1>4. /\ next[w] \in Ring /\ data'[next[w]] = cmd[w] /\ cmd[w].req \in Requests
      /\ \A s \in Ring \ {next[w]} : data'[s] = data[s]
  BY <1>1, <1>2 DEF ScanInv
<1>5. \A s : Waiting(s)' <=> Waiting(s)
  BY <1>1 DEF Waiting
<1>6. \A s : Filling(s)' <=> Filling(s) /\ s # next[w]
  BY <1>1, <1>3 DEF Filling, RingInv
<1>7. Filling(next[w]) /\ Waiting(next[w])
  BY <1>1 DEF Filling, RingInv
<1>8. /\ \A s \in Ring : Full(s)' <=> Full(s) \/ s = next[w]
      /\ ~Full(next[w])
  BY <1>5, <1>6, <1>7 DEF Full
<1>9. \A s \in Ring : Full(s)' => data'[s].req \in Requests
  BY <1>4, <1>8 DEF RingInv
<1>10. /\ \A v \in Workers : wpc'[v] \in {"tail", "data"} =>
              v # w /\ wpc[v] = wpc'[v] /\ next'[v] = next[v]
  BY <1>3
<1> QED BY <1>1, <1>4, <1>5, <1>8, <1>9, <1>10 DEF RingInv

\* get_cmd frees a slot, and copies it before anybody can claim it again.
LEMMA RingPop ==
  ASSUME TypeOK, RingInv, Pop
  PROVE  RingInv' /\ \A s \in Ring : Full(s)' <=> Full(s)
<1>1. /\ UNCHANGED <<tail, data, next, wpc, got>> /\ gpc = "pop" /\ gpc' = "copy"
      /\ front # tail /\ front' = Succ(front)
  BY DEF Pop, work, push
<1>2. front \in Ring /\ tail \in Ring /\ next \in [Workers -> Ring]
  BY DEF TypeOK
<1>3. \A s \in Ring : Waiting(s)' <=> Waiting(s)
  BY <1>1, <1>2, BetweenPop DEF Waiting
<1>4. \A s \in Ring : Full(s)' <=> Full(s)
  BY <1>1, <1>3 DEF Full, Filling
<1>5. Succ(tail) # front'
  BY <1>1, <1>2, BetweenPop
<1> QED BY <1>1, <1>2, <1>3, <1>4, <1>5 DEF RingInv

\* The command that was waiting longest is with get_cmd.
LEMMA RingCopy ==
  ASSUME TypeOK, RingInv, Copy, ~slip'
  PROVE  /\ RingInv'
         /\ front \in Ring /\ Full(front) /\ got' = data[front]
         /\ \A s \in Ring : Full(s)' <=> Full(s) /\ s # front
<1>1. /\ UNCHANGED <<front, tail, data, next, wpc>> /\ gpc = "copy" /\ gpc' = "write"
      /\ got' = data[front] /\ ~Filling(front)
  BY DEF Copy, ring, work, push, Filling
<1>2. front \in Ring /\ tail \in Ring /\ next \in [Workers -> Ring]
  BY DEF TypeOK
<1>3. Full(front)
  BY <1>1 DEF Full, Waiting
<1>4. \A s \in Ring : Waiting(s)' <=> Waiting(s) /\ s # front
  BY <1>1, <1>2, BetweenEnd DEF Waiting
<1>5. \A s \in Ring : Full(s)' <=> Full(s) /\ s # front
  BY <1>1, <1>4 DEF Full, Filling
<1>6. \A w \in Workers : wpc[w] = "data" => Waiting(next[w])'
  BY <1>1, <1>2, <1>4 DEF RingInv, Filling
<1>7. got'.req \in Requests
  BY <1>1, <1>2, <1>3 DEF RingInv
<1> QED BY <1>1, <1>2, <1>3, <1>5, <1>6, <1>7 DEF RingInv

-----------------------------------------------------------------------------
(* A request is in one place at a time                                     *)

\* What a client has sent and nobody has read lies in its inbox in the order of
\* its numbers.
InboxInv ==
  \A c \in Conns :
    /\ \A i \in 1..Len(inbox[c]) : inbox[c][i].from = c /\ inbox[c][i].n <= sent[c]
    /\ \A i, k \in 1..Len(inbox[c]) : i < k => inbox[c][i].n < inbox[c][k].n

\* A request that was read is older than all that are not.
Was(r, s, box) ==
  /\ r.n <= s[r.from]
  /\ \A i \in 1..Len(box[r.from]) : r.n < box[r.from][i].n

\* The workers that have a request, and the request.
Holds(w) == wpc[w] \in {"parse", "tail", "data"}
Req(w)   == IF wpc[w] = "parse" THEN line[w] ELSE cmd[w].req

ReadInv ==
  /\ \A w \in Workers : Holds(w) => Was(Req(w), sent, inbox)
  /\ \A s \in Ring : Full(s) => Was(data[s].req, sent, inbox)
  /\ gpc = "write" => Was(got.req, sent, inbox)
  /\ \A c \in Conns : \A i \in 1..Len(replies[c]) : Was(replies[c][i], sent, inbox)

\* What was read is with one worker, or in one slot, or with get_cmd, or answered.
LineInv ==
  \A w \in Workers : Holds(w) =>
    /\ \A v \in Workers : Holds(v) /\ Req(v) = Req(w) => v = w
    /\ \A s \in Ring : Full(s) => data[s].req # Req(w)
    /\ gpc = "write" => got.req # Req(w)
    /\ \A c \in Conns : \A i \in 1..Len(replies[c]) : replies[c][i] # Req(w)

CmdInv ==
  \A s \in Ring : Full(s) =>
    /\ \A t \in Ring : Full(t) /\ data[t].req = data[s].req => t = s
    /\ gpc = "write" => got.req # data[s].req
    /\ \A c \in Conns : \A i \in 1..Len(replies[c]) : replies[c][i] # data[s].req

GotInv ==
  gpc = "write" => \A c \in Conns : \A i \in 1..Len(replies[c]) : replies[c][i] # got.req

AnsweredInv ==
  \A c, d \in Conns : \A i \in 1..Len(replies[c]), k \in 1..Len(replies[d]) :
    replies[c][i] = replies[d][k] => c = d /\ i = k

\* A request is nowhere twice.
Places == ReadInv /\ LineInv /\ CmdInv /\ GotInv /\ AnsweredInv

OnceInv == InboxInv /\ (Sound => RingInv /\ Places)

\* Steps that move no request, but for forgetting one.
LEMMA OnceKept ==
  ASSUME Places, UNCHANGED <<sent, inbox, replies>>,
         \A w \in Workers : Holds(w)' => Holds(w) /\ Req(w)' = Req(w),
         \A s \in Ring : Full(s)' => Full(s) /\ data'[s] = data[s],
         gpc' = "write" => gpc = "write" /\ got' = got
  PROVE  Places'
<1>1. ReadInv'
  BY DEF Places, ReadInv, Was
<1>2. LineInv'
  BY DEF Places, LineInv
<1>3. CmdInv'
  BY DEF Places, CmdInv
<1>4. GotInv' /\ AnsweredInv'
  BY DEF Places, GotInv, AnsweredInv
<1> QED BY <1>1, <1>2, <1>3, <1>4 DEF Places

\* Only requests are with workers, in the queue or among the replies.
LEMMA HeldRequests ==
  ASSUME TypeOK, ScanInv, RingInv
  PROVE  /\ \A w \in Workers : Holds(w) => Req(w) \in Requests
         /\ \A s \in Ring : Full(s) => data[s].req \in Requests
         /\ gpc = "write" => got.req \in Requests
         /\ \A c \in Conns : \A i \in 1..Len(replies[c]) : replies[c][i] \in Requests
<1>1. \A c \in Conns : replies[c] \in Seq(Requests)
  BY DEF TypeOK
<1> QED BY <1>1 DEF ScanInv, RingInv, Holds, Req

\* A new request is newer than every other.
LEMMA OnceSend ==
  ASSUME TypeOK, ScanInv, OnceInv, NEW c \in Conns, Send(c)
  PROVE  OnceInv'
<1> DEFINE r == [from |-> c, n |-> sent[c] + 1]
<1>1. /\ sent' = [sent EXCEPT ![c] = @ + 1] /\ inbox' = [inbox EXCEPT ![c] = Append(@, r)]
      /\ UNCHANGED <<replies, wpc, line, cmd, next, data, front, tail, gpc, got, clash, slip>>
  BY DEF Send, work, push, ring, getcmd
<1>2. /\ sent \in [Conns -> 0..MaxSent] /\ inbox \in [Conns -> Seq(Requests)] /\ MaxSent \in Nat
      /\ \A d \in Conns : sent[d] \in Nat
  BY EpollAssumption DEF TypeOK, EpollAssumption
<1>3. r \in Requests /\ r.from = c /\ r.n = sent[c] + 1
  <2>1. sent[c] \in Nat /\ sent[c] < MaxSent
    BY <1>2 DEF Send
  <2> QED BY <1>2, <2>1 DEF Requests
<1> HIDE DEF r
<1>4. /\ \A d \in Conns \ {c} : inbox'[d] = inbox[d] /\ sent'[d] = sent[d]
      /\ inbox'[c] = Append(inbox[c], r) /\ sent'[c] = sent[c] + 1
  BY <1>1, <1>2
<1>5. /\ Len(inbox[c]) \in Nat /\ Len(inbox'[c]) = Len(inbox[c]) + 1
      /\ inbox'[c][Len(inbox[c]) + 1] = r
      /\ \A i \in 1..Len(inbox[c]) : inbox'[c][i] = inbox[c][i] /\ inbox[c][i] \in Requests
  <2>1. inbox[c] \in Seq(Requests)
    BY <1>2
  <2> QED BY <1>3, <1>4, <2>1
<1>6. InboxInv'
  <2>1. ASSUME NEW i \in 1..Len(inbox'[c])
        PROVE  inbox'[c][i].from = c /\ inbox'[c][i].n <= sent'[c]
    <3>1. CASE i = Len(inbox[c]) + 1
      BY <1>2, <1>3, <1>4, <1>5, <3>1
    <3>2. CASE i \in 1..Len(inbox[c])
      <4>1. inbox[c][i].from = c /\ inbox[c][i].n <= sent[c] /\ inbox[c][i].n \in Nat
        BY <1>5, <3>2 DEF OnceInv, InboxInv, Requests
      <4> QED BY <1>2, <1>4, <1>5, <3>2, <4>1
    <3> QED BY <1>5, <3>1, <3>2
  <2>2. ASSUME NEW i \in 1..Len(inbox'[c]), NEW k \in 1..Len(inbox'[c]), i < k
        PROVE  inbox'[c][i].n < inbox'[c][k].n
    <3>1. i \in 1..Len(inbox[c])
      BY <1>5, <2>2
    <3>2. CASE k = Len(inbox[c]) + 1
      <4>1. inbox[c][i].n <= sent[c] /\ inbox[c][i].n \in Nat
        BY <1>5, <3>1 DEF OnceInv, InboxInv, Requests
      <4> QED BY <1>2, <1>3, <1>5, <3>1, <3>2, <4>1
    <3>3. CASE k \in 1..Len(inbox[c])
      BY <1>5, <2>2, <3>1, <3>3 DEF OnceInv, InboxInv
    <3> QED BY <1>5, <3>2, <3>3
  <2>3. ASSUME NEW d \in Conns \ {c}
        PROVE  /\ \A i \in 1..Len(inbox'[d]) : inbox'[d][i].from = d /\ inbox'[d][i].n <= sent'[d]
               /\ \A i, k \in 1..Len(inbox'[d]) : i < k => inbox'[d][i].n < inbox'[d][k].n
    BY <1>4 DEF OnceInv, InboxInv
  <2> QED BY <2>1, <2>2, <2>3 DEF InboxInv
<1>7. ASSUME NEW q \in Requests, Was(q, sent, inbox) PROVE Was(q, sent', inbox')
  <2>1. q.from \in Conns /\ q.n \in Nat
    BY DEF Requests
  <2>2. CASE q.from # c
    BY <1>4, <1>7, <2>1, <2>2 DEF Was
  <2>3. CASE q.from = c
    <3>1. q.n <= sent'[c] /\ q.n < r.n
      BY <1>2, <1>3, <1>4, <1>7, <2>1, <2>3 DEF Was
    <3>2. ASSUME NEW i \in 1..Len(inbox'[c]) PROVE q.n < inbox'[c][i].n
      <4>1. CASE i = Len(inbox[c]) + 1
        BY <1>5, <3>1, <4>1
      <4>2. CASE i \in 1..Len(inbox[c])
        BY <1>5, <1>7, <2>3, <4>2 DEF Was
      <4> QED BY <1>5, <4>1, <4>2
    <3> QED BY <2>3, <3>1, <3>2 DEF Was
  <2> QED BY <2>2, <2>3
<1>8. ASSUME Sound PROVE RingInv' /\ Places'
  <2>1. RingInv /\ Places
    BY <1>8 DEF OnceInv
  <2>2. RingInv' /\ \A s : Full(s)' <=> Full(s)
    BY <1>1, <2>1, RingKept DEF RingInv
  <2>3. \A w \in Workers : (Holds(w)' <=> Holds(w)) /\ Req(w)' = Req(w)
    BY <1>1 DEF Holds, Req
  <2>4. ReadInv'
    <3>1. /\ \A w \in Workers : Holds(w) => Req(w) \in Requests /\ Was(Req(w), sent, inbox)
          /\ \A s \in Ring : Full(s) => data[s].req \in Requests /\ Was(data[s].req, sent, inbox)
          /\ gpc = "write" => got.req \in Requests /\ Was(got.req, sent, inbox)
          /\ \A d \in Conns : \A i \in 1..Len(replies[d]) :
               replies[d][i] \in Requests /\ Was(replies[d][i], sent, inbox)
      BY <2>1, HeldRequests DEF Places, ReadInv
    <3>2. /\ \A w \in Workers : Holds(w) => Was(Req(w), sent', inbox')
          /\ \A s \in Ring : Full(s) => Was(data[s].req, sent', inbox')
          /\ gpc = "write" => Was(got.req, sent', inbox')
          /\ \A d \in Conns : \A i \in 1..Len(replies[d]) : Was(replies[d][i], sent', inbox')
      BY <1>7, <3>1
    <3> QED BY <1>1, <2>2, <2>3, <3>2 DEF ReadInv
  <2>5. LineInv'
    BY <1>1, <2>1, <2>2, <2>3 DEF Places, LineInv
  <2>6. CmdInv' /\ GotInv' /\ AnsweredInv'
    BY <1>1, <2>1, <2>2 DEF Places, CmdInv, GotInv, AnsweredInv
  <2> QED BY <2>2, <2>4, <2>5, <2>6 DEF Places
<1>9. Sound' => Sound
  BY <1>1 DEF Sound
<1> QED BY <1>6, <1>8, <1>9 DEF OnceInv

\* The oldest request of an inbox goes to the worker that reads it; what was
\* read with it is gone.
LEMMA OnceRead ==
  ASSUME IInv, OnceInv, NEW w \in Workers, Read(w)
  PROVE  OnceInv'
<1> DEFINE f == events[slot[w]]
           r == Head(inbox[f])
<1>1. /\ line' = [line EXCEPT ![w] = r] /\ inbox' = [inbox EXCEPT ![f] = SubSeq(@, ReadMax + 1, Len(@))]
      /\ wpc' = [wpc EXCEPT ![w] = "parse"] /\ wpc[w] = "read"
      /\ UNCHANGED <<sent, replies, cmd, next, data, front, tail, gpc, got, clash, slip>>
  BY DEF Read, push, ring, getcmd
<1>2. f \in Conns /\ inbox[f] \in Seq(Requests) /\ inbox[f] # <<>>
  BY DEF Read, IInv, TypeOK
<1>3. /\ inbox \in [Conns -> Seq(Requests)] /\ line \in [Workers -> Requests \cup {None}]
      /\ wpc \in [Workers -> {"idle", "read", "delete", "forget", "parse", "tail", "data"}]
      /\ ReadMax \in Nat \ {0} /\ sent \in [Conns -> 0..MaxSent]
  BY EpollAssumption DEF IInv, TypeOK, EpollAssumption
<1>4. r \in Requests /\ r = inbox[f][1] /\ Len(inbox[f]) \in Nat \ {0}
  BY <1>2, HeadTailType
<1>5. r.from = f /\ r.n <= sent[f] /\ r.n \in Nat
  BY <1>2, <1>4 DEF OnceInv, InboxInv, Requests
<1> HIDE DEF f, r
<1>6. \A d \in Conns \ {f} : inbox'[d] = inbox[d]
  BY <1>1, <1>3
<1>7. /\ Len(inbox'[f]) = IF ReadMax < Len(inbox[f]) THEN Len(inbox[f]) - ReadMax ELSE 0
      /\ \A i \in 1..Len(inbox[f]) - ReadMax : inbox'[f][i] = inbox[f][ReadMax + i]
  <2> DEFINE v == inbox[f]
             u == SubSeq(v, ReadMax + 1, Len(v))
  <2>1. inbox'[f] = u
    BY <1>1, <1>2, <1>3
  <2>2. ReadMax \in Nat /\ v \in Seq(Requests)
    BY <1>2, <1>3
  <2>3. /\ Len(u) = IF ReadMax < Len(v) THEN Len(v) - ReadMax ELSE 0
        /\ \A i \in 1..Len(v) - ReadMax : u[i] = v[ReadMax + i]
    <3> HIDE DEF v
    <3> QED BY <2>2, SuffixType
  <2> HIDE DEF u
  <2> QED BY <2>1, <2>3
<1>8. \A i \in 1..Len(inbox'[f]) : /\ ReadMax + i \in 2..Len(inbox[f])
                                   /\ inbox'[f][i] = inbox[f][ReadMax + i]
  BY <1>3, <1>4, <1>7
<1>9. ASSUME NEW i \in 1..Len(inbox[f]) PROVE inbox[f][i].n \in Nat
  <2>1. inbox[f][i] \in Requests
    BY <1>2, ElementType
  <2> QED BY <2>1 DEF Requests
<1>10. InboxInv'
  <2>1. /\ \A i \in 1..Len(inbox[f]) : inbox[f][i].from = f /\ inbox[f][i].n <= sent[f]
        /\ \A i, k \in 1..Len(inbox[f]) : i < k => inbox[f][i].n < inbox[f][k].n
    BY <1>2 DEF OnceInv, InboxInv
  <2>2. ASSUME NEW i \in 1..Len(inbox'[f])
        PROVE  inbox'[f][i].from = f /\ inbox'[f][i].n <= sent'[f]
    <3>1. ReadMax + i \in 1..Len(inbox[f]) /\ inbox'[f][i] = inbox[f][ReadMax + i]
      BY <1>8
    <3> QED BY <1>1, <2>1, <3>1
  <2>3. ASSUME NEW i \in 1..Len(inbox'[f]), NEW k \in 1..Len(inbox'[f]), i < k
        PROVE  inbox'[f][i].n < inbox'[f][k].n
    <3>1. /\ ReadMax + i \in 1..Len(inbox[f]) /\ ReadMax + k \in 1..Len(inbox[f])
          /\ ReadMax + i < ReadMax + k
      BY <1>3, <1>8, <2>3
    <3> QED BY <1>8, <2>1, <3>1
  <2>4. ASSUME NEW d \in Conns \ {f}
        PROVE  /\ \A i \in 1..Len(inbox'[d]) : inbox'[d][i].from = d /\ inbox'[d][i].n <= sent'[d]
               /\ \A i, k \in 1..Len(inbox'[d]) : i < k => inbox'[d][i].n < inbox'[d][k].n
    BY <1>1, <1>6 DEF OnceInv, InboxInv
  <2> QED BY <2>2, <2>3, <2>4 DEF InboxInv
<1>11. ASSUME NEW q \in Requests, Was(q, sent, inbox) PROVE Was(q, sent', inbox') /\ q # r
  <2>1. q # r
    BY <1>4, <1>5, <1>11 DEF Was
  <2>2. CASE q.from # f
    BY <1>1, <1>6, <1>11, <2>1, <2>2 DEF Was, Requests
  <2>3. CASE q.from = f
    <3>1. \A i \in 1..Len(inbox'[f]) : ReadMax + i \in 1..Len(inbox[f])
      BY <1>8
    <3>2. ASSUME NEW i \in 1..Len(inbox'[f]) PROVE q.n < inbox'[f][i].n
      BY <1>8, <1>11, <2>3, <3>1 DEF Was
    <3> QED BY <1>1, <1>11, <2>1, <2>3, <3>2 DEF Was
  <2> QED BY <2>2, <2>3
<1>12. Was(r, sent', inbox')
  <2>1. ASSUME NEW i \in 1..Len(inbox'[f]) PROVE r.n < inbox'[f][i].n
    <3>1. ReadMax + i \in 1..Len(inbox[f]) /\ 1 < ReadMax + i /\ 1 \in 1..Len(inbox[f])
      BY <1>3, <1>4, <1>8
    <3> QED BY <1>2, <1>4, <1>8, <3>1 DEF OnceInv, InboxInv
  <2> QED BY <1>1, <1>5, <2>1 DEF Was
<1>13. /\ line'[w] = r /\ wpc'[w] = "parse" /\ wpc[w] = "read"
       /\ \A v \in Workers \ {w} : line'[v] = line[v] /\ wpc'[v] = wpc[v]
  BY <1>1, <1>3
<1>14. /\ Holds(w)' /\ Req(w)' = r
       /\ \A v \in Workers \ {w} : (Holds(v)' <=> Holds(v)) /\ Req(v)' = Req(v)
  BY <1>1, <1>13 DEF Holds, Req
<1>15. ASSUME Sound PROVE RingInv' /\ Places'
  <2>1. RingInv /\ Places /\ TypeOK /\ ScanInv
    BY <1>15 DEF OnceInv, IInv
  <2>2. RingInv' /\ \A s : Full(s)' <=> Full(s)
    <3>1. \A v \in Workers : /\ wpc'[v] = "tail" <=> wpc[v] = "tail"
                             /\ wpc'[v] = "data" <=> wpc[v] = "data"
      BY <1>13
    <3> QED BY <1>1, <2>1, <3>1, RingKept DEF RingInv
  \* No request that was read before is r, and all are older than what is left.
  <2>3. /\ \A v \in Workers : Holds(v) => Was(Req(v), sent', inbox') /\ Req(v) # r
        /\ \A s \in Ring : Full(s) => Was(data[s].req, sent', inbox') /\ data[s].req # r
        /\ gpc = "write" => Was(got.req, sent', inbox') /\ got.req # r
        /\ \A d \in Conns : \A i \in 1..Len(replies[d]) :
             Was(replies[d][i], sent', inbox') /\ replies[d][i] # r
    <3>1. /\ \A v \in Workers : Holds(v) => Req(v) \in Requests /\ Was(Req(v), sent, inbox)
          /\ \A s \in Ring : Full(s) => data[s].req \in Requests /\ Was(data[s].req, sent, inbox)
          /\ gpc = "write" => got.req \in Requests /\ Was(got.req, sent, inbox)
          /\ \A d \in Conns : \A i \in 1..Len(replies[d]) :
               replies[d][i] \in Requests /\ Was(replies[d][i], sent, inbox)
      BY <2>1, HeldRequests DEF Places, ReadInv
    <3> QED BY <1>11, <3>1
  <2>4. ReadInv'
    BY <1>1, <1>12, <1>14, <2>2, <2>3 DEF ReadInv
  <2>5. LineInv'
    <3>1. ASSUME NEW v \in Workers, Holds(v)', NEW u \in Workers, Holds(u)', Req(u)' = Req(v)'
          PROVE  u = v
      BY <1>14, <2>1, <2>3, <3>1 DEF Places, LineInv
    <3>2. ASSUME NEW v \in Workers, Holds(v)'
          PROVE  /\ \A s \in Ring : Full(s) => data[s].req # Req(v)'
                 /\ gpc = "write" => got.req # Req(v)'
                 /\ \A c \in Conns : \A i \in 1..Len(replies[c]) : replies[c][i] # Req(v)'
      <4>1. CASE v = w
        BY <1>14, <2>3, <4>1
      <4>2. CASE v # w
        BY <1>14, <2>1, <3>2, <4>2 DEF Places, LineInv
      <4> QED BY <4>1, <4>2
    <3> QED BY <1>1, <2>2, <3>1, <3>2 DEF LineInv
  <2>6. CmdInv' /\ GotInv' /\ AnsweredInv'
    BY <1>1, <2>1, <2>2 DEF Places, CmdInv, GotInv, AnsweredInv
  <2> QED BY <2>2, <2>4, <2>5, <2>6 DEF Places
<1>16. Sound' => Sound
  BY <1>1 DEF Sound
<1> QED BY <1>10, <1>15, <1>16 DEF OnceInv

\* The request of a worker is filled into its slot.
LEMMA OncePushData ==
  ASSUME TypeOK, ScanInv, RingInv, Places, NEW w \in Workers, PushData(w)
  PROVE  Places'
<1>1. /\ UNCHANGED <<sent, inbox, replies, line, gpc, got>> /\ wpc[w] = "data"
      /\ wpc' = [wpc EXCEPT ![w] = "idle"] /\ cmd' = [cmd EXCEPT ![w] = Blank]
  BY DEF PushData, net, getcmd
<1>2. /\ wpc \in [Workers -> {"idle", "read", "delete", "forget", "parse", "tail", "data"}]
      /\ cmd \in [Workers -> Commands]
  BY DEF TypeOK
<1>3. /\ next[w] \in Ring /\ ~Full(next[w]) /\ data'[next[w]] = cmd[w]
      /\ \A s \in Ring : Full(s)' <=> Full(s) \/ s = next[w]
      /\ \A s \in Ring \ {next[w]} : data'[s] = data[s]
  BY RingPushData
<1>4. Holds(w) /\ Req(w) = cmd[w].req
  BY <1>1 DEF Holds, Req
<1>5. \A v \in Workers : Holds(v)' => v # w /\ Holds(v) /\ Req(v)' = Req(v)
  BY <1>1, <1>2 DEF Holds, Req
\* A full slot is an old one, or this one.
<1>6. \A s \in Ring : Full(s)' => \/ Full(s) /\ s # next[w] /\ data'[s].req = data[s].req
                                  \/ s = next[w] /\ data'[s].req = Req(w)
  BY <1>3, <1>4
<1>7. /\ Was(Req(w), sent, inbox)
      /\ \A v \in Workers : Holds(v) /\ Req(v) = Req(w) => v = w
      /\ \A s \in Ring : Full(s) => data[s].req # Req(w)
      /\ gpc = "write" => got.req # Req(w)
      /\ \A c \in Conns : \A i \in 1..Len(replies[c]) : replies[c][i] # Req(w)
  BY <1>4 DEF Places, ReadInv, LineInv
<1>8. ReadInv'
  <2>1. \A s \in Ring : Full(s)' => Was(data'[s].req, sent, inbox)
    BY <1>6, <1>7 DEF Places, ReadInv
  <2> QED BY <1>1, <1>5, <2>1 DEF Places, ReadInv
<1>9. LineInv'
  <2>1. ASSUME NEW v \in Workers, Holds(v)', NEW s \in Ring, Full(s)' PROVE data'[s].req # Req(v)'
    BY <1>5, <1>6, <1>7, <2>1 DEF Places, LineInv
  <2> QED BY <1>1, <1>5, <2>1 DEF Places, LineInv
<1>10. CmdInv'
  <2>1. ASSUME NEW s \in Ring, Full(s)', NEW t \in Ring, Full(t)', data'[t].req = data'[s].req
        PROVE  t = s
    BY <1>6, <1>7, <2>1 DEF Places, CmdInv
  <2>2. ASSUME NEW s \in Ring, Full(s)'
        PROVE  /\ gpc = "write" => got.req # data'[s].req
               /\ \A c \in Conns : \A i \in 1..Len(replies[c]) : replies[c][i] # data'[s].req
    BY <1>6, <1>7, <2>2 DEF Places, CmdInv
  <2> QED BY <1>1, <2>1, <2>2 DEF CmdInv
<1>11. GotInv' /\ AnsweredInv'
  BY <1>1 DEF Places, GotInv, AnsweredInv
<1> QED BY <1>8, <1>9, <1>10, <1>11 DEF Places

\* The request of the slot that waited longest goes to get_cmd.
LEMMA OnceCopy ==
  ASSUME TypeOK, RingInv, Places, Copy, ~slip'
  PROVE  Places'
<1>1. /\ UNCHANGED <<sent, inbox, replies, data, wpc, line, cmd>>
      /\ gpc = "copy" /\ gpc' = "write"
  BY DEF Copy, net, work, push, ring
<1>2. /\ front \in Ring /\ Full(front) /\ got' = data[front]
      /\ \A s \in Ring : Full(s)' <=> Full(s) /\ s # front
  BY RingCopy
<1>3. \A w \in Workers : (Holds(w)' <=> Holds(w)) /\ Req(w)' = Req(w)
  BY <1>1 DEF Holds, Req
<1>4. ReadInv'
  BY <1>1, <1>2, <1>3 DEF Places, ReadInv
<1>5. LineInv'
  BY <1>1, <1>2, <1>3 DEF Places, LineInv
<1>6. CmdInv'
  BY <1>1, <1>2 DEF Places, CmdInv
<1>7. GotInv' /\ AnsweredInv'
  BY <1>1, <1>2 DEF Places, CmdInv, GotInv, AnsweredInv
<1> QED BY <1>4, <1>5, <1>6, <1>7 DEF Places

\* get_cmd's request is answered.
LEMMA OnceReply ==
  ASSUME TypeOK, RingInv, Places, Reply
  PROVE  Places'
<1> DEFINE r == got.req
<1>1. /\ UNCHANGED <<sent, inbox, data, front, tail, wpc, line, cmd, next>>
      /\ gpc = "write" /\ gpc' = "pop" /\ got' = Blank
      /\ replies' = [c \in Conns |-> IF c = got.fd THEN Append(replies[c], r) ELSE replies[c]]
  BY DEF Reply, work, push, ring
<1>2. replies \in [Conns -> Seq(Requests)] /\ r \in Requests
  BY <1>1 DEF TypeOK, RingInv
<1> HIDE DEF r
<1>3. \A w \in Workers : (Holds(w)' <=> Holds(w)) /\ Req(w)' = Req(w)
  BY <1>1 DEF Holds, Req
<1>4. \A s \in Ring : Full(s)' <=> Full(s)
  BY <1>1 DEF Full, Waiting, Filling
\* A reply is an old one, or this one.
<1>5. ASSUME NEW c \in Conns, NEW i \in 1..Len(replies'[c])
      PROVE  \/ i \in 1..Len(replies[c]) /\ replies'[c][i] = replies[c][i]
             \/ c = got.fd /\ i = Len(replies[c]) + 1 /\ replies'[c][i] = r
  <2>1. replies[c] \in Seq(Requests)
    BY <1>2
  <2>2. CASE c # got.fd
    BY <1>1, <2>2
  <2>3. CASE c = got.fd
    <3>1. replies'[c] = Append(replies[c], r)
      BY <1>1, <2>3
    <3>2. /\ Len(replies[c]) \in Nat /\ Len(replies'[c]) = Len(replies[c]) + 1
          /\ replies'[c][Len(replies[c]) + 1] = r
          /\ \A k \in 1..Len(replies[c]) : replies'[c][k] = replies[c][k]
      BY <1>2, <2>1, <3>1
    <3> QED BY <2>3, <3>2
  <2> QED BY <2>2, <2>3
<1>6. /\ Was(r, sent, inbox)
      /\ \A w \in Workers : Holds(w) => Req(w) # r
      /\ \A s \in Ring : Full(s) => data[s].req # r
      /\ \A c \in Conns : \A i \in 1..Len(replies[c]) : replies[c][i] # r
  BY <1>1 DEF Places, ReadInv, LineInv, CmdInv, GotInv, r
<1>7. ReadInv'
  <2>1. ASSUME NEW c \in Conns, NEW i \in 1..Len(replies'[c])
        PROVE  Was(replies'[c][i], sent, inbox)
    BY <1>5, <1>6 DEF Places, ReadInv
  <2> QED BY <1>1, <1>3, <1>4, <2>1 DEF Places, ReadInv
<1>8. LineInv'
  <2>1. ASSUME NEW w \in Workers, Holds(w), NEW c \in Conns, NEW i \in 1..Len(replies'[c])
        PROVE  replies'[c][i] # Req(w)
    BY <1>5, <1>6, <2>1 DEF Places, LineInv
  <2> QED BY <1>1, <1>3, <1>4, <2>1 DEF Places, LineInv
<1>9. CmdInv'
  <2>1. ASSUME NEW s \in Ring, Full(s), NEW c \in Conns, NEW i \in 1..Len(replies'[c])
        PROVE  replies'[c][i] # data[s].req
    BY <1>5, <1>6, <2>1 DEF Places, CmdInv
  <2> QED BY <1>1, <1>4, <2>1 DEF Places, CmdInv
<1>10. AnsweredInv'
  <2> SUFFICES ASSUME NEW c \in Conns, NEW d \in Conns, NEW i \in 1..Len(replies'[c]),
                      NEW k \in 1..Len(replies'[d]), replies'[c][i] = replies'[d][k]
               PROVE  c = d /\ i = k
    BY DEF AnsweredInv
  <2>1. CASE replies'[c][i] = r
    <3>1. c = got.fd /\ i = Len(replies[c]) + 1
      BY <1>5, <1>6, <2>1
    <3>2. replies'[d][k] = r
      BY <2>1
    <3>3. d = got.fd /\ k = Len(replies[d]) + 1
      BY <1>5, <1>6, <3>2
    <3> QED BY <3>1, <3>3
  <2>2. CASE replies'[c][i] # r
    <3>1. i \in 1..Len(replies[c]) /\ replies'[c][i] = replies[c][i]
      BY <1>5, <2>2
    <3>2. replies'[d][k] # r
      BY <2>2
    <3>3. k \in 1..Len(replies[d]) /\ replies'[d][k] = replies[d][k]
      BY <1>5, <3>2
    <3>4. replies[c][i] = replies[d][k]
      BY <3>1, <3>3
    <3> QED BY <3>1, <3>3, <3>4 DEF Places, AnsweredInv
  <2> QED BY <2>1, <2>2
<1>11. GotInv'
  BY <1>1 DEF GotInv
<1> QED BY <1>7, <1>8, <1>9, <1>10, <1>11 DEF Places

\* Steps that move no request and touch neither the ring nor who works on it.
LEMMA OnceIdle ==
  ASSUME OnceInv,
         UNCHANGED <<sent, inbox, replies, line, cmd, next, data, front, tail, gpc, got,
                     clash, slip>>,
         \A w \in Workers : \/ wpc'[w] = wpc[w]
                            \/ {wpc[w], wpc'[w]} \cap {"parse", "tail", "data"} = {}
  PROVE  OnceInv'
<1>1. InboxInv'
  BY DEF OnceInv, InboxInv
<1>2. ASSUME Sound PROVE RingInv' /\ Places'
  <2>1. RingInv /\ Places
    BY <1>2 DEF OnceInv
  <2>2. \A w \in Workers : /\ wpc'[w] = "tail" <=> wpc[w] = "tail"
                           /\ wpc'[w] = "data" <=> wpc[w] = "data"
                           /\ Holds(w)' <=> Holds(w)
                           /\ Holds(w) => Req(w)' = Req(w)
    BY DEF Holds, Req
  <2>3. RingInv' /\ \A s : Full(s)' <=> Full(s)
    BY <2>1, <2>2, RingKept DEF RingInv
  <2>4. Places'
    BY <2>1, <2>2, <2>3, OnceKept
  <2> QED BY <2>3, <2>4
<1>3. Sound' => Sound
  BY DEF Sound
<1> QED BY <1>1, <1>2, <1>3 DEF OnceInv

\* What a worker parses goes into its command, or is lost.
LEMMA OnceParse ==
  ASSUME TypeOK, RingInv, Places, NEW w \in Workers, Parse(w), ~clash'
  PROVE  RingInv' /\ Places'
<1>1. RingInv' /\ \A s : Full(s)' <=> Full(s)
  BY RingParse
<1>2. UNCHANGED <<sent, inbox, replies, data, gpc, got>> /\ wpc[w] = "parse"
  BY DEF Parse, net, ring, getcmd
<1>3. /\ wpc \in [Workers -> {"idle", "read", "delete", "forget", "parse", "tail", "data"}]
      /\ line \in [Workers -> Requests \cup {None}] /\ cmd \in [Workers -> Commands]
  BY DEF TypeOK
<1>4. ASSUME NEW v \in Workers, Holds(v)' PROVE Holds(v) /\ Req(v)' = Req(v)
  <2>1. CASE v = w
    <3>1. ~IsFull
      BY <1>3, <1>4, <2>1 DEF Parse, Holds
    <3>2. /\ wpc' = [wpc EXCEPT ![w] = "tail"]
          /\ cmd' = [cmd EXCEPT ![w] = [fd |-> events[slot[w]], req |-> line[w]]]
      BY <3>1 DEF Parse
    <3>3. wpc'[w] = "tail" /\ cmd'[w].req = line[w]
      BY <1>3, <3>2
    <3> QED BY <1>2, <2>1, <3>3 DEF Holds, Req
  <2>2. CASE v # w
    <3>1. wpc'[v] = wpc[v] /\ line'[v] = line[v] /\ cmd'[v] = cmd[v]
      BY <1>3, <2>2 DEF Parse, push
    <3> QED BY <1>4, <3>1 DEF Holds, Req
  <2> QED BY <2>1, <2>2
<1>5. Places'
  BY <1>1, <1>2, <1>4, OnceKept
<1> QED BY <1>1, <1>5

\* Storing an index moves no request.
LEMMA OncePushTail ==
  ASSUME TypeOK, RingInv, Places, NEW w \in Workers, PushTail(w)
  PROVE  RingInv' /\ Places'
<1>1. RingInv' /\ \A s \in Ring : Full(s)' <=> Full(s)
  BY RingPushTail
<1>2. /\ UNCHANGED <<sent, inbox, replies, data, gpc, got, line, cmd>> /\ wpc[w] = "tail"
      /\ wpc' = [wpc EXCEPT ![w] = "data"]
  BY DEF PushTail, net, push, getcmd
<1>3. wpc'[w] = "data" /\ \A v \in Workers \ {w} : wpc'[v] = wpc[v]
  BY <1>2 DEF TypeOK
<1>4. \A v \in Workers : Holds(v)' => Holds(v) /\ Req(v)' = Req(v)
  BY <1>2, <1>3 DEF Holds, Req
<1> QED BY <1>1, <1>2, <1>4, OnceKept

LEMMA OncePop ==
  ASSUME TypeOK, RingInv, Places, Pop
  PROVE  RingInv' /\ Places'
<1>1. RingInv' /\ \A s \in Ring : Full(s)' <=> Full(s)
  BY RingPop
<1>2. UNCHANGED <<sent, inbox, replies, data, wpc, line, cmd>> /\ gpc' = "copy"
  BY DEF Pop, net, work, push
<1>3. \A v \in Workers : Holds(v)' => Holds(v) /\ Req(v)' = Req(v)
  BY <1>2 DEF Holds, Req
<1> QED BY <1>1, <1>2, <1>3, OnceKept

\* A command is done, with or without its reply.
LEMMA OnceDone ==
  ASSUME TypeOK, RingInv, Places, Reply \/ ReplyFails
  PROVE  RingInv' /\ Places'
<1>1. /\ UNCHANGED <<sent, inbox, data, front, tail, wpc, line, cmd, next>>
      /\ gpc = "write" /\ gpc' = "pop" /\ got' = Blank
  BY DEF Reply, ReplyFails, net, work, push, ring
<1>2. RingInv' /\ \A s : Full(s)' <=> Full(s)
  BY <1>1, RingKept
<1>3. CASE Reply
  BY <1>2, <1>3, OnceReply
<1>4. CASE ReplyFails
  <2>1. replies' = replies
    BY <1>4 DEF ReplyFails, net
  <2>2. \A v \in Workers : Holds(v)' => Holds(v) /\ Req(v)' = Req(v)
    BY <1>1 DEF Holds, Req
  <2> QED BY <1>1, <1>2, <2>1, <2>2, OnceKept
<1> QED BY <1>3, <1>4

\* Steps that work on the ring.
LEMMA OnceRing ==
  ASSUME IInv, OnceInv, UNCHANGED <<sent, inbox>>, Sound' => Sound,
         Sound' /\ RingInv /\ Places => RingInv' /\ Places'
  PROVE  OnceInv'
<1>1. InboxInv'
  BY DEF OnceInv, InboxInv
<1> QED BY <1>1 DEF OnceInv

\* No step puts a request in two places.
LEMMA OnceInductive == IInv /\ OnceInv /\ [Next]_vars => OnceInv'
<1> SUFFICES ASSUME IInv, OnceInv, [Next]_vars PROVE OnceInv'
  OBVIOUS
<1>1. TypeOK /\ ScanInv
  BY DEF IInv
<1>2. wpc \in [Workers -> {"idle", "read", "delete", "forget", "parse", "tail", "data"}]
  BY <1>1 DEF TypeOK
<1>3. ASSUME NEW c \in Conns, Client(c) PROVE OnceInv'
  <2>1. CASE Send(c)
    BY <1>1, <2>1, OnceSend
  <2>2. CASE Connect(c) \/ \E how \in Leavings : Leave(c, how)
    <3>1. UNCHANGED <<sent, inbox, replies, work, ring, getcmd, clash, slip>>
      BY <2>2 DEF Connect, Leave
    <3> QED BY <3>1, OnceIdle DEF work, push, ring, getcmd
  <2> QED BY <1>3, <2>1, <2>2 DEF Client
<1>4. CASE Loop
  <2>1. UNCHANGED <<sent, inbox, replies, work, ring, getcmd, clash, slip>>
    BY <1>4 DEF Loop, EpollWait, Accept, AcceptFails, Dispatch, net
  <2> QED BY <2>1, OnceIdle DEF work, push, ring, getcmd
<1>5. ASSUME NEW w \in Workers, Handle(w) PROVE OnceInv'
  <2>1. CASE Read(w)
    BY <2>1, OnceRead
  <2>2. CASE Take(w) \/ ReadNothing(w) \/ ReadEnd(w) \/ DeleteEvent(w) \/ ForgetClient(w)
    <3>1. /\ UNCHANGED <<sent, inbox, replies, line, push, ring, getcmd, clash, slip>>
          /\ wpc[w] \in {"idle", "read", "delete", "forget"}
          /\ \E to \in {"idle", "read", "delete", "forget"} : wpc' = [wpc EXCEPT ![w] = to]
      BY <2>2 DEF Take, ReadNothing, ReadEnd, DeleteEvent, ForgetClient, net
    <3>2. \A v \in Workers : \/ wpc'[v] = wpc[v]
                             \/ {wpc[v], wpc'[v]} \cap {"parse", "tail", "data"} = {}
      BY <1>2, <3>1
    <3> QED BY <3>1, <3>2, OnceIdle DEF push, ring, getcmd
  <2>3. CASE Parse(w) \/ PushTail(w) \/ PushData(w)
    <3>1. UNCHANGED <<sent, inbox, slip>> /\ (clash' = clash \/ clash' = (clash \/ Overlaps(w)))
      BY <2>3 DEF Parse, PushTail, PushData, net
    <3>2. Sound' => Sound /\ ~clash'
      BY <3>1 DEF Sound
    <3>3. RingInv /\ Places /\ ~clash' => RingInv' /\ Places'
      BY <1>1, <2>3, OnceParse, OncePushTail, OncePushData, RingPushData
    <3> QED BY <3>1, <3>2, <3>3, OnceRing
  <2> QED BY <1>5, <2>1, <2>2, <2>3 DEF Handle
<1>6. CASE GetCmd
  <2>1. /\ UNCHANGED <<sent, inbox, clash>>
        /\ \/ slip' = slip
           \/ slip' = (slip \/ \E w \in Workers : wpc[w] = "data" /\ next[w] = front)
    BY <1>6 DEF GetCmd, Pop, Copy, Reply, ReplyFails, net
  <2>2. Sound' => Sound /\ ~slip'
    BY <2>1 DEF Sound
  <2>3. RingInv /\ Places /\ ~slip' => RingInv' /\ Places'
    BY <1>1, <1>6, OncePop, OnceCopy, RingCopy, OnceDone DEF GetCmd
  <2> QED BY <2>1, <2>2, <2>3, OnceRing
<1>7. CASE UNCHANGED vars
  <2>1. UNCHANGED <<sent, inbox, replies, work, ring, getcmd, clash, slip>>
    BY <1>7 DEF vars, net
  <2> QED BY <2>1, OnceIdle DEF work, push, ring, getcmd
<1> QED BY <1>3, <1>4, <1>5, <1>6, <1>7 DEF Next

\* Threads may race for the array and the sockets, and the pushes of the workers
\* for the ring: until two pushes claim one slot, or get_cmd takes a slot before it
\* is filled, no request is answered twice, to whichever client.
THEOREM NeverAnsweredTwice == Spec => []AnsweredOnce
<1>1. Init => OnceInv
  <2> SUFFICES ASSUME Init PROVE OnceInv
    OBVIOUS
  <2>1. InboxInv /\ AnsweredInv
    BY DEF Init, InboxInv, AnsweredInv
  <2>2. \A w \in Workers : wpc[w] = "idle"
    BY DEF Init
  <2>3. \A s \in Ring : ~Waiting(s)
    BY DEF Init, Waiting, Between, Ring
  <2>4. RingInv
    BY <2>2, <2>3 DEF Init, RingInv, Full
  <2>5. Places
    BY <2>1, <2>2, <2>3 DEF Init, Places, ReadInv, LineInv, CmdInv, GotInv, Holds, Full
  <2> QED BY <2>1, <2>4, <2>5 DEF OnceInv
<1>2. OnceInv => AnsweredOnce
  BY DEF OnceInv, Sound, Places, AnsweredInv, AnsweredOnce
<1> QED BY <1>1, <1>2, InitInv, Inductive, OnceInductive, PTL DEF Spec

=============================================================================
