-------------------------- MODULE ClientListProofs --------------------------
(***************************************************************************)
(* Proofs about ClientList, for any number of threads, any MAX_CONNECT and *)
(* any number of calls.                                                    *)
(***************************************************************************)
EXTENDS ClientList, FiniteSetTheorems, TLAPS

USE ListAssumption DEF Threads

\* tailindex stays below MAX_CONNECT because only a store that was inside
\* clilist[] is counted up, and whoever counts down leaves it lower.
BoundInv ==
  /\ TypeOK
  /\ \A th \in Threads : pc[th] = "count" => loaded[th] <= MaxConnect
  /\ \A th \in Threads : pc[th] = "shift" => i[th] < MaxConnect
  /\ \A th \in Threads : pc[th] = "idle" => i[th] = 0
  /\ ~overrun => /\ pc[Loop] = "load" => tailindex < MaxConnect
                 /\ pc[Loop] = "count" => loaded[Loop] < MaxConnect

LEMMA BoundStep == ASSUME BoundInv, [Next]_vars PROVE BoundInv'
<1> USE DEF BoundInv, TypeOK, Busy, Goto, Slots
<1>1. CASE \E f \in Fds : Accept(f)
  BY <1>1 DEF Accept, Begin, list
<1>2. CASE AddStore
  <2>1. overrun' \in BOOLEAN /\ (~overrun' => tailindex \in Slots)
    BY <1>2 DEF AddStore
  <2>2. clilist' \in [Slots -> Fds \cup {None}]
    BY <1>2 DEF AddStore
  <2>3. /\ pc[Loop] = "store" /\ pc' = [pc EXCEPT ![Loop] = "load"]
        /\ UNCHANGED <<tailindex, fd, i, j, loaded, history>>
    BY <1>2 DEF AddStore
  <2> QED BY <2>1, <2>2, <2>3 DEF history
<1>3. ASSUME NEW th \in Threads, Load(th) PROVE BoundInv'
  BY <1>3 DEF Load, list, history
<1>4. CASE AddCount
  <2>1. pc[Loop] = "count" /\ ~overrun /\ UNCHANGED <<clilist, overrun, dels, missed, clash>>
    BY <1>4 DEF AddCount
  <2>2. /\ pc' = [pc EXCEPT ![Loop] = "idle"] /\ fd' = [fd EXCEPT ![Loop] = None]
        /\ i' = [i EXCEPT ![Loop] = 0] /\ j' = [j EXCEPT ![Loop] = 0]
        /\ loaded' = [loaded EXCEPT ![Loop] = 0]
    BY <1>4 DEF AddCount, Return
  <2>3. tailindex' = loaded[Loop] + 1 /\ added' \subseteq Fds /\ members' \subseteq added'
    BY <1>4, <2>1 DEF AddCount
  <2> QED BY <2>1, <2>2, <2>3
<1>5. ASSUME NEW th \in Deleters, NEW f \in Fds, Gone(th, f) PROVE BoundInv'
  BY <1>5 DEF Gone, Begin, list
<1>6. ASSUME NEW th \in Deleters, FindMatch(th) PROVE BoundInv'
  BY <1>6 DEF FindMatch, list, history
<1>7. ASSUME NEW th \in Deleters, FindNext(th) PROVE BoundInv'
  BY <1>7 DEF FindNext, list, history
<1>8. ASSUME NEW th \in Deleters, FindEnd(th) PROVE BoundInv'
  BY <1>8 DEF FindEnd, list, history
<1>9. ASSUME NEW th \in Deleters, Shift(th) PROVE BoundInv'
  BY <1>9 DEF Shift, history
<1>10. ASSUME NEW th \in Deleters, ShiftEnd(th) PROVE BoundInv'
  <2>1. /\ pc[th] = "shift" /\ ~overrun /\ j[th] >= tailindex - 1
        /\ i' = [i EXCEPT ![th] = @ + 1] /\ pc' = [pc EXCEPT ![th] = "find"]
        /\ UNCHANGED <<clilist, tailindex, overrun, fd, j, loaded, added, members, dels, missed, clash>>
    BY <1>10 DEF ShiftEnd, Goto, list, history
  <2> QED BY <2>1
<1>11. ASSUME NEW th \in Deleters, DelCount(th) PROVE BoundInv'
  <2>1. pc[th] = "count" /\ UNCHANGED <<clilist, overrun, added, clash>>
    BY <1>11 DEF DelCount
  <2>2. /\ pc' = [pc EXCEPT ![th] = "idle"] /\ fd' = [fd EXCEPT ![th] = None]
        /\ i' = [i EXCEPT ![th] = 0] /\ j' = [j EXCEPT ![th] = 0]
        /\ loaded' = [loaded EXCEPT ![th] = 0]
    BY <1>11 DEF DelCount, Return
  <2>3. /\ tailindex' = loaded[th] - 1 /\ dels' = dels + 1 /\ members' \subseteq added
        /\ missed' \in BOOLEAN
    BY <1>11 DEF DelCount
  <2> QED BY <2>1, <2>2, <2>3
<1>12. CASE UNCHANGED vars
  BY <1>12 DEF vars, list, locals, history
<1> QED
  BY <1>1, <1>2, <1>3, <1>4, <1>5, <1>6, <1>7, <1>8, <1>9, <1>10, <1>11, <1>12
  DEF Next, Add, Run

-----------------------------------------------------------------------------
(* How far tailindex may be from the number of clients                     *)

DriftInv ==
  /\ IsFiniteSet(added)
  /\ Busy(Loop) => fd[Loop] \notin added
  /\ -dels <= tailindex /\ tailindex <= Cardinality(added)
  /\ \A th \in Threads : pc[th] = "count" =>
       -dels <= loaded[th] /\ loaded[th] <= Cardinality(added)
  /\ ~clash =>
       /\ \A th, u \in Threads : Busy(th) /\ Busy(u) => th = u
       /\ tailindex = Cardinality(added) - dels
       /\ \A th \in Threads : pc[th] = "count" => loaded[th] = tailindex

\* A call that begins either overlaps another one or is alone.
LEMMA DriftBegin ==
  ASSUME BoundInv, DriftInv, NEW th \in Threads, NEW f \in Fds, NEW label,
         label \in {"store", "find"}, Begin(th, f, label), th = Loop => f \notin added,
         UNCHANGED <<tailindex, loaded, added, dels>>
  PROVE  DriftInv'
<1> USE DEF BoundInv, TypeOK, DriftInv, Busy
<1>1. pc' = [pc EXCEPT ![th] = label] /\ fd' = [fd EXCEPT ![th] = f]
  BY DEF Begin, Goto
<1>2. ~clash' => ~clash /\ \A u \in Threads : pc[u] = "idle"
  BY DEF Begin
<1> QED BY <1>1, <1>2

\* A step that leaves tailindex and the sets of clients alone.
LEMMA DriftInside ==
  ASSUME BoundInv, DriftInv, NEW th \in Threads, NEW label,
         Busy(th), label # "idle", pc' = [pc EXCEPT ![th] = label],
         label = "count" => loaded'[th] = tailindex,
         \A u \in Threads : u # th => loaded'[u] = loaded[u],
         UNCHANGED <<tailindex, fd, added, dels, clash>>
  PROVE  DriftInv'
  BY DEF BoundInv, TypeOK, DriftInv, Busy

LEMMA DriftStep == ASSUME BoundInv, DriftInv, [Next]_vars PROVE DriftInv'
<1> USE DEF BoundInv, TypeOK, Busy, history, list
<1>1. CASE \E f \in Fds : Accept(f)
  BY <1>1, DriftBegin DEF Accept
<1>2. CASE AddStore
  BY <1>2, DriftInside DEF AddStore, Goto
<1>3. ASSUME NEW th \in Threads, Load(th) PROVE DriftInv'
  BY <1>3, DriftInside DEF Load, Goto
<1>4. CASE AddCount
  <2>1. /\ pc[Loop] = "count" /\ pc' = [pc EXCEPT ![Loop] = "idle"]
        /\ fd' = [fd EXCEPT ![Loop] = None] /\ loaded' = [loaded EXCEPT ![Loop] = 0]
        /\ tailindex' = loaded[Loop] + 1 /\ UNCHANGED <<dels, clash>>
    BY <1>4 DEF AddCount, Return, Goto
  <2>2. /\ IsFiniteSet(added') /\ Cardinality(added') = Cardinality(added) + 1
        /\ Cardinality(added) \in Nat
    BY <1>4, <2>1, FS_AddElement, FS_CardinalityType DEF AddCount, DriftInv
  <2> QED BY <2>1, <2>2 DEF DriftInv
<1>5. ASSUME NEW th \in Deleters, NEW f \in Fds, Gone(th, f) PROVE DriftInv'
  BY <1>5, DriftBegin DEF Gone
<1>6. ASSUME NEW th \in Deleters, FindMatch(th) \/ FindEnd(th) \/ ShiftEnd(th) PROVE DriftInv'
  BY <1>6, DriftInside DEF FindMatch, FindEnd, ShiftEnd, Goto
<1>7. ASSUME NEW th \in Deleters, FindNext(th) \/ Shift(th) PROVE DriftInv'
  BY <1>7 DEF FindNext, Shift, DriftInv
<1>8. ASSUME NEW th \in Deleters, DelCount(th) PROVE DriftInv'
  <2>1. /\ pc[th] = "count" /\ pc' = [pc EXCEPT ![th] = "idle"]
        /\ fd' = [fd EXCEPT ![th] = None] /\ loaded' = [loaded EXCEPT ![th] = 0]
        /\ tailindex' = loaded[th] - 1 /\ dels' = dels + 1 /\ UNCHANGED <<added, clash>>
    BY <1>8 DEF DelCount, Return, Goto
  <2>2. Cardinality(added) \in Nat
    BY FS_CardinalityType DEF DriftInv
  <2> QED BY <2>1, <2>2 DEF DriftInv
<1>9. CASE UNCHANGED vars
  BY <1>9 DEF vars, locals, DriftInv
<1> QED
  BY <1>1, <1>2, <1>3, <1>4, <1>5, <1>6, <1>7, <1>8, <1>9 DEF Next, Add, Run

\* The invariants hold at the start.
LEMMA InitInv == Init => BoundInv /\ DriftInv
<1> SUFFICES ASSUME Init PROVE BoundInv /\ DriftInv
  OBVIOUS
<1>1. BoundInv
  <2>1. 0 \in Slots /\ 0 \in 0..MaxConnect
    BY DEF Slots
  <2>2. TypeOK
    <3>1. overrun \in BOOLEAN /\ missed \in BOOLEAN /\ clash \in BOOLEAN
      BY DEF Init
    <3>2. tailindex = 0 /\ dels = 0 /\ added = {} /\ members = {}
      BY DEF Init
    <3>3. /\ clilist \in [Slots -> Fds \cup {None}] /\ fd \in [Threads -> Fds \cup {None}]
          /\ i \in [Threads -> 0..MaxConnect] /\ j \in [Threads -> Slots]
          /\ loaded \in [Threads -> Int]
      BY <2>1 DEF Init
    <3>4. pc = [th \in Threads |-> "idle"]
      BY DEF Init
    <3> QED BY <3>1, <3>2, <3>3, <3>4 DEF TypeOK, Busy
  <2> QED BY <2>2 DEF Init, BoundInv
<1>2. DriftInv
  BY FS_EmptySet DEF Init, DriftInv, Busy
<1> QED BY <1>1, <1>2

\* The types of the list and of the calls, and with them that tailindex never
\* exceeds MAX_CONNECT while clilist[] is intact.
THEOREM TypeCorrect == Spec => []TypeOK
<1>1. BoundInv => TypeOK
  BY DEF BoundInv
<1> QED BY <1>1, InitInv, BoundStep, PTL DEF Spec

\* tailindex stays between minus the removals and the additions, whatever the
\* interleaving, and counts them exactly when calls do not overlap.
THEOREM DriftIsBounded == Spec => []DriftBounded
<1>1. BoundInv /\ DriftInv => DriftBounded
  BY DEF BoundInv, DriftInv, DriftBounded
<1> QED BY <1>1, InitInv, BoundStep, DriftStep, PTL DEF Spec

-----------------------------------------------------------------------------
(* The list holds its members while calls do not overlap                   *)

\* The slots of K hold the clients of S, each once.
Holds(K, S) ==
  /\ \A k \in K : clilist[k] \in S
  /\ \A k, l \in K : clilist[k] = clilist[l] => k = l
  /\ \A f \in S : \E k \in K : clilist[k] = f

Listed == 0..tailindex - 1

\* del_clilist on a client that is listed: either it has not been met, or the
\* entries behind it have moved up, and the last slot is no longer needed.
DelInv(th) ==
  /\ pc[th] = "find" =>
       \/ Holds(Listed, members) /\ \A k \in 0..i[th] - 1 : clilist[k] # fd[th]
       \/ /\ Holds(Listed \ {tailindex - 1}, members \ {fd[th]})
          /\ \A k \in Listed : k >= i[th] => clilist[k] # fd[th]
  /\ pc[th] = "shift" =>
       /\ j[th] \in Listed /\ i[th] <= j[th]
       /\ Holds(Listed \ {j[th]}, members \ {fd[th]})
       /\ j[th] > i[th] => clilist[j[th]] # fd[th]
  /\ pc[th] \in {"load", "count"} => Holds(Listed \ {tailindex - 1}, members \ {fd[th]})

ListInv ==
  ~clash /\ ~missed /\ ~overrun =>
    /\ tailindex = Cardinality(members)
    /\ (\A th \in Deleters : ~Busy(th)) => Holds(Listed, members)
    /\ pc[Loop] \in {"load", "count"} => tailindex \in Slots /\ clilist[tailindex] = fd[Loop]
    /\ \A th \in Deleters : Busy(th) /\ fd[th] \in members => DelInv(th)

OverrunInv == overrun => missed \/ clash \/ Cardinality(members) >= MaxConnect

AllInv == BoundInv /\ DriftInv /\ ListInv /\ OverrunInv

\* members is finite, so it has a size.
LEMMA MembersFinite ==
  ASSUME BoundInv, DriftInv
  PROVE  IsFiniteSet(members) /\ Cardinality(members) \in Nat
<1>1. members \subseteq added /\ IsFiniteSet(added)
  BY DEF BoundInv, TypeOK, DriftInv
<1> QED BY <1>1, FS_Subset, FS_CardinalityType

\* The steps of a removal, which is alone.
LEMMA RunStep ==
  ASSUME AllInv, NEW th \in Deleters, Run(th)
  PROVE  ListInv'
<1> SUFFICES ASSUME ~clash', ~missed', ~overrun' PROVE
      /\ tailindex' = Cardinality(members')
      /\ (\A u \in Deleters : ~Busy(u)') => Holds(Listed, members)'
      /\ pc[Loop]' \in {"load", "count"} => (tailindex \in Slots /\ clilist[tailindex] = fd[Loop])'
      /\ \A u \in Deleters : Busy(u)' /\ fd[u]' \in members' => DelInv(u)'
  BY DEF ListInv
<1> USE DEF Busy, history, list
<1>1. /\ ~clash /\ ~missed /\ ~overrun /\ Busy(th) /\ pc[Loop] # "store"
      /\ \A u \in Threads : u # th => pc[u] = "idle" /\ pc'[u] = "idle"
  <2>1. Busy(th) /\ ~clash /\ ~missed /\ ~overrun
    <3>1. CASE DelCount(th)
      BY <3>1 DEF DelCount
    <3> QED BY <3>1 DEF Run, FindMatch, FindNext, FindEnd, Shift, ShiftEnd, Load
  <2>2. \A u \in Threads : u # th => pc[u] = "idle" /\ pc'[u] = pc[u]
    BY <2>1 DEF AllInv, DriftInv, BoundInv, TypeOK, Run, FindMatch, FindNext, FindEnd, Shift,
       ShiftEnd, Load, DelCount, Goto, Return
  <2> QED BY <2>1, <2>2
<1>2. /\ tailindex = Cardinality(members) /\ tailindex \in Nat
      /\ fd[th] \in members => DelInv(th)
  BY <1>1, MembersFinite DEF AllInv, ListInv
<1>3. /\ clilist \in [Slots -> Fds \cup {None}]
      /\ pc \in [Threads -> {"idle", "store", "load", "count", "find", "shift"}]
      /\ i \in [Threads -> 0..MaxConnect] /\ j \in [Threads -> Slots]
      /\ fd \in [Threads -> Fds \cup {None}] /\ loaded \in [Threads -> Int]
      /\ tailindex <= MaxConnect
  BY DEF AllInv, BoundInv, TypeOK
<1>4. CASE DelCount(th)
  <2>1. /\ pc[th] = "count" /\ fd[th] \in members /\ tailindex' = loaded[th] - 1
        /\ members' = members \ {fd[th]} /\ clilist' = clilist /\ pc' = [pc EXCEPT ![th] = "idle"]
    BY <1>1, <1>4 DEF DelCount, Return, Goto
  <2>2. loaded[th] = tailindex
    BY <1>1, <2>1 DEF AllInv, DriftInv
  <2>3. Cardinality(members') = Cardinality(members) - 1
    BY <2>1, MembersFinite, FS_RemoveElement DEF AllInv
  <2>4. Holds(Listed \ {tailindex - 1}, members \ {fd[th]})
    BY <1>2, <2>1 DEF DelInv
  <2>5. Listed' = Listed \ {tailindex - 1}
    BY <1>2, <2>1, <2>2 DEF Listed
  <2>6. Holds(Listed, members)'
    BY <2>1, <2>4, <2>5 DEF Holds
  <2> QED BY <1>1, <1>2, <1>3, <2>1, <2>2, <2>3, <2>6
<1>5. ASSUME ~DelCount(th), fd[th] \in members PROVE DelInv(th)' /\ Busy(th)'
  <2> USE DEF Goto
  <2>1. CASE FindMatch(th)
    <3>1. /\ pc[th] = "find" /\ i[th] \in Listed /\ clilist[i[th]] = fd[th]
          /\ pc'[th] = "shift" /\ j'[th] = i[th]
          /\ UNCHANGED <<clilist, tailindex, members, fd, i>>
      BY <1>2, <1>3, <2>1 DEF FindMatch, Listed
    <3>2. Holds(Listed, members)
      BY <1>2, <1>3, <1>5, <3>1 DEF DelInv
    <3>3. Holds(Listed \ {i[th]}, members \ {fd[th]})
      BY <3>1, <3>2 DEF Holds
    <3> QED BY <1>3, <3>1, <3>3 DEF DelInv, Holds, Listed
  <2>2. CASE FindNext(th)
    <3>1. /\ pc[th] = "find" /\ pc'[th] = "find" /\ clilist[i[th]] # fd[th] /\ i'[th] = i[th] + 1
          /\ UNCHANGED <<clilist, tailindex, members, fd>>
      BY <1>3, <2>2 DEF FindNext
    <3> QED BY <1>2, <1>3, <1>5, <3>1 DEF DelInv, Holds, Listed
  <2>3. CASE FindEnd(th)
    <3>1. /\ pc[th] = "find" /\ pc'[th] = "load" /\ i[th] >= tailindex
          /\ UNCHANGED <<clilist, tailindex, members, fd>>
      BY <1>3, <2>3 DEF FindEnd
    <3>2. ~(Holds(Listed, members) /\ \A k \in 0..i[th] - 1 : clilist[k] # fd[th])
      BY <1>2, <1>3, <1>5, <3>1 DEF Holds, Listed
    <3>3. Holds(Listed \ {tailindex - 1}, members \ {fd[th]})
      BY <1>2, <1>5, <3>1, <3>2 DEF DelInv
    <3> QED BY <3>1, <3>3 DEF DelInv, Holds, Listed
  <2>4. CASE Shift(th)
    <3>1. /\ pc[th] = "shift" /\ pc'[th] = "shift" /\ j[th] < tailindex - 1 /\ j'[th] = j[th] + 1
          /\ clilist' = [clilist EXCEPT ![j[th]] = clilist[j[th] + 1]]
          /\ UNCHANGED <<tailindex, members, fd, i>>
      BY <1>3, <2>4 DEF Shift
    <3>2. /\ j[th] \in Listed /\ i[th] <= j[th] /\ Holds(Listed \ {j[th]}, members \ {fd[th]})
      BY <1>2, <1>5, <3>1 DEF DelInv
    <3>3. j[th] + 1 \in Listed \ {j[th]} /\ Listed \subseteq Slots
      BY <1>2, <1>3, <3>1, <3>2 DEF Listed, Slots
    <3>4. \A k \in Slots : clilist'[k] = IF k = j[th] THEN clilist[j[th] + 1] ELSE clilist[k]
      BY <1>3, <3>1
    <3>5. Holds(Listed \ {j[th]}, members \ {fd[th]})'
      BY <3>1, <3>2, <3>3, <3>4 DEF Holds, Listed
    <3>6. clilist'[j[th] + 1] # fd[th]
      BY <3>2, <3>3, <3>4 DEF Holds
    <3> QED BY <1>3, <3>1, <3>2, <3>3, <3>5, <3>6 DEF DelInv, Listed
  <2>5. CASE ShiftEnd(th)
    <3>1. /\ pc[th] = "shift" /\ pc'[th] = "find" /\ j[th] >= tailindex - 1 /\ i'[th] = i[th] + 1
          /\ UNCHANGED <<clilist, tailindex, members, fd>>
      BY <1>3, <2>5 DEF ShiftEnd
    <3>2. /\ j[th] \in Listed /\ i[th] <= j[th] /\ Holds(Listed \ {j[th]}, members \ {fd[th]})
          /\ j[th] > i[th] => clilist[j[th]] # fd[th]
      BY <1>2, <1>5, <3>1 DEF DelInv
    <3>3. j[th] = tailindex - 1
      BY <1>2, <1>3, <3>1, <3>2 DEF Listed
    <3>4. \A k \in Listed : k >= i[th] + 1 => clilist[k] # fd[th]
      BY <1>2, <1>3, <3>2, <3>3 DEF Holds, Listed
    <3> QED BY <3>1, <3>2, <3>3, <3>4 DEF DelInv, Holds, Listed
  <2>6. CASE Load(th)
    <3>1. /\ pc[th] = "load" /\ pc'[th] = "count"
          /\ UNCHANGED <<clilist, tailindex, members, fd>>
      BY <1>3, <2>6 DEF Load
    <3> QED BY <1>2, <1>5, <3>1 DEF DelInv, Holds, Listed
  <2> QED BY <1>5, <2>1, <2>2, <2>3, <2>4, <2>5, <2>6 DEF Run
<1>6. CASE ~DelCount(th)
  <2>1. UNCHANGED <<tailindex, members, fd>> /\ Busy(th)'
    BY <1>3, <1>6 DEF Run, FindMatch, FindNext, FindEnd, Shift, ShiftEnd, Load, Goto
  <2> QED BY <1>1, <1>2, <1>5, <1>6, <2>1
<1> QED BY <1>4, <1>6

LEMMA ListStep == ASSUME AllInv, [Next]_vars PROVE ListInv'
<1> USE DEF Busy, history, list
<1>1. /\ clilist \in [Slots -> Fds \cup {None}]
      /\ pc \in [Threads -> {"idle", "store", "load", "count", "find", "shift"}]
      /\ fd \in [Threads -> Fds \cup {None}] /\ loaded \in [Threads -> Int]
      /\ \A th \in Deleters : pc[th] # "store"
      /\ pc[Loop] \in {"idle", "store", "load", "count"}
  BY DEF AllInv, BoundInv, TypeOK
<1>2. CASE \E f \in Fds : Accept(f)
  <2>1. PICK f \in Fds : Accept(f)
    BY <1>2
  <2>2. /\ pc' = [pc EXCEPT ![Loop] = "store"] /\ fd' = [fd EXCEPT ![Loop] = f]
        /\ UNCHANGED <<clilist, tailindex, overrun, i, j, members, missed>>
        /\ ~clash' => ~clash
    BY <2>1 DEF Accept, Begin, Goto
  <2> QED BY <1>1, <2>2 DEF AllInv, ListInv, DelInv, Holds, Listed
<1>3. CASE AddStore
  <2> SUFFICES ASSUME ~clash', ~missed', ~overrun' PROVE ListInv'
    BY DEF ListInv
  <2>1. /\ pc[Loop] = "store" /\ tailindex \in Slots /\ ~clash /\ ~missed /\ ~overrun
        /\ clilist' = [k \in Slots |-> IF k = tailindex THEN fd[Loop] ELSE clilist[k]]
        /\ pc' = [pc EXCEPT ![Loop] = "load"]
        /\ UNCHANGED <<tailindex, fd, i, j, members>>
    BY <1>3 DEF AddStore, Goto
  <2>2. \A th \in Deleters : ~Busy(th) /\ ~Busy(th)'
    BY <1>1, <2>1 DEF AllInv, DriftInv
  <2>3. \A k \in Listed : clilist'[k] = clilist[k]
    BY <2>1 DEF Listed, Slots
  <2>4. tailindex = Cardinality(members) /\ Holds(Listed, members)
    BY <2>1, <2>2 DEF AllInv, ListInv
  <2>5. Holds(Listed, members)'
    BY <2>1, <2>3, <2>4 DEF Holds, Listed
  <2> QED BY <2>1, <2>2, <2>4, <2>5 DEF ListInv
<1>4. CASE Load(Loop)
  <2>1. /\ pc[Loop] = "load" /\ pc' = [pc EXCEPT ![Loop] = "count"]
        /\ UNCHANGED <<clilist, tailindex, overrun, fd, i, j, members, missed, clash>>
    BY <1>4 DEF Load, Goto
  <2> QED BY <1>1, <2>1 DEF AllInv, ListInv, DelInv, Holds, Listed
<1>5. CASE AddCount
  <2> SUFFICES ASSUME ~clash', ~missed', ~overrun' PROVE ListInv'
    BY DEF ListInv
  <2>1. /\ pc[Loop] = "count" /\ ~clash /\ ~missed /\ ~overrun
        /\ tailindex' = loaded[Loop] + 1 /\ members' = members \cup {fd[Loop]}
        /\ pc' = [pc EXCEPT ![Loop] = "idle"] /\ clilist' = clilist
    BY <1>5 DEF AddCount, Return, Goto
  <2>2. /\ \A th \in Deleters : ~Busy(th) /\ ~Busy(th)'
        /\ loaded[Loop] = tailindex /\ fd[Loop] \notin members
    <3>1. \A th \in Deleters : pc[th] = "idle" /\ pc'[th] = pc[th]
      BY <1>1, <2>1 DEF AllInv, DriftInv
    <3>2. fd[Loop] \notin added /\ members \subseteq added /\ loaded[Loop] = tailindex
      BY <2>1 DEF AllInv, DriftInv, BoundInv, TypeOK
    <3> QED BY <3>1, <3>2
  <2>3. /\ tailindex = Cardinality(members) /\ Holds(Listed, members)
        /\ clilist[tailindex] = fd[Loop]
    BY <2>1, <2>2 DEF AllInv, ListInv
  <2>4. tailindex \in Nat /\ Cardinality(members') = tailindex + 1
    <3>1. IsFiniteSet(members) /\ Cardinality(members) \in Nat
      BY MembersFinite DEF AllInv
    <3>2. Cardinality(members \cup {fd[Loop]}) = Cardinality(members) + 1
      BY <2>2, <3>1, FS_AddElement
    <3> QED BY <2>1, <2>3, <3>1, <3>2
  <2>5. Listed' = Listed \cup {tailindex}
    BY <2>1, <2>2, <2>4 DEF Listed
  <2>6. Holds(Listed, members)'
    BY <2>1, <2>2, <2>3, <2>5 DEF Holds
  <2> QED BY <1>1, <2>1, <2>2, <2>4, <2>6 DEF ListInv
<1>6. ASSUME NEW th \in Deleters, NEW f \in Fds, Gone(th, f) PROVE ListInv'
  <2> SUFFICES ASSUME ~clash', ~missed', ~overrun' PROVE ListInv'
    BY DEF ListInv
  <2>1. /\ pc' = [pc EXCEPT ![th] = "find"] /\ fd' = [fd EXCEPT ![th] = f]
        /\ UNCHANGED <<clilist, tailindex, i, j, members>>
        /\ ~clash /\ ~missed /\ ~overrun /\ \A u \in Threads : ~Busy(u)
    BY <1>6 DEF Gone, Begin, Goto
  <2>2. tailindex = Cardinality(members) /\ Holds(Listed, members)
    BY <2>1 DEF AllInv, ListInv
  <2>3. i[th] = 0
    BY <2>1 DEF AllInv, BoundInv
  <2> QED BY <1>1, <2>1, <2>2, <2>3 DEF ListInv, DelInv, Holds, Listed
<1>7. ASSUME NEW th \in Deleters, Run(th) PROVE ListInv'
  BY <1>7, RunStep
<1>8. CASE UNCHANGED vars
  BY <1>8 DEF vars, locals, AllInv, ListInv, DelInv, Holds, Listed
<1> QED BY <1>2, <1>3, <1>4, <1>5, <1>6, <1>7, <1>8 DEF Next, Add

\* A store outside clilist[] stops the model, so only AddStore matters.
LEMMA OverrunStep == ASSUME AllInv, [Next]_vars PROVE OverrunInv'
<1> USE DEF history, list
<1>1. CASE AddStore
  <2>1. /\ overrun' => tailindex \notin Slots
        /\ ~overrun /\ pc[Loop] = "store" /\ UNCHANGED <<members, missed, clash>>
    BY <1>1 DEF AddStore
  <2>2. ~missed /\ ~clash => tailindex = Cardinality(members)
    BY <2>1 DEF AllInv, ListInv
  <2> QED BY <2>1, <2>2, MembersFinite DEF AllInv, OverrunInv, Slots
<1>2. CASE ~AddStore
  <2>1. overrun' => UNCHANGED <<overrun, members, missed>> /\ (clash => clash')
    BY <1>2 DEF Next, Add, Run, vars, Accept, Begin, Load, AddCount, Gone, FindMatch, FindNext,
       FindEnd, Shift, ShiftEnd, DelCount
  <2> QED BY <2>1 DEF AllInv, OverrunInv
<1> QED BY <1>1, <1>2

LEMMA AllStep == AllInv /\ [Next]_vars => AllInv'
  BY BoundStep, DriftStep, ListStep, OverrunStep DEF AllInv

LEMMA AllInit == Init => AllInv
<1> SUFFICES ASSUME Init PROVE ListInv /\ OverrunInv
  BY InitInv DEF AllInv
<1> QED
  BY FS_EmptySet DEF Init, ListInv, OverrunInv, Holds, Listed, Busy

\* As long as calls do not overlap and only listed clients are removed, the list
\* holds exactly the clients added and not removed, each once.
THEOREM ListIsItsMembers == Spec => []ListIsMembers
<1>1. AllInv => ListIsMembers
  <2> SUFFICES ASSUME AllInv, Quiet, ~clash, ~missed, ~overrun
               PROVE  Entries = members /\ tailindex = Cardinality(members)
    BY DEF ListIsMembers
  <2>1. tailindex = Cardinality(members) /\ Holds(Listed, members)
    BY DEF AllInv, ListInv, Quiet
  <2> QED BY <2>1 DEF Holds, Listed, Entries
<1> QED BY <1>1, AllInit, AllStep, PTL DEF Spec

\* clilist[] is left only with a full list, after the removal of a client that
\* was not listed, or after overlapping calls.
THEOREM OverrunHasCause == Spec => []OverrunCause
<1>1. AllInv => OverrunCause
  BY DEF AllInv, OverrunInv, OverrunCause
<1> QED BY <1>1, AllInit, AllStep, PTL DEF Spec

=============================================================================
