--------------------------- MODULE CmdQueueProofs ---------------------------
(***************************************************************************)
(* Proofs about CmdQueue, for any queue size and any number of workers and *)
(* commands.  What is promised is promised until two pushes claim a slot   *)
(* over each other; queue_replay shows what happens then.                  *)
(***************************************************************************)
EXTENDS CmdQueue, SequenceTheorems, TLAPS

\* The slot i places after slot h.
Place(h, i) == IF h + i < QueueSize THEN h + i ELSE h + i - QueueSize

\* Commands in the queue by the history, against the indices.
Size == Len(order) - Popped

IndexInv ==
  /\ Size \in 0..QueueSize-1
  /\ tail = Place(front, Size)
  /\ cpc # "idle" => Popped > 0

\* At most one producer has claimed the slot after tail and not yet stored
\* tail; the others that work on slots work on different ones.
PushInv ==
  /\ \A p \in Producers :
       /\ ppc[p] # "idle" => cmd[p] \in Cmds
       /\ ppc[p] = "tail" => next[p] = Succ(tail) /\ Size < QueueSize - 1
  /\ \A p, q \in Producers :
       /\ ppc[p] = "tail" /\ ppc[q] = "tail" => p = q
       /\ ppc[p] # "idle" /\ ppc[q] # "idle" /\ next[p] = next[q] => p = q

\* The slots of the commands in the queue, and the one being copied out, hold
\* those commands, but for what a producer is still storing.
Occupied == {i \in 0..Size : i # 0 \/ cpc # "idle"}

DataInv ==
  \A i \in Occupied :
    /\ ~Storing(Place(front, i), "fd")   => data[Place(front, i)].fd = order[Popped + i]
    /\ ~Storing(Place(front, i), "body") => data[Place(front, i)].body = order[Popped + i]

\* A producer still stores its own command: the slot it fills belongs to it,
\* or get_cmd has taken it unfilled and nobody has claimed it again.
OwnInv ==
  \A p \in Producers, i \in Occupied :
    ppc[p] \in {"fd", "body"} /\ next[p] = Place(front, i)
      => cmd[p] = order[Popped + i]

RingInv == IndexInv /\ PushInv /\ DataInv /\ OwnInv

IInv == TypeOK /\ (~clash => RingInv)

-----------------------------------------------------------------------------
(* Arithmetic of the ring.                                                 *)

\* Different places behind front are different slots.
LEMMA PlaceInjective ==
  ASSUME NEW h \in Slots, NEW i \in Slots, NEW j \in Slots, i # j
  PROVE  Place(h, i) # Place(h, j)
  BY QueueAssumption DEF Place, Slots

\* Places are slots, and stepping front is stepping the place.
LEMMA PlaceFacts ==
  ASSUME NEW h \in Slots, NEW i \in Slots
  PROVE  /\ Place(h, i) \in Slots
         /\ Place(h, 0) = h
         /\ Succ(h) \in Slots
         /\ Succ(Place(h, i)) = Place(h, i + 1)
         /\ Place(Succ(h), i) = Place(h, i + 1)
  BY QueueAssumption DEF Place, Succ, Slots

\* The code's tests of the indices are the tests of the number of commands.
LEMMA TestsExact ==
  ASSUME TypeOK, IndexInv
  PROVE  /\ IsEmpty <=> Size = 0
         /\ IsFull <=> Size = QueueSize - 1
  BY QueueAssumption DEF TypeOK, IndexInv, IsEmpty, IsFull, Place, Succ, Slots

-----------------------------------------------------------------------------
(* Type correctness needs nothing else.                                    *)

\* Every step keeps the indices inside the array.
LEMMA TypeStep == TypeOK /\ [Next]_vars => TypeOK'
<1> SUFFICES ASSUME TypeOK, [Next]_vars
             PROVE  TypeOK'
  OBVIOUS
<1> USE QueueAssumption DEF TypeOK, ring
<1>0. \A i \in Slots : Succ(i) \in Slots
  BY DEF Succ, Slots
<1>1. ASSUME NEW p \in Producers, NEW c \in Cmds, PushFull(p, c)
      PROVE  TypeOK'
  BY <1>1 DEF PushFull
<1>2. ASSUME NEW p \in Producers, NEW c \in Cmds, PushTest(p, c)
      PROVE  TypeOK'
  BY <1>0, <1>2 DEF PushTest
<1>3. ASSUME NEW p \in Producers, PushTail(p)
      PROVE  TypeOK'
  <2>1. order' \in Seq(Cmds \cup {None})
    BY <1>3, AppendProperties DEF PushTail
  <2> QED BY <1>3, <2>1 DEF PushTail
<1>4. ASSUME NEW p \in Producers, PushFd(p)
      PROVE  TypeOK'
  BY <1>4 DEF PushFd, Halves
<1>5. ASSUME NEW p \in Producers, PushBody(p)
      PROVE  TypeOK'
  BY <1>5 DEF PushBody, Halves
<1>6. CASE PopFront
  BY <1>0, <1>6 DEF PopFront
<1>7. CASE PopFd
  BY <1>7 DEF PopFd, Halves
<1>8. CASE PopBody
  <2>1. got' \in Halves
    BY <1>8 DEF PopBody, Halves
  <2>2. taken' \in Seq(Halves)
    BY <1>8, <2>1, AppendProperties DEF PopBody
  <2> QED BY <1>8, <2>1, <2>2 DEF PopBody
<1>9. CASE UNCHANGED vars
  BY <1>9 DEF vars
<1> QED BY <1>1, <1>2, <1>3, <1>4, <1>5, <1>6, <1>7, <1>8, <1>9 DEF Next, Push, Pop

\* The ring starts empty, with its indices on the first slot.
LEMMA InitType == Init => TypeOK
<1> SUFFICES ASSUME Init PROVE TypeOK
  OBVIOUS
<1>1. 0 \in Slots
  BY QueueAssumption DEF Slots
<1>2. Empty \in Halves
  BY DEF Empty, Halves
<1>3. data \in [Slots -> Halves] /\ got \in Halves
  BY <1>2 DEF Init
<1>4. next \in [Producers -> Slots] /\ front \in Slots /\ tail \in Slots
  BY <1>1 DEF Init
<1>5. order \in Seq(Cmds \cup {None}) /\ taken \in Seq(Halves)
  BY DEF Init
<1> QED BY <1>3, <1>4, <1>5 DEF Init, TypeOK

\* The indices stay inside the array, however the pushes overlap.
THEOREM TypeCorrect == Spec => []TypeOK
  BY InitType, TypeStep, PTL DEF Spec

-----------------------------------------------------------------------------
(* The indices.                                                            *)

\* What each step does to the two history counters and the two indices.
LEMMA Counters ==
  ASSUME TypeOK, [Next]_vars
  PROVE  \/ \E p \in Producers :
              /\ PushTail(p)
              /\ Len(order') = Len(order) + 1 /\ tail' = next[p]
              /\ Popped' = Popped /\ UNCHANGED <<front, cpc>>
         \/ /\ PopFront
            /\ Popped' = Popped + 1 /\ front' = Succ(front)
            /\ UNCHANGED <<order, tail>>
         \/ /\ Popped' = Popped /\ UNCHANGED <<order, front, tail>>
            /\ cpc' # "idle" => cpc # "idle"
<1> USE DEF TypeOK, ring
<1>1. ASSUME NEW p \in Producers, PushTail(p)
      PROVE  /\ Len(order') = Len(order) + 1 /\ tail' = next[p]
             /\ Popped' = Popped /\ UNCHANGED <<front, cpc>>
  BY <1>1, AppendProperties DEF PushTail, Popped
<1>2. ASSUME PopFront
      PROVE  Popped' = Popped + 1 /\ front' = Succ(front) /\ UNCHANGED <<order, tail>>
  BY <1>2 DEF PopFront, Popped
<1>3. ASSUME PopBody
      PROVE  /\ Popped' = Popped /\ UNCHANGED <<order, front, tail>>
             /\ cpc' # "idle" => cpc # "idle"
  <2>1. got' \in Halves
    BY <1>3, TypeStep, [Next]_vars
  <2>2. Len(taken') = Len(taken) + 1
    BY <1>3, <2>1, AppendProperties DEF PopBody
  <2> QED BY <1>3, <2>2 DEF PopBody, Popped
<1>4. ASSUME NEW p \in Producers, PushFd(p) \/ PushBody(p)
      PROVE  Popped' = Popped /\ UNCHANGED <<order, front, tail, cpc>>
  BY <1>4 DEF PushFd, PushBody, Popped
<1>5. ASSUME NEW p \in Producers, NEW c \in Cmds, PushFull(p, c) \/ PushTest(p, c)
      PROVE  Popped' = Popped /\ UNCHANGED <<order, front, tail, cpc>>
  BY <1>5 DEF PushFull, PushTest, Popped
<1>6. ASSUME PopFd
      PROVE  /\ Popped' = Popped /\ UNCHANGED <<order, front, tail>>
             /\ cpc # "idle"
  BY <1>6 DEF PopFd, Popped
<1>7. CASE UNCHANGED vars
  BY <1>7 DEF vars, Popped
<1> QED BY <1>1, <1>2, <1>3, <1>4, <1>5, <1>6, <1>7 DEF Next, Push, Pop

\* front and tail stay the two counters taken around the ring.
LEMMA IndexStep ==
  ASSUME TypeOK, IndexInv, PushInv, [Next]_vars
  PROVE  IndexInv'
<1> USE QueueAssumption DEF IndexInv
<1>0. front \in Slots /\ tail \in Slots /\ Len(order) \in Nat /\ Popped \in Nat
  BY DEF TypeOK, Popped
<1>1. ASSUME NEW p \in Producers, PushTail(p),
             Len(order') = Len(order) + 1, tail' = next[p],
             Popped' = Popped, UNCHANGED <<front, cpc>>
      PROVE  IndexInv'
  <2>1. tail' = Succ(tail) /\ Size < QueueSize - 1
    BY <1>1 DEF PushTail, PushInv
  <2>2. Size' = Size + 1 /\ Size \in Slots
    BY <1>0, <1>1 DEF Size, Slots
  <2>3. tail' = Place(front, Size + 1)
    BY <1>0, <2>1, <2>2, PlaceFacts
  <2> QED BY <1>1, <2>1, <2>2, <2>3 DEF Slots
<1>2. ASSUME PopFront, Popped' = Popped + 1, front' = Succ(front),
             UNCHANGED <<order, tail>>
      PROVE  IndexInv'
  <2>1. Size > 0
    BY <1>2, TestsExact DEF PopFront
  <2>2. Size' = Size - 1 /\ Size' \in Slots
    BY <1>0, <1>2, <2>1 DEF Size, Slots
  <2>3. Place(Succ(front), Size - 1) = Place(front, Size)
    BY <1>0, <2>2, PlaceFacts
  <2> QED BY <1>0, <1>2, <2>1, <2>2, <2>3 DEF Slots
<1>3. ASSUME Popped' = Popped, UNCHANGED <<order, front, tail>>,
             cpc' # "idle" => cpc # "idle"
      PROVE  IndexInv'
  BY <1>3 DEF Size
<1> QED BY <1>1, <1>2, <1>3, Counters

\* A push in progress knows the slot it claimed, and claimed it alone.
LEMMA PushInvStep ==
  ASSUME TypeOK, IndexInv, PushInv, [Next]_vars, ~clash'
  PROVE  PushInv'
<1> USE DEF TypeOK
<1>0. Len(order) \in Nat /\ Popped \in Nat /\ Size \in Int
  BY DEF Popped, Size
<1>1. ASSUME NEW p \in Producers, NEW c \in Cmds, PushTest(p, c)
      PROVE  PushInv'
  <2>1. Size < QueueSize - 1
    BY <1>1, TestsExact, QueueAssumption DEF PushTest, IndexInv
  <2>2. Size' = Size /\ tail' = tail
    BY <1>1 DEF PushTest, Size, Popped, ring
  <2>3. \A q \in Producers : q # p =>
          /\ ppc[q] # "tail" /\ next'[q] = next[q] /\ ppc'[q] = ppc[q] /\ cmd'[q] = cmd[q]
          /\ ppc[q] # "idle" => next[q] # Succ(tail)
    BY <1>1 DEF PushTest, Overlaps
  <2>4. next'[p] = Succ(tail) /\ cmd'[p] \in Cmds
    BY <1>1 DEF PushTest
  <2>5. ASSUME NEW q \in Producers
        PROVE  /\ ppc'[q] # "idle" => cmd'[q] \in Cmds
               /\ ppc'[q] = "tail" => next'[q] = Succ(tail') /\ Size' < QueueSize - 1
    BY <2>1, <2>2, <2>3, <2>4 DEF PushInv
  <2>6. ASSUME NEW q \in Producers, NEW o \in Producers
        PROVE  /\ ppc'[q] = "tail" /\ ppc'[o] = "tail" => q = o
               /\ ppc'[q] # "idle" /\ ppc'[o] # "idle" /\ next'[q] = next'[o] => q = o
    BY <2>3, <2>4 DEF PushInv
  <2>7. Succ(tail)' = Succ(tail)
    BY <2>2 DEF Succ
  <2> QED BY <2>5, <2>6, <2>7 DEF PushInv
<1>2. ASSUME NEW p \in Producers, PushTail(p)
      PROVE  PushInv'
  <2>1. /\ cmd' = cmd /\ next' = next
        /\ \A q \in Producers : ppc'[q] # "tail"
        /\ \A q \in Producers : ppc'[q] # "idle" => ppc[q] # "idle"
    BY <1>2 DEF PushTail, PushInv
  <2> QED BY <2>1 DEF PushInv
<1>3. ASSUME NEW p \in Producers, PushFd(p) \/ PushBody(p)
      PROVE  PushInv'
  <2>1. /\ UNCHANGED <<cmd, next, tail>> /\ Size' = Size
        /\ \A q \in Producers : ppc'[q] = "tail" => ppc[q] = "tail"
        /\ \A q \in Producers : ppc'[q] # "idle" => ppc[q] # "idle"
    BY <1>3 DEF PushFd, PushBody, Size, Popped
  <2> QED BY <2>1 DEF PushInv
<1>4. CASE PopFront
  <2>1. Size' = Size - 1
    BY <1>0, <1>4, Counters DEF PopFront, Size, Popped
  <2>2. UNCHANGED <<ppc, cmd, next, tail>>
    BY <1>4 DEF PopFront
  <2> QED BY <1>0, <2>1, <2>2, QueueAssumption DEF PushInv
<1>5. CASE \/ PopFd \/ PopBody \/ UNCHANGED vars
           \/ \E p \in Producers, c \in Cmds : PushFull(p, c)
  <2>1. UNCHANGED <<ppc, cmd, next, tail, order>>
    BY <1>5 DEF PopFd, PopBody, vars, PushFull, ring
  <2>2. Size' = Size
    <3>1. Popped' = Popped
      BY <1>5, Counters DEF PopFd, PopBody, vars, PushFull, Popped, PushTail, PopFront
    <3> QED BY <2>1, <3>1 DEF Size
  <2> QED BY <2>1, <2>2 DEF PushInv
<1> QED BY <1>1, <1>2, <1>3, <1>4, <1>5 DEF Next, Push, Pop

-----------------------------------------------------------------------------
(* The contents of the slots.                                              *)

\* Every slot between front and tail holds its command, but for the slot of a
\* push that still copies; and a push that copies fills its own place.
LEMMA DataStep ==
  ASSUME TypeOK, IndexInv, PushInv, DataInv, OwnInv, [Next]_vars
  PROVE  DataInv' /\ OwnInv'
<1> USE QueueAssumption DEF TypeOK
<1>0. /\ Len(order) \in Nat /\ Popped \in Nat /\ Size \in Slots /\ front \in Slots
      /\ tail = Place(front, Size) /\ Popped + Size = Len(order)
  BY DEF Popped, IndexInv, Slots, Size
<1>1. ASSUME NEW p \in Producers, PushTail(p)
      PROVE  DataInv' /\ OwnInv'
  <2>1. /\ UNCHANGED <<data, front, next, cmd, cpc>> /\ Popped' = Popped /\ Size' = Size + 1
        /\ tail' = next[p] /\ next[p] = Succ(tail) /\ ppc' = [ppc EXCEPT ![p] = "fd"]
        /\ ppc[p] = "tail" /\ Size < QueueSize - 1
    <3>1. Len(order') = Len(order) + 1
      BY <1>1, AppendProperties DEF PushTail
    <3> QED BY <1>0, <1>1, <3>1 DEF PushTail, PushInv, Popped, Size
  <2>2. /\ \A k \in 1..Len(order) : order'[k] = order[k]
        /\ order'[Len(order) + 1] = cmd[p]
    BY <1>1, AppendProperties DEF PushTail
  <2>3. \A i \in Slots : \A half : Storing(i, half) => Storing(i, half)'
    BY <2>1 DEF Storing
  <2>4. Place(front, Size + 1) = next[p]
    BY <1>0, <2>1, PlaceFacts
  <2>5. ASSUME NEW i \in Occupied', i # Size + 1
        PROVE  /\ i \in Occupied /\ i \in Slots /\ Place(front, i) \in Slots
               /\ Popped + i \in 1..Len(order) /\ Place(front, i) # next[p]
    <3>1. i \in Occupied /\ i \in Slots /\ Popped + i \in 1..Len(order) /\ Size + 1 \in Slots
      BY <1>0, <2>1, <2>5 DEF Occupied, Slots, IndexInv
    <3>2. Place(front, i) \in Slots
      BY <1>0, <3>1, PlaceFacts
    <3>3. Place(front, i) # Place(front, Size + 1)
      BY <1>0, <2>5, <3>1, PlaceInjective
    <3> QED BY <2>4, <3>1, <3>2, <3>3
  <2>6. DataInv'
    <3>1. ASSUME NEW i \in Occupied', i = Size + 1
          PROVE  Storing(Place(front, i), "fd")' /\ Storing(Place(front, i), "body")'
      <4>1. Place(front', i) = next'[p] /\ ppc'[p] = "fd"
        BY <2>1, <2>4, <3>1
      <4> QED BY <4>1 DEF Storing
    <3>2. ASSUME NEW i \in Occupied', i # Size + 1
          PROVE  /\ ~Storing(Place(front, i), "fd")' =>
                      data'[Place(front', i)].fd = order'[Popped' + i]
                 /\ ~Storing(Place(front, i), "body")' =>
                      data'[Place(front', i)].body = order'[Popped' + i]
      <4>1. /\ ~Storing(Place(front, i), "fd")' => ~Storing(Place(front, i), "fd")
            /\ ~Storing(Place(front, i), "body")' => ~Storing(Place(front, i), "body")
        BY <2>1 DEF Storing
      <4> QED BY <2>1, <2>2, <2>5, <3>2, <4>1 DEF DataInv
    <3> QED BY <3>1, <3>2 DEF DataInv
  <2>7. OwnInv'
    <3> SUFFICES ASSUME NEW q \in Producers, NEW i \in Occupied',
                        ppc'[q] \in {"fd", "body"}, next[q] = Place(front, i)
                 PROVE  cmd[q] = order'[Popped + i]
      BY <2>1 DEF OwnInv
    <3>1. CASE i = Size + 1
      <4>1. q = p
        BY <2>1, <2>4, <3>1 DEF PushInv
      <4>2. Popped + i = Len(order) + 1
        BY <1>0, <3>1 DEF Slots
      <4> QED BY <2>2, <4>1, <4>2
    <3>2. CASE i # Size + 1
      <4>1. q # p /\ i \in Occupied /\ ppc[q] \in {"fd", "body"}
        BY <2>1, <2>5, <3>2
      <4> QED BY <2>2, <2>5, <3>2, <4>1 DEF OwnInv
    <3> QED BY <3>1, <3>2
  <2> QED BY <2>6, <2>7
<1>2. ASSUME NEW p \in Producers, PushFd(p) \/ PushBody(p)
      PROVE  DataInv' /\ OwnInv'
  <2>1. /\ UNCHANGED <<front, next, cmd, cpc, order>> /\ Popped' = Popped /\ Size' = Size
        /\ Occupied' = Occupied /\ ppc[p] # "idle"
        /\ \A q \in Producers : q # p => ppc'[q] = ppc[q]
        /\ \A q \in Producers : ppc'[q] \in {"fd", "body"} => ppc[q] \in {"fd", "body"}
    BY <1>2 DEF PushFd, PushBody, Popped, Size, Occupied
  <2>2. OwnInv'
    <3>1. \A i : Place(front, i)' = Place(front, i)
      BY <2>1 DEF Place
    <3> QED BY <2>1, <3>1 DEF OwnInv
  <2>3. ASSUME NEW i \in Occupied
        PROVE  /\ i \in Slots /\ Place(front, i) \in Slots
               /\ next[p] = Place(front, i) => cmd[p] = order[Popped + i]
    <3>1. i \in Slots
      BY <1>0 DEF Occupied, Slots
    <3> QED BY <1>0, <1>2, <3>1, PlaceFacts DEF OwnInv, PushFd, PushBody
  <2>4. ASSUME NEW i \in Slots, i # next[p]
        PROVE  data'[i] = data[i]
    BY <1>2, <2>4 DEF PushFd, PushBody
  <2>5. DataInv'
    <3> SUFFICES ASSUME NEW i \in Occupied
                 PROVE  /\ ~Storing(Place(front, i), "fd")' =>
                             data'[Place(front, i)].fd = order[Popped + i]
                        /\ ~Storing(Place(front, i), "body")' =>
                             data'[Place(front, i)].body = order[Popped + i]
      BY <2>1 DEF DataInv
    <3>1. CASE Place(front, i) # next[p]
      <4>1. data'[Place(front, i)] = data[Place(front, i)]
        BY <2>3, <2>4, <3>1
      <4>2. \A half : ~Storing(Place(front, i), half)' => ~Storing(Place(front, i), half)
        BY <2>1, <3>1 DEF Storing
      <4> QED BY <4>1, <4>2 DEF DataInv
    <3>2. CASE Place(front, i) = next[p] /\ PushFd(p)
      <4>1. Storing(Place(front, i), "body")'
        <5>1. ppc'[p] = "body" /\ next'[p] = Place(front', i)
          BY <2>1, <3>2 DEF PushFd
        <5> QED BY <5>1 DEF Storing
      <4>2. data'[next[p]].fd = cmd[p]
        BY <3>2 DEF PushFd, Halves
      <4> QED BY <2>3, <3>2, <4>1, <4>2
    <3>3. CASE Place(front, i) = next[p] /\ PushBody(p)
      <4>1. data'[next[p]].body = cmd[p] /\ data'[next[p]].fd = data[next[p]].fd
        BY <3>3 DEF PushBody, Halves
      <4>2. ~Storing(next[p], "fd")
        BY <3>3 DEF PushBody, PushInv, Storing
      <4> QED BY <2>3, <3>3, <4>1, <4>2 DEF DataInv
    <3> QED BY <1>2, <3>1, <3>2, <3>3
  <2> QED BY <2>2, <2>5
<1>3. CASE PopFront
  <2>1. /\ UNCHANGED <<data, order, ppc, next, cmd>> /\ front' = Succ(front)
        /\ Popped' = Popped + 1 /\ Size' = Size - 1 /\ Size > 0
    <3>1. Popped' = Popped + 1 /\ UNCHANGED <<data, order, ppc, next, cmd>> /\ front' = Succ(front)
      BY <1>3 DEF PopFront, Popped, ring
    <3>2. Size # 0
      BY <1>3, TestsExact DEF PopFront
    <3>3. Size' = Size - 1
      BY <1>0, <3>1 DEF Size
    <3> QED BY <1>0, <3>1, <3>2, <3>3 DEF Slots
  <2>2. ASSUME NEW i \in Occupied'
        PROVE  /\ Place(front', i) = Place(front, i + 1) /\ i + 1 \in Occupied
               /\ Popped' + i = Popped + (i + 1)
    <3>1. i \in Slots /\ i + 1 \in Occupied
      BY <1>0, <2>1, <2>2 DEF Occupied, Slots
    <3> QED BY <1>0, <2>1, <3>1, PlaceFacts DEF Slots
  <2>3. DataInv'
    BY <2>1, <2>2 DEF DataInv, Storing
  <2>4. OwnInv'
    BY <2>1, <2>2 DEF OwnInv
  <2> QED BY <2>3, <2>4
<1>4. ASSUME UNCHANGED <<data, order, front>>, Popped' = Popped,
             cpc' # "idle" => cpc # "idle",
             \A i, half : Storing(i, half)' <=> Storing(i, half),
             \A p \in Producers : ppc'[p] \in {"fd", "body"} =>
               ppc[p] = ppc'[p] /\ cmd'[p] = cmd[p] /\ next'[p] = next[p]
      PROVE  DataInv' /\ OwnInv'
  <2>1. Size' = Size /\ Occupied' \subseteq Occupied
    BY <1>4 DEF Size, Occupied
  <2>2. DataInv'
    BY <1>4, <2>1 DEF DataInv
  <2>3. \A i : Place(front, i)' = Place(front, i)
    BY <1>4 DEF Place
  <2>4. OwnInv'
    BY <1>4, <2>1, <2>3 DEF OwnInv
  <2> QED BY <2>2, <2>4
<1>5. ASSUME NEW p \in Producers, NEW c \in Cmds, PushFull(p, c) \/ PushTest(p, c)
      PROVE  DataInv' /\ OwnInv'
  <2>1. \A q \in Producers : ppc'[q] \in {"fd", "body"} \/ ppc[q] \in {"fd", "body"} =>
          ppc[q] = ppc'[q] /\ cmd'[q] = cmd[q] /\ next'[q] = next[q]
    BY <1>5 DEF PushFull, PushTest
  <2>2. \A i, half : Storing(i, half)' <=> Storing(i, half)
    BY <2>1 DEF Storing
  <2>3. UNCHANGED <<data, order, front, cpc>> /\ Popped' = Popped
    BY <1>5 DEF PushFull, PushTest, ring, Popped
  <2> QED BY <1>4, <2>1, <2>2, <2>3
<1>6. CASE PopFd \/ PopBody \/ UNCHANGED vars
  <2>1. UNCHANGED <<data, ppc, next, cmd>>
    BY <1>6 DEF PopFd, PopBody, vars, ring
  <2>2. \A i, half : Storing(i, half)' <=> Storing(i, half)
    BY <2>1 DEF Storing
  <2>3. UNCHANGED <<order, front>> /\ Popped' = Popped /\ (cpc' # "idle" => cpc # "idle")
    BY <1>6, Counters DEF PopFd, PopBody, vars, ring, Popped, PopFront, PushTail
  <2> QED BY <1>4, <2>1, <2>2, <2>3
<1> QED BY <1>1, <1>2, <1>3, <1>5, <1>6 DEF Next, Push, Pop

-----------------------------------------------------------------------------
(* The invariant and what follows from it.                                 *)

\* Once two pushes have clashed they stay so.
LEMMA ClashStays == TypeOK /\ [Next]_vars /\ clash => clash'
  BY DEF TypeOK, Next, Push, Pop, vars, PushFull, PushTest, PushTail, PushFd, PushBody,
         PopFront, PopFd, PopBody

\* IInv is an invariant for any number of workers.
THEOREM Inductive == Spec => []IInv
<1>1. Init => IInv
  <2> SUFFICES ASSUME Init PROVE IInv
    OBVIOUS
  <2>1. TypeOK
    BY InitType
  <2>2. Len(order) = 0 /\ Popped = 0 /\ Size = 0
    BY DEF Init, Popped, Size
  <2>3. IndexInv /\ PushInv /\ DataInv /\ OwnInv
    BY <2>2, QueueAssumption DEF Init, IndexInv, PushInv, DataInv, OwnInv, Occupied, Place
  <2> QED BY <2>1, <2>3 DEF IInv, RingInv
<1>2. IInv /\ [Next]_vars => IInv'
  BY TypeStep, IndexStep, PushInvStep, DataStep, ClashStays DEF IInv, RingInv
<1> QED BY <1>1, <1>2, PTL DEF Spec

\* Until two workers claim a slot over each other, get_cmd obtains the next
\* command unless the push of it is still copying.
THEOREM StaleOnlyWhileStoring == Spec => StaleOnlyInWindow
<1> DEFINE Fresh ==
      ~clash =>
        /\ cpc = "fd" /\ cpc' = "body" /\ ~Storing(front, "fd")
             => got'.fd = order[Popped]
        /\ cpc = "body" /\ cpc' = "idle" /\ ~Storing(front, "body")
             => got'.body = order[Popped]
<1>1. ASSUME IInv, Next
      PROVE  Fresh
  <2> USE <1>1 DEF IInv, RingInv, TypeOK
  <2> SUFFICES ASSUME ~clash
               PROVE  /\ cpc = "fd" /\ cpc' = "body" /\ ~Storing(front, "fd")
                           => got'.fd = order[Popped]
                      /\ cpc = "body" /\ cpc' = "idle" /\ ~Storing(front, "body")
                           => got'.body = order[Popped]
    OBVIOUS
  <2>1. ASSUME cpc # "idle"
        PROVE  /\ ~Storing(front, "fd") => data[front].fd = order[Popped]
               /\ ~Storing(front, "body") => data[front].body = order[Popped]
    <3>1. Place(front, 0) = front /\ 0 \in Occupied /\ Popped + 0 = Popped
      BY <2>1, QueueAssumption, PlaceFacts DEF Occupied, IndexInv, Popped, Slots
    <3> QED BY <3>1 DEF DataInv
  <2>2. ASSUME cpc # "idle", cpc' # cpc
        PROVE  PopFd \/ PopBody
    BY <2>2 DEF Next, Push, Pop, PushFull, PushTest, PushTail, PushFd, PushBody, PopFront
  <2> QED BY <2>1, <2>2 DEF PopFd, PopBody, Halves
<1>2. IInv /\ [Next]_vars => [Fresh]_vars
  BY <1>1
<1> QED BY <1>2, Inductive, PTL DEF Spec, StaleOnlyInWindow

-----------------------------------------------------------------------------
(* The ring implements CmdFifo.                                            *)

Items == SubSeq(order, Popped + 1, Len(order))

ItemsOK ==
  /\ Items \in Seq(Cmds \cup {None}) /\ Len(Items) = Size
  /\ \A i \in 1..Size : Items[i] = order[Popped + i]

\* The commands in the ring are those pushed and not yet popped, in order.
LEMMA ItemsFacts == TypeOK /\ IndexInv => ItemsOK
<1> SUFFICES ASSUME TypeOK, IndexInv
             PROVE  ItemsOK
  OBVIOUS
<1> USE DEF ItemsOK
<1>1. Len(order) \in Nat /\ Popped \in Nat /\ Size \in Nat /\ Popped + Size = Len(order)
  BY QueueAssumption DEF TypeOK, Popped, IndexInv, Size
<1>2. \A i \in Popped+1..Len(order) : order[i] \in Cmds \cup {None}
  BY <1>1 DEF TypeOK
<1>3. /\ Items \in Seq(Cmds \cup {None})
      /\ Len(Items) = IF Popped + 1 <= Len(order) THEN Len(order) - (Popped + 1) + 1 ELSE 0
      /\ \A i \in 1..Len(order) - (Popped + 1) + 1 : Items[i] = order[(Popped + 1) + i - 1]
  BY <1>1, <1>2, SubSeqProperties DEF Items
<1>4. Len(Items) = Size
  BY <1>1, <1>3
<1>5. \A i \in 1..Size : Items[i] = order[Popped + i]
  <2> SUFFICES ASSUME NEW i \in 1..Size
               PROVE  Items[i] = order[Popped + i]
    OBVIOUS
  <2>1. i \in 1..Len(order) - (Popped + 1) + 1 /\ (Popped + 1) + i - 1 = Popped + i
    BY <1>1
  <2> QED BY <1>3, <2>1
<1> QED BY <1>3, <1>4, <1>5

\* Every step of the queue is a step of CmdFifo or leaves its view unchanged.
LEMMA FifoStep ==
  ASSUME IInv, [Next]_vars
  PROVE  [Fifo!Next]_<<Items, clash>>
<1>c. CASE clash'
  <2>1. clash' = TRUE
    BY <1>c, TypeStep DEF IInv, TypeOK
  <2> QED BY <2>1 DEF Fifo!Next, Fifo!Mix
<1> SUFFICES ASSUME ~clash'
             PROVE  [Fifo!Next]_<<Items, clash>>
  BY <1>c
<1>d. ~clash /\ clash' = clash
  BY ClashStays, TypeStep DEF IInv, TypeOK
<1> USE <1>d DEF IInv, RingInv
<1>0. ItemsOK /\ ItemsOK'
  <2>1. TypeOK' /\ IndexInv'
    BY TypeStep, IndexStep
  <2> QED BY <2>1, ItemsFacts, PTL
<1>1. /\ Len(order) \in Nat /\ Popped \in Nat /\ Size \in Nat /\ Popped + Size = Len(order)
  BY QueueAssumption DEF TypeOK, Popped, IndexInv, Size
<1>2. ASSUME NEW p \in Producers, PushTail(p),
             Len(order') = Len(order) + 1, Popped' = Popped
      PROVE  Fifo!Next
  <2>1. cmd[p] \in Cmds /\ Size < QueueSize - 1 /\ Size' = Size + 1
    BY <1>1, <1>2 DEF PushTail, PushInv, Size
  <2>2. /\ \A k \in 1..Len(order) : order'[k] = order[k]
        /\ order'[Len(order) + 1] = cmd[p]
    BY <1>2, AppendProperties DEF PushTail, TypeOK
  <2>3. /\ Items' \in Seq(Cmds \cup {None}) /\ Len(Items') = Size + 1
        /\ \A i \in 1..Size+1 : Items'[i] = order'[Popped + i]
    BY <1>0, <1>2, <2>1 DEF ItemsOK
  <2>4. /\ Append(Items, cmd[p]) \in Seq(Cmds \cup {None})
        /\ Len(Append(Items, cmd[p])) = Size + 1
        /\ \A i \in 1..Size : Append(Items, cmd[p])[i] = order[Popped + i]
        /\ Append(Items, cmd[p])[Size + 1] = cmd[p]
    BY <1>0, <2>1, AppendProperties DEF ItemsOK
  <2>5. ASSUME NEW i \in 1..Size+1
        PROVE  Items'[i] = Append(Items, cmd[p])[i]
    <3>1. CASE i = Size + 1
      <4>1. Popped + i = Len(order) + 1
        BY <1>1, <3>1
      <4>2. Items'[i] = order'[Len(order) + 1]
        BY <2>3, <4>1
      <4> QED BY <2>2, <2>4, <3>1, <4>2
    <3>2. CASE i # Size + 1
      <4>1. i \in 1..Size /\ Popped + i \in 1..Len(order)
        BY <1>1, <3>2
      <4> QED BY <2>2, <2>3, <2>4, <4>1
    <3> QED BY <3>1, <3>2
  <2>6. Items' = Append(Items, cmd[p])
    BY <2>3, <2>4, <2>5, SeqEqual
  <2> QED BY <1>0, <2>1, <2>6 DEF ItemsOK, Fifo!Next, Fifo!Push, Items
<1>3. ASSUME PopFront, Popped' = Popped + 1, order' = order
      PROVE  Fifo!Next
  <2>1. Size > 0
    BY <1>1, <1>3, TestsExact DEF PopFront
  <2>2. Items # <<>>
    BY <1>0, <2>1 DEF ItemsOK
  <2>3. Tail(Items) = SubSeq(order, (Popped + 1) + 1, Len(order))
    BY <1>1, <2>1, HeadTailOfSubSeq DEF Items, TypeOK
  <2>4. Items' = Tail(Items)
    BY <1>3, <2>3 DEF Items
  <2> QED BY <2>2, <2>4 DEF Fifo!Next, Fifo!Pop, Items
<1>4. ASSUME Popped' = Popped, order' = order
      PROVE  Items' = Items
  BY <1>4 DEF Items
<1> QED BY <1>2, <1>3, <1>4, Counters

\* The index arithmetic of queue.c, with pops and other workers' copies running
\* between any two steps of a push, implements the bounded FIFO until two
\* workers claim a slot over each other.
THEOREM ImplementsFifo == Spec => FifoPromise
<1>1. Init => Fifo!Init
  <2> SUFFICES ASSUME Init PROVE Fifo!Init
    OBVIOUS
  <2>1. Len(order) = 0 /\ Popped = 0
    BY DEF Init, Popped
  <2> QED BY <2>1, SubSeqEmpty DEF Init, Fifo!Init
<1>2. IInv /\ [Next]_vars => [Fifo!Next]_<<SubSeq(order, Popped + 1, Len(order)), clash>>
  BY FifoStep DEF Items
<1> QED BY <1>1, <1>2, Inductive, PTL DEF Spec, FifoPromise, Fifo!Spec

=============================================================================
