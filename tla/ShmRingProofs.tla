--------------------------- MODULE ShmRingProofs ---------------------------
(***************************************************************************)
(* Proofs about the shared memory ring, for every number of producers,     *)
(* slots, messages and crashes of the owner.                               *)
(***************************************************************************)
EXTENDS ShmRing, FiniteSetTheorems, TLAPS

-----------------------------------------------------------------------------
(* Indices of 32 bits.                                                     *)

\* Unsigned subtraction and increment, without the remainder.
LEMMA DistIs ==
    ASSUME NEW i \in Idx, NEW j \in Idx
    PROVE  Dist(i, j) = IF j <= i THEN i - j ELSE i - j + IdxSpace
<1>1. ASSUME j <= i PROVE (i - j) % IdxSpace = i - j
  BY <1>1, RingAssumption DEF Idx
<1>2. ASSUME ~(j <= i) PROVE (i - j) % IdxSpace = i - j + IdxSpace
  BY <1>2, RingAssumption DEF Idx
<1> QED
  BY <1>1, <1>2 DEF Dist

LEMMA IncrIs ==
    ASSUME NEW i \in Idx
    PROVE  Incr(i) = IF i + 1 = IdxSpace THEN 0 ELSE i + 1
<1>1. ASSUME i + 1 = IdxSpace PROVE (i + 1) % IdxSpace = 0
  BY <1>1, RingAssumption DEF Idx
<1>2. ASSUME i + 1 # IdxSpace PROVE (i + 1) % IdxSpace = i + 1
  BY <1>2, RingAssumption DEF Idx
<1> QED
  BY <1>1, <1>2 DEF Incr

\* The k-th message of a ring that started at index b: positions.
LEMMA Positions ==
    ASSUME NEW i \in Idx, NEW j \in Idx, NEW b \in Idx
    PROVE  /\ Dist(i, b) \in Nat /\ Dist(i, b) < IdxSpace
           /\ Dist(i, b) = Dist(j, b) => i = j
           /\ Dist(j, b) <= Dist(i, b) => Dist(i, j) = Dist(i, b) - Dist(j, b)
           /\ Incr(i) \in Idx
           /\ Dist(i, b) + 1 < IdxSpace => Dist(Incr(i), b) = Dist(i, b) + 1
<1>0. i \in Nat /\ j \in Nat /\ b \in Nat /\ IdxSpace \in Nat
      /\ i < IdxSpace /\ j < IdxSpace /\ b < IdxSpace
  BY RingAssumption DEF Idx
<1>1. Incr(i) \in Idx
  BY IncrIs, RingAssumption DEF Idx
<1>2. Dist(i, b) = IF b <= i THEN i - b ELSE i - b + IdxSpace
  BY DistIs
<1>3. Dist(j, b) = IF b <= j THEN j - b ELSE j - b + IdxSpace
  BY DistIs
<1>4. Dist(i, j) = IF j <= i THEN i - j ELSE i - j + IdxSpace
  BY DistIs
<1>5. Dist(Incr(i), b) = IF b <= Incr(i) THEN Incr(i) - b ELSE Incr(i) - b + IdxSpace
  BY <1>1, DistIs
<1>6. Incr(i) = IF i + 1 = IdxSpace THEN 0 ELSE i + 1
  BY IncrIs
<1>7. Dist(i, b) + 1 < IdxSpace => Dist(Incr(i), b) = Dist(i, b) + 1
  BY <1>0, <1>2, <1>5, <1>6
<1> QED
  BY <1>0, <1>1, <1>2, <1>3, <1>4, <1>7

\* A multiple of c that is less than c away from 0 is 0.
LEMMA SmallMultiple ==
    ASSUME NEW c \in Nat \ {0}, NEW k \in Int, c * k < c, -c < c * k
    PROVE  k = 0
<1>1. ASSUME k >= 1 PROVE FALSE
  <2>1. c * k = c + c * (k - 1) /\ c * (k - 1) >= 0
    BY <1>1
  <2> QED
    BY <2>1
<1>2. ASSUME k <= -1 PROVE FALSE
  <2>1. c * k = -c + c * (k + 1) /\ c * (k + 1) <= 0
    BY <1>2
  <2> QED
    BY <2>1
<1> QED
  BY <1>1, <1>2

\* The slots of two indices less than Cap apart differ, also when the index
\* wraps between them, if Cap divides the number of indices.
LEMMA SlotsDiffer ==
    ASSUME NEW m \in Nat, IdxSpace = Cap * m, NEW b \in Idx,
           NEW i \in Idx, NEW j \in Idx,
           Dist(i, b) - Dist(j, b) < Cap, Dist(j, b) - Dist(i, b) < Cap,
           SlotOf(i) = SlotOf(j)
    PROVE  i = j
<1>0. /\ Cap \in Nat \ {0} /\ IdxSpace \in Nat
      /\ Dist(i, b) \in Nat /\ Dist(j, b) \in Nat
  BY RingAssumption, Positions
<1>1. PICK r \in Int, x \in Int, y \in Int : i = Cap * x + r /\ j = Cap * y + r
  <2>1. i = Cap * (i \div Cap) + (i % Cap) /\ i \div Cap \in Int /\ i % Cap \in Int
    BY <1>0 DEF Idx
  <2>2. j = Cap * (j \div Cap) + (j % Cap) /\ j \div Cap \in Int /\ j % Cap \in Int
    BY <1>0 DEF Idx
  <2> QED
    BY <2>1, <2>2 DEF SlotOf
<1>2. PICK c \in Int : Dist(i, b) - Dist(j, b) = i - j + c * IdxSpace
  <2> DEFINE D == Dist(i, b) - Dist(j, b)
  <2>1. D = i - j + 0 * IdxSpace \/ D = i - j + 1 * IdxSpace \/ D = i - j + (-1) * IdxSpace
    BY <1>0, DistIs DEF Idx
  <2> QED
    BY <2>1
<1>3. Dist(i, b) - Dist(j, b) = Cap * (x - y + c * m)
  <2>1. i - j = Cap * x - Cap * y
    BY <1>0, <1>1
  <2>2. c * IdxSpace = Cap * (c * m)
    BY <1>0
  <2>3. Cap * (x - y + c * m) = Cap * x - Cap * y + Cap * (c * m)
    BY <1>0
  <2> QED
    BY <1>2, <2>1, <2>2, <2>3
<1>4. x - y + c * m = 0
  <2> DEFINE k == x - y + c * m
  <2>1. k \in Int
    OBVIOUS
  <2>2. Cap * k < Cap /\ -Cap < Cap * k
    BY <1>0, <1>3, Positions
  <2> HIDE DEF k
  <2>3. k = 0
    BY <1>0, <2>1, <2>2, SmallMultiple
  <2> QED
    BY <2>3 DEF k
<1>5. Dist(i, b) = Dist(j, b)
  BY <1>0, <1>3, <1>4, Positions
<1> QED
  BY <1>5, Positions

-----------------------------------------------------------------------------
(* Types.                                                                  *)

Slots == 0 .. Cap - 1
RingState == [head : Idx, tail : Idx, notify : Nat, ready : [Slots -> BOOLEAN],
              data : [Slots -> Message \cup {NoData}]]

\* A thread in the middle of a send has a segment, and so has an owner.
Mapped ==
    /\ \A p \in Producers : pc[p] \notin {"idle", "dead"} => region[p] # 0
    /\ cpc # "down" \/ linked => seg # 0

Typed == TypeOK /\ Mapped

LEMMA SlotType == ASSUME NEW i \in Idx PROVE SlotOf(i) \in Slots
  BY RingAssumption DEF SlotOf, Slots, Idx

LEMMA Constants ==
    /\ 0 \in Idx /\ FirstIdx \in Idx /\ 1 \in Segs
    /\ ClearRing \in RingState
    /\ [ClearRing EXCEPT !.head = FirstIdx, !.tail = FirstIdx] \in RingState
<1>1. 0 \in Idx /\ FirstIdx \in Idx /\ 1 \in Segs
  BY RingAssumption DEF Idx, Segs
<1>2. ClearRing \in RingState
  BY <1>1 DEF ClearRing, RingState, Slots
<1> QED
  BY <1>1, <1>2 DEF RingState

\* What a step may write into a segment.
LEMMA WriteTypes ==
    ASSUME NEW g \in Segs, ring \in [Segs -> RingState]
    PROVE  /\ \A i \in Idx : [ring EXCEPT ![g].head = i] \in [Segs -> RingState]
           /\ [ring EXCEPT ![g].tail = Incr(@)] \in [Segs -> RingState]
           /\ [ring EXCEPT ![g].notify = @ + 1] \in [Segs -> RingState]
           /\ \A s \in Slots, r \in BOOLEAN :
                 [ring EXCEPT ![g].ready[s] = r] \in [Segs -> RingState]
           /\ \A s \in Slots, d \in Message \cup {NoData} :
                 [ring EXCEPT ![g].data[s] = d] \in [Segs -> RingState]
           /\ \A s \in Slots :
                 [ring EXCEPT ![g] = Emptied(@, s)] \in [Segs -> RingState]
           /\ [ring EXCEPT ![g] = ClearRing] \in [Segs -> RingState]
           /\ [ring EXCEPT ![g].head = 0, ![g].tail = 0, ![g].notify = 0]
                 \in [Segs -> RingState]
<1>0. ring[g] \in RingState
  OBVIOUS
<1>1. \A i \in Idx : [ring EXCEPT ![g].head = i] \in [Segs -> RingState]
  BY <1>0 DEF RingState
<1>2. [ring EXCEPT ![g].tail = Incr(@)] \in [Segs -> RingState]
  BY <1>0, Positions, Constants DEF RingState
<1>3. [ring EXCEPT ![g].notify = @ + 1] \in [Segs -> RingState]
  BY <1>0 DEF RingState
<1>4. \A s \in Slots, r \in BOOLEAN : [ring EXCEPT ![g].ready[s] = r] \in [Segs -> RingState]
  BY <1>0 DEF RingState
<1>5. \A s \in Slots, d \in Message \cup {NoData} :
         [ring EXCEPT ![g].data[s] = d] \in [Segs -> RingState]
  BY <1>0 DEF RingState
<1>6. \A s \in Slots : [ring EXCEPT ![g] = Emptied(@, s)] \in [Segs -> RingState]
  BY <1>0 DEF RingState, Emptied
<1>7. [ring EXCEPT ![g] = ClearRing] \in [Segs -> RingState]
  BY Constants
<1>8. [ring EXCEPT ![g].head = 0, ![g].tail = 0, ![g].notify = 0] \in [Segs -> RingState]
  BY <1>0, Constants DEF RingState
<1> QED
  BY <1>1, <1>2, <1>3, <1>4, <1>5, <1>6, <1>7, <1>8

\* The steps of a send keep the types.
LEMMA SendTyped ==
    ASSUME Typed, NEW p \in Producers,
           Send(p) \/ SendStep(p) \/ Die(p) \/ CloseRegions(p)
    PROVE  Typed'
<1> USE DEF Typed, Mapped, TypeOK, owner, sender
<1> DEFINE At == {"idle", "head", "tail", "cas", "wait", "write", "ready", "notify", "wake", "dead"}
<1>0. /\ ring \in [Segs -> RingState] /\ seg \in 0 .. MaxSegs /\ Message = Producers \X Nat
      /\ region \in [Producers -> 0 .. seg] /\ <<p, sent[p]>> \in Message
      /\ idx[p] \in Idx /\ Slot(p) \in Slots
      /\ pc[p] \notin {"idle", "dead"} => region[p] \in Segs
  <2>1. ring \in [Segs -> RingState]
    BY DEF RingState, Slots
  <2>2. idx[p] \in Idx /\ Slot(p) \in Slots /\ sent[p] \in Nat
    BY SlotType DEF Slot
  <2>3. region[p] \in 0 .. seg /\ seg \in 0 .. MaxSegs
    OBVIOUS
  <2>4. pc[p] \notin {"idle", "dead"} => region[p] \in Segs
    BY <2>3, RingAssumption DEF Segs
  <2> QED
    BY <2>1, <2>2, <2>3, <2>4 DEF Message
<1>r. ring' \in [Segs -> RingState] =>
        ring' \in [Segs -> [head : Idx, tail : Idx, notify : Nat,
                            ready : [0 .. Cap - 1 -> BOOLEAN],
                            data : [0 .. Cap - 1 -> Message \cup {NoData}]]]
  BY DEF RingState, Slots
<1>1. ASSUME Send(p) PROVE Typed'
  <2>1. Resolve(p) \in 0 .. seg
    BY <1>0 DEF Resolve
  <2> QED
    BY <1>1, <2>1, RingAssumption DEF Send
<1>2. ASSUME LoadHead(p) PROVE Typed'
  <2>1. ring[region[p]].head \in Idx
    BY <1>0, <1>2 DEF LoadHead, RingState
  <2> QED
    BY <1>2, <2>1 DEF LoadHead
<1>3. ASSUME LoadTail(p) PROVE Typed'
  BY <1>3, Constants DEF LoadTail
<1>4. ASSUME Cas(p) PROVE Typed'
  <2>1. ring' \in [Segs -> RingState]
    BY <1>0, <1>4, Positions, WriteTypes DEF Cas
  <2> QED
    BY <1>4, <1>r, <2>1 DEF Cas
<1>5. ASSUME CasFails(p) PROVE Typed'
  BY <1>5, Constants DEF CasFails
<1>6. ASSUME AwaitEmpty(p) PROVE Typed'
  <2>1. ring' \in [Segs -> RingState]
    <3>1. CASE ring' = ring
      BY <1>0, <3>1
    <3>2. CASE ring' = [ring EXCEPT ![region[p]].data[Slot(p)] = NoData]
      BY <1>0, <1>6, <3>2, WriteTypes DEF AwaitEmpty
    <3> QED
      BY <1>6, <3>1, <3>2 DEF AwaitEmpty
  <2> QED
    BY <1>6, <1>r, <2>1 DEF AwaitEmpty
<1>7. ASSUME WriteSlot(p) PROVE Typed'
  <2>1. ring' \in [Segs -> RingState]
    BY <1>0, <1>7, WriteTypes DEF WriteSlot
  <2> QED
    BY <1>7, <1>r, <2>1 DEF WriteSlot
<1>8. ASSUME SetReady(p) PROVE Typed'
  <2>1. ring' \in [Segs -> RingState]
    BY <1>0, <1>8, WriteTypes DEF SetReady
  <2> QED
    BY <1>0, <1>8, <1>r, <2>1 DEF SetReady
<1>9. ASSUME Notify(p) PROVE Typed'
  <2>1. ring' \in [Segs -> RingState]
    BY <1>0, <1>9, WriteTypes DEF Notify
  <2> QED
    BY <1>9, <1>r, <2>1, Constants DEF Notify
<1>10. ASSUME Wake(p) PROVE Typed'
  BY <1>10 DEF Wake
<1>11. ASSUME Die(p) PROVE Typed'
  BY <1>11 DEF Die
<1>12. ASSUME CloseRegions(p) PROVE Typed'
  BY <1>12 DEF CloseRegions
<1> QED
  BY <1>1, <1>2, <1>3, <1>4, <1>5, <1>6, <1>7, <1>8, <1>9, <1>10, <1>11, <1>12 DEF SendStep

\* So do the steps of the owner.
LEMMA OwnerTyped ==
    ASSUME Typed, CreateSegment \/ ResetIndices \/ Attach \/ ReceiveStep \/ Shutdown \/ OwnerCrash
    PROVE  Typed'
<1> USE DEF Typed, Mapped, TypeOK, owner, sender
<1>0. /\ ring \in [Segs -> RingState] /\ seg \in 0 .. MaxSegs
      /\ cpc # "down" => seg \in Segs /\ TailSlot \in Slots
  <2>1. ring \in [Segs -> RingState]
    BY DEF RingState, Slots
  <2>2. cpc # "down" => seg \in Segs
    BY RingAssumption DEF Segs
  <2>3. seg \in Segs => ring[seg].tail \in Idx
    BY <2>1 DEF RingState
  <2> QED
    BY <2>1, <2>2, <2>3, SlotType DEF TailSlot
<1>r. ring' \in [Segs -> RingState] =>
        ring' \in [Segs -> [head : Idx, tail : Idx, notify : Nat,
                            ready : [0 .. Cap - 1 -> BOOLEAN],
                            data : [0 .. Cap - 1 -> Message \cup {NoData}]]]
  BY DEF RingState, Slots
<1>1. ASSUME CreateSegment PROVE Typed'
  <2>1. seg + 1 \in Segs
    BY <1>1, <1>0, RingAssumption DEF CreateSegment, Segs
  <2>2. ring' \in [Segs -> RingState]
    BY <1>0, <1>1, <2>1, WriteTypes DEF CreateSegment
  <2>3. seg' \in 0 .. MaxSegs /\ seg' # 0
    BY <1>0, <1>1, RingAssumption DEF CreateSegment
  <2>4. region' \in [Producers -> 0 .. seg']
    <3>1. seg' = seg + 1 /\ region' = region
      BY <1>1 DEF CreateSegment
    <3> QED
      BY <1>0, <3>1, RingAssumption
  <2> QED
    BY <1>1, <1>r, <2>2, <2>3, <2>4 DEF CreateSegment
<1>2. ASSUME ResetIndices PROVE Typed'
  <2>1. ring' \in [Segs -> RingState]
    BY <1>0, <1>2, WriteTypes DEF ResetIndices
  <2> QED
    BY <1>2, <1>r, <2>1 DEF ResetIndices
<1>3. ASSUME Attach PROVE Typed'
  BY <1>3 DEF Attach
<1>4. ASSUME Break PROVE Typed'
  BY <1>4 DEF Break
<1>5. ASSUME Copy PROVE Typed'
  <2>1. ring[seg].data[TailSlot] \in Message \cup {NoData}
    BY <1>0, <1>5 DEF Copy, RingState
  <2> QED
    BY <1>5, <2>1 DEF Copy
<1>6. ASSUME SetEmpty PROVE Typed'
  <2>1. ring' \in [Segs -> RingState]
    BY <1>0, <1>6, WriteTypes DEF SetEmpty
  <2> QED
    BY <1>6, <1>r, <2>1 DEF SetEmpty
<1>7. ASSUME AdvanceTail PROVE Typed'
  <2>1. ring' \in [Segs -> RingState]
    BY <1>0, <1>7, WriteTypes DEF AdvanceTail
  <2>2. delivered' \in Seq(Message)
    BY <1>7 DEF AdvanceTail
  <2> QED
    BY <1>7, <1>r, <2>1, <2>2 DEF AdvanceTail
<1>8. ASSUME LoadNotify PROVE Typed'
  <2>1. ring[seg].notify \in Nat
    BY <1>0, <1>8 DEF LoadNotify, RingState
  <2> QED
    BY <1>8, <2>1 DEF LoadNotify
<1>9. ASSUME CheckAgain PROVE Typed'
  BY <1>9 DEF CheckAgain
<1>10. ASSUME FutexWait PROVE Typed'
  BY <1>10 DEF FutexWait
<1>11. ASSUME WaitTimesOut PROVE Typed'
  BY <1>11 DEF WaitTimesOut
<1>12. ASSUME Shutdown PROVE Typed'
  BY <1>12 DEF Shutdown, Stopped
<1>13. ASSUME OwnerCrash PROVE Typed'
  <2>1. crashes' \in 0 .. MaxCrashes
    BY <1>13, RingAssumption DEF OwnerCrash
  <2> QED
    BY <1>13, <2>1 DEF OwnerCrash, Stopped
<1> QED
  BY <1>1, <1>2, <1>3, <1>4, <1>5, <1>6, <1>7, <1>8, <1>9, <1>10, <1>11, <1>12, <1>13
  DEF ReceiveStep

LEMMA TypedAlways == Spec => []Typed
<1>1. Init => Typed
  <2> SUFFICES ASSUME Init PROVE Typed
    OBVIOUS
  <2>1. /\ seg \in 0 .. MaxSegs /\ linked \in BOOLEAN /\ cpc \in {"down", "poll"}
        /\ cpc # "down" \/ linked => seg # 0
    <3>1. 0 \in 0 .. MaxSegs /\ 1 \in 0 .. MaxSegs
      BY RingAssumption
    <3>2. CASE seg = 0 /\ linked = FALSE /\ cpc = "down"
      BY <3>1, <3>2
    <3>3. CASE seg = 1 /\ linked = TRUE /\ cpc = "poll"
      BY <3>1, <3>3
    <3> QED
      BY <3>2, <3>3 DEF Init
  <2>2. ring \in [Segs -> RingState]
    BY Constants DEF Init
  <2>3. 0 \in 0 .. seg
    BY <2>1, RingAssumption
  <2>4. /\ region \in [Producers -> 0 .. seg] /\ idx \in [Producers -> Idx]
        /\ sent \in [Producers -> Nat] /\ total \in 0 .. MaxMsgs /\ crashes \in 0 .. MaxCrashes
    BY <2>3, Constants, RingAssumption DEF Init
  <2>5. \A p \in Producers : pc[p] = "idle"
    BY DEF Init
  <2>6. /\ gotAny \in BOOLEAN /\ buf \in Message \cup {NoData} /\ seen \in Nat
        /\ accepted \subseteq Message /\ delivered \in Seq(Message)
    <3>1. gotAny \in BOOLEAN /\ buf \in Message \cup {NoData} /\ accepted \subseteq Message
      BY Zenon DEF Init
    <3>2. seen \in Nat /\ delivered \in Seq(Message)
      BY DEF Init
    <3> QED
      BY <3>1, <3>2
  <2>7. pc \in [Producers -> {"idle", "head", "tail", "cas", "wait", "write",
                             "ready", "notify", "wake", "dead"}]
    BY DEF Init
  <2> QED
    BY <2>1, <2>2, <2>4, <2>5, <2>6, <2>7 DEF Typed, TypeOK, Mapped, RingState, Slots
<1>2. Typed /\ [Next]_vars => Typed'
  <2> SUFFICES ASSUME Typed, [Next]_vars PROVE Typed'
    OBVIOUS
  <2>1. ASSUME UNCHANGED vars PROVE Typed'
    BY <2>1 DEF vars, Typed, TypeOK, Mapped
  <2> QED
    BY <2>1, SendTyped, OwnerTyped DEF Next
<1> QED
  BY <1>1, <1>2, PTL DEF Spec

\* Every variable keeps its type, for any number of segments too: in
\* particular head and tail wrap where the 32-bit words do.
THEOREM TypeCorrect == Spec => []TypeOK
<1>1. Typed => TypeOK
  BY DEF Typed
<1> QED
  BY <1>1, TypedAlways, PTL

-----------------------------------------------------------------------------
(* The ring, in one segment.                                               *)

\* The conditions of use.  One segment: a segment that is created again under
\* the name is open to writers before its indices are reset.  Cap divides the
\* number of indices, as the default of 256 slots does.  And head does not go
\* round completely, which would let a compare-exchange succeed on an index
\* of the round before.
Conditions ==
    /\ MaxSegs = 1
    /\ MaxMsgs < IdxSpace
    /\ \E m \in Nat : IdxSpace = Cap * m

\* The words of the ring.
HeadIdx == ring[1].head
TailIdx == ring[1].tail
Ready == ring[1].ready
Data == ring[1].data
Bell == ring[1].notify

\* The threads between Send and their compare-exchange.
Seeking == {p \in Producers : pc[p] \in {"head", "tail", "cas"}}

\* The number of messages before index i in a ring that started at index b,
\* and the indices that were claimed and not yet passed by tail.
Pos(i, b) == Dist(i, b)
InRing(i, b) == Pos(TailIdx, b) <= Pos(i, b) /\ Pos(i, b) < Pos(HeadIdx, b)

\* Before the segment is in use nothing is in it and nobody writes to it.
Fresh ==
    /\ seg = 0 => cpc = "down" /\ ~linked
    /\ seg = 0 \/ cpc = "create" => ring[1] = ClearRing /\ \A p \in Producers : pc[p] = "idle"

\* The ring is never overfull, and head has not gone round since the start.
Bounded(b) ==
    /\ Pos(TailIdx, b) <= Pos(HeadIdx, b) /\ Pos(HeadIdx, b) <= Pos(TailIdx, b) + Cap
    /\ Pos(HeadIdx, b) + Cardinality(Seeking) <= total

\* The head a thread has read is not ahead of head, and if it is head still,
\* there is room: what LoadTail found out is stale only where it does no harm.
Seekers(b) ==
    /\ \A p \in Producers : pc[p] \in {"tail", "cas"} => Pos(idx[p], b) <= Pos(HeadIdx, b)
    /\ \A p \in Producers : pc[p] = "cas" /\ idx[p] = HeadIdx =>
          Pos(HeadIdx, b) < Pos(TailIdx, b) + Cap

\* A claimed index is in the ring, is one producer's, and its slot is empty;
\* a slot that is READY is that of an index in the ring.
Claimed(b) ==
    /\ \A p \in Producers : Claims(p) => InRing(idx[p], b) /\ ~Ready[Slot(p)]
    /\ \A p, q \in Producers : Claims(p) /\ Claims(q) /\ idx[p] = idx[q] => p = q
    /\ \A s \in Slots : Ready[s] => \E i \in Idx : InRing(i, b) /\ SlotOf(i) = s

\* The receive thread works on an index that no producer claims.
Receiving ==
    /\ cpc \in {"copied", "emptied"} =>
         TailIdx # HeadIdx /\ \A p \in Producers : Claims(p) => idx[p] # TailIdx
    /\ cpc = "copied" => Ready[SlotOf(TailIdx)]
    /\ cpc = "emptied" => ~Ready[SlotOf(TailIdx)]

RingFrom(b) == Bounded(b) /\ Seekers(b) /\ Claimed(b)

LEMMA Words ==
    ASSUME MaxSegs = 1, Typed
    PROVE  /\ HeadIdx \in Idx /\ TailIdx \in Idx /\ Bell \in Nat
           /\ Ready \in [Slots -> BOOLEAN] /\ Data \in [Slots -> Message \cup {NoData}]
           /\ seg \in {0, 1}
           /\ cpc # "down" => seg = 1
           /\ \A p \in Producers : region[p] \in {0, 1}
           /\ \A p \in Producers : pc[p] \notin {"idle", "dead"} => region[p] = 1 /\ seg = 1
           /\ \A p \in Producers : idx[p] \in Idx /\ Slot(p) \in Slots
<1>1. seg \in {0, 1} /\ \A p \in Producers : region[p] \in 0 .. seg
  BY DEF Typed, TypeOK
<1>2. ring[1] \in RingState
  BY Constants DEF Typed, TypeOK, RingState, Slots
<1>3. \A p \in Producers : idx[p] \in Idx /\ Slot(p) \in Slots
  BY SlotType DEF Typed, TypeOK, Slot
<1>4. /\ cpc # "down" => seg = 1
      /\ \A p \in Producers : pc[p] \notin {"idle", "dead"} => region[p] # 0
  BY <1>1 DEF Typed, Mapped
<1>5. \A p \in Producers : region[p] \in {0, 1} /\ (region[p] # 0 => region[p] = 1 /\ seg = 1)
  BY <1>1
<1> QED
  BY <1>1, <1>2, <1>3, <1>4, <1>5 DEF RingState, HeadIdx, TailIdx, Bell, Ready, Data

\* What each step does to the words.
LEMMA SendWords ==
    ASSUME MaxSegs = 1, Typed, NEW p \in Producers
    PROVE  /\ Send(p) \/ LoadHead(p) \/ LoadTail(p) \/ CasFails(p) \/ Wake(p) \/ Die(p)
                 \/ CloseRegions(p) =>
                 UNCHANGED <<HeadIdx, TailIdx, Ready, Data, Bell>>
           /\ Cas(p) => /\ HeadIdx = idx[p] /\ HeadIdx' = Incr(HeadIdx)
                        /\ UNCHANGED <<TailIdx, Ready, Data, Bell>>
           /\ AwaitEmpty(p) =>
                 /\ UNCHANGED <<HeadIdx, TailIdx, Ready, Bell>>
                 /\ IF Ready[Slot(p)]
                    THEN pc' = [pc EXCEPT ![p] = "notify"]
                    ELSE pc' = [pc EXCEPT ![p] = "write"] /\ UNCHANGED Data
           /\ WriteSlot(p) => /\ Data' = [Data EXCEPT ![Slot(p)] = <<p, sent[p]>>]
                              /\ UNCHANGED <<HeadIdx, TailIdx, Ready, Bell>>
           /\ SetReady(p) => /\ Ready' = [Ready EXCEPT ![Slot(p)] = TRUE]
                             /\ UNCHANGED <<HeadIdx, TailIdx, Data, Bell>>
           /\ Notify(p) => Bell' = Bell + 1 /\ UNCHANGED <<HeadIdx, TailIdx, Ready, Data>>
<1>0. /\ ring \in [Segs -> RingState] /\ 1 \in Segs
      /\ pc[p] \notin {"idle", "dead"} => region[p] = 1
  BY Words, Constants DEF Typed, TypeOK, RingState, Slots
<1> USE DEF HeadIdx, TailIdx, Ready, Data, Bell
<1>1. Send(p) \/ LoadHead(p) \/ LoadTail(p) \/ CasFails(p) \/ Wake(p) \/ Die(p) \/ CloseRegions(p) =>
         UNCHANGED <<HeadIdx, TailIdx, Ready, Data, Bell>>
  BY DEF Send, LoadHead, LoadTail, CasFails, Wake, Die, CloseRegions
<1>2. ASSUME Cas(p)
      PROVE  HeadIdx = idx[p] /\ HeadIdx' = Incr(HeadIdx) /\ UNCHANGED <<TailIdx, Ready, Data, Bell>>
  BY <1>0, <1>2 DEF Cas, RingState
<1>3. ASSUME AwaitEmpty(p)
      PROVE  /\ UNCHANGED <<HeadIdx, TailIdx, Ready, Bell>>
             /\ IF Ready[Slot(p)]
                THEN pc' = [pc EXCEPT ![p] = "notify"]
                ELSE pc' = [pc EXCEPT ![p] = "write"] /\ UNCHANGED Data
  BY <1>0, <1>3 DEF AwaitEmpty, RingState
<1>4. ASSUME WriteSlot(p)
      PROVE  /\ Data' = [Data EXCEPT ![Slot(p)] = <<p, sent[p]>>]
             /\ UNCHANGED <<HeadIdx, TailIdx, Ready, Bell>>
  BY <1>0, <1>4 DEF WriteSlot, RingState
<1>5. ASSUME SetReady(p)
      PROVE  /\ Ready' = [Ready EXCEPT ![Slot(p)] = TRUE]
             /\ UNCHANGED <<HeadIdx, TailIdx, Data, Bell>>
  BY <1>0, <1>5 DEF SetReady, RingState
<1>6. ASSUME Notify(p)
      PROVE  Bell' = Bell + 1 /\ UNCHANGED <<HeadIdx, TailIdx, Ready, Data>>
  BY <1>0, <1>6 DEF Notify, RingState
<1> QED
  BY <1>1, <1>2, <1>3, <1>4, <1>5, <1>6

LEMMA OwnerWords ==
    ASSUME MaxSegs = 1, Typed, Fresh
    PROVE  /\ CreateSegment \/ ResetIndices \/ Attach \/ Break \/ Copy \/ LoadNotify \/ CheckAgain
                 \/ FutexWait \/ WaitTimesOut \/ Shutdown \/ OwnerCrash =>
                 UNCHANGED <<HeadIdx, TailIdx, Ready, Data, Bell>>
           /\ SetEmpty => /\ Ready' = [Ready EXCEPT ![SlotOf(TailIdx)] = FALSE]
                          /\ UNCHANGED <<HeadIdx, TailIdx, Data, Bell>>
           /\ AdvanceTail => /\ TailIdx' = Incr(TailIdx)
                             /\ UNCHANGED <<HeadIdx, Ready, Data, Bell>>
<1>0. /\ ring \in [Segs -> RingState] /\ 1 \in Segs /\ seg \in {0, 1}
      /\ cpc # "down" => seg = 1
  BY Words, Constants DEF Typed, TypeOK, RingState, Slots
<1> USE DEF HeadIdx, TailIdx, Ready, Data, Bell
<1>1. Attach \/ Break \/ Copy \/ LoadNotify \/ CheckAgain \/ FutexWait \/ WaitTimesOut
         \/ Shutdown \/ OwnerCrash
         => UNCHANGED <<HeadIdx, TailIdx, Ready, Data, Bell>>
  BY DEF Attach, Break, Copy, LoadNotify, CheckAgain, FutexWait, WaitTimesOut, Shutdown, OwnerCrash
<1>2. ASSUME CreateSegment PROVE UNCHANGED <<HeadIdx, TailIdx, Ready, Data, Bell>>
  <2>1. seg = 0 /\ ring'[1] = ClearRing
    BY <1>0, <1>2 DEF CreateSegment
  <2> QED
    BY <2>1 DEF Fresh
<1>3. ASSUME ResetIndices PROVE UNCHANGED <<HeadIdx, TailIdx, Ready, Data, Bell>>
  <2>1. ring[1] = ClearRing /\ seg = 1
    BY <1>0, <1>3 DEF ResetIndices, Fresh
  <2>2. ring'[1] = [ring[1] EXCEPT !.head = 0, !.tail = 0, !.notify = 0]
    BY <1>0, <1>3, <2>1 DEF ResetIndices
  <2> QED
    BY <2>1, <2>2 DEF ClearRing
<1>4. ASSUME SetEmpty
      PROVE  /\ Ready' = [Ready EXCEPT ![SlotOf(TailIdx)] = FALSE]
             /\ UNCHANGED <<HeadIdx, TailIdx, Data, Bell>>
  BY <1>0, <1>4 DEF SetEmpty, Emptied, TailSlot, RingState
<1>5. ASSUME AdvanceTail
      PROVE  TailIdx' = Incr(TailIdx) /\ UNCHANGED <<HeadIdx, Ready, Data, Bell>>
  BY <1>0, <1>5 DEF AdvanceTail, RingState
<1> QED
  BY <1>1, <1>2, <1>3, <1>4, <1>5

LEMMA FreshStep == ASSUME MaxSegs = 1, Typed, Fresh, [Next]_vars PROVE Fresh'
<1>0. /\ seg \in {0, 1} /\ (cpc # "down" => seg = 1)
      /\ \A p \in Producers : pc[p] \notin {"idle", "dead"} => region[p] = 1 /\ seg = 1
      /\ ring \in [Segs -> RingState] /\ 1 \in Segs
  BY Words, Constants DEF Typed, TypeOK, RingState, Slots
<1> USE DEF owner, sender
<1>1. ASSUME NEW p \in Producers, Send(p) \/ SendStep(p) \/ Die(p) \/ CloseRegions(p) PROVE Fresh'
  <2>1. seg' = seg /\ linked' = linked
    BY <1>1 DEF Send, SendStep, LoadHead, LoadTail, Cas, CasFails, AwaitEmpty, WriteSlot, SetReady,
                Notify, Wake, Die, CloseRegions
  <2>2. seg = 1 /\ cpc # "create" => seg' = 1 /\ cpc' # "create"
    BY <1>1 DEF Send, SendStep, LoadHead, LoadTail, Cas, CasFails, AwaitEmpty, WriteSlot, SetReady,
                Notify, Wake, Die, CloseRegions
  <2>3. CASE seg = 1 /\ cpc # "create"
    BY <2>2, <2>3 DEF Fresh
  <2>4. CASE seg = 0 \/ cpc = "create"
    <3>1. pc[p] = "idle" /\ ~Announced
      BY <1>0, <2>4 DEF Fresh, Announced
    <3>2. CloseRegions(p)
      BY <1>1, <3>1 DEF Send, SendStep, LoadHead, LoadTail, Cas, CasFails, AwaitEmpty, WriteSlot,
                        SetReady, Notify, Wake, Die
    <3> QED
      BY <3>2, <2>1 DEF CloseRegions, Fresh
  <2> QED
    BY <1>0, <2>3, <2>4
<1>2. ASSUME CreateSegment PROVE Fresh'
  <2>1. seg = 0 /\ ring'[1] = ClearRing /\ seg' = 1 /\ pc' = pc
    BY <1>0, <1>2 DEF CreateSegment
  <2> QED
    BY <2>1 DEF Fresh
<1>3. ASSUME ResetIndices PROVE Fresh'
  BY <1>0, <1>3 DEF ResetIndices, Fresh
<1>4. ASSUME Attach \/ Shutdown \/ OwnerCrash PROVE Fresh'
  <2>1. UNCHANGED <<seg, ring, pc>> /\ cpc' # "create" /\ (seg = 0 => cpc' = "down" /\ ~linked')
    BY <1>0, <1>4 DEF Attach, Shutdown, OwnerCrash, Stopped, Fresh
  <2> QED
    BY <2>1 DEF Fresh
<1>5. ASSUME ReceiveStep PROVE Fresh'
  <2>1. seg' = seg /\ seg = 1 /\ cpc' # "create"
    BY <1>0, <1>5 DEF ReceiveStep, Break, Copy, SetEmpty, AdvanceTail, LoadNotify, CheckAgain,
                      FutexWait, WaitTimesOut
  <2> QED
    BY <2>1 DEF Fresh
<1>6. ASSUME UNCHANGED vars PROVE Fresh'
  BY <1>6 DEF vars, Fresh
<1> QED
  BY <1>1, <1>2, <1>3, <1>4, <1>5, <1>6 DEF Next

LEMMA Numbers ==
    ASSUME MaxSegs = 1, Typed, NEW b \in Idx
    PROVE  /\ Pos(HeadIdx, b) \in Nat /\ Pos(TailIdx, b) \in Nat
           /\ total \in Nat /\ total <= MaxMsgs /\ MaxMsgs \in Nat
           /\ Cap \in Nat /\ Cap > 1 /\ IdxSpace \in Nat
           /\ \A i \in Idx : Pos(i, b) \in Nat /\ Pos(i, b) < IdxSpace
           /\ \A i, j \in Idx : Pos(i, b) = Pos(j, b) => i = j
<1>1. ASSUME NEW i \in Idx PROVE Pos(i, b) \in Nat /\ Pos(i, b) < IdxSpace
  BY Positions DEF Pos
<1>2. ASSUME NEW i \in Idx, NEW j \in Idx, Pos(i, b) = Pos(j, b) PROVE i = j
  BY <1>2, Positions DEF Pos
<1>3. total \in Nat /\ total <= MaxMsgs
  <2>1. total \in 0 .. MaxMsgs
    BY DEF Typed, TypeOK
  <2> QED
    BY <2>1, RingAssumption
<1> QED
  BY <1>1, <1>2, <1>3, Words, RingAssumption

\* Distances and successors, in positions.
LEMMA PosDist ==
    ASSUME NEW b \in Idx, NEW i \in Idx, NEW j \in Idx, Pos(j, b) <= Pos(i, b)
    PROVE  Dist(i, j) = Pos(i, b) - Pos(j, b)
<1>1. Dist(j, b) <= Dist(i, b)
  BY DEF Pos
<1>2. Dist(i, j) = Dist(i, b) - Dist(j, b)
  BY <1>1, Positions
<1> QED
  BY <1>2 DEF Pos

LEMMA PosIncr ==
    ASSUME NEW b \in Idx, NEW i \in Idx, Pos(i, b) + 1 < IdxSpace
    PROVE  Pos(Incr(i), b) = Pos(i, b) + 1
<1>1. Dist(i, b) + 1 < IdxSpace
  BY DEF Pos
<1>2. Dist(Incr(i), b) = Dist(i, b) + 1
  BY <1>1, Positions
<1> QED
  BY <1>2 DEF Pos

\* Two indices in the ring have two slots.
LEMMA OwnSlots ==
    ASSUME Conditions, Typed, NEW b \in Idx, Bounded(b), NEW i \in Idx, NEW j \in Idx,
           InRing(i, b), InRing(j, b), SlotOf(i) = SlotOf(j)
    PROVE  i = j
<1>1. /\ Dist(i, b) \in Nat /\ Dist(j, b) \in Nat
      /\ Dist(HeadIdx, b) \in Nat /\ Dist(TailIdx, b) \in Nat /\ Cap \in Nat
  BY Words, Positions, RingAssumption DEF Conditions
<1>2. Dist(i, b) - Dist(j, b) < Cap /\ Dist(j, b) - Dist(i, b) < Cap
  BY <1>1 DEF InRing, Bounded, Pos
<1> QED
  BY <1>2, SlotsDiffer DEF Conditions

LEMMA SeekingFinite ==
    /\ IsFiniteSet(Seeking) /\ Cardinality(Seeking) \in Nat
    /\ IsFiniteSet(Seeking') /\ Cardinality(Seeking') \in Nat
<1>1. Seeking \subseteq Producers /\ Seeking' \subseteq Producers
  BY DEF Seeking
<1> QED
  BY <1>1, FS_Subset, FS_CardinalityType, RingAssumption

\* A step that no seeker and no index takes part in.
LEMMA BoundedKept ==
    ASSUME MaxSegs = 1, Typed, NEW b \in Idx, Bounded(b), Seekers(b),
           HeadIdx' = HeadIdx, TailIdx' = TailIdx, Seeking' \subseteq Seeking, total' = total,
           \A q \in Producers : pc'[q] \in {"tail", "cas"} => pc'[q] = pc[q] /\ idx'[q] = idx[q]
    PROVE  Bounded(b)' /\ Seekers(b)'
<1>1. Cardinality(Seeking') <= Cardinality(Seeking)
  BY SeekingFinite, FS_Subset
<1>2. Pos(HeadIdx, b) \in Nat /\ total \in Nat
  BY Numbers
<1>3. Bounded(b)'
  <2>1. Pos(HeadIdx', b) + Cardinality(Seeking') <= total'
    BY <1>1, <1>2, SeekingFinite DEF Bounded
  <2> QED
    BY <2>1 DEF Bounded, Pos
<1>4. Seekers(b)'
  BY DEF Seekers, Pos
<1> QED
  BY <1>3, <1>4

\* A step that claims nothing and does not move the receive thread on.
LEMMA ClaimedKept ==
    ASSUME NEW b \in Idx, Claimed(b), Receiving,
           UNCHANGED <<HeadIdx, TailIdx, Ready>>,
           \A q \in Producers : Claims(q)' => Claims(q) /\ idx'[q] = idx[q],
           cpc' = cpc \/ cpc' \notin {"copied", "emptied"}
    PROVE  Claimed(b)' /\ Receiving'
<1>1. Claimed(b)'
  BY DEF Claimed, InRing, Pos, Slot
<1>2. Receiving'
  BY DEF Receiving
<1> QED
  BY <1>1, <1>2

\* The steps of a send keep the ring.
LEMMA SendRing ==
    ASSUME Conditions, Typed, Fresh, Receiving, NEW b \in Idx, RingFrom(b), NEW p \in Producers,
           Send(p) \/ SendStep(p) \/ Die(p) \/ CloseRegions(p)
    PROVE  RingFrom(b)' /\ Receiving'
<1> USE DEF owner, sender, RingFrom
<1>0. /\ MaxSegs = 1 /\ MaxMsgs < IdxSpace
      /\ Bounded(b) /\ Seekers(b) /\ Claimed(b)
      /\ pc \in [Producers -> {"idle", "head", "tail", "cas", "wait", "write",
                              "ready", "notify", "wake", "dead"}]
      /\ idx \in [Producers -> Idx]
  BY DEF Conditions, Typed, TypeOK
<1>w. /\ HeadIdx \in Idx /\ TailIdx \in Idx /\ Ready \in [Slots -> BOOLEAN]
      /\ pc[p] \notin {"idle", "dead"} => region[p] = 1
      /\ \A q \in Producers : idx[q] \in Idx /\ Slot(q) \in Slots
  BY <1>0, Words
<1>n. /\ Pos(HeadIdx, b) \in Nat /\ Pos(TailIdx, b) \in Nat
      /\ total \in Nat /\ total <= MaxMsgs /\ MaxMsgs \in Nat
      /\ Cap \in Nat /\ IdxSpace \in Nat
      /\ \A i \in Idx : Pos(i, b) \in Nat
      /\ \A i, j \in Idx : Pos(i, b) = Pos(j, b) => i = j
  BY <1>0, Numbers
\* A step that writes neither an index nor a flag, and claims nothing.
<1>c. ASSUME UNCHANGED <<HeadIdx, TailIdx, Ready>>,
             \A q \in Producers : Claims(q)' => Claims(q) /\ idx'[q] = idx[q],
             cpc' = cpc \/ cpc' = "poll"
      PROVE  Claimed(b)' /\ Receiving'
  BY <1>0, <1>c, ClaimedKept
<1>q. ASSUME UNCHANGED <<HeadIdx, TailIdx, Ready>>, total' = total,
             \A q \in Producers : Claims(q)' => Claims(q) /\ idx'[q] = idx[q],
             \A q \in Producers : pc'[q] \in {"head", "tail", "cas"} => pc[q] \in {"head", "tail", "cas"},
             \A q \in Producers : pc'[q] \in {"tail", "cas"} => pc'[q] = pc[q] /\ idx'[q] = idx[q],
             cpc' = cpc \/ cpc' = "poll"
      PROVE  RingFrom(b)' /\ Receiving'
  <2>1. Seeking' \subseteq Seeking
    BY <1>q DEF Seeking
  <2>2. Bounded(b)' /\ Seekers(b)'
    BY <1>0, <1>q, <2>1, BoundedKept
  <2> QED
    BY <1>c, <1>q, <2>2
<1>1. ASSUME Send(p) PROVE RingFrom(b)' /\ Receiving'
  <2>1. /\ UNCHANGED <<HeadIdx, TailIdx, Ready>> /\ total' = total + 1 /\ cpc' = cpc /\ idx' = idx
        /\ pc[p] = "idle" /\ pc' \in {[pc EXCEPT ![p] = "idle"], [pc EXCEPT ![p] = "head"]}
    BY <1>0, <1>1, SendWords DEF Send
  <2>2. Claimed(b)' /\ Receiving'
    BY <1>0, <1>c, <2>1 DEF Claims
  <2>3. Cardinality(Seeking') <= Cardinality(Seeking) + 1
    <3>1. p \notin Seeking /\ (Seeking' = Seeking \/ Seeking' = Seeking \cup {p})
      BY <1>0, <2>1 DEF Seeking
    <3> QED
      BY <3>1, SeekingFinite, FS_AddElement
  <2>4. Pos(HeadIdx', b) + Cardinality(Seeking') <= total'
    BY <1>0, <1>n, <2>1, <2>3, SeekingFinite DEF Bounded
  <2>5. Bounded(b)'
    BY <1>0, <2>1, <2>4 DEF Bounded, Pos
  <2>6. Seekers(b)'
    BY <1>0, <2>1 DEF Seekers, Pos
  <2> QED
    BY <2>2, <2>5, <2>6
<1>2. ASSUME LoadHead(p) PROVE RingFrom(b)' /\ Receiving'
  <2>1. /\ UNCHANGED <<HeadIdx, TailIdx, Ready>> /\ total' = total /\ cpc' = cpc /\ pc[p] = "head"
        /\ pc' = [pc EXCEPT ![p] = "tail"] /\ idx' = [idx EXCEPT ![p] = HeadIdx]
    BY <1>0, <1>2, <1>w, SendWords DEF LoadHead, HeadIdx
  <2>2. Claimed(b)' /\ Receiving'
    BY <1>0, <1>c, <2>1 DEF Claims
  <2>3. Seeking' = Seeking
    BY <1>0, <2>1 DEF Seeking
  <2>5. Bounded(b)'
    BY <1>0, <2>1, <2>3 DEF Bounded, Pos
  <2>6. Seekers(b)'
    BY <1>0, <1>n, <2>1 DEF Seekers, Pos
  <2> QED
    BY <2>2, <2>5, <2>6
<1>3. ASSUME LoadTail(p) PROVE RingFrom(b)' /\ Receiving'
  <2>1. UNCHANGED <<HeadIdx, TailIdx, Ready>> /\ total' = total /\ cpc' = cpc /\ pc[p] = "tail"
    BY <1>0, <1>3, SendWords DEF LoadTail
  <2>2. CASE pc' = [pc EXCEPT ![p] = "idle"] /\ idx' = [idx EXCEPT ![p] = 0]
    BY <1>0, <1>q, <2>1, <2>2 DEF Claims
  <2>3. CASE /\ ~Full(idx[p], TailIdx)
             /\ pc' = [pc EXCEPT ![p] = "cas"] /\ idx' = idx
    <3>1. Claimed(b)' /\ Receiving'
      BY <1>0, <1>c, <2>1, <2>3 DEF Claims
    <3>2. Seeking' = Seeking
      BY <1>0, <2>1, <2>3 DEF Seeking
    <3>3. Bounded(b)'
      BY <1>0, <2>1, <3>2 DEF Bounded, Pos
    <3>4. idx[p] = HeadIdx => Pos(HeadIdx, b) < Pos(TailIdx, b) + Cap
      <4>1. Pos(TailIdx, b) <= Pos(HeadIdx, b)
        BY <1>0 DEF Bounded
      <4>2. Dist(HeadIdx, TailIdx) = Pos(HeadIdx, b) - Pos(TailIdx, b)
        BY <1>w, <4>1, PosDist
      <4> QED
        BY <1>n, <2>3, <4>2 DEF Full
    <3>5. Seekers(b)'
      BY <1>0, <2>1, <2>3, <3>4 DEF Seekers, Pos
    <3> QED
      BY <3>1, <3>3, <3>5
  <2> QED
    BY <1>3, <1>w, <2>1, <2>2, <2>3 DEF LoadTail, TailIdx
<1>4. ASSUME Cas(p) PROVE RingFrom(b)' /\ Receiving'
  <2>1. /\ HeadIdx = idx[p] /\ HeadIdx' = Incr(HeadIdx) /\ UNCHANGED <<TailIdx, Ready>>
        /\ total' = total /\ cpc' = cpc /\ pc[p] = "cas" /\ idx' = idx
        /\ pc' = [pc EXCEPT ![p] = "wait"]
    BY <1>0, <1>4, SendWords DEF Cas
  <2>2. Cardinality(Seeking') = Cardinality(Seeking) - 1
    <3>1. p \in Seeking /\ Seeking' = Seeking \ {p}
      BY <1>0, <2>1 DEF Seeking
    <3> QED
      BY <3>1, SeekingFinite, FS_RemoveElement
  <2>3. Pos(HeadIdx', b) = Pos(HeadIdx, b) + 1
    <3>1. Pos(HeadIdx, b) + 1 < IdxSpace
      BY <1>0, <1>n, <2>2, SeekingFinite DEF Bounded
    <3> QED
      BY <1>w, <2>1, <3>1, PosIncr
  <2>4. Pos(HeadIdx, b) < Pos(TailIdx, b) + Cap /\ Pos(TailIdx, b) <= Pos(HeadIdx, b)
    BY <1>0, <2>1 DEF Seekers, Bounded
  <2>5. Bounded(b)'
    <3>1. Pos(HeadIdx', b) + Cardinality(Seeking') <= total'
      BY <1>0, <1>n, <2>1, <2>2, <2>3, SeekingFinite DEF Bounded
    <3>2. Pos(TailIdx, b) <= Pos(HeadIdx', b) /\ Pos(HeadIdx', b) <= Pos(TailIdx, b) + Cap
      BY <1>n, <2>3, <2>4
    <3> QED
      BY <2>1, <3>1, <3>2 DEF Bounded
  <2>6. Seekers(b)'
    <3>1. \A q \in Producers : pc'[q] \in {"tail", "cas"} =>
             idx'[q] = idx[q] /\ Pos(idx[q], b) <= Pos(HeadIdx, b)
      BY <1>0, <2>1 DEF Seekers
    <3>2. \A q \in Producers : pc'[q] \in {"tail", "cas"} => Pos(idx'[q], b) < Pos(HeadIdx', b)
      BY <1>n, <1>w, <2>3, <3>1
    <3> QED
      BY <1>n, <1>w, <2>1, <2>3, <3>1, <3>2 DEF Seekers
  <2>7. ~Ready[SlotOf(HeadIdx)]
    <3>1. ASSUME NEW i \in Idx, InRing(i, b), SlotOf(i) = SlotOf(HeadIdx) PROVE FALSE
      <4>1. Dist(HeadIdx, b) - Dist(i, b) < Cap /\ Dist(i, b) - Dist(HeadIdx, b) < Cap
        BY <1>n, <2>4, <3>1 DEF InRing, Pos
      <4>2. i = HeadIdx
        BY <1>w, <3>1, <4>1, SlotsDiffer DEF Conditions
      <4> QED
        BY <1>n, <3>1, <4>2 DEF InRing
    <3> QED
      BY <1>0, <1>w, <3>1, SlotType DEF Claimed
  <2>8. \A i \in Idx : InRing(i, b) => InRing(i, b)' /\ i # HeadIdx
    BY <1>n, <2>1, <2>3 DEF InRing
  <2>9. Pos(TailIdx', b) <= Pos(HeadIdx, b) /\ Pos(HeadIdx, b) < Pos(HeadIdx', b)
    BY <1>n, <2>1, <2>3, <2>4
  <2>10. \A q \in Producers : Claims(q)' => q = p \/ Claims(q)
    BY <1>0, <2>1 DEF Claims
  <2>11. Claimed(b)'
    <3>1. \A q \in Producers : Claims(q)' => InRing(idx[q], b)' /\ ~Ready[SlotOf(idx[q])]
      <4>1. InRing(idx[p], b)' /\ ~Ready[SlotOf(idx[p])]
        BY <2>1, <2>7, <2>9 DEF InRing
      <4>2. \A q \in Producers : Claims(q) => InRing(idx[q], b)' /\ ~Ready[SlotOf(idx[q])]
        BY <1>0, <1>w, <2>1, <2>8 DEF Claimed, Slot, InRing
      <4> QED
        BY <2>1, <2>10, <4>1, <4>2
    <3>2. \A q, r \in Producers : Claims(q)' /\ Claims(r)' /\ idx[q] = idx[r] => q = r
      BY <1>0, <1>w, <2>1, <2>8, <2>10 DEF Claimed
    <3>3. \A s \in Slots : Ready[s] => \E i \in Idx : InRing(i, b)' /\ SlotOf(i) = s
      BY <1>0, <2>8 DEF Claimed
    <3> QED
      BY <2>1, <3>1, <3>2, <3>3 DEF Claimed, InRing, Slot
  <2>12. Receiving'
    <3>1. TailIdx # HeadIdx'
      BY <1>n, <2>3, <2>4
    <3> QED
      BY <2>1, <2>10, <3>1 DEF Receiving
  <2> QED
    BY <2>5, <2>6, <2>11, <2>12
<1>5. ASSUME CasFails(p) PROVE RingFrom(b)' /\ Receiving'
  <2>1. /\ UNCHANGED <<HeadIdx, TailIdx, Ready>> /\ total' = total /\ cpc' = cpc /\ pc[p] = "cas"
        /\ pc' = [pc EXCEPT ![p] = "head"] /\ idx' = [idx EXCEPT ![p] = 0]
    BY <1>0, <1>5, SendWords DEF CasFails
  <2> QED
    BY <1>0, <1>q, <2>1 DEF Claims
<1>6. ASSUME AwaitEmpty(p) PROVE RingFrom(b)' /\ Receiving'
  <2>1. /\ UNCHANGED <<HeadIdx, TailIdx, Ready>> /\ total' = total /\ cpc' = cpc /\ pc[p] = "wait"
        /\ pc' \in {[pc EXCEPT ![p] = "notify"], [pc EXCEPT ![p] = "write"]} /\ idx' = idx
    BY <1>0, <1>6, SendWords DEF AwaitEmpty
  <2> QED
    BY <1>0, <1>q, <2>1 DEF Claims
<1>7. ASSUME WriteSlot(p) PROVE RingFrom(b)' /\ Receiving'
  <2>1. /\ UNCHANGED <<HeadIdx, TailIdx, Ready>> /\ total' = total /\ cpc' = cpc /\ pc[p] = "write"
        /\ pc' = [pc EXCEPT ![p] = "ready"] /\ idx' = idx
    BY <1>0, <1>7, SendWords DEF WriteSlot
  <2> QED
    BY <1>0, <1>q, <2>1 DEF Claims
<1>8. ASSUME SetReady(p) PROVE RingFrom(b)' /\ Receiving'
  <2>1. /\ UNCHANGED <<HeadIdx, TailIdx>> /\ total' = total /\ cpc' = cpc /\ pc[p] = "ready"
        /\ pc' = [pc EXCEPT ![p] = "notify"] /\ idx' = idx
        /\ Ready' = [Ready EXCEPT ![Slot(p)] = TRUE]
    BY <1>0, <1>8, SendWords DEF SetReady
  <2>2. Bounded(b)' /\ Seekers(b)'
    <3>1. Seeking' \subseteq Seeking
      BY <1>0, <2>1 DEF Seeking
    <3> QED
      BY <1>0, <2>1, <3>1, BoundedKept
  <2>3. Claims(p) /\ InRing(idx[p], b) /\ (\A q \in Producers : Claims(q)' => q # p /\ Claims(q))
    BY <1>0, <2>1 DEF Claims, Claimed
  <2>4. \A i \in Idx : InRing(i, b) /\ i # idx[p] => SlotOf(i) # Slot(p)
    BY <1>0, <1>w, <2>3, OwnSlots DEF Slot
  <2>5. \A q \in Producers : Claims(q)' => InRing(idx[q], b) /\ Slot(q) # Slot(p) /\ ~Ready[Slot(q)]
    BY <1>0, <1>w, <2>3, <2>4 DEF Claimed, Slot
  <2>6. Claimed(b)'
    BY <1>0, <1>w, <2>1, <2>3, <2>5 DEF Claimed, InRing, Pos, Slot
  <2>7. Receiving'
    <3>1. ASSUME cpc = "emptied" PROVE SlotOf(TailIdx) # Slot(p)
      <4>1. idx[p] # TailIdx /\ TailIdx # HeadIdx
        BY <2>3, <3>1 DEF Receiving
      <4>2. InRing(TailIdx, b)
        BY <1>0, <1>n, <1>w, <4>1 DEF InRing, Bounded
      <4> QED
        BY <1>w, <2>4, <4>1, <4>2
    <3> QED
      BY <1>w, <2>1, <2>3, <3>1, SlotType DEF Receiving
  <2> QED
    BY <2>2, <2>6, <2>7
<1>9. ASSUME Notify(p) PROVE RingFrom(b)' /\ Receiving'
  <2>1. /\ UNCHANGED <<HeadIdx, TailIdx, Ready>> /\ total' = total /\ cpc' = cpc /\ pc[p] = "notify"
        /\ pc' = [pc EXCEPT ![p] = "wake"] /\ idx' = [idx EXCEPT ![p] = 0]
    BY <1>0, <1>9, SendWords DEF Notify
  <2> QED
    BY <1>0, <1>q, <2>1 DEF Claims
<1>10. ASSUME Wake(p) PROVE RingFrom(b)' /\ Receiving'
  <2>1. /\ UNCHANGED <<HeadIdx, TailIdx, Ready>> /\ total' = total /\ cpc' \in {cpc, "poll"}
        /\ pc' = [pc EXCEPT ![p] = "idle"] /\ idx' = idx
    BY <1>0, <1>10, SendWords DEF Wake
  <2> QED
    BY <1>0, <1>q, <2>1 DEF Claims
<1>11. ASSUME Die(p) PROVE RingFrom(b)' /\ Receiving'
  <2>1. /\ UNCHANGED <<HeadIdx, TailIdx, Ready>> /\ total' = total /\ cpc' = cpc
        /\ pc' = [pc EXCEPT ![p] = "dead"] /\ idx' = idx
    BY <1>0, <1>11, SendWords DEF Die
  <2> QED
    BY <1>0, <1>q, <2>1 DEF Claims
<1>12. ASSUME CloseRegions(p) PROVE RingFrom(b)' /\ Receiving'
  <2>1. /\ UNCHANGED <<HeadIdx, TailIdx, Ready>> /\ total' = total /\ cpc' = cpc
        /\ pc' = pc /\ idx' = idx
    BY <1>0, <1>12, SendWords DEF CloseRegions
  <2> QED
    BY <1>0, <1>q, <2>1 DEF Claims
<1> QED
  BY <1>1, <1>2, <1>3, <1>4, <1>5, <1>6, <1>7, <1>8, <1>9, <1>10, <1>11, <1>12 DEF SendStep

\* So do the steps of the owner.
LEMMA OwnerRing ==
    ASSUME Conditions, Typed, Fresh, Receiving, NEW b \in Idx, RingFrom(b),
           CreateSegment \/ ResetIndices \/ Attach \/ ReceiveStep \/ Shutdown \/ OwnerCrash
    PROVE  RingFrom(b)' /\ Receiving'
<1> USE DEF sender, RingFrom
<1>0. MaxSegs = 1 /\ Bounded(b) /\ Seekers(b) /\ Claimed(b)
  BY DEF Conditions
<1>w. /\ HeadIdx \in Idx /\ TailIdx \in Idx /\ Ready \in [Slots -> BOOLEAN] /\ SlotOf(TailIdx) \in Slots
      /\ \A q \in Producers : idx[q] \in Idx /\ Slot(q) \in Slots
      /\ cpc # "down" => seg = 1
  BY <1>0, Words, SlotType
<1>n. /\ Pos(HeadIdx, b) \in Nat /\ Pos(TailIdx, b) \in Nat /\ Cap \in Nat /\ IdxSpace \in Nat
      /\ \A i \in Idx : Pos(i, b) \in Nat /\ Pos(i, b) < IdxSpace
      /\ \A i, j \in Idx : Pos(i, b) = Pos(j, b) => i = j
  BY <1>0, Numbers
<1>s. UNCHANGED <<pc, idx, total>> /\ Seeking' = Seeking /\ \A q \in Producers : Claims(q)' = Claims(q)
  BY DEF CreateSegment, ResetIndices, Attach, ReceiveStep, Shutdown, OwnerCrash, Break, Copy, SetEmpty,
         AdvanceTail, LoadNotify, CheckAgain, FutexWait, WaitTimesOut, Seeking, Claims
<1>b. ASSUME UNCHANGED <<HeadIdx, TailIdx>> PROVE Bounded(b)' /\ Seekers(b)'
  BY <1>0, <1>s, <1>b, BoundedKept
<1>1. ASSUME CreateSegment \/ ResetIndices \/ Attach \/ Break \/ LoadNotify \/ CheckAgain
                \/ FutexWait \/ WaitTimesOut \/ Shutdown \/ OwnerCrash
      PROVE  RingFrom(b)' /\ Receiving'
  <2>1. UNCHANGED <<HeadIdx, TailIdx, Ready>>
    BY <1>0, <1>1, OwnerWords
  <2>2. cpc' \notin {"copied", "emptied"}
    BY <1>1 DEF CreateSegment, ResetIndices, Attach, Break, LoadNotify, CheckAgain,
                FutexWait, WaitTimesOut, Shutdown, OwnerCrash, Stopped
  <2>3. Claimed(b)' /\ Receiving'
    BY <1>0, <1>s, <2>1, <2>2, ClaimedKept
  <2> QED
    BY <1>b, <2>1, <2>3
<1>2. ASSUME Copy PROVE RingFrom(b)' /\ Receiving'
  <2>1. UNCHANGED <<HeadIdx, TailIdx, Ready>> /\ cpc' = "copied"
    BY <1>0, <1>2, OwnerWords DEF Copy
  <2>2. TailIdx # HeadIdx /\ Ready[SlotOf(TailIdx)]
    BY <1>2, <1>w DEF Copy, IsReady, HasData, TailSlot, TailIdx, HeadIdx, Ready
  <2>3. \A q \in Producers : Claims(q) => idx[q] # TailIdx
    BY <1>0, <2>2 DEF Claimed, Slot
  <2>4. Receiving'
    BY <1>s, <2>1, <2>2, <2>3 DEF Receiving
  <2>5. Claimed(b)'
    BY <1>0, <1>s, <2>1 DEF Claimed, InRing, Pos, Slot
  <2> QED
    BY <1>b, <2>1, <2>4, <2>5
<1>3. ASSUME SetEmpty PROVE RingFrom(b)' /\ Receiving'
  <2>1. /\ UNCHANGED <<HeadIdx, TailIdx>> /\ Ready' = [Ready EXCEPT ![SlotOf(TailIdx)] = FALSE]
        /\ cpc = "copied" /\ cpc' = "emptied"
    BY <1>0, <1>3, OwnerWords DEF SetEmpty
  <2>2. \A x \in Slots : Ready'[x] => Ready[x]
    BY <1>w, <2>1
  <2>3. Claimed(b)'
    BY <1>0, <1>s, <1>w, <2>1, <2>2 DEF Claimed, InRing, Pos, Slot
  <2>4. Receiving'
    BY <1>s, <1>w, <2>1 DEF Receiving
  <2> QED
    BY <1>b, <2>1, <2>3, <2>4
<1>4. ASSUME AdvanceTail PROVE RingFrom(b)' /\ Receiving'
  <2>1. /\ TailIdx' = Incr(TailIdx) /\ UNCHANGED <<HeadIdx, Ready>>
        /\ cpc = "emptied" /\ cpc' = "poll"
    BY <1>0, <1>4, OwnerWords DEF AdvanceTail
  <2>2. /\ TailIdx # HeadIdx /\ ~Ready[SlotOf(TailIdx)]
        /\ \A q \in Producers : Claims(q) => idx[q] # TailIdx
    BY <2>1 DEF Receiving
  <2>3. Pos(TailIdx, b) < Pos(HeadIdx, b)
    BY <1>0, <1>n, <1>w, <2>2 DEF Bounded
  <2>4. Pos(TailIdx', b) = Pos(TailIdx, b) + 1
    <3>1. Pos(TailIdx, b) + 1 < IdxSpace
      BY <1>n, <1>w, <2>3
    <3> QED
      BY <1>w, <2>1, <3>1, PosIncr
  <2>5. Bounded(b)'
    <3>1. /\ Pos(TailIdx', b) <= Pos(HeadIdx, b)
          /\ Pos(HeadIdx, b) <= Pos(TailIdx', b) + Cap
      BY <1>0, <1>n, <2>3, <2>4 DEF Bounded
    <3> QED
      BY <1>0, <1>s, <2>1, <3>1 DEF Bounded
  <2>6. Seekers(b)'
    <3>1. Pos(HeadIdx, b) < Pos(TailIdx, b) + Cap => Pos(HeadIdx, b) < Pos(TailIdx', b) + Cap
      BY <1>n, <2>4
    <3> QED
      BY <1>0, <1>s, <2>1, <3>1 DEF Seekers
  <2>7. \A i \in Idx : InRing(i, b) /\ i # TailIdx => InRing(i, b)'
    BY <1>n, <1>w, <2>1, <2>4 DEF InRing
  <2>8. Claimed(b)'
    <3>1. \A q \in Producers : Claims(q)' => InRing(idx[q], b)' /\ ~Ready'[Slot(q)']
      BY <1>0, <1>s, <1>w, <2>1, <2>2, <2>7 DEF Claimed, Slot, InRing
    <3>2. \A x \in Slots : Ready'[x] => \E i \in Idx : InRing(i, b)' /\ SlotOf(i) = x
      BY <1>0, <2>1, <2>2, <2>7 DEF Claimed
    <3> QED
      BY <1>0, <1>s, <3>1, <3>2 DEF Claimed
  <2>9. Receiving'
    BY <2>1 DEF Receiving
  <2> QED
    BY <2>5, <2>6, <2>8, <2>9
<1> QED
  BY <1>1, <1>2, <1>3, <1>4 DEF ReceiveStep

LEMMA RingStep ==
    ASSUME Conditions, Typed, Fresh, Receiving, NEW b \in Idx, RingFrom(b), [Next]_vars
    PROVE  RingFrom(b)' /\ Receiving'
<1>1. ASSUME UNCHANGED vars PROVE RingFrom(b)' /\ Receiving'
  BY <1>1 DEF vars, RingFrom, Bounded, Seekers, Claimed, Receiving, InRing, Pos, Seeking, Claims, Slot,
              HeadIdx, TailIdx, Ready
<1> QED
  BY <1>1, SendRing, OwnerRing DEF Next

RingInv == Fresh /\ Receiving /\ \E b \in Idx : RingFrom(b)

LEMMA RingAlways == ASSUME Conditions PROVE Spec => []RingInv
<1>1. Init => RingInv
  <2> SUFFICES ASSUME Init PROVE RingInv
    OBVIOUS
  <2>0. 1 \in Segs /\ \A p \in Producers : pc[p] = "idle"
    BY Constants DEF Init
  <2>1. PICK b \in Idx : /\ HeadIdx = b /\ TailIdx = b
                         /\ Ready = [s \in Slots |-> FALSE]
    <3>1. CASE seg = 0 /\ ring = [g \in Segs |-> ClearRing]
      BY <2>0, <3>1, Constants DEF HeadIdx, TailIdx, Ready, ClearRing, Slots
    <3>2. CASE seg = 1 /\ ring = [g \in Segs |-> [ClearRing EXCEPT !.head = FirstIdx, !.tail = FirstIdx]]
      BY <2>0, <3>2, Constants DEF HeadIdx, TailIdx, Ready, ClearRing, Slots
    <3> QED
      BY <3>1, <3>2 DEF Init
  <2>2. Pos(b, b) = 0 /\ Cap \in Nat
    BY DistIs, RingAssumption DEF Pos, Idx
  <2>3. Seeking = {} /\ Cardinality(Seeking) = 0
    <3>1. Seeking = {}
      BY <2>0 DEF Seeking
    <3> QED
      BY <3>1, FS_EmptySet
  <2>4. Bounded(b)
    BY <2>1, <2>2, <2>3 DEF Bounded, Init
  <2>5. Seekers(b) /\ Claimed(b)
    BY <2>0, <2>1 DEF Seekers, Claimed, Claims
  <2>6. Receiving
    BY DEF Init, Receiving
  <2>7. Fresh
    <3>1. CASE seg = 0 /\ ~linked /\ cpc = "down" /\ ring = [g \in Segs |-> ClearRing]
      BY <2>0, <3>1 DEF Fresh
    <3>2. CASE seg = 1 /\ cpc = "poll"
      BY <2>0, <3>2 DEF Fresh
    <3> QED
      BY <3>1, <3>2 DEF Init
  <2> QED
    BY <2>4, <2>5, <2>6, <2>7 DEF RingInv, RingFrom
<1>2. Typed /\ RingInv /\ [Next]_vars => RingInv'
  <2> SUFFICES ASSUME Typed, RingInv, [Next]_vars PROVE RingInv'
    OBVIOUS
  <2>1. PICK b \in Idx : RingFrom(b)
    BY DEF RingInv
  <2>2. RingFrom(b)' /\ Receiving'
    BY <2>1, RingStep DEF RingInv
  <2>3. Fresh'
    BY FreshStep DEF RingInv, Conditions
  <2> QED
    BY <2>2, <2>3 DEF RingInv
<1> QED
  BY <1>1, <1>2, TypedAlways, PTL DEF Spec

\* The check against the capacity, made on a head and a tail that may both be
\* stale, is enough: a claimed slot is empty and one producer's, for any
\* number of producers, with indices that wrap, dying producers and an owner
\* that crashes.
THEOREM ClaimedSlotIsFreeHolds == ASSUME Conditions PROVE Spec => []ClaimedSlotIsFree
<1>1. Typed /\ RingInv => ClaimedSlotIsFree
  <2> SUFFICES ASSUME Typed, RingInv, NEW p \in Producers, Claims(p)
               PROVE  /\ ~ring[region[p]].ready[Slot(p)]
                      /\ \A q \in Producers \ {p} :
                            Claims(q) /\ region[q] = region[p] => Slot(q) # Slot(p)
    BY DEF ClaimedSlotIsFree
  <2>1. PICK b \in Idx : Bounded(b) /\ Claimed(b)
    BY DEF RingInv, RingFrom
  <2>2. /\ \A q \in Producers : idx[q] \in Idx
        /\ pc[p] \notin {"idle", "dead"} => region[p] = 1
    BY Words DEF Conditions
  <2>3. ~ring[region[p]].ready[Slot(p)]
    BY <2>1, <2>2 DEF Claims, Claimed, Ready
  <2>4. ASSUME NEW q \in Producers \ {p}, Claims(q) PROVE Slot(q) # Slot(p)
    <3>1. InRing(idx[p], b) /\ InRing(idx[q], b) /\ idx[p] # idx[q]
      BY <2>1, <2>4 DEF Claimed
    <3> QED
      BY <2>1, <2>2, <3>1, OwnSlots DEF Slot
  <2> QED
    BY <2>3, <2>4
<1> QED
  BY <1>1, TypedAlways, RingAlways, PTL

-----------------------------------------------------------------------------
(* The futex.                                                              *)

\* There is a message for the receive thread.
Due == TailIdx # HeadIdx /\ Ready[SlotOf(TailIdx)]

\* The value the receive thread compares is not ahead of notify; if it is
\* notify still, nobody has rung since the check for messages, and whoever
\* left a message since has yet to ring.
Ringing ==
    /\ cpc \in {"check", "wait"} => seen <= Bell
    /\ cpc = "wait" /\ Bell = seen /\ Due => \E p \in Producers : pc[p] \in {"notify", "dead"}
    /\ cpc = "asleep" /\ Due => \E p \in Producers : pc[p] \in {"notify", "wake", "dead"}

LEMMA SendRinging ==
    ASSUME Conditions, Typed, RingInv, Ringing, NEW p \in Producers,
           Send(p) \/ SendStep(p) \/ Die(p) \/ CloseRegions(p)
    PROVE  Ringing'
<1> USE DEF owner
<1>0. /\ MaxSegs = 1 /\ Bell \in Nat /\ HeadIdx \in Idx /\ TailIdx \in Idx /\ seen \in Nat
      /\ pc[p] \notin {"idle", "dead"} => region[p] = 1 /\ seg = 1
      /\ pc \in [Producers -> {"idle", "head", "tail", "cas", "wait", "write",
                              "ready", "notify", "wake", "dead"}]
  BY Words DEF Conditions, Typed, TypeOK
\* A step of a thread that neither has to ring nor leaves a message.
<1>q. ASSUME UNCHANGED <<Bell, cpc, seen>>, Due' => Due, pc[p] \notin {"notify", "wake", "dead"},
             NEW x, pc' = [pc EXCEPT ![p] = x]
      PROVE  Ringing'
  BY <1>0, <1>q DEF Ringing
\* A step after which the thread has to ring, or will never ring.
<1>r. ASSUME UNCHANGED <<Bell, cpc, seen>>, NEW x \in {"notify", "dead"}, pc' = [pc EXCEPT ![p] = x]
      PROVE  Ringing'
  BY <1>0, <1>r DEF Ringing
<1>1. ASSUME Send(p) PROVE Ringing'
  <2>1. UNCHANGED <<HeadIdx, TailIdx, Ready, Bell>>
    BY <1>0, <1>1, SendWords
  <2> QED
    BY <1>1, <1>q, <2>1 DEF Send, Due
<1>2. ASSUME LoadHead(p) \/ LoadTail(p) \/ CasFails(p) PROVE Ringing'
  <2>1. UNCHANGED <<HeadIdx, TailIdx, Ready, Bell>>
    BY <1>0, <1>2, SendWords
  <2>2. PICK x \in {"tail", "idle", "cas", "head"} : pc' = [pc EXCEPT ![p] = x]
    BY <1>2 DEF LoadHead, LoadTail, CasFails
  <2>3. UNCHANGED <<cpc, seen>> /\ pc[p] \in {"head", "tail", "cas"}
    BY <1>2 DEF LoadHead, LoadTail, CasFails
  <2> QED
    BY <1>q, <2>1, <2>2, <2>3 DEF Due
<1>3. ASSUME Cas(p) PROVE Ringing'
  <2>1. UNCHANGED <<TailIdx, Ready, Bell>>
    BY <1>0, <1>3, SendWords
  <2>2. Ready[SlotOf(TailIdx)] => TailIdx # HeadIdx
    <3>1. PICK b \in Idx : Claimed(b)
      BY DEF RingInv, RingFrom
    <3>2. Pos(TailIdx, b) \in Nat
      BY <1>0, Numbers
    <3>3. Ready[SlotOf(TailIdx)] => \E i \in Idx : InRing(i, b)
      BY <1>0, <3>1, SlotType DEF Claimed
    <3>4. \A i \in Idx : Pos(i, b) \in Nat
      BY <1>0, Numbers
    <3> QED
      BY <3>2, <3>3, <3>4 DEF InRing
  <2>3. Due' => Due
    BY <2>1, <2>2 DEF Due
  <2> QED
    BY <1>3, <1>q, <2>1, <2>3 DEF Cas
<1>4. ASSUME AwaitEmpty(p) PROVE Ringing'
  <2>1. UNCHANGED <<HeadIdx, TailIdx, Ready, Bell, cpc, seen>> /\ pc[p] = "wait"
    BY <1>0, <1>4, SendWords DEF AwaitEmpty
  <2>2. PICK x \in {"notify", "write"} : pc' = [pc EXCEPT ![p] = x]
    BY <1>4 DEF AwaitEmpty
  <2> QED
    BY <1>q, <1>r, <2>1, <2>2 DEF Due
<1>5. ASSUME WriteSlot(p) PROVE Ringing'
  <2>1. UNCHANGED <<HeadIdx, TailIdx, Ready, Bell>>
    BY <1>0, <1>5, SendWords
  <2> QED
    BY <1>5, <1>q, <2>1 DEF WriteSlot, Due
<1>6. ASSUME SetReady(p) PROVE Ringing'
  <2>1. UNCHANGED Bell
    BY <1>0, <1>6, SendWords
  <2> QED
    BY <1>6, <1>r, <2>1 DEF SetReady
<1>7. ASSUME Notify(p) PROVE Ringing'
  <2>1. Bell' = Bell + 1 /\ UNCHANGED <<cpc, seen>> /\ pc' = [pc EXCEPT ![p] = "wake"]
    BY <1>0, <1>7, SendWords DEF Notify
  <2> QED
    BY <1>0, <2>1 DEF Ringing
<1>8. ASSUME Wake(p) PROVE Ringing'
  <2>1. UNCHANGED <<HeadIdx, TailIdx, Ready, Bell>>
    BY <1>0, <1>8, SendWords
  <2>2. /\ pc[p] = "wake" /\ pc' = [pc EXCEPT ![p] = "idle"] /\ seen' = seen
        /\ cpc' # "asleep" /\ cpc' \in {cpc, "poll"}
    BY <1>0, <1>8 DEF Wake
  <2>3. Due' = Due
    BY <2>1 DEF Due
  <2> QED
    BY <1>0, <2>1, <2>2, <2>3 DEF Ringing
<1>9. ASSUME Die(p) PROVE Ringing'
  <2>1. UNCHANGED Bell
    BY <1>0, <1>9, SendWords
  <2> QED
    BY <1>9, <1>r, <2>1 DEF Die
<1>10. ASSUME CloseRegions(p) PROVE Ringing'
  <2>1. UNCHANGED <<HeadIdx, TailIdx, Ready, Bell>>
    BY <1>0, <1>10, SendWords
  <2> QED
    BY <1>10, <2>1 DEF CloseRegions, Due, Ringing
<1> QED
  BY <1>1, <1>2, <1>3, <1>4, <1>5, <1>6, <1>7, <1>8, <1>9, <1>10 DEF SendStep

LEMMA OwnerRinging ==
    ASSUME Conditions, Typed, RingInv, Ringing,
           CreateSegment \/ ResetIndices \/ Attach \/ ReceiveStep \/ Shutdown \/ OwnerCrash
    PROVE  Ringing'
<1> USE DEF sender
<1>0. MaxSegs = 1 /\ Bell \in Nat /\ Fresh /\ (cpc # "down" => seg = 1)
  BY Words DEF Conditions, RingInv
<1>1. ASSUME cpc' \notin {"check", "wait", "asleep"} PROVE Ringing'
  BY <1>1 DEF Ringing
<1>2. ASSUME LoadNotify PROVE Ringing'
  <2>1. Bell' = Bell /\ seen' = Bell /\ cpc' = "check"
    BY <1>0, <1>2, OwnerWords DEF LoadNotify, Bell
  <2> QED
    BY <1>0, <2>1 DEF Ringing
<1>3. ASSUME CheckAgain PROVE Ringing'
  <2>1. UNCHANGED <<HeadIdx, TailIdx, Ready, Bell>>
    BY <1>0, <1>3, OwnerWords
  <2>2. /\ cpc = "check" /\ seen' = seen
        /\ cpc' = "poll" \/ (cpc' = "wait" /\ TailIdx = HeadIdx)
    BY <1>0, <1>3 DEF CheckAgain, HasData, TailIdx, HeadIdx
  <2> QED
    BY <1>1, <2>1, <2>2 DEF Ringing, Due
<1>4. ASSUME FutexWait PROVE Ringing'
  <2>1. UNCHANGED <<HeadIdx, TailIdx, Ready, Bell>>
    BY <1>0, <1>4, OwnerWords
  <2>2. /\ cpc = "wait" /\ pc' = pc
        /\ cpc' = "poll" \/ (cpc' = "asleep" /\ Bell = seen)
    BY <1>0, <1>4 DEF FutexWait, Sleeps, Bell
  <2>3. Due' = Due
    BY <2>1 DEF Due
  <2> QED
    BY <1>1, <2>2, <2>3 DEF Ringing
<1>5. ASSUME CreateSegment \/ ResetIndices \/ Attach \/ Shutdown \/ OwnerCrash \/ Break \/ Copy
                \/ SetEmpty \/ AdvanceTail \/ WaitTimesOut
      PROVE  Ringing'
  BY <1>1, <1>5 DEF CreateSegment, ResetIndices, Attach, Shutdown, OwnerCrash, Stopped, Break, Copy,
                    SetEmpty, AdvanceTail, WaitTimesOut
<1> QED
  BY <1>2, <1>3, <1>4, <1>5 DEF ReceiveStep

\* The receive thread never sleeps beside a message unless a producer has yet
\* to wake it or has died on the way: between the load of notify, the check
\* for messages, the comparison in the kernel and the sleep nothing is lost.
THEOREM NoLostWakeupHolds == ASSUME Conditions PROVE Spec => []NoLostWakeup
<1>1. Init => Ringing
  BY DEF Init, Ringing
<1>2. Typed /\ RingInv /\ Ringing /\ [Next]_vars => Ringing'
  <2> SUFFICES ASSUME Typed, RingInv, Ringing, [Next]_vars PROVE Ringing'
    OBVIOUS
  <2>1. ASSUME UNCHANGED vars PROVE Ringing'
    BY <2>1 DEF vars, Ringing, Due, HeadIdx, TailIdx, Ready, Bell
  <2> QED
    BY <2>1, SendRinging, OwnerRinging DEF Next
<1>3. Typed /\ Ringing => NoLostWakeup
  <2> SUFFICES ASSUME Typed, Ringing, cpc = "asleep", IsReady
               PROVE  \E p \in Producers : pc[p] \in {"notify", "wake", "dead"}
    BY DEF NoLostWakeup
  <2>1. seg = 1
    BY Words DEF Conditions
  <2>2. Due
    BY <2>1 DEF IsReady, HasData, TailSlot, Due, TailIdx, HeadIdx, Ready
  <2> QED
    BY <2>2 DEF Ringing
<1> QED
  BY <1>1, <1>2, <1>3, TypedAlways, RingAlways, PTL DEF Spec

-----------------------------------------------------------------------------
(* The order of the messages.                                              *)

\* A thread with a message that is not READY yet.
Working(p) == pc[p] \in {"head", "tail", "cas", "wait", "write", "ready"}

\* What is READY was sent; a producer's number is not READY before its flag is
\* set; the receive thread holds the message of tail.
Accounted ==
    /\ \A m \in accepted : m[2] <= sent[m[1]] /\ (Working(m[1]) => m[2] < sent[m[1]])
    /\ \A x \in Slots : Ready[x] => Data[x] \in accepted
    /\ \A p \in Producers : pc[p] = "ready" => Data[Slot(p)] = <<p, sent[p]>>
    /\ cpc = "copied" => buf = Data[SlotOf(TailIdx)]
    /\ cpc = "emptied" => buf \in accepted

\* m comes before n if one producer sent both.
Before(m, n) == m[1] = n[1] => m[2] < n[2]

\* The indices with a message, and their messages.
Filled(i, b) == InRing(i, b) /\ Ready[SlotOf(i)]
Msg(i) == Data[SlotOf(i)]

\* Along the indices the messages of a producer are in order, behind those
\* that were delivered; what a producer has claimed is behind them all; what
\* the receive thread has taken out of the ring is between the two.
Sorted(b) ==
    /\ \A i, j \in Idx : Filled(i, b) /\ Filled(j, b) /\ Pos(i, b) < Pos(j, b) => Before(Msg(i), Msg(j))
    /\ \A k \in 1 .. Len(delivered), i \in Idx : Filled(i, b) => Before(delivered[k], Msg(i))
    /\ \A p \in Producers, i \in Idx :
          Claims(p) /\ Filled(i, b) /\ Msg(i)[1] = p => Pos(i, b) < Pos(idx[p], b)
    /\ cpc = "emptied" =>
         /\ \A k \in 1 .. Len(delivered) : Before(delivered[k], buf)
         /\ \A i \in Idx : Filled(i, b) => Before(buf, Msg(i))

\* A step that leaves what was sent, the flags and the messages alone.
LEMMA AccountedKept ==
    ASSUME Typed, Accounted, UNCHANGED <<Ready, Data, accepted, sent>>,
           \A q \in Producers : Working(q)' => Working(q),
           \A q \in Producers : pc'[q] = "ready" => pc[q] = "ready" /\ idx'[q] = idx[q],
           \/ cpc' \notin {"copied", "emptied"}
           \/ UNCHANGED <<cpc, buf, TailIdx>>
    PROVE  Accounted'
<1>1. \A m \in accepted : m[1] \in Producers
  BY DEF Typed, TypeOK, Message
<1>2. \A m \in accepted' : m[2] <= sent'[m[1]] /\ (Working(m[1])' => m[2] < sent'[m[1]])
  BY <1>1 DEF Accounted
<1>3. \A x \in Slots : Ready'[x] => Data'[x] \in accepted'
  BY DEF Accounted
<1>4. \A q \in Producers : pc'[q] = "ready" => Data'[Slot(q)'] = <<q, sent'[q]>>
  BY DEF Accounted, Slot
<1>5. (cpc' = "copied" => buf' = Data'[SlotOf(TailIdx')]) /\ (cpc' = "emptied" => buf' \in accepted')
  BY DEF Accounted
<1> QED
  BY <1>2, <1>3, <1>4, <1>5 DEF Accounted, Working

\* A step that makes nothing READY, claims nothing and delivers nothing.
LEMMA SortedKept ==
    ASSUME NEW b \in Idx, Sorted(b), delivered' = delivered,
           \A i \in Idx : Filled(i, b)' => Filled(i, b) /\ Msg(i)' = Msg(i),
           \A q \in Producers : Claims(q)' => Claims(q) /\ idx'[q] = idx[q],
           cpc' # "emptied" \/ UNCHANGED <<cpc, buf>>
    PROVE  Sorted(b)'
<1>1. \A i, j \in Idx :
         Filled(i, b)' /\ Filled(j, b)' /\ Pos(i, b) < Pos(j, b) => Before(Msg(i)', Msg(j)')
  BY DEF Sorted
<1>2. \A k \in 1 .. Len(delivered'), i \in Idx : Filled(i, b)' => Before(delivered'[k], Msg(i)')
  BY DEF Sorted
<1>3. \A p \in Producers, i \in Idx :
         Claims(p)' /\ Filled(i, b)' /\ Msg(i)'[1] = p => Pos(i, b) < Pos(idx'[p], b)
  BY DEF Sorted
<1>4. cpc' = "emptied" =>
        /\ \A k \in 1 .. Len(delivered') : Before(delivered'[k], buf')
        /\ \A i \in Idx : Filled(i, b)' => Before(buf', Msg(i)')
  BY DEF Sorted
<1> QED
  BY <1>1, <1>2, <1>3, <1>4 DEF Sorted, Before, Pos

LEMMA SendOrder ==
    ASSUME Conditions, Typed, Fresh, Receiving, NEW b \in Idx, RingFrom(b), Accounted, Sorted(b), InOrder,
           NEW p \in Producers, Send(p) \/ SendStep(p) \/ Die(p) \/ CloseRegions(p)
    PROVE  Accounted' /\ Sorted(b)'
<1> USE DEF owner
<1>0. /\ MaxSegs = 1 /\ Bounded(b) /\ Claimed(b)
      /\ pc \in [Producers -> {"idle", "head", "tail", "cas", "wait", "write",
                              "ready", "notify", "wake", "dead"}]
      /\ sent \in [Producers -> Nat] /\ accepted \subseteq Message /\ delivered \in Seq(Message)
      /\ \A m \in accepted : m[1] \in Producers /\ m[2] \in Nat
      /\ idx \in [Producers -> Idx]
  BY DEF Conditions, Typed, TypeOK, RingFrom, Message
<1>w. /\ HeadIdx \in Idx /\ TailIdx \in Idx
      /\ Ready \in [Slots -> BOOLEAN] /\ Data \in [Slots -> Message \cup {NoData}]
      /\ \A q \in Producers : idx[q] \in Idx /\ Slot(q) \in Slots
      /\ \A i \in Idx : SlotOf(i) \in Slots
  BY <1>0, Words, SlotType
<1>n. Pos(HeadIdx, b) \in Nat /\ \A i \in Idx : Pos(i, b) \in Nat
  BY <1>0, Numbers
\* A step that only moves a thread, without a claim.
<1>q. ASSUME UNCHANGED <<HeadIdx, TailIdx, Ready, Data, accepted, sent, buf, delivered>>,
             cpc' = cpc \/ cpc' = "poll",
             NEW x, pc' = [pc EXCEPT ![p] = x], x # "ready", Working(p)' => Working(p),
             Claims(p)' => Claims(p) /\ idx'[p] = idx[p],
             \A q \in Producers \ {p} : idx'[q] = idx[q]
      PROVE  Accounted' /\ Sorted(b)'
  <2>1. \A q \in Producers : Working(q)' => Working(q)
    BY <1>0, <1>q DEF Working
  <2>2. \A q \in Producers : pc'[q] = "ready" => pc[q] = "ready" /\ idx'[q] = idx[q]
    BY <1>0, <1>q
  <2>3. \A q \in Producers : Claims(q)' => Claims(q) /\ idx'[q] = idx[q]
    BY <1>0, <1>q DEF Claims
  <2>4. \A i \in Idx : Filled(i, b)' => Filled(i, b) /\ Msg(i)' = Msg(i)
    BY <1>q DEF Filled, InRing, Pos, Msg
  <2>5. Accounted'
    BY <1>q, <2>1, <2>2, AccountedKept
  <2>6. Sorted(b)'
    BY <1>q, <2>3, <2>4, SortedKept
  <2> QED
    BY <2>5, <2>6
<1>1. ASSUME Send(p) PROVE Accounted' /\ Sorted(b)'
  <2>1. /\ UNCHANGED <<HeadIdx, TailIdx, Ready, Data, accepted, cpc, buf, idx, delivered>>
        /\ pc[p] = "idle" /\ pc' \in {[pc EXCEPT ![p] = "idle"], [pc EXCEPT ![p] = "head"]}
        /\ sent' = [sent EXCEPT ![p] = @ + 1]
    BY <1>0, <1>1, SendWords DEF Send
  <2>2. \A q \in Producers : Claims(q)' => Claims(q) /\ idx'[q] = idx[q]
    BY <1>0, <2>1 DEF Claims
  <2>3. \A i \in Idx : Filled(i, b)' => Filled(i, b) /\ Msg(i)' = Msg(i)
    BY <2>1 DEF Filled, InRing, Pos, Msg
  <2>4. Sorted(b)'
    BY <2>1, <2>2, <2>3, SortedKept
  <2>5. \A m \in accepted' : m[2] <= sent'[m[1]] /\ (Working(m[1])' => m[2] < sent'[m[1]])
    <3> SUFFICES ASSUME NEW m \in accepted
                 PROVE  m[2] <= sent'[m[1]] /\ (Working(m[1])' => m[2] < sent'[m[1]])
      BY <2>1
    <3>1. m[1] \in Producers /\ m[2] \in Nat /\ sent[m[1]] \in Nat
          /\ m[2] <= sent[m[1]] /\ (Working(m[1]) => m[2] < sent[m[1]])
      BY <1>0 DEF Accounted
    <3>2. CASE m[1] = p
      <4>1. sent'[m[1]] = sent[m[1]] + 1
        BY <1>0, <2>1, <3>2
      <4> QED
        BY <3>1, <4>1
    <3>3. CASE m[1] # p
      <4>1. sent'[m[1]] = sent[m[1]] /\ pc'[m[1]] = pc[m[1]]
        BY <1>0, <2>1, <3>1, <3>3
      <4> QED
        BY <3>1, <4>1 DEF Working
    <3> QED
      BY <3>2, <3>3
  <2>6. \A q \in Producers : pc'[q] = "ready" => Data'[Slot(q)'] = <<q, sent'[q]>>
    <3> SUFFICES ASSUME NEW q \in Producers, pc'[q] = "ready" PROVE Data'[Slot(q)'] = <<q, sent'[q]>>
      OBVIOUS
    <3>1. q # p
      BY <1>0, <2>1
    <3>2. pc[q] = "ready" /\ sent'[q] = sent[q]
      BY <1>0, <2>1, <3>1
    <3> QED
      BY <2>1, <3>2 DEF Accounted, Slot
  <2>7. Accounted'
    BY <2>1, <2>5, <2>6 DEF Accounted, Working
  <2> QED
    BY <2>4, <2>7
<1>2. ASSUME LoadHead(p) PROVE Accounted' /\ Sorted(b)'
  <2>1. UNCHANGED <<HeadIdx, TailIdx, Ready, Data, accepted, sent, buf, delivered, cpc>>
    BY <1>0, <1>2, SendWords DEF LoadHead
  <2> QED
    BY <1>0, <1>2, <1>q, <2>1 DEF LoadHead, Working, Claims
<1>3. ASSUME LoadTail(p) PROVE Accounted' /\ Sorted(b)'
  <2>1. UNCHANGED <<HeadIdx, TailIdx, Ready, Data, accepted, sent, buf, delivered, cpc>>
    BY <1>0, <1>3, SendWords DEF LoadTail
  <2>2. PICK x \in {"idle", "cas"} : pc' = [pc EXCEPT ![p] = x]
    BY <1>3 DEF LoadTail
  <2>3. pc[p] = "tail" /\ \A q \in Producers \ {p} : idx'[q] = idx[q]
    BY <1>0, <1>3 DEF LoadTail
  <2> QED
    BY <1>0, <1>q, <2>1, <2>2, <2>3 DEF Working, Claims
<1>4. ASSUME Cas(p) PROVE Accounted' /\ Sorted(b)'
  <2>1. /\ UNCHANGED <<TailIdx, Ready, Data, accepted, sent, cpc, buf, idx, delivered>>
        /\ HeadIdx = idx[p] /\ HeadIdx' = Incr(HeadIdx) /\ pc[p] = "cas" /\ pc' = [pc EXCEPT ![p] = "wait"]
    BY <1>0, <1>4, SendWords DEF Cas
  <2>2. Accounted'
    <3>1. \A q \in Producers : Working(q)' => Working(q)
      BY <1>0, <2>1 DEF Working
    <3>2. \A q \in Producers : pc'[q] = "ready" => pc[q] = "ready" /\ idx'[q] = idx[q]
      BY <1>0, <2>1
    <3> QED
      BY <2>1, <3>1, <3>2, AccountedKept
  <2>3. RingFrom(b)'
    BY SendRing
  <2>4. \A i \in Idx : Ready[SlotOf(i)] => \E j \in Idx : InRing(j, b) /\ SlotOf(j) = SlotOf(i)
    BY <1>0, <1>w DEF Claimed
  <2>5. \A i \in Idx : InRing(i, b) => InRing(i, b)'
    <3>1. Pos(HeadIdx, b) < Pos(HeadIdx', b)
      <4>1. Claims(p)'
        BY <1>0, <2>1 DEF Claims
      <4>2. InRing(idx[p], b)'
        BY <2>3, <4>1 DEF RingFrom, Claimed
      <4> QED
        BY <2>1, <4>2 DEF InRing, Pos
    <3>2. HeadIdx' \in Idx
      BY <1>w, <2>1, Positions
    <3>3. Pos(HeadIdx', b) \in Nat
      BY <1>n, <3>2
    <3> QED
      BY <1>n, <2>1, <3>1, <3>3 DEF InRing
  <2>6. \A i \in Idx : Filled(i, b)' => Filled(i, b) /\ Msg(i)' = Msg(i)
    <3> SUFFICES ASSUME NEW i \in Idx, Filled(i, b)' PROVE Filled(i, b) /\ Msg(i)' = Msg(i)
      OBVIOUS
    <3>1. InRing(i, b)' /\ Ready[SlotOf(i)]
      BY <2>1 DEF Filled
    <3>2. PICK j \in Idx : InRing(j, b) /\ SlotOf(j) = SlotOf(i)
      BY <2>4, <3>1
    <3>3. InRing(j, b)'
      BY <2>5, <3>2
    <3>4. i = j
      <4>1. PICK m \in Nat : IdxSpace = Cap * m
        BY DEF Conditions
      <4>2. HeadIdx' \in Idx
        BY <1>w, <2>1, Positions
      <4>3. Pos(HeadIdx', b) \in Nat /\ Pos(TailIdx, b) \in Nat /\ Pos(i, b) \in Nat /\ Pos(j, b) \in Nat
            /\ Cap \in Nat
        BY <1>n, <1>w, <4>2, RingAssumption
      <4>4. Pos(HeadIdx', b) <= Pos(TailIdx, b) + Cap
        BY <2>1, <2>3 DEF RingFrom, Bounded, Pos
      <4>5. /\ Pos(TailIdx, b) <= Pos(i, b) /\ Pos(i, b) < Pos(HeadIdx', b)
            /\ Pos(TailIdx, b) <= Pos(j, b) /\ Pos(j, b) < Pos(HeadIdx', b)
        BY <2>1, <3>1, <3>3 DEF InRing, Pos
      <4>6. Dist(i, b) - Dist(j, b) < Cap /\ Dist(j, b) - Dist(i, b) < Cap
        BY <4>3, <4>4, <4>5 DEF Pos
      <4> QED
        BY <3>2, <4>1, <4>6, SlotsDiffer
    <3> QED
      BY <2>1, <3>1, <3>2, <3>4 DEF Filled, Msg
  <2>7. \A q \in Producers : Claims(q)' => q = p \/ Claims(q)
    BY <1>0, <2>1 DEF Claims
  <2>8. \A q \in Producers, i \in Idx :
           Claims(q)' /\ Filled(i, b)' /\ Msg(i)'[1] = q => Pos(i, b) < Pos(idx'[q], b)
    <3>1. \A i \in Idx : Filled(i, b) => Pos(i, b) < Pos(idx[p], b)
      BY <2>1 DEF Filled, InRing
    <3> QED
      BY <2>1, <2>6, <2>7, <3>1 DEF Sorted
  <2>9. \A i, j \in Idx :
           Filled(i, b)' /\ Filled(j, b)' /\ Pos(i, b) < Pos(j, b) => Before(Msg(i)', Msg(j)')
    BY <2>6 DEF Sorted
  <2>10. \A k \in 1 .. Len(delivered'), i \in Idx : Filled(i, b)' => Before(delivered'[k], Msg(i)')
    BY <2>1, <2>6 DEF Sorted
  <2>11. cpc' = "emptied" =>
           /\ \A k \in 1 .. Len(delivered') : Before(delivered'[k], buf')
           /\ \A i \in Idx : Filled(i, b)' => Before(buf', Msg(i)')
    BY <2>1, <2>6 DEF Sorted
  <2>12. Sorted(b)'
    BY <2>8, <2>9, <2>10, <2>11 DEF Sorted, Before, Pos
  <2> QED
    BY <2>2, <2>12
<1>5. ASSUME CasFails(p) PROVE Accounted' /\ Sorted(b)'
  <2>1. UNCHANGED <<HeadIdx, TailIdx, Ready, Data, accepted, sent, buf, delivered, cpc>>
    BY <1>0, <1>5, SendWords DEF CasFails
  <2> QED
    BY <1>0, <1>5, <1>q, <2>1 DEF CasFails, Working, Claims
<1>6. ASSUME AwaitEmpty(p) PROVE Accounted' /\ Sorted(b)'
  <2>1. pc[p] = "wait" /\ ~Ready[Slot(p)]
    BY <1>0, <1>6 DEF AwaitEmpty, Claimed, Claims
  <2>2. /\ UNCHANGED <<HeadIdx, TailIdx, Ready, Data, accepted, sent, buf, delivered, cpc, idx>>
        /\ pc' = [pc EXCEPT ![p] = "write"]
    BY <1>0, <1>6, <2>1, SendWords DEF AwaitEmpty
  <2> QED
    BY <1>0, <1>q, <2>1, <2>2 DEF Working, Claims
<1>7. ASSUME WriteSlot(p) PROVE Accounted' /\ Sorted(b)'
  <2>1. /\ UNCHANGED <<HeadIdx, TailIdx, Ready, accepted, sent, buf, delivered, cpc, idx>>
        /\ Data' = [Data EXCEPT ![Slot(p)] = <<p, sent[p]>>]
        /\ pc[p] = "write" /\ pc' = [pc EXCEPT ![p] = "ready"]
    BY <1>0, <1>7, SendWords DEF WriteSlot
  <2>2. Claims(p) /\ InRing(idx[p], b) /\ ~Ready[Slot(p)]
    BY <1>0, <2>1 DEF Claims, Claimed
  <2>3. \A x \in Slots : Ready[x] => Data'[x] = Data[x]
    BY <1>w, <2>1, <2>2
  <2>4. Sorted(b)'
    <3>1. \A i \in Idx : Filled(i, b)' => Filled(i, b) /\ Msg(i)' = Msg(i)
      BY <1>w, <2>1, <2>3 DEF Filled, InRing, Pos, Msg
    <3>2. \A q \in Producers : Claims(q)' => Claims(q) /\ idx'[q] = idx[q]
      BY <1>0, <2>1 DEF Claims
    <3> QED
      BY <2>1, <3>1, <3>2, SortedKept
  <2>5. \A q \in Producers : pc'[q] = "ready" => Data'[Slot(q)'] = <<q, sent'[q]>>
    <3> SUFFICES ASSUME NEW q \in Producers, pc'[q] = "ready" PROVE Data'[Slot(q)] = <<q, sent[q]>>
      BY <2>1 DEF Slot
    <3>1. CASE q = p
      BY <1>w, <2>1, <3>1
    <3>2. CASE q # p
      <4>1. pc[q] = "ready" /\ Claims(q)
        BY <1>0, <2>1, <3>2 DEF Claims
      <4>2. InRing(idx[q], b) /\ idx[q] # idx[p]
        BY <1>0, <2>2, <3>2, <4>1 DEF Claimed
      <4>3. Slot(q) # Slot(p)
        BY <1>0, <1>w, <2>2, <4>2, OwnSlots DEF Slot
      <4>4. Data'[Slot(q)] = Data[Slot(q)]
        BY <1>w, <2>1, <4>3
      <4> QED
        BY <4>1, <4>4 DEF Accounted
    <3> QED
      BY <3>1, <3>2
  <2>6. \A m \in accepted' : m[2] <= sent'[m[1]] /\ (Working(m[1])' => m[2] < sent'[m[1]])
    <3>1. \A q \in Producers : Working(q)' => Working(q)
      BY <1>0, <2>1 DEF Working
    <3> QED
      BY <1>0, <2>1, <3>1 DEF Accounted
  <2>7. cpc' = "copied" => buf' = Data'[SlotOf(TailIdx')]
    <3>1. cpc = "copied" => Ready[SlotOf(TailIdx)]
      BY DEF Receiving
    <3> QED
      BY <1>w, <2>1, <2>3, <3>1 DEF Accounted
  <2>8. Accounted'
    BY <2>1, <2>3, <2>5, <2>6, <2>7 DEF Accounted, Working
  <2> QED
    BY <2>4, <2>8
<1>8. ASSUME SetReady(p) PROVE Accounted' /\ Sorted(b)'
  <2>1. /\ UNCHANGED <<HeadIdx, TailIdx, Data, sent, buf, delivered, cpc, idx>>
        /\ Ready' = [Ready EXCEPT ![Slot(p)] = TRUE] /\ accepted' = accepted \cup {<<p, sent[p]>>}
        /\ pc[p] = "ready" /\ pc' = [pc EXCEPT ![p] = "notify"]
    BY <1>0, <1>8, SendWords DEF SetReady
  <2>2. /\ Claims(p) /\ Working(p) /\ InRing(idx[p], b) /\ Data[Slot(p)] = <<p, sent[p]>>
        /\ \A q \in Producers : Claims(q)' => q # p /\ Claims(q)
    BY <1>0, <2>1 DEF Claims, Claimed, Accounted, Working
  <2>3. \A m \in accepted : Before(m, <<p, sent[p]>>)
    BY <2>2 DEF Accounted, Before
  <2>4. \A i \in Idx : Filled(i, b)' => (Filled(i, b) \/ i = idx[p]) /\ Msg(i)' = Msg(i)
    <3>1. \A i \in Idx : InRing(i, b) /\ i # idx[p] => SlotOf(i) # Slot(p)
      BY <1>0, <1>w, <2>2, OwnSlots DEF Slot
    <3> QED
      BY <1>w, <2>1, <3>1 DEF Filled, InRing, Pos, Msg
  <2>5. Msg(idx[p]) = <<p, sent[p]>>
    BY <2>2 DEF Msg, Slot
  <2>6. \A i \in Idx : Filled(i, b) => Msg(i) \in accepted
    BY <1>w DEF Filled, Msg, Accounted
  <2>7. \A i, j \in Idx :
           Filled(i, b)' /\ Filled(j, b)' /\ Pos(i, b) < Pos(j, b) => Before(Msg(i)', Msg(j)')
    <3> SUFFICES ASSUME NEW i \in Idx, NEW j \in Idx, Filled(i, b)', Filled(j, b)', Pos(i, b) < Pos(j, b)
                 PROVE  Before(Msg(i), Msg(j))
      BY <2>4
    <3>1. CASE i # idx[p] /\ j # idx[p]
      BY <2>4, <3>1 DEF Sorted
    <3>2. CASE i # idx[p] /\ j = idx[p]
      BY <2>3, <2>4, <2>5, <2>6, <3>2
    <3>3. CASE i = idx[p] /\ j # idx[p]
      <4>1. Msg(j)[1] = p => Pos(j, b) < Pos(i, b)
        BY <2>2, <2>4, <3>3 DEF Sorted
      <4>2. Msg(j)[1] # p
        BY <1>n, <4>1
      <4> QED
        BY <2>5, <3>3, <4>2 DEF Before
    <3>4. i # j
      BY <1>n
    <3> QED
      BY <3>1, <3>2, <3>3, <3>4
  <2>8. \A k \in 1 .. Len(delivered'), i \in Idx : Filled(i, b)' => Before(delivered'[k], Msg(i)')
    <3>1. \A k \in 1 .. Len(delivered) : delivered[k] \in accepted
      BY DEF InOrder
    <3> QED
      BY <2>1, <2>3, <2>4, <2>5, <3>1 DEF Sorted
  <2>9. \A q \in Producers, i \in Idx :
           Claims(q)' /\ Filled(i, b)' /\ Msg(i)'[1] = q => Pos(i, b) < Pos(idx'[q], b)
    <3> SUFFICES ASSUME NEW q \in Producers, NEW i \in Idx, Claims(q)', Filled(i, b)', Msg(i)[1] = q
                 PROVE  Pos(i, b) < Pos(idx[q], b)
      BY <2>1, <2>4
    <3>1. q # p /\ Claims(q)
      BY <2>2
    <3>2. i # idx[p]
      BY <2>5, <3>1
    <3> QED
      BY <2>4, <3>1, <3>2 DEF Sorted
  <2>10. cpc' = "emptied" =>
           /\ \A k \in 1 .. Len(delivered') : Before(delivered'[k], buf')
           /\ \A i \in Idx : Filled(i, b)' => Before(buf', Msg(i)')
    <3>1. cpc = "emptied" => buf \in accepted
      BY DEF Accounted
    <3> QED
      BY <2>1, <2>3, <2>4, <2>5, <3>1 DEF Sorted
  <2>11. Sorted(b)'
    BY <2>7, <2>8, <2>9, <2>10 DEF Sorted, Before, Pos
  <2>12. \A m \in accepted' : m[2] <= sent'[m[1]] /\ (Working(m[1])' => m[2] < sent'[m[1]])
    <3>1. ~Working(p)' /\ \A q \in Producers : Working(q)' => Working(q)
      BY <1>0, <2>1 DEF Working
    <3>2. sent[p] \in Nat /\ sent[p] <= sent[p]
      BY <1>0
    <3> QED
      BY <1>0, <2>1, <3>1, <3>2 DEF Accounted
  <2>13. \A x \in Slots : Ready'[x] => Data'[x] \in accepted'
    BY <1>w, <2>1, <2>2 DEF Accounted
  <2>14. \A q \in Producers : pc'[q] = "ready" => Data'[Slot(q)'] = <<q, sent'[q]>>
    BY <1>0, <2>1 DEF Accounted, Slot
  <2>15. Accounted'
    BY <2>1, <2>12, <2>13, <2>14 DEF Accounted, Working
  <2> QED
    BY <2>11, <2>15
<1>9. ASSUME Notify(p) PROVE Accounted' /\ Sorted(b)'
  <2>1. UNCHANGED <<HeadIdx, TailIdx, Ready, Data, accepted, sent, buf, delivered, cpc>>
    BY <1>0, <1>9, SendWords DEF Notify
  <2> QED
    BY <1>0, <1>9, <1>q, <2>1 DEF Notify, Working, Claims
<1>10. ASSUME Wake(p) PROVE Accounted' /\ Sorted(b)'
  <2>1. /\ UNCHANGED <<HeadIdx, TailIdx, Ready, Data, accepted, sent, buf, delivered>>
        /\ cpc' = cpc \/ cpc' = "poll"
    BY <1>0, <1>10, SendWords DEF Wake
  <2> QED
    BY <1>0, <1>10, <1>q, <2>1 DEF Wake, Working, Claims
<1>11. ASSUME Die(p) PROVE Accounted' /\ Sorted(b)'
  <2>1. UNCHANGED <<HeadIdx, TailIdx, Ready, Data, accepted, sent, buf, delivered, cpc>>
    BY <1>0, <1>11, SendWords DEF Die
  <2> QED
    BY <1>0, <1>11, <1>q, <2>1 DEF Die, Working, Claims
<1>12. ASSUME CloseRegions(p) PROVE Accounted' /\ Sorted(b)'
  <2>1. UNCHANGED <<HeadIdx, TailIdx, Ready, Data, accepted, sent, buf, delivered, cpc>>
    BY <1>0, <1>12, SendWords DEF CloseRegions
  <2>2. pc[p] = "idle" /\ pc' = [pc EXCEPT ![p] = "idle"] /\ idx' = idx
    BY <1>0, <1>12 DEF CloseRegions
  <2> QED
    BY <1>0, <1>q, <2>1, <2>2 DEF Working, Claims
<1> QED
  BY <1>1, <1>2, <1>3, <1>4, <1>5, <1>6, <1>7, <1>8, <1>9, <1>10, <1>11, <1>12 DEF SendStep

LEMMA OwnerOrder ==
    ASSUME Conditions, Typed, Fresh, Receiving, NEW b \in Idx, RingFrom(b), Accounted, Sorted(b), InOrder,
           CreateSegment \/ ResetIndices \/ Attach \/ ReceiveStep \/ Shutdown \/ OwnerCrash
    PROVE  Accounted' /\ Sorted(b)' /\ InOrder'
<1> USE DEF sender
<1>0. /\ MaxSegs = 1 /\ Bounded(b) /\ Claimed(b) /\ delivered \in Seq(Message)
      /\ \A m \in accepted : m[1] \in Producers
  BY DEF Conditions, Typed, TypeOK, RingFrom, Message
<1>w. /\ HeadIdx \in Idx /\ TailIdx \in Idx /\ SlotOf(TailIdx) \in Slots
      /\ Ready \in [Slots -> BOOLEAN] /\ Data \in [Slots -> Message \cup {NoData}]
      /\ \A i \in Idx : SlotOf(i) \in Slots
      /\ cpc # "down" => seg = 1
  BY <1>0, Words, SlotType
<1>n. /\ Pos(HeadIdx, b) \in Nat /\ Pos(TailIdx, b) \in Nat
      /\ \A i \in Idx : Pos(i, b) \in Nat
      /\ \A i, j \in Idx : Pos(i, b) = Pos(j, b) => i = j
  BY <1>0, Numbers
<1>s. /\ UNCHANGED <<pc, idx, sent, accepted>>
      /\ \A q \in Producers : Claims(q)' = Claims(q) /\ Working(q)' = Working(q)
  BY DEF CreateSegment, ResetIndices, Attach, ReceiveStep, Shutdown, OwnerCrash, Break, Copy, SetEmpty,
         AdvanceTail, LoadNotify, CheckAgain, FutexWait, WaitTimesOut, Working, Claims
<1>1. ASSUME CreateSegment \/ ResetIndices \/ Attach \/ Break \/ LoadNotify \/ CheckAgain
                \/ FutexWait \/ WaitTimesOut \/ Shutdown \/ OwnerCrash
      PROVE  Accounted' /\ Sorted(b)' /\ InOrder'
  <2>1. UNCHANGED <<HeadIdx, TailIdx, Ready, Data>>
    BY <1>0, <1>1, OwnerWords
  <2>2. delivered' = delivered /\ cpc' \notin {"copied", "emptied"}
    BY <1>1 DEF CreateSegment, ResetIndices, Attach, Break, LoadNotify, CheckAgain,
                FutexWait, WaitTimesOut, Shutdown, OwnerCrash, Stopped
  <2>3. \A i \in Idx : Filled(i, b)' => Filled(i, b) /\ Msg(i)' = Msg(i)
    BY <2>1 DEF Filled, InRing, Pos, Msg
  <2>4. Accounted'
    BY <1>s, <2>1, <2>2, AccountedKept
  <2>5. Sorted(b)'
    BY <1>s, <2>2, <2>3, SortedKept
  <2>6. InOrder'
    BY <1>s, <2>2 DEF InOrder
  <2> QED
    BY <2>4, <2>5, <2>6
<1>2. ASSUME Copy PROVE Accounted' /\ Sorted(b)' /\ InOrder'
  <2>1. UNCHANGED <<HeadIdx, TailIdx, Ready, Data, delivered>> /\ cpc' = "copied"
    BY <1>0, <1>2, OwnerWords DEF Copy
  <2>2. buf' = Data[SlotOf(TailIdx)]
    BY <1>2, <1>w DEF Copy, TailSlot, TailIdx, Data
  <2>3. \A i \in Idx : Filled(i, b)' => Filled(i, b) /\ Msg(i)' = Msg(i)
    BY <2>1 DEF Filled, InRing, Pos, Msg
  <2>4. \A m \in accepted' : m[2] <= sent'[m[1]] /\ (Working(m[1])' => m[2] < sent'[m[1]])
    BY <1>0, <1>s DEF Accounted
  <2>5. Accounted'
    BY <1>s, <2>1, <2>2, <2>4 DEF Accounted, Working, Slot
  <2>6. Sorted(b)'
    BY <1>s, <2>1, <2>3, SortedKept
  <2>7. InOrder'
    BY <1>s, <2>1 DEF InOrder
  <2> QED
    BY <2>5, <2>6, <2>7
<1>3. ASSUME SetEmpty PROVE Accounted' /\ Sorted(b)' /\ InOrder'
  <2>1. /\ UNCHANGED <<HeadIdx, TailIdx, Data, delivered, buf>>
        /\ Ready' = [Ready EXCEPT ![SlotOf(TailIdx)] = FALSE]
        /\ cpc = "copied" /\ cpc' = "emptied"
    BY <1>0, <1>3, OwnerWords DEF SetEmpty
  <2>2. TailIdx # HeadIdx /\ Ready[SlotOf(TailIdx)] /\ buf = Msg(TailIdx)
    BY <2>1 DEF Receiving, Accounted, Msg
  <2>3. Filled(TailIdx, b)
    BY <1>0, <1>n, <1>w, <2>2 DEF Filled, InRing, Bounded
  <2>4. \A i \in Idx : Filled(i, b)' => Filled(i, b) /\ i # TailIdx /\ Msg(i)' = Msg(i)
    BY <1>w, <2>1 DEF Filled, InRing, Pos, Msg
  <2>5. \A i \in Idx : Filled(i, b)' => Pos(TailIdx, b) < Pos(i, b)
    BY <1>n, <1>w, <2>4 DEF Filled, InRing
  <2>6. /\ \A i \in Idx : Filled(i, b)' => Before(buf, Msg(i))
        /\ \A k \in 1 .. Len(delivered) : Before(delivered[k], buf)
    BY <1>w, <2>2, <2>3, <2>4, <2>5 DEF Sorted
  <2>7. \A i, j \in Idx :
           Filled(i, b)' /\ Filled(j, b)' /\ Pos(i, b) < Pos(j, b) => Before(Msg(i)', Msg(j)')
    BY <2>4 DEF Sorted
  <2>8. \A k \in 1 .. Len(delivered'), i \in Idx : Filled(i, b)' => Before(delivered'[k], Msg(i)')
    BY <2>1, <2>4 DEF Sorted
  <2>9. \A q \in Producers, i \in Idx :
           Claims(q)' /\ Filled(i, b)' /\ Msg(i)'[1] = q => Pos(i, b) < Pos(idx'[q], b)
    BY <1>s, <2>4 DEF Sorted
  <2>10. Sorted(b)'
    BY <2>1, <2>4, <2>6, <2>7, <2>8, <2>9 DEF Sorted, Before, Pos
  <2>11. \A m \in accepted' : m[2] <= sent'[m[1]] /\ (Working(m[1])' => m[2] < sent'[m[1]])
    BY <1>0, <1>s DEF Accounted
  <2>12. \A x \in Slots : Ready'[x] => Data'[x] \in accepted'
    BY <1>s, <1>w, <2>1 DEF Accounted
  <2>13. buf' \in accepted'
    BY <1>s, <1>w, <2>1, <2>2 DEF Accounted, Msg
  <2>14. Accounted'
    BY <1>s, <2>1, <2>11, <2>12, <2>13 DEF Accounted, Working, Slot
  <2>15. InOrder'
    BY <1>s, <2>1 DEF InOrder
  <2> QED
    BY <2>10, <2>14, <2>15
<1>4. ASSUME AdvanceTail PROVE Accounted' /\ Sorted(b)' /\ InOrder'
  <2>1. /\ TailIdx' = Incr(TailIdx) /\ UNCHANGED <<HeadIdx, Ready, Data>>
        /\ cpc = "emptied" /\ cpc' = "poll"
        /\ delivered' = delivered \/ delivered' = Append(delivered, buf)
    BY <1>0, <1>4, OwnerWords DEF AdvanceTail
  <2>2. Accounted'
    BY <1>s, <2>1, AccountedKept
  <2>3. buf \in accepted /\ buf \in Message
    BY <2>1 DEF Accounted, Typed, TypeOK
  <2>4. Pos(TailIdx, b) <= Pos(TailIdx', b)
    <3>1. TailIdx # HeadIdx
      BY <2>1 DEF Receiving
    <3>2. Pos(TailIdx, b) < Pos(HeadIdx, b) /\ Pos(HeadIdx, b) < IdxSpace /\ IdxSpace \in Nat
      BY <1>0, <1>n, <1>w, <3>1, Numbers DEF Bounded
    <3>3. Pos(TailIdx, b) + 1 < IdxSpace
      BY <1>n, <3>2
    <3>4. Pos(TailIdx', b) = Pos(TailIdx, b) + 1
      BY <1>w, <2>1, <3>3, PosIncr
    <3> QED
      BY <1>n, <3>4
  <2>5. TailIdx' \in Idx
    BY <1>w, <2>1, Positions
  <2>6. \A i \in Idx : Filled(i, b)' => Filled(i, b) /\ Msg(i)' = Msg(i)
    <3>1. \A i \in Idx : InRing(i, b)' => InRing(i, b)
      BY <1>n, <2>1, <2>4, <2>5 DEF InRing
    <3> QED
      BY <2>1, <3>1 DEF Filled, Msg
  <2>7. CASE delivered' = delivered
    <3>1. Sorted(b)'
      BY <1>s, <2>1, <2>6, <2>7, SortedKept
    <3>2. InOrder'
      BY <1>s, <2>7 DEF InOrder
    <3> QED
      BY <2>2, <3>1, <3>2
  <2>8. CASE delivered' = Append(delivered, buf)
    <3>1. /\ Len(delivered) \in Nat /\ Len(delivered') = Len(delivered) + 1
          /\ \A k \in 1 .. Len(delivered) : delivered'[k] = delivered[k]
          /\ delivered'[Len(delivered) + 1] = buf
      BY <1>0, <2>3, <2>8
    <3>2. \A k \in 1 .. Len(delivered') :
             \/ k \in 1 .. Len(delivered) /\ delivered'[k] = delivered[k]
             \/ k = Len(delivered) + 1 /\ delivered'[k] = buf
      BY <3>1
    <3>3. \A k \in 1 .. Len(delivered'), i \in Idx : Filled(i, b)' => Before(delivered'[k], Msg(i)')
      BY <2>1, <2>6, <3>2 DEF Sorted
    <3>4. \A i, j \in Idx :
             Filled(i, b)' /\ Filled(j, b)' /\ Pos(i, b) < Pos(j, b) => Before(Msg(i)', Msg(j)')
      BY <2>6 DEF Sorted
    <3>5. \A q \in Producers, i \in Idx :
             Claims(q)' /\ Filled(i, b)' /\ Msg(i)'[1] = q => Pos(i, b) < Pos(idx'[q], b)
      BY <1>s, <2>6 DEF Sorted
    <3>6. Sorted(b)'
      BY <2>1, <3>3, <3>4, <3>5 DEF Sorted, Before, Pos
    <3>7. \A k \in 1 .. Len(delivered') : delivered'[k] \in accepted'
      BY <1>s, <2>3, <3>2 DEF InOrder
    <3>8. ASSUME NEW i \in 1 .. Len(delivered'), NEW j \in 1 .. Len(delivered'), i < j
          PROVE  Before(delivered'[i], delivered'[j])
      <4>1. i \in 1 .. Len(delivered) /\ delivered'[i] = delivered[i]
        BY <3>1, <3>2, <3>8
      <4>2. CASE j \in 1 .. Len(delivered)
        BY <3>1, <3>8, <4>1, <4>2 DEF InOrder, Before
      <4>3. CASE delivered'[j] = buf
        BY <2>1, <4>1, <4>3 DEF Sorted
      <4> QED
        BY <3>2, <4>2, <4>3
    <3>9. InOrder'
      BY <3>7, <3>8 DEF InOrder, Before
    <3> QED
      BY <2>2, <3>6, <3>9
  <2> QED
    BY <2>1, <2>7, <2>8
<1> QED
  BY <1>1, <1>2, <1>3, <1>4 DEF ReceiveStep

OrderInv ==
    /\ Fresh /\ Receiving /\ Accounted /\ InOrder
    /\ \E b \in Idx : RingFrom(b) /\ Sorted(b)

\* What the callback receives was sent, arrives once and in the order of its
\* producer, for any number of producers and messages, also when the owner
\* crashes at any step and comes back.
THEOREM InOrderHolds == ASSUME Conditions PROVE Spec => []InOrder
<1>1. Init /\ RingInv => OrderInv
  <2> SUFFICES ASSUME Init, RingInv PROVE OrderInv
    OBVIOUS
  <2>1. PICK b \in Idx : RingFrom(b)
    BY DEF RingInv
  <2>2. \A x \in Slots : ~Ready[x]
    <3>1. CASE ring = [g \in Segs |-> ClearRing]
      BY <3>1, Constants DEF Ready, ClearRing, Slots
    <3>2. CASE ring = [g \in Segs |-> [ClearRing EXCEPT !.head = FirstIdx, !.tail = FirstIdx]]
      BY <3>2, Constants DEF Ready, ClearRing, Slots
    <3> QED
      BY <3>1, <3>2 DEF Init
  <2>3. \A i \in Idx : ~Filled(i, b)
    BY <2>2, SlotType DEF Filled
  <2>4. Accounted
    BY <2>2 DEF Init, Accounted
  <2>5. Sorted(b)
    <3>1. cpc # "emptied"
      BY DEF Init
    <3> QED
      BY <2>3, <3>1 DEF Sorted
  <2>6. InOrder
    BY DEF Init, InOrder
  <2> QED
    BY <2>1, <2>4, <2>5, <2>6 DEF OrderInv, RingInv
<1>2. Typed /\ OrderInv /\ [Next]_vars => OrderInv'
  <2> SUFFICES ASSUME Typed, OrderInv, [Next]_vars PROVE OrderInv'
    OBVIOUS
  <2>0. Fresh /\ Receiving /\ Accounted /\ InOrder
    BY DEF OrderInv
  <2>1. PICK b \in Idx : RingFrom(b) /\ Sorted(b)
    BY DEF OrderInv
  <2>2. RingFrom(b)' /\ Receiving' /\ Fresh'
    BY <2>0, <2>1, RingStep, FreshStep DEF Conditions
  <2>3. ASSUME NEW p \in Producers, Send(p) \/ SendStep(p) \/ Die(p) \/ CloseRegions(p)
        PROVE  Accounted' /\ Sorted(b)' /\ InOrder'
    <3>1. Accounted' /\ Sorted(b)'
      BY <2>0, <2>1, <2>3, SendOrder
    <3>2. delivered' = delivered /\ accepted \subseteq accepted'
      BY <2>3 DEF Send, SendStep, LoadHead, LoadTail, Cas, CasFails, AwaitEmpty, WriteSlot, SetReady,
                  Notify, Wake, Die, CloseRegions, owner
    <3> QED
      BY <2>0, <3>1, <3>2 DEF InOrder
  <2>4. ASSUME UNCHANGED vars PROVE Accounted' /\ Sorted(b)' /\ InOrder'
    <3>1. UNCHANGED <<HeadIdx, TailIdx, Ready, Data, accepted, sent, pc, idx, cpc, buf, delivered>>
      BY <2>4 DEF vars, HeadIdx, TailIdx, Ready, Data
    <3>2. Accounted'
      BY <2>0, <3>1, AccountedKept DEF Working
    <3>3. \A i \in Idx : Filled(i, b)' => Filled(i, b) /\ Msg(i)' = Msg(i)
      BY <3>1 DEF Filled, InRing, Pos, Msg
    <3>4. Sorted(b)'
      BY <2>1, <3>1, <3>3, SortedKept DEF Claims
    <3> QED
      BY <2>0, <3>1, <3>2, <3>4 DEF InOrder
  <2>5. Accounted' /\ Sorted(b)' /\ InOrder'
    BY <2>0, <2>1, <2>3, <2>4, OwnerOrder DEF Next
  <2> QED
    BY <2>2, <2>5 DEF OrderInv
<1>3. OrderInv => InOrder
  BY DEF OrderInv
<1> QED
  BY <1>1, <1>2, <1>3, TypedAlways, RingAlways, PTL DEF Spec
=============================================================================
