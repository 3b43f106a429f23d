------------------------- MODULE QoSDeliveryProofs -------------------------
(***************************************************************************)
(* Safety of QoSDelivery for every number of threads, peers, ids, retries, *)
(* duplications and every width of the window, and of DedupStream, which   *)
(* drives the same window with one stream.                                 *)
(***************************************************************************)
EXTENDS QoSDelivery, DedupStream, FiniteSetTheorems, TLAPS

\* Packets are records over Seqs.
LEMMA PktInPacket ==
    ASSUME NEW type \in PacketType, NEW s \in Seqs
    PROVE  Pkt(type, s) \in Packet
  BY DEF Pkt, Packet

\* checkAndMark keeps a window a window.
LEMMA CheckAndMarkType ==
    ASSUME NEW w \in WindowState, NEW s \in Nat
    PROVE  CheckAndMark(w, s) \in WindowState
  BY WindowAssumption
     DEF CheckAndMark, Mark, WindowState, HigherOf, LowEnd, IsDuplicate, TooOld

\* Every step keeps the types.
LEMMA TypeStep == TypeOK /\ [Next]_vars => TypeOK'
<1> SUFFICES ASSUME TypeOK, [Next]_vars PROVE TypeOK'
  OBVIOUS
<1> USE DeliveryAssumption DEF TypeOK, engine, handling, history
<1>1. ASSUME NEW p \in Publishers, NEW lvl \in Levels, NEW targets \in SUBSET Receivers,
             PublishBegin(p, lvl, targets)
      PROVE  TypeOK'
  <2>1. Cardinality(targets) \in Nat
    BY FS_Subset, FS_CardinalityType
  <2>2. [todo |-> targets, level |-> lvl, unregistered |-> NoSeq] \in PublishState
    BY DEF PublishState
  <2>3. seqCounter' \in 1..(MaxSeq + 1) /\ pub' \in [Publishers -> PublishState]
    BY <1>1, <2>1, <2>2 DEF PublishBegin
  <2> QED
    BY <1>1, <2>3 DEF PublishBegin
<1>2. ASSUME NEW p \in Publishers, NEW r \in Receivers, PublishSend(p, r)
      PROVE  TypeOK'
  <2>1. seqCounter \in Seqs
    BY <1>2 DEF PublishSend, Seqs
  <2>2. pub[p].level \in 0..2 /\ pub[p].todo \subseteq Receivers
    BY DEF PublishState
  <2>3. pub' \in [Publishers -> PublishState]
    BY <1>2, <2>1, <2>2 DEF PublishSend, PublishState
  <2>4. net' \in [Packet -> Nat]
    BY <1>2, <2>1, PktInPacket DEF PublishSend, PacketType
  <2> QED
    BY <1>2, <2>1, <2>2, <2>3, <2>4 DEF PublishSend
<1>3. ASSUME NEW p \in Publishers, PublishRegister(p)
      PROVE  TypeOK'
  <2>1. pub[p] \in PublishState /\ pub[p].unregistered \in Seqs
    BY <1>3 DEF PublishRegister, PublishState
  <2> QED
    BY <1>3, <2>1 DEF PublishRegister, PublishState
<1>4. ASSUME NEW s \in Seqs, ReceivePublish(s)
      PROVE  TypeOK'
  <2>1. net' \in [Packet -> Nat]
    BY <1>4 DEF ReceivePublish
  <2>2. filtering' \in [Seqs -> Nat] /\ routing' \in [Seqs -> Nat]
    BY <1>4 DEF ReceivePublish
  <2> QED
    BY <1>4, <2>1, <2>2 DEF ReceivePublish
<1>4a. ASSUME NEW s \in Seqs, FilterPublish(s)
       PROVE  TypeOK'
  <2>1. CheckAndMark(window[dest[s]], s) \in WindowState
    BY CheckAndMarkType DEF Seqs
  <2>2. filtering' \in [Seqs -> Nat] /\ routing' \in [Seqs -> Nat]
    BY <1>4a DEF FilterPublish
  <2> QED
    BY <1>4a, <2>1, <2>2 DEF FilterPublish
<1>4b. ASSUME NEW s \in Seqs, RoutePublish(s)
       PROVE  TypeOK'
  <2>1. routing' \in [Seqs -> Nat] /\ delivered' \in [Seqs -> Nat]
    BY <1>4b DEF RoutePublish
  <2> QED
    BY <1>4b, <2>1 DEF RoutePublish
<1>5. ASSUME NEW s \in Seqs, ReceivePubrel(s)
      PROVE  TypeOK'
  BY <1>5, PktInPacket DEF ReceivePubrel, PacketType
<1>6. ASSUME NEW t \in RxThreads, NEW s \in Seqs, ReceiveAck(t, s)
      PROVE  TypeOK'
  BY <1>6, PktInPacket DEF ReceiveAck, PacketType
<1>7. ASSUME NEW t \in RxThreads, NEW s \in Seqs, ReceivePubrec(t, s)
      PROVE  TypeOK'
  BY <1>7, PktInPacket DEF ReceivePubrec, PacketType
<1>8. ASSUME NEW t \in RxThreads, NEW s \in Seqs, ReceivePubcomp(t, s)
      PROVE  TypeOK'
  BY <1>8, PktInPacket DEF ReceivePubcomp, PacketType
<1>9. ASSUME NEW t \in RxThreads, RegisterRel(t)
      PROVE  TypeOK'
  <2>1. rel[t] \in Seqs
    BY <1>9 DEF RegisterRel
  <2>2. NoSeq \in Seqs \union {NoSeq}
    OBVIOUS
  <2>3. 0 \in 0..MaxRetries
    OBVIOUS
  <2>4. rel' \in [RxThreads -> Seqs \union {NoSeq}]
    BY <1>9, <2>2 DEF RegisterRel
  <2>5. relRetry' \in [Seqs -> 0..MaxRetries]
    BY <1>9, <2>1, <2>3 DEF RegisterRel
  <2> QED
    BY <1>9, <2>1, <2>4, <2>5 DEF RegisterRel
<1>10. ASSUME NEW due \in SUBSET pending, NEW dueRel \in SUBSET pendingRel,
              ProcessTimeouts(due, dueRel)
       PROVE  TypeOK'
  <2>1. /\ retryCount' \in [Seqs -> 0..MaxRetries]
        /\ relRetry' \in [Seqs -> 0..MaxRetries]
    BY <1>10 DEF ProcessTimeouts, GivenUp
  <2>2. net' \in [Packet -> Nat]
    BY <1>10 DEF ProcessTimeouts
  <2> QED
    BY <1>10, <2>1, <2>2 DEF ProcessTimeouts, Kept, GivenUp
<1>11. ASSUME NEW r \in Receivers, CleanupDedupWindow(r)
       PROVE  TypeOK'
  <2>1. forgotten' \in [Seqs -> Nat]
    BY <1>11 DEF CleanupDedupWindow
  <2> QED
    BY <1>11, <2>1 DEF CleanupDedupWindow, EmptyWindow, WindowState
<1>12. ASSUME NEW m \in Packet, Duplicate(m)
       PROVE  TypeOK'
  BY <1>12 DEF Duplicate
<1>13. CASE UNCHANGED vars
  BY <1>13 DEF vars
<1> QED
  BY <1>1, <1>2, <1>3, <1>4, <1>4a, <1>4b, <1>5, <1>6, <1>7, <1>8, <1>9, <1>10, <1>11,
     <1>12, <1>13
     DEF Next

\* Type correctness: every variable of the model keeps its type.
THEOREM TypeCorrect == Spec => []TypeOK
<1>1. Init => TypeOK
  <2> SUFFICES ASSUME Init PROVE TypeOK
    OBVIOUS
  <2>1. (CHOOSE r \in Receivers : TRUE) \in Receivers
    BY DeliveryAssumption
  <2> QED
    BY <2>1, DeliveryAssumption
       DEF Init, TypeOK, NotPublishing, PublishState, EmptyWindow, WindowState, Seqs, NoSeq
<1> QED
  BY <1>1, TypeStep, PTL DEF Spec

-----------------------------------------------------------------------------
(* The inductive strengthenings.                                           *)

\* An id that seqCounter_ has not handed out is used nowhere.
UnsentIdle ==
    \A s \in Seqs : s >= seqCounter =>
        /\ level[s] = 0 /\ sends[s] = 0
        /\ filtering[s] = 0 /\ routing[s] = 0 /\ delivered[s] = 0
        /\ net[Pkt("PUBLISH", s)] = 0
        /\ s \notin pending /\ s \notin abandoned
        /\ \A p \in Publishers : pub[p].unregistered # s

\* Between two evictions the window lets a QoS 2 message pass once: an id it
\* does not know was delivered at most as often as it was forgotten.
Remembered ==
    \A s \in Seqs : level[s] = 2 =>
        delivered[s] + routing[s] <=
            forgotten[s] + (IF IsDuplicate(window[dest[s]], s) THEN 1 ELSE 0)

\* An id between send() and addPending belongs to one thread, is sent once,
\* is reliable and has no entry yet.
Unregistered ==
    \A p \in Publishers : pub[p].unregistered # NoSeq =>
        /\ sends[pub[p].unregistered] = 1 /\ level[pub[p].unregistered] >= 1
        /\ pub[p].unregistered \notin pending \union abandoned
        /\ \A q \in Publishers \ {p} : pub[q].unregistered # pub[p].unregistered

\* The retry count of an entry counts its transmissions.
Counted ==
    \A s \in pending :
        sends[s] = 1 + retryCount[s] /\ level[s] >= 1 /\ s \notin abandoned

\* The message passed the filter.
Reached(s) == delivered[s] + routing[s] >= 1

\* The ids a window goes by, its mark included, passed the filter of that
\* receiver.
WindowHonest ==
    \A r \in Receivers : \A s \in Nat :
        (s \in window[r].recent \/ (window[r].hasAny /\ s = window[r].highWater))
            => s \in Seqs /\ level[s] = 2 /\ dest[s] = r /\ Reached(s)

\* Only QoS 2 messages go through the filter.
FilteredLevel == \A s \in Seqs : filtering[s] > 0 => level[s] = 2

\* What AckMeansDelivered says of an answered message, and of a PUBREL on its
\* way to addPendingRel too.
Done(s) == delivered[s] + routing[s] + filtering[s] >= 1 \/ Overtaken(s)
Answered(s) ==
    \/ s \in confirmed \union pendingRel
    \/ \E t \in RxThreads : rel[t] = s
    \/ \E type \in PacketType \ {"PUBLISH"} : net[Pkt(type, s)] > 0
AnsweredDone == \A s \in Seqs : Answered(s) => Done(s)

-----------------------------------------------------------------------------
(* Fresh ids.                                                              *)

LEMMA PktFields ==
    ASSUME NEW a, NEW b, NEW s, NEW q
    PROVE  /\ Pkt(a, s).type = a /\ Pkt(a, s).seq = s
           /\ Pkt(a, s) = Pkt(b, q) <=> a = b /\ s = q
  BY DEF Pkt

LEMMA UnsentIdleStep == TypeOK /\ UnsentIdle /\ [Next]_vars => UnsentIdle'
<1> SUFFICES ASSUME TypeOK, UnsentIdle, [Next]_vars PROVE UnsentIdle'
  OBVIOUS
<1> USE DeliveryAssumption, PktInPacket, PktFields
    DEF TypeOK, UnsentIdle, engine, handling, history, PacketType
<1>1. ASSUME NEW p \in Publishers, NEW lvl \in Levels, NEW targets \in SUBSET Receivers,
             PublishBegin(p, lvl, targets)
      PROVE  UnsentIdle'
  BY <1>1 DEF PublishBegin, NoSeq, Seqs
<1>2. ASSUME NEW p \in Publishers, NEW r \in Receivers, PublishSend(p, r)
      PROVE  UnsentIdle'
  <2> SUFFICES ASSUME NEW s \in Seqs, s >= seqCounter'
               PROVE  /\ level'[s] = 0 /\ sends'[s] = 0
                      /\ filtering'[s] = 0 /\ routing'[s] = 0 /\ delivered'[s] = 0
                      /\ net'[Pkt("PUBLISH", s)] = 0
                      /\ s \notin pending' /\ s \notin abandoned'
                      /\ \A q \in Publishers : pub'[q].unregistered # s
    OBVIOUS
  <2>1. s >= seqCounter /\ s # seqCounter /\ seqCounter \in Seqs /\ s # NoSeq
    <3>1. seqCounter <= MaxSeq /\ seqCounter' = seqCounter + 1
      BY <1>2 DEF PublishSend
    <3> QED
      BY <3>1 DEF Seqs, NoSeq
  <2>2. level'[s] = 0 /\ sends'[s] = 0
    BY <1>2, <2>1 DEF PublishSend
  <2>3. net'[Pkt("PUBLISH", s)] = 0
    BY <1>2, <2>1 DEF PublishSend
  <2>4. \A q \in Publishers : pub'[q].unregistered # s
    BY <1>2, <2>1 DEF PublishSend
  <2> QED
    BY <1>2, <2>1, <2>2, <2>3, <2>4 DEF PublishSend
<1>3. ASSUME NEW p \in Publishers, PublishRegister(p)
      PROVE  UnsentIdle'
  BY <1>3 DEF PublishRegister, NoSeq, Seqs
<1>4. ASSUME NEW s \in Seqs, ReceivePublish(s)
      PROVE  UnsentIdle'
  BY <1>4 DEF ReceivePublish
<1>4a. ASSUME NEW s \in Seqs, FilterPublish(s)
       PROVE  UnsentIdle'
  BY <1>4a DEF FilterPublish
<1>4b. ASSUME NEW s \in Seqs, RoutePublish(s)
       PROVE  UnsentIdle'
  BY <1>4b DEF RoutePublish
<1>5. ASSUME NEW s \in Seqs, ReceivePubrel(s)
      PROVE  UnsentIdle'
  BY <1>5 DEF ReceivePubrel
<1>6. ASSUME NEW t \in RxThreads, NEW s \in Seqs,
             ReceiveAck(t, s) \/ ReceivePubrec(t, s) \/ ReceivePubcomp(t, s)
      PROVE  UnsentIdle'
  BY <1>6 DEF ReceiveAck, ReceivePubrec, ReceivePubcomp
<1>7. ASSUME NEW t \in RxThreads, RegisterRel(t)
      PROVE  UnsentIdle'
  BY <1>7 DEF RegisterRel
<1>8. ASSUME NEW due \in SUBSET pending, NEW dueRel \in SUBSET pendingRel,
             ProcessTimeouts(due, dueRel)
      PROVE  UnsentIdle'
  BY <1>8 DEF ProcessTimeouts, Kept, GivenUp
<1>9. ASSUME NEW r \in Receivers, CleanupDedupWindow(r)
      PROVE  UnsentIdle'
  BY <1>9 DEF CleanupDedupWindow
<1>10. ASSUME NEW m \in Packet, Duplicate(m)
       PROVE  UnsentIdle'
  BY <1>10 DEF Duplicate
<1>11. CASE UNCHANGED vars
  BY <1>11 DEF vars
<1> QED
  BY <1>1, <1>2, <1>3, <1>4, <1>4a, <1>4b, <1>5, <1>6, <1>7, <1>8, <1>9, <1>10, <1>11 DEF Next

LEMMA UnsentIdleAlways == Spec => []UnsentIdle
<1>1. Init => UnsentIdle
  BY PktInPacket DEF Init, UnsentIdle, NotPublishing, NoSeq, Seqs, PacketType
<1> QED
  BY <1>1, TypeCorrect, UnsentIdleStep, PTL DEF Spec

-----------------------------------------------------------------------------
(* Exactly-once filtering of QoS 2.                                        *)

\* Accepting an id forgets no id: what is pruned is too old from then on.
LEMMA MarkKeeps ==
    ASSUME NEW w \in WindowState, NEW q \in Nat, NEW s \in Nat, IsDuplicate(w, s)
    PROVE  IsDuplicate(Mark(w, q), s)
<1>1. w.hasAny /\ w.highWater \in Nat /\ w.recent \subseteq Nat
  BY DEF WindowState, IsDuplicate
<1> DEFINE high == HigherOf(w.highWater, q)
<1>2. /\ Mark(w, q).hasAny
      /\ Mark(w, q).highWater = high
      /\ Mark(w, q).recent = {x \in w.recent \union {q} : x >= LowEnd(high)}
  BY <1>1 DEF Mark
<1>3. high \in Nat /\ high >= w.highWater
  BY <1>1 DEF HigherOf
<1> HIDE DEF high
<1>4. CASE TooOld(w, s)
  BY <1>1, <1>2, <1>3, <1>4, WindowAssumption DEF TooOld, IsDuplicate
<1>5. CASE s \in w.recent
  BY <1>1, <1>2, <1>3, <1>5, WindowAssumption DEF TooOld, IsDuplicate, LowEnd
<1> QED
  BY <1>4, <1>5 DEF IsDuplicate

\* An id that was accepted is a duplicate from then on.
LEMMA MarkSelf ==
    ASSUME NEW w \in WindowState, NEW q \in Nat, ~IsDuplicate(w, q)
    PROVE  IsDuplicate(Mark(w, q), q)
  BY WindowAssumption DEF IsDuplicate, Mark, TooOld, LowEnd, HigherOf, WindowState

\* checkAndMark makes its id a duplicate and keeps every other one.
LEMMA CheckAndMarkRemembers ==
    ASSUME NEW w \in WindowState, NEW q \in Nat, NEW s \in Nat,
           IsDuplicate(w, s) \/ s = q
    PROVE  IsDuplicate(CheckAndMark(w, q), s)
  BY MarkKeeps, MarkSelf DEF CheckAndMark

LEMMA RememberedStep == TypeOK /\ UnsentIdle /\ Remembered /\ [Next]_vars => Remembered'
<1> SUFFICES ASSUME TypeOK, UnsentIdle, Remembered, [Next]_vars,
                    NEW s \in Seqs, level'[s] = 2
             PROVE  delivered'[s] + routing'[s] <=
                        forgotten'[s] + (IF IsDuplicate(window'[dest'[s]], s) THEN 1 ELSE 0)
  BY DEF Remembered
<1> DEFINE Known == IsDuplicate(window[dest[s]], s)
           Known1 == IsDuplicate(window'[dest'[s]], s)
           Goal == delivered'[s] + routing'[s] <= forgotten'[s] + (IF Known1 THEN 1 ELSE 0)
<1>0. /\ delivered[s] \in Nat /\ routing[s] \in Nat /\ forgotten[s] \in Nat
      /\ level[s] = 2 => delivered[s] + routing[s] <= forgotten[s] + (IF Known THEN 1 ELSE 0)
  BY DEF TypeOK, Remembered
<1> USE DEF engine, handling, history
<1>1. ASSUME UNCHANGED <<level, dest, window, delivered, routing, forgotten>>
      PROVE  Goal
  BY <1>0, <1>1
<1>2. ASSUME NEW p \in Publishers, NEW r \in Receivers, PublishSend(p, r)
      PROVE  Goal
  <2>1. UNCHANGED <<window, delivered, routing, forgotten>>
    BY <1>2 DEF PublishSend
  <2>2. CASE s = seqCounter
    <3>1. delivered[s] = 0 /\ routing[s] = 0
      BY <2>2 DEF UnsentIdle, TypeOK, Seqs
    <3> QED
      BY <1>0, <2>1, <3>1
  <2>3. CASE s # seqCounter
    <3>1. level'[s] = level[s] /\ dest'[s] = dest[s]
      BY <1>2, <2>3 DEF PublishSend, TypeOK
    <3> QED
      BY <1>0, <2>1, <3>1
  <2> QED
    BY <2>2, <2>3
<1>3. ASSUME NEW q \in Seqs, ReceivePublish(q)
      PROVE  Goal
  <2>1. UNCHANGED <<level, dest, window, delivered, forgotten>>
    BY <1>3 DEF ReceivePublish
  <2>2. routing'[s] = routing[s]
    BY <1>0, <1>3, <2>1 DEF ReceivePublish, TypeOK
  <2> QED
    BY <1>0, <2>1, <2>2
<1>4. ASSUME NEW q \in Seqs, FilterPublish(q)
      PROVE  Goal
  <2>1. UNCHANGED <<level, dest, delivered, forgotten>>
    BY <1>4 DEF FilterPublish
  <2>2. window[dest[s]] \in WindowState /\ dest[q] \in Receivers /\ dest[s] \in Receivers
    BY DEF TypeOK
  <2>3. Known \/ s = q => Known1
    <3>1. CASE dest[q] = dest[s]
      <4>1. window'[dest[s]] = CheckAndMark(window[dest[s]], q)
        BY <1>4, <2>2, <3>1 DEF FilterPublish, TypeOK
      <4> QED
        BY <2>1, <2>2, <4>1, CheckAndMarkRemembers, DeliveryAssumption DEF Seqs
    <3>2. CASE dest[q] # dest[s]
      <4>1. window'[dest[s]] = window[dest[s]] /\ s # q
        BY <1>4, <2>2, <3>2 DEF FilterPublish, TypeOK
      <4> QED
        BY <2>1, <4>1
    <3> QED
      BY <3>1, <3>2
  <2>4. \/ routing'[s] = routing[s]
        \/ s = q /\ ~Known /\ routing'[s] = routing[s] + 1
    BY <1>0, <1>4 DEF FilterPublish, TypeOK
  <2> HIDE DEF Known, Known1
  <2> QED
    BY <1>0, <2>1, <2>3, <2>4
<1>5. ASSUME NEW q \in Seqs, RoutePublish(q)
      PROVE  Goal
  <2>1. UNCHANGED <<level, dest, window, forgotten>>
    BY <1>5 DEF RoutePublish
  <2>2. delivered'[s] + routing'[s] = delivered[s] + routing[s]
    BY <1>0, <1>5 DEF RoutePublish, TypeOK
  <2> QED
    BY <1>0, <2>1, <2>2
<1>6. ASSUME NEW r \in Receivers, CleanupDedupWindow(r)
      PROVE  Goal
  <2>1. UNCHANGED <<level, dest, delivered, routing>>
    BY <1>6 DEF CleanupDedupWindow
  <2>2. CASE dest[s] = r
    <3>1. forgotten'[s] = forgotten[s] + (IF Known THEN 1 ELSE 0)
      BY <1>6, <2>1, <2>2 DEF CleanupDedupWindow
    <3> HIDE DEF Known, Known1
    <3> QED
      BY <1>0, <2>1, <3>1
  <2>3. CASE dest[s] # r
    <3>1. window'[dest[s]] = window[dest[s]] /\ forgotten'[s] = forgotten[s]
      BY <1>0, <1>6, <2>3 DEF CleanupDedupWindow, TypeOK
    <3> QED
      BY <1>0, <2>1, <3>1
  <2> QED
    BY <2>2, <2>3
<1> HIDE DEF Goal
<1>7. Goal
  BY <1>1, <1>2, <1>3, <1>4, <1>5, <1>6
     DEF Next, vars, PublishBegin, PublishRegister, ReceivePubrel, ReceiveAck, ReceivePubrec,
         ReceivePubcomp, RegisterRel, ProcessTimeouts, Duplicate
<1> QED
  BY <1>7 DEF Goal

LEMMA RememberedAlways == Spec => []Remembered
<1>1. Init => Remembered
  BY DEF Init, Remembered
<1> QED
  BY <1>1, TypeCorrect, UnsentIdleAlways, RememberedStep, PTL DEF Spec

\* QoS 2 routes a message once, and once more for each eviction that forgot
\* it, for every number of threads on both sides, peers, retransmissions and
\* duplicates and every width of the window: neither checkAndMark's pruning nor
\* a thread between isDuplicate and route adds a delivery.
THEOREM AtMostOnceHolds == Spec => []AtMostOnce
<1>1. ASSUME TypeOK, Remembered PROVE AtMostOnce
  <2> SUFFICES ASSUME NEW s \in Seqs, level[s] = 2 PROVE delivered[s] <= 1 + forgotten[s]
    BY DEF AtMostOnce
  <2>1. /\ delivered[s] \in Nat /\ routing[s] \in Nat /\ forgotten[s] \in Nat
        /\ delivered[s] + routing[s] <= forgotten[s] + 1
    BY <1>1 DEF TypeOK, Remembered
  <2> QED
    BY <2>1
<1> QED
  BY <1>1, TypeCorrect, RememberedAlways, PTL

-----------------------------------------------------------------------------
(* The retry budget.                                                       *)

Accounts == Unregistered /\ Counted /\ RetryBudget

LEMMA AccountsStep ==
    TypeOK /\ UnsentIdle /\ Accounts /\ [Next]_vars => Accounts'
<1> SUFFICES ASSUME TypeOK, UnsentIdle, Accounts, [Next]_vars PROVE Accounts'
  OBVIOUS
<1> USE DeliveryAssumption DEF engine, handling, history
<1>1. ASSUME UNCHANGED <<level, pending, retryCount, abandoned, sends>>,
             \A p \in Publishers : pub'[p].unregistered = pub[p].unregistered
      PROVE  Accounts'
  BY <1>1 DEF Accounts, Unregistered, Counted, RetryBudget
<1>2. ASSUME NEW p \in Publishers, NEW lvl \in Levels, NEW targets \in SUBSET Receivers,
             PublishBegin(p, lvl, targets)
      PROVE  Accounts'
  <2>1. \A q \in Publishers : pub'[q].unregistered = pub[q].unregistered
    BY <1>2 DEF PublishBegin, TypeOK
  <2> QED
    BY <1>1, <1>2, <2>1 DEF PublishBegin
<1>3. ASSUME NEW p \in Publishers, NEW r \in Receivers, PublishSend(p, r)
      PROVE  Accounts'
  <2> DEFINE c == seqCounter
  <2>1. c \in Seqs /\ c # NoSeq
    <3>1. seqCounter <= MaxSeq
      BY <1>3 DEF PublishSend
    <3> QED
      BY <3>1 DEF Seqs, TypeOK, NoSeq
  <2>2. /\ sends[c] = 0 /\ c \notin pending /\ c \notin abandoned
        /\ \A q \in Publishers : pub[q].unregistered # c
    BY <2>1 DEF UnsentIdle, TypeOK, Seqs
  <2>3. /\ UNCHANGED <<pending, retryCount, abandoned>>
        /\ sends'[c] = 1 /\ level'[c] = pub[p].level
        /\ \A s \in Seqs \ {c} : sends'[s] = sends[s] /\ level'[s] = level[s]
    BY <1>3, <2>1, <2>2 DEF PublishSend, TypeOK
  <2>4. /\ \A q \in Publishers \ {p} : pub'[q] = pub[q]
        /\ pub'[p].unregistered = IF NeedsAck(pub[p].level) THEN c ELSE NoSeq
    BY <1>3 DEF PublishSend, TypeOK
  <2>5. pub[p].level \in 0..2 /\ \A q \in Publishers : pub[q].unregistered \in Seqs \union {NoSeq}
    BY DEF TypeOK, PublishState
  <2>6. Unregistered'
    BY <2>1, <2>2, <2>3, <2>4, <2>5 DEF Accounts, Unregistered, NeedsAck
  <2>7. Counted' /\ RetryBudget'
    BY <2>1, <2>2, <2>3 DEF Accounts, Counted, RetryBudget, TypeOK
  <2> QED
    BY <2>6, <2>7 DEF Accounts
<1>4. ASSUME NEW p \in Publishers, PublishRegister(p)
      PROVE  Accounts'
  <2> DEFINE u == pub[p].unregistered
  <2>1. u \in Seqs /\ u # NoSeq
    BY <1>4 DEF PublishRegister, TypeOK, PublishState
  <2>2. /\ sends[u] = 1 /\ level[u] >= 1 /\ u \notin pending \union abandoned
        /\ \A q \in Publishers \ {p} : pub[q].unregistered # u
    BY <2>1 DEF Accounts, Unregistered
  <2>3. /\ UNCHANGED <<level, abandoned, sends>>
        /\ pending' = pending \union {u} /\ retryCount'[u] = 0
        /\ \A s \in Seqs \ {u} : retryCount'[s] = retryCount[s]
    BY <1>4, <2>1 DEF PublishRegister, TypeOK
  <2>4. /\ \A q \in Publishers \ {p} : pub'[q] = pub[q]
        /\ pub'[p].unregistered = NoSeq
    BY <1>4 DEF PublishRegister, TypeOK
  <2>5. Unregistered'
    BY <2>1, <2>2, <2>3, <2>4 DEF Accounts, Unregistered
  <2>6. Counted' /\ RetryBudget'
    BY <2>1, <2>2, <2>3 DEF Accounts, Counted, RetryBudget, TypeOK
  <2> QED
    BY <2>5, <2>6 DEF Accounts
<1>5. ASSUME UNCHANGED <<pub, level, retryCount, abandoned, sends>>, pending' \subseteq pending
      PROVE  Accounts'
  BY <1>5 DEF Accounts, Unregistered, Counted, RetryBudget
<1>6. ASSUME NEW due \in SUBSET pending, NEW dueRel \in SUBSET pendingRel,
             ProcessTimeouts(due, dueRel)
      PROVE  Accounts'
  <2>1. /\ UNCHANGED <<pub, level>>
        /\ pending' = pending \ GivenUp(due, retryCount)
        /\ abandoned' = abandoned \union GivenUp(due, retryCount)
    BY <1>6 DEF ProcessTimeouts, Kept
  <2>2. ASSUME NEW s \in Seqs
        PROVE  \/ /\ s \in due /\ retryCount[s] < MaxRetries
                  /\ sends'[s] = sends[s] + 1 /\ retryCount'[s] = retryCount[s] + 1
               \/ /\ s \notin due \/ retryCount[s] >= MaxRetries
                  /\ sends'[s] = sends[s] /\ retryCount'[s] = retryCount[s]
    BY <1>6 DEF ProcessTimeouts, GivenUp, TypeOK
  <2>3. Unregistered'
    BY <2>1, <2>2 DEF Accounts, Unregistered, TypeOK, PublishState, GivenUp
  <2>4. Counted'
    BY <2>1, <2>2 DEF Accounts, Counted, TypeOK, GivenUp
  <2>5. RetryBudget'
    <3> SUFFICES ASSUME NEW s \in Seqs
                 PROVE  /\ sends'[s] <= 1 + MaxRetries
                        /\ s \in abandoned' => sends'[s] = 1 + MaxRetries /\ s \notin pending'
      BY DEF RetryBudget
    <3>1. CASE s \in due
      BY <2>1, <2>2, <3>1 DEF Accounts, Counted, RetryBudget, TypeOK, GivenUp
    <3>2. CASE s \notin due
      BY <2>1, <2>2, <3>2 DEF Accounts, RetryBudget, TypeOK, GivenUp
    <3> QED
      BY <3>1, <3>2
  <2> QED
    BY <2>3, <2>4, <2>5 DEF Accounts
<1> QED
  BY <1>1, <1>2, <1>3, <1>4, <1>5, <1>6
     DEF Next, vars, ReceivePublish, FilterPublish, RoutePublish, ReceivePubrel, ReceiveAck, ReceivePubrec,
         ReceivePubcomp, RegisterRel, CleanupDedupWindow, Duplicate

LEMMA AccountsAlways == Spec => []Accounts
<1>1. Init => Accounts
  BY DeliveryAssumption
     DEF Init, Accounts, Unregistered, Counted, RetryBudget, NotPublishing
<1> QED
  BY <1>1, TypeCorrect, UnsentIdleAlways, AccountsStep, PTL DEF Spec

\* sweep transmits a PUBLISH at most 1 + maxRetries times, and exactly that
\* often before it gives it up, although the entry is made after the send and
\* an answer may come in between.
THEOREM RetryBudgetHolds == Spec => []RetryBudget
<1>1. Accounts => RetryBudget
  BY DEF Accounts
<1> QED
  BY <1>1, AccountsAlways, PTL

-----------------------------------------------------------------------------
(* Answers are honest.                                                     *)

\* A message stays past the filter.
LEMMA ReachedStays ==
    ASSUME TypeOK, UnsentIdle, [Next]_vars, NEW s \in Seqs, Reached(s)
    PROVE  Reached(s)' /\ level'[s] = level[s] /\ dest'[s] = dest[s]
<1>0. delivered[s] \in Nat /\ routing[s] \in Nat
  BY DEF TypeOK
<1> USE DEF Reached, engine, handling, history
<1>1. ASSUME NEW p \in Publishers, NEW r \in Receivers, PublishSend(p, r)
      PROVE  Reached(s)' /\ level'[s] = level[s] /\ dest'[s] = dest[s]
  <2>1. s # seqCounter
    BY <1>0 DEF UnsentIdle, TypeOK, Seqs
  <2> QED
    BY <1>1, <2>1 DEF PublishSend, TypeOK
<1>2. ASSUME NEW q \in Seqs, ReceivePublish(q) \/ FilterPublish(q) \/ RoutePublish(q)
      PROVE  Reached(s)' /\ level'[s] = level[s] /\ dest'[s] = dest[s]
  <2>1. delivered'[s] + routing'[s] >= delivered[s] + routing[s]
    BY <1>0, <1>2 DEF ReceivePublish, FilterPublish, RoutePublish, TypeOK
  <2>2. delivered'[s] \in Nat /\ routing'[s] \in Nat
    BY TypeStep DEF TypeOK
  <2> QED
    BY <1>0, <1>2, <2>1, <2>2 DEF ReceivePublish, FilterPublish, RoutePublish
<1> QED
  BY <1>1, <1>2
     DEF Next, vars, PublishBegin, PublishRegister, ReceivePubrel, ReceiveAck, ReceivePubrec,
         ReceivePubcomp, RegisterRel, ProcessTimeouts, CleanupDedupWindow, Duplicate

\* An overtaken message stays overtaken.
LEMMA OvertakenStays ==
    ASSUME TypeOK, UnsentIdle, [Next]_vars, NEW s \in Seqs, Overtaken(s)
    PROVE  Overtaken(s)'
<1>1. PICK s2 \in Seqs : /\ s2 >= s + Window
                         /\ level[s2] = 2 /\ dest[s2] = dest[s] /\ Reached(s2)
  BY DEF Overtaken, Reached
<1>2. level'[s2] = level[s2] /\ dest'[s2] = dest[s2] /\ Reached(s2)'
  BY <1>1, ReachedStays
<1>3. level'[s] = level[s] /\ dest'[s] = dest[s]
  <2>1. s # seqCounter
    BY DEF UnsentIdle, Overtaken, TypeOK, Seqs
  <2> QED
    BY <2>1
       DEF Next, vars, engine, handling, history, TypeOK, PublishSend, PublishBegin,
           PublishRegister, ReceivePublish, FilterPublish, RoutePublish, ReceivePubrel,
           ReceiveAck, ReceivePubrec, ReceivePubcomp, RegisterRel, ProcessTimeouts,
           CleanupDedupWindow, Duplicate
<1> QED
  BY <1>1, <1>2, <1>3 DEF Overtaken, Reached

\* isDuplicate drops a message that passed before or was overtaken, no other.
LEMMA DroppedKnown ==
    ASSUME TypeOK, WindowHonest, NEW s \in Seqs, level[s] = 2,
           IsDuplicate(window[dest[s]], s)
    PROVE  Reached(s) \/ Overtaken(s)
<1> DEFINE w == window[dest[s]]
<1>1. dest[s] \in Receivers /\ w \in WindowState /\ s \in Nat
  BY DEF TypeOK, Seqs
<1>2. CASE s \in w.recent
  BY <1>1, <1>2 DEF WindowHonest
<1>3. CASE TooOld(w, s)
  <2>1. w.hasAny /\ w.highWater \in Nat
    BY <1>1 DEF IsDuplicate, WindowState
  <2>2. PICK s2 \in Seqs : s2 = w.highWater /\ level[s2] = 2 /\ dest[s2] = dest[s] /\ Reached(s2)
    BY <1>1, <2>1 DEF WindowHonest
  <2>3. s2 >= s + Window
    BY <1>1, <1>3, <2>1, <2>2, WindowAssumption DEF TooOld
  <2> QED
    BY <2>2, <2>3 DEF Overtaken, Reached
<1> QED
  BY <1>2, <1>3 DEF IsDuplicate

\* What was delivered, is being handled or was overtaken stays so.
LEMMA DoneStays ==
    ASSUME TypeOK, UnsentIdle, WindowHonest, FilteredLevel, [Next]_vars,
           NEW s \in Seqs, Done(s)
    PROVE  Done(s)'
<1>0. /\ delivered[s] \in Nat /\ routing[s] \in Nat /\ filtering[s] \in Nat
      /\ delivered'[s] \in Nat /\ routing'[s] \in Nat /\ filtering'[s] \in Nat
  BY TypeStep DEF TypeOK
<1>1. CASE Overtaken(s)
  BY <1>1, OvertakenStays DEF Done
<1>2. CASE Reached(s)
  <2>1. Reached(s)'
    BY <1>2, ReachedStays
  <2> QED
    BY <1>0, <2>1 DEF Reached, Done
<1>3. CASE ~Overtaken(s) /\ ~Reached(s) /\ filtering[s] >= 1
  <2>1. CASE filtering'[s] >= filtering[s]
    BY <1>0, <1>3, <2>1 DEF Done
  <2>2. CASE FilterPublish(s)
    <3>1. ~IsDuplicate(window[dest[s]], s)
      BY <1>0, <1>3, DroppedKnown DEF FilteredLevel
    <3>2. routing'[s] = routing[s] + 1
      BY <2>2, <3>1 DEF FilterPublish, TypeOK
    <3> QED
      BY <1>0, <3>2 DEF Done
  <2>3. filtering'[s] >= filtering[s] \/ FilterPublish(s)
    <3>1. ASSUME NEW q \in Seqs, FilterPublish(q), q # s PROVE filtering'[s] >= filtering[s]
      BY <1>0, <3>1 DEF FilterPublish, TypeOK
    <3>2. ASSUME NEW q \in Seqs, ReceivePublish(q) PROVE filtering'[s] >= filtering[s]
      BY <1>0, <3>2 DEF ReceivePublish, TypeOK
    <3> QED
      BY <1>0, <3>1, <3>2
         DEF Next, vars, engine, handling, history, PublishSend, PublishBegin, PublishRegister,
             RoutePublish, ReceivePubrel, ReceiveAck, ReceivePubrec, ReceivePubcomp,
             RegisterRel, ProcessTimeouts, CleanupDedupWindow, Duplicate
  <2> QED
    BY <2>1, <2>2, <2>3
<1> QED
  BY <1>0, <1>1, <1>2, <1>3 DEF Done, Reached

\* The window learns only ids that pass the filter.
LEMMA WindowHonestStep ==
    TypeOK /\ UnsentIdle /\ WindowHonest /\ FilteredLevel /\ [Next]_vars => WindowHonest'
<1> SUFFICES ASSUME TypeOK, UnsentIdle, WindowHonest, FilteredLevel, [Next]_vars,
                    NEW r \in Receivers, NEW s \in Nat,
                    \/ s \in window'[r].recent
                    \/ window'[r].hasAny /\ s = window'[r].highWater
             PROVE  s \in Seqs /\ level'[s] = 2 /\ dest'[s] = r /\ Reached(s)'
  BY DEF WindowHonest
<1> DEFINE Was == \/ s \in window[r].recent
                  \/ window[r].hasAny /\ s = window[r].highWater
<1>1. CASE Was
  BY <1>1, ReachedStays DEF WindowHonest
<1>2. ASSUME ~Was
      PROVE  FilterPublish(s) /\ s \in Seqs /\ dest[s] = r /\ ~IsDuplicate(window[r], s)
  <2>1. window'[r] # window[r]
    BY <1>2
  <2>2. ~\E x \in Receivers : CleanupDedupWindow(x)
    <3> SUFFICES ASSUME NEW x \in Receivers, CleanupDedupWindow(x) PROVE FALSE
      OBVIOUS
    <3>1. window'[r] \in {window[r], EmptyWindow}
      BY DEF CleanupDedupWindow, TypeOK
    <3> QED
      BY <2>1, <3>1 DEF EmptyWindow
  <2>3. PICK q \in Seqs : FilterPublish(q)
    BY <2>1, <2>2
       DEF Next, vars, engine, handling, history, PublishSend, PublishBegin, PublishRegister,
           ReceivePublish, RoutePublish, ReceivePubrel, ReceiveAck, ReceivePubrec,
           ReceivePubcomp, RegisterRel, ProcessTimeouts, Duplicate
  <2>4. dest[q] = r /\ window'[r] = CheckAndMark(window[r], q)
    BY <2>1, <2>3 DEF FilterPublish, TypeOK
  <2>5. ~IsDuplicate(window[r], q) /\ window'[r] = Mark(window[r], q)
    BY <2>1, <2>4 DEF CheckAndMark
  <2>6. s = q
    BY <1>2, <2>5 DEF Mark, HigherOf
  <2> QED
    BY <2>3, <2>4, <2>5, <2>6
<1>3. CASE ~Was
  <2>1. filtering[s] > 0 /\ UNCHANGED <<level, dest, delivered>>
    BY <1>2, <1>3 DEF FilterPublish, history
  <2>2. routing'[s] = routing[s] + 1 /\ routing[s] \in Nat /\ delivered[s] \in Nat
    BY <1>2, <1>3 DEF FilterPublish, TypeOK
  <2>3. Reached(s)'
    BY <2>1, <2>2 DEF Reached
  <2>4. s \in Seqs /\ dest[s] = r
    BY <1>2, <1>3
  <2> QED
    BY <2>1, <2>3, <2>4 DEF FilteredLevel
<1> QED
  BY <1>1, <1>3

\* A message enters the filter with level 2, and the level of an id in use is fixed.
LEMMA FilteredLevelStep ==
    TypeOK /\ UnsentIdle /\ FilteredLevel /\ [Next]_vars => FilteredLevel'
<1> SUFFICES ASSUME TypeOK, UnsentIdle, FilteredLevel, [Next]_vars,
                    NEW s \in Seqs, filtering'[s] > 0
             PROVE  level'[s] = 2
  BY DEF FilteredLevel
<1> USE DEF engine, handling, history
<1>1. ASSUME NEW p \in Publishers, NEW r \in Receivers, PublishSend(p, r)
      PROVE  level'[s] = 2
  <2>1. filtering[s] > 0
    BY <1>1 DEF PublishSend
  <2>2. s # seqCounter
    BY <2>1 DEF UnsentIdle, TypeOK, Seqs
  <2> QED
    BY <1>1, <2>1, <2>2 DEF PublishSend, FilteredLevel, TypeOK
<1>2. ASSUME NEW q \in Seqs, ReceivePublish(q)
      PROVE  level'[s] = 2
  BY <1>2 DEF ReceivePublish, FilteredLevel, TypeOK
<1>3. ASSUME NEW q \in Seqs, FilterPublish(q)
      PROVE  level'[s] = 2
  <2>1. filtering[s] > 0
    BY <1>3 DEF FilterPublish, TypeOK
  <2> QED
    BY <1>3, <2>1 DEF FilterPublish, FilteredLevel
<1> QED
  BY <1>1, <1>2, <1>3
     DEF Next, vars, FilteredLevel, PublishBegin, PublishRegister, RoutePublish, ReceivePubrel,
         ReceiveAck, ReceivePubrec, ReceivePubcomp, RegisterRel, ProcessTimeouts,
         CleanupDedupWindow, Duplicate

\* Only the receiver of a PUBLISH gives a first answer.
LEMMA AnsweredStep ==
    ASSUME TypeOK, [Next]_vars, NEW s \in Seqs, Answered(s)'
    PROVE  Answered(s) \/ ReceivePublish(s)
<1> USE PktInPacket, PktFields DEF Answered, engine, handling, history, PacketType
<1>0. \A type \in PacketType : net[Pkt(type, s)] \in Nat /\ net'[Pkt(type, s)] \in Nat
  BY TypeStep DEF TypeOK
<1>1. ASSUME UNCHANGED <<confirmed, pendingRel, rel>>,
             \A type \in PacketType \ {"PUBLISH"} : net'[Pkt(type, s)] <= net[Pkt(type, s)]
      PROVE  Answered(s)
  BY <1>0, <1>1
<1>2. ASSUME UNCHANGED <<confirmed, pendingRel, rel, net>>
      PROVE  Answered(s)
  BY <1>2
<1>3. ASSUME NEW p \in Publishers, NEW r \in Receivers, PublishSend(p, r)
      PROVE  Answered(s)
  BY <1>3 DEF PublishSend, TypeOK
<1>4. ASSUME NEW q \in Seqs, ReceivePublish(q), q # s
      PROVE  Answered(s)
  <2>1. \A type \in PacketType \ {"PUBLISH"} : net'[Pkt(type, s)] = net[Pkt(type, s)]
    BY <1>4 DEF ReceivePublish, TypeOK
  <2> QED
    BY <1>4, <2>1 DEF ReceivePublish
<1>5. ASSUME NEW q \in Seqs, ReceivePubrel(q)
      PROVE  Answered(s)
  <2>1. CASE q = s
    BY <1>5, <2>1 DEF ReceivePubrel
  <2>2. CASE q # s
    <3>1. \A type \in PacketType : net'[Pkt(type, s)] = net[Pkt(type, s)]
      BY <1>5, <2>2 DEF ReceivePubrel, TypeOK
    <3> QED
      BY <1>5, <3>1 DEF ReceivePubrel
  <2> QED
    BY <2>1, <2>2
<1>6. ASSUME NEW t \in RxThreads, NEW q \in Seqs, ReceiveAck(t, q) \/ ReceivePubrec(t, q)
      PROVE  Answered(s)
  <2>1. CASE q = s
    BY <1>6, <2>1 DEF ReceiveAck, ReceivePubrec
  <2>2. CASE q # s
    <3>1. \A type \in PacketType : net'[Pkt(type, s)] = net[Pkt(type, s)]
      BY <1>6, <2>2 DEF ReceiveAck, ReceivePubrec, TypeOK
    <3>2. s \in confirmed' => s \in confirmed
      BY <1>6, <2>2 DEF ReceiveAck, ReceivePubrec
    <3>3. ASSUME NEW u \in RxThreads, rel'[u] = s PROVE rel[u] = s
      BY <1>6, <2>2, <3>3 DEF ReceiveAck, ReceivePubrec, TypeOK
    <3>4. pendingRel' = pendingRel
      BY <1>6 DEF ReceiveAck, ReceivePubrec
    <3> QED
      BY <3>1, <3>2, <3>3, <3>4
  <2> QED
    BY <2>1, <2>2
<1>7. ASSUME NEW t \in RxThreads, NEW q \in Seqs, ReceivePubcomp(t, q)
      PROVE  Answered(s)
  <2>1. \A type \in PacketType : net'[Pkt(type, s)] <= net[Pkt(type, s)]
    BY <1>0, <1>7 DEF ReceivePubcomp, TypeOK
  <2> QED
    BY <1>0, <1>7, <2>1 DEF ReceivePubcomp
<1>8. ASSUME NEW t \in RxThreads, RegisterRel(t)
      PROVE  Answered(s)
  <2>1. s \in pendingRel' => s \in pendingRel \/ rel[t] = s
    BY <1>8 DEF RegisterRel
  <2>2. ASSUME NEW u \in RxThreads, rel'[u] = s PROVE rel[u] = s
    <3>1. s # NoSeq
      BY DEF Seqs, NoSeq
    <3> QED
      BY <1>8, <2>2, <3>1 DEF RegisterRel, TypeOK
  <2> QED
    BY <1>8, <2>1, <2>2 DEF RegisterRel
<1>9. ASSUME NEW due \in SUBSET pending, NEW dueRel \in SUBSET pendingRel,
             ProcessTimeouts(due, dueRel)
      PROVE  Answered(s)
  <2>1. ASSUME NEW type \in PacketType \ {"PUBLISH"}, net'[Pkt(type, s)] > 0
        PROVE  s \in pendingRel \/ net[Pkt(type, s)] > 0
    BY <1>9, <2>1 DEF ProcessTimeouts, TypeOK
  <2> QED
    BY <1>9, <2>1 DEF ProcessTimeouts, Kept
<1>10. ASSUME NEW m \in Packet, Duplicate(m)
       PROVE  Answered(s)
  <2>1. ASSUME NEW type \in PacketType \ {"PUBLISH"}, net'[Pkt(type, s)] > 0
        PROVE  net[Pkt(type, s)] > 0
    BY <1>10, <2>1 DEF Duplicate, TypeOK
  <2> QED
    BY <1>10, <2>1 DEF Duplicate
<1>11. ASSUME NEW q \in Seqs, FilterPublish(q) \/ RoutePublish(q)
       PROVE  Answered(s)
  BY <1>2, <1>11 DEF FilterPublish, RoutePublish
<1>12. ASSUME NEW p \in Publishers,
              \/ PublishRegister(p)
              \/ \E lvl \in Levels, targets \in SUBSET Receivers : PublishBegin(p, lvl, targets)
       PROVE  Answered(s)
  BY <1>2, <1>12 DEF PublishBegin, PublishRegister
<1>13. ASSUME NEW r \in Receivers, CleanupDedupWindow(r)
       PROVE  Answered(s)
  BY <1>2, <1>13 DEF CleanupDedupWindow
<1>14. CASE UNCHANGED vars
  BY <1>2, <1>14 DEF vars
<1> HIDE DEF Answered
<1> QED
  BY <1>3, <1>4, <1>5, <1>6, <1>7, <1>8, <1>9, <1>10, <1>11, <1>12, <1>13, <1>14 DEF Next

Honest == WindowHonest /\ FilteredLevel /\ AnsweredDone

LEMMA HonestAlways == Spec => []Honest
<1>1. Init => Honest
  <2> SUFFICES ASSUME Init PROVE Honest
    OBVIOUS
  <2>1. WindowHonest /\ FilteredLevel
    BY DEF Init, WindowHonest, FilteredLevel, EmptyWindow
  <2>2. AnsweredDone
    BY PktInPacket DEF Init, AnsweredDone, Answered, PacketType, Seqs, NoSeq
  <2> QED
    BY <2>1, <2>2 DEF Honest
<1>2. ASSUME TypeOK, UnsentIdle, Honest, [Next]_vars PROVE Honest'
  <2>1. WindowHonest' /\ FilteredLevel'
    BY <1>2, WindowHonestStep, FilteredLevelStep DEF Honest
  <2>2. ASSUME NEW s \in Seqs, ReceivePublish(s) PROVE Done(s)'
    <3>1. /\ delivered'[s] \in Nat /\ routing[s] \in Nat /\ filtering[s] \in Nat
          /\ routing'[s] \in Nat /\ filtering'[s] \in Nat
      BY <1>2, TypeStep DEF TypeOK
    <3>2. routing'[s] + filtering'[s] = routing[s] + filtering[s] + 1
      BY <1>2, <2>2, <3>1 DEF ReceivePublish, TypeOK
    <3> QED
      BY <3>1, <3>2 DEF Done
  <2>3. ASSUME NEW s \in Seqs, Answered(s)' PROVE Done(s)'
    BY <1>2, <2>2, <2>3, AnsweredStep, DoneStays DEF Honest, AnsweredDone
  <2> QED
    BY <2>1, <2>3 DEF Honest, AnsweredDone
<1> QED
  BY <1>1, <1>2, TypeCorrect, UnsentIdleAlways, PTL DEF Spec

\* For every width of the window: what the sender counts as done (ACK or PUBREC
\* handled, a PUBREL registered or an answer on its way) was delivered or is in
\* a receive thread's hands, although onReceived answers before it filters; only
\* a message overtaken by the width of the window is answered and then lost.
THEOREM AckMeansDeliveredHolds == Spec => []AckMeansDelivered
<1>1. Honest => AckMeansDelivered
  BY DEF Honest, AnsweredDone, Answered, Done, AckMeansDelivered
<1> QED
  BY <1>1, HonestAlways, PTL

-----------------------------------------------------------------------------
(* The implementation of the contract.                                     *)

\* What is in transit was sent.
TransitSent == \A s \in Seqs : net[Pkt("PUBLISH", s)] > 0 => sends[s] > 0

LEMMA TransitSentStep == TypeOK /\ Accounts /\ TransitSent /\ [Next]_vars => TransitSent'
<1> SUFFICES ASSUME TypeOK, Accounts, TransitSent, [Next]_vars,
                    NEW s \in Seqs, net'[Pkt("PUBLISH", s)] > 0
             PROVE  sends'[s] > 0
  BY DEF TransitSent
<1> USE PktInPacket, PktFields DEF engine, handling, history, PacketType
<1>1. ASSUME net'[Pkt("PUBLISH", s)] <= net[Pkt("PUBLISH", s)], sends' = sends
      PROVE  sends'[s] > 0
  <2>1. net[Pkt("PUBLISH", s)] > 0
    <3>1. net[Pkt("PUBLISH", s)] \in Nat /\ net'[Pkt("PUBLISH", s)] \in Nat
      BY TypeStep DEF TypeOK
    <3> QED
      BY <1>1, <3>1
  <2> QED
    BY <1>1, <2>1 DEF TransitSent
<1>2. ASSUME NEW p \in Publishers, NEW r \in Receivers, PublishSend(p, r)
      PROVE  sends'[s] > 0
  <2>1. CASE s = seqCounter
    BY <1>2, <2>1 DEF PublishSend, TypeOK
  <2>2. CASE s # seqCounter
    <3>1. net'[Pkt("PUBLISH", s)] = net[Pkt("PUBLISH", s)] /\ sends'[s] = sends[s]
      BY <1>2, <2>2 DEF PublishSend, TypeOK
    <3> QED
      BY <3>1 DEF TransitSent
  <2> QED
    BY <2>1, <2>2
<1>3. ASSUME NEW q \in Seqs, ReceivePublish(q)
      PROVE  sends'[s] > 0
  <2>1. net'[Pkt("PUBLISH", s)] <= net[Pkt("PUBLISH", s)]
    BY <1>3 DEF ReceivePublish, TypeOK
  <2> QED
    BY <1>1, <1>3, <2>1 DEF ReceivePublish
<1>4. ASSUME NEW q \in Seqs, NEW t \in RxThreads,
             ReceiveAck(t, q) \/ ReceivePubrec(t, q) \/ ReceivePubcomp(t, q)
      PROVE  sends'[s] > 0
  <2>1. net'[Pkt("PUBLISH", s)] = net[Pkt("PUBLISH", s)] /\ sends' = sends
    BY <1>4 DEF ReceiveAck, ReceivePubrec, ReceivePubcomp, TypeOK
  <2> QED
    BY <2>1 DEF TransitSent
<1>5. ASSUME NEW q \in Seqs, ReceivePubrel(q)
      PROVE  sends'[s] > 0
  <2>1. net'[Pkt("PUBLISH", s)] = net[Pkt("PUBLISH", s)] /\ sends' = sends
    BY <1>5 DEF ReceivePubrel, TypeOK
  <2> QED
    BY <2>1 DEF TransitSent
<1>6. ASSUME NEW due \in SUBSET pending, NEW dueRel \in SUBSET pendingRel,
             ProcessTimeouts(due, dueRel)
      PROVE  sends'[s] > 0
  <2>1. s \in pending => sends[s] > 0
    BY DEF Accounts, Counted, TypeOK
  <2>2. net[Pkt("PUBLISH", s)] > 0 \/ s \in pending
    BY <1>6 DEF ProcessTimeouts, TypeOK
  <2>3. sends[s] \in Nat /\ sends'[s] >= sends[s]
    BY <1>6 DEF ProcessTimeouts, TypeOK
  <2> QED
    BY <2>1, <2>2, <2>3, TypeStep DEF TransitSent, TypeOK
<1>7. ASSUME NEW m \in Packet, Duplicate(m)
      PROVE  sends'[s] > 0
  <2>1. net[Pkt("PUBLISH", s)] > 0 /\ sends' = sends
    BY <1>7 DEF Duplicate, TypeOK
  <2> QED
    BY <2>1 DEF TransitSent
<1>8. ASSUME net' = net, sends' = sends
      PROVE  sends'[s] > 0
  BY <1>8 DEF TransitSent
<1> QED
  BY <1>2, <1>3, <1>4, <1>5, <1>6, <1>7, <1>8
     DEF Next, vars, PublishBegin, PublishRegister, FilterPublish, RoutePublish, RegisterRel,
         CleanupDedupWindow

LEMMA ContractStep ==
    TypeOK /\ UnsentIdle /\ TransitSent /\ Remembered /\ Accounts /\ Honest /\ [Next]_vars
        => [Contract!Next]_(Contract!vars)
<1> SUFFICES ASSUME TypeOK, UnsentIdle, TransitSent, Remembered, Accounts, Honest,
                    [Next]_vars
             PROVE  Contract!Next \/ UNCHANGED Contract!vars
  OBVIOUS
<1> DEFINE Offered == {s \in Seqs : sends[s] > 0}
           Owed == [s \in Seqs |-> filtering[s] + routing[s]]
<1>0. /\ \A s \in Seqs : filtering[s] \in Nat /\ routing[s] \in Nat /\ delivered[s] \in Nat
      /\ \A s \in Seqs : filtering'[s] \in Nat /\ routing'[s] \in Nat /\ delivered'[s] \in Nat
  BY TypeStep DEF TypeOK
<1> USE DeliveryAssumption DEF engine, handling, history
<1>1. ASSUME UNCHANGED <<level, dest, sends, filtering, routing, delivered, confirmed,
                         abandoned, forgotten>>
      PROVE  UNCHANGED Contract!vars
  BY <1>1 DEF Contract!vars
<1>2. ASSUME NEW p \in Publishers, NEW r \in Receivers, PublishSend(p, r)
      PROVE  Contract!Next
  <2>1. PICK c \in Seqs : c = seqCounter
    <3>1. seqCounter <= MaxSeq
      BY <1>2 DEF PublishSend
    <3> QED
      BY <3>1 DEF Seqs, TypeOK
  <2>2. PICK lvl \in 0..2 : lvl = pub[p].level
    BY DEF TypeOK, PublishState
  <2>3. sends[c] = 0
    BY <2>1 DEF UnsentIdle, TypeOK, Seqs
  <2>4. Offered' = Offered \union {c}
    BY <1>2, <2>1, <2>3 DEF PublishSend, TypeOK
  <2>5. Contract!Offer(c, lvl, r)
    BY <1>2, <2>1, <2>2, <2>3, <2>4 DEF Contract!Offer, PublishSend
  <2> QED
    BY <2>5 DEF Contract!Next
<1>3. ASSUME NEW q \in Seqs, ReceivePublish(q)
      PROVE  Contract!Next
  <2>1. q \in Offered /\ UNCHANGED <<level, dest, sends, delivered, confirmed, abandoned, forgotten>>
    BY <1>3 DEF ReceivePublish, TransitSent
  <2>2. ASSUME NEW s \in Seqs
        PROVE  filtering'[s] + routing'[s] =
                   IF s = q THEN filtering[s] + routing[s] + 1 ELSE filtering[s] + routing[s]
    BY <1>0, <1>3 DEF ReceivePublish, TypeOK
  <2>3. Owed' = [Owed EXCEPT ![q] = @ + 1]
    BY <1>0, <2>2
  <2>4. Contract!Accept(q)
    BY <2>1, <2>3 DEF Contract!Accept
  <2> QED
    BY <2>4 DEF Contract!Next
<1>4. ASSUME NEW q \in Seqs, FilterPublish(q)
      PROVE  Contract!Next \/ UNCHANGED Contract!vars
  <2>1. UNCHANGED <<level, dest, sends, delivered, confirmed, abandoned, forgotten>>
    BY <1>4 DEF FilterPublish
  <2>2. CASE ~IsDuplicate(window[dest[q]], q)
    <3>1. ASSUME NEW s \in Seqs
          PROVE  filtering'[s] + routing'[s] = filtering[s] + routing[s]
      BY <1>0, <1>4, <2>2 DEF FilterPublish, TypeOK
    <3>2. Owed' = Owed
      BY <3>1
    <3> QED
      BY <2>1, <3>2 DEF Contract!vars
  <2>3. CASE IsDuplicate(window[dest[q]], q)
    <3>1. level[q] = 2 /\ filtering[q] > 0
      BY <1>4 DEF FilterPublish, Honest, FilteredLevel
    <3>2. Reached(q) \/ Overtaken(q)
      BY <2>3, <3>1, DroppedKnown DEF Honest
    <3>3. ASSUME NEW s \in Seqs
          PROVE  filtering'[s] + routing'[s] =
                     IF s = q THEN (filtering[s] + routing[s]) - 1 ELSE filtering[s] + routing[s]
      BY <1>0, <1>4, <2>3 DEF FilterPublish, TypeOK
    <3>4. Owed' = [Owed EXCEPT ![q] = @ - 1]
      <4>1. [Owed EXCEPT ![q] = @ - 1] =
              [s \in Seqs |-> IF s = q THEN (filtering[s] + routing[s]) - 1 ELSE filtering[s] + routing[s]]
        OBVIOUS
      <4> QED
        BY <4>1, <3>3
    <3>4a. Owed[q] > 0
      BY <1>0, <3>1
    <3>5. Reached(q) => delivered[q] > 0 \/ Owed[q] > 1
      BY <1>0, <3>1 DEF Reached
    <3>6. Overtaken(q) => Contract!TooLate(q)
      BY <1>0 DEF Overtaken, Contract!TooLate
    <3>7. Contract!Discard(q)
      BY <2>1, <3>1, <3>2, <3>4, <3>4a, <3>5, <3>6 DEF Contract!Discard
    <3> QED
      BY <3>7 DEF Contract!Next
  <2> QED
    BY <2>2, <2>3
<1>5. ASSUME NEW q \in Seqs, RoutePublish(q)
      PROVE  Contract!Next
  <2>1. /\ UNCHANGED <<level, dest, sends, confirmed, abandoned, forgotten>>
        /\ delivered' = [delivered EXCEPT ![q] = @ + 1] /\ routing[q] > 0
    BY <1>5 DEF RoutePublish
  <2>2. ASSUME NEW s \in Seqs
        PROVE  filtering'[s] + routing'[s] =
                   IF s = q THEN (filtering[s] + routing[s]) - 1 ELSE filtering[s] + routing[s]
    BY <1>0, <1>5 DEF RoutePublish, TypeOK
  <2>3. Owed' = [Owed EXCEPT ![q] = @ - 1]
    <3>1. [Owed EXCEPT ![q] = @ - 1] =
            [s \in Seqs |-> IF s = q THEN (filtering[s] + routing[s]) - 1 ELSE filtering[s] + routing[s]]
      OBVIOUS
    <3> QED
      BY <3>1, <2>2
  <2>3a. Owed[q] > 0
    BY <1>0, <2>1
  <2>4. level[q] = 2 => delivered[q] <= forgotten[q]
    <3> SUFFICES ASSUME level[q] = 2 PROVE delivered[q] <= forgotten[q]
      OBVIOUS
    <3>1. forgotten[q] \in Nat /\ delivered[q] + routing[q] <= forgotten[q] + 1
      BY DEF TypeOK, Remembered
    <3> QED
      BY <1>0, <2>1, <3>1
  <2>5. Contract!Deliver(q)
    BY <2>1, <2>3, <2>3a, <2>4 DEF Contract!Deliver
  <2> QED
    BY <2>5 DEF Contract!Next
<1>6. ASSUME NEW t \in RxThreads, NEW q \in Seqs, ReceiveAck(t, q) \/ ReceivePubrec(t, q)
      PROVE  Contract!Next
  <2>1. Done(q)
    BY <1>6, PktInPacket
       DEF ReceiveAck, ReceivePubrec, Honest, AnsweredDone, Answered, PacketType, TypeOK
  <2>2. delivered[q] > 0 \/ Owed[q] > 0 \/ Overtaken(q)
    BY <1>0, <2>1 DEF Done
  <2>3. Overtaken(q) => level[q] = 2 /\ Contract!TooLate(q)
    BY <1>0 DEF Overtaken, Contract!TooLate
  <2>4. Contract!Confirm(q)
    BY <1>6, <2>2, <2>3 DEF ReceiveAck, ReceivePubrec, Contract!Confirm
  <2> QED
    BY <2>4 DEF Contract!Next
<1>7. ASSUME NEW due \in SUBSET pending, NEW dueRel \in SUBSET pendingRel,
             ProcessTimeouts(due, dueRel)
      PROVE  Contract!Next
  <2> DEFINE lost == GivenUp(due, retryCount)
  <2>1. lost \subseteq pending /\ lost \in SUBSET Seqs
    BY DEF GivenUp, TypeOK
  <2>2. \A s \in lost : sends[s] > 0 /\ level[s] >= 1 /\ s \notin abandoned
    BY <2>1 DEF Accounts, Counted, TypeOK
  <2>3. Offered' = Offered
    <3>1. ASSUME NEW s \in Seqs PROVE sends'[s] > 0 <=> sends[s] > 0
      <4>1. s \in due => sends[s] > 0
        BY DEF Accounts, Counted, TypeOK
      <4> QED
        BY <1>7, <4>1 DEF ProcessTimeouts, GivenUp, TypeOK
    <3> QED
      BY <3>1
  <2>4. /\ UNCHANGED <<level, dest, filtering, routing, delivered, confirmed, forgotten>>
        /\ abandoned' = abandoned \union lost
    BY <1>7 DEF ProcessTimeouts
  <2> HIDE DEF lost
  <2>5. lost \in SUBSET {s \in Offered \ abandoned : level[s] >= 1}
    BY <2>1, <2>2
  <2>6. Contract!GiveUp
    BY <2>3, <2>4, <2>5 DEF Contract!GiveUp
  <2> QED
    BY <2>6 DEF Contract!Next
<1>8. ASSUME NEW r \in Receivers, CleanupDedupWindow(r)
      PROVE  Contract!Next
  <2> DEFINE known == {s \in Seqs : level[s] = 2 /\ dest[s] = r /\ IsDuplicate(window[r], s)}
  <2>1. UNCHANGED <<level, dest, sends, filtering, routing, delivered, confirmed, abandoned>>
    BY <1>8 DEF CleanupDedupWindow
  <2>2. forgotten' = [s \in Seqs |-> forgotten[s] + (IF s \in known THEN 1 ELSE 0)]
    BY <1>8 DEF CleanupDedupWindow
  <2>3. known \in SUBSET {s \in Seqs : level[s] = 2 /\ dest[s] = r}
    OBVIOUS
  <2> HIDE DEF known
  <2>4. Contract!Forget(r)
    BY <2>1, <2>2, <2>3 DEF Contract!Forget
  <2> QED
    BY <2>4 DEF Contract!Next
<1>9. CASE UNCHANGED vars
  BY <1>1, <1>9 DEF vars
<1> QED
  BY <1>1, <1>2, <1>3, <1>4, <1>5, <1>6, <1>7, <1>8, <1>9
     DEF Next, PublishBegin, PublishRegister, ReceivePubrel, ReceivePubcomp, RegisterRel,
         Duplicate

\* The packets, the retransmission after an unregistered send, the answer before
\* the filter, the sliding filter and its eviction implement the contract of
\* publish(), for every number of threads and peers and every width of the window.
THEOREM ImplementsContract == Spec => KeepsContract
<1>1. Init => Contract!Init
  <2> SUFFICES ASSUME Init PROVE Contract!Init
    OBVIOUS
  <2>1. dest \in [Seqs -> Receivers]
    BY DeliveryAssumption DEF Init
  <2> QED
    BY <2>1 DEF Init, Contract!Init
<1>2. Init => TransitSent
  BY PktInPacket DEF Init, TransitSent, PacketType
<1> QED
  BY <1>1, <1>2, TypeCorrect, UnsentIdleAlways, AccountsAlways, RememberedAlways,
     HonestAlways, TransitSentStep, ContractStep, PTL
     DEF Spec, KeepsContract, Contract!Spec

-----------------------------------------------------------------------------
(* DedupStream: the duplicate filter for every width of the window, every  *)
(* size of the id space and every length of the stream.                    *)

\* An id of the header is a uint32_t.
LEMMA SeqIdType == ASSUME NEW m \in Messages PROVE SeqId(m) \in Nat
  BY StreamAssumption DEF SeqId, Messages

\* Every step keeps the types.
LEMMA StreamTypeStep == StreamTypeOK /\ [StreamNext]_streamVars => StreamTypeOK'
<1> SUFFICES ASSUME StreamTypeOK, [StreamNext]_streamVars PROVE StreamTypeOK'
  OBVIOUS
<1> USE StreamAssumption DEF StreamTypeOK
<1>1. CASE Send
  BY <1>1 DEF Send
<1>2. ASSUME NEW m \in Messages, Arrive(m) PROVE StreamTypeOK'
  <2>1. sourceWindow' \in WindowState
    BY <1>2, CheckAndMarkType, SeqIdType DEF Arrive
  <2> QED
    BY <1>2, <2>1 DEF Arrive
<1>3. CASE UNCHANGED streamVars
  BY <1>3 DEF streamVars
<1> QED
  BY <1>1, <1>2, <1>3 DEF StreamNext

\* Type correctness: every variable of the model keeps its type.
THEOREM StreamTypeCorrect == StreamSpec => []StreamTypeOK
<1>1. StreamInit => StreamTypeOK
  BY StreamAssumption DEF StreamInit, StreamTypeOK, EmptyWindow, WindowState
<1> QED
  BY <1>1, StreamTypeStep, PTL DEF StreamSpec

-----------------------------------------------------------------------------
(* At most once: what is pruned from recent is too old from then on.       *)

\* A message that was accepted is a duplicate for ever.
Filtered ==
    \A m \in Messages :
        /\ accepted[m] <= 1
        /\ accepted[m] > 0 => IsDuplicate(sourceWindow, SeqId(m))

LEMMA FilteredStep == StreamTypeOK /\ Filtered /\ [StreamNext]_streamVars => Filtered'
<1> SUFFICES ASSUME StreamTypeOK, Filtered, [StreamNext]_streamVars PROVE Filtered'
  OBVIOUS
<1>1. CASE Send
  BY <1>1 DEF Send, Filtered
<1>2. ASSUME NEW m \in Messages, Arrive(m) PROVE Filtered'
  <2> SUFFICES ASSUME NEW n \in Messages
               PROVE  /\ accepted'[n] <= 1
                      /\ accepted'[n] > 0 => IsDuplicate(sourceWindow', SeqId(n))
    BY DEF Filtered
  <2>1. \/ accepted'[n] = accepted[n]
        \/ n = m /\ ~IsDuplicate(sourceWindow, SeqId(m)) /\ accepted'[n] = accepted[n] + 1
    BY <1>2 DEF Arrive, StreamTypeOK
  <2>2. IsDuplicate(sourceWindow, SeqId(n)) \/ n = m => IsDuplicate(sourceWindow', SeqId(n))
    BY <1>2, CheckAndMarkRemembers, SeqIdType DEF Arrive, StreamTypeOK
  <2>3. accepted[n] \in Nat
    BY DEF StreamTypeOK
  <2> QED
    BY <2>1, <2>2, <2>3 DEF Filtered
<1>3. CASE UNCHANGED streamVars
  BY <1>3 DEF streamVars, Filtered
<1> QED
  BY <1>1, <1>2, <1>3 DEF StreamNext

\* No message is accepted twice, in whatever order and however often its
\* copies arrive, and also when its id has left recent or has wrapped around.
THEOREM AcceptedOnceHolds == StreamSpec => []AcceptedOnce
<1>1. StreamInit => Filtered
  BY DEF StreamInit, Filtered
<1>2. Filtered => AcceptedOnce
  BY DEF Filtered, AcceptedOnce
<1> QED
  BY <1>1, <1>2, StreamTypeCorrect, FilteredStep, PTL DEF StreamSpec

-----------------------------------------------------------------------------
(* The memory of the window.                                               *)

\* The ids kept lie between the low end of the window and its high mark.
InWindow == sourceWindow.recent \subseteq LowEnd(sourceWindow.highWater) .. sourceWindow.highWater

LEMMA MarkInWindow ==
    ASSUME NEW w \in WindowState, NEW q \in Nat,
           w.recent \subseteq LowEnd(w.highWater) .. w.highWater
    PROVE  Mark(w, q).recent \subseteq LowEnd(Mark(w, q).highWater) .. Mark(w, q).highWater
  BY WindowAssumption DEF Mark, LowEnd, HigherOf, WindowState

LEMMA InWindowStep == StreamTypeOK /\ InWindow /\ [StreamNext]_streamVars => InWindow'
<1> SUFFICES ASSUME StreamTypeOK, InWindow, [StreamNext]_streamVars PROVE InWindow'
  OBVIOUS
<1>1. ASSUME NEW m \in Messages, Arrive(m) PROVE InWindow'
  BY <1>1, MarkInWindow, SeqIdType DEF Arrive, CheckAndMark, InWindow, StreamTypeOK
<1> QED
  BY <1>1 DEF StreamNext, Send, streamVars, InWindow

\* recent never holds more than WINDOW + 1 ids: erasing below the low end is
\* enough, however long the stream is.
THEOREM MemoryBoundedHolds == StreamSpec => []MemoryBounded
<1>1. StreamInit => InWindow
  BY DEF StreamInit, InWindow, EmptyWindow
<1>2. StreamTypeOK /\ InWindow => MemoryBounded
  <2> SUFFICES ASSUME StreamTypeOK, InWindow PROVE MemoryBounded
    OBVIOUS
  <2> DEFINE low == LowEnd(sourceWindow.highWater)
             high == sourceWindow.highWater
  <2>1. low \in Nat /\ high \in Nat /\ low <= high /\ high - low <= Window
    BY WindowAssumption DEF StreamTypeOK, WindowState, LowEnd
  <2>2. sourceWindow.recent \in SUBSET (low .. high)
    BY DEF InWindow
  <2> HIDE DEF low, high
  <2>3. IsFiniteSet(low .. high) /\ Cardinality(low .. high) = high - low + 1
    BY <2>1, FS_Interval
  <2>4. Cardinality(sourceWindow.recent) <= Cardinality(low .. high) /\ IsFiniteSet(sourceWindow.recent)
    BY <2>2, <2>3, FS_Subset
  <2>5. Cardinality(sourceWindow.recent) \in Nat
    BY <2>4, FS_CardinalityType
  <2> QED
    BY <2>1, <2>3, <2>4, <2>5, WindowAssumption DEF MemoryBounded
<1> QED
  BY <1>1, <1>2, StreamTypeCorrect, InWindowStep, PTL DEF StreamSpec

-----------------------------------------------------------------------------
(* No fresh message is lost, while the ids have not wrapped around.        *)

\* The window knows only ids that arrived, and its mark is one of them.
Known ==
    /\ \A m \in Messages : m \notin arrived => accepted[m] = 0
    /\ \A q \in sourceWindow.recent : \E n \in arrived : q = SeqId(n)
    /\ sourceWindow.hasAny => \E n \in arrived : sourceWindow.highWater = SeqId(n)

LEMMA KnownStep == StreamTypeOK /\ Known /\ [StreamNext]_streamVars => Known'
<1> SUFFICES ASSUME StreamTypeOK, Known, [StreamNext]_streamVars PROVE Known'
  OBVIOUS
<1>1. ASSUME NEW m \in Messages, Arrive(m) PROVE Known'
  <2>1. \A n \in Messages : n \notin arrived' => accepted'[n] = 0
    BY <1>1 DEF Arrive, Known, StreamTypeOK
  <2>2. sourceWindow'.recent \subseteq sourceWindow.recent \union {SeqId(m)}
    BY <1>1 DEF Arrive, CheckAndMark, Mark
  <2>3. \/ sourceWindow'.hasAny = sourceWindow.hasAny /\ sourceWindow'.highWater = sourceWindow.highWater
        \/ sourceWindow.hasAny /\ sourceWindow'.highWater = sourceWindow.highWater
        \/ sourceWindow'.highWater = SeqId(m)
    BY <1>1 DEF Arrive, CheckAndMark, Mark, HigherOf
  <2>4. m \in arrived' /\ arrived \subseteq arrived'
    BY <1>1 DEF Arrive
  <2> QED
    BY <2>1, <2>2, <2>3, <2>4 DEF Known
<1> QED
  BY <1>1 DEF StreamNext, Send, streamVars, Known

\* A fresh message is lost only when it is late by the width of the window:
\* checkAndMark calls no other first arrival a duplicate.
THEOREM FreshAcceptedHolds == ASSUME MaxMessages < SeqSpace PROVE StreamSpec => FreshAccepted
<1>1. StreamInit => Known
  BY DEF StreamInit, Known, EmptyWindow
<1>2. ASSUME StreamTypeOK, Known, [StreamNext]_streamVars,
             NEW m \in arrived' \ arrived, \A n \in arrived : n - m < Window
      PROVE  accepted'[m] = 1
  <2>1. m \in Messages /\ Arrive(m)
    BY <1>2 DEF StreamNext, Send, Arrive, streamVars, StreamTypeOK
  <2>2. \A n \in Messages : n \in Nat /\ SeqId(n) = n + 1
    BY StreamAssumption DEF SeqId, Messages
  <2>3. arrived \subseteq Messages
    BY <1>2 DEF StreamTypeOK
  <2>4. ~TooOld(sourceWindow, SeqId(m)) \/ ~sourceWindow.hasAny
    BY <1>2, <2>1, <2>2, <2>3, WindowAssumption DEF TooOld, Known
  <2>5. SeqId(m) \notin sourceWindow.recent
    BY <1>2, <2>1, <2>2, <2>3 DEF Known
  <2>6. accepted[m] = 0
    BY <1>2, <2>1 DEF Known
  <2> QED
    BY <1>2, <2>1, <2>4, <2>5, <2>6 DEF Arrive, IsDuplicate, StreamTypeOK
<1>3. StreamTypeOK /\ Known /\ [StreamNext]_streamVars =>
        [\A m \in arrived' \ arrived :
            (\A n \in arrived : n - m < Window) => accepted'[m] = 1]_streamVars
  BY <1>2
<1> QED
  BY <1>1, <1>3, StreamTypeCorrect, KnownStep, PTL DEF StreamSpec, FreshAccepted
=============================================================================
