-------------------------- MODULE DiscoveryProofs ---------------------------
(***************************************************************************)
(* Discovery for any number of peers, of changes of their topics and of    *)
(* duplicated datagrams, whenever peers fall silent.                       *)
(***************************************************************************)
EXTENDS Discovery, TLAPS

Known == Announcement \union {None}

\* What a peer sends is a datagram.
LEMMA DatagramTypes ==
    ASSUME TypeOK, NEW p \in Peers
    PROVE  /\ Announce(p) \in Datagram /\ Farewell(p) \in Datagram
           /\ topics[p] < MaxChanges => /\ [Announce(p) EXCEPT !.topics = @ + 1] \in Datagram
                                        /\ topics[p] + 1 \in Announcement
<1>1. topics[p] \in Announcement /\ MaxChanges \in Nat
  BY DiscoveryAssumption DEF TypeOK
<1>2. Announce(p) \in Datagram /\ Farewell(p) \in Datagram
  BY <1>1 DEF Announce, Farewell, Datagram
<1>3. ASSUME topics[p] < MaxChanges
      PROVE  /\ [Announce(p) EXCEPT !.topics = @ + 1] \in Datagram
             /\ topics[p] + 1 \in Announcement
  <2>1. topics[p] + 1 \in Announcement
    BY <1>1, <1>3 DEF Announcement
  <2>2. [Announce(p) EXCEPT !.topics = @ + 1]
          = [type |-> "ANNOUNCE", peer |-> p, topics |-> topics[p] + 1]
    BY DEF Announce
  <2> QED
    BY <2>1, <2>2 DEF Datagram
<1> QED
  BY <1>2, <1>3

\* The fields of a datagram.
LEMMA DatagramFields ==
    ASSUME NEW m \in Datagram
    PROVE  m.peer \in Peers /\ m.topics \in Known /\ (m.type = "ANNOUNCE" => m.topics \in Announcement)
  BY DEF Datagram, Known

LEMMA CallbackTypes ==
    ASSUME NEW p \in Peers, NEW t \in Known
    PROVE  /\ Callback(p, t) \in [who : SUBSET Peers, topics : Known]
           /\ NoCallback \in [who : SUBSET Peers, topics : Known]
  BY DEF Callback, NoCallback, Known

LEMMA TypeStep == TypeOK /\ [Next]_vars => TypeOK'
<1> SUFFICES ASSUME TypeOK, [Next]_vars PROVE TypeOK'
  OBVIOUS
<1> USE DiscoveryAssumption DEF remote, history, Begins
<1>1. ASSUME NEW p \in Peers, SendAnnounce(p) PROVE TypeOK'
  BY <1>1, DatagramTypes DEF SendAnnounce, TypeOK
<1>2. ASSUME NEW p \in Peers, AnnounceTopics(p) PROVE TypeOK'
  <2>1. topics[p] + 1 \in Announcement /\ air' \subseteq Datagram
    BY <1>2, DatagramTypes DEF AnnounceTopics, TypeOK
  <2> QED
    BY <1>2, <2>1 DEF AnnounceTopics, TypeOK
<1>3. ASSUME NEW p \in Peers, SendFarewell(p) PROVE TypeOK'
  BY <1>3, DatagramTypes DEF SendFarewell, TypeOK
<1>4. ASSUME NEW p \in Peers, StopDiscovery(p) \/ Crash(p) PROVE TypeOK'
  BY <1>4 DEF StopDiscovery, Crash, TypeOK
<1>5. ASSUME NEW p \in Peers, Age(p) PROVE TypeOK'
  BY <1>5 DEF Age, TypeOK
<1>6. ASSUME NEW p \in Peers, RemoveDead(p) PROVE TypeOK'
  BY <1>6 DEF RemoveDead, TypeOK
<1>7. ASSUME NEW m \in air, ReceiveAnnounce(m) PROVE TypeOK'
  <2>1. m.peer \in Peers /\ m.topics \in Announcement /\ m.topics \in Known
    BY <1>7, DatagramFields DEF ReceiveAnnounce, TypeOK
  <2>2. recv' \in [who : SUBSET Peers, topics : Known]
    BY <1>7, <2>1, CallbackTypes DEF ReceiveAnnounce
  <2>3. air' \subseteq Datagram /\ dups' \in 0..MaxDup
    BY <1>7 DEF ReceiveAnnounce, Receive, TypeOK
  <2> QED
    BY <1>7, <2>1, <2>2, <2>3 DEF ReceiveAnnounce, TypeOK, Known
<1>8. ASSUME NEW m \in air, ReceiveFarewell(m) PROVE TypeOK'
  <2>1. m.peer \in Peers /\ None \in Known
    BY DatagramFields DEF TypeOK, Known
  <2>2. recv' \in [who : SUBSET Peers, topics : Known]
    BY <1>8, <2>1, CallbackTypes DEF ReceiveFarewell, LostCallback
  <2>3. air' \subseteq Datagram /\ dups' \in 0..MaxDup
    BY <1>8 DEF ReceiveFarewell, Receive, TypeOK
  <2> QED
    BY <1>8, <2>1, <2>2, <2>3 DEF ReceiveFarewell, TypeOK, Known
<1>9. CASE ReceiveCallback
  <2>1. recv' \in [who : SUBSET Peers, topics : Known] /\ recv.topics \in Known
    BY <1>9 DEF ReceiveCallback, NoCallback, TypeOK, Known
  <2> QED
    BY <1>9, <2>1 DEF ReceiveCallback, TypeOK, Known
<1>10. CASE CheckTimeouts
  BY <1>10 DEF CheckTimeouts, TypeOK
<1>11. CASE DeadCallbacks
  BY <1>11 DEF DeadCallbacks, TypeOK
<1>12. CASE UNCHANGED vars
  BY <1>12 DEF vars, TypeOK
<1> QED
  BY <1>1, <1>2, <1>3, <1>4, <1>5, <1>6, <1>7, <1>8, <1>9, <1>10, <1>11, <1>12 DEF Next

\* Type correctness: every variable of the model keeps its type.
THEOREM TypeCorrect == Spec => []TypeOK
<1>1. Init => TypeOK
  BY DiscoveryAssumption DEF Init, TypeOK, Announcement, NoCallback
<1> QED
  BY <1>1, TypeStep, PTL DEF Spec

-----------------------------------------------------------------------------
(* records_ and peers_.                                                    *)

\* A peer whose last callback began alone has at most one callback outstanding,
\* which carries what records_ holds.
Single ==
    \A p \in Peers \ raced :
        /\ p \in recv.who => p \notin lost /\ recv.topics = records[p]
        /\ p \in lost => records[p] = None
        /\ Settled(p) => peers[p] = records[p]

LEMMA SingleStep == TypeOK /\ Single /\ [Next]_vars => Single'
<1> SUFFICES ASSUME TypeOK, Single, [Next]_vars, NEW q \in Peers, q \notin raced'
             PROVE  /\ q \in recv'.who => q \notin lost' /\ recv'.topics = records'[q]
                    /\ q \in lost' => records'[q] = None
                    /\ Settled(q)' => peers'[q] = records'[q]
  BY DEF Single
<1> DEFINE Goal == /\ q \in recv'.who => q \notin lost' /\ recv'.topics = records'[q]
                   /\ q \in lost' => records'[q] = None
                   /\ Settled(q)' => peers'[q] = records'[q]
<1> USE DEF remote, history, Settled
<1>0. ASSUME q \notin raced
      PROVE  /\ q \in recv.who => q \notin lost /\ recv.topics = records[q]
             /\ q \in lost => records[q] = None
             /\ q \notin recv.who \union lost => peers[q] = records[q]
  BY <1>0 DEF Single
<1>1. CASE UNCHANGED <<records, peers, recv, lost, raced>>
  BY <1>0, <1>1
<1>2. ASSUME NEW p \in Peers,
             SendAnnounce(p) \/ AnnounceTopics(p) \/ SendFarewell(p) \/ StopDiscovery(p) \/ Crash(p)
      PROVE  Goal
  BY <1>1, <1>2 DEF SendAnnounce, AnnounceTopics, SendFarewell, StopDiscovery, Crash
<1>3. ASSUME NEW p \in Peers, Age(p) PROVE Goal
  BY <1>1, <1>3 DEF Age
<1>4. ASSUME NEW p \in Peers, RemoveDead(p) PROVE Goal
  <2>1. UNCHANGED <<peers, recv>> /\ lost = {}
    BY <1>4 DEF RemoveDead
  <2>2. CASE p = q
    <3>1. records'[q] = None
      BY <1>4, <2>2 DEF RemoveDead, TypeOK
    <3>2. CASE records[q] = None
      BY <1>0, <1>4, <2>1, <2>2, <3>1, <3>2 DEF RemoveDead, Begins
    <3>3. CASE records[q] # None
      <4>1. lost' = {q} /\ q \notin recv.who
        BY <1>4, <2>1, <2>2, <3>3 DEF RemoveDead, Begins
      <4> QED
        BY <2>1, <3>1, <4>1
    <3> QED
      BY <3>2, <3>3
  <2>3. CASE p # q
    <3>1. records'[q] = records[q] /\ q \notin lost' /\ q \notin raced
      BY <1>4, <2>1, <2>3 DEF RemoveDead, Begins, TypeOK
    <3> QED
      BY <1>0, <2>1, <3>1
  <2> QED
    BY <2>2, <2>3
<1>5. ASSUME NEW m \in air, ReceiveAnnounce(m) PROVE Goal
  <2>1. recv.who = {} /\ UNCHANGED <<peers, lost>>
    BY <1>5 DEF ReceiveAnnounce, Receive, NoCallback
  <2>2. CASE m.peer = q
    <3>1. records'[q] = m.topics
      BY <1>5, <2>2 DEF ReceiveAnnounce, TypeOK
    <3>2. CASE Changed(q, m.topics)
      <4>1. recv'.who = {q} /\ recv'.topics = m.topics /\ q \notin lost
        BY <1>5, <2>1, <2>2, <3>2 DEF ReceiveAnnounce, Begins, Callback
      <4> QED
        BY <2>1, <3>1, <4>1
    <3>3. CASE ~Changed(q, m.topics)
      <4>1. recv'.who = {} /\ q \notin raced /\ records'[q] = records[q]
        BY <1>5, <2>2, <3>1, <3>3 DEF ReceiveAnnounce, Begins, NoCallback, Changed
      <4> QED
        BY <1>0, <2>1, <4>1
    <3> QED
      BY <3>2, <3>3
  <2>3. CASE m.peer # q
    <3>1. records'[q] = records[q] /\ q \notin recv'.who
      BY <1>5, <2>3 DEF ReceiveAnnounce, Callback, NoCallback, TypeOK
    <3>2. q \notin raced
      BY <1>5, <3>1 DEF ReceiveAnnounce, Begins
    <3> QED
      BY <1>0, <2>1, <3>1, <3>2
  <2> QED
    BY <2>2, <2>3
<1>6. ASSUME NEW m \in air, ReceiveFarewell(m) PROVE Goal
  <2>1. recv.who = {} /\ UNCHANGED <<peers, lost>>
    BY <1>6 DEF ReceiveFarewell, Receive, NoCallback
  <2>2. CASE m.peer = q
    <3>1. records'[q] = None
      BY <1>6, <2>2 DEF ReceiveFarewell, TypeOK
    <3>2. CASE records[q] # None
      <4>1. recv'.who = {q} /\ recv'.topics = None /\ q \notin lost
        BY <1>6, <2>1, <2>2, <3>2 DEF ReceiveFarewell, LostCallback, Begins, Callback
      <4> QED
        BY <2>1, <3>1, <4>1
    <3>3. CASE records[q] = None
      <4>1. recv'.who = {} /\ q \notin raced
        BY <1>6, <2>2, <3>3 DEF ReceiveFarewell, LostCallback, Begins, NoCallback
      <4> QED
        BY <1>0, <2>1, <3>1, <3>3, <4>1
    <3> QED
      BY <3>2, <3>3
  <2>3. CASE m.peer # q
    <3>1. records'[q] = records[q] /\ q \notin recv'.who
      BY <1>6, <2>3 DEF ReceiveFarewell, LostCallback, Callback, NoCallback, TypeOK
    <3>2. q \notin raced
      BY <1>6, <3>1 DEF ReceiveFarewell, Begins
    <3> QED
      BY <1>0, <2>1, <3>1, <3>2
  <2> QED
    BY <2>2, <2>3
<1>7. CASE ReceiveCallback
  <2>1. recv'.who = {} /\ UNCHANGED <<records, lost, raced>>
        /\ peers'[q] = IF q \in recv.who THEN recv.topics ELSE peers[q]
    BY <1>7 DEF ReceiveCallback, NoCallback
  <2> QED
    BY <1>0, <2>1
<1>8. CASE CheckTimeouts
  BY <1>1, <1>8 DEF CheckTimeouts
<1>9. CASE DeadCallbacks
  <2>1. lost' = {} /\ UNCHANGED <<records, recv, raced>>
        /\ peers'[q] = IF q \in lost THEN None ELSE peers[q]
    BY <1>9 DEF DeadCallbacks
  <2> QED
    BY <1>0, <2>1
<1>10. CASE UNCHANGED vars
  BY <1>1, <1>10 DEF vars
<1> QED
  BY <1>2, <1>3, <1>4, <1>5, <1>6, <1>7, <1>8, <1>9, <1>10 DEF Next

\* Whatever the order of its datagrams and timeouts, the route to a peer is its
\* record unless callbacks of the two threads for it overlapped, and it is so
\* again after the next callback that is alone.
THEOREM RoutesAgreeHolds == Spec => []RoutesAgree
<1>1. Init => Single
  BY DEF Init, Single, NoCallback
<1>2. Single => RoutesAgree
  BY DEF Single, RoutesAgree
<1> QED
  BY <1>1, <1>2, TypeCorrect, SingleStep, PTL DEF Spec
=============================================================================
