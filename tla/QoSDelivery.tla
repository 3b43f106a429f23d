---------------------------- MODULE QoSDelivery ----------------------------
(***************************************************************************)
(* Publishing with QoS 0, 1 and 2 from one node to its subscribers over an *)
(* unreliable transport: MessageBus::publish and MessageBus::onReceived on *)
(* top of QoSEngine.                                                       *)
(*                                                                         *)
(* The sender runs application threads (Publishers), transport receive     *)
(* threads (RxThreads) and the timer thread.  A packet is sent before it   *)
(* is registered for retransmission, by publish and by the PUBREC handler  *)
(* alike, so an answer may overtake the registration: both handlers are    *)
(* split at that point.  A receiver has a thread for every transport and   *)
(* connection; its PUBLISH handler answers, filters and routes, and other  *)
(* packets, the sender's next step and the eviction of the window may come *)
(* between any two of the three.                                           *)
(*                                                                         *)
(* The network is a bag: a packet that is never received is lost, packets  *)
(* are received in any order, and up to MaxDup of them are duplicated.     *)
(***************************************************************************)
EXTENDS Integers, FiniteSets, DedupWindow

CONSTANTS
    Publishers,   \* application threads of the sender that publish
    Receivers,    \* peers with a matching subscription
    RxThreads,    \* transport receive threads of the sender
    Levels,       \* the QoS levels the application uses
    MaxRetries,   \* QoSProfile::maxRetries
    MaxSeq,       \* bound: sequence ids the sender hands out
    MaxDup        \* bound: packets the network duplicates

ASSUME DeliveryAssumption ==
    /\ IsFiniteSet(Receivers) /\ Receivers # {}
    /\ Levels \subseteq 0..2
    /\ MaxRetries \in Nat
    /\ MaxSeq \in Nat
    /\ MaxDup \in Nat

VARIABLES
    seqCounter,   \* MessageBus::seqCounter_
    pub,          \* per application thread: where it stands in publish()
    level,        \* QoS level in the header of the PUBLISH with that id
    dest,         \* peer the PUBLISH with that id goes to
    pending,      \* QoSEngine::pending_, its keys
    retryCount,   \* PendingMsg::retryCount of the entries of pending_
    pendingRel,   \* QoSEngine::pendingRel_, its keys
    relRetry,     \* PendingMsg::retryCount of the entries of pendingRel_
    rel,          \* per receive thread: the PUBREL sent and not yet registered
    filtering,    \* receive threads of the peer that answered s, before isDuplicate
    routing,      \* receive threads of the peer that passed isDuplicate, before route
    window,       \* per receiver: QoSEngine::windows_ at the sender's id
    net,          \* packets in transit, with their number of copies
    dups,         \* duplications so far
    delivered,    \* history: times the message was routed to the subscribers
    confirmed,    \* history: ids whose ACK or PUBREC the sender handled
    abandoned,    \* history: PUBLISH ids processTimeouts gave up
    sends,        \* history: transmissions of each PUBLISH
    forgotten     \* history: evictions of a window that knew the id

engine == <<pending, retryCount, pendingRel, relRetry>>
handling == <<filtering, routing>>
history == <<delivered, confirmed, abandoned, sends, forgotten>>
vars == <<seqCounter, pub, level, dest, engine, rel, handling, window, net, dups, history>>

NoSeq == 0                  \* seqCounter_ starts at 1
Seqs == 1..MaxSeq
PacketType == {"PUBLISH", "ACK", "PUBREC", "PUBREL", "PUBCOMP"}
Packet == [type : PacketType, seq : Seqs]
Pkt(type, seq) == [type |-> type, seq |-> seq]

\* A thread in publish(): the peers still to serve, the level, and the id
\* that is sent but not yet handed to addPending.
PublishState == [todo : SUBSET Receivers, level : 0..2, unregistered : Seqs \union {NoSeq}]
NotPublishing == [todo |-> {}, level |-> 0, unregistered |-> NoSeq]

TypeOK ==
    /\ seqCounter \in 1..(MaxSeq + 1)
    /\ pub \in [Publishers -> PublishState]
    /\ level \in [Seqs -> 0..2]
    /\ dest \in [Seqs -> Receivers]
    /\ pending \subseteq Seqs
    /\ retryCount \in [Seqs -> 0..MaxRetries]
    /\ pendingRel \subseteq Seqs
    /\ relRetry \in [Seqs -> 0..MaxRetries]
    /\ rel \in [RxThreads -> Seqs \union {NoSeq}]
    /\ filtering \in [Seqs -> Nat] /\ routing \in [Seqs -> Nat]
    /\ window \in [Receivers -> WindowState]
    /\ net \in [Packet -> Nat]
    /\ dups \in 0..MaxDup
    /\ delivered \in [Seqs -> Nat]
    /\ confirmed \subseteq Seqs
    /\ abandoned \subseteq Seqs
    /\ sends \in [Seqs -> Nat] /\ forgotten \in [Seqs -> Nat]

Init ==
    /\ seqCounter = 1
    /\ pub = [p \in Publishers |-> NotPublishing]
    /\ level = [s \in Seqs |-> 0]
    /\ dest = [s \in Seqs |-> CHOOSE r \in Receivers : TRUE]
    /\ pending = {} /\ pendingRel = {}
    /\ retryCount = [s \in Seqs |-> 0] /\ relRetry = [s \in Seqs |-> 0]
    /\ rel = [t \in RxThreads |-> NoSeq]
    /\ filtering = [s \in Seqs |-> 0] /\ routing = [s \in Seqs |-> 0]
    /\ window = [r \in Receivers |-> EmptyWindow]
    /\ net = [m \in Packet |-> 0]
    /\ dups = 0
    /\ delivered = [s \in Seqs |-> 0]
    /\ confirmed = {} /\ abandoned = {}
    /\ sends = [s \in Seqs |-> 0] /\ forgotten = [s \in Seqs |-> 0]

-----------------------------------------------------------------------------
(* The sender's application threads: MessageBus::publish.                  *)

\* An id is drawn for the local copy, which is routed at once, and the peers
\* with a matching subscription are collected under peerMutex_.
PublishBegin(p, lvl, targets) ==
    /\ pub[p].todo = {} /\ pub[p].unregistered = NoSeq
    /\ seqCounter + Cardinality(targets) <= MaxSeq
    /\ seqCounter' = seqCounter + 1
    /\ pub' = [pub EXCEPT ![p] = [todo |-> targets, level |-> lvl, unregistered |-> NoSeq]]
    /\ UNCHANGED <<level, dest, engine, rel, handling, window, net, dups, history>>

\* qos.level >= QoSLevel::Reliable
NeedsAck_ReliableOnly(lvl) == lvl = 1
NeedsAck(lvl) == lvl >= 1

\* One round of the loop over the targets, up to the return of send().
PublishSend(p, r) ==
    /\ r \in pub[p].todo
    /\ pub[p].unregistered = NoSeq
    /\ seqCounter <= MaxSeq
    /\ seqCounter' = seqCounter + 1
    /\ pub' = [pub EXCEPT ![p] =
                 [todo         |-> pub[p].todo \ {r},
                  level        |-> pub[p].level,
                  unregistered |-> IF NeedsAck(pub[p].level) THEN seqCounter ELSE NoSeq]]
    /\ level' = [level EXCEPT ![seqCounter] = pub[p].level]
    /\ dest' = [dest EXCEPT ![seqCounter] = r]
    /\ net' = [net EXCEPT ![Pkt("PUBLISH", seqCounter)] = @ + 1]
    /\ sends' = [sends EXCEPT ![seqCounter] = @ + 1]
    /\ UNCHANGED <<engine, rel, handling, window, dups, delivered, confirmed, abandoned,
                   forgotten>>

\* addPending: the retransmission is registered after the send.
PublishRegister(p) ==
    LET s == pub[p].unregistered IN
    /\ s # NoSeq
    /\ pub' = [pub EXCEPT ![p] = [todo |-> pub[p].todo, level |-> pub[p].level,
                                  unregistered |-> NoSeq]]
    /\ pending' = pending \union {s}
    /\ retryCount' = [retryCount EXCEPT ![s] = 0]
    /\ UNCHANGED <<seqCounter, level, dest, pendingRel, relRetry, rel, handling, window,
                   net, dups, history>>

-----------------------------------------------------------------------------
(* A receiver: MessageBus::onReceived for PUBLISH and PUBREL.              *)

\* The answer leaves first; then a QoS 2 message goes on to the duplicate
\* filter, any other straight to the subscribers.
ReceivePublish(s) ==
    /\ net[Pkt("PUBLISH", s)] > 0
    /\ net' = [m \in Packet |->
                 CASE m = Pkt("PUBLISH", s) -> net[m] - 1
                   [] m = Pkt("PUBREC", s) /\ level[s] = 2 -> net[m] + 1
                   [] m = Pkt("ACK", s) /\ level[s] = 1 -> net[m] + 1
                   [] OTHER -> net[m]]
    /\ filtering' = [filtering EXCEPT ![s] = @ + (IF level[s] = 2 THEN 1 ELSE 0)]
    /\ routing' = [routing EXCEPT ![s] = @ + (IF level[s] = 2 THEN 0 ELSE 1)]
    /\ UNCHANGED <<seqCounter, pub, level, dest, engine, rel, window, dups, history>>

\* isDuplicate, under dedupMutex_: checks and marks in one critical section.
FilterPublish(s) ==
    LET r == dest[s] IN
    /\ filtering[s] > 0
    /\ filtering' = [filtering EXCEPT ![s] = @ - 1]
    /\ window' = [window EXCEPT ![r] = CheckAndMark(window[r], s)]
    /\ routing' = [routing EXCEPT ![s] = @ + (IF IsDuplicate(window[r], s) THEN 0 ELSE 1)]
    /\ UNCHANGED <<seqCounter, pub, level, dest, engine, rel, net, dups, history>>

\* route: the message reaches the local subscribers.
RoutePublish(s) ==
    /\ routing[s] > 0
    /\ routing' = [routing EXCEPT ![s] = @ - 1]
    /\ delivered' = [delivered EXCEPT ![s] = @ + 1]
    /\ UNCHANGED <<seqCounter, pub, level, dest, engine, rel, filtering, window, net, dups,
                   confirmed, abandoned, sends, forgotten>>

\* Every PUBREL is answered, whatever the receiver remembers of the message.
ReceivePubrel(s) ==
    /\ net[Pkt("PUBREL", s)] > 0
    /\ net' = [net EXCEPT ![Pkt("PUBREL", s)] = @ - 1, ![Pkt("PUBCOMP", s)] = @ + 1]
    /\ UNCHANGED <<seqCounter, pub, level, dest, engine, rel, handling, window, dups, history>>

-----------------------------------------------------------------------------
(* The sender's receive threads: onReceived for ACK, PUBREC and PUBCOMP.   *)

\* QoSEngine::onAck
ReceiveAck(t, s) ==
    /\ rel[t] = NoSeq
    /\ net[Pkt("ACK", s)] > 0
    /\ net' = [net EXCEPT ![Pkt("ACK", s)] = @ - 1]
    /\ pending' = pending \ {s}
    /\ confirmed' = confirmed \union {s}
    /\ UNCHANGED <<seqCounter, pub, level, dest, retryCount, pendingRel, relRetry, rel,
                   handling, window, dups, delivered, abandoned, sends, forgotten>>

\* QoSEngine::onPubrec, whose result is ignored, then the send of the PUBREL.
ReceivePubrec(t, s) ==
    /\ rel[t] = NoSeq
    /\ net[Pkt("PUBREC", s)] > 0
    /\ net' = [net EXCEPT ![Pkt("PUBREC", s)] = @ - 1, ![Pkt("PUBREL", s)] = @ + 1]
    /\ pending' = pending \ {s}
    /\ confirmed' = confirmed \union {s}
    /\ rel' = [rel EXCEPT ![t] = s]
    /\ UNCHANGED <<seqCounter, pub, level, dest, retryCount, pendingRel, relRetry,
                   handling, window, dups, delivered, abandoned, sends, forgotten>>

\* addPendingRel, the end of the PUBREC branch.
RegisterRel(t) ==
    /\ rel[t] # NoSeq
    /\ pendingRel' = pendingRel \union {rel[t]}
    /\ relRetry' = [relRetry EXCEPT ![rel[t]] = 0]
    /\ rel' = [rel EXCEPT ![t] = NoSeq]
    /\ UNCHANGED <<seqCounter, pub, level, dest, pending, retryCount, handling, window,
                   net, dups, history>>

\* QoSEngine::onPubcomp
ReceivePubcomp(t, s) ==
    /\ rel[t] = NoSeq
    /\ net[Pkt("PUBCOMP", s)] > 0
    /\ net' = [net EXCEPT ![Pkt("PUBCOMP", s)] = @ - 1]
    /\ pendingRel' = pendingRel \ {s}
    /\ UNCHANGED <<seqCounter, pub, level, dest, pending, retryCount, relRetry, rel,
                   handling, window, dups, history>>

-----------------------------------------------------------------------------
(* The timer threads and the network.                                      *)

\* The entries of due whose retries are used up are abandoned by sweep.
GivenUp_OneMore(due, count) == {s \in due : count[s] > MaxRetries}
GivenUp_OneLess(due, count) == {s \in due : count[s] + 1 >= MaxRetries}
GivenUp(due, count) == {s \in due : count[s] >= MaxRetries}

\* The entries sweep leaves in the map.
Kept_All(entries, due, count) == entries
Kept(entries, due, count) == entries \ GivenUp(due, count)

\* QoSEngine::processTimeouts on the sender, under pendingMutex_: every entry
\* whose interval has elapsed (due, dueRel) is retransmitted or abandoned.
ProcessTimeouts(due, dueRel) ==
    LET again    == due \ GivenUp(due, retryCount)
        againRel == dueRel \ GivenUp(dueRel, relRetry)
    IN  /\ due \subseteq pending /\ dueRel \subseteq pendingRel
        /\ due \union dueRel # {}
        /\ pending' = Kept(pending, due, retryCount)
        /\ retryCount' = [s \in Seqs |-> retryCount[s] + (IF s \in again THEN 1 ELSE 0)]
        /\ pendingRel' = Kept(pendingRel, dueRel, relRetry)
        /\ relRetry' = [s \in Seqs |-> relRetry[s] + (IF s \in againRel THEN 1 ELSE 0)]
        /\ net' = [m \in Packet |->
                     IF \/ m.type = "PUBLISH" /\ m.seq \in again
                        \/ m.type = "PUBREL" /\ m.seq \in againRel
                     THEN net[m] + 1 ELSE net[m]]
        /\ abandoned' = abandoned \union GivenUp(due, retryCount)
        /\ sends' = [s \in Seqs |-> sends[s] + (IF s \in again THEN 1 ELSE 0)]
        /\ UNCHANGED <<seqCounter, pub, level, dest, rel, handling, window, dups, delivered,
                       confirmed, forgotten>>

\* cleanupDedupWindow on receiver r drops a window that no QoS 2 message from
\* the sender has touched for DEDUP_IDLE_TTL_SEC.  Retry interval and retry
\* count are the user's, so copies of the ids it knew may still be to come.
CleanupDedupWindow(r) ==
    /\ window[r].hasAny
    /\ window' = [window EXCEPT ![r] = EmptyWindow]
    /\ forgotten' = [s \in Seqs |-> forgotten[s] +
                       (IF level[s] = 2 /\ dest[s] = r /\ IsDuplicate(window[r], s) THEN 1 ELSE 0)]
    /\ UNCHANGED <<seqCounter, pub, level, dest, engine, rel, handling, net, dups,
                   delivered, confirmed, abandoned, sends>>

\* The network duplicates a packet.
Duplicate(m) ==
    /\ net[m] > 0
    /\ dups < MaxDup
    /\ dups' = dups + 1
    /\ net' = [net EXCEPT ![m] = @ + 1]
    /\ UNCHANGED <<seqCounter, pub, level, dest, engine, rel, handling, window, history>>

Next ==
    \/ \E p \in Publishers :
          \/ \E lvl \in Levels, targets \in SUBSET Receivers :
                PublishBegin(p, lvl, targets)
          \/ \E r \in Receivers : PublishSend(p, r)
          \/ PublishRegister(p)
    \/ \E s \in Seqs :
          \/ ReceivePublish(s) \/ FilterPublish(s) \/ RoutePublish(s)
          \/ ReceivePubrel(s)
          \/ \E t \in RxThreads :
                ReceiveAck(t, s) \/ ReceivePubrec(t, s) \/ ReceivePubcomp(t, s)
    \/ \E t \in RxThreads : RegisterRel(t)
    \/ \E due \in SUBSET pending, dueRel \in SUBSET pendingRel : ProcessTimeouts(due, dueRel)
    \/ \E r \in Receivers : CleanupDedupWindow(r)
    \/ \E m \in Packet : Duplicate(m)

Spec == Init /\ [][Next]_vars

\* Threads keep running and the timer comes round every 200 ms, so an entry's
\* interval elapses.  Nothing is assumed of the network.
Fairness ==
    /\ \A p \in Publishers : WF_vars(PublishRegister(p))
    /\ \A t \in RxThreads : WF_vars(RegisterRel(t))
    /\ \A s \in Seqs :
          /\ WF_vars(FilterPublish(s)) /\ WF_vars(RoutePublish(s))
          /\ WF_vars(\E due \in SUBSET pending, dueRel \in SUBSET pendingRel :
                        s \in due /\ ProcessTimeouts(due, dueRel))
          /\ WF_vars(\E due \in SUBSET pending, dueRel \in SUBSET pendingRel :
                        s \in dueRel /\ ProcessTimeouts(due, dueRel))

FairSpec == Spec /\ Fairness

Contract == INSTANCE DeliveryContract WITH
    offered <- {s \in Seqs : sends[s] > 0},
    owed <- [s \in Seqs |-> filtering[s] + routing[s]]

-----------------------------------------------------------------------------
(* Properties.                                                             *)

\* A QoS 2 message is routed to the subscribers once, and once more for each
\* time cleanupDedupWindow forgot it: copies the network duplicates or the
\* sender retransmits, ids pruned from recent and threads between the filter
\* and route never add a delivery.
AtMostOnce == \A s \in Seqs : level[s] = 2 => delivered[s] <= 1 + forgotten[s]

\* A QoS 2 message that came a whole window after a later one.
Overtaken(s) ==
    /\ level[s] = 2
    /\ \E s2 \in Seqs : /\ s2 >= s + Window
                        /\ level[s2] = 2 /\ dest[s2] = dest[s]
                        /\ delivered[s2] + routing[s2] >= 1

\* The receiver answers before it filters and routes.  Still, what the sender
\* counts as done (its ACK or PUBREC handled, its PUBREL registered, an answer
\* on its way) was delivered or is in the hands of a receive thread, unless it
\* was overtaken by the width of the window: only then is an answered message
\* lost.
AckMeansDelivered ==
    \A s \in Seqs :
        (\/ s \in confirmed \union pendingRel
         \/ \E type \in PacketType \ {"PUBLISH"} : net[Pkt(type, s)] > 0)
            => delivered[s] + routing[s] + filtering[s] >= 1 \/ Overtaken(s)

\* sweep gives a message up only when it has been transmitted 1 + maxRetries
\* times, and never transmits it more often than that.
RetryBudget ==
    \A s \in Seqs :
        /\ sends[s] <= 1 + MaxRetries
        /\ s \in abandoned => sends[s] = 1 + MaxRetries /\ s \notin pending

\* Every entry of pending_ and of pendingRel_ goes away, even when every
\* answer is lost or overtakes the registration it answers.
EntriesSettle ==
    \A s \in Seqs : /\ s \in pending ~> s \notin pending
                    /\ s \in pendingRel ~> s \notin pendingRel

\* A reliable PUBLISH that was sent is delivered or given up, unless a later
\* one overtakes it by the width of the window.
DeliveredOrAbandoned ==
    \A s \in Seqs : (sends[s] > 0 /\ level[s] >= 1)
                       ~> (delivered[s] > 0 \/ s \in abandoned \/ Overtaken(s))

\* The packets, the retransmission after an unregistered send, the early answer,
\* the filter and its eviction together keep the contract of publish().
KeepsContract == Contract!Spec

\* What the QoS 2 state machine says of the sender: the PUBREC ends the
\* retransmission of the PUBLISH, so no id is in both phases at once.
PubrecStopsPublish == pending \intersect pendingRel = {}
=============================================================================
