----------------------------- MODULE Discovery -----------------------------
(***************************************************************************)
(* How one node learns of its peers, routes to them and loses them:        *)
(* DiscoveryAgent::onDiscoveryMessage, PeerRegistry, and the callbacks of  *)
(* Participant into MessageBus (peers_, Last-Will).                        *)
(*                                                                         *)
(* The node has a receive thread and the discovery timer thread.  Both     *)
(* change records_ under the registry's mutex and call back after they     *)
(* have released it, so the callbacks of the two threads interleave.       *)
(*                                                                         *)
(* A peer broadcasts ANNOUNCE periodically and whenever its topics change, *)
(* FAREWELL when it leaves; what it announces is the number of changes so  *)
(* far.  Datagrams are lost, reordered, and up to MaxDup received twice.   *)
(* Every peer has registered a will.                                       *)
(***************************************************************************)
EXTENDS Integers, FiniteSets

CONSTANTS
    Peers,        \* the other nodes; a restarted node has a new random id
    MaxChanges,   \* bound: changes of a peer's topics
    MaxDup        \* bound: datagrams received twice

ASSUME DiscoveryAssumption ==
    /\ MaxChanges \in Nat
    /\ MaxDup \in Nat

VARIABLES
    life,         \* per peer: up, leaving (FAREWELL sent, timer still on), gone, crashed
    topics,       \* per peer: its topics, as the number of changes
    air, dups,    \* datagrams in transit; receptions of a duplicate so far
    records,      \* PeerRegistry::records_: what each peer announced, or None
    aged,         \* peers whose lastSeen is longer ago than peerTimeoutMs
    peers,        \* MessageBus::peers_: the announcement routes are made from, or None
    recv,         \* the callback the receive thread is about to make
    dead,         \* checkTimeouts: ids the timer thread still has to remove
    lost,         \* the peer whose onWill and onLost the timer thread is about to call
    farewells,    \* history: peers whose FAREWELL was handled
    willed,       \* history: peers whose will was delivered since they were discovered
    raced         \* history: peers whose last callback began before the one of the
                  \* other thread had returned

remote == <<life, topics>>
history == <<farewells, willed, raced>>
vars == <<remote, air, dups, records, aged, peers, recv, dead, lost, history>>

None == -1
Announcement == 0..MaxChanges
Datagram == [type : {"ANNOUNCE"}, peer : Peers, topics : Announcement]
            \union [type : {"FAREWELL"}, peer : Peers, topics : {None}]
Announce_Ahead(p) == [type |-> "ANNOUNCE", peer |-> p, topics |-> topics[p] + 1]
Announce(p) == [type |-> "ANNOUNCE", peer |-> p, topics |-> topics[p]]
Farewell(p) == [type |-> "FAREWELL", peer |-> p, topics |-> None]

\* A callback of the receive thread: a route to write, or None to erase it.
\* With an empty set of peers the thread is between two datagrams.
NoCallback == [who |-> {}, topics |-> None]
Callback(p, t) == [who |-> {p}, topics |-> t]

TypeOK ==
    /\ life \in [Peers -> {"up", "leaving", "gone", "crashed"}]
    /\ topics \in [Peers -> Announcement]
    /\ air \subseteq Datagram
    /\ dups \in 0..MaxDup
    /\ records \in [Peers -> Announcement \union {None}]
    /\ aged \subseteq Peers
    /\ peers \in [Peers -> Announcement \union {None}]
    /\ recv \in [who : SUBSET Peers, topics : Announcement \union {None}]
    /\ dead \subseteq Peers
    /\ lost \subseteq Peers
    /\ farewells \subseteq Peers
    /\ willed \subseteq Peers
    /\ raced \subseteq Peers

Init ==
    /\ life = [p \in Peers |-> "up"]
    /\ topics = [p \in Peers |-> 0]
    /\ air = {} /\ dups = 0
    /\ records = [p \in Peers |-> None]
    /\ aged = {}
    /\ peers = [p \in Peers |-> None]
    /\ recv = NoCallback
    /\ dead = {} /\ lost = {}
    /\ farewells = {} /\ willed = {} /\ raced = {}

-----------------------------------------------------------------------------
(* A peer.                                                                 *)

\* The announce timer, which shutdown stops only after the FAREWELL.
SendAnnounce(p) ==
    /\ life[p] \in {"up", "leaving"}
    /\ Announce(p) \notin air
    /\ air' = air \union {Announce(p)}
    /\ UNCHANGED <<remote, dups, records, aged, peers, recv, dead, lost, history>>

\* announceTopics: new topics, announced at once.
AnnounceTopics(p) ==
    /\ life[p] = "up"
    /\ topics[p] < MaxChanges
    /\ topics' = [topics EXCEPT ![p] = @ + 1]
    /\ air' = air \union {[Announce(p) EXCEPT !.topics = @ + 1]}
    /\ UNCHANGED <<life, dups, records, aged, peers, recv, dead, lost, history>>

\* Participant::shutdown: sendFarewell, and later DiscoveryAgent::stop.
SendFarewell(p) ==
    /\ life[p] = "up"
    /\ life' = [life EXCEPT ![p] = "leaving"]
    /\ air' = air \union {Farewell(p)}
    /\ UNCHANGED <<topics, dups, records, aged, peers, recv, dead, lost, history>>

StopDiscovery(p) ==
    /\ life[p] = "leaving"
    /\ life' = [life EXCEPT ![p] = "gone"]
    /\ UNCHANGED <<topics, air, dups, records, aged, peers, recv, dead, lost, history>>

Crash(p) ==
    /\ life[p] = "up"
    /\ life' = [life EXCEPT ![p] = "crashed"]
    /\ UNCHANGED <<topics, air, dups, records, aged, peers, recv, dead, lost, history>>

-----------------------------------------------------------------------------
(* The receive thread: onDiscoveryMessage.                                 *)

\* No callback is outstanding for p.
Settled(p) == p \notin recv.who \union lost

\* A callback for the peers of who is about to be made.
Begins(who) == raced' = (raced \ who) \union {p \in who : ~Settled(p)}

\* Datagram m is taken from the socket; a duplicate of it may stay.
Receive(m) ==
    /\ m \in air
    /\ recv = NoCallback
    /\ \/ air' = air \ {m} /\ UNCHANGED dups
       \/ dups < MaxDup /\ dups' = dups + 1 /\ UNCHANGED air

Changed_NewOnly(p, t) == records[p] = None

\* The content differs from what the record holds (subscriptions, endpoints).
Changed(p, t) == records[p] # t

\* addOrUpdate up to the unlock: a new peer calls for onDiscovered, a changed
\* one for onUpdated; both write the announcement to peers_.
ReceiveAnnounce(m) ==
    LET p == m.peer IN
    /\ m.type = "ANNOUNCE"
    /\ Receive(m)
    /\ records' = [records EXCEPT ![p] = m.topics]
    /\ aged' = aged \ {p}
    /\ recv' = IF Changed(p, m.topics) THEN Callback(p, m.topics) ELSE NoCallback
    /\ Begins(recv'.who)
    /\ willed' = IF records[p] = None THEN willed \ {p} ELSE willed
    /\ UNCHANGED <<remote, peers, dead, lost, farewells>>

LostCallback_Never(p) == NoCallback

\* remove calls onLost only if there was a record to erase.
LostCallback(p) == IF records[p] # None THEN Callback(p, None) ELSE NoCallback

\* remove(id, false) up to the unlock: onLost follows, the will is dropped.
ReceiveFarewell(m) ==
    LET p == m.peer IN
    /\ m.type = "FAREWELL"
    /\ Receive(m)
    /\ records' = [records EXCEPT ![p] = None]
    /\ aged' = aged \ {p}
    /\ recv' = LostCallback(p)
    /\ Begins(recv'.who)
    /\ farewells' = farewells \union {p}
    /\ UNCHANGED <<remote, peers, dead, lost, willed>>

\* onPeerDiscovered, onPeerUpdated or onPeerLost of the bus.
ReceiveCallback ==
    /\ recv # NoCallback
    /\ peers' = [p \in Peers |-> IF p \in recv.who THEN recv.topics ELSE peers[p]]
    /\ recv' = NoCallback
    /\ UNCHANGED <<remote, air, dups, records, aged, dead, lost, history>>

-----------------------------------------------------------------------------
(* The timer thread: checkTimeouts.                                        *)

\* peerTimeoutMs pass without an announcement of p: it is gone, its datagrams
\* were lost, or the receive thread was held up in a callback.
Age(p) ==
    /\ records[p] # None /\ p \notin aged
    /\ aged' = aged \union {p}
    /\ UNCHANGED <<remote, air, dups, records, peers, recv, dead, lost, history>>

\* The dead peers are collected under the mutex ...
CheckTimeouts ==
    /\ dead = {} /\ lost = {}
    /\ aged # {}
    /\ dead' = aged
    /\ UNCHANGED <<remote, air, dups, records, aged, peers, recv, lost, history>>

\* ... and removed one by one, under the mutex again: remove(id, true).
RemoveDead(p) ==
    /\ p \in dead /\ lost = {}
    /\ dead' = dead \ {p}
    /\ lost' = IF records[p] # None THEN {p} ELSE {}
    /\ Begins(lost')
    /\ records' = [records EXCEPT ![p] = None]
    /\ aged' = aged \ {p}
    /\ UNCHANGED <<remote, air, dups, peers, recv, farewells, willed>>

DeadCallbacks_NoWill ==
    /\ lost # {}
    /\ peers' = [p \in Peers |-> IF p \in lost THEN None ELSE peers[p]]
    /\ lost' = {}
    /\ UNCHANGED <<remote, air, dups, records, aged, recv, dead, history>>

\* onWill, then onLost: the will is routed locally, the route is erased.
DeadCallbacks ==
    /\ lost # {}
    /\ willed' = willed \union lost
    /\ peers' = [p \in Peers |-> IF p \in lost THEN None ELSE peers[p]]
    /\ lost' = {}
    /\ UNCHANGED <<remote, air, dups, records, aged, recv, dead, farewells, raced>>

-----------------------------------------------------------------------------
Next ==
    \/ \E p \in Peers :
          \/ SendAnnounce(p) \/ AnnounceTopics(p) \/ SendFarewell(p) \/ StopDiscovery(p)
          \/ Crash(p) \/ Age(p) \/ RemoveDead(p)
    \/ \E m \in air : ReceiveAnnounce(m) \/ ReceiveFarewell(m)
    \/ ReceiveCallback
    \/ CheckTimeouts
    \/ DeadCallbacks

Spec == Init /\ [][Next]_vars

\* The node's two threads run, a peer's announce timer runs, and of the
\* announcements of unchanged topics that it keeps repeating some are handled.
\* A peer that is gone is silent for peerTimeoutMs.
TimerThread == CheckTimeouts \/ (\E p \in Peers : RemoveDead(p)) \/ DeadCallbacks
Fairness ==
    /\ WF_vars(ReceiveCallback) /\ WF_vars(TimerThread)
    /\ \A p \in Peers : /\ WF_vars(SendAnnounce(p))
                        /\ SF_vars(\E m \in air : m = Announce(p) /\ ReceiveAnnounce(m))
                        /\ WF_vars(Age(p) /\ life[p] \in {"gone", "crashed"})

FairSpec == Spec /\ Fairness

-----------------------------------------------------------------------------
(* Properties.                                                             *)

\* Once its callbacks are made, the route to a peer is what records_ holds: none
\* is missing, none is left over, whatever the order of its datagrams and of its
\* timeouts.  Only callbacks of the two threads for the same peer at the same
\* time excuse a route, until the next callback for that peer.
RoutesAgree == \A p \in Peers : Settled(p) /\ p \notin raced => peers[p] = records[p]

\* The same without the excuse, as the comments on the callbacks have it.
AllRoutesAgree == \A p \in Peers : Settled(p) => peers[p] = records[p]

\* The comment on remove(): a peer that said farewell has its will dropped.
FarewellDropsWill ==
    [][\A p \in farewells : p \in willed' => p \in willed]_vars

\* The routes end up as the topics of every peer that stays and never falls
\* silent, whatever order its announcements arrive in.
RoutesConverge ==
    \A p \in Peers :
        [](life[p] = "up" => p \notin aged) => <>[](life[p] = "up" => peers[p] = topics[p])

\* A peer that crashed or left is forgotten for good, announcements of it that
\* are still in transit notwithstanding and whether or not its FAREWELL arrives;
\* its route goes too, but for callbacks at the same time.  The will of one that
\* crashed is delivered if the node knew it.
CrashIsNoticed ==
    \A p \in Peers :
        /\ life[p] \in {"gone", "crashed"} ~>
              [](records[p] = None /\ (peers[p] = None \/ p \in raced))
        /\ (life[p] = "crashed" /\ records[p] # None) ~> p \in willed
=============================================================================
