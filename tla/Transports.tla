----------------------------- MODULE Transports -----------------------------
(***************************************************************************)
(* The transport manager (src/transport/transport_manager.cpp) with the    *)
(* TCP and UDP transports it owns: the table of TCP connections, the       *)
(* accept thread, one detached reader thread per connection, the UDP       *)
(* receive thread on its event loop, application threads that send, and    *)
(* the shutdown of all of it.  Receive callbacks may answer through the    *)
(* manager, as onReceived does.  A connection and its reader thread have   *)
(* the same number; descriptors are numbers that are used again.  What a   *)
(* frame holds, and the descriptors of listening and UDP sockets, are left *)
(* out.                                                                    *)
(***************************************************************************)
EXTENDS Integers, FiniteSets, FiniteSetsExt

CONSTANTS
    Registered,   \* transports of the configuration, within {"tcp", "udp"}
    Dialed,       \* endpoints this node connects to
    Callers,      \* endpoints that connect to this node
    Replaces,     \* a caller may come back while its old entry is in the table
    UdpSockets,   \* 2 with multicast, 1 without
    NumSenders,   \* application threads
    MaxConns,     \* bound: connections over the whole run
    MaxFds        \* descriptors

ASSUME TransportAssumption ==
    /\ Registered \subseteq {"tcp", "udp"}
    /\ Dialed \cap Callers = {} /\ Dialed \cup Callers # {}
    /\ Replaces \in BOOLEAN
    /\ UdpSockets \in {1, 2}
    /\ NumSenders \in Nat /\ MaxConns \in Nat /\ MaxFds \in Nat

Peers == Dialed \cup Callers
AnyPeer == CHOOSE p \in Peers : TRUE         \* where an endpoint has no meaning
Conns == 1 .. MaxConns
Fds == 1 .. MaxFds
NoFd == 0                                      \* INVALID_SOCK
NoConn == 0
Udp == 0                                       \* the UDP receive thread
Apps == MaxConns + 1 .. MaxConns + NumSenders
Main == MaxConns + NumSenders + 1              \* the thread that shuts down
Callbacks == Conns \cup {Udp}                  \* threads that run callbacks
Threads == Callbacks \cup Apps

VARIABLES
    mgr,         \* mutex_ of the manager: its holder, as a set of at most one
    active,      \* transports whose active_ is true
    recvCb,      \* the participant has set the receive callback
    fdt,         \* the process's descriptors: the connection each one names
    connections, \* connections_: endpoint to descriptor
    peerOf,      \* [connection -> endpoint], the reader thread's peerEp
    fdOf,        \* [connection -> descriptor], the reader thread's clientFd
    hungUp,      \* connections the other side has closed
    cpc,         \* next step of each reader thread, "none" before it exists
    reads,       \* [reader thread -> connection its recv is blocked on]
    count,       \* clientThreadCount_
    listening,   \* listenFd_ is open
    apc, got,    \* next step of the accept thread, and what accept gave it
    upc, events, \* next step of the UDP thread, events left of its poll
    snd, to, sfd,\* what each thread is doing in send: step, endpoint, fd
    shut, todo   \* next step of shutdown, transports it has not reached

tcpv == <<connections, peerOf, fdOf, hungUp, cpc, reads, count, fdt>>
accv == <<listening, apc, got>>
udpv == <<upc, events>>
sndv == <<snd, to, sfd>>
stopv == <<shut, todo>>
vars == <<mgr, active, recvCb, tcpv, accv, udpv, sndv, stopv>>

\* TcpTransport::init: a socket that listens and the thread that accepts, if
\* every call succeeds.
TcpInit ==
    /\ listening = ("tcp" \in active) /\ got = NoConn
    /\ apc = IF "tcp" \in active THEN "check" ELSE "ended"

\* UdpTransport::init: its sockets are in the event loop before the thread runs.
UdpInit == upc = (IF "udp" \in active THEN "poll" ELSE "ended") /\ events = 0

\* initAll: a transport whose init fails stays inactive.
Init ==
    /\ mgr = {} /\ recvCb = FALSE
    /\ active \in SUBSET Registered
    /\ fdt = [f \in Fds |-> NoConn]
    /\ connections = [p \in Peers |-> NoFd]
    /\ peerOf = [k \in Conns |-> AnyPeer]
    /\ fdOf = [k \in Conns |-> NoFd]
    /\ hungUp = {} /\ cpc = [k \in Conns |-> "none"]
    /\ reads = [k \in Conns |-> NoConn] /\ count = 0
    /\ TcpInit /\ UdpInit
    /\ snd = [t \in Threads |-> "idle"]
    /\ to = [t \in Threads |-> AnyPeer]
    /\ sfd = [t \in Threads |-> NoFd]
    /\ shut = "run" /\ todo = {}

\* Participant::init, after initAll: until then a packet is read and dropped.
SetRecvCallback ==
    /\ ~recvCb /\ mgr = {}
    /\ recvCb' = TRUE
    /\ UNCHANGED <<mgr, active, tcpv, accv, udpv, sndv, stopv>>

-----------------------------------------------------------------------------
(* Sockets.                                                                 *)

Free == {f \in Fds : fdt[f] = NoConn}
Unused == {k \in Conns : cpc[k] = "none" /\ k # got}
CanOpen == Free # {} /\ Unused # {}
NewFd == Min(Free)                   \* the lowest one, as POSIX has it
NewConn == Min(Unused)

PeerHangsUp(k) ==
    /\ cpc[k] \notin {"none", "gone"} /\ k \notin hungUp
    /\ hungUp' = hungUp \cup {k}
    /\ UNCHANGED <<mgr, active, recvCb, connections, peerOf, fdOf, cpc, reads,
                   count, fdt, accv, udpv, sndv, stopv>>

-----------------------------------------------------------------------------
(* TransportManager::send, sendv and broadcast, with TcpTransport::send.    *)

\* Application threads may call at any time, receive threads from a callback.
Calls(t) == snd[t] = IF t \in Apps THEN "idle" ELSE "want"

\* The manager's mutex is taken, and held until the transport returns.
SendTcp(t, p) ==
    /\ Calls(t) /\ mgr = {} /\ "tcp" \in active
    /\ t \in Conns => p = peerOf[t]
    /\ mgr' = {t}
    /\ snd' = [snd EXCEPT ![t] = "get"] /\ to' = [to EXCEPT ![t] = p]
    /\ UNCHANGED <<active, recvCb, tcpv, accv, udpv, sfd, stopv>>

\* A UDP endpoint, the fallback to UDP, or no active transport: a datagram is
\* sent or nothing is, under the mutex.
SendUdp(t) ==
    /\ t \in Callbacks /\ Calls(t) /\ mgr = {}
    /\ t = Udp \/ "tcp" \notin active
    /\ snd' = [snd EXCEPT ![t] = "idle"]
    /\ UNCHANGED <<mgr, active, recvCb, tcpv, accv, udpv, to, sfd, stopv>>

\* spawnClientThread: the thread is counted before it runs.
Spawn(k) == count' = count + 1 /\ cpc' = [cpc EXCEPT ![k] = "check"]

\* getOrConnect, one critical section of the transport's mutex.
Find(t) ==
    /\ snd[t] = "get" /\ connections[to[t]] # NoFd
    /\ sfd' = [sfd EXCEPT ![t] = connections[to[t]]]
    /\ snd' = [snd EXCEPT ![t] = "write"]
    /\ UNCHANGED <<mgr, active, recvCb, tcpv, accv, udpv, to, stopv>>

Connect(t) ==
    /\ snd[t] = "get" /\ connections[to[t]] = NoFd
    /\ to[t] \in Dialed /\ CanOpen
    /\ fdt' = [fdt EXCEPT ![NewFd] = NewConn]
    /\ connections' = [connections EXCEPT ![to[t]] = NewFd]
    /\ peerOf' = [peerOf EXCEPT ![NewConn] = to[t]]
    /\ fdOf' = [fdOf EXCEPT ![NewConn] = NewFd]
    /\ Spawn(NewConn)
    /\ sfd' = [sfd EXCEPT ![t] = NewFd]
    /\ snd' = [snd EXCEPT ![t] = "write"]
    /\ UNCHANGED <<mgr, active, recvCb, hungUp, reads, accv, udpv, to, stopv>>

\* socket or connect fails: send returns false.
ConnectFails(t) ==
    /\ snd[t] = "get" /\ connections[to[t]] = NoFd
    /\ snd' = [snd EXCEPT ![t] = "idle"] /\ to' = [to EXCEPT ![t] = AnyPeer]
    /\ mgr' = {}
    /\ UNCHANGED <<active, recvCb, tcpv, accv, udpv, sfd, stopv>>

\* sendAll of the length and of the data, on whatever the descriptor names.
Write(t) ==
    /\ snd[t] = "write"
    /\ snd' = [snd EXCEPT ![t] = "idle"] /\ sfd' = [sfd EXCEPT ![t] = NoFd]
    /\ to' = [to EXCEPT ![t] = AnyPeer] /\ mgr' = {}
    /\ UNCHANGED <<active, recvCb, tcpv, accv, udpv, stopv>>

-----------------------------------------------------------------------------
(* TcpTransport: acceptLoop.                                                *)

AcceptCheck ==
    /\ apc = "check"
    /\ apc' = IF "tcp" \in active THEN "call" ELSE "ended"
    /\ UNCHANGED <<mgr, active, recvCb, tcpv, listening, got, udpv, sndv, stopv>>

\* accept fails at once on a closed descriptor.
AcceptCall ==
    /\ apc = "call"
    /\ apc' = IF listening THEN "accept" ELSE "check"
    /\ UNCHANGED <<mgr, active, recvCb, tcpv, listening, got, udpv, sndv, stopv>>

\* A connection arrives: also for an accept that was blocked before listenFd_
\* was closed, for the call keeps the socket alive.
Accept(p) ==
    /\ apc = "accept" /\ CanOpen
    /\ connections[p] = NoFd \/ Replaces
    /\ fdt' = [fdt EXCEPT ![NewFd] = NewConn]
    /\ peerOf' = [peerOf EXCEPT ![NewConn] = p]
    /\ fdOf' = [fdOf EXCEPT ![NewConn] = NewFd]
    /\ got' = NewConn /\ apc' = "insert"
    /\ UNCHANGED <<mgr, active, recvCb, connections, hungUp, cpc, reads, count,
                   listening, udpv, sndv, stopv>>

\* close() of the descriptor ends the call of another thread on some systems;
\* Linux goes on waiting, so this is allowed and never owed.
AcceptWoken ==
    /\ apc = "accept" /\ ~listening
    /\ apc' = "check"
    /\ UNCHANGED <<mgr, active, recvCb, tcpv, listening, got, udpv, sndv, stopv>>

Insert ==
    /\ apc = "insert"
    /\ connections' = [connections EXCEPT ![peerOf[got]] = fdOf[got]]
    /\ apc' = "spawn"
    /\ UNCHANGED <<mgr, active, recvCb, peerOf, fdOf, hungUp, cpc, reads, count,
                   fdt, listening, got, udpv, sndv, stopv>>

SpawnReader ==
    /\ apc = "spawn" /\ Spawn(got)
    /\ got' = NoConn /\ apc' = "check"
    /\ UNCHANGED <<mgr, active, recvCb, connections, peerOf, fdOf, hungUp, reads,
                   fdt, listening, udpv, sndv, stopv>>

-----------------------------------------------------------------------------
(* TcpTransport: clientLoop and what follows it in the thread.              *)

ReaderGoes(k, step) ==
    /\ cpc' = [cpc EXCEPT ![k] = step]
    /\ UNCHANGED <<mgr, active, recvCb, connections, peerOf, fdOf, hungUp, count,
                   fdt, accv, udpv, stopv>>

ReaderCheck(k) ==
    /\ cpc[k] = "check"
    /\ ReaderGoes(k, IF "tcp" \in active THEN "call" ELSE "close")
    /\ UNCHANGED <<reads, sndv>>

\* recv looks its descriptor up when it is called.
RecvCall(k) ==
    /\ cpc[k] = "call"
    /\ reads' = [reads EXCEPT ![k] = fdt[fdOf[k]]]
    /\ ReaderGoes(k, IF fdt[fdOf[k]] = NoConn THEN "close" ELSE "recv")
    /\ UNCHANGED sndv

\* A whole frame arrives, and the callback will answer or not.
RecvFrame(k) ==
    /\ cpc[k] = "recv" /\ reads[k] \notin hungUp
    /\ reads' = [reads EXCEPT ![k] = NoConn]
    /\ \E step \in IF recvCb THEN {"idle", "want"} ELSE {"idle"} :
          snd' = [snd EXCEPT ![k] = step]
    /\ ReaderGoes(k, "callback")
    /\ UNCHANGED <<to, sfd>>

ReturnCallback(k) ==
    /\ cpc[k] = "callback" /\ snd[k] = "idle"
    /\ ReaderGoes(k, "check")
    /\ UNCHANGED <<reads, sndv>>

\* The other side has closed.
RecvEnds(k) ==
    /\ cpc[k] = "recv" /\ reads[k] \in hungUp
    /\ reads' = [reads EXCEPT ![k] = NoConn]
    /\ ReaderGoes(k, "close")
    /\ UNCHANGED sndv

\* A length of 0 or beyond 10 MiB, an error, or the close() of the descriptor
\* where that wakes the call, ends the loop as well.
RecvFails(k) ==
    /\ cpc[k] = "recv" /\ reads[k] \notin hungUp
    /\ reads' = [reads EXCEPT ![k] = NoConn]
    /\ ReaderGoes(k, "close")
    /\ UNCHANGED sndv

\* closeOwnedConnection: the entry must still be this descriptor's.
Owns_Always(k) == TRUE
Owns(k) == connections[peerOf[k]] = fdOf[k]

CloseOwned(k) ==
    /\ cpc[k] = "close"
    /\ IF Owns(k)
       THEN /\ fdt' = [fdt EXCEPT ![fdOf[k]] = NoConn]
            /\ connections' = [connections EXCEPT ![peerOf[k]] = NoFd]
       ELSE UNCHANGED <<fdt, connections>>
    /\ cpc' = [cpc EXCEPT ![k] = "uncount"]
    /\ UNCHANGED <<mgr, active, recvCb, peerOf, fdOf, hungUp, reads, count, accv,
                   udpv, sndv, stopv>>

Uncount(k) ==
    /\ cpc[k] = "uncount"
    /\ count' = count - 1
    /\ cpc' = [cpc EXCEPT ![k] = IF count = 1 THEN "notify" ELSE "gone"]
    /\ UNCHANGED <<mgr, active, recvCb, connections, peerOf, fdOf, hungUp, reads,
                   fdt, accv, udpv, sndv, stopv>>

Notify(k) ==
    /\ cpc[k] = "notify"
    /\ cpc' = [cpc EXCEPT ![k] = "gone"]
    /\ shut' = IF shut = "asleep" THEN "wait" ELSE shut
    /\ UNCHANGED <<mgr, active, recvCb, connections, peerOf, fdOf, hungUp, reads,
                   count, fdt, accv, udpv, sndv, todo>>

-----------------------------------------------------------------------------
(* UdpTransport: recvLoop on the event loop, processFd.                     *)

\* runOnce: each socket may be readable, and after 100 ms or a wakeup it
\* returns without any.  What arrives after active_ was read is not told from
\* what was there before.
Poll ==
    /\ upc = "poll"
    /\ IF "udp" \in active
       THEN upc' = "events" /\ events' \in 0 .. UdpSockets
       ELSE upc' = "ended" /\ UNCHANGED events
    /\ UNCHANGED <<mgr, active, recvCb, tcpv, accv, sndv, stopv>>

ProcessFd ==
    /\ upc = "events" /\ events > 0
    /\ upc' = "callback" /\ events' = events - 1
    /\ \E step \in IF recvCb THEN {"idle", "want"} ELSE {"idle"} :
          snd' = [snd EXCEPT ![Udp] = step]
    /\ UNCHANGED <<mgr, active, recvCb, tcpv, accv, to, sfd, stopv>>

UdpReturn ==
    /\ \/ upc = "callback" /\ snd[Udp] = "idle" /\ upc' = "events"
       \/ upc = "events" /\ events = 0 /\ upc' = "poll"
    /\ UNCHANGED <<mgr, active, recvCb, tcpv, accv, events, sndv, stopv>>

-----------------------------------------------------------------------------
(* Participant::shutdown and TransportManager::shutdownAll.                 *)

\* sendFarewell is a broadcast under the manager's mutex.
Farewell ==
    /\ shut = "run" /\ recvCb /\ mgr = {}
    /\ shut' = "lock"
    /\ UNCHANGED <<mgr, active, recvCb, tcpv, accv, udpv, sndv, todo>>

ShutdownAll ==
    /\ shut = "lock" /\ mgr = {}
    /\ mgr' = {Main} /\ shut' = "next" /\ todo' = Registered
    /\ UNCHANGED <<active, recvCb, tcpv, accv, udpv, sndv>>

\* shutdown of one transport begins with the exchange of active_; one that is
\* not active does nothing more.  The order is that of an unordered map.
ShutdownNext_StillActive(x) ==
    /\ shut = "next" /\ x \in todo
    /\ todo' = todo \ {x}
    /\ shut' = CASE x \notin active -> "next"
                 [] x \in active /\ x = "tcp" -> "listen"
                 [] x \in active /\ x # "tcp" -> "joinUdp"
    /\ UNCHANGED <<mgr, active, recvCb, tcpv, accv, udpv, sndv>>
ShutdownNext(x) ==
    /\ shut = "next" /\ x \in todo
    /\ todo' = todo \ {x} /\ active' = active \ {x}
    /\ shut' = CASE x \notin active -> "next"
                 [] x \in active /\ x = "tcp" -> "listen"
                 [] x \in active /\ x # "tcp" -> "joinUdp"
    /\ UNCHANGED <<mgr, recvCb, tcpv, accv, udpv, sndv>>

CloseListener ==
    /\ shut = "listen" /\ shut' = "table"
    /\ listening' = FALSE
    /\ UNCHANGED <<mgr, active, recvCb, tcpv, apc, got, udpv, sndv, todo>>

CloseAll ==
    /\ shut = "table" /\ shut' = "join"
    /\ LET closed == {connections[p] : p \in Peers}
       IN  fdt' = [f \in Fds |-> IF f \in closed THEN NoConn ELSE fdt[f]]
    /\ connections' = [p \in Peers |-> NoFd]
    /\ UNCHANGED <<mgr, active, recvCb, peerOf, fdOf, hungUp, cpc, reads, count,
                   accv, udpv, sndv, todo>>

JoinAccept_Skipped ==
    /\ shut = "join" /\ shut' = "wait"
    /\ UNCHANGED <<mgr, active, recvCb, tcpv, accv, udpv, sndv, todo>>
JoinAccept ==
    /\ shut = "join" /\ apc = "ended" /\ shut' = "wait"
    /\ UNCHANGED <<mgr, active, recvCb, tcpv, accv, udpv, sndv, todo>>

\* The predicate of clientCv_.wait, asked under clientCvMutex_.
WaitReaders ==
    /\ shut = "wait" /\ shut' = IF count = 0 THEN "next" ELSE "asleep"
    /\ UNCHANGED <<mgr, active, recvCb, tcpv, accv, udpv, sndv, todo>>

JoinUdp ==
    /\ shut = "joinUdp" /\ upc = "ended" /\ shut' = "next"
    /\ UNCHANGED <<mgr, active, recvCb, tcpv, accv, udpv, sndv, todo>>

ShutdownReturns ==
    /\ shut = "next" /\ todo = {}
    /\ shut' = "done" /\ mgr' = {}
    /\ UNCHANGED <<active, recvCb, tcpv, accv, udpv, sndv, todo>>

-----------------------------------------------------------------------------
SendStep(t) == Find(t) \/ Connect(t) \/ ConnectFails(t) \/ Write(t)
AcceptStep == AcceptCheck \/ AcceptCall \/ Insert \/ SpawnReader
ReaderStep(k) ==
    \/ ReaderCheck(k) \/ RecvCall(k) \/ ReturnCallback(k) \/ RecvEnds(k)
    \/ CloseOwned(k) \/ Uncount(k) \/ Notify(k)
UdpStep == Poll \/ ProcessFd \/ UdpReturn
ShutdownStep ==
    \/ CloseListener \/ CloseAll \/ JoinAccept \/ WaitReaders \/ JoinUdp
    \/ ShutdownReturns \/ \E x \in todo : ShutdownNext(x)

Next ==
    \/ SetRecvCallback \/ Farewell \/ ShutdownAll \/ ShutdownStep
    \/ AcceptStep \/ AcceptWoken \/ (\E p \in Callers : Accept(p))
    \/ UdpStep
    \/ \E t \in Threads : SendUdp(t) \/ SendStep(t) \/ \E p \in Peers : SendTcp(t, p)
    \/ \E k \in Conns : ReaderStep(k) \/ RecvFrame(k) \/ RecvFails(k) \/ PeerHangsUp(k)

\* Threads run on; a connect and a write end; the mutex is not given to other
\* threads for ever while shutdownAll waits for it.  Peers owe nothing.
Fairness ==
    /\ WF_vars(AcceptStep) /\ WF_vars(UdpStep) /\ WF_vars(ShutdownStep)
    /\ SF_vars(ShutdownAll)
    /\ \A t \in Threads : WF_vars(SendStep(t))
    /\ \A k \in Conns : WF_vars(ReaderStep(k))
Spec == Init /\ [][Next]_vars /\ Fairness

-----------------------------------------------------------------------------
TypeOK ==
    /\ mgr \subseteq Threads \cup {Main} /\ active \subseteq Registered
    /\ recvCb \in BOOLEAN /\ listening \in BOOLEAN
    /\ fdt \in [Fds -> Conns \cup {NoConn}]
    /\ connections \in [Peers -> Fds \cup {NoFd}]
    /\ peerOf \in [Conns -> Peers] /\ fdOf \in [Conns -> Fds \cup {NoFd}]
    /\ hungUp \subseteq Conns
    /\ cpc \in [Conns -> {"none", "check", "call", "recv", "callback", "close",
                          "uncount", "notify", "gone"}]
    /\ reads \in [Conns -> Conns \cup {NoConn}] /\ count \in Nat
    /\ apc \in {"check", "call", "accept", "insert", "spawn", "ended"}
    /\ got \in Conns \cup {NoConn}
    /\ upc \in {"poll", "events", "callback", "ended"} /\ events \in 0 .. UdpSockets
    /\ snd \in [Threads -> {"idle", "want", "get", "write"}]
    /\ to \in [Threads -> Peers] /\ sfd \in [Threads -> Fds \cup {NoFd}]
    /\ shut \in {"run", "lock", "next", "listen", "table", "join", "wait",
                 "asleep", "joinUdp", "done"}
    /\ todo \subseteq Registered

\* Every entry of connections_ names an open connection to that endpoint, so
\* that no close() hits a descriptor that is free or somebody else's
\* (tcp_transport.h:41, against shutdown and readers closing the same one).
TableIsTrue ==
    \A p \in Peers : connections[p] # NoFd =>
       /\ fdt[connections[p]] # NoConn
       /\ peerOf[fdt[connections[p]]] = p

\* When shutdownAll has returned nothing of the transports is left: every
\* descriptor is closed, also one accepted or connected while shutdown was
\* under way, and no thread is in a loop, a callback or the table.
NothingLeftBehind ==
    shut = "done" =>
       /\ \A f \in Fds : fdt[f] = NoConn
       /\ apc = "ended" /\ upc = "ended"
       /\ \A k \in Conns : cpc[k] \in {"none", "notify", "gone"}

\* What shutdownAll may wait for in vain while it holds the manager's mutex: a
\* receive callback that needs the mutex to answer, and a call blocked on a
\* socket whose descriptor was closed.
Blocked ==
    /\ mgr = {Main}
    /\ \/ \E t \in Callbacks : snd[t] = "want"
       \/ apc = "accept" /\ ~listening
       \/ \E k \in Conns : cpc[k] = "recv" /\ reads[k] # fdt[fdOf[k]]

\* shutdownAll returns, or waits for ever for one of those: in particular it
\* never sleeps through the last reader's notification, and never waits for
\* a reader of a connection that was opened while it ran.
ShutdownEndsOrBlocked ==
    shut = "lock" ~> (shut = "done" \/ []Blocked)

\* shutdownAll returns (udp_transport.cpp:205, tcp_transport.cpp:48).
ShutdownEnds == shut = "lock" ~> shut = "done"

\* A descriptor that a send holds has not become another endpoint's
\* (tcp_transport.h:42).
NoFdReuseRace ==
    \A t \in Threads : snd[t] = "write" /\ fdt[sfd[t]] # NoConn =>
       peerOf[fdt[sfd[t]]] = to[t]

\* No reader thread touches the transport after shutdown returned
\* (tcp_transport.cpp:58).
ReadersGoneAfterShutdown ==
    shut = "done" => \A k \in Conns : cpc[k] # "notify"

\* Every connection is closed once it has ended (tcp_transport.h:41).
EveryFdClosed == \A k \in Conns : cpc[k] = "gone" => fdt[fdOf[k]] # k
=============================================================================
