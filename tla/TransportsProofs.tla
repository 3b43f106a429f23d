-------------------------- MODULE TransportsProofs --------------------------
(***************************************************************************)
(* The connection table and the shutdown of the transports for any number  *)
(* of endpoints, connections, descriptors and threads.                     *)
(***************************************************************************)
EXTENDS Transports, FiniteSetTheorems, WellFoundedInduction, TLAPS

-----------------------------------------------------------------------------
(* Types.                                                                  *)

Reading == {"check", "call", "recv", "callback", "close"}
Counted == {k \in Conns : cpc[k] \in Reading \cup {"uncount"}}

\* What TypeOK leaves open: threads and connections have descriptors, the
\* accept thread holds one connection between accept and spawnClientThread,
\* and clientThreadCount_ counts the readers.
Shape ==
    /\ \A k \in Conns : cpc[k] # "none" => fdOf[k] \in Fds
    /\ IF apc \in {"insert", "spawn"}
       THEN got \in Conns /\ cpc[got] = "none" /\ fdOf[got] \in Fds
       ELSE got = NoConn
    /\ count = Cardinality(Counted)

Typed == TypeOK /\ Shape

LEMMA Constants ==
    /\ MaxConns \in Nat /\ NumSenders \in Nat /\ MaxFds \in Nat
    /\ Conns \subseteq Nat /\ NoConn \notin Conns /\ IsFiniteSet(Conns)
    /\ Fds \subseteq Nat /\ NoFd \notin Fds
    /\ Main \notin Threads /\ AnyPeer \in Peers
<1>1. AnyPeer \in Peers
  BY TransportAssumption DEF AnyPeer, Peers
<1>2. IsFiniteSet(Conns)
  BY TransportAssumption, FS_Interval DEF Conns
<1> QED
  BY <1>1, <1>2, TransportAssumption DEF Conns, Fds, NoConn, NoFd, Main, Threads, Callbacks, Udp, Apps

LEMMA Smallest ==
    ASSUME NEW T \in SUBSET Nat, T # {}
    PROVE  Min(T) \in T
<1>1. PICK x \in T : \A y \in T : ~(<<y, x>> \in OpToRel(<, Nat))
  BY WFMin, NatLessThanWellFounded, Zenon
<1>2. \A y \in T : ~(y < x)
  BY <1>1 DEF OpToRel
<1>3. \A y \in T : x =< y
  BY <1>2
<1> QED
  BY <1>3 DEF Min

\* socket() and accept() give a descriptor and a connection not yet in use.
LEMMA Opened ==
    ASSUME Typed, CanOpen
    PROVE  /\ NewFd \in Fds /\ fdt[NewFd] = NoConn
           /\ NewConn \in Conns /\ cpc[NewConn] = "none" /\ NewConn # got
<1>1. NewFd \in Free
  BY Smallest, Constants DEF CanOpen, NewFd, Free
<1>2. NewConn \in Unused
  BY Smallest, Constants DEF CanOpen, NewConn, Unused
<1> QED
  BY <1>1, <1>2 DEF Free, Unused

\* A thread is counted when it is spawned, and once.
LEMMA SpawnCounts ==
    ASSUME Typed, NEW k \in Conns, cpc[k] = "none", Spawn(k)
    PROVE  count' = Cardinality(Counted') /\ count' \in Nat
<1>1. Counted' = Counted \cup {k} /\ k \notin Counted
  BY DEF Counted, Spawn, Typed, TypeOK, Reading
<1>2. IsFiniteSet(Counted)
  BY Constants, FS_Subset DEF Counted
<1>3. Cardinality(Counted \cup {k}) = Cardinality(Counted) + 1
  BY <1>1, <1>2, FS_AddElement
<1> QED
  BY <1>1, <1>3 DEF Typed, TypeOK, Shape, Spawn

LEMMA UncountCounts ==
    ASSUME Typed, NEW k \in Conns, Uncount(k)
    PROVE  count' = Cardinality(Counted') /\ count' \in Nat
<1>1. Counted' = Counted \ {k} /\ k \in Counted
  BY DEF Counted, Uncount, Typed, TypeOK, Reading
<1>2. IsFiniteSet(Counted)
  BY Constants, FS_Subset DEF Counted
<1>3. Cardinality(Counted \ {k}) = Cardinality(Counted) - 1 /\ Cardinality(Counted \ {k}) \in Nat
  <2>1. IsFiniteSet(Counted \ {k})
    BY <1>2, FS_Subset
  <2> QED
    BY <1>1, <1>2, <2>1, FS_RemoveElement, FS_CardinalityType
<1> QED
  BY <1>1, <1>3 DEF Typed, TypeOK, Shape, Uncount

\* The steps of a reader between its loop and the callback keep it counted.
LEMMA GoesKeeps ==
    ASSUME Typed, NEW k \in Conns, cpc[k] \in Reading, NEW step \in Reading, ReaderGoes(k, step)
    PROVE  /\ cpc' \in [Conns -> {"none", "check", "call", "recv", "callback", "close",
                                  "uncount", "notify", "gone"}]
           /\ Shape' /\ UNCHANGED <<mgr, active, recvCb, connections, peerOf, fdOf, hungUp, count, fdt, accv, udpv, stopv>>
<1>1. /\ cpc' = [cpc EXCEPT ![k] = step]
      /\ UNCHANGED <<mgr, active, recvCb, connections, peerOf, fdOf, hungUp, count, fdt, accv, udpv, stopv>>
  BY DEF ReaderGoes
<1>2. Counted' = Counted
  BY <1>1 DEF Counted, Typed, TypeOK, Reading
<1>3. cpc' \in [Conns -> {"none", "check", "call", "recv", "callback", "close", "uncount", "notify", "gone"}]
  BY <1>1 DEF Typed, TypeOK, Reading
<1>4. Shape'
  BY <1>1, <1>2 DEF Shape, accv, Typed, TypeOK, Reading
<1> QED
  BY <1>1, <1>3, <1>4

LEMMA GoesTyped ==
    ASSUME Typed, NEW k \in Conns, cpc[k] \in Reading, NEW step \in Reading, ReaderGoes(k, step),
           reads' \in [Conns -> Conns \cup {NoConn}],
           snd' \in [Threads -> {"idle", "want", "get", "write"}],
           to' = to, sfd' = sfd
    PROVE  Typed'
<1>1. /\ UNCHANGED <<mgr, active, recvCb, connections, peerOf, fdOf, hungUp, count, fdt>>
      /\ UNCHANGED <<listening, apc, got, upc, events, shut, todo>>
  BY DEF ReaderGoes, accv, udpv, stopv
<1>2. Shape' /\ cpc' \in [Conns -> {"none", "check", "call", "recv", "callback", "close",
                                     "uncount", "notify", "gone"}]
  BY GoesKeeps
<1>3. TypeOK'
  BY <1>1, <1>2 DEF Typed, TypeOK
<1> QED
  BY <1>2, <1>3 DEF Typed

LEMMA TypeStep == Typed /\ [Next]_vars => Typed'
<1> SUFFICES ASSUME Typed, [Next]_vars PROVE Typed'
  OBVIOUS
<1> USE Constants DEF tcpv, accv, udpv, sndv, stopv
<1>0. TypeOK /\ Shape
  BY DEF Typed
<1>1. ASSUME UNCHANGED <<cpc, fdOf, apc, got, count>> PROVE Shape'
  BY <1>0, <1>1 DEF Shape, Counted
<1>2. CASE SetRecvCallback \/ Farewell \/ ShutdownAll
  <2>1. Shape'
    BY <1>1, <1>2 DEF SetRecvCallback, Farewell, ShutdownAll
  <2>2. CASE SetRecvCallback
    BY <1>0, <2>1, <2>2 DEF SetRecvCallback, TypeOK, Typed
  <2>3. CASE Farewell
    BY <1>0, <2>1, <2>3 DEF Farewell, TypeOK, Typed
  <2>4. CASE ShutdownAll
    BY <1>0, <2>1, <2>4 DEF ShutdownAll, TypeOK, Typed
  <2> QED
    BY <1>2, <2>2, <2>3, <2>4
<1>3. CASE CloseListener \/ JoinAccept \/ WaitReaders \/ JoinUdp \/ ShutdownReturns \/ (\E x \in todo : ShutdownNext(x))
  <2>1. Shape'
    BY <1>1, <1>3 DEF CloseListener, JoinAccept, WaitReaders, JoinUdp, ShutdownReturns, ShutdownNext
  <2>3. ASSUME CloseListener \/ JoinAccept \/ WaitReaders \/ JoinUdp \/ ShutdownReturns PROVE TypeOK'
    BY <1>0, <2>3 DEF CloseListener, JoinAccept, WaitReaders, JoinUdp, ShutdownReturns, TypeOK
  <2>4. ASSUME NEW x \in todo, ShutdownNext(x) PROVE TypeOK'
    <3>1. shut' \in {"next", "listen", "joinUdp"}
      BY <2>4 DEF ShutdownNext
    <3>2. todo' \subseteq todo /\ active' \subseteq active
      BY <2>4 DEF ShutdownNext
    <3> QED
      BY <1>0, <2>4, <3>1, <3>2 DEF ShutdownNext, TypeOK
  <2>2. TypeOK'
    BY <1>3, <2>3, <2>4
  <2> QED
    BY <2>1, <2>2 DEF Typed
<1>4. CASE CloseAll
  <2>1. Shape'
    BY <1>1, <1>4 DEF CloseAll
  <2> QED
    BY <1>0, <1>4, <2>1 DEF CloseAll, TypeOK, Typed
<1>5. CASE AcceptCheck \/ AcceptCall \/ AcceptWoken
  <2>1. Shape'
    BY <1>0, <1>5 DEF AcceptCheck, AcceptCall, AcceptWoken, Shape, Counted
  <2> QED
    BY <1>0, <1>5, <2>1 DEF AcceptCheck, AcceptCall, AcceptWoken, TypeOK, Typed
<1>6. ASSUME NEW p \in Callers, Accept(p) PROVE Typed'
  <2>1. NewFd \in Fds /\ NewConn \in Conns /\ cpc[NewConn] = "none"
    BY <1>6, Opened DEF Accept
  <2>2. p \in Peers
    BY DEF Peers
  <2>3. TypeOK'
    BY <1>0, <1>6, <2>1, <2>2 DEF Accept, TypeOK
  <2>4. Shape'
    BY <1>0, <1>6, <2>1 DEF Accept, TypeOK, Shape, Counted
  <2> QED
    BY <2>3, <2>4 DEF Typed
<1>7. CASE Insert
  <2>1. TypeOK'
    BY <1>0, <1>7 DEF Insert, TypeOK, Shape
  <2>2. Shape'
    BY <1>0, <1>7 DEF Insert, Shape, Counted
  <2> QED
    BY <2>1, <2>2 DEF Typed
<1>8. CASE SpawnReader
  <2>1. got \in Conns /\ cpc[got] = "none" /\ fdOf[got] \in Fds /\ Spawn(got)
    BY <1>0, <1>8 DEF SpawnReader, Shape
  <2>2. count' = Cardinality(Counted') /\ count' \in Nat
    BY <2>1, SpawnCounts
  <2>3. TypeOK'
    BY <1>0, <1>8, <2>1, <2>2 DEF SpawnReader, Spawn, TypeOK
  <2>4. Shape'
    BY <1>0, <1>8, <2>1, <2>2 DEF SpawnReader, Spawn, TypeOK, Shape
  <2> QED
    BY <2>3, <2>4 DEF Typed
<1>9. CASE UdpStep
  <2>1. UdpSockets \in Nat /\ Udp \in Threads
    BY TransportAssumption DEF Threads, Callbacks
  <2>2. Shape'
    BY <1>1, <1>9 DEF UdpStep, Poll, ProcessFd, UdpReturn
  <2>3. CASE Poll \/ UdpReturn
    BY <1>0, <2>1, <2>2, <2>3 DEF Poll, UdpReturn, TypeOK, Typed
  <2>4. CASE ProcessFd
    BY <1>0, <2>1, <2>2, <2>4 DEF ProcessFd, TypeOK, Typed
  <2> QED
    BY <1>9, <2>3, <2>4 DEF UdpStep
<1>10. ASSUME NEW t \in Threads, SendUdp(t) \/ Find(t) \/ ConnectFails(t) \/ Write(t) \/ (\E p \in Peers : SendTcp(t, p))
       PROVE  Typed'
  <2>1. Shape'
    BY <1>1, <1>10 DEF SendUdp, Find, ConnectFails, Write, SendTcp
  <2>2. CASE SendUdp(t)
    BY <1>0, <2>1, <2>2 DEF SendUdp, TypeOK, Typed
  <2>3. CASE Find(t)
    BY <1>0, <2>1, <2>3 DEF Find, TypeOK, Typed
  <2>4. CASE ConnectFails(t)
    BY <1>0, <2>1, <2>4 DEF ConnectFails, TypeOK, Typed
  <2>5. CASE Write(t)
    BY <1>0, <2>1, <2>5 DEF Write, TypeOK, Typed
  <2>6. CASE \E p \in Peers : SendTcp(t, p)
    BY <1>0, <2>1, <2>6 DEF SendTcp, TypeOK, Typed
  <2> QED
    BY <1>10, <2>2, <2>3, <2>4, <2>5, <2>6
<1>11. ASSUME NEW t \in Threads, Connect(t) PROVE Typed'
  <2>1. NewFd \in Fds /\ NewConn \in Conns /\ cpc[NewConn] = "none" /\ NewConn # got /\ Spawn(NewConn)
    BY <1>11, Opened DEF Connect
  <2>2. count' = Cardinality(Counted') /\ count' \in Nat
    BY <2>1, SpawnCounts
  <2>3. TypeOK'
    BY <1>0, <1>11, <2>1, <2>2 DEF Connect, Spawn, TypeOK
  <2>4. Shape'
    BY <1>0, <1>11, <2>1, <2>2 DEF Connect, Spawn, TypeOK, Shape
  <2> QED
    BY <2>3, <2>4 DEF Typed
<1>12. ASSUME NEW k \in Conns, ReaderCheck(k) \/ ReturnCallback(k) PROVE Typed'
  <2>1. \E step \in Reading : ReaderGoes(k, step) /\ cpc[k] \in Reading
    BY <1>12 DEF ReaderCheck, ReturnCallback, Reading
  <2>2. UNCHANGED <<reads, snd, to, sfd>>
    BY <1>12 DEF ReaderCheck, ReturnCallback
  <2> QED
    BY <1>0, <2>1, <2>2, GoesTyped DEF TypeOK
<1>13. ASSUME NEW k \in Conns, RecvCall(k) \/ RecvEnds(k) \/ RecvFails(k) PROVE Typed'
  <2>1. \E step \in Reading : ReaderGoes(k, step) /\ cpc[k] \in Reading
    BY <1>13 DEF RecvCall, RecvEnds, RecvFails, Reading
  <2>2. fdOf[k] \in Fds
    BY <1>0, <1>13 DEF RecvCall, RecvEnds, RecvFails, Shape
  <2>3. reads' \in [Conns -> Conns \cup {NoConn}]
    BY <1>0, <1>13, <2>2 DEF RecvCall, RecvEnds, RecvFails, TypeOK
  <2>4. UNCHANGED sndv
    BY <1>13 DEF RecvCall, RecvEnds, RecvFails
  <2> QED
    BY <1>0, <2>1, <2>3, <2>4, GoesTyped DEF TypeOK
<1>14. ASSUME NEW k \in Conns, RecvFrame(k) PROVE Typed'
  <2>1. ReaderGoes(k, "callback") /\ cpc[k] \in Reading /\ "callback" \in Reading
    BY <1>14 DEF RecvFrame, Reading
  <2>2. reads' \in [Conns -> Conns \cup {NoConn}] /\ UNCHANGED <<to, sfd>>
    BY <1>0, <1>14 DEF RecvFrame, TypeOK
  <2>3. snd' \in [Threads -> {"idle", "want", "get", "write"}]
    BY <1>0, <1>14 DEF RecvFrame, TypeOK, Threads, Callbacks
  <2> QED
    BY <1>0, <2>1, <2>2, <2>3, GoesTyped DEF TypeOK
<1>15. ASSUME NEW k \in Conns, CloseOwned(k) PROVE Typed'
  <2>1. fdOf[k] \in Fds /\ cpc[k] = "close"
    BY <1>0, <1>15 DEF CloseOwned, Shape
  <2>2. Counted' = Counted
    BY <1>0, <1>15, <2>1 DEF Counted, CloseOwned, TypeOK, Reading
  <2>3. TypeOK'
    BY <1>0, <1>15, <2>1 DEF CloseOwned, TypeOK
  <2>4. Shape'
    BY <1>0, <1>15, <2>1, <2>2 DEF CloseOwned, TypeOK, Shape
  <2> QED
    BY <2>3, <2>4 DEF Typed
<1>16. ASSUME NEW k \in Conns, Uncount(k) PROVE Typed'
  <2>1. count' = Cardinality(Counted') /\ count' \in Nat
    BY <1>16, UncountCounts
  <2>3. TypeOK'
    BY <1>0, <1>16, <2>1 DEF Uncount, TypeOK
  <2>4. Shape'
    BY <1>0, <1>16, <2>1 DEF Uncount, TypeOK, Shape
  <2> QED
    BY <2>3, <2>4 DEF Typed
<1>17. ASSUME NEW k \in Conns, Notify(k) PROVE Typed'
  <2>1. Counted' = Counted
    BY <1>0, <1>17 DEF Counted, Notify, TypeOK, Reading
  <2>3. TypeOK'
    BY <1>0, <1>17 DEF Notify, TypeOK
  <2>4. Shape'
    BY <1>0, <1>17, <2>1 DEF Notify, TypeOK, Shape
  <2> QED
    BY <2>3, <2>4 DEF Typed
<1>18. ASSUME NEW k \in Conns, PeerHangsUp(k) PROVE Typed'
  <2>1. Shape'
    BY <1>1, <1>18 DEF PeerHangsUp
  <2> QED
    BY <1>0, <1>18, <2>1 DEF PeerHangsUp, TypeOK, Typed
<1>19. CASE UNCHANGED vars
  <2>1. Shape'
    BY <1>1, <1>19 DEF vars
  <2> QED
    BY <1>0, <1>19, <2>1 DEF vars, TypeOK, Typed
<1> QED
  BY <1>2, <1>3, <1>4, <1>5, <1>6, <1>7, <1>8, <1>9, <1>10, <1>11, <1>12, <1>13, <1>14, <1>15,
     <1>16, <1>17, <1>18, <1>19 DEF Next, ShutdownStep, AcceptStep, SendStep, ReaderStep

LEMMA TypedAlways == Spec => []Typed
<1>1. Init => Typed
  <2> SUFFICES ASSUME Init PROVE Typed
    OBVIOUS
  <2>1. Counted = {}
    BY DEF Init, Counted, Reading
  <2>2. Shape
    BY <2>1, FS_EmptySet DEF Init, TcpInit, Shape
  <2>3. UdpSockets \in Nat
    BY TransportAssumption
  <2>5. /\ mgr \subseteq Threads \cup {Main} /\ active \subseteq Registered /\ recvCb \in BOOLEAN
        /\ got = NoConn /\ count \in Nat
    BY DEF Init, TcpInit
  <2>8. apc \in {"check", "ended"} /\ upc \in {"poll", "ended"} /\ events \in 0 .. UdpSockets
    BY <2>3 DEF Init, TcpInit, UdpInit
  <2>6. /\ fdt \in [Fds -> Conns \cup {NoConn}] /\ connections \in [Peers -> Fds \cup {NoFd}]
        /\ peerOf \in [Conns -> Peers] /\ fdOf \in [Conns -> Fds \cup {NoFd}]
        /\ to \in [Threads -> Peers] /\ sfd \in [Threads -> Fds \cup {NoFd}]
    BY Constants DEF Init
  <2>7. listening \in BOOLEAN
    <3>1. listening = ("tcp" \in active)
      BY DEF Init, TcpInit
    <3>2. CASE "tcp" \in active
      BY <3>1, <3>2
    <3>3. CASE "tcp" \notin active
      BY <3>1, <3>3
    <3> QED
      BY <3>2, <3>3
  <2>4. TypeOK
    BY <2>5, <2>6, <2>7, <2>8 DEF Init, TypeOK
  <2> QED
    BY <2>2, <2>4 DEF Typed
<1> QED
  BY <1>1, TypeStep, PTL DEF Spec

\* Type correctness.  A reader thread always has a descriptor, and
\* clientThreadCount_ is the number of reader threads, so it never drops
\* below 0.
THEOREM TypeCorrect == Spec => []TypeOK
<1>1. Typed => TypeOK
  BY DEF Typed
<1> QED
  BY <1>1, TypedAlways, PTL

-----------------------------------------------------------------------------
(* The table of connections.                                               *)

\* A descriptor names a connection that was opened, and the one the accept
\* thread has not yet put into the table is in nobody's entry.
OpenedOnly == \A f \in Fds : fdt[f] # NoConn => fdt[f] = got \/ cpc[fdt[f]] # "none"
Uninserted ==
    apc = "insert" => /\ fdt[fdOf[got]] = got
                      /\ \A p \in Peers : connections[p] # fdOf[got]
Table == TableIsTrue /\ OpenedOnly /\ Uninserted


\* The steps that do not touch the table, the descriptors or the set of
\* threads: a reader's thread only moves on.
Quiet ==
    /\ UNCHANGED <<connections, fdt, peerOf, fdOf, got>>
    /\ apc' = apc \/ ({apc, apc'} \cap {"insert", "spawn"} = {} /\ apc # "ended")
    /\ \A k \in Conns : \/ cpc'[k] = cpc[k]
                        \/ {cpc[k], cpc'[k]} \subseteq Reading
                        \/ cpc[k] \in {"uncount", "notify"} /\ cpc'[k] \in {"notify", "gone"}

LEMMA QuietSteps ==
    ASSUME Typed, [Next]_vars
    PROVE  \/ \E t \in Threads : Connect(t)
           \/ \E p \in Callers : Accept(p)
           \/ Insert \/ SpawnReader \/ CloseAll
           \/ \E k \in Conns : CloseOwned(k)
           \/ Quiet
<1> USE DEF tcpv, accv, udpv, sndv, stopv
<1>1. ASSUME NEW k \in Conns, NEW step,
             \/ cpc[k] \in Reading /\ step \in Reading
             \/ cpc[k] \in {"uncount", "notify"} /\ step \in {"notify", "gone"},
             cpc' = [cpc EXCEPT ![k] = step],
             UNCHANGED <<connections, fdt, peerOf, fdOf, got, apc>>
      PROVE  Quiet
  BY <1>1 DEF Quiet, Typed, TypeOK
<1>2. ASSUME NEW k \in Conns, ReaderCheck(k) \/ ReturnCallback(k) PROVE Quiet
  BY <1>1, <1>2 DEF ReaderCheck, ReturnCallback, ReaderGoes, Reading
<1>3. ASSUME NEW k \in Conns, RecvCall(k) \/ RecvFrame(k) \/ RecvEnds(k) \/ RecvFails(k) PROVE Quiet
  BY <1>1, <1>3 DEF RecvCall, RecvFrame, RecvEnds, RecvFails, ReaderGoes, Reading
<1>4. ASSUME NEW k \in Conns, Uncount(k) \/ Notify(k) PROVE Quiet
  BY <1>1, <1>4 DEF Uncount, Notify
<1>5. CASE AcceptCheck \/ AcceptCall \/ AcceptWoken
  BY <1>5 DEF AcceptCheck, AcceptCall, AcceptWoken, Quiet
<1>6. ASSUME UNCHANGED <<tcpv, apc, got>> \/ (\E k \in Conns : PeerHangsUp(k)) PROVE Quiet
  BY <1>6 DEF PeerHangsUp, Quiet
<1>7. ASSUME NEW t \in Threads, SendUdp(t) \/ Find(t) \/ ConnectFails(t) \/ Write(t) \/ (\E p \in Peers : SendTcp(t, p))
      PROVE  Quiet
  BY <1>6, <1>7 DEF SendUdp, Find, ConnectFails, Write, SendTcp
<1>8. CASE \/ SetRecvCallback \/ Farewell \/ ShutdownAll
           \/ CloseListener \/ JoinAccept \/ WaitReaders \/ JoinUdp \/ ShutdownReturns
           \/ (\E x \in todo : ShutdownNext(x)) \/ UdpStep \/ UNCHANGED vars
  BY <1>6, <1>8 DEF SetRecvCallback, Farewell, ShutdownAll, CloseListener, JoinAccept, WaitReaders,
       JoinUdp, ShutdownReturns, ShutdownNext, UdpStep, Poll, ProcessFd, UdpReturn, vars
<1> QED
  BY <1>2, <1>3, <1>4, <1>5, <1>6, <1>7, <1>8 DEF Next, ShutdownStep, AcceptStep, SendStep, ReaderStep

\* Connect and Accept with the descriptor f and the connection k they open.
ConnectedAs(t, f, k) ==
    /\ snd[t] = "get" /\ to[t] \in Dialed /\ connections[to[t]] = NoFd
    /\ fdt[f] = NoConn /\ cpc[k] = "none" /\ k # got
    /\ fdt' = [fdt EXCEPT ![f] = k] /\ connections' = [connections EXCEPT ![to[t]] = f]
    /\ peerOf' = [peerOf EXCEPT ![k] = to[t]] /\ fdOf' = [fdOf EXCEPT ![k] = f]
    /\ cpc' = [cpc EXCEPT ![k] = "check"]
    /\ UNCHANGED <<got, apc, active, shut, todo, upc>>
AcceptedAs(p, f, k) ==
    /\ apc = "accept" /\ apc' = "insert" /\ got = NoConn /\ got' = k
    /\ connections[p] = NoFd \/ Replaces
    /\ fdt[f] = NoConn /\ cpc[k] = "none"
    /\ fdt' = [fdt EXCEPT ![f] = k]
    /\ peerOf' = [peerOf EXCEPT ![k] = p] /\ fdOf' = [fdOf EXCEPT ![k] = f]
    /\ UNCHANGED <<connections, cpc, active, shut, todo, upc>>

LEMMA ConnectStep ==
    ASSUME Typed, NEW t \in Threads, Connect(t)
    PROVE  \E f \in Fds, k \in Conns : ConnectedAs(t, f, k)
<1>1. NewFd \in Fds /\ fdt[NewFd] = NoConn /\ NewConn \in Conns /\ cpc[NewConn] = "none" /\ NewConn # got
  BY Opened DEF Connect
<1> DEFINE f == NewFd
           k == NewConn
<1> HIDE DEF f, k
<1>2. f \in Fds /\ fdt[f] = NoConn /\ k \in Conns /\ cpc[k] = "none" /\ k # got
  BY <1>1 DEF f, k
<1>3. /\ snd[t] = "get" /\ to[t] \in Dialed /\ connections[to[t]] = NoFd
      /\ fdt' = [fdt EXCEPT ![f] = k] /\ connections' = [connections EXCEPT ![to[t]] = f]
      /\ peerOf' = [peerOf EXCEPT ![k] = to[t]] /\ fdOf' = [fdOf EXCEPT ![k] = f]
      /\ cpc' = [cpc EXCEPT ![k] = "check"]
      /\ UNCHANGED <<got, apc, active, shut, todo, upc>>
  BY DEF Connect, Spawn, f, k, accv, udpv, stopv
<1>4. ConnectedAs(t, f, k)
  BY <1>2, <1>3 DEF ConnectedAs
<1> QED
  BY <1>2, <1>4

LEMMA AcceptConnection ==
    ASSUME Typed, NEW p \in Callers, Accept(p)
    PROVE  \E f \in Fds, k \in Conns : AcceptedAs(p, f, k)
<1>1. NewFd \in Fds /\ fdt[NewFd] = NoConn /\ NewConn \in Conns /\ cpc[NewConn] = "none"
  BY Opened DEF Accept
<1> DEFINE f == NewFd
           k == NewConn
<1> HIDE DEF f, k
<1>2. f \in Fds /\ fdt[f] = NoConn /\ k \in Conns /\ cpc[k] = "none"
  BY <1>1 DEF f, k
<1>3. /\ apc = "accept" /\ apc' = "insert" /\ got' = k
      /\ connections[p] = NoFd \/ Replaces
      /\ fdt' = [fdt EXCEPT ![f] = k]
      /\ peerOf' = [peerOf EXCEPT ![k] = p] /\ fdOf' = [fdOf EXCEPT ![k] = f]
      /\ UNCHANGED <<connections, cpc, active, shut, todo, upc>>
  BY DEF Accept, f, k, udpv, stopv
<1>4. got = NoConn
  BY <1>3 DEF Typed, Shape
<1>5. AcceptedAs(p, f, k)
  BY <1>2, <1>3, <1>4 DEF AcceptedAs
<1> QED
  BY <1>2, <1>5

LEMMA CloseOwnedStep ==
    ASSUME Typed, NEW k \in Conns, CloseOwned(k)
    PROVE  /\ cpc[k] = "close" /\ fdOf[k] \in Fds /\ k # got
           /\ \A f \in Fds : fdt'[f] = IF Owns(k) /\ f = fdOf[k] THEN NoConn ELSE fdt[f]
           /\ \A p \in Peers : connections'[p] = IF Owns(k) /\ p = peerOf[k] THEN NoFd ELSE connections[p]
           /\ \A j \in Conns : cpc'[j] = IF j = k THEN "uncount" ELSE cpc[j]
           /\ UNCHANGED <<peerOf, fdOf, got, apc, active, shut, todo, upc>>
<1>1. /\ cpc[k] = "close" /\ cpc' = [cpc EXCEPT ![k] = "uncount"]
      /\ UNCHANGED <<peerOf, fdOf, got, apc, active, shut, todo, upc>>
  BY DEF CloseOwned, accv, udpv, stopv
<1>2. fdOf[k] \in Fds /\ k # got
  BY <1>1, Constants DEF Typed, Shape
<1>3. CASE Owns(k)
  BY <1>1, <1>2, <1>3 DEF CloseOwned, Typed, TypeOK
<1>4. CASE ~Owns(k)
  BY <1>1, <1>2, <1>4 DEF CloseOwned, Typed, TypeOK
<1> QED
  BY <1>3, <1>4

LEMMA TableStep == Typed /\ Table /\ [Next]_vars => Table'
<1> SUFFICES ASSUME Typed, Table, [Next]_vars PROVE Table'
  OBVIOUS
<1> USE Constants
<1>0. /\ fdt \in [Fds -> Conns \cup {NoConn}] /\ connections \in [Peers -> Fds \cup {NoFd}]
      /\ peerOf \in [Conns -> Peers] /\ got \in Conns \cup {NoConn} /\ Shape
      /\ TableIsTrue /\ OpenedOnly /\ Uninserted
  BY DEF Typed, TypeOK, Table
<1>1. ASSUME NEW t \in Threads, Connect(t) PROVE Table'
  <2>1. PICK f \in Fds, k \in Conns : ConnectedAs(t, f, k)
    BY <1>1, ConnectStep
  <2>2. \A g \in Fds : fdt[g] # NoConn => fdt[g] \in Conns /\ fdt[g] # k /\ g # f
    <3>1. fdt[f] = NoConn /\ cpc[k] = "none" /\ k # got
      BY <2>1 DEF ConnectedAs
    <3> QED
      BY <1>0, <3>1 DEF OpenedOnly
  <2>3. TableIsTrue'
    <3>1. \A p \in Peers : connections'[p] = IF p = to[t] THEN f ELSE connections[p]
      BY <1>0, <2>1 DEF ConnectedAs
    <3>2. fdt'[f] = k /\ peerOf'[k] = to[t]
      BY <1>0, <2>1 DEF ConnectedAs
    <3>3. \A g \in Fds : fdt[g] # NoConn => fdt'[g] = fdt[g] /\ peerOf'[fdt[g]] = peerOf[fdt[g]]
      BY <1>0, <2>1, <2>2 DEF ConnectedAs
    <3>4. \A p \in Peers : connections[p] # NoFd =>
             /\ connections[p] \in Fds /\ fdt[connections[p]] # NoConn
             /\ peerOf[fdt[connections[p]]] = p
      BY <1>0 DEF TableIsTrue
    <3>5. \A p \in Peers : connections[p] # NoFd =>
             /\ fdt'[connections[p]] # NoConn
             /\ peerOf'[fdt'[connections[p]]] = p
      BY <3>3, <3>4
    <3>6. k # NoConn
      OBVIOUS
    <3> QED
      BY <3>1, <3>2, <3>5, <3>6 DEF TableIsTrue
  <2>4. OpenedOnly'
    <3>1. \A g \in Fds : fdt'[g] = IF g = f THEN k ELSE fdt[g]
      BY <1>0, <2>1 DEF ConnectedAs
    <3>2. got' = got /\ \A j \in Conns : cpc'[j] = IF j = k THEN "check" ELSE cpc[j]
      BY <2>1 DEF ConnectedAs, Typed, TypeOK
    <3> QED
      BY <1>0, <3>1, <3>2 DEF OpenedOnly
  <2>5. Uninserted'
    <3> SUFFICES ASSUME apc' = "insert"
                 PROVE  fdt'[fdOf'[got']] = got' /\ \A p \in Peers : connections'[p] # fdOf'[got']
      BY DEF Uninserted
    <3>1. apc = "insert" /\ got' = got /\ got # k
      BY <2>1 DEF ConnectedAs
    <3>2. got \in Conns /\ fdOf[got] \in Fds /\ fdt[fdOf[got]] = got
      BY <1>0, <3>1 DEF Shape, Uninserted
    <3>3. fdOf[got] # f
      BY <2>2, <3>2
    <3>4. fdOf'[got] = fdOf[got]
      BY <2>1, <3>1, <3>2 DEF ConnectedAs, Typed, TypeOK
    <3>5. fdt'[fdOf[got]] = got
      BY <1>0, <2>1, <3>2, <3>3 DEF ConnectedAs
    <3>6. \A p \in Peers : connections'[p] # fdOf[got]
      BY <1>0, <2>1, <3>1, <3>3 DEF ConnectedAs, Uninserted
    <3> QED
      BY <3>1, <3>4, <3>5, <3>6
  <2> QED
    BY <2>3, <2>4, <2>5 DEF Table
<1>2. ASSUME NEW p \in Callers, Accept(p) PROVE Table'
  <2>1. PICK f \in Fds, k \in Conns : AcceptedAs(p, f, k)
    BY <1>2, AcceptConnection
  <2>2. \A g \in Fds : fdt[g] # NoConn => fdt[g] \in Conns /\ fdt[g] # k /\ g # f /\ cpc[fdt[g]] # "none"
    <3>1. fdt[f] = NoConn /\ cpc[k] = "none" /\ got = NoConn
      BY <2>1 DEF AcceptedAs
    <3> QED
      BY <1>0, <3>1 DEF OpenedOnly
  <2>3. TableIsTrue'
    <3>1. connections' = connections
      BY <2>1 DEF AcceptedAs
    <3>2. \A g \in Fds : fdt[g] # NoConn => fdt'[g] = fdt[g] /\ peerOf'[fdt[g]] = peerOf[fdt[g]]
      BY <1>0, <2>1, <2>2 DEF AcceptedAs
    <3>3. \A q \in Peers : connections[q] # NoFd =>
             /\ connections[q] \in Fds /\ fdt[connections[q]] # NoConn
             /\ peerOf[fdt[connections[q]]] = q
      BY <1>0 DEF TableIsTrue
    <3>4. \A q \in Peers : connections[q] # NoFd =>
             /\ fdt'[connections[q]] # NoConn
             /\ peerOf'[fdt'[connections[q]]] = q
      BY <3>2, <3>3
    <3> QED
      BY <3>1, <3>4 DEF TableIsTrue
  <2>4. OpenedOnly'
    <3>1. \A g \in Fds : fdt'[g] = IF g = f THEN k ELSE fdt[g]
      BY <1>0, <2>1 DEF AcceptedAs
    <3>2. got' = k /\ cpc' = cpc
      BY <2>1 DEF AcceptedAs
    <3> QED
      BY <2>2, <3>1, <3>2 DEF OpenedOnly
  <2>5. Uninserted'
    <3>1. got' = k /\ fdOf'[k] = f /\ fdt'[f] = k /\ connections' = connections /\ fdt[f] = NoConn
      BY <1>0, <2>1 DEF AcceptedAs, Typed, TypeOK
    <3>2. \A q \in Peers : connections[q] # f
      BY <1>0, <3>1 DEF TableIsTrue
    <3> QED
      BY <3>1, <3>2 DEF Uninserted
  <2> QED
    BY <2>3, <2>4, <2>5 DEF Table
<1>3. CASE Insert
  <2>1. /\ apc = "insert" /\ apc' = "spawn" /\ got \in Conns /\ fdOf[got] \in Fds
        /\ connections' = [connections EXCEPT ![peerOf[got]] = fdOf[got]]
        /\ UNCHANGED <<peerOf, fdOf, fdt, cpc, got>>
    BY <1>0, <1>3 DEF Insert, Shape
  <2>2. fdt[fdOf[got]] = got
    BY <1>0, <2>1 DEF Uninserted
  <2>3. TableIsTrue'
    BY <1>0, <2>1, <2>2 DEF TableIsTrue
  <2> QED
    BY <1>0, <2>1, <2>3 DEF Table, OpenedOnly, Uninserted
<1>4. CASE SpawnReader
  <2>1. /\ apc = "spawn" /\ apc' = "check" /\ got' = NoConn /\ got \in Conns
        /\ \A j \in Conns : cpc'[j] = IF j = got THEN "check" ELSE cpc[j]
        /\ UNCHANGED <<connections, fdt, peerOf, fdOf>>
    BY <1>0, <1>4 DEF SpawnReader, Spawn, Shape, Typed, TypeOK
  <2>2. OpenedOnly'
    BY <1>0, <2>1 DEF OpenedOnly
  <2> QED
    BY <1>0, <2>1, <2>2 DEF Table, TableIsTrue, Uninserted
<1>5. CASE CloseAll
  <2>1. \A f \in Fds : fdt'[f] \in {NoConn, fdt[f]}
    BY <1>0, <1>5 DEF CloseAll
  <2>2. \A p \in Peers : connections'[p] = NoFd
    BY <1>5 DEF CloseAll
  <2>3. apc = "insert" => fdt'[fdOf[got]] = fdt[fdOf[got]] /\ fdOf[got] \in Fds
    BY <1>0, <1>5 DEF CloseAll, Shape, Uninserted
  <2>4. UNCHANGED <<cpc, peerOf, fdOf, got, apc>>
    BY <1>5 DEF CloseAll, accv
  <2>5. OpenedOnly'
    BY <1>0, <2>1, <2>4 DEF OpenedOnly
  <2>6. Uninserted'
    BY <1>0, <2>2, <2>3, <2>4 DEF Uninserted
  <2> QED
    BY <2>2, <2>5, <2>6 DEF Table, TableIsTrue
<1>6. ASSUME NEW k \in Conns, CloseOwned(k) PROVE Table'
  <2>1. /\ cpc[k] = "close" /\ fdOf[k] \in Fds /\ k # got
        /\ UNCHANGED <<peerOf, fdOf, got, apc>>
    BY <1>6, CloseOwnedStep
  <2>2. \A f \in Fds : fdt'[f] = IF Owns(k) /\ f = fdOf[k] THEN NoConn ELSE fdt[f]
    BY <1>6, CloseOwnedStep
  <2>3. \A p \in Peers : connections'[p] = IF Owns(k) /\ p = peerOf[k] THEN NoFd ELSE connections[p]
    BY <1>6, CloseOwnedStep
  <2>4. \A j \in Conns : cpc'[j] = IF j = k THEN "uncount" ELSE cpc[j]
    BY <1>6, CloseOwnedStep
  <2>5. TableIsTrue'
    <3>1. \A p \in Peers : Owns(k) /\ p # peerOf[k] => connections[p] # fdOf[k]
      BY <1>0, <2>1 DEF TableIsTrue, Owns
    <3>2. \A p \in Peers : connections'[p] # NoFd =>
             /\ connections'[p] = connections[p] /\ connections[p] \in Fds
             /\ fdt'[connections[p]] = fdt[connections[p]]
      BY <1>0, <2>2, <2>3, <3>1
    <3> QED
      BY <1>0, <2>1, <3>2 DEF TableIsTrue
  <2>6. OpenedOnly'
    <3>1. \A f \in Fds : fdt'[f] # NoConn => fdt'[f] = fdt[f] /\ fdt[f] \in Conns
      BY <1>0, <2>2
    <3> QED
      BY <1>0, <2>1, <2>4, <3>1 DEF OpenedOnly
  <2>7. Uninserted'
    <3> SUFFICES ASSUME apc = "insert"
                 PROVE  fdt'[fdOf[got]] = got /\ \A p \in Peers : connections'[p] # fdOf[got]
      BY <2>1 DEF Uninserted
    <3>1. fdOf[got] \in Fds /\ fdt[fdOf[got]] = got /\ \A p \in Peers : connections[p] # fdOf[got]
      BY <1>0 DEF Uninserted, Shape
    <3>2. Owns(k) => fdOf[k] # fdOf[got]
      BY <1>0, <3>1 DEF Owns
    <3> QED
      BY <2>2, <2>3, <3>1, <3>2
  <2> QED
    BY <2>5, <2>6, <2>7 DEF Table
<1>7. CASE Quiet
  <2>1. /\ UNCHANGED <<connections, fdt, peerOf, fdOf, got>>
        /\ apc' = "insert" => apc = "insert"
        /\ \A k \in Conns : cpc[k] # "none" => cpc'[k] # "none"
    BY <1>7 DEF Quiet, Reading
  <2>2. OpenedOnly'
    BY <1>0, <2>1 DEF OpenedOnly
  <2> QED
    BY <1>0, <2>1, <2>2 DEF Table, TableIsTrue, Uninserted
<1> QED
  BY <1>1, <1>2, <1>3, <1>4, <1>5, <1>6, <1>7, QuietSteps

LEMMA TableAlways == Spec => [](Typed /\ Table)
<1>1. Init => Table
  BY DEF Init, TcpInit, Table, TableIsTrue, OpenedOnly, Uninserted
<1> QED
  BY <1>1, TableStep, TypedAlways, PTL DEF Spec

\* Every entry of connections_ names an open connection to its endpoint,
\* whatever readers, senders, the accept thread and shutdown do, also when a
\* caller comes back before its old connection has ended: close() is never
\* called on a descriptor that is free or belongs to another endpoint.
THEOREM TableIsTrueHolds == Spec => []TableIsTrue
<1>1. Table => TableIsTrue
  BY DEF Table
<1> QED
  BY <1>1, TableAlways, PTL

-----------------------------------------------------------------------------
(* What is left after shutdownAll.                                         *)

\* An open descriptor is its connection's own, in the table under the
\* connection's endpoint, and the connection's thread is still going to close it.
Owned ==
    /\ \A f \in Fds : fdt[f] # NoConn =>
         /\ fdOf[fdt[f]] = f
         /\ connections[peerOf[fdt[f]]] = f \/ (fdt[f] = got /\ apc = "insert")
         /\ cpc[fdt[f]] \in Reading \/ fdt[f] = got
    /\ apc = "insert" => peerOf[got] \in Callers /\ connections[peerOf[got]] = NoFd

\* The manager's mutex is held through a send, and through shutdownAll.
Locked ==
    /\ \A t \in Threads : snd[t] \in {"get", "write"} => mgr = {t} /\ "tcp" \in active
    /\ shut \notin {"run", "lock", "done"} => mgr = {Main}

TcpSteps == {"listen", "table", "join", "wait", "asleep"}

\* A transport that is not active, and that shutdownAll is not just ending,
\* has no thread in a loop.
Ended ==
    /\ shut \notin {"run", "lock"} => active \subseteq todo
    /\ shut = "done" => todo = {}
    /\ shut \in TcpSteps => "tcp" \notin active
    /\ shut \in {"wait", "asleep"} => apc = "ended"
    /\ "tcp" \notin active /\ shut \notin TcpSteps => apc = "ended" /\ Counted = {}
    /\ "udp" \notin active /\ shut # "joinUdp" => upc = "ended"

LEMMA OwnedStep ==
    ASSUME ~Replaces PROVE Typed /\ Table /\ Owned /\ [Next]_vars => Owned'
<1> SUFFICES ASSUME Typed, Table, Owned, [Next]_vars PROVE Owned'
  OBVIOUS
<1> USE Constants
<1>0. /\ fdt \in [Fds -> Conns \cup {NoConn}] /\ connections \in [Peers -> Fds \cup {NoFd}]
      /\ peerOf \in [Conns -> Peers] /\ fdOf \in [Conns -> Fds \cup {NoFd}]
      /\ got \in Conns \cup {NoConn} /\ Shape
      /\ cpc = [k \in Conns |-> cpc[k]] /\ DOMAIN cpc = Conns
      /\ TableIsTrue /\ OpenedOnly /\ Uninserted
  BY DEF Typed, TypeOK, Table
<1>1. \A f \in Fds : fdt[f] # NoConn =>
         /\ fdt[f] \in Conns /\ fdOf[fdt[f]] = f
         /\ connections[peerOf[fdt[f]]] = f \/ (fdt[f] = got /\ apc = "insert")
         /\ cpc[fdt[f]] \in Reading \/ fdt[f] = got
  BY <1>0 DEF Owned
<1>2. apc = "insert" => peerOf[got] \in Callers /\ connections[peerOf[got]] = NoFd /\ got \in Conns
  BY <1>0 DEF Owned, Shape
<1>3. ASSUME NEW t \in Threads, Connect(t) PROVE Owned'
  <2>1. PICK f \in Fds, k \in Conns : ConnectedAs(t, f, k)
    BY <1>3, ConnectStep
  <2>2. /\ fdt[f] = NoConn /\ cpc[k] = "none" /\ k # got /\ got' = got /\ apc' = apc
        /\ connections[to[t]] = NoFd /\ to[t] \in Dialed /\ to[t] \in Peers
    BY <2>1 DEF ConnectedAs, Peers
  <2>3. \A g \in Fds : fdt[g] # NoConn => fdt[g] # k
    BY <1>0, <2>2 DEF OpenedOnly
  <2>4. \A g \in Fds : fdt'[g] = IF g = f THEN k ELSE fdt[g]
    BY <1>0, <2>1 DEF ConnectedAs
  <2>5. \A p \in Peers : connections'[p] = IF p = to[t] THEN f ELSE connections[p]
    BY <1>0, <2>1 DEF ConnectedAs
  <2>6. \A j \in Conns : /\ peerOf'[j] = IF j = k THEN to[t] ELSE peerOf[j]
                         /\ fdOf'[j] = IF j = k THEN f ELSE fdOf[j]
                         /\ cpc'[j] = IF j = k THEN "check" ELSE cpc[j]
    BY <1>0, <2>1 DEF ConnectedAs
  <2>7. \A g \in Fds : fdt'[g] # NoConn =>
           /\ fdOf'[fdt'[g]] = g
           /\ connections'[peerOf'[fdt'[g]]] = g \/ (fdt'[g] = got' /\ apc' = "insert")
           /\ cpc'[fdt'[g]] \in Reading \/ fdt'[g] = got'
    <3> SUFFICES ASSUME NEW g \in Fds, fdt'[g] # NoConn
                 PROVE  /\ fdOf'[fdt'[g]] = g
                        /\ connections'[peerOf'[fdt'[g]]] = g \/ (fdt'[g] = got' /\ apc' = "insert")
                        /\ cpc'[fdt'[g]] \in Reading \/ fdt'[g] = got'
      OBVIOUS
    <3>1. CASE g = f
      <4>1. fdt'[g] = k /\ fdOf'[k] = g /\ peerOf'[k] = to[t] /\ connections'[to[t]] = g /\ cpc'[k] = "check"
        BY <2>2, <2>4, <2>5, <2>6, <3>1
      <4> QED
        BY <4>1 DEF Reading
    <3>2. CASE g # f
      <4>1. fdt'[g] = fdt[g] /\ fdt[g] # k /\ fdt[g] \in Conns /\ peerOf[fdt[g]] \in Peers
        BY <1>0, <1>1, <2>3, <2>4, <3>2
      <4>2. /\ fdOf'[fdt[g]] = fdOf[fdt[g]] /\ peerOf'[fdt[g]] = peerOf[fdt[g]] /\ cpc'[fdt[g]] = cpc[fdt[g]]
        BY <2>6, <4>1
      <4>3. connections[peerOf[fdt[g]]] = g => connections'[peerOf[fdt[g]]] = g
        BY <2>2, <2>5, <4>1
      <4> QED
        BY <1>1, <2>2, <4>1, <4>2, <4>3
    <3> QED
      BY <3>1, <3>2
  <2>8. apc' = "insert" => peerOf'[got'] \in Callers /\ connections'[peerOf'[got']] = NoFd
    <3> SUFFICES ASSUME apc = "insert" PROVE peerOf'[got] \in Callers /\ connections'[peerOf'[got]] = NoFd
      BY <2>2
    <3>1. peerOf'[got] = peerOf[got] /\ peerOf[got] \in Peers /\ peerOf[got] # to[t]
      BY <1>0, <1>2, <2>2, <2>6, TransportAssumption
    <3> QED
      BY <1>2, <2>5, <3>1
  <2> QED
    BY <2>7, <2>8 DEF Owned
<1>4. ASSUME NEW p \in Callers, Accept(p) PROVE Owned'
  <2>1. PICK f \in Fds, k \in Conns : AcceptedAs(p, f, k)
    BY <1>4, AcceptConnection
  <2>2. /\ fdt[f] = NoConn /\ cpc[k] = "none" /\ got = NoConn /\ got' = k /\ apc' = "insert"
        /\ connections[p] = NoFd /\ UNCHANGED <<connections, cpc>>
    BY <2>1 DEF AcceptedAs
  <2>3. \A g \in Fds : fdt[g] # NoConn => fdt[g] # k /\ fdt[g] # got
    BY <1>0, <2>2 DEF OpenedOnly
  <2>4. \A g \in Fds : fdt'[g] = IF g = f THEN k ELSE fdt[g]
    BY <1>0, <2>1 DEF AcceptedAs
  <2>5. \A j \in Conns : /\ peerOf'[j] = IF j = k THEN p ELSE peerOf[j]
                         /\ fdOf'[j] = IF j = k THEN f ELSE fdOf[j]
    BY <1>0, <2>1 DEF AcceptedAs
  <2>6. \A g \in Fds : fdt'[g] # NoConn =>
           /\ fdOf'[fdt'[g]] = g
           /\ connections'[peerOf'[fdt'[g]]] = g \/ (fdt'[g] = got' /\ apc' = "insert")
           /\ cpc'[fdt'[g]] \in Reading \/ fdt'[g] = got'
    <3>1. fdt'[f] = k /\ fdOf'[k] = f
      BY <2>4, <2>5
    <3>2. \A g \in Fds : g # f /\ fdt'[g] # NoConn =>
             /\ fdt'[g] = fdt[g] /\ fdt[g] # NoConn
             /\ fdOf'[fdt[g]] = fdOf[fdt[g]] /\ peerOf'[fdt[g]] = peerOf[fdt[g]]
      BY <1>1, <2>3, <2>4, <2>5
    <3>3. \A g \in Fds : fdt[g] # NoConn =>
             fdOf[fdt[g]] = g /\ connections[peerOf[fdt[g]]] = g /\ cpc[fdt[g]] \in Reading
      BY <1>1, <2>3
    <3> QED
      BY <2>2, <3>1, <3>2, <3>3
  <2>7. peerOf'[got'] \in Callers /\ connections'[peerOf'[got']] = NoFd
    BY <2>2, <2>5
  <2> QED
    BY <2>6, <2>7 DEF Owned
<1>5. CASE Insert
  <2>1. /\ apc = "insert" /\ apc' = "spawn" /\ got \in Conns
        /\ connections' = [connections EXCEPT ![peerOf[got]] = fdOf[got]]
        /\ UNCHANGED <<peerOf, fdOf, fdt, cpc, got>>
    BY <1>0, <1>5 DEF Insert, Shape
  <2>2. \A f \in Fds : fdt[f] # NoConn => connections'[peerOf[fdt[f]]] = f
    <3> SUFFICES ASSUME NEW f \in Fds, fdt[f] # NoConn PROVE connections'[peerOf[fdt[f]]] = f
      OBVIOUS
    <3>1. CASE fdt[f] = got
      BY <1>0, <1>1, <2>1, <3>1
    <3>2. CASE fdt[f] # got
      <4>1. connections[peerOf[fdt[f]]] = f /\ peerOf[fdt[f]] # peerOf[got]
        BY <1>1, <1>2, <2>1, <3>2
      <4> QED
        BY <1>0, <1>1, <2>1, <4>1
    <3> QED
      BY <3>1, <3>2
  <2> QED
    BY <1>1, <2>1, <2>2 DEF Owned
<1>6. CASE SpawnReader
  <2>1. /\ apc = "spawn" /\ apc' = "check" /\ got' = NoConn /\ got \in Conns
        /\ cpc' = [cpc EXCEPT ![got] = "check"]
        /\ UNCHANGED <<connections, fdt, peerOf, fdOf>>
    BY <1>0, <1>6 DEF SpawnReader, Spawn, Shape
  <2>2. \A f \in Fds : fdt[f] # NoConn => cpc'[fdt[f]] \in Reading
    BY <1>0, <1>1, <2>1 DEF Reading
  <2> QED
    BY <1>1, <2>1, <2>2 DEF Owned
<1>7. CASE CloseAll
  <2>1. \A f \in Fds : fdt'[f] # NoConn => fdt'[f] = fdt[f] /\ \A p \in Peers : connections[p] # f
    BY <1>0, <1>7 DEF CloseAll
  <2>2. UNCHANGED <<cpc, peerOf, fdOf, got, apc>> /\ connections' = [p \in Peers |-> NoFd]
    BY <1>7 DEF CloseAll, accv
  <2>3. \A f \in Fds : fdt'[f] # NoConn => fdt[f] = got /\ apc = "insert"
    BY <1>0, <1>1, <2>1
  <2>4. apc = "insert" => peerOf[got] \in Peers
    BY <1>0, <1>2
  <2> QED
    BY <1>1, <1>2, <2>1, <2>2, <2>3, <2>4 DEF Owned
<1>8. ASSUME NEW k \in Conns, CloseOwned(k) PROVE Owned'
  <2>1. /\ cpc[k] = "close" /\ fdOf[k] \in Fds /\ k # got
        /\ UNCHANGED <<peerOf, fdOf, got, apc>>
    BY <1>8, CloseOwnedStep
  <2>2. \A f \in Fds : fdt'[f] = IF Owns(k) /\ f = fdOf[k] THEN NoConn ELSE fdt[f]
    BY <1>8, CloseOwnedStep
  <2>3. \A p \in Peers : connections'[p] = IF Owns(k) /\ p = peerOf[k] THEN NoFd ELSE connections[p]
    BY <1>8, CloseOwnedStep
  <2>4. \A j \in Conns : cpc'[j] = IF j = k THEN "uncount" ELSE cpc[j]
    BY <1>8, CloseOwnedStep
  <2>5. \A f \in Fds : fdt'[f] # NoConn =>
           /\ fdOf[fdt'[f]] = f
           /\ connections'[peerOf[fdt'[f]]] = f \/ (fdt'[f] = got /\ apc = "insert")
           /\ cpc'[fdt'[f]] \in Reading \/ fdt'[f] = got
    <3> SUFFICES ASSUME NEW f \in Fds, fdt'[f] # NoConn
                 PROVE  /\ fdOf[fdt'[f]] = f
                        /\ connections'[peerOf[fdt'[f]]] = f \/ (fdt'[f] = got /\ apc = "insert")
                        /\ cpc'[fdt'[f]] \in Reading \/ fdt'[f] = got
      OBVIOUS
    <3>1. fdt'[f] = fdt[f] /\ ~(Owns(k) /\ f = fdOf[k]) /\ fdt[f] \in Conns /\ peerOf[fdt[f]] \in Peers
      BY <1>0, <1>1, <2>2
    <3>2. fdt[f] # k
      BY <1>1, <2>1, <3>1 DEF Owns
    <3>3. connections[peerOf[fdt[f]]] = f => connections'[peerOf[fdt[f]]] = f
      BY <2>3, <3>1 DEF Owns
    <3> QED
      BY <1>1, <2>4, <3>1, <3>2, <3>3
  <2>6. apc = "insert" => peerOf[got] \in Callers /\ connections'[peerOf[got]] = NoFd
    BY <1>0, <1>2, <2>3
  <2> QED
    BY <2>1, <2>5, <2>6 DEF Owned
<1>9. CASE Quiet
  <2>1. /\ UNCHANGED <<connections, fdt, peerOf, fdOf, got>>
        /\ apc' = "insert" <=> apc = "insert"
        /\ \A k \in Conns : cpc[k] \in Reading => cpc'[k] \in Reading
    BY <1>9 DEF Quiet, Reading
  <2> QED
    BY <1>1, <1>2, <2>1 DEF Owned
<1> QED
  BY <1>3, <1>4, <1>5, <1>6, <1>7, <1>8, <1>9, QuietSteps

LEMMA LockedStep == Typed /\ Locked /\ [Next]_vars => Locked'
<1> SUFFICES ASSUME Typed, Locked, [Next]_vars PROVE Locked'
  OBVIOUS
<1> USE Constants DEF tcpv, accv, udpv, sndv, stopv
<1>0. /\ \A t \in Threads : snd[t] \in {"get", "write"} => mgr = {t} /\ "tcp" \in active
      /\ shut \notin {"run", "lock", "done"} => mgr = {Main}
      /\ snd \in [Threads -> {"idle", "want", "get", "write"}]
  BY DEF Locked, Typed, TypeOK
<1>1. ASSUME UNCHANGED <<mgr, active>>,
             \A t \in Threads : snd'[t] \in {"get", "write"} => snd[t] \in {"get", "write"},
             shut' \notin {"run", "lock", "done"} => shut \notin {"run", "lock", "done"}
      PROVE  Locked'
  BY <1>0, <1>1 DEF Locked
<1>2. ASSUME UNCHANGED <<mgr, active, snd, shut>> PROVE Locked'
  BY <1>1, <1>2
<1>3. ASSUME NEW t \in Threads, Find(t) \/ Connect(t) \/ SendUdp(t) PROVE Locked'
  <2>1. \A u \in Threads : snd'[u] \in {"get", "write"} => snd[u] \in {"get", "write"}
    BY <1>0, <1>3 DEF Find, Connect, SendUdp
  <2> QED
    BY <1>1, <1>3, <2>1 DEF Find, Connect, SendUdp
<1>4. ASSUME NEW t \in Threads, NEW p \in Peers, SendTcp(t, p) PROVE Locked'
  <2>1. mgr = {} /\ mgr' = {t} /\ "tcp" \in active /\ snd' = [snd EXCEPT ![t] = "get"] /\ UNCHANGED <<active, shut>>
    BY <1>4 DEF SendTcp
  <2>2. \A u \in Threads : u # t => snd'[u] \notin {"get", "write"}
    BY <1>0, <2>1
  <2>3. shut \in {"run", "lock", "done"}
    BY <1>0, <2>1
  <2> QED
    BY <2>1, <2>2, <2>3 DEF Locked
<1>5. ASSUME NEW t \in Threads, ConnectFails(t) \/ Write(t) PROVE Locked'
  <2>1. snd[t] \in {"get", "write"} /\ snd' = [snd EXCEPT ![t] = "idle"] /\ mgr' = {} /\ UNCHANGED <<active, shut>>
    BY <1>5 DEF ConnectFails, Write
  <2>2. mgr = {t} /\ t # Main
    BY <1>0, <2>1
  <2>3. \A u \in Threads : snd'[u] \notin {"get", "write"}
    BY <1>0, <2>1, <2>2
  <2>4. shut \in {"run", "lock", "done"}
    BY <1>0, <2>2
  <2> QED
    BY <2>1, <2>3, <2>4 DEF Locked
<1>6. ASSUME NEW k \in Conns, RecvFrame(k) PROVE Locked'
  <2>1. \A u \in Threads : snd'[u] \in {"get", "write"} => snd[u] \in {"get", "write"}
    BY <1>0, <1>6 DEF RecvFrame
  <2> QED
    BY <1>1, <1>6, <2>1 DEF RecvFrame, ReaderGoes
<1>7. CASE ProcessFd
  <2>1. \A u \in Threads : snd'[u] \in {"get", "write"} => snd[u] \in {"get", "write"}
    BY <1>0, <1>7 DEF ProcessFd
  <2> QED
    BY <1>1, <1>7, <2>1 DEF ProcessFd
<1>8. CASE ShutdownAll
  <2>1. \A u \in Threads : snd'[u] \notin {"get", "write"}
    BY <1>0, <1>8 DEF ShutdownAll
  <2> QED
    BY <1>8, <2>1 DEF ShutdownAll, Locked
<1>9. ASSUME NEW x \in todo, ShutdownNext(x) PROVE Locked'
  <2>1. mgr = {Main} /\ mgr' = {Main} /\ snd' = snd
    BY <1>0, <1>9 DEF ShutdownNext
  <2>2. \A u \in Threads : snd[u] \notin {"get", "write"}
    BY <1>0, <2>1
  <2> QED
    BY <2>1, <2>2 DEF Locked
<1>10. CASE ShutdownReturns
  <2>1. mgr = {Main} /\ snd' = snd /\ shut' = "done"
    BY <1>0, <1>10 DEF ShutdownReturns
  <2>2. \A u \in Threads : snd[u] \notin {"get", "write"}
    BY <1>0, <2>1
  <2> QED
    BY <2>1, <2>2 DEF Locked
<1>11. CASE SetRecvCallback \/ Farewell \/ CloseListener \/ CloseAll \/ JoinAccept \/ WaitReaders \/ JoinUdp
  <2>1. UNCHANGED <<mgr, active, snd>>
    BY <1>11 DEF SetRecvCallback, Farewell, CloseListener, CloseAll, JoinAccept, WaitReaders, JoinUdp
  <2>2. shut' \notin {"run", "lock", "done"} => shut \notin {"run", "lock", "done"}
    BY <1>11 DEF SetRecvCallback, Farewell, CloseListener, CloseAll, JoinAccept, WaitReaders, JoinUdp
  <2> QED
    BY <1>1, <2>1, <2>2
<1>12. ASSUME NEW k \in Conns, Notify(k) PROVE Locked'
  BY <1>1, <1>12 DEF Notify
<1>13. ASSUME NEW k \in Conns, \/ ReaderCheck(k) \/ RecvCall(k) \/ ReturnCallback(k) \/ RecvEnds(k)
                               \/ RecvFails(k) \/ CloseOwned(k) \/ Uncount(k) \/ PeerHangsUp(k)
       PROVE  Locked'
  BY <1>2, <1>13 DEF ReaderCheck, RecvCall, ReturnCallback, RecvEnds, RecvFails, ReaderGoes, CloseOwned,
       Uncount, PeerHangsUp
<1>14. CASE AcceptStep \/ AcceptWoken \/ (\E p \in Callers : Accept(p)) \/ Poll \/ UdpReturn \/ UNCHANGED vars
  BY <1>2, <1>14 DEF AcceptStep, AcceptCheck, AcceptCall, AcceptWoken, Accept, Insert, SpawnReader,
       Poll, UdpReturn, vars
<1> QED
  BY <1>3, <1>4, <1>5, <1>6, <1>7, <1>8, <1>9, <1>10, <1>11, <1>12, <1>13, <1>14
     DEF Next, ShutdownStep, SendStep, ReaderStep, UdpStep

LEMMA EndedStep == Typed /\ Locked /\ Ended /\ [Next]_vars => Ended'
<1> SUFFICES ASSUME Typed, Locked, Ended, [Next]_vars PROVE Ended'
  OBVIOUS
<1> USE DEF tcpv, accv, udpv, sndv, stopv
<1>0. /\ shut \notin {"run", "lock"} => active \subseteq todo
      /\ shut = "done" => todo = {}
      /\ shut \in TcpSteps => "tcp" \notin active
      /\ shut \in {"wait", "asleep"} => apc = "ended"
      /\ "tcp" \notin active /\ shut \notin TcpSteps => apc = "ended" /\ Counted = {}
      /\ "udp" \notin active /\ shut # "joinUdp" => upc = "ended"
  BY DEF Ended
<1>1. ASSUME UNCHANGED <<active, shut, todo>>, apc = "ended" => apc' = "ended",
             upc = "ended" => upc' = "ended", Counted = {} /\ apc = "ended" => Counted' = {} \/ "tcp" \in active
      PROVE  Ended'
  BY <1>0, <1>1 DEF Ended
<1>2. Quiet \/ CloseAll => /\ Counted = {} => Counted' = {}
                           /\ apc = "ended" => apc' = "ended"
  <2>1. CASE Quiet
    BY <2>1 DEF Quiet, Counted, Reading
  <2>2. CASE CloseAll
    BY <2>2 DEF CloseAll, Counted
  <2> QED
    BY <2>1, <2>2
<1>3. ASSUME NEW t \in Threads, Connect(t) PROVE Ended'
  <2>1. "tcp" \in active /\ UNCHANGED <<active, shut, todo, apc, upc>>
    BY <1>3 DEF Connect, Locked
  <2> QED
    BY <1>1, <2>1
<1>4. CASE (\E p \in Callers : Accept(p)) \/ Insert \/ SpawnReader
  <2>1. apc # "ended" /\ UNCHANGED <<active, shut, todo, upc>>
    BY <1>4 DEF Accept, Insert, SpawnReader
  <2> QED
    BY <1>1, <2>1
<1>5. ASSUME NEW k \in Conns, CloseOwned(k) PROVE Ended'
  <2>1. UNCHANGED <<active, shut, todo, apc, upc>> /\ k \in Counted
    BY <1>5, CloseOwnedStep DEF Counted, Reading
  <2> QED
    BY <1>1, <2>1
<1>6. CASE /\ Quiet /\ UNCHANGED <<active, shut, todo>>
           /\ upc = "ended" => upc' = "ended"
  BY <1>1, <1>2, <1>6
<1>7. ASSUME Quiet, NEW k \in Conns,
             \/ ReaderCheck(k) \/ RecvCall(k) \/ RecvFrame(k) \/ ReturnCallback(k) \/ RecvEnds(k)
             \/ RecvFails(k) \/ Uncount(k) \/ PeerHangsUp(k)
      PROVE  Ended'
  <2>1. UNCHANGED <<active, shut, todo, upc>>
    BY <1>7 DEF ReaderCheck, RecvCall, RecvFrame, ReturnCallback, RecvEnds, RecvFails, ReaderGoes, Uncount, PeerHangsUp
  <2> QED
    BY <1>6, <1>7, <2>1
<1>8. ASSUME Quiet, NEW t \in Threads,
             SendUdp(t) \/ Find(t) \/ ConnectFails(t) \/ Write(t) \/ (\E p \in Peers : SendTcp(t, p))
      PROVE  Ended'
  <2>1. UNCHANGED <<active, shut, todo, upc>>
    BY <1>8 DEF SendUdp, Find, ConnectFails, Write, SendTcp
  <2> QED
    BY <1>6, <1>8, <2>1
<1>9. ASSUME Quiet, AcceptCheck \/ AcceptCall \/ AcceptWoken \/ UdpStep \/ SetRecvCallback \/ UNCHANGED vars
      PROVE  Ended'
  <2>1. UNCHANGED <<active, shut, todo>>
    BY <1>9 DEF AcceptCheck, AcceptCall, AcceptWoken, UdpStep, Poll, ProcessFd, UdpReturn, SetRecvCallback, vars
  <2>2. upc = "ended" => upc' = "ended"
    BY <1>9 DEF AcceptCheck, AcceptCall, AcceptWoken, UdpStep, Poll, ProcessFd, UdpReturn, SetRecvCallback, vars
  <2> QED
    BY <1>6, <1>9, <2>1, <2>2
<1>10. ASSUME Quiet, NEW k \in Conns, Notify(k) PROVE Ended'
  <2>1. UNCHANGED <<active, todo, apc, upc>> /\ shut' = (IF shut = "asleep" THEN "wait" ELSE shut)
    BY <1>10 DEF Notify
  <2> QED
    BY <1>0, <1>2, <1>10, <2>1 DEF Ended, TcpSteps
<1>11. ASSUME Quiet, Farewell \/ ShutdownAll PROVE Ended'
  <2>1. /\ UNCHANGED <<active, apc, upc>> /\ shut \in {"run", "lock"}
        /\ shut' = "lock" \/ (shut' = "next" /\ todo' = Registered)
    BY <1>11 DEF Farewell, ShutdownAll
  <2>2. active \subseteq Registered
    BY DEF Typed, TypeOK
  <2> QED
    BY <1>0, <1>2, <1>11, <2>1, <2>2 DEF Ended, TcpSteps
<1>12. ASSUME Quiet, NEW x \in todo, ShutdownNext(x) PROVE Ended'
  <2>1. /\ UNCHANGED <<apc, upc>> /\ shut = "next" /\ todo' = todo \ {x} /\ active' = active \ {x}
        /\ shut' = CASE x \notin active -> "next"
                     [] x \in active /\ x = "tcp" -> "listen"
                     [] x \in active /\ x # "tcp" -> "joinUdp"
    BY <1>12 DEF ShutdownNext
  <2>2. x \in {"tcp", "udp"} /\ active \subseteq todo
    BY <1>0, <2>1, TransportAssumption DEF Typed, TypeOK
  <2>3. CASE x \notin active
    <3>1. shut' = "next" /\ active' = active
      BY <2>1, <2>3
    <3> QED
      BY <1>0, <1>2, <1>12, <2>1, <2>2, <3>1 DEF Ended, TcpSteps
  <2>4. CASE x \in active /\ x = "tcp"
    <3>1. shut' = "listen"
      BY <2>1, <2>4
    <3> QED
      BY <1>0, <1>2, <1>12, <2>1, <2>2, <2>4, <3>1 DEF Ended, TcpSteps
  <2>5. CASE x \in active /\ x = "udp"
    <3>1. shut' = "joinUdp"
      BY <2>1, <2>5
    <3> QED
      BY <1>0, <1>2, <1>12, <2>1, <2>2, <2>5, <3>1 DEF Ended, TcpSteps
  <2> QED
    BY <2>2, <2>3, <2>4, <2>5
<1>13. CASE CloseAll
  <2>1. UNCHANGED <<active, todo, apc, upc>> /\ shut = "table" /\ shut' = "join"
    BY <1>13 DEF CloseAll
  <2> QED
    BY <1>0, <2>1 DEF Ended, TcpSteps
<1>14. CASE CloseListener \/ JoinAccept
  <2>1. /\ UNCHANGED <<active, todo, apc, upc>>
        /\ \/ shut = "listen" /\ shut' = "table"
           \/ shut = "join" /\ apc = "ended" /\ shut' = "wait"
    BY <1>14 DEF CloseListener, JoinAccept
  <2> QED
    BY <1>0, <2>1 DEF Ended, TcpSteps
<1>15. CASE WaitReaders
  <2>1. UNCHANGED <<active, todo, apc, upc, cpc>> /\ shut = "wait" /\ shut' = (IF count = 0 THEN "next" ELSE "asleep")
    BY <1>15 DEF WaitReaders
  <2>2. count = 0 => Counted = {}
    BY Constants, FS_Subset, FS_EmptySet DEF Typed, Shape, Counted
  <2>3. Counted' = Counted
    BY <2>1 DEF Counted
  <2> QED
    BY <1>0, <2>1, <2>2, <2>3 DEF Ended, TcpSteps
<1>16. CASE JoinUdp
  <2>1. UNCHANGED <<active, todo, apc, upc, cpc>> /\ shut = "joinUdp" /\ upc = "ended" /\ shut' = "next"
    BY <1>16 DEF JoinUdp
  <2>2. Counted' = Counted
    BY <2>1 DEF Counted
  <2> QED
    BY <1>0, <2>1, <2>2 DEF Ended, TcpSteps
<1>17. CASE ShutdownReturns
  <2>1. UNCHANGED <<active, todo, apc, upc, cpc>> /\ shut = "next" /\ todo = {} /\ shut' = "done"
    BY <1>17 DEF ShutdownReturns
  <2>2. Counted' = Counted
    BY <2>1 DEF Counted
  <2> QED
    BY <1>0, <2>1, <2>2 DEF Ended, TcpSteps
<1>18. CASE Quiet
  BY <1>3, <1>4, <1>5, <1>7, <1>8, <1>9, <1>10, <1>11, <1>12, <1>13, <1>14, <1>15, <1>16, <1>17, <1>18
     DEF Next, ShutdownStep, AcceptStep, SendStep, ReaderStep
<1> QED
  BY <1>3, <1>4, <1>5, <1>13, <1>18, QuietSteps

\* When shutdownAll has returned, every descriptor is closed, the accept
\* thread and the UDP thread have ended and no reader is in its loop, in a
\* callback or in the table: for any number of connections, also those
\* accepted while shutdown was under way.  It takes callers that do not come
\* back before their old entry has gone; one that does leaks a descriptor.
THEOREM NothingLeftBehindHolds == ASSUME ~Replaces PROVE Spec => []NothingLeftBehind
<1>1. Init => Owned /\ Locked /\ Ended
  <2> SUFFICES ASSUME Init PROVE Owned /\ Locked /\ Ended
    OBVIOUS
  <2>1. Owned
    BY DEF Init, TcpInit, Owned
  <2>2. Locked
    BY DEF Init, Locked
  <2>3. Counted = {}
    BY DEF Init, Counted, Reading
  <2>4. Ended
    BY <2>3 DEF Init, TcpInit, UdpInit, Ended, TcpSteps
  <2> QED
    BY <2>1, <2>2, <2>4
<1>2. Typed /\ Table /\ Owned /\ Locked /\ Ended => NothingLeftBehind
  <2> SUFFICES ASSUME Typed, Owned, Ended, shut = "done"
               PROVE  /\ \A f \in Fds : fdt[f] = NoConn
                      /\ apc = "ended" /\ upc = "ended"
                      /\ \A k \in Conns : cpc[k] \in {"none", "notify", "gone"}
    BY DEF NothingLeftBehind
  <2>1. active = {}
    BY DEF Ended
  <2>2. apc = "ended" /\ upc = "ended" /\ Counted = {}
    BY <2>1 DEF Ended, TcpSteps
  <2>3. \A k \in Conns : cpc[k] \in {"none", "notify", "gone"}
    BY <2>2 DEF Counted, Reading, Typed, TypeOK
  <2>4. got = NoConn
    BY <2>2 DEF Typed, Shape
  <2>5. \A f \in Fds : fdt[f] = NoConn
    BY <2>3, <2>4 DEF Owned, Reading, Typed, TypeOK
  <2> QED
    BY <2>2, <2>3, <2>5
<1>3. Typed /\ Table /\ Owned /\ [Next]_vars => Owned'
  BY OwnedStep
<1> QED
  BY <1>1, <1>2, <1>3, LockedStep, EndedStep, TableAlways, PTL DEF Spec
=============================================================================
