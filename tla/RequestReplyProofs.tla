------------------------- MODULE RequestReplyProofs -------------------------
(***************************************************************************)
(* Request/reply for any number of calls, receive threads, retransmissions *)
(* and duplications.                                                       *)
(***************************************************************************)
EXTENDS RequestReply, FiniteSetTheorems, TLAPS

-----------------------------------------------------------------------------
(* Types.                                                                  *)

RequestPacket == [type : {"REQUEST"}, corr : Corrs, seq : 1..MaxRequests, body : Calls]
ReplyPacket == [type : {"REPLY"}, corr : Corrs, seq : 1..MaxReplies, body : Calls]
AckPacket == [type : {"ACK"}, corr : {NoId}, seq : 1..MaxReplies, body : {NoCall}]
InHandler == [at : {"handler"}, corr : Corrs, seq : {NoId}, body : Calls]
InRegister == [at : {"register"}, corr : Corrs, seq : 1..MaxReplies, body : Calls]

\* What TypeOK leaves open: one id is handed out for every call that has
\* started, and each kind of packet and of thread has its own fields.
Started == {c \in Calls : call[c] # "new"}
Shape ==
    /\ Cardinality(Started) = corrCounter - 1
    /\ net \subseteq RequestPacket \union ReplyPacket \union AckPacket
    /\ pendingReply \subseteq ReplyPacket
    /\ rx \in [RxThreads -> {Idle} \union InHandler \union InRegister]
    /\ \A c \in Calls : call[c] # "new" => lastCorrId[via[c]] \in Corrs /\ corrId[c] \in Corrs

Results == {"none", "waiting"} \union Failures \union Calls
Typed == TypeOK /\ Shape

LEMMA Constants ==
    /\ Cardinality(Calls) \in Nat
    /\ MaxRetries \in Nat /\ MaxRequests \in Nat /\ MaxReplies \in Nat /\ MaxDup \in Nat
    /\ NoId \notin Corrs /\ NoCall \notin Calls
    /\ Corrs \subseteq Nat /\ IsFiniteSet(Corrs)
<1>1. Cardinality(Calls) \in Nat
  BY CallsAssumption, FS_CardinalityType
<1> QED
  BY <1>1, RequestAssumption, FS_Interval DEF Corrs, NoId

LEMMA PacketTypes ==
    /\ RequestPacket \subseteq Packet /\ ReplyPacket \subseteq Packet /\ AckPacket \subseteq Packet
    /\ Idle \in RxState /\ InHandler \subseteq RxState /\ InRegister \subseteq RxState
<1>1. RequestPacket \subseteq Packet
  BY Constants DEF RequestPacket, Packet
<1>2. ReplyPacket \subseteq Packet
  BY Constants DEF ReplyPacket, Packet
<1>3. AckPacket \subseteq Packet
  BY Constants DEF AckPacket, Packet
<1>4. Idle \in RxState /\ InHandler \subseteq RxState /\ InRegister \subseteq RxState
  BY Constants DEF Idle, RxState, InHandler, InRegister, NoId
<1> QED
  BY <1>1, <1>2, <1>3, <1>4

LEMMA NewPackets ==
    /\ \A i \in Corrs, n \in 1..MaxRequests, c \in Calls : Request(i, n, c) \in RequestPacket
    /\ \A i \in Corrs, n \in 1..MaxReplies, c \in Calls : Reply(i, n, c) \in ReplyPacket
    /\ \A n \in 1..MaxReplies : Ack(n) \in AckPacket
  BY DEF Request, RequestPacket, Reply, ReplyPacket, Ack, AckPacket

LEMMA PacketFields ==
    /\ \A m \in RequestPacket : m.type = "REQUEST" /\ m.corr \in Corrs /\ m.seq \in 1..MaxRequests /\ m.body \in Calls
    /\ \A m \in ReplyPacket : m.type = "REPLY" /\ m.corr \in Corrs /\ m.seq \in 1..MaxReplies /\ m.body \in Calls
    /\ \A m \in AckPacket : m.type = "ACK"
  BY DEF RequestPacket, ReplyPacket, AckPacket

LEMMA ThreadFields ==
    /\ Idle.at = "idle"
    /\ \A r \in InHandler : r.at = "handler" /\ r.corr \in Corrs /\ r.body \in Calls
    /\ \A r \in InRegister : r.at = "register" /\ r.corr \in Corrs /\ r.seq \in 1..MaxReplies /\ r.body \in Calls
  BY DEF Idle, InHandler, InRegister

\* Futures keep their type when promises are completed or destroyed.
LEMMA FutureTypes ==
    ASSUME Typed, NEW ids
    PROVE  /\ Broken(ids) \in [Calls -> Results]
           /\ \A how \in Results : Completed(ids, how) \in [Calls -> Results]
  BY DEF Typed, TypeOK, Broken, Completed, Results, Failures

LEMMA ReceiveTypes ==
    ASSUME Typed, NEW m \in net, NEW out, Receive(m, out)
    PROVE  net' \subseteq net \union out /\ dups' \in 0..MaxDup
  BY Constants DEF Receive, Typed, TypeOK

\* The next id is one of Corrs as long as some call has not started.
LEMMA NextCorr ==
    ASSUME Typed, NEW c \in Calls, call[c] = "new"
    PROVE  /\ corrCounter \in Corrs
           /\ IsFiniteSet(Started) /\ Cardinality(Started \union {c}) = Cardinality(Started) + 1
<1>1. IsFiniteSet(Calls) /\ Started \in SUBSET Calls /\ c \notin Started
  BY CallsAssumption DEF Started
<1>2. IsFiniteSet(Started) /\ Cardinality(Started) \in Nat
  BY <1>1, FS_Subset, FS_CardinalityType
<1>3. IsFiniteSet(Started \union {c}) /\ Cardinality(Started \union {c}) = Cardinality(Started) + 1
  BY <1>1, <1>2, FS_AddElement
<1>4. Cardinality(Started \union {c}) <= Cardinality(Calls)
  <2>1. Started \union {c} \in SUBSET Calls
    BY <1>1
  <2> QED
    BY <1>1, <2>1, FS_Subset
<1> QED
  BY <1>2, <1>3, <1>4, Constants DEF Typed, TypeOK, Shape, Corrs

LEMMA StartedSame ==
    ASSUME Typed, NEW c \in Calls, call[c] # "new", NEW v, v # "new", call' = [call EXCEPT ![c] = v]
    PROVE  Started' = Started
  BY DEF Started, Typed, TypeOK

LEMMA TypeStep == Typed /\ [Next]_vars => Typed'
<1> SUFFICES ASSUME Typed, [Next]_vars PROVE Typed'
  OBVIOUS
<1> USE Constants DEF requester, replier, history
<1>0. TypeOK /\ Shape
  BY DEF Typed
<1>1. ASSUME NEW c \in Calls, NumberRequest(c) PROVE Typed'
  <2>1. corrCounter \in Corrs /\ corrCounter + 1 \in 1..(Cardinality(Calls) + 1)
    <3>1. corrCounter \in Corrs
      BY <1>1, NextCorr DEF NumberRequest
    <3> QED
      BY <3>1 DEF Corrs
  <2>2. /\ lastCorrId' = [lastCorrId EXCEPT ![via[c]] = corrCounter] /\ via[c] \in Requesters
        /\ corrId' = [corrId EXCEPT ![c] = corrCounter]
        /\ call' = [call EXCEPT ![c] = "numbered"] /\ via' = via
    BY <1>0, <1>1 DEF NumberRequest, TypeOK
  <2>3. /\ lastCorrId' \in [Requesters -> Corrs \union {NoId}]
        /\ corrId' \in [Calls -> Corrs \union {NoId}]
    BY <1>0, <2>1, <2>2 DEF TypeOK
  <2>8. crossed' \subseteq Calls
    BY <1>0, <1>1 DEF NumberRequest, TypeOK
  <2>4. TypeOK'
    BY <1>0, <1>1, <2>1, <2>3, <2>8 DEF NumberRequest, TypeOK
  <2>5. Started' = Started \union {c}
    BY <1>0, <2>2 DEF Started, TypeOK
  <2>6. Cardinality(Started') = corrCounter' - 1
    BY <1>0, <1>1, <2>1, <2>5, NextCorr DEF Shape, NumberRequest
  <2>7. \A d \in Calls : call'[d] # "new" => lastCorrId'[via'[d]] \in Corrs /\ corrId'[d] \in Corrs
    <3> SUFFICES ASSUME NEW d \in Calls, call'[d] # "new"
                 PROVE  lastCorrId'[via[d]] \in Corrs /\ corrId'[d] \in Corrs
      BY <2>2
    <3>1. d = c \/ call[d] # "new"
      BY <1>0, <2>2 DEF TypeOK
    <3>2. corrId'[d] \in Corrs
      BY <1>0, <2>1, <2>2, <3>1 DEF TypeOK, Shape
    <3>3. CASE via[d] = via[c]
      BY <1>0, <2>1, <2>2, <3>2, <3>3 DEF TypeOK
    <3>4. CASE via[d] # via[c]
      BY <1>0, <2>2, <3>1, <3>2, <3>4 DEF TypeOK, Shape
    <3> QED
      BY <3>3, <3>4
  <2> QED
    BY <1>0, <1>1, <2>4, <2>6, <2>7 DEF Typed, Shape, NumberRequest
<1>2. ASSUME NEW c \in Calls, NEW i \in Corrs, RegisterRequest(c, i) PROVE Typed'
  <2>2. /\ result' = [Broken({i}) EXCEPT ![c] = "waiting"]
        /\ pendingRequests' = [pendingRequests EXCEPT ![i] = c]
        /\ corrId' = [corrId EXCEPT ![c] = i]
        /\ call' = [call EXCEPT ![c] = "registered"] /\ call[c] = "numbered"
    BY <1>2 DEF RegisterRequest
  <2>3. result' \in [Calls -> Results]
    BY <2>2, FutureTypes DEF Results
  <2>4. Started' = Started
    BY <2>2, StartedSame
  <2>7. /\ pendingRequests' \in [Corrs -> Calls \union {NoCall}]
        /\ corrId' \in [Calls -> Corrs \union {NoId}]
        /\ call' \in [Calls -> {"new", "numbered", "registered", "waiting", "async", "cancel", "done"}]
    BY <1>0, <2>2 DEF TypeOK
  <2>8. UNCHANGED <<via, corrCounter, lastCorrId, running, known, requests, seenReply, replier, net, dups, history>>
    BY <1>2 DEF RegisterRequest
  <2>5. TypeOK'
    BY <1>0, <2>3, <2>7, <2>8 DEF TypeOK, Results
  <2>6. Shape'
    BY <1>0, <2>2, <2>4, <2>8 DEF TypeOK, Shape
  <2> QED
    BY <2>5, <2>6 DEF Typed
<1>3. ASSUME NEW c \in Calls, NEW async \in BOOLEAN, NEW active \in CanDiscover, DispatchRequest(c, async, active)
      PROVE  Typed'
  <2> DEFINE i == corrId[c]
  <2>1. i \in Corrs
    BY <1>0, <1>3 DEF DispatchRequest, Shape
  <2>2. /\ \/ /\ requests < MaxRequests /\ requests' = requests + 1
              /\ net' = net \union {Request(i, requests + 1, c)}
              /\ UNCHANGED <<result, pendingRequests>>
           \/ UNCHANGED <<requests, net, result, pendingRequests>>
           \/ /\ result' = Completed({i}, "no provider")
              /\ pendingRequests' = [pendingRequests EXCEPT ![i] = NoCall]
              /\ UNCHANGED <<requests, net>>
        /\ call' = [call EXCEPT ![c] = IF async THEN "async" ELSE "waiting"]
        /\ call[c] = "registered"
        /\ UNCHANGED <<via, corrCounter, lastCorrId, corrId, running, known, seenReply, replier, dups, history>>
    BY <1>3 DEF DispatchRequest
  <2> HIDE DEF i
  <2>3. result' \in [Calls -> Results]
    <3>1. "no provider" \in Results /\ result \in [Calls -> Results]
      BY <1>0 DEF Results, Failures, TypeOK
    <3>2. Completed({i}, "no provider") \in [Calls -> Results]
      BY <3>1, FutureTypes
    <3> QED
      BY <2>2, <3>1, <3>2
  <2>4. requests' \in 0..MaxRequests /\ net' \subseteq net \union RequestPacket
    <3>1. requests \in 0..MaxRequests
      BY <1>0 DEF TypeOK
    <3>2. requests < MaxRequests => requests + 1 \in 1..MaxRequests /\ requests + 1 \in 0..MaxRequests
      BY <3>1
    <3> QED
      BY <2>1, <2>2, <3>1, <3>2, NewPackets
  <2>5. Started' = Started
    BY <2>2, StartedSame
  <2>6. pendingRequests' \in [Corrs -> Calls \union {NoCall}]
    BY <1>0, <2>2 DEF TypeOK
  <2>7. net' \subseteq RequestPacket \union ReplyPacket \union AckPacket
    BY <1>0, <2>4 DEF Shape
  <2>8. TypeOK'
    BY <1>0, <2>2, <2>3, <2>4, <2>6, <2>7, PacketTypes DEF TypeOK, Results
  <2>9. Shape'
    BY <1>0, <2>2, <2>5, <2>7 DEF Shape, TypeOK
  <2> QED
    BY <2>8, <2>9 DEF Typed
<1>4. ASSUME NEW c \in Calls, RequestReturns(c) PROVE Typed'
  <2>1. Started' = Started
    BY <1>4, StartedSame DEF RequestReturns
  <2> QED
    BY <1>0, <1>4, <2>1 DEF RequestReturns, TypeOK, Shape, Typed
<1>5. ASSUME NEW c \in Calls, RequestTimesOut(c) PROVE Typed'
  <2>1. Started' = Started
    BY <1>5, StartedSame DEF RequestTimesOut
  <2> QED
    BY <1>0, <1>5, <2>1 DEF RequestTimesOut, TypeOK, Shape, Typed
<1>6. ASSUME NEW c \in Calls, CancelRequest(c) PROVE Typed'
  <2>1. Started' = Started
    BY <1>6, StartedSame DEF CancelRequest
  <2>2. result' \in [Calls -> Results]
    BY <1>6, FutureTypes DEF CancelRequest
  <2>3. pendingRequests' \in [Corrs -> Calls \union {NoCall}]
    BY <1>0, <1>6 DEF CancelRequest, TypeOK
  <2>4. /\ call' = [call EXCEPT ![c] = "done"] /\ call[c] = "cancel"
        /\ UNCHANGED <<via, corrCounter, lastCorrId, corrId, running, known, requests, seenReply,
                       replier, net, dups, history>>
    BY <1>6 DEF CancelRequest
  <2>5. TypeOK'
    BY <1>0, <2>2, <2>3, <2>4 DEF TypeOK, Results
  <2>6. Shape'
    BY <1>0, <2>1, <2>4 DEF TypeOK, Shape
  <2> QED
    BY <2>5, <2>6 DEF Typed
<1>7. ASSUME NEW late \in SUBSET Corrs, NEW again \in SUBSET Corrs, PeriodicTask(late, again) PROVE Typed'
  <2>1. result' \in [Calls -> Results]
    BY <1>7, FutureTypes DEF PeriodicTask, Results, Failures
  <2>2. pendingRequests' \in [Corrs -> Calls \union {NoCall}]
    BY <1>0, <1>7 DEF PeriodicTask, TypeOK
  <2>3. requests' \in 0..MaxRequests /\ net' \subseteq net \union RequestPacket
    <3>1. Cardinality(again) \in Nat /\ requests \in 0..MaxRequests
      BY <1>0, FS_Subset, FS_CardinalityType DEF TypeOK
    <3>2. CASE UNCHANGED <<requests, net>>
      BY <3>1, <3>2
    <3>3. ASSUME NEW order \in [again -> 1..Cardinality(again)],
                 requests + Cardinality(again) <= MaxRequests,
                 requests' = requests + Cardinality(again),
                 net' = net \union {Request(i, requests + order[i], pendingRequests[i]) : i \in again}
          PROVE  requests' \in 0..MaxRequests /\ net' \subseteq net \union RequestPacket
      <4>1. \A i \in again : requests + order[i] \in 1..MaxRequests
        BY <3>1, <3>3
      <4>2. \A i \in again : pendingRequests[i] \in Calls
        BY <1>0, <1>7 DEF PeriodicTask, TypeOK
      <4>3. requests' \in 0..MaxRequests
        BY <3>1, <3>3
      <4> QED
        BY <3>3, <4>1, <4>2, <4>3, NewPackets
    <3> QED
      BY <1>7, <3>2, <3>3 DEF PeriodicTask
  <2>4. net' \subseteq RequestPacket \union ReplyPacket \union AckPacket
    BY <1>0, <2>3 DEF Shape
  <2>5. UNCHANGED <<via, corrCounter, lastCorrId, call, corrId, running, known, seenReply, replier, dups, history>>
    BY <1>7 DEF PeriodicTask
  <2>6. TypeOK'
    BY <1>0, <2>1, <2>2, <2>3, <2>4, <2>5, PacketTypes DEF TypeOK, Results
  <2>7. Shape'
    BY <1>0, <2>4, <2>5 DEF Shape, Started
  <2> QED
    BY <2>6, <2>7 DEF Typed
<1>8. CASE Stop
  <2>1. result' \in [Calls -> Results]
    BY <1>8, FutureTypes DEF Stop, Results, Failures
  <2>2. pendingRequests' \in [Corrs -> Calls \union {NoCall}] /\ running' \in BOOLEAN
    BY <1>0, <1>8 DEF Stop, TypeOK
  <2> QED
    BY <1>0, <1>8, <2>1, <2>2 DEF Stop, TypeOK, Shape, Started, Typed, Results
<1>9. CASE PeerChange
  BY <1>0, <1>9 DEF PeerChange, TypeOK, Shape, Started, Typed
<1>10. CASE ChangeReplier
  BY <1>0, <1>10 DEF ChangeReplier, TypeOK, Shape, Started, Typed
<1>11. ASSUME NEW m \in net, ReceiveReply(m) PROVE Typed'
  <2>1. m \in ReplyPacket
    BY <1>0, <1>11, PacketFields DEF ReceiveReply, Shape
  <2>2. m.corr \in Corrs /\ m.seq \in 1..MaxReplies /\ m.body \in Results /\ AckFor(m) \subseteq AckPacket
    BY <2>1, PacketFields, NewPackets DEF Results, AckFor
  <2>3. net' \subseteq net \union AckPacket /\ dups' \in 0..MaxDup
    BY <1>11, <2>2, ReceiveTypes DEF ReceiveReply
  <2>4. result' \in [Calls -> Results]
    BY <1>0, <1>11, <2>2, FutureTypes DEF ReceiveReply, TypeOK, Results
  <2>5. pendingRequests' \in [Corrs -> Calls \union {NoCall}] /\ seenReply' \subseteq 1..MaxReplies
    BY <1>0, <1>11, <2>2 DEF ReceiveReply, TypeOK, MatchId
  <2>6. net' \subseteq RequestPacket \union ReplyPacket \union AckPacket
    BY <1>0, <2>3 DEF Shape
  <2>7. UNCHANGED <<via, corrCounter, lastCorrId, call, corrId, running, known, requests, replier, history>>
    BY <1>11 DEF ReceiveReply
  <2>8. TypeOK'
    BY <1>0, <2>3, <2>4, <2>5, <2>6, <2>7, PacketTypes DEF TypeOK, Results
  <2>9. Shape'
    BY <1>0, <2>6, <2>7 DEF Shape, Started
  <2> QED
    BY <2>8, <2>9 DEF Typed
<1>12. ASSUME NEW m \in net, NEW t \in RxThreads, ReceiveRequest(t, m) PROVE Typed'
  <2>1. m \in RequestPacket
    BY <1>0, <1>12, PacketFields DEF ReceiveRequest, Shape
  <2>2. m.corr \in Corrs /\ m.seq \in 1..MaxRequests /\ m.body \in Calls
    BY <2>1, PacketFields
  <2>3. UNCHANGED <<requester, via, requests, seenReply, service, replyCache, pendingReply, replyRetry, history>>
    BY <1>12 DEF ReceiveRequest
  <2>4. seenRequest' \subseteq 1..MaxRequests
    BY <1>0, <1>12, <2>2 DEF ReceiveRequest, TypeOK
  <2>5. /\ net' \subseteq net \union ReplyPacket /\ dups' \in 0..MaxDup
        /\ replies' \in 0..MaxReplies
        /\ rx' \in [RxThreads -> {Idle} \union InHandler \union InRegister]
    <3>0. replies \in 0..MaxReplies /\ rx \in [RxThreads -> {Idle} \union InHandler \union InRegister]
      BY <1>0 DEF TypeOK, Shape
    <3>1. CASE /\ replyCache[m.corr] # NoCall /\ replies < MaxReplies /\ replies' = replies + 1
               /\ Receive(m, {Reply(m.corr, replies + 1, replyCache[m.corr])}) /\ UNCHANGED rx
      <4>0. replyCache[m.corr] \in Calls
        BY <1>0, <2>2, <3>1 DEF TypeOK
      <4>1. replies + 1 \in 1..MaxReplies
        BY <3>0, <3>1
      <4>2. Reply(m.corr, replies + 1, replyCache[m.corr]) \in ReplyPacket
        BY <2>2, <4>0, <4>1, NewPackets
      <4>3. replies' \in 0..MaxReplies
        BY <3>0, <3>1
      <4> QED
        BY <3>0, <3>1, <4>2, <4>3, ReceiveTypes
    <3>2. CASE /\ rx' = [rx EXCEPT ![t] = [at |-> "handler", corr |-> m.corr, seq |-> NoId, body |-> m.body]]
               /\ Receive(m, {}) /\ UNCHANGED replies
      <4>1. [at |-> "handler", corr |-> m.corr, seq |-> NoId, body |-> m.body] \in InHandler
        BY <2>2 DEF InHandler
      <4> QED
        BY <3>0, <3>2, <4>1, ReceiveTypes
    <3>3. CASE Receive(m, {}) /\ UNCHANGED <<rx, replies>>
      BY <3>0, <3>3, ReceiveTypes
    <3> QED
      BY <1>12, <3>1, <3>2, <3>3 DEF ReceiveRequest
  <2>6. net' \subseteq RequestPacket \union ReplyPacket \union AckPacket
    BY <1>0, <2>5 DEF Shape
  <2>7. net' \subseteq Packet /\ rx' \in [RxThreads -> RxState]
    BY <2>5, <2>6, PacketTypes
  <2>8. TypeOK'
    BY <1>0, <2>3, <2>4, <2>5, <2>7 DEF TypeOK
  <2>9. Shape'
    BY <1>0, <2>3, <2>5, <2>6 DEF Shape, Started
  <2> QED
    BY <2>8, <2>9 DEF Typed
<1>13. ASSUME NEW m \in net, NEW t \in RxThreads, ReceiveReplyAck(t, m) PROVE Typed'
  <2>1. net' \subseteq net /\ dups' \in 0..MaxDup
    BY <1>13, ReceiveTypes DEF ReceiveReplyAck
  <2> QED
    BY <1>0, <1>13, <2>1 DEF ReceiveReplyAck, TypeOK, Shape, Started, Typed
<1>14. ASSUME NEW t \in RxThreads, HandlerReturns(t) PROVE Typed'
  <2>1. rx[t] \in InHandler
    BY <1>0, <1>14, ThreadFields DEF HandlerReturns, Shape
  <2>2. rx[t].corr \in Corrs /\ rx[t].body \in Calls
    BY <2>1, ThreadFields
  <2>3. replies + 1 \in 1..MaxReplies /\ replies' = replies + 1 /\ replies' \in 0..MaxReplies
    BY <1>0, <1>14 DEF HandlerReturns, TypeOK
  <2>4. net' \subseteq net \union ReplyPacket
    BY <1>14, <2>2, <2>3, NewPackets DEF HandlerReturns
  <2>5. [at |-> "register", corr |-> rx[t].corr, seq |-> replies + 1, body |-> rx[t].body] \in InRegister
    BY <2>2, <2>3 DEF InRegister
  <2>6. rx' \in [RxThreads -> {Idle} \union InHandler \union InRegister]
    BY <1>0, <1>14, <2>5 DEF HandlerReturns, Shape
  <2>7. /\ replyCache' \in [Corrs -> Calls \union {NoCall}] /\ executed' \in [RxThreads -> [Corrs -> Nat]]
    <3>1. /\ executed \in [RxThreads -> [Corrs -> Nat]] /\ replyCache \in [Corrs -> Calls \union {NoCall}]
          /\ replyCache' = [replyCache EXCEPT ![rx[t].corr] = rx[t].body]
          /\ executed' = [executed EXCEPT ![t] = [executed[t] EXCEPT ![rx[t].corr] = executed[t][rx[t].corr] + 1]]
      BY <1>0, <1>14 DEF HandlerReturns, TypeOK, Cached
    <3>2. executed[t][rx[t].corr] \in Nat
      BY <2>2, <3>1
    <3>3. [executed[t] EXCEPT ![rx[t].corr] = executed[t][rx[t].corr] + 1] \in [Corrs -> Nat]
      BY <2>2, <3>1, <3>2
    <3> QED
      BY <2>2, <3>1, <3>3
  <2>8. net' \subseteq RequestPacket \union ReplyPacket \union AckPacket
    BY <1>0, <2>4 DEF Shape
  <2>9. net' \subseteq Packet /\ rx' \in [RxThreads -> RxState]
    BY <2>6, <2>8, PacketTypes
  <2>10. UNCHANGED <<requester, via, requests, seenReply, service, pendingReply, replyRetry, seenRequest, dups, crossed, expired>>
    BY <1>14 DEF HandlerReturns
  <2>11. TypeOK'
    BY <1>0, <2>3, <2>7, <2>9, <2>10 DEF TypeOK
  <2>12. Shape'
    BY <1>0, <2>6, <2>8, <2>10 DEF Shape, Started
  <2> QED
    BY <2>11, <2>12 DEF Typed
<1>15. ASSUME NEW t \in RxThreads, RegisterReply(t) PROVE Typed'
  <2>1. rx[t] \in InRegister
    BY <1>0, <1>15, ThreadFields DEF RegisterReply, Shape
  <2>2. Reply(rx[t].corr, rx[t].seq, rx[t].body) \in ReplyPacket
    BY <2>1, ThreadFields, NewPackets
  <2>3. pendingReply' \subseteq ReplyPacket /\ rx' \in [RxThreads -> {Idle} \union InHandler \union InRegister]
    BY <1>0, <1>15, <2>2 DEF RegisterReply, Shape
  <2>4. pendingReply' \subseteq Packet /\ rx' \in [RxThreads -> RxState]
    BY <2>3, PacketTypes
  <2>5. UNCHANGED <<requester, via, requests, seenReply, service, replyCache, replies, replyRetry, seenRequest, net, dups, history>>
    BY <1>15 DEF RegisterReply
  <2>6. TypeOK'
    BY <1>0, <2>4, <2>5 DEF TypeOK
  <2>7. Shape'
    BY <1>0, <2>3, <2>5 DEF Shape, Started
  <2> QED
    BY <2>6, <2>7 DEF Typed
<1>16. ASSUME NEW r \in pendingReply, ReplyTimeout(r) PROVE Typed'
  <2>1. r \in ReplyPacket /\ r.seq \in 1..MaxReplies
    BY <1>0, PacketFields DEF Shape
  <2>2. pendingReply' \subseteq pendingReply /\ net' \subseteq net \union {r}
    BY <1>16 DEF ReplyTimeout, GivenUp
  <2>3. replyRetry' \in [1..MaxReplies -> 0..MaxRetries]
    <3>1. replyRetry \in [1..MaxReplies -> 0..MaxRetries] /\ replyRetry[r.seq] \in 0..MaxRetries
      BY <1>0, <2>1 DEF TypeOK
    <3>2. ~(replyRetry[r.seq] >= MaxRetries) => replyRetry[r.seq] + 1 \in 0..MaxRetries
      BY <3>1
    <3>3. \/ replyRetry' = replyRetry
          \/ /\ ~(replyRetry[r.seq] >= MaxRetries)
             /\ replyRetry' = [replyRetry EXCEPT ![r.seq] = replyRetry[r.seq] + 1]
      BY <1>16 DEF ReplyTimeout, Exhausted
    <3> QED
      BY <3>1, <3>2, <3>3
  <2>4. net' \subseteq RequestPacket \union ReplyPacket \union AckPacket
    BY <1>0, <2>1, <2>2 DEF Shape
  <2>5. UNCHANGED <<requester, via, requests, seenReply, service, rx, replyCache, replies, seenRequest, dups, history>>
    BY <1>16 DEF ReplyTimeout
  <2>6. TypeOK'
    BY <1>0, <2>2, <2>3, <2>4, <2>5, PacketTypes DEF TypeOK
  <2>7. Shape'
    BY <1>0, <2>2, <2>4, <2>5 DEF Shape, Started
  <2> QED
    BY <2>6, <2>7 DEF Typed
<1>17. ASSUME NEW i \in Corrs, ExpireReplyCache(i) PROVE Typed'
  BY <1>0, <1>17 DEF ExpireReplyCache, TypeOK, Shape, Started, Typed
<1>18. CASE UNCHANGED vars
  BY <1>0, <1>18 DEF vars, TypeOK, Shape, Started, Typed
<1> QED
  BY <1>1, <1>2, <1>3, <1>4, <1>5, <1>6, <1>7, <1>8, <1>9, <1>10, <1>11, <1>12, <1>13, <1>14,
     <1>15, <1>16, <1>17, <1>18 DEF Next

LEMMA TypedAlways == Spec => []Typed
<1>1. Init => Typed
  <2> SUFFICES ASSUME Init PROVE Typed
    OBVIOUS
  <2>0. Started = {}
    BY DEF Init, Started
  <2>1. Cardinality(Started) = corrCounter - 1
    BY <2>0, FS_EmptySet DEF Init
  <2>2. rx \in [RxThreads -> RxState] /\ rx \in [RxThreads -> {Idle} \union InHandler \union InRegister]
    BY PacketTypes DEF Init
  <2>5. /\ corrCounter \in 1..(Cardinality(Calls) + 1) /\ requests \in 0..MaxRequests
        /\ replies \in 0..MaxReplies /\ dups \in 0..MaxDup /\ 0 \in 0..MaxRetries
    BY Constants DEF Init
  <2>6. /\ running \in BOOLEAN /\ known \in BOOLEAN /\ service \in BOOLEAN
    BY DEF Init
  <2>7. /\ replyRetry \in [1..MaxReplies -> 0..MaxRetries]
        /\ executed \in [RxThreads -> [Corrs -> Nat]] /\ expired \in [Corrs -> Nat]
    BY <2>5 DEF Init
  <2>3. TypeOK
    BY <2>2, <2>5, <2>6, <2>7 DEF Init, TypeOK
  <2>4. Shape
    BY <2>1, <2>2 DEF Init, Shape
  <2> QED
    BY <2>3, <2>4 DEF Typed
<1> QED
  BY <1>1, TypeStep, PTL DEF Spec

\* Type correctness: every variable of the model keeps its type.  The counter
\* of correlation ids never passes the number of calls, and no REQUEST or REPLY
\* carries the id 0.
THEOREM TypeCorrect == Spec => []TypeOK
<1>1. Typed => TypeOK
  BY DEF Typed
<1> QED
  BY <1>1, TypedAlways, PTL

-----------------------------------------------------------------------------
(* Correlation ids and the lastCorrId that calls on one Requester share.    *)

\* The call has put its request into pendingRequests_.
Registered(c) == call[c] \notin {"new", "numbered"}

\* The call that body stands for made a request with this id.
Belongs(body, corr) == body \in Calls /\ corrId[body] = corr /\ Registered(body)

\* An id is drawn by one call, and lastCorrId holds the newest id of its
\* Requester.  Two calls meet at an id, or a call meets the id of another one in
\* lastCorrId, only if they overlapped there.
OneIdEach ==
    /\ \A c \in Calls : corrId[c] < corrCounter
    /\ \A q \in Requesters : lastCorrId[q] < corrCounter
    /\ \A p, q \in Requesters : lastCorrId[p] = lastCorrId[q] /\ lastCorrId[p] # NoId => p = q
    /\ \A c, d \in Started : c # d /\ corrId[c] = corrId[d] => {c, d} \subseteq crossed
    /\ \A c, d \in Started :
          c # d /\ InCall(c) /\ corrId[d] = lastCorrId[via[c]] => {c, d} \subseteq crossed
    /\ \A c, d \in Calls :
          c # d /\ InCall(c) /\ InCall(d) /\ via[c] = via[d] => {c, d} \subseteq crossed

\* Everything that carries an id carries the payload, or the answer, of the
\* call the id was handed out to: promises, packets, handlers and the cache.
Carried ==
    /\ \A i \in Corrs : pendingRequests[i] # NoCall => Belongs(pendingRequests[i], i)
    /\ \A m \in net : m.type # "ACK" => Belongs(m.body, m.corr)
    /\ \A r \in pendingReply : Belongs(r.body, r.corr)
    /\ \A t \in RxThreads : rx[t] # Idle => Belongs(rx[t].body, rx[t].corr)
    /\ \A i \in Corrs : replyCache[i] # NoCall => Belongs(replyCache[i], i)

Correlated == OneIdEach /\ Carried /\ OwnAnswer /\ NoForeignCancel

\* Only the two first steps of a call touch ids; a call never goes back.
LEMMA IdSteps ==
    ASSUME Typed, [Next]_vars
    PROVE  \/ \E c \in Calls : NumberRequest(c) \/ \E i \in Corrs : RegisterRequest(c, i)
           \/ /\ UNCHANGED <<via, corrCounter, lastCorrId, corrId, crossed>>
              /\ \A c \in Calls : \/ call'[c] = call[c]
                                  \/ Registered(c) /\ Registered(c)' /\ InCall(c)
<1> USE DEF requester, replier, history
<1>0. call \in [Calls -> {"new", "numbered", "registered", "waiting", "async", "cancel", "done"}]
  BY DEF Typed, TypeOK
<1>1. ASSUME NEW c \in Calls, NEW v \in {"waiting", "async", "cancel", "done"},
             call[c] \in {"registered", "waiting", "cancel"}, call' = [call EXCEPT ![c] = v]
      PROVE  \A d \in Calls : \/ call'[d] = call[d]
                              \/ Registered(d) /\ Registered(d)' /\ InCall(d)
  BY <1>0, <1>1 DEF Registered, InCall
<1>2. ASSUME NEW c \in Calls, NEW async \in BOOLEAN, NEW active \in CanDiscover,
             DispatchRequest(c, async, active)
      PROVE  UNCHANGED <<via, corrCounter, lastCorrId, corrId, crossed>>
             /\ \A d \in Calls : \/ call'[d] = call[d]
                                 \/ Registered(d) /\ Registered(d)' /\ InCall(d)
  BY <1>1, <1>2 DEF DispatchRequest
<1>3. ASSUME NEW c \in Calls, RequestReturns(c) \/ RequestTimesOut(c) \/ CancelRequest(c)
      PROVE  UNCHANGED <<via, corrCounter, lastCorrId, corrId, crossed>>
             /\ \A d \in Calls : \/ call'[d] = call[d]
                                 \/ Registered(d) /\ Registered(d)' /\ InCall(d)
  BY <1>1, <1>3 DEF RequestReturns, RequestTimesOut, CancelRequest
<1>4. ASSUME \/ \E late, again \in SUBSET Corrs : PeriodicTask(late, again)
             \/ Stop \/ PeerChange \/ ChangeReplier
             \/ \E m \in net : \/ ReceiveReply(m)
                              \/ \E t \in RxThreads : ReceiveRequest(t, m) \/ ReceiveReplyAck(t, m)
             \/ \E t \in RxThreads : HandlerReturns(t) \/ RegisterReply(t)
             \/ \E r \in pendingReply : ReplyTimeout(r)
             \/ \E i \in Corrs : ExpireReplyCache(i)
             \/ UNCHANGED vars
      PROVE  UNCHANGED <<via, corrCounter, lastCorrId, corrId, crossed, call>>
  BY <1>4 DEF PeriodicTask, Stop, PeerChange, ChangeReplier, ReceiveReply, ReceiveRequest,
       ReceiveReplyAck, HandlerReturns, RegisterReply, ReplyTimeout, ExpireReplyCache, vars
<1> QED
  BY <1>2, <1>3, <1>4 DEF Next

\* Belongs in the next state, for a body and an id of this state.
BelongsNext(body, corr) ==
    body \in Calls /\ corrId'[body] = corr /\ call'[body] \notin {"new", "numbered"}

\* What belongs to a call belongs to it for ever.
LEMMA BelongsStays ==
    ASSUME Typed, [Next]_vars, NEW b, NEW i, Belongs(b, i)
    PROVE  BelongsNext(b, i)
<1>1. b \in Calls /\ corrId[b] = i /\ Registered(b)
  BY DEF Belongs
<1>2. ASSUME NEW c \in Calls, NumberRequest(c) \/ \E j \in Corrs : RegisterRequest(c, j)
      PROVE  BelongsNext(b, i)
  <2>1. c # b
    BY <1>1, <1>2 DEF NumberRequest, RegisterRequest, Registered
  <2> QED
    BY <1>1, <1>2, <2>1 DEF NumberRequest, RegisterRequest, Registered, BelongsNext, Typed, TypeOK
<1> QED
  BY <1>1, <1>2, IdSteps DEF BelongsNext, Registered

LEMMA OneIdEachStep == Typed /\ OneIdEach /\ [Next]_vars => OneIdEach'
<1> SUFFICES ASSUME Typed, OneIdEach, [Next]_vars PROVE OneIdEach'
  OBVIOUS
<1>0. /\ corrCounter \in Nat \ {0}
      /\ \A c \in Calls : corrId[c] \in Nat /\ via[c] \in Requesters
      /\ \A q \in Requesters : lastCorrId[q] \in Nat
  <2>1. /\ corrCounter \in 1..(Cardinality(Calls) + 1) /\ via \in [Calls -> Requesters]
        /\ lastCorrId \in [Requesters -> Corrs \union {NoId}]
        /\ corrId \in [Calls -> Corrs \union {NoId}]
    BY DEF Typed, TypeOK
  <2>2. corrCounter \in Nat \ {0}
    BY <2>1, Constants
  <2>3. Corrs \union {NoId} \subseteq Nat
    BY Constants DEF NoId
  <2> QED
    BY <2>1, <2>2, <2>3
<1>1. ASSUME NEW b \in Calls, NumberRequest(b) PROVE OneIdEach'
  <2>1. /\ corrCounter' = corrCounter + 1 /\ via' = via /\ call[b] = "new"
        /\ \A d \in Calls : /\ corrId'[d] = IF d = b THEN corrCounter ELSE corrId[d]
                            /\ call'[d] = IF d = b THEN "numbered" ELSE call[d]
        /\ \A q \in Requesters : lastCorrId'[q] = IF q = via[b] THEN corrCounter ELSE lastCorrId[q]
    BY <1>1 DEF NumberRequest, Typed, TypeOK
  <2>2. /\ crossed \subseteq crossed'
        /\ \A d \in Calls : InCall(d) /\ via[d] = via[b] => {b, d} \subseteq crossed'
    BY <1>1 DEF NumberRequest
  <2>3. \A d \in Calls : d # b => InCall(d)' = InCall(d) /\ (d \in Started' <=> d \in Started)
    BY <2>1 DEF InCall, Started
  <2>4. /\ \A c \in Calls : corrId'[c] < corrCounter'
        /\ \A q \in Requesters : lastCorrId'[q] < corrCounter'
    BY <1>0, <2>1 DEF OneIdEach
  <2>5. \A p, q \in Requesters : lastCorrId'[p] = lastCorrId'[q] /\ lastCorrId'[p] # NoId => p = q
    BY <1>0, <2>1 DEF OneIdEach
  <2>6. ASSUME NEW c \in Started', NEW d \in Started', c # d, corrId'[c] = corrId'[d]
        PROVE  {c, d} \subseteq crossed'
    <3>1. c \in Calls /\ d \in Calls
      BY DEF Started
    <3>2. c # b /\ d # b
      BY <1>0, <2>1, <2>6, <3>1 DEF OneIdEach
    <3> QED
      BY <2>1, <2>2, <2>3, <2>6, <3>1, <3>2 DEF OneIdEach
  <2>7. ASSUME NEW c \in Started', NEW d \in Started', c # d, InCall(c)', corrId'[d] = lastCorrId'[via[c]]
        PROVE  {c, d} \subseteq crossed'
    <3>1. c \in Calls /\ d \in Calls /\ via[c] \in Requesters
      BY <1>0 DEF Started
    <3>2. CASE d = b
      <4>1. c # b /\ via[c] = via[b]
        BY <1>0, <2>1, <2>7, <3>1, <3>2 DEF OneIdEach
      <4> QED
        BY <2>2, <2>3, <2>7, <3>1, <3>2, <4>1
    <3>3. CASE d # b
      <4>1. via[c] # via[b] /\ c # b
        BY <1>0, <2>1, <2>7, <3>1, <3>3 DEF OneIdEach
      <4> QED
        BY <2>1, <2>2, <2>3, <2>7, <3>1, <3>3, <4>1 DEF OneIdEach
    <3> QED
      BY <3>2, <3>3
  <2>8. ASSUME NEW c \in Calls, NEW d \in Calls, c # d, InCall(c)', InCall(d)', via[c] = via[d]
        PROVE  {c, d} \subseteq crossed'
    BY <2>2, <2>3, <2>8 DEF OneIdEach
  <2> QED
    BY <2>1, <2>4, <2>5, <2>6, <2>7, <2>8 DEF OneIdEach
<1>2. ASSUME NEW b \in Calls, NEW i \in Corrs, RegisterRequest(b, i) PROVE OneIdEach'
  <2>1. /\ UNCHANGED <<via, corrCounter, lastCorrId, crossed>> /\ call[b] = "numbered"
        /\ i \in {corrId[b], lastCorrId[via[b]]}
        /\ \A d \in Calls : /\ corrId'[d] = IF d = b THEN i ELSE corrId[d]
                            /\ call'[d] = IF d = b THEN "registered" ELSE call[d]
    BY <1>2 DEF RegisterRequest, Typed, TypeOK, history
  <2>2. /\ \A d \in Calls : InCall(d)' = InCall(d)
        /\ Started' = Started /\ b \in Started /\ InCall(b) /\ Started \subseteq Calls
    BY <2>1 DEF InCall, Started
  <2>3. \A c \in Calls : corrId'[c] < corrCounter'
    BY <1>0, <2>1 DEF OneIdEach
  <2>4. ASSUME NEW c \in Started, c # b, corrId[c] = i PROVE {b, c} \subseteq crossed
    BY <2>1, <2>2, <2>4 DEF OneIdEach
  <2>5. ASSUME NEW c \in Started, NEW d \in Started, c # d, corrId'[c] = corrId'[d]
        PROVE  {c, d} \subseteq crossed
    BY <2>1, <2>2, <2>4, <2>5 DEF OneIdEach
  <2>6. ASSUME NEW c \in Started, NEW d \in Started, c # d, InCall(c), corrId'[d] = lastCorrId[via[c]]
        PROVE  {c, d} \subseteq crossed
    <3>1. CASE d # b \/ i = corrId[b]
      BY <2>1, <2>2, <2>6, <3>1 DEF OneIdEach
    <3>2. CASE d = b /\ i = lastCorrId[via[b]]
      <4>1. lastCorrId[via[b]] = lastCorrId[via[c]] /\ lastCorrId[via[b]] # NoId
        BY <2>1, <2>2, <2>6, <3>2, Constants
      <4>2. via[b] = via[c]
        BY <1>0, <2>2, <4>1 DEF OneIdEach
      <4> QED
        BY <2>2, <2>6, <3>2, <4>2 DEF OneIdEach
    <3> QED
      BY <2>1, <3>1, <3>2
  <2> QED
    BY <2>1, <2>2, <2>3, <2>5, <2>6 DEF OneIdEach
<1>3. CASE /\ UNCHANGED <<via, corrCounter, lastCorrId, corrId, crossed>>
           /\ \A c \in Calls : call'[c] = call[c] \/ (Registered(c) /\ Registered(c)' /\ InCall(c))
  <2>1. Started' = Started /\ Started \subseteq Calls /\ \A c \in Calls : InCall(c)' => InCall(c)
    BY <1>3 DEF Started, InCall, Registered
  <2>2. \A c, d \in Started : c # d /\ InCall(c)' /\ corrId[d] = lastCorrId[via[c]] => {c, d} \subseteq crossed
    BY <2>1 DEF OneIdEach
  <2>3. \A c, d \in Calls : c # d /\ InCall(c)' /\ InCall(d)' /\ via[c] = via[d] => {c, d} \subseteq crossed
    BY <2>1 DEF OneIdEach
  <2> QED
    BY <1>3, <2>1, <2>2, <2>3 DEF OneIdEach
<1> QED
  BY <1>1, <1>2, <1>3, IdSteps

\* A call whose request is dispatched owns its id.
LEMMA DispatchedBelongs ==
    ASSUME Typed, NEW c \in Calls, call[c] = "registered"
    PROVE  Belongs(c, corrId[c])
  BY DEF Belongs, Registered

LEMMA CarriedStep == Typed /\ Carried /\ [Next]_vars => Carried'
<1> SUFFICES ASSUME Typed, Carried, [Next]_vars PROVE Carried'
  OBVIOUS
<1> USE DEF requester, replier
<1>0. \A b, i : Belongs(b, i) => BelongsNext(b, i)
  BY BelongsStays
<1>1. ASSUME \A i \in Corrs : pendingRequests'[i] \in {NoCall, pendingRequests[i]} \/ BelongsNext(pendingRequests'[i], i),
             \A m \in net' : m.type = "ACK" \/ m \in net \/ BelongsNext(m.body, m.corr),
             \A r \in pendingReply' : r \in pendingReply \/ BelongsNext(r.body, r.corr),
             \A t \in RxThreads : rx'[t] \in {Idle, rx[t]} \/ BelongsNext(rx'[t].body, rx'[t].corr),
             \A i \in Corrs : replyCache'[i] \in {NoCall, replyCache[i]} \/ BelongsNext(replyCache'[i], i)
      PROVE  Carried'
  BY <1>0, <1>1 DEF Carried, Belongs, Registered, BelongsNext
<1>2. ASSUME NEW c \in Calls, NEW j \in Corrs, RegisterRequest(c, j) PROVE Carried'
  <2>1. pendingRequests' = [pendingRequests EXCEPT ![j] = c]
    BY <1>2 DEF RegisterRequest
  <2>2. call'[c] = "registered" /\ corrId'[c] = j
    BY <1>2 DEF RegisterRequest, Typed, TypeOK
  <2>3. BelongsNext(c, j)
    BY <2>2 DEF BelongsNext
  <2>4. \A i \in Corrs : pendingRequests'[i] = pendingRequests[i] \/ (i = j /\ pendingRequests'[i] = c)
    BY <2>1 DEF Typed, TypeOK
  <2>5. \A i \in Corrs : pendingRequests'[i] \in {NoCall, pendingRequests[i]} \/ BelongsNext(pendingRequests'[i], i)
    BY <2>3, <2>4
  <2> QED
    BY <1>1, <1>2, <2>5 DEF RegisterRequest
<1>3. ASSUME NEW c \in Calls, NEW async \in BOOLEAN, NEW active \in CanDiscover, DispatchRequest(c, async, active)
      PROVE  Carried'
  <2>1. BelongsNext(c, corrId[c])
    BY <1>0, <1>3, DispatchedBelongs DEF DispatchRequest
  <2>2. \A i \in Corrs : pendingRequests'[i] \in {NoCall, pendingRequests[i]}
    BY <1>3 DEF DispatchRequest, Typed, TypeOK
  <2>3. \A m \in net' : m \in net \/ m = Request(corrId[c], requests', c)
    BY <1>3 DEF DispatchRequest
  <2>4. \A m \in net' : m.type = "ACK" \/ m \in net \/ BelongsNext(m.body, m.corr)
    BY <2>1, <2>3 DEF Request
  <2> QED
    BY <1>1, <1>3, <2>2, <2>4 DEF DispatchRequest
<1>4. ASSUME NEW c \in Calls, NumberRequest(c) \/ RequestReturns(c) \/ RequestTimesOut(c) PROVE Carried'
  BY <1>1, <1>4 DEF NumberRequest, RequestReturns, RequestTimesOut
<1>5. ASSUME NEW c \in Calls, CancelRequest(c) PROVE Carried'
  <2>1. \A i \in Corrs : pendingRequests'[i] \in {NoCall, pendingRequests[i]}
    BY <1>5 DEF CancelRequest, Typed, TypeOK
  <2> QED
    BY <1>1, <1>5, <2>1 DEF CancelRequest
<1>6. ASSUME NEW late \in SUBSET Corrs, NEW again \in SUBSET Corrs, PeriodicTask(late, again) PROVE Carried'
  <2>1. \A i \in Corrs : pendingRequests'[i] \in {NoCall, pendingRequests[i]}
    BY <1>6 DEF PeriodicTask
  <2>2. \A m \in net' : m \in net \/ \E i \in again : \E n : m = Request(i, n, pendingRequests[i])
    BY <1>6 DEF PeriodicTask
  <2>3. \A i \in again : BelongsNext(pendingRequests[i], i)
    BY <1>0, <1>6 DEF PeriodicTask, Carried
  <2>4. \A m \in net' : m.type = "ACK" \/ m \in net \/ BelongsNext(m.body, m.corr)
    BY <2>2, <2>3 DEF Request
  <2> QED
    BY <1>1, <1>6, <2>1, <2>4 DEF PeriodicTask
<1>7. CASE Stop
  BY <1>1, <1>7 DEF Stop
<1>8. CASE PeerChange \/ ChangeReplier
  BY <1>1, <1>8 DEF PeerChange, ChangeReplier
<1>9. ASSUME NEW m \in net, ReceiveReply(m) PROVE Carried'
  <2>1. \A i \in Corrs : pendingRequests'[i] \in {NoCall, pendingRequests[i]}
    BY <1>9 DEF ReceiveReply, Typed, TypeOK
  <2>2. \A k \in net' : k \in net \/ k.type = "ACK"
    BY <1>9 DEF ReceiveReply, Receive, AckFor, Ack
  <2> QED
    BY <1>1, <1>9, <2>1, <2>2 DEF ReceiveReply
<1>10. ASSUME NEW m \in net, NEW t \in RxThreads, ReceiveRequest(t, m) PROVE Carried'
  <2>1. BelongsNext(m.body, m.corr) /\ m.corr \in Corrs
    <3>1. m \in RequestPacket
      BY <1>10, PacketFields DEF ReceiveRequest, Typed, Shape
    <3> QED
      BY <1>0, <1>10, <3>1, PacketFields DEF ReceiveRequest, Carried
  <2>2. \A k \in net' : k \in net \/ (replyCache[m.corr] # NoCall
                                       /\ k = Reply(m.corr, replies', replyCache[m.corr]))
    BY <1>10 DEF ReceiveRequest, Receive
  <2>3. replyCache[m.corr] # NoCall => BelongsNext(replyCache[m.corr], m.corr)
    BY <1>0, <2>1 DEF Carried
  <2>4. \A k \in net' : k.type = "ACK" \/ k \in net \/ BelongsNext(k.body, k.corr)
    BY <2>2, <2>3 DEF Reply
  <2>5. \A u \in RxThreads :
          \/ rx'[u] = rx[u]
          \/ rx'[u] = [at |-> "handler", corr |-> m.corr, seq |-> NoId, body |-> m.body]
    BY <1>10 DEF ReceiveRequest, Typed, TypeOK
  <2>6. \A u \in RxThreads : rx'[u] \in {Idle, rx[u]} \/ BelongsNext(rx'[u].body, rx'[u].corr)
    BY <2>1, <2>5
  <2> QED
    BY <1>1, <1>10, <2>4, <2>6 DEF ReceiveRequest
<1>11. ASSUME NEW m \in net, NEW t \in RxThreads, ReceiveReplyAck(t, m) PROVE Carried'
  <2>1. net' \subseteq net /\ pendingReply' \subseteq pendingReply
    BY <1>11 DEF ReceiveReplyAck, Receive
  <2> QED
    BY <1>1, <1>11, <2>1 DEF ReceiveReplyAck
<1>12. ASSUME NEW t \in RxThreads, HandlerReturns(t) PROVE Carried'
  <2> DEFINE i == rx[t].corr
             b == rx[t].body
  <2>1. BelongsNext(b, i)
    BY <1>0, <1>12, ThreadFields DEF HandlerReturns, Carried
  <2>2. \A k \in net' : k \in net \/ k = Reply(i, replies', b)
    BY <1>12 DEF HandlerReturns
  <2>3. \A k \in net' : k.type = "ACK" \/ k \in net \/ BelongsNext(k.body, k.corr)
    BY <2>1, <2>2 DEF Reply
  <2>4. \A u \in RxThreads :
          \/ rx'[u] \in {Idle, rx[u]}
          \/ rx'[u] = [at |-> "register", corr |-> i, seq |-> replies', body |-> b]
    BY <1>12 DEF HandlerReturns, Typed, TypeOK
  <2>5. \A u \in RxThreads : rx'[u] \in {Idle, rx[u]} \/ BelongsNext(rx'[u].body, rx'[u].corr)
    BY <2>1, <2>4
  <2>6. \A j \in Corrs : replyCache'[j] = replyCache[j] \/ (j = i /\ replyCache'[j] = b)
    BY <1>12 DEF HandlerReturns, Typed, TypeOK, Cached
  <2>7. \A j \in Corrs : replyCache'[j] \in {NoCall, replyCache[j]} \/ BelongsNext(replyCache'[j], j)
    BY <2>1, <2>6
  <2> QED
    BY <1>1, <1>12, <2>3, <2>5, <2>7 DEF HandlerReturns
<1>13. ASSUME NEW t \in RxThreads, RegisterReply(t) PROVE Carried'
  <2>1. BelongsNext(rx[t].body, rx[t].corr)
    BY <1>0, <1>13, ThreadFields DEF RegisterReply, Carried
  <2>2. \A r \in pendingReply' : r \in pendingReply \/ BelongsNext(r.body, r.corr)
    BY <1>13, <2>1 DEF RegisterReply, Reply
  <2>3. \A u \in RxThreads : rx'[u] \in {Idle, rx[u]}
    BY <1>13 DEF RegisterReply, Typed, TypeOK
  <2> QED
    BY <1>1, <1>13, <2>2, <2>3 DEF RegisterReply
<1>14. ASSUME NEW r \in pendingReply, ReplyTimeout(r) PROVE Carried'
  <2>1. pendingReply' \subseteq pendingReply /\ net' \subseteq net \union {r}
    BY <1>14 DEF ReplyTimeout, GivenUp
  <2>2. BelongsNext(r.body, r.corr)
    BY <1>0 DEF Carried
  <2> QED
    BY <1>1, <1>14, <2>1, <2>2 DEF ReplyTimeout
<1>15. ASSUME NEW i \in Corrs, ExpireReplyCache(i) PROVE Carried'
  <2>1. \A j \in Corrs : replyCache'[j] \in {NoCall, replyCache[j]}
    BY <1>15 DEF ExpireReplyCache, Typed, TypeOK
  <2> QED
    BY <1>1, <1>15, <2>1 DEF ExpireReplyCache
<1>16. CASE UNCHANGED vars
  BY <1>1, <1>16 DEF vars
<1> QED
  BY <1>2, <1>3, <1>4, <1>5, <1>6, <1>7, <1>8, <1>9, <1>10, <1>11, <1>12, <1>13, <1>14, <1>15,
     <1>16 DEF Next

\* An id leads to one call, or to calls that overlapped.
LEMMA OneOwner ==
    ASSUME OneIdEach, NEW c, NEW d, NEW i \in Corrs, Belongs(c, i), Belongs(d, i)
    PROVE  c = d \/ d \in crossed
  BY DEF OneIdEach, Belongs, Started, Registered

\* Futures: a value comes from the request of the call itself, and a promise
\* is destroyed by the call itself, unless the call overlapped with another one.
LEMMA ResultStep ==
    Typed /\ OneIdEach /\ Carried /\ OwnAnswer /\ NoForeignCancel /\ [Next]_vars
    => OwnAnswer' /\ NoForeignCancel'
<1> SUFFICES ASSUME Typed, OneIdEach, Carried, OwnAnswer, NoForeignCancel, [Next]_vars
             PROVE  OwnAnswer' /\ NoForeignCancel'
  OBVIOUS
<1> USE DEF requester, replier, history
<1>0. crossed \subseteq crossed' /\ \A c \in Calls : call[c] = "done" => call'[c] = "done"
  <2>1. ASSUME NEW d \in Calls, NumberRequest(d) \/ \E i \in Corrs : RegisterRequest(d, i)
        PROVE  crossed \subseteq crossed' /\ \A c \in Calls : call[c] = "done" => call'[c] = "done"
    BY <2>1 DEF NumberRequest, RegisterRequest, Typed, TypeOK
  <2> QED
    BY <2>1, IdSteps DEF InCall
<1>1. ASSUME \A c \in Calls : \/ result'[c] = result[c]
                              \/ result'[c] \notin Calls /\ result'[c] # "broken"
                              \/ result'[c] = c
                              \/ c \in crossed
                              \/ result'[c] = "broken" /\ call'[c] = "done"
      PROVE  OwnAnswer' /\ NoForeignCancel'
  <2>1. "broken" \notin Calls
    BY CallsAssumption DEF Failures
  <2> QED
    BY <1>0, <1>1, <2>1 DEF OwnAnswer, NoForeignCancel
<1>2. \A ids \in SUBSET Corrs : \A d \in Calls :
        (\E i \in ids : pendingRequests[i] = d) => \E i \in ids : pendingRequests[i] = d /\ Belongs(d, i)
  BY Constants DEF Carried
<1>3. ASSUME NEW ids, NEW how \in {"timeout", "no provider", "bus stopped"}, result' = Completed(ids, how)
      PROVE  OwnAnswer' /\ NoForeignCancel'
  <2>1. how \notin Calls /\ how # "broken"
    BY CallsAssumption DEF Failures
  <2> QED
    BY <1>1, <1>3, <2>1 DEF Completed
<1>4. ASSUME NEW c \in Calls, NEW i \in Corrs, RegisterRequest(c, i) PROVE OwnAnswer' /\ NoForeignCancel'
  <2>1. /\ i \in {corrId[c], lastCorrId[via[c]]} /\ call[c] = "numbered"
        /\ result' = [Broken({i}) EXCEPT ![c] = "waiting"]
    BY <1>4 DEF RegisterRequest
  <2>2. \A d \in Calls : pendingRequests[i] = d => d # c /\ d \in crossed
    <3> SUFFICES ASSUME NEW d \in Calls, pendingRequests[i] = d PROVE d # c /\ d \in crossed
      OBVIOUS
    <3>1. Belongs(d, i)
      BY Constants DEF Carried
    <3>2. d # c /\ d \in Started /\ c \in Started /\ corrId[d] = i /\ InCall(c)
      BY <2>1, <3>1 DEF Belongs, Registered, Started, InCall
    <3> QED
      BY <2>1, <3>2 DEF OneIdEach
  <2>3. \A d \in Calls : \/ result'[d] = IF d = c THEN "waiting" ELSE result[d]
                         \/ d \in crossed
    BY <2>1, <2>2 DEF Broken
  <2>4. "waiting" \notin Calls
    BY CallsAssumption
  <2> QED
    BY <1>1, <2>3, <2>4
<1>5. ASSUME NEW c \in Calls, NEW async \in BOOLEAN, NEW active \in CanDiscover, DispatchRequest(c, async, active)
      PROVE  OwnAnswer' /\ NoForeignCancel'
  <2>1. result' = result \/ result' = Completed({corrId[c]}, "no provider")
    BY <1>5 DEF DispatchRequest
  <2> QED
    BY <1>1, <1>3, <2>1
<1>6. ASSUME NEW c \in Calls, CancelRequest(c) PROVE OwnAnswer' /\ NoForeignCancel'
  <2> DEFINE i == lastCorrId[via[c]]
  <2>1. call[c] = "cancel" /\ result' = Broken({i}) /\ call'[c] = "done"
    BY <1>6 DEF CancelRequest, CancelId, Typed, TypeOK
  <2>2. i \in Corrs /\ c \in Started /\ InCall(c)
    BY <2>1 DEF Typed, Shape, Started, InCall
  <2>3. \A d \in Calls : pendingRequests[i] = d => d = c \/ d \in crossed
    <3> SUFFICES ASSUME NEW d \in Calls, pendingRequests[i] = d, d # c PROVE d \in crossed
      OBVIOUS
    <3>1. Belongs(d, i)
      BY <2>2, Constants DEF Carried
    <3>2. d \in Started /\ corrId[d] = i
      BY <3>1 DEF Belongs, Registered, Started
    <3> QED
      BY <2>2, <3>2 DEF OneIdEach
  <2>4. \A d \in Calls : result'[d] = result[d] \/ d \in crossed \/ (d = c /\ result'[d] = "broken")
    BY <2>1, <2>3 DEF Broken
  <2> QED
    BY <1>1, <2>1, <2>4
<1>7. ASSUME NEW late \in SUBSET Corrs, NEW again \in SUBSET Corrs, PeriodicTask(late, again)
      PROVE  OwnAnswer' /\ NoForeignCancel'
  BY <1>3, <1>7 DEF PeriodicTask
<1>8. CASE Stop
  BY <1>3, <1>8 DEF Stop
<1>9. ASSUME NEW m \in net, ReceiveReply(m) PROVE OwnAnswer' /\ NoForeignCancel'
  <2>1. m.corr \in Corrs /\ Belongs(m.body, m.corr)
    BY <1>9, PacketFields DEF ReceiveReply, Typed, Shape, Carried
  <2>2. \A d \in Calls : pendingRequests[m.corr] = d => d = m.body \/ d \in crossed
    <3>1. \A d \in Calls : pendingRequests[m.corr] = d => Belongs(d, m.corr)
      BY <2>1, Constants DEF Carried
    <3> QED
      BY <2>1, <3>1, OneOwner
  <2>3. \A d \in Calls : result'[d] = result[d] \/ result'[d] = d \/ d \in crossed
    BY <1>9, <2>2 DEF ReceiveReply, Completed, MatchId
  <2> QED
    BY <1>1, <2>3
<1>10. ASSUME UNCHANGED result PROVE OwnAnswer' /\ NoForeignCancel'
  BY <1>1, <1>10
<1>11. ASSUME NEW c \in Calls, NumberRequest(c) \/ RequestReturns(c) \/ RequestTimesOut(c)
       PROVE  OwnAnswer' /\ NoForeignCancel'
  BY <1>10, <1>11 DEF NumberRequest, RequestReturns, RequestTimesOut
<1>12. ASSUME \/ PeerChange \/ ChangeReplier
              \/ \E m \in net, t \in RxThreads : ReceiveRequest(t, m) \/ ReceiveReplyAck(t, m)
              \/ \E t \in RxThreads : HandlerReturns(t) \/ RegisterReply(t)
              \/ \E r \in pendingReply : ReplyTimeout(r)
              \/ \E i \in Corrs : ExpireReplyCache(i)
              \/ UNCHANGED vars
       PROVE  OwnAnswer' /\ NoForeignCancel'
  <2>1. UNCHANGED result
    BY <1>12 DEF PeerChange, ChangeReplier, ReceiveRequest, ReceiveReplyAck, HandlerReturns,
         RegisterReply, ReplyTimeout, ExpireReplyCache, vars
  <2> QED
    BY <1>10, <2>1
<1> QED
  BY <1>4, <1>5, <1>6, <1>7, <1>8, <1>9, <1>11, <1>12 DEF Next

LEMMA CorrelatedAlways == Spec => [](Typed /\ Correlated)
<1>1. Init /\ Typed => Correlated
  <2> SUFFICES ASSUME Init, Typed PROVE Correlated
    OBVIOUS
  <2>1. OneIdEach
    BY DEF Init, OneIdEach, NoId, Started, InCall
  <2>2. Carried
    BY DEF Init, Carried
  <2>3. OwnAnswer /\ NoForeignCancel
    <3>1. "none" \notin Calls
      BY CallsAssumption
    <3> QED
      BY <3>1 DEF Init, OwnAnswer, NoForeignCancel
  <2> QED
    BY <2>1, <2>2, <2>3 DEF Correlated
<1>2. Typed /\ Correlated /\ [Next]_vars => Correlated'
  BY OneIdEachStep, CarriedStep, ResultStep DEF Correlated
<1> QED
  BY <1>1, <1>2, TypedAlways, PTL DEF Spec

\* A call that gets a value gets the answer to its own request, for any number
\* of calls, Requesters, receive threads, lost, late and repeated packets, unless
\* it overlapped with another call on the same Requester.
THEOREM OwnAnswerHolds == Spec => []OwnAnswer
<1>1. Correlated => OwnAnswer
  BY DEF Correlated
<1> QED
  BY <1>1, CorrelatedAlways, PTL

\* No call destroys the promise of another one, unless the two overlapped on one
\* Requester: neither the registration nor the cancellation, which reads
\* lastCorrId again after the wait, meets any other call's entry.
THEOREM NoForeignCancelHolds == Spec => []NoForeignCancel
<1>1. Correlated => NoForeignCancel
  BY DEF Correlated
<1> QED
  BY <1>1, CorrelatedAlways, PTL

-----------------------------------------------------------------------------
(* The handler runs once for each request on each receive thread.          *)

\* While an answer is not in the cache, a thread has run the handler no more
\* often than answers have expired; a thread that is in the handler has found
\* no answer there, and nobody but itself can count a run for it meanwhile.
Once ==
    /\ HandlerOnce
    /\ \A t \in RxThreads, i \in Corrs : replyCache[i] = NoCall => executed[t][i] <= expired[i]
    /\ \A t \in RxThreads : rx[t].at = "handler" => executed[t][rx[t].corr] <= expired[rx[t].corr]

LEMMA OnceStep == Typed /\ Once /\ [Next]_vars => Once'
<1> SUFFICES ASSUME Typed, Once, [Next]_vars PROVE Once'
  OBVIOUS
<1> USE DEF requester, replier, history
<1>0. /\ \A t \in RxThreads, i \in Corrs : executed[t][i] \in Nat
      /\ \A i \in Corrs : expired[i] \in Nat
      /\ rx \in [RxThreads -> {Idle} \union InHandler \union InRegister]
      /\ \A t \in RxThreads : rx[t].at = "handler" => rx[t].corr \in Corrs /\ rx[t].body \in Calls
  BY ThreadFields DEF Typed, TypeOK, Shape
<1>1. ASSUME UNCHANGED <<executed, expired, replyCache>>,
             \A t \in RxThreads : rx'[t].at = "handler" => \/ rx'[t] = rx[t]
                                                          \/ executed[t][rx'[t].corr] <= expired[rx'[t].corr]
      PROVE  Once'
  BY <1>1 DEF Once, HandlerOnce
<1>2. ASSUME NEW m \in net, NEW t \in RxThreads, ReceiveRequest(t, m) PROVE Once'
  <2>1. m.type = "REQUEST" /\ m.corr \in Corrs
    BY <1>2, PacketFields DEF ReceiveRequest, Typed, Shape
  <2>2. \A u \in RxThreads : rx'[u] = rx[u] \/ (u = t /\ rx'[u].corr = m.corr /\ replyCache[m.corr] = NoCall)
    BY <1>0, <1>2 DEF ReceiveRequest
  <2>3. \A u \in RxThreads : rx'[u].at = "handler" => \/ rx'[u] = rx[u]
                                                     \/ executed[u][rx'[u].corr] <= expired[rx'[u].corr]
    BY <2>1, <2>2 DEF Once
  <2> QED
    BY <1>1, <1>2, <2>3 DEF ReceiveRequest
<1>3. ASSUME NEW t \in RxThreads, HandlerReturns(t) PROVE Once'
  <2> DEFINE i == rx[t].corr
  <2>1. rx[t].at = "handler" /\ i \in Corrs /\ rx[t].body \in Calls /\ expired' = expired
    BY <1>0, <1>3 DEF HandlerReturns
  <2>2. executed[t][i] <= expired[i]
    BY <2>1 DEF Once
  <2>3. \A j \in Corrs : replyCache'[j] = NoCall => j # i /\ replyCache[j] = NoCall
    BY <1>3, <2>1, Constants DEF HandlerReturns, Cached, Typed, TypeOK
  <2>4. \A u \in RxThreads, j \in Corrs :
          executed'[u][j] = IF u = t /\ j = i THEN executed[t][i] + 1 ELSE executed[u][j]
    BY <1>3, <2>1 DEF HandlerReturns, Typed, TypeOK
  <2>5. \A u \in RxThreads : rx'[u].at = "handler" => u # t /\ rx'[u] = rx[u]
    BY <1>0, <1>3, ThreadFields DEF HandlerReturns
  <2> HIDE DEF i
  <2>6. HandlerOnce'
    BY <1>0, <2>1, <2>2, <2>4 DEF Once, HandlerOnce
  <2>7. \A u \in RxThreads, j \in Corrs : replyCache'[j] = NoCall => executed'[u][j] <= expired'[j]
    BY <2>1, <2>3, <2>4 DEF Once
  <2>8. \A u \in RxThreads : rx'[u].at = "handler" => executed'[u][rx'[u].corr] <= expired'[rx'[u].corr]
    BY <1>0, <2>1, <2>4, <2>5 DEF Once
  <2> QED
    BY <2>6, <2>7, <2>8 DEF Once
<1>4. ASSUME NEW t \in RxThreads, RegisterReply(t) PROVE Once'
  <2>1. \A u \in RxThreads : rx'[u] = rx[u] \/ rx'[u] = Idle
    BY <1>0, <1>4 DEF RegisterReply
  <2> QED
    BY <1>1, <1>4, <2>1, ThreadFields DEF RegisterReply
<1>5. ASSUME NEW i \in Corrs, ExpireReplyCache(i) PROVE Once'
  <2>1. /\ UNCHANGED <<executed, rx>>
        /\ \A j \in Corrs : /\ expired'[j] = IF j = i THEN expired[i] + 1 ELSE expired[j]
                            /\ j # i => replyCache'[j] = replyCache[j]
    BY <1>5 DEF ExpireReplyCache, Typed, TypeOK
  <2>2. \A u \in RxThreads, j \in Corrs : executed[u][j] <= 1 + expired[j]
    BY DEF Once, HandlerOnce
  <2>3. HandlerOnce'
    BY <1>0, <2>1, <2>2 DEF HandlerOnce
  <2>4. \A u \in RxThreads, j \in Corrs : replyCache'[j] = NoCall => executed'[u][j] <= expired'[j]
    BY <1>0, <2>1, <2>2 DEF Once
  <2>5. \A u \in RxThreads : rx'[u].at = "handler" => executed'[u][rx'[u].corr] <= expired'[rx'[u].corr]
    BY <1>0, <2>1 DEF Once
  <2> QED
    BY <2>3, <2>4, <2>5 DEF Once
<1>6. ASSUME UNCHANGED <<executed, expired, replyCache, rx>> PROVE Once'
  BY <1>1, <1>6
<1>7. ASSUME \/ \E c \in Calls :
                  \/ NumberRequest(c) \/ \E i \in Corrs : RegisterRequest(c, i)
                  \/ RequestReturns(c) \/ RequestTimesOut(c) \/ CancelRequest(c)
                  \/ \E async \in BOOLEAN, active \in CanDiscover : DispatchRequest(c, async, active)
             \/ \E late, again \in SUBSET Corrs : PeriodicTask(late, again)
             \/ Stop \/ PeerChange \/ ChangeReplier
             \/ \E m \in net : ReceiveReply(m) \/ \E t \in RxThreads : ReceiveReplyAck(t, m)
             \/ \E r \in pendingReply : ReplyTimeout(r)
             \/ UNCHANGED vars
       PROVE  Once'
  <2>1. UNCHANGED <<executed, expired, replyCache, rx>>
    BY <1>7 DEF NumberRequest, RegisterRequest, RequestReturns, RequestTimesOut, CancelRequest,
         DispatchRequest, PeriodicTask, Stop, PeerChange, ChangeReplier, ReceiveReply,
         ReceiveReplyAck, ReplyTimeout, vars
  <2> QED
    BY <1>6, <2>1
<1> QED
  BY <1>2, <1>3, <1>4, <1>5, <1>7 DEF Next

\* The reply cache, for any number of requests, threads, losses and repetitions:
\* a thread runs the handler again for a correlation id at most once for each time
\* the cached answer expired.
THEOREM HandlerOnceHolds == Spec => []HandlerOnce
<1>1. Init => Once
  <2> SUFFICES ASSUME Init PROVE Once
    OBVIOUS
  <2>1. /\ \A t \in RxThreads, i \in Corrs : executed[t][i] = 0 /\ expired[i] = 0
        /\ \A t \in RxThreads : rx[t].at # "handler"
    BY ThreadFields DEF Init
  <2> QED
    BY <2>1 DEF Once, HandlerOnce
<1>2. Typed /\ Once /\ [Next]_vars => Once'
  BY OnceStep
<1>3. Once => HandlerOnce
  BY DEF Once
<1> QED
  BY <1>1, <1>2, <1>3, TypedAlways, PTL DEF Spec
=============================================================================
