---------------------------- MODULE RequestReply ----------------------------
(***************************************************************************)
(* Request/reply between two nodes: Requester::request and requestAsync,   *)
(* MessageBus::sendRequest, the request part of the 200 ms periodic task,  *)
(* the REQUEST, REPLY and ACK branches of MessageBus::onReceived, the      *)
(* reply cache and MessageBus::stop.                                       *)
(*                                                                         *)
(* The requesting node has no handler of its own for the service.  A call  *)
(* stands for its payload and for the answer computed from that payload.   *)
(* Sequence ids count transmissions; the two nodes' filters of QoS 2 ids   *)
(* are the sets of ids seen (DedupStream studies the bounded window).      *)
(*                                                                         *)
(* The network loses what is never received, reorders, and lets up to      *)
(* MaxDup packets be received again.                                       *)
(***************************************************************************)
EXTENDS Integers, FiniteSets

CONSTANTS
    Calls,        \* calls of the application, each made by a thread of its own
    Requesters,   \* the Requester objects the calls are made on
    RxThreads,    \* transport receive threads of the replying node
    Level,        \* QoS level of the Requester
    CanDiscover,  \* whether some transport of the requesting node is active: the
                  \* values it may have when dispatchRequest has found no peer
    MayStop,      \* the requesting node may be shut down
    MaxRetries,   \* QoSProfile::maxRetries of the REPLY
    MaxRequests,  \* bound: REQUEST transmissions
    MaxReplies,   \* bound: REPLY sequence ids
    MaxDup,       \* bound: packets received again
    NoCall        \* the absence of a call

ASSUME RequestAssumption ==
    /\ Requesters # {}
    /\ Level \in 0..2
    /\ MayStop \in BOOLEAN
    /\ CanDiscover \subseteq BOOLEAN
    /\ {MaxRetries, MaxRequests, MaxReplies, MaxDup} \subseteq Nat
    /\ NoCall \notin Calls

VARIABLES
    corrCounter,  \* MessageBus::corrCounter_
    via,          \* the Requester of each call
    lastCorrId,   \* Requester::Impl::lastCorrId of each Requester
    call,         \* where each call stands
    corrId,       \* the id each call drew, then the argument of its sendRequest
    result,       \* what the future of each call holds
    pendingRequests, \* MessageBus::pendingRequests_: whose promise waits at an id
    running,      \* MessageBus::running_ of the requesting node
    known,        \* peers_ of the requesting node lists the service
    service,      \* serviceHandlers_ of the replying node has the service
    requests,     \* REQUEST transmissions so far
    seenReply,    \* QoS 2 REPLY ids the requesting node has seen
    rx,           \* what each receive thread of the replying node is doing
    replyCache,   \* replyCache_: the cached answer of each correlation id
    replies,      \* REPLY ids handed out so far
    pendingReply, \* pending_ of the replying node: REPLYs to retransmit
    replyRetry,   \* their retryCount
    seenRequest,  \* QoS 2 REQUEST ids the replying node has seen
    net, dups,    \* packets in transit; packets received again so far
    crossed,      \* history: calls that overlapped with another one of their Requester
    executed,     \* history: times each thread ran the handler for each correlation id
    expired       \* history: times the cached answer of each correlation id expired

requester == <<corrCounter, lastCorrId, call, corrId, result, pendingRequests, running,
               known>>
replier == <<service, rx, replyCache, replies, pendingReply, replyRetry, seenRequest>>
history == <<crossed, executed, expired>>
vars == <<requester, via, requests, seenReply, replier, net, dups, history>>

Corrs == 1..Cardinality(Calls)
NoId == 0
Packet == [type : {"REQUEST", "REPLY", "ACK"}, corr : Corrs \union {NoId},
           seq : 1..(MaxRequests + MaxReplies), body : Calls \union {NoCall}]
Request(corr, seq, body) == [type |-> "REQUEST", corr |-> corr, seq |-> seq, body |-> body]
Reply(corr, seq, body) == [type |-> "REPLY", corr |-> corr, seq |-> seq, body |-> body]
Ack(seq) == [type |-> "ACK", corr |-> NoId, seq |-> seq, body |-> NoCall]

\* A receive thread is idle, runs the handler for a REQUEST, or has sent the
\* REPLY and is about to register it.
Idle == [at |-> "idle", corr |-> NoId, seq |-> NoId, body |-> NoCall]
RxState == [at : {"idle", "handler", "register"}, corr : Corrs \union {NoId},
            seq : 0..MaxReplies, body : Calls \union {NoCall}]

\* The exceptions a future can end with; "broken" is std::broken_promise.
Failures == {"timeout", "no provider", "bus stopped", "broken"}

\* An answer is told from an exception and from a future that is not ready.
ASSUME CallsAssumption ==
    IsFiniteSet(Calls) /\ Calls \intersect ({"none", "waiting"} \union Failures) = {}

TypeOK ==
    /\ corrCounter \in 1..(Cardinality(Calls) + 1)
    /\ via \in [Calls -> Requesters]
    /\ lastCorrId \in [Requesters -> Corrs \union {NoId}]
    /\ call \in [Calls -> {"new", "numbered", "registered", "waiting", "async", "cancel", "done"}]
    /\ corrId \in [Calls -> Corrs \union {NoId}]
    /\ result \in [Calls -> {"none", "waiting"} \union Failures \union Calls]
    /\ pendingRequests \in [Corrs -> Calls \union {NoCall}]
    /\ running \in BOOLEAN /\ known \in BOOLEAN /\ service \in BOOLEAN
    /\ requests \in 0..MaxRequests
    /\ seenReply \subseteq 1..MaxReplies
    /\ rx \in [RxThreads -> RxState]
    /\ replyCache \in [Corrs -> Calls \union {NoCall}]
    /\ replies \in 0..MaxReplies
    /\ pendingReply \subseteq Packet
    /\ replyRetry \in [1..MaxReplies -> 0..MaxRetries]
    /\ seenRequest \subseteq 1..MaxRequests
    /\ net \subseteq Packet
    /\ dups \in 0..MaxDup
    /\ crossed \subseteq Calls
    /\ executed \in [RxThreads -> [Corrs -> Nat]] /\ expired \in [Corrs -> Nat]

Init ==
    /\ corrCounter = 1
    /\ via \in [Calls -> Requesters]
    /\ lastCorrId = [q \in Requesters |-> NoId]
    /\ call = [c \in Calls |-> "new"]
    /\ corrId = [c \in Calls |-> NoId]
    /\ result = [c \in Calls |-> "none"]
    /\ pendingRequests = [i \in Corrs |-> NoCall]
    /\ running = TRUE /\ known = FALSE /\ service = FALSE
    /\ requests = 0
    /\ seenReply = {} /\ seenRequest = {}
    /\ rx = [t \in RxThreads |-> Idle]
    /\ replyCache = [i \in Corrs |-> NoCall]
    /\ replies = 0
    /\ pendingReply = {}
    /\ replyRetry = [n \in 1..MaxReplies |-> 0]
    /\ net = {} /\ dups = 0
    /\ crossed = {}
    /\ executed = [t \in RxThreads |-> [i \in Corrs |-> 0]] /\ expired = [i \in Corrs |-> 0]

-----------------------------------------------------------------------------
(* The requesting node.                                                    *)

\* The calls that are inside request(), which reads the lastCorrId of their
\* Requester to register and to cancel; requestAsync returns earlier.
InCall(c) == call[c] \in {"numbered", "registered", "waiting", "cancel"}

\* corrCounter_++ into lastCorrId; the call goes on in sendRequest.
NumberRequest(c) ==
    LET others == {d \in Calls : InCall(d) /\ via[d] = via[c]} IN
    /\ call[c] = "new"
    /\ lastCorrId' = [lastCorrId EXCEPT ![via[c]] = corrCounter]
    /\ corrId' = [corrId EXCEPT ![c] = corrCounter]
    /\ corrCounter' = corrCounter + 1
    /\ call' = [call EXCEPT ![c] = "numbered"]
    /\ crossed' = crossed \union others \union (IF others = {} THEN {} ELSE {c})
    /\ UNCHANGED <<via, result, pendingRequests, running, known, requests, seenReply,
                   replier, net, dups, executed, expired>>

\* The futures once the promises at the ids in gone have been destroyed.
Broken(gone) ==
    [d \in Calls |-> IF /\ \E i \in gone : pendingRequests[i] = d
                        /\ result[d] = "waiting"
                     THEN "broken" ELSE result[d]]

\* sendRequest registers the promise.  Its argument is read from lastCorrId,
\* which has no lock: it is the id this call drew, kept in a register, or the
\* one that lastCorrId holds by now.  An entry that is already there is replaced
\* and its promise destroyed.
RegisterRequest(c, i) ==
    /\ call[c] = "numbered"
    /\ i \in {corrId[c], lastCorrId[via[c]]}
    /\ result' = [Broken({i}) EXCEPT ![c] = "waiting"]
    /\ pendingRequests' = [pendingRequests EXCEPT ![i] = c]
    /\ corrId' = [corrId EXCEPT ![c] = i]
    /\ call' = [call EXCEPT ![c] = "registered"]
    /\ UNCHANGED <<via, corrCounter, lastCorrId, running, known, requests, seenReply, replier,
                   net, dups, history>>

Completed_Forgotten(ids, how) == result

\* The futures once the promises at ids have been given how.
Completed(ids, how) ==
    [d \in Calls |-> IF \E i \in ids : pendingRequests[i] = d THEN how ELSE result[d]]

\* dispatchRequest sends to the peers known to offer the service.  With none
\* known, and no transport that could still find one, the request fails.
DispatchRequest(c, async, canDiscover) ==
    LET i == corrId[c] IN
    /\ call[c] = "registered"
    /\ IF known
       THEN /\ requests < MaxRequests
            /\ requests' = requests + 1
            /\ net' = net \union {Request(i, requests', c)}
            /\ UNCHANGED <<result, pendingRequests>>
       ELSE /\ IF canDiscover
               THEN UNCHANGED <<result, pendingRequests>>
               ELSE /\ result' = Completed({i}, "no provider")
                    /\ pendingRequests' = [pendingRequests EXCEPT ![i] = NoCall]
            /\ UNCHANGED <<requests, net>>
    /\ call' = [call EXCEPT ![c] = IF async THEN "async" ELSE "waiting"]
    /\ UNCHANGED <<via, corrCounter, lastCorrId, corrId, running, known, seenReply, replier, dups,
                   history>>

\* request(): the future became ready within the timeout.
RequestReturns(c) ==
    /\ call[c] = "waiting" /\ result[c] # "waiting"
    /\ call' = [call EXCEPT ![c] = "done"]
    /\ UNCHANGED <<via, corrCounter, lastCorrId, corrId, result, pendingRequests, running, known,
                   requests, seenReply, replier, net, dups, history>>

\* request(): wait_for ran into the timeout.
RequestTimesOut(c) ==
    /\ call[c] = "waiting" /\ result[c] = "waiting"
    /\ call' = [call EXCEPT ![c] = "cancel"]
    /\ UNCHANGED <<via, corrCounter, lastCorrId, corrId, result, pendingRequests, running, known,
                   requests, seenReply, replier, net, dups, history>>

CancelId_Newest(c) == corrCounter - 1

\* lastCorrId is read again after the wait.
CancelId(c) == lastCorrId[via[c]]

\* cancelPendingRequest(lastCorrId) destroys the promise that is there.
CancelRequest(c) ==
    LET i == CancelId(c) IN
    /\ call[c] = "cancel"
    /\ result' = Broken({i})
    /\ pendingRequests' = [pendingRequests EXCEPT ![i] = NoCall]
    /\ call' = [call EXCEPT ![c] = "done"]
    /\ UNCHANGED <<via, corrCounter, lastCorrId, corrId, running, known, requests, seenReply, replier,
                   net, dups, history>>

\* The request part of the periodic task: the requests past their deadline
\* (late) end with an exception, the ones whose interval has elapsed (again)
\* are dispatched once more to the peers known now.  The bound on REQUESTs
\* stands for the deadline, which ends the retransmission.
PeriodicTask(late, again) ==
    /\ running
    /\ late \union again # {} /\ late \intersect again = {}
    /\ \A i \in late \union again : pendingRequests[i] # NoCall
    /\ result' = Completed(late, "timeout")
    /\ pendingRequests' = [i \in Corrs |-> IF i \in late THEN NoCall ELSE pendingRequests[i]]
    /\ IF known /\ again # {}
       THEN \E order \in [again -> 1..Cardinality(again)] :
              /\ \A i, j \in again : order[i] = order[j] => i = j
              /\ requests + Cardinality(again) <= MaxRequests
              /\ requests' = requests + Cardinality(again)
              /\ net' = net \union {Request(i, requests + order[i], pendingRequests[i]) :
                                      i \in again}
       ELSE late # {} /\ UNCHANGED <<requests, net>>
    /\ UNCHANGED <<via, corrCounter, lastCorrId, call, corrId, running, known, seenReply, replier,
                   dups, history>>

\* stop(): the timer is joined, every pending promise gets an exception.
Stop ==
    /\ MayStop /\ running
    /\ running' = FALSE
    /\ result' = Completed(Corrs, "bus stopped")
    /\ pendingRequests' = [i \in Corrs |-> NoCall]
    /\ UNCHANGED <<via, corrCounter, lastCorrId, call, corrId, known, requests, seenReply, replier,
                   net, dups, history>>

\* The network after packet m has been received and out has been sent: m is
\* used up, or it was duplicated and stays.
Receive(m, out) ==
    /\ m \in net
    /\ \/ net' = (net \ {m}) \union out /\ UNCHANGED dups
       \/ dups < MaxDup /\ dups' = dups + 1 /\ net' = net \union out

MatchId_SeqId(m) == IF m.seq \in Corrs THEN m.seq ELSE m.corr

\* pendingRequests_ is keyed by the correlation id of the packet.
MatchId(m) == m.corr

AckFor(m) == IF Level >= 1 THEN {Ack(m.seq)} ELSE {}

\* The REPLY branch of onReceived.  A QoS 2 duplicate is dropped by the
\* filter, which stands before the branch; any other REPLY is acknowledged and
\* completes the promise that waits for it, if one still does.
ReceiveReply(m) ==
    LET duplicate == Level = 2 /\ m.seq \in seenReply
    IN  /\ m.type = "REPLY"
        /\ Receive(m, IF duplicate THEN {} ELSE AckFor(m))
        /\ seenReply' = IF Level = 2 THEN seenReply \union {m.seq} ELSE seenReply
        /\ result' = IF duplicate THEN result ELSE Completed({MatchId(m)}, m.body)
        /\ pendingRequests' = IF duplicate THEN pendingRequests
                              ELSE [pendingRequests EXCEPT ![MatchId(m)] = NoCall]
        /\ UNCHANGED <<via, corrCounter, lastCorrId, call, corrId, running, known, requests,
                       replier, history>>

\* Discovery tells the requesting node about the service, or that it is gone.
PeerChange ==
    /\ known # service
    /\ known' = service
    /\ UNCHANGED <<via, corrCounter, lastCorrId, call, corrId, result, pendingRequests, running,
                   requests, seenReply, replier, net, dups, history>>

-----------------------------------------------------------------------------
(* The replying node.                                                      *)

\* createReplier, and ~Replier through removeServiceHandler.
ChangeReplier ==
    /\ service' = ~service
    /\ UNCHANGED <<requester, via, requests, seenReply, rx, replyCache, replies, pendingReply,
                   replyRetry, seenRequest, net, dups, history>>

\* The REQUEST branch of onReceived up to the call of the handler: the QoS 2
\* filter, then the reply cache (a hit sends the cached answer, once, under a
\* new id), then the lookup of the handler.
ReceiveRequest(t, m) ==
    LET duplicate == Level = 2 /\ m.seq \in seenRequest
        cached == replyCache[m.corr]
    IN  /\ m.type = "REQUEST"
        /\ rx[t] = Idle
        /\ seenRequest' = IF Level = 2 THEN seenRequest \union {m.seq} ELSE seenRequest
        /\ \/ /\ ~duplicate /\ cached # NoCall
              /\ replies < MaxReplies
              /\ replies' = replies + 1
              /\ Receive(m, {Reply(m.corr, replies', cached)})
              /\ UNCHANGED rx
           \/ /\ ~duplicate /\ cached = NoCall /\ service
              /\ rx' = [rx EXCEPT ![t] = [at |-> "handler", corr |-> m.corr, seq |-> NoId,
                                          body |-> m.body]]
              /\ Receive(m, {})
              /\ UNCHANGED replies
           \/ /\ duplicate \/ (cached = NoCall /\ ~service)
              /\ Receive(m, {})
              /\ UNCHANGED <<rx, replies>>
        /\ UNCHANGED <<requester, via, requests, seenReply, service, replyCache, pendingReply,
                       replyRetry, history>>

Cached_UnreliableOnly(i, answer) == IF Level = 0 THEN [replyCache EXCEPT ![i] = answer] ELSE replyCache

\* The cache with a new answer: it replaces one that another thread put there.
Cached(i, answer) == [replyCache EXCEPT ![i] = answer]

\* The handler returns: the answer is cached, then sent.
HandlerReturns(t) ==
    LET i == rx[t].corr
        n == replies + 1
    IN  /\ rx[t].at = "handler"
        /\ n <= MaxReplies
        /\ replies' = n
        /\ replyCache' = Cached(i, rx[t].body)
        /\ net' = net \union {Reply(i, n, rx[t].body)}
        /\ rx' = [rx EXCEPT ![t] = IF Level >= 1
                                   THEN [at |-> "register", corr |-> i, seq |-> n,
                                         body |-> rx[t].body]
                                   ELSE Idle]
        /\ executed' = [executed EXCEPT ![t][i] = @ + 1]
        /\ UNCHANGED <<requester, via, requests, seenReply, service, pendingReply, replyRetry,
                       seenRequest, dups, crossed, expired>>

\* The end of sendReply: the REPLY is registered for retransmission.
RegisterReply(t) ==
    /\ rx[t].at = "register"
    /\ pendingReply' = pendingReply \union {Reply(rx[t].corr, rx[t].seq, rx[t].body)}
    /\ rx' = [rx EXCEPT ![t] = Idle]
    /\ UNCHANGED <<requester, via, requests, seenReply, service, replyCache, replies, replyRetry,
                   seenRequest, net, dups, history>>

\* QoSEngine::onAck on the replying node.
ReceiveReplyAck(t, m) ==
    /\ m.type = "ACK"
    /\ rx[t] = Idle
    /\ Receive(m, {})
    /\ pendingReply' = {r \in pendingReply : r.seq # m.seq}
    /\ UNCHANGED <<requester, via, requests, seenReply, service, rx, replyCache, replies, replyRetry,
                   seenRequest, history>>

Exhausted_OneMore(r) == replyRetry[r.seq] > MaxRetries

Exhausted(r) == replyRetry[r.seq] >= MaxRetries

GivenUp_Kept(r) == pendingReply

\* The entries that are left when sweep abandons r.
GivenUp(r) == pendingReply \ {r}

\* processTimeouts on the replying node, for one entry that is due.
ReplyTimeout(r) ==
    /\ r \in pendingReply
    /\ IF Exhausted(r)
       THEN pendingReply' = GivenUp(r) /\ UNCHANGED <<replyRetry, net>>
       ELSE /\ replyRetry' = [replyRetry EXCEPT ![r.seq] = @ + 1]
            /\ net' = net \union {r}
            /\ UNCHANGED pendingReply
    /\ UNCHANGED <<requester, via, requests, seenReply, service, rx, replyCache, replies,
                   seenRequest, dups, history>>

\* expireReplyCache drops an answer 30 s after it was cached, whatever deadline
\* the request has: the requesting node may still send it again.
ExpireReplyCache(i) ==
    /\ replyCache[i] # NoCall
    /\ replyCache' = [replyCache EXCEPT ![i] = NoCall]
    /\ expired' = [expired EXCEPT ![i] = @ + 1]
    /\ UNCHANGED <<requester, via, requests, seenReply, service, rx, replies, pendingReply,
                   replyRetry, seenRequest, net, dups, crossed, executed>>

-----------------------------------------------------------------------------
Next ==
    \/ \E c \in Calls :
          \/ NumberRequest(c)
          \/ \E i \in Corrs : RegisterRequest(c, i)
          \/ \E async \in BOOLEAN, active \in CanDiscover : DispatchRequest(c, async, active)
          \/ RequestReturns(c)
          \/ RequestTimesOut(c)
          \/ CancelRequest(c)
    \/ \E late, again \in SUBSET Corrs : PeriodicTask(late, again)
    \/ Stop
    \/ PeerChange
    \/ ChangeReplier
    \/ \E m \in net :
          \/ ReceiveReply(m)
          \/ \E t \in RxThreads : ReceiveRequest(t, m) \/ ReceiveReplyAck(t, m)
    \/ \E t \in RxThreads : HandlerReturns(t) \/ RegisterReply(t)
    \/ \E r \in pendingReply : ReplyTimeout(r)
    \/ \E i \in Corrs : ExpireReplyCache(i)

Spec == Init /\ [][Next]_vars

\* The application's threads and the timer threads keep running, and every
\* deadline and retry interval passes.  Nothing is assumed of the network, of the
\* replying node's receive threads or of discovery.
Fairness ==
    /\ \A c \in Calls : /\ WF_vars(\E i \in Corrs : RegisterRequest(c, i))
                        /\ WF_vars(\E async \in BOOLEAN, active \in CanDiscover : DispatchRequest(c, async, active))
                        /\ WF_vars(RequestTimesOut(c))
                        /\ WF_vars(CancelRequest(c))
    /\ \A i \in Corrs : WF_vars(\E late, again \in SUBSET Corrs :
                                   i \in late /\ PeriodicTask(late, again))
    /\ \A n \in 1..MaxReplies : WF_vars(\E r \in pendingReply : r.seq = n /\ ReplyTimeout(r))

FairSpec == Spec /\ Fairness

-----------------------------------------------------------------------------
(* Properties.                                                             *)

\* The reply cache: a REQUEST that is sent again, with the same correlation id,
\* does not run the handler again on a receive thread, unless its answer expired
\* meanwhile.  (Two threads may both look before either has an answer to cache.)
HandlerOnce == \A t \in RxThreads, i \in Corrs : executed[t][i] <= 1 + expired[i]

\* A call that gets a value gets the answer to its own request, whatever late,
\* repeated or cached REPLYs are around and whatever other Requesters do.  Only
\* calls that overlap on one Requester, which share lastCorrId, are excepted.
OwnAnswer == \A c \in Calls : result[c] \in Calls => result[c] = c \/ c \in crossed

\* A promise is destroyed without a value or an exception only by its own call,
\* which has stopped waiting, or by a call that overlapped with it on the same
\* Requester: a cancellation after the wait never reaches any other call's entry.
NoForeignCancel == \A c \in Calls : result[c] = "broken" => call[c] = "done" \/ c \in crossed

\* The comment on PendingRequest: the deadline ends every future, so none
\* hangs for ever.
FutureCompletes == \A c \in Calls : result[c] = "waiting" ~> result[c] # "waiting"

\* Every REPLY registered for retransmission leaves pending_ again, also when its
\* ACK is lost and the QoS 2 filter of the requesting node drops the repetitions
\* before the branch that would acknowledge them.
ReplySettles ==
    \A n \in 1..MaxReplies :
        (\E r \in pendingReply : r.seq = n) ~> ~(\E r \in pendingReply : r.seq = n)
=============================================================================
