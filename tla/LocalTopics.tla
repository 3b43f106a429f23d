---------------------------- MODULE LocalTopics -----------------------------
(***************************************************************************)
(* Delivery inside a participant: the topic router (core/topic_router.h),  *)
(* the retained store (core/retained_store.h), the parts of the message    *)
(* bus that use them (publish, the PUBLISH branch of onReceived,           *)
(* deliverWill, createSubscriber, createReplier and the destructors), and  *)
(* the list of topics that the participant announces.  One action is one   *)
(* critical section or one callback.  A message is a number; a name is the *)
(* sequence of the segments between its slashes, so that "a/" is           *)
(* <<"a", "">>.                                                            *)
(***************************************************************************)
EXTENDS Integers, Sequences, FiniteSets, FiniteSetsExt

CONSTANTS
    Topics,       \* names that are published to
    Patterns,     \* names that are subscribed to
    WildSegments, \* segments with a '*' or '#' somewhere in them
    Services,     \* names of services
    Subs, Reps,   \* Subscriber and Replier objects
    Api,          \* threads that create and destroy them
    Workers,      \* threads that deliver: publishers, receive and timer threads
    TTL,          \* lifespans and default TTL of retained messages, 0: none
    maxCount,     \* maxCount_ of the retained store, 0: none
    MaxMsgs, MaxTime   \* bounds: messages, clock

ASSUME TopicsAssumption ==
    /\ Topics \cup Patterns \subseteq Seq(STRING) \ {<<>>}
    /\ TTL \subseteq Nat /\ maxCount \in Nat /\ MaxMsgs \in Nat /\ MaxTime \in Nat

VARIABLES
    now,         \* steady_clock
    subs,        \* exactSubs_ and wildcardSubs_: the subscribers in the router
    patternOf, durable,  \* pattern and TransientLocal of each subscriber
    handlers,    \* keys of serviceHandlers_
    serviceOf,   \* the service of each Replier, as a set of at most one
    alive,       \* subscribers whose State exists
    paused,      \* subscribers that are paused
    retained,    \* retained_: entries [topic, msg, storedAt, ttl]
    msgs,        \* messages so far
    wpc, wmsg, wtopic, wttl, targets,  \* each worker's call: step and locals
    opc, osub, olist,  \* each API thread's call: step, object, localTopics()
    topicsCb,    \* topicsChangedCb_ is set (until shutdown)
    announced,   \* localTopics_ of the discovery agent
    raced,       \* history: the last list was made while another thread was about
                 \* to announce one
    seen,        \* history: messages given to each subscriber's callback
    skipped,     \* history: messages a subscriber did not get while paused
    lastStored   \* history: latest entry stored for each topic

store == <<retained, lastStored, now>>
router == <<subs, patternOf, durable, handlers, serviceOf>>
work == <<msgs, wpc, wmsg, wtopic, wttl, targets>>
calls == <<opc, osub, olist>>
given == <<seen, skipped>>
notice == <<topicsCb, announced, raced>>
vars == <<store, router, alive, paused, work, calls, notice, given>>

Objects == Subs \cup Reps
NoTtl == 0
NotRetained == -1
Min2(a, b) == IF a < b THEN a ELSE b

Init ==
    /\ now = 0 /\ retained = {} /\ lastStored = {}
    /\ subs = {} /\ handlers = {} /\ alive = {} /\ paused = {}
    /\ patternOf = [s \in Subs |-> <<>>] /\ durable = {}
    /\ serviceOf = [r \in Reps |-> {}]
    /\ msgs = 0 /\ wpc = [w \in Workers |-> "idle"]
    /\ wmsg = [w \in Workers |-> 0] /\ wtopic = [w \in Workers |-> <<>>]
    /\ wttl = [w \in Workers |-> NotRetained] /\ targets = [w \in Workers |-> {}]
    /\ opc = [a \in Api |-> "idle"] /\ osub = [a \in Api |-> {}]
    /\ olist = [a \in Api |-> {}]
    /\ topicsCb = TRUE /\ announced = {} /\ raced = FALSE
    /\ seen = [s \in Subs |-> {}] /\ skipped = [s \in Subs |-> {}]

-----------------------------------------------------------------------------
(* TopicRouter: names.                                                      *)

\* split: an empty last segment is dropped.
Split(name) ==
    IF name[Len(name)] = "" THEN SubSeq(name, 1, Len(name) - 1) ELSE name

IsWildcard(pattern) == \E i \in DOMAIN pattern : pattern[i] \in WildSegments

\* matchWildcard: the loop stops at a '#', at a segment that differs, or where
\* the shorter of the two ends.
matchWildcard_AnyHash(pattern, topic) ==
    LET pat == Split(pattern)
        top == Split(topic)
        n == Min2(Len(pat), Len(top))
        stops == {i \in 1 .. n : pat[i] = "#" \/ pat[i] \notin {"*", top[i]}}
    IN  IF stops # {} THEN pat[Min(stops)] = "#"
        ELSE \/ n + 1 = Len(pat) /\ pat[n + 1] = "#"
             \/ n = Len(pat) /\ n = Len(top)
matchWildcard(pattern, topic) ==
    LET pat == Split(pattern)
        top == Split(topic)
        n == Min2(Len(pat), Len(top))
        stops == {i \in 1 .. n : pat[i] = "#" \/ pat[i] \notin {"*", top[i]}}
    IN  IF stops # {} THEN pat[Min(stops)] = "#" /\ Min(stops) = Len(pat)
        ELSE \/ n + 1 = Len(pat) /\ pat[n + 1] = "#"
             \/ n = Len(pat) /\ n = Len(top)

\* route: exact subscriptions by the name itself, the others by matching.
Receivers(topic) ==
    {s \in subs : IF IsWildcard(patternOf[s]) THEN matchWildcard(patternOf[s], topic)
                  ELSE patternOf[s] = topic}

\* MessageBus::localTopics, with allTopics of the router.
localTopics ==
    {<<"sub", patternOf[s]>> : s \in subs} \cup {<<"$SVC", x>> : x \in handlers}

-----------------------------------------------------------------------------
(* RetainedStore.                                                           *)

\* enforceMaxCountLocked: the oldest entry goes while there are too many.  One
\* store adds at most one entry.
Limited_DropsNewest(entries) ==
    IF maxCount = 0 \/ Cardinality(entries) <= maxCount THEN entries
    ELSE {e \in entries : \E f \in entries : e.storedAt < f.storedAt}
Limited(entries) ==
    IF maxCount = 0 \/ Cardinality(entries) <= maxCount THEN entries
    ELSE {e \in entries : \E f \in entries : f.storedAt < e.storedAt}

\* The order of a delivery: a message with the RETAIN flag is stored first.
StepAfter_RouteFirst(step, ttl) ==
    CASE step = "begin" -> "route"
      [] step = "route" /\ ttl # NotRetained -> "store"
      [] OTHER -> "call"
StepAfter(step, ttl) ==
    CASE step = "begin" /\ ttl # NotRetained -> "store"
      [] step = "route" -> "call"
      [] OTHER -> "route"

\* Every store reads a later time than the one before it.
Store(w) ==
    /\ wpc[w] = "store" /\ now < MaxTime
    /\ LET entry == [topic |-> wtopic[w], msg |-> wmsg[w],
                     storedAt |-> now + 1, ttl |-> wttl[w]]
           Others(entries) == {e \in entries : e.topic # wtopic[w]}
       IN  /\ retained' = Limited(Others(retained) \cup {entry})
           /\ lastStored' = Others(lastStored) \cup {entry}
    /\ now' = now + 1
    /\ wpc' = [wpc EXCEPT ![w] = StepAfter("store", wttl[w])]
    /\ UNCHANGED <<router, alive, paused, msgs, wmsg, wtopic, wttl, targets, calls,
                   notice, given>>

Stale(e) == e.ttl # NoTtl /\ now - e.storedAt >= e.ttl

\* expire, called by the bus's periodic task.
Expire ==
    /\ \E e \in retained : Stale(e)
    /\ retained' = {e \in retained : ~Stale(e)}
    /\ UNCHANGED <<now, lastStored, router, alive, paused, work, calls, notice, given>>

Tick ==
    /\ now < MaxTime /\ now' = now + 1
    /\ UNCHANGED <<retained, lastStored, router, alive, paused, work, calls,
                   notice, given>>

-----------------------------------------------------------------------------
(* Delivery: publish, the PUBLISH branch of onReceived, deliverWill.        *)

\* ttl is the lifespan of the message, or the store's default; it is NotRetained
\* for a message without the flag.
Deliver(w, topic, ttl) ==
    /\ wpc[w] = "idle" /\ msgs < MaxMsgs
    /\ msgs' = msgs + 1
    /\ wmsg' = [wmsg EXCEPT ![w] = msgs + 1]
    /\ wtopic' = [wtopic EXCEPT ![w] = topic]
    /\ wttl' = [wttl EXCEPT ![w] = ttl]
    /\ wpc' = [wpc EXCEPT ![w] = StepAfter("begin", ttl)]
    /\ UNCHANGED <<store, router, alive, paused, targets, calls, notice, given>>

\* route copies the callbacks under the shared lock.
Route(w) ==
    /\ wpc[w] = "route"
    /\ targets' = [targets EXCEPT ![w] = Receivers(wtopic[w])]
    /\ wpc' = [wpc EXCEPT ![w] = StepAfter("route", wttl[w])]
    /\ UNCHANGED <<store, router, alive, paused, msgs, wmsg, wtopic, wttl, calls,
                   notice, given>>

\* The callback of a subscriber that still exists and is not paused.
Give(s, m) ==
    /\ seen' = [seen EXCEPT ![s] = @ \cup IF s \in alive \ paused THEN {m} ELSE {}]
    /\ skipped' = [skipped EXCEPT ![s] = @ \cup IF s \in paused THEN {m} ELSE {}]

Call(w, s) ==
    /\ wpc[w] = "call" /\ s \in targets[w]
    /\ targets' = [targets EXCEPT ![w] = @ \ {s}]
    /\ Give(s, wmsg[w])
    /\ UNCHANGED <<store, router, alive, paused, msgs, wpc, wmsg, wtopic, wttl,
                   calls, notice>>

DeliverEnds(w) ==
    /\ wpc[w] = "call" /\ targets[w] = {}
    /\ wpc' = [wpc EXCEPT ![w] = "idle"] /\ wmsg' = [wmsg EXCEPT ![w] = 0]
    /\ wtopic' = [wtopic EXCEPT ![w] = <<>>] /\ wttl' = [wttl EXCEPT ![w] = NotRetained]
    /\ UNCHANGED <<store, router, alive, paused, msgs, targets, calls, notice, given>>

-----------------------------------------------------------------------------
(* createSubscriber, createReplier, ~Subscriber, ~Replier.                  *)

\* x stands for an object that nothing refers to: a new one may be made of it.
Unused(x) ==
    /\ \A a \in Api : x \notin osub[a]
    /\ \A w \in Workers : x \notin targets[w]
    /\ IF x \in Subs THEN patternOf[x] = <<>> ELSE serviceOf[x] = {}

\* The subscriber is in the router before it looks for a retained message.
AddSubscription(a, s, pattern, transientLocal) ==
    /\ opc[a] = "idle" /\ Unused(s)
    /\ subs' = subs \cup {s} /\ alive' = alive \cup {s}
    /\ patternOf' = [patternOf EXCEPT ![s] = pattern]
    /\ durable' = durable \cup IF transientLocal THEN {s} ELSE {}
    /\ osub' = [osub EXCEPT ![a] = {s}]
    /\ opc' = [opc EXCEPT ![a] = IF transientLocal THEN "replay" ELSE "list"]
    /\ UNCHANGED <<store, handlers, serviceOf, paused, work, olist, notice, given>>

\* The entry of exactly this name, for a wildcard pattern too.
get(topic) == {e \in retained : e.topic = topic}

Replay(a) ==
    /\ opc[a] = "replay"
    /\ \E s \in osub[a] :
         \/ get(patternOf[s]) = {} /\ UNCHANGED given
         \/ \E e \in get(patternOf[s]) : Give(s, e.msg)
    /\ opc' = [opc EXCEPT ![a] = "list"]
    /\ UNCHANGED <<store, router, alive, paused, work, osub, olist, notice>>

AddHandler(a, r, service) ==
    /\ opc[a] = "idle" /\ Unused(r)
    /\ handlers' = handlers \cup {service}
    /\ serviceOf' = [serviceOf EXCEPT ![r] = {service}]
    /\ osub' = [osub EXCEPT ![a] = {r}] /\ opc' = [opc EXCEPT ![a] = "list"]
    /\ UNCHANGED <<store, subs, patternOf, durable, alive, paused, work, olist,
                   notice, given>>

RemoveSubscription(a, s) ==
    /\ opc[a] = "idle" /\ s \in subs /\ \A b \in Api : s \notin osub[b]
    /\ subs' = subs \ {s} /\ durable' = durable \ {s}
    /\ patternOf' = [patternOf EXCEPT ![s] = <<>>]
    /\ osub' = [osub EXCEPT ![a] = {s}] /\ opc' = [opc EXCEPT ![a] = "changed"]
    /\ UNCHANGED <<store, handlers, serviceOf, alive, paused, work, olist, notice, given>>

\* The entry of the service goes, whichever Replier set it.
RemoveHandler(a, r) ==
    /\ opc[a] = "idle" /\ serviceOf[r] # {} /\ \A b \in Api : r \notin osub[b]
    /\ handlers' = handlers \ serviceOf[r]
    /\ serviceOf' = [serviceOf EXCEPT ![r] = {}]
    /\ osub' = [osub EXCEPT ![a] = {r}] /\ opc' = [opc EXCEPT ![a] = "changed"]
    /\ UNCHANGED <<store, subs, patternOf, durable, alive, paused, work, olist, notice,
                   given>>

Changed_Silent(a) ==
    /\ opc[a] = "changed"
    /\ opc' = [opc EXCEPT ![a] = "end"]
    /\ UNCHANGED <<store, router, alive, paused, work, osub, olist, notice, given>>
\* notifyTopicsChanged: nothing is announced once shutdown took the callback.
Changed(a) ==
    /\ opc[a] = "changed"
    /\ opc' = [opc EXCEPT ![a] = IF topicsCb THEN "list" ELSE "end"]
    /\ UNCHANGED <<store, router, alive, paused, work, osub, olist, notice, given>>

ListTopics(a) ==
    /\ opc[a] = "list"
    /\ olist' = [olist EXCEPT ![a] = localTopics]
    /\ raced' = \E b \in Api \ {a} : opc[b] = "announce"
    /\ opc' = [opc EXCEPT ![a] = "announce"]
    /\ UNCHANGED <<store, router, alive, paused, work, osub, topicsCb, announced,
                   given>>

\* announceTopics: the list is kept and sent.
Announce(a) ==
    /\ opc[a] = "announce"
    /\ announced' = olist[a] /\ olist' = [olist EXCEPT ![a] = {}]
    /\ opc' = [opc EXCEPT ![a] = "end"]
    /\ UNCHANGED <<store, router, alive, paused, work, osub, topicsCb, raced, given>>

\* The call returns; with a destructor the subscriber's State is gone.
Return(a) ==
    /\ opc[a] = "end"
    /\ LET gone == osub[a] \ subs
           Forget(given_) == [s \in Subs |-> IF s \in gone THEN {} ELSE given_[s]]
       IN  /\ alive' = alive \ gone /\ paused' = paused \ gone
           /\ seen' = Forget(seen) /\ skipped' = Forget(skipped)
    /\ osub' = [osub EXCEPT ![a] = {}] /\ opc' = [opc EXCEPT ![a] = "idle"]
    /\ UNCHANGED <<store, router, work, olist, notice>>

\* pause and resume of a subscriber the application holds.
Pause(s) ==
    /\ s \in subs /\ \A a \in Api : s \notin osub[a]
    /\ paused' = IF s \in paused THEN paused \ {s} ELSE paused \cup {s}
    /\ UNCHANGED <<store, router, alive, work, calls, notice, given>>

\* Participant::shutdown takes the callback away first.
Shutdown ==
    /\ topicsCb /\ topicsCb' = FALSE
    /\ UNCHANGED <<store, router, alive, paused, work, calls, announced, raced, given>>

-----------------------------------------------------------------------------
ApiStep(a) ==
    \/ Replay(a) \/ Changed(a) \/ ListTopics(a) \/ Announce(a) \/ Return(a)
    \/ \E s \in Subs :
         \/ RemoveSubscription(a, s)
         \/ \E p \in Patterns, d \in BOOLEAN : AddSubscription(a, s, p, d)
    \/ \E r \in Reps :
         \/ RemoveHandler(a, r)
         \/ \E x \in Services : AddHandler(a, r, x)
WorkStep(w) ==
    \/ Store(w) \/ Route(w) \/ DeliverEnds(w) \/ \E s \in Subs : Call(w, s)
    \/ \E t \in Topics, ttl \in TTL \cup {NotRetained} : Deliver(w, t, ttl)

Next ==
    \/ \E a \in Api : ApiStep(a)
    \/ \E w \in Workers : WorkStep(w)
    \/ \E s \in Subs : Pause(s)
    \/ Expire \/ Tick \/ Shutdown
Spec == Init /\ [][Next]_vars

-----------------------------------------------------------------------------
\* What a pattern means (topic_router.h:96, MQTT): '#' only at the end, for any
\* number of levels, none included; '*' for exactly one level.
Fits(p, t, n) == \A i \in 1 .. n : p[i] # "#" /\ (p[i] = "*" \/ p[i] = t[i])
Covers(p, t) ==
    \/ Len(p) = Len(t) /\ Fits(p, t, Len(p))
    \/ /\ p # <<>> /\ p[Len(p)] = "#"
       /\ Len(t) >= Len(p) - 1 /\ Fits(p, t, Len(p) - 1)

\* A message goes to exactly the subscribers in the router at that moment whose
\* pattern covers its topic, whatever subscriptions come and go meanwhile.
RoutesToMatching ==
    [][\A w \in Workers : wpc[w] = "route" /\ wpc'[w] = "call" =>
         targets'[w] = {s \in subs :
            IF IsWildcard(patternOf[s])
            THEN Covers(Split(patternOf[s]), Split(wtopic[w]))
            ELSE patternOf[s] = wtopic[w]}]_vars

\* A TransientLocal subscriber misses no retained message (message_bus.cpp:260):
\* the one that is retained now for its topic was given to it, or is about to
\* be by a thread that still routes it, or came while it was paused.
SeesRetained ==
    \A e \in retained, s \in durable \cap subs :
       patternOf[s] = e.topic /\ (\A a \in Api : s \notin osub[a]) =>
          \/ e.msg \in seen[s] \cup skipped[s]
          \/ \E w \in Workers :
               /\ wmsg[w] = e.msg
               /\ wpc[w] = "route" \/ (wpc[w] = "call" /\ s \in targets[w])

\* The retained store stays within its bound (retained_store.h:19) and drops
\* nothing but a message past its lifespan or one older than maxCount others.
DropsOnlyStaleOrOldest ==
    /\ maxCount # 0 => Cardinality(retained) <= maxCount
    /\ \A e \in lastStored :
         \/ e \in retained
         \/ Stale(e)
         \/ /\ maxCount # 0
            /\ Cardinality({f \in lastStored : f.storedAt > e.storedAt}) >= maxCount

\* What is announced is what the node handles whenever no thread is between its
\* change and its announcement (participant.cpp:57).  Only two threads that list
\* before either announces excuse it, until the next list that is made alone.
AnnouncesLocalTopics ==
    (\A a \in Api : opc[a] = "idle") /\ topicsCb /\ ~raced => announced = localTopics

\* A Replier that exists is reachable through its service.
ReplierReachable ==
    \A r \in Reps : serviceOf[r] # {} /\ (\A a \in Api : r \notin osub[a]) =>
       serviceOf[r] \subseteq handlers
=============================================================================
