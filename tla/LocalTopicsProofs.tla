------------------------- MODULE LocalTopicsProofs --------------------------
(***************************************************************************)
(* Routing, the retained store and the announced topics for any names, any *)
(* numbers of subscribers, repliers, threads, messages and any maxCount.   *)
(***************************************************************************)
EXTENDS LocalTopics, FiniteSetTheorems, SequenceTheorems, WellFoundedInduction, TLAPS

\* A set of naturals that is not empty has a least element.
LEMMA Smallest ==
    ASSUME NEW T \in SUBSET Nat, T # {}
    PROVE  \E x \in T : \A y \in T : x <= y
<1>1. PICK x \in T : \A y \in T : ~(<<y, x>> \in OpToRel(<, Nat))
  BY WFMin, NatLessThanWellFounded, Zenon
<1>2. \A y \in T : ~(y < x)
  BY <1>1 DEF OpToRel
<1> QED
  BY <1>2

-----------------------------------------------------------------------------
(* Types.                                                                  *)

Entry == [topic : Topics, msg : 1 .. MaxMsgs, storedAt : 1 .. MaxTime,
          ttl : TTL \cup {NotRetained}]
WorkStates == {"idle", "store", "route", "call"}
CallStates == {"idle", "replay", "list", "announce", "changed", "end"}
Listed == ({"sub"} \X Patterns) \cup ({"$SVC"} \X Services)

TypeOK ==
    /\ now \in 0 .. MaxTime
    /\ subs \subseteq Subs /\ durable \subseteq Subs
    /\ patternOf \in [Subs -> Patterns \cup {<<>>}]
    /\ handlers \subseteq Services /\ serviceOf \in [Reps -> SUBSET Services]
    /\ alive \subseteq Subs /\ paused \subseteq Subs
    /\ retained \subseteq Entry /\ lastStored \subseteq Entry
    /\ msgs \in 0 .. MaxMsgs
    /\ wpc \in [Workers -> WorkStates] /\ wmsg \in [Workers -> 0 .. MaxMsgs]
    /\ wtopic \in [Workers -> Topics \cup {<<>>}]
    /\ wttl \in [Workers -> TTL \cup {NotRetained}]
    /\ targets \in [Workers -> SUBSET Subs]
    /\ opc \in [Api -> CallStates] /\ osub \in [Api -> SUBSET Objects]
    /\ olist \in [Api -> SUBSET Listed]
    /\ topicsCb \in BOOLEAN /\ raced \in BOOLEAN
    /\ seen \in [Subs -> SUBSET (1 .. MaxMsgs)]
    /\ skipped \in [Subs -> SUBSET (1 .. MaxMsgs)]
    /\ \A w \in Workers : wpc[w] # "idle" => wmsg[w] \in 1 .. MaxMsgs /\ wtopic[w] \in Topics
    /\ \A s \in subs : patternOf[s] \in Patterns

LEMMA NextStep ==
    ASSUME NEW ttl \in TTL \cup {NotRetained}
    PROVE  /\ StepAfter("begin", ttl) \in {"store", "route"}
           /\ StepAfter("store", ttl) = "route"
           /\ StepAfter("route", ttl) = "call"
  BY DEF StepAfter

LEMMA GiveType ==
    ASSUME TypeOK, NEW s \in Subs, NEW m \in 1 .. MaxMsgs, Give(s, m)
    PROVE  /\ seen' \in [Subs -> SUBSET (1 .. MaxMsgs)]
           /\ skipped' \in [Subs -> SUBSET (1 .. MaxMsgs)]
  BY DEF Give, TypeOK

LEMMA TypeStep == TypeOK /\ [Next]_vars => TypeOK'
<1> SUFFICES ASSUME TypeOK, [Next]_vars PROVE TypeOK'
  OBVIOUS
<1> USE TopicsAssumption DEF store, router, work, calls, notice, given
<1>1. ASSUME NEW a \in Api, Replay(a) PROVE TypeOK'
  <2>1. seen' \in [Subs -> SUBSET (1 .. MaxMsgs)] /\ skipped' \in [Subs -> SUBSET (1 .. MaxMsgs)]
    <3>1. PICK s \in osub[a] : \/ UNCHANGED given
                               \/ \E e \in get(patternOf[s]) : Give(s, e.msg)
      BY <1>1 DEF Replay
    <3>2. CASE UNCHANGED given
      BY <3>2 DEF TypeOK
    <3>3. ASSUME NEW e \in get(patternOf[s]), Give(s, e.msg)
          PROVE  /\ seen' \in [Subs -> SUBSET (1 .. MaxMsgs)]
                 /\ skipped' \in [Subs -> SUBSET (1 .. MaxMsgs)]
      <4>1. e.msg \in 1 .. MaxMsgs
        BY DEF get, TypeOK, Entry
      <4> QED
        BY <3>3, <4>1 DEF Give, TypeOK
    <3> QED
      BY <3>1, <3>2, <3>3
  <2> QED
    BY <1>1, <2>1 DEF Replay, TypeOK, CallStates
<1>2. ASSUME NEW a \in Api, Changed(a) PROVE TypeOK'
  BY <1>2 DEF Changed, TypeOK, CallStates
<1>3. ASSUME NEW a \in Api, ListTopics(a) PROVE TypeOK'
  <2>1. localTopics \subseteq Listed
    BY DEF localTopics, Listed, TypeOK
  <2> QED
    BY <1>3, <2>1 DEF ListTopics, TypeOK, CallStates
<1>4. ASSUME NEW a \in Api, Announce(a) PROVE TypeOK'
  BY <1>4 DEF Announce, TypeOK, CallStates
<1>5. ASSUME NEW a \in Api, Return(a) PROVE TypeOK'
  BY <1>5 DEF Return, TypeOK, CallStates
<1>6. ASSUME NEW a \in Api, NEW s \in Subs, RemoveSubscription(a, s) PROVE TypeOK'
  BY <1>6 DEF RemoveSubscription, TypeOK, CallStates, Objects
<1>7. ASSUME NEW a \in Api, NEW s \in Subs, NEW p \in Patterns, NEW d \in BOOLEAN,
             AddSubscription(a, s, p, d)
      PROVE  TypeOK'
  BY <1>7 DEF AddSubscription, TypeOK, CallStates, Objects
<1>8. ASSUME NEW a \in Api, NEW r \in Reps, RemoveHandler(a, r) PROVE TypeOK'
  BY <1>8 DEF RemoveHandler, TypeOK, CallStates, Objects
<1>9. ASSUME NEW a \in Api, NEW r \in Reps, NEW x \in Services, AddHandler(a, r, x) PROVE TypeOK'
  BY <1>9 DEF AddHandler, TypeOK, CallStates, Objects
<1>10. ASSUME NEW w \in Workers, Store(w) PROVE TypeOK'
  <2> DEFINE entry == [topic |-> wtopic[w], msg |-> wmsg[w], storedAt |-> now + 1, ttl |-> wttl[w]]
  <2>1. now + 1 \in 1 .. MaxTime /\ now' = now + 1
    BY <1>10 DEF Store, TypeOK
  <2>2. entry \in Entry
    BY <1>10, <2>1 DEF Store, TypeOK, Entry
  <2>3. retained' \subseteq retained \cup {entry} /\ lastStored' \subseteq lastStored \cup {entry}
    BY <1>10 DEF Store, Limited
  <2>4. wpc' = [wpc EXCEPT ![w] = "route"]
    BY <1>10, NextStep DEF Store, TypeOK
  <2>5. /\ UNCHANGED <<router, alive, paused, msgs, wmsg, wtopic, wttl, targets, calls, topicsCb, raced, given>>
        /\ wpc[w] = "store"
    BY <1>10 DEF Store
  <2> HIDE DEF entry
  <2>6. /\ wpc' \in [Workers -> WorkStates]
        /\ \A v \in Workers : wpc'[v] # "idle" => wpc[v] # "idle"
    BY <2>4, <2>5 DEF TypeOK, WorkStates
  <2> QED
    BY <2>1, <2>2, <2>3, <2>5, <2>6 DEF TypeOK
<1>11. ASSUME NEW w \in Workers, Route(w) PROVE TypeOK'
  <2>1. wpc' = [wpc EXCEPT ![w] = "call"] /\ Receivers(wtopic[w]) \subseteq Subs
    BY <1>11, NextStep DEF Route, TypeOK, Receivers
  <2> QED
    BY <1>11, <2>1 DEF Route, TypeOK, WorkStates
<1>12. ASSUME NEW w \in Workers, DeliverEnds(w) PROVE TypeOK'
  BY <1>12 DEF DeliverEnds, TypeOK, WorkStates
<1>13. ASSUME NEW w \in Workers, NEW s \in Subs, Call(w, s) PROVE TypeOK'
  <2>1. wmsg[w] \in 1 .. MaxMsgs
    BY <1>13 DEF Call, TypeOK
  <2> QED
    BY <1>13, <2>1, GiveType DEF Call, TypeOK
<1>14. ASSUME NEW w \in Workers, NEW t \in Topics, NEW ttl \in TTL \cup {NotRetained}, Deliver(w, t, ttl)
       PROVE  TypeOK'
  <2>1. msgs + 1 \in 1 .. MaxMsgs
    BY <1>14 DEF Deliver, TypeOK
  <2> QED
    BY <1>14, <2>1, NextStep DEF Deliver, TypeOK, WorkStates
<1>15. ASSUME NEW s \in Subs, Pause(s) PROVE TypeOK'
  BY <1>15 DEF Pause, TypeOK
<1>16. CASE Expire \/ Tick \/ Shutdown
  <2>1. now' \in 0 .. MaxTime
    BY <1>16 DEF Expire, Tick, Shutdown, TypeOK
  <2>3. topicsCb' \in BOOLEAN /\ raced' \in BOOLEAN
    BY <1>16 DEF Expire, Tick, Shutdown, TypeOK
  <2>2. retained' \subseteq retained
    BY <1>16 DEF Expire, Tick, Shutdown
  <2> QED
    BY <1>16, <2>1, <2>2, <2>3 DEF Expire, Tick, Shutdown, TypeOK
<1>17. CASE UNCHANGED vars
  BY <1>17 DEF vars, TypeOK
<1> QED
  BY <1>1, <1>2, <1>3, <1>4, <1>5, <1>6, <1>7, <1>8, <1>9, <1>10, <1>11, <1>12, <1>13,
     <1>14, <1>15, <1>16, <1>17 DEF Next, ApiStep, WorkStep

LEMMA TypeCorrect == Spec => []TypeOK
<1>1. Init => TypeOK
  <2> SUFFICES ASSUME Init PROVE TypeOK
    OBVIOUS
  <2>1. topicsCb \in BOOLEAN /\ raced \in BOOLEAN
    BY DEF Init
  <2>2. now \in 0 .. MaxTime /\ msgs \in 0 .. MaxMsgs /\ wmsg \in [Workers -> 0 .. MaxMsgs]
    BY TopicsAssumption DEF Init
  <2> QED
    BY <2>1, <2>2 DEF Init, TypeOK, WorkStates, CallStates, NotRetained
<1> QED
  BY <1>1, TypeStep, PTL DEF Spec

-----------------------------------------------------------------------------
(* Routing.                                                                *)

\* A name that was split is a sequence of strings.
LEMMA SplitType ==
    ASSUME NEW name \in Seq(STRING) \ {<<>>}
    PROVE  Split(name) \in Seq(STRING)
<1>1. Len(name) \in Nat \ {0}
  BY EmptySeq
<1>2. SubSeq(name, 1, Len(name) - 1) \in Seq(STRING)
  BY <1>1, SubSeqProperties
<1> QED
  BY <1>2 DEF Split

\* The loop of matchWildcard decides what a pattern means: '*' is one level, a
\* last '#' any number of them, none included, and a '#' elsewhere nothing.
LEMMA MatchIsCovers ==
    ASSUME NEW pattern \in Seq(STRING) \ {<<>>}, NEW topic \in Seq(STRING) \ {<<>>}
    PROVE  matchWildcard(pattern, topic) <=> Covers(Split(pattern), Split(topic))
<1> DEFINE pat == Split(pattern)
           top == Split(topic)
           n == Min2(Len(pat), Len(top))
           stops == {i \in 1 .. n : pat[i] = "#" \/ pat[i] \notin {"*", top[i]}}
<1>1. /\ pat \in Seq(STRING) /\ top \in Seq(STRING)
      /\ Len(pat) \in Nat /\ Len(top) \in Nat /\ n \in Nat
      /\ n <= Len(pat) /\ n <= Len(top) /\ (n = Len(pat) \/ n = Len(top))
      /\ pat # <<>> <=> Len(pat) > 0
  BY SplitType DEF Min2
<1>2. matchWildcard(pattern, topic) <=>
        IF stops # {} THEN pat[Min(stops)] = "#" /\ Min(stops) = Len(pat)
        ELSE \/ n + 1 = Len(pat) /\ pat[n + 1] = "#"
             \/ n = Len(pat) /\ n = Len(top)
  BY DEF matchWildcard
<1> HIDE DEF pat, top, n
<1>3. \A i \in 1 .. n : i \notin stops <=> pat[i] # "#" /\ (pat[i] = "*" \/ pat[i] = top[i])
  OBVIOUS
<1>4. CASE stops # {}
  <2>1. \E m \in stops : \A j \in stops : m <= j
    <3>1. stops \in SUBSET Nat
      BY <1>1
    <3> HIDE DEF stops
    <3> QED
      BY <1>4, <3>1, Smallest
  <2> DEFINE m == Min(stops)
  <2>2. m \in stops /\ \A j \in stops : m <= j
    BY <2>1 DEF Min
  <2>3. m \in 1 .. n
    BY <2>2
  <2> HIDE DEF m, stops
  <2>4. Fits(pat, top, m - 1)
    BY <1>1, <1>3, <2>2, <2>3 DEF Fits
  <2>5. ASSUME pat[m] = "#", m = Len(pat) PROVE Covers(pat, top)
    BY <1>1, <2>3, <2>4, <2>5 DEF Covers
  <2>6. ASSUME Covers(pat, top) PROVE pat[m] = "#" /\ m = Len(pat)
    <3>1. \A k \in Nat : Fits(pat, top, k) => k < m
      BY <1>1, <1>3, <2>2, <2>3 DEF Fits
    <3>2. CASE Len(pat) = Len(top) /\ Fits(pat, top, Len(pat))
      BY <1>1, <2>3, <3>1, <3>2
    <3>3. CASE pat # <<>> /\ pat[Len(pat)] = "#" /\ Fits(pat, top, Len(pat) - 1)
      BY <1>1, <2>3, <3>1, <3>3
    <3> QED
      BY <2>6, <3>2, <3>3 DEF Covers
  <2> QED
    BY <1>2, <1>4, <2>5, <2>6 DEF pat, top, m
<1>5. CASE stops = {}
  <2>1. \A i \in 1 .. n : pat[i] # "#" /\ (pat[i] = "*" \/ pat[i] = top[i])
    BY <1>3, <1>5
  <2> HIDE DEF stops
  <2>2. ASSUME n + 1 = Len(pat), pat[n + 1] = "#" PROVE Covers(pat, top)
    BY <1>1, <2>1, <2>2 DEF Covers, Fits
  <2>3. ASSUME n = Len(pat), n = Len(top) PROVE Covers(pat, top)
    BY <1>1, <2>1, <2>3 DEF Covers, Fits
  <2>4. ASSUME Covers(pat, top)
        PROVE  \/ n + 1 = Len(pat) /\ pat[n + 1] = "#"
               \/ n = Len(pat) /\ n = Len(top)
    BY <1>1, <2>1, <2>4 DEF Covers
  <2> QED
    BY <1>2, <1>5, <2>2, <2>3, <2>4 DEF pat, top
<1> QED
  BY <1>4, <1>5

\* route delivers to exactly the subscribers whose pattern covers the topic,
\* in every interleaving with subscriptions that come and go.
THEOREM RoutesToMatchingHolds == Spec => RoutesToMatching
<1>1. ASSUME TypeOK, [Next]_vars, NEW w \in Workers, wpc[w] = "route", wpc'[w] = "call"
      PROVE  targets'[w] = {s \in subs :
                 IF IsWildcard(patternOf[s])
                 THEN Covers(Split(patternOf[s]), Split(wtopic[w]))
                 ELSE patternOf[s] = wtopic[w]}
  <2>1. Route(w)
    <3> USE <1>1 DEF store, router, work, calls, notice, given
    <3>1. ASSUME NEW v \in Workers, v # w, wpc' = [wpc EXCEPT ![v] = wpc'[v]] PROVE FALSE
      BY <3>1 DEF TypeOK
    <3>2. wpc' # wpc
      OBVIOUS
    <3>3. ASSUME NEW a \in Api, ApiStep(a) PROVE FALSE
      BY <3>2, <3>3 DEF ApiStep, Replay, Changed, ListTopics, Announce, Return,
           RemoveSubscription, AddSubscription, RemoveHandler, AddHandler
    <3>4. ASSUME NEW v \in Workers, WorkStep(v) PROVE Route(w)
      <4>1. v = w
        BY <3>1, <3>2, <3>4 DEF WorkStep, Store, Route, DeliverEnds, Call, Deliver, TypeOK
      <4> QED
        BY <3>2, <3>4, <4>1 DEF WorkStep, Store, DeliverEnds, Call, Deliver
    <3> QED
      BY <3>2, <3>3, <3>4 DEF Next, Pause, Expire, Tick, Shutdown, vars
  <2>2. wtopic[w] \in Seq(STRING) \ {<<>>}
    BY <1>1, TopicsAssumption DEF TypeOK
  <2>3. \A s \in subs : patternOf[s] \in Seq(STRING) \ {<<>>}
    BY <1>1, TopicsAssumption DEF TypeOK
  <2>4. targets'[w] = Receivers(wtopic[w])
    BY <1>1, <2>1 DEF Route, TypeOK
  <2> QED
    BY <2>2, <2>3, <2>4, MatchIsCovers DEF Receivers
<1>2. TypeOK /\ [Next]_vars =>
        [\A w \in Workers : wpc[w] = "route" /\ wpc'[w] = "call" =>
           targets'[w] = {s \in subs :
              IF IsWildcard(patternOf[s])
              THEN Covers(Split(patternOf[s]), Split(wtopic[w]))
              ELSE patternOf[s] = wtopic[w]}]_vars
  BY <1>1
<1> QED
  BY <1>2, TypeCorrect, PTL DEF Spec, RoutesToMatching

-----------------------------------------------------------------------------
(* Late joiners: TransientLocal subscribers and the retained store.        *)

\* A subscriber in the router exists; a subscriber has a pattern before it is
\* durable; a call that replays has one subscriber.
Known ==
    /\ subs \subseteq alive
    /\ \A s \in durable : patternOf[s] # <<>>
    /\ \A a \in Api : opc[a] = "replay" => \E s \in osub[a] : osub[a] = {s}

\* One entry for each topic, and a message belongs to one worker and one topic.
OneEach ==
    /\ \A e, f \in retained : e.topic = f.topic => e = f
    /\ \A e \in retained : e.msg <= msgs
    /\ \A w \in Workers : wmsg[w] <= msgs
    /\ \A v, w \in Workers : wmsg[v] = wmsg[w] /\ wmsg[v] # 0 => v = w
    /\ \A e \in retained, w \in Workers : wmsg[w] = e.msg => wtopic[w] = e.topic

\* s got the entry, or a worker that routes it will give it to s, or the call
\* that created s has still to look for it.
Got(e, s) == e.msg \in seen[s] \cup skipped[s]
OnItsWay(e, s) ==
    \E w \in Workers :
        /\ wmsg[w] = e.msg
        /\ wpc[w] = "route" \/ (wpc[w] = "call" /\ s \in targets[w])
Replaying(s) == \E a \in Api : s \in osub[a] /\ opc[a] = "replay"

SeesOrWillSee ==
    \A e \in retained, s \in durable \cap subs :
        patternOf[s] = e.topic => Got(e, s) \/ OnItsWay(e, s) \/ Replaying(s)

LateJoiner == Known /\ OneEach /\ SeesOrWillSee

LEMMA KnownStep == TypeOK /\ Known /\ [Next]_vars => Known'
<1> SUFFICES ASSUME TypeOK, Known, [Next]_vars PROVE Known'
  OBVIOUS
<1> USE DEF store, router, work, calls, notice, given
<1>1. CASE UNCHANGED <<subs, alive, durable, patternOf, opc, osub>>
  BY <1>1 DEF Known
<1>2. ASSUME NEW w \in Workers, WorkStep(w) PROVE Known'
  BY <1>1, <1>2 DEF WorkStep, Store, Route, DeliverEnds, Call, Deliver
<1>3. ASSUME NEW a \in Api, NEW s \in Subs, NEW p \in Patterns, NEW d \in BOOLEAN,
             AddSubscription(a, s, p, d)
      PROVE  Known'
  <2>1. p # <<>>
    BY TopicsAssumption
  <2>2. \A b \in Api : opc'[b] = "replay" => \E x \in osub'[b] : osub'[b] = {x}
    BY <1>3 DEF AddSubscription, Known, TypeOK
  <2> QED
    BY <1>3, <2>1, <2>2 DEF AddSubscription, Known, TypeOK
<1>4. ASSUME NEW a \in Api, NEW s \in Subs, RemoveSubscription(a, s) PROVE Known'
  BY <1>4 DEF RemoveSubscription, Known, TypeOK
<1>5. ASSUME NEW a \in Api, NEW r \in Reps, RemoveHandler(a, r) PROVE Known'
  BY <1>5 DEF RemoveHandler, Known, TypeOK
<1>6. ASSUME NEW a \in Api, NEW r \in Reps, NEW x \in Services, AddHandler(a, r, x) PROVE Known'
  BY <1>6 DEF AddHandler, Known, TypeOK
<1>7. ASSUME NEW a \in Api, Replay(a) \/ Changed(a) \/ ListTopics(a) \/ Announce(a) PROVE Known'
  BY <1>7 DEF Replay, Changed, ListTopics, Announce, Known, TypeOK
<1>8. ASSUME NEW a \in Api, Return(a) PROVE Known'
  BY <1>8 DEF Return, Known, TypeOK
<1> QED
  BY <1>1, <1>2, <1>3, <1>4, <1>5, <1>6, <1>7, <1>8
     DEF Next, ApiStep, Pause, Expire, Tick, Shutdown, vars

LEMMA OneEachStep == TypeOK /\ OneEach /\ [Next]_vars => OneEach'
<1> SUFFICES ASSUME TypeOK, OneEach, [Next]_vars PROVE OneEach'
  OBVIOUS
<1> USE DEF store, router, work, calls, notice, given
<1>1. CASE UNCHANGED <<msgs, wmsg, wtopic>> /\ retained' \subseteq retained
  BY <1>1 DEF OneEach
<1>2. ASSUME NEW a \in Api, ApiStep(a) PROVE OneEach'
  BY <1>1, <1>2 DEF ApiStep, Replay, Changed, ListTopics, Announce, Return,
       RemoveSubscription, AddSubscription, RemoveHandler, AddHandler
<1>3. ASSUME NEW w \in Workers, Store(w) PROVE OneEach'
  <2> DEFINE entry == [topic |-> wtopic[w], msg |-> wmsg[w], storedAt |-> now + 1, ttl |-> wttl[w]]
  <2>1. retained' \subseteq {e \in retained : e.topic # wtopic[w]} \cup {entry}
    BY <1>3 DEF Store, Limited
  <2>2. UNCHANGED <<msgs, wmsg, wtopic>>
    BY <1>3 DEF Store
  <2>3. entry.topic = wtopic[w] /\ entry.msg = wmsg[w]
    OBVIOUS
  <2>4. wmsg[w] # 0
    <3>1. wmsg[w] \in 1 .. MaxMsgs
      BY <1>3 DEF Store, TypeOK
    <3> QED
      BY <3>1, TopicsAssumption
  <2> HIDE DEF entry
  <2> QED
    BY <2>1, <2>2, <2>3, <2>4 DEF OneEach
<1>4. ASSUME NEW w \in Workers, Route(w) \/ \E s \in Subs : Call(w, s) PROVE OneEach'
  BY <1>1, <1>4 DEF Route, Call
<1>5. ASSUME NEW w \in Workers, DeliverEnds(w) PROVE OneEach'
  <2>1. UNCHANGED <<msgs, retained>>
    BY <1>5 DEF DeliverEnds
  <2>2. \A v \in Workers : \/ v = w /\ wmsg'[v] = 0
                           \/ wmsg'[v] = wmsg[v] /\ wtopic'[v] = wtopic[v]
    BY <1>5 DEF DeliverEnds, TypeOK
  <2>3. \A e \in retained : e.msg # 0
    BY DEF TypeOK, Entry
  <2>4. 0 <= msgs
    BY DEF TypeOK
  <2> QED
    BY <2>1, <2>2, <2>3, <2>4 DEF OneEach
<1>6. ASSUME NEW w \in Workers, NEW t \in Topics, NEW ttl \in TTL \cup {NotRetained}, Deliver(w, t, ttl)
      PROVE  OneEach'
  <2>1. msgs' = msgs + 1 /\ retained' = retained
    BY <1>6 DEF Deliver
  <2>2. \A v \in Workers : \/ v = w /\ wmsg'[v] = msgs + 1
                           \/ v # w /\ wmsg'[v] = wmsg[v] /\ wtopic'[v] = wtopic[v]
    BY <1>6 DEF Deliver, TypeOK
  <2>3. msgs \in Nat /\ (\A e \in retained : e.msg \in Nat) /\ \A v \in Workers : wmsg[v] \in Nat
    BY DEF TypeOK, Entry
  <2> QED
    BY <2>1, <2>2, <2>3 DEF OneEach
<1>7. CASE (\E s \in Subs : Pause(s)) \/ Expire \/ Tick \/ Shutdown \/ UNCHANGED vars
  BY <1>1, <1>7 DEF Pause, Expire, Tick, Shutdown, vars
<1> QED
  BY <1>2, <1>3, <1>4, <1>5, <1>6, <1>7 DEF Next, WorkStep

\* A callback that is made for a subscriber in the router is seen or skipped.
LEMMA GiveGives ==
    ASSUME TypeOK, Known, NEW s \in subs, NEW m \in 1 .. MaxMsgs, Give(s, m)
    PROVE  m \in seen'[s] \cup skipped'[s]
  BY DEF Give, Known, TypeOK

LEMMA GiveKeeps ==
    ASSUME TypeOK, NEW s \in Subs, NEW m \in 1 .. MaxMsgs, Give(s, m), NEW x \in Subs
    PROVE  seen[x] \subseteq seen'[x] /\ skipped[x] \subseteq skipped'[x]
  BY DEF Give, TypeOK

LEMMA SeesStep ==
    ASSUME \A t \in Topics : ~IsWildcard(t)
    PROVE  TypeOK /\ LateJoiner /\ [Next]_vars => SeesOrWillSee'
<1> SUFFICES ASSUME TypeOK, LateJoiner, [Next]_vars,
                    NEW e \in retained', NEW s \in durable' \cap subs', patternOf'[s] = e.topic
             PROVE  Got(e, s)' \/ OnItsWay(e, s)' \/ Replaying(s)'
  BY DEF SeesOrWillSee
<1> USE DEF store, router, work, calls, notice, given
<1> DEFINE Goal == Got(e, s)' \/ OnItsWay(e, s)' \/ Replaying(s)'
<1>0. /\ Known /\ OneEach /\ TypeOK
      /\ e \in retained /\ s \in durable \cap subs /\ patternOf[s] = e.topic
         => Got(e, s) \/ OnItsWay(e, s) \/ Replaying(s)
  BY DEF LateJoiner, SeesOrWillSee
<1>1. CASE /\ UNCHANGED <<subs, durable, patternOf, seen, skipped, wmsg, wpc, targets, opc, osub>>
           /\ retained' \subseteq retained
  BY <1>0, <1>1 DEF Got, OnItsWay, Replaying
<1>2. ASSUME NEW a \in Api, Replay(a) PROVE Goal
  <2>1. PICK x \in osub[a] : \/ get(patternOf[x]) = {} /\ UNCHANGED given
                             \/ \E f \in get(patternOf[x]) : Give(x, f.msg)
    BY <1>2 DEF Replay
  <2>2. osub[a] = {x}
    BY <1>0, <1>2, <2>1 DEF Known, Replay
  <2>3. /\ UNCHANGED <<subs, durable, patternOf, retained, wmsg, wpc, targets, osub>>
        /\ \A b \in Api : b # a => opc'[b] = opc[b]
    BY <1>2 DEF Replay, TypeOK
  <2>4. s \in subs /\ s \in Subs /\ e \in retained /\ e.msg \in 1 .. MaxMsgs
    BY <2>3 DEF TypeOK, Entry
  <2>5. CASE x = s
    <3>1. e \in get(patternOf[x])
      BY <2>3, <2>4, <2>5 DEF get
    <3>2. PICK f \in get(patternOf[x]) : Give(x, f.msg)
      BY <2>1, <3>1
    <3>3. f = e
      BY <1>0, <2>3, <2>4, <2>5, <3>1, <3>2 DEF get, OneEach
    <3>4. Got(e, s)'
      BY <1>0, <2>4, <2>5, <3>2, <3>3, GiveGives DEF Got
    <3> QED
      BY <3>4
  <2>6. CASE x # s
    <3>1. seen[s] = seen'[s] /\ skipped[s] = skipped'[s]
      BY <2>1, <2>4, <2>6 DEF Give, TypeOK
    <3>2. OnItsWay(e, s) => OnItsWay(e, s)'
      BY <2>3 DEF OnItsWay
    <3>3. Replaying(s) => Replaying(s)'
      BY <2>2, <2>3, <2>6 DEF Replaying
    <3>4. Got(e, s) => Got(e, s)'
      BY <3>1 DEF Got
    <3> QED
      BY <1>0, <2>3, <2>4, <3>2, <3>3, <3>4
  <2> QED
    BY <2>5, <2>6
<1>3. ASSUME NEW a \in Api,
             \/ Changed(a) \/ ListTopics(a) \/ Announce(a)
             \/ \E r \in Reps : RemoveHandler(a, r) \/ \E y \in Services : AddHandler(a, r, y)
      PROVE  Goal
  <2>1. UNCHANGED <<subs, durable, patternOf, retained, seen, skipped, wmsg, wpc, targets>>
    BY <1>3 DEF Changed, ListTopics, Announce, RemoveHandler, AddHandler
  <2>2. opc[a] # "replay"
    BY <1>3 DEF Changed, ListTopics, Announce, RemoveHandler, AddHandler
  <2>3. \A b \in Api : b # a => opc'[b] = opc[b] /\ osub'[b] = osub[b]
    BY <1>3 DEF Changed, ListTopics, Announce, RemoveHandler, AddHandler, TypeOK
  <2> QED
    BY <1>0, <2>1, <2>2, <2>3 DEF Got, OnItsWay, Replaying
<1>11. ASSUME NEW a \in Api, Return(a) PROVE Goal
  <2>1. UNCHANGED <<subs, durable, patternOf, retained, wmsg, wpc, targets>> /\ opc[a] = "end"
    BY <1>11 DEF Return
  <2>2. s \in subs /\ s \in Subs
    BY <2>1 DEF TypeOK
  <2>3. seen'[s] = seen[s] /\ skipped'[s] = skipped[s]
    BY <1>11, <2>2 DEF Return
  <2>4. \A b \in Api : b # a => opc'[b] = opc[b] /\ osub'[b] = osub[b]
    BY <1>11 DEF Return, TypeOK
  <2> QED
    BY <1>0, <2>1, <2>3, <2>4 DEF Got, OnItsWay, Replaying
<1>12. ASSUME NEW a \in Api, NEW x \in Subs, RemoveSubscription(a, x) PROVE Goal
  <2>1. UNCHANGED <<retained, seen, skipped, wmsg, wpc, targets>> /\ opc[a] = "idle"
    BY <1>12 DEF RemoveSubscription
  <2>2. s # x /\ s \in durable \cap subs /\ patternOf'[s] = patternOf[s]
    BY <1>12 DEF RemoveSubscription, TypeOK
  <2>3. \A b \in Api : b # a => opc'[b] = opc[b] /\ osub'[b] = osub[b]
    BY <1>12 DEF RemoveSubscription, TypeOK
  <2> QED
    BY <1>0, <2>1, <2>2, <2>3 DEF Got, OnItsWay, Replaying
<1>4. ASSUME NEW a \in Api, NEW x \in Subs, NEW p \in Patterns, NEW d \in BOOLEAN,
             AddSubscription(a, x, p, d)
      PROVE  Goal
  <2>1. /\ UNCHANGED <<retained, seen, skipped, wmsg, wpc, targets>>
        /\ opc[a] = "idle"
        /\ \A b \in Api : b # a => opc'[b] = opc[b] /\ osub'[b] = osub[b]
    BY <1>4 DEF AddSubscription, TypeOK
  <2>2. CASE x = s
    <3>1. s \notin durable
      BY <1>0, <1>4, <2>2 DEF Known, AddSubscription, Unused
    <3>2. d
      BY <1>4, <3>1 DEF AddSubscription
    <3>3. s \in osub'[a] /\ opc'[a] = "replay"
      BY <1>4, <2>2, <3>2 DEF AddSubscription, TypeOK
    <3> QED
      BY <3>3 DEF Replaying
  <2>3. CASE x # s
    <3>1. s \in durable \cap subs /\ patternOf[s] = e.topic /\ e \in retained
      BY <1>4, <2>1, <2>3 DEF AddSubscription, TypeOK
    <3> QED
      BY <1>0, <2>1, <3>1 DEF Got, OnItsWay, Replaying
  <2> QED
    BY <2>2, <2>3
<1>5. ASSUME NEW w \in Workers, Store(w) PROVE Goal
  <2> DEFINE entry == [topic |-> wtopic[w], msg |-> wmsg[w], storedAt |-> now + 1, ttl |-> wttl[w]]
  <2>1. e \in retained \/ e = entry
    BY <1>5 DEF Store, Limited
  <2>2. /\ UNCHANGED <<subs, durable, patternOf, seen, skipped, wmsg, targets, opc, osub>>
        /\ wpc[w] = "store" /\ wpc' = [wpc EXCEPT ![w] = "route"]
    BY <1>5, NextStep DEF Store, TypeOK
  <2>3. wpc'[w] = "route" /\ \A v \in Workers : v # w => wpc'[v] = wpc[v]
    BY <2>2 DEF TypeOK
  <2>4. CASE e = entry
    <3>1. wmsg'[w] = e.msg
      BY <2>2, <2>4
    <3> QED
      BY <2>3, <3>1 DEF OnItsWay
  <2>5. CASE e \in retained
    BY <1>0, <2>2, <2>3, <2>5 DEF Got, OnItsWay, Replaying
  <2> QED
    BY <2>1, <2>4, <2>5
<1>6. ASSUME NEW w \in Workers, Route(w) PROVE Goal
  <2>1. /\ UNCHANGED <<retained, subs, durable, patternOf, seen, skipped, wmsg, opc, osub>>
        /\ wpc' = [wpc EXCEPT ![w] = "call"]
        /\ targets' = [targets EXCEPT ![w] = Receivers(wtopic[w])]
    BY <1>6, NextStep DEF Route, TypeOK
  <2>2. /\ wpc'[w] = "call" /\ targets'[w] = Receivers(wtopic[w])
        /\ \A v \in Workers : v # w => wpc'[v] = wpc[v] /\ targets'[v] = targets[v]
    BY <2>1 DEF TypeOK
  <2>3. e.topic \in Topics
    BY <2>1 DEF TypeOK, Entry
  <2>4. wmsg[w] = e.msg => s \in Receivers(wtopic[w])
    BY <1>0, <2>1, <2>3 DEF OneEach, Receivers
  <2> QED
    BY <1>0, <2>1, <2>2, <2>4 DEF Got, OnItsWay, Replaying
<1>7. ASSUME NEW w \in Workers, NEW x \in Subs, Call(w, x) PROVE Goal
  <2>1. /\ UNCHANGED <<retained, subs, durable, patternOf, wmsg, wpc, opc, osub>>
        /\ wpc[w] = "call" /\ Give(x, wmsg[w])
        /\ \A v \in Workers : targets'[v] = IF v = w THEN targets[v] \ {x} ELSE targets[v]
    BY <1>7 DEF Call, TypeOK
  <2>2. wmsg[w] \in 1 .. MaxMsgs
    BY <2>1 DEF TypeOK
  <2>3. s \in Subs /\ s \in subs
    BY <2>1 DEF TypeOK
  <2>4. Got(e, s) => Got(e, s)'
    BY <2>1, <2>2, <2>3, GiveKeeps DEF Got
  <2>5. x = s /\ wmsg[w] = e.msg => Got(e, s)'
    BY <1>0, <2>1, <2>2, <2>3, GiveGives DEF Got
  <2>6. OnItsWay(e, s) => OnItsWay(e, s)' \/ (x = s /\ wmsg[w] = e.msg)
    BY <2>1 DEF OnItsWay
  <2> QED
    BY <1>0, <2>1, <2>4, <2>5, <2>6 DEF Replaying
<1>8. ASSUME NEW w \in Workers, DeliverEnds(w) PROVE Goal
  <2>1. /\ UNCHANGED <<retained, subs, durable, patternOf, seen, skipped, targets, opc, osub>>
        /\ wpc[w] = "call" /\ targets[w] = {}
        /\ \A v \in Workers : v # w => wpc'[v] = wpc[v] /\ wmsg'[v] = wmsg[v]
    BY <1>8 DEF DeliverEnds, TypeOK
  <2> QED
    BY <1>0, <2>1 DEF Got, OnItsWay, Replaying
<1>9. ASSUME NEW w \in Workers, NEW t \in Topics, NEW ttl \in TTL \cup {NotRetained}, Deliver(w, t, ttl)
      PROVE  Goal
  <2>1. /\ UNCHANGED <<retained, subs, durable, patternOf, seen, skipped, targets, opc, osub>>
        /\ wpc[w] = "idle"
        /\ \A v \in Workers : v # w => wpc'[v] = wpc[v] /\ wmsg'[v] = wmsg[v]
    BY <1>9 DEF Deliver, TypeOK
  <2> QED
    BY <1>0, <2>1 DEF Got, OnItsWay, Replaying
<1>10. CASE (\E x \in Subs : Pause(x)) \/ Expire \/ Tick \/ Shutdown \/ UNCHANGED vars
  BY <1>1, <1>10 DEF Pause, Expire, Tick, Shutdown, vars
<1> QED
  BY <1>2, <1>3, <1>4, <1>5, <1>6, <1>7, <1>8, <1>9, <1>10, <1>11, <1>12
     DEF Next, ApiStep, WorkStep

\* No TransientLocal subscriber misses the retained message of its topic, in
\* every interleaving of the store, the router and createSubscriber.  A topic
\* with a '*' or '#' in it is left out: route would not give it to the
\* subscriber of that very name.
THEOREM SeesRetainedHolds ==
    ASSUME \A t \in Topics : ~IsWildcard(t)
    PROVE  Spec => []SeesRetained
<1>1. Init => LateJoiner
  BY DEF Init, LateJoiner, Known, OneEach, SeesOrWillSee
<1>2. TypeOK /\ LateJoiner /\ [Next]_vars => LateJoiner'
  BY KnownStep, OneEachStep, SeesStep DEF LateJoiner
<1>3. LateJoiner => SeesRetained
  BY DEF LateJoiner, SeesOrWillSee, SeesRetained, Got, OnItsWay, Replaying
<1> QED
  BY <1>1, <1>2, <1>3, TypeCorrect, PTL DEF Spec

-----------------------------------------------------------------------------
(* The bound of the retained store.                                        *)

\* What is retained is the latest of its topic; every store has its own time.
Latest ==
    /\ retained \subseteq lastStored
    /\ \A e, f \in lastStored : e.topic = f.topic \/ e.storedAt = f.storedAt => e = f
    /\ \A e \in lastStored : e.storedAt <= now
    /\ IsFiniteSet(lastStored)

\* enforceMaxCountLocked brings a store that took one entry back to its bound.
LEMMA LimitedBound ==
    ASSUME NEW S, IsFiniteSet(S), \A e \in S : e.storedAt \in Nat,
           maxCount # 0 => Cardinality(S) <= maxCount + 1
    PROVE  /\ Limited(S) \subseteq S
           /\ maxCount # 0 => Cardinality(Limited(S)) <= maxCount
<1>1. Limited(S) \subseteq S /\ IsFiniteSet(Limited(S)) /\ Cardinality(S) \in Nat
  BY FS_Subset, FS_CardinalityType DEF Limited
<1>2. ASSUME maxCount # 0, ~(Cardinality(S) <= maxCount)
      PROVE  Cardinality(Limited(S)) <= maxCount
  <2>1. S # {}
    BY <1>2, FS_EmptySet, TopicsAssumption
  <2>2. {f.storedAt : f \in S} \in SUBSET Nat /\ {f.storedAt : f \in S} # {}
    BY <2>1
  <2>3. PICK x \in {f.storedAt : f \in S} : \A y \in {f.storedAt : f \in S} : x <= y
    BY <2>2, Smallest
  <2>4. PICK e \in S : \A f \in S : e.storedAt <= f.storedAt
    BY <2>3
  <2>5. Limited(S) \subseteq S \ {e}
    BY <1>2, <2>4 DEF Limited
  <2>6. IsFiniteSet(S \ {e}) /\ Cardinality(S \ {e}) = Cardinality(S) - 1
    BY <2>4, FS_RemoveElement
  <2>7. Cardinality(Limited(S)) <= Cardinality(S \ {e})
    BY <2>5, <2>6, FS_Subset
  <2>8. Cardinality(Limited(S)) \in Nat
    BY <1>1, FS_CardinalityType
  <2> QED
    BY <1>1, <1>2, <2>6, <2>7, <2>8, TopicsAssumption
<1>3. ASSUME maxCount # 0, Cardinality(S) <= maxCount
      PROVE  Cardinality(Limited(S)) <= maxCount
  BY <1>3 DEF Limited
<1> QED
  BY <1>1, <1>2, <1>3

LEMMA EntryFields ==
    ASSUME NEW e \in Entry
    PROVE  e.storedAt \in Nat /\ e.ttl \in Int /\ e.topic \in Topics
<1>1. e.storedAt \in 1 .. MaxTime /\ e.ttl \in TTL \cup {-1} /\ e.topic \in Topics
  BY DEF Entry, NotRetained
<1>2. e.storedAt \in Nat
  BY <1>1, TopicsAssumption
<1>3. TTL \subseteq Int /\ -1 \in Int
  BY TopicsAssumption
<1> QED
  BY <1>1, <1>2, <1>3, Zenon

\* The store of one message.
LEMMA LatestStore ==
    ASSUME TypeOK, Latest, NEW w \in Workers, Store(w)
    PROVE  Latest'
<1> DEFINE entry == [topic |-> wtopic[w], msg |-> wmsg[w], storedAt |-> now + 1, ttl |-> wttl[w]]
<1>1. /\ retained' = Limited({e \in retained : e.topic # wtopic[w]} \cup {entry})
      /\ lastStored' = {e \in lastStored : e.topic # wtopic[w]} \cup {entry}
      /\ now' = now + 1
  BY DEF Store
<1>2. entry.topic = wtopic[w] /\ entry.storedAt = now + 1
  OBVIOUS
<1> HIDE DEF entry
<1>3. now \in Nat /\ \A e \in lastStored : e.storedAt \in Nat
  BY EntryFields DEF TypeOK
<1>4. retained' \subseteq lastStored'
  BY <1>1 DEF Latest, Limited
<1>5. IsFiniteSet(lastStored')
  <2>1. {e \in lastStored : e.topic # wtopic[w]} \in SUBSET lastStored
    OBVIOUS
  <2>2. IsFiniteSet({e \in lastStored : e.topic # wtopic[w]})
    BY <2>1, FS_Subset DEF Latest
  <2> QED
    BY <1>1, <2>2, FS_AddElement
<1> QED
  BY <1>1, <1>2, <1>3, <1>4, <1>5 DEF Latest

\* Nothing but Store and Expire touches the store.
LEMMA StoreSteps ==
    ASSUME [Next]_vars
    PROVE  \/ \E w \in Workers : Store(w)
           \/ Expire
           \/ UNCHANGED <<retained, lastStored>> /\ (now' = now \/ (now' = now + 1 /\ now < MaxTime))
<1> USE DEF store, router, work, calls, notice, given
<1>1. ASSUME NEW a \in Api, ApiStep(a) PROVE UNCHANGED store
  BY <1>1 DEF ApiStep, Replay, Changed, ListTopics, Announce, Return,
              RemoveSubscription, AddSubscription, RemoveHandler, AddHandler
<1>2. ASSUME NEW w \in Workers, WorkStep(w), ~Store(w) PROVE UNCHANGED store
  BY <1>2 DEF WorkStep, Route, DeliverEnds, Call, Deliver
<1> QED
  BY <1>1, <1>2 DEF Next, Pause, Tick, Shutdown, vars

LEMMA LatestStep == TypeOK /\ Latest /\ [Next]_vars => Latest'
<1> SUFFICES ASSUME TypeOK, Latest, [Next]_vars PROVE Latest'
  OBVIOUS
<1>1. ASSUME NEW w \in Workers, Store(w) PROVE Latest'
  BY <1>1, LatestStore
<1>2. CASE Expire
  BY <1>2 DEF Expire, Latest
<1>3. CASE UNCHANGED <<retained, lastStored>> /\ (now' = now \/ now' = now + 1)
  <2>1. now \in Nat /\ \A e \in lastStored : e.storedAt \in Nat
    BY EntryFields DEF TypeOK
  <2> QED
    BY <1>3, <2>1 DEF Latest
<1> QED
  BY <1>1, <1>2, <1>3, StoreSteps

LEMMA DropsStep ==
    TypeOK /\ Latest /\ DropsOnlyStaleOrOldest /\ [Next]_vars => DropsOnlyStaleOrOldest'
<1> SUFFICES ASSUME TypeOK, Latest, DropsOnlyStaleOrOldest, [Next]_vars
             PROVE  DropsOnlyStaleOrOldest'
  OBVIOUS
<1>0. /\ now \in Nat /\ maxCount \in Nat
      /\ \A e \in lastStored : e.storedAt \in Nat /\ e.ttl \in Int
  BY EntryFields, TopicsAssumption DEF TypeOK
<1>1. ASSUME NEW w \in Workers, Store(w) PROVE DropsOnlyStaleOrOldest'
  <2> DEFINE entry == [topic |-> wtopic[w], msg |-> wmsg[w], storedAt |-> now + 1, ttl |-> wttl[w]]
             kept == {e \in retained : e.topic # wtopic[w]} \cup {entry}
  <2>1. /\ retained' = Limited(kept)
        /\ lastStored' = {e \in lastStored : e.topic # wtopic[w]} \cup {entry}
        /\ now' = now + 1
    BY <1>1 DEF Store
  <2>2. entry.topic = wtopic[w] /\ entry.storedAt = now + 1
    OBVIOUS
  <2> HIDE DEF entry
  <2>3. Latest'
    BY <1>1, LatestStore
  <2>4. IsFiniteSet(retained) /\ Cardinality(retained) \in Nat
    BY FS_Subset, FS_CardinalityType DEF Latest
  <2>5. /\ IsFiniteSet(kept) /\ Cardinality(kept) \in Nat
        /\ Cardinality(kept) <= Cardinality(retained) + 1
    <3> DEFINE others == {e \in retained : e.topic # wtopic[w]}
    <3>1. others \in SUBSET retained
      OBVIOUS
    <3> HIDE DEF others
    <3>2. IsFiniteSet(others) /\ Cardinality(others) <= Cardinality(retained)
      BY <2>4, <3>1, FS_Subset
    <3>3. Cardinality(others) \in Nat
      BY <3>2, FS_CardinalityType
    <3>4. IsFiniteSet(others \cup {entry})
          /\ Cardinality(others \cup {entry}) <= Cardinality(others) + 1
      BY <3>2, <3>3, FS_AddElement
    <3>5. Cardinality(others \cup {entry}) \in Nat
      BY <3>4, FS_CardinalityType
    <3> QED
      BY <2>4, <3>2, <3>3, <3>4, <3>5 DEF others
  <2> HIDE DEF kept
  <2>6. kept \subseteq lastStored'
    BY <2>1 DEF kept, Latest
  <2>7. \A e \in lastStored' : e.storedAt \in Nat
    BY <1>0, <2>1, <2>2
  <2>8. maxCount # 0 => Cardinality(retained') <= maxCount
    <3>1. maxCount # 0 => Cardinality(kept) <= maxCount + 1
      BY <1>0, <2>4, <2>5 DEF DropsOnlyStaleOrOldest
    <3> QED
      BY <2>1, <2>5, <2>6, <2>7, <3>1, LimitedBound
  <2>9. ASSUME NEW e \in lastStored'
        PROVE  \/ e \in retained'
               \/ Stale(e)'
               \/ maxCount # 0 /\ Cardinality({f \in lastStored' : f.storedAt > e.storedAt}) >= maxCount
    <3> DEFINE later == {f \in lastStored : f.storedAt > e.storedAt}
               laterNow == {f \in lastStored' : f.storedAt > e.storedAt}
    <3>0. /\ IsFiniteSet(laterNow) /\ Cardinality(laterNow) \in Nat
          /\ IsFiniteSet(later) /\ Cardinality(later) \in Nat
      <4>1. laterNow \in SUBSET lastStored' /\ later \in SUBSET lastStored
        OBVIOUS
      <4>2. IsFiniteSet(lastStored') /\ IsFiniteSet(lastStored)
        BY <2>3 DEF Latest
      <4> HIDE DEF later, laterNow
      <4> QED
        BY <4>1, <4>2, FS_Subset, FS_CardinalityType
    <3>1. CASE e \in kept
      <4>1. CASE e \in Limited(kept)
        BY <2>1, <4>1
      <4>2. CASE e \notin Limited(kept)
        <5>1. maxCount # 0 /\ Cardinality(kept) > maxCount
          BY <1>0, <2>5, <3>1, <4>2 DEF Limited
        <5>2. \A f \in kept : ~(f.storedAt < e.storedAt)
          BY <3>1, <4>2, <5>1 DEF Limited
        <5>3. kept \ {e} \subseteq laterNow
          BY <2>3, <2>6, <2>7, <5>2 DEF Latest
        <5>4. Cardinality(kept \ {e}) = Cardinality(kept) - 1 /\ IsFiniteSet(kept \ {e})
          BY <2>5, <3>1, FS_RemoveElement
        <5> HIDE DEF laterNow
        <5>5. Cardinality(kept \ {e}) <= Cardinality(laterNow)
          BY <3>0, <5>3, FS_Subset
        <5>6. Cardinality(laterNow) >= maxCount
          BY <1>0, <2>5, <3>0, <5>1, <5>4, <5>5
        <5> QED
          BY <5>1, <5>6 DEF laterNow
      <4> QED
        BY <4>1, <4>2
    <3>2. CASE e \notin kept
      <4>1. e \in lastStored /\ e.topic # wtopic[w] /\ e \notin retained
        BY <2>1, <3>2 DEF kept
      <4>2. CASE Stale(e)
        BY <1>0, <2>1, <4>1, <4>2 DEF Stale, NoTtl
      <4>3. CASE maxCount # 0 /\ Cardinality(later) >= maxCount
        <5> DEFINE old == {f \in later : f.topic = wtopic[w]}
        <5>1. later \subseteq lastStored
          OBVIOUS
        <5>2. laterNow = (later \ old) \cup {entry} /\ entry \notin later \ old
          BY <1>0, <2>1, <2>2, <4>1 DEF Latest
        <5>3. old = {} \/ \E f \in later : old = {f}
          BY <5>1 DEF Latest
        <5> HIDE DEF later, laterNow, old
        <5>4. IsFiniteSet(later \ old) /\ Cardinality(later \ old) >= Cardinality(later) - 1
          <6>1. CASE old = {}
            <7>1. later \ old = later
              BY <6>1
            <7>2. Cardinality(later) >= Cardinality(later) - 1
              BY <3>0
            <7> QED
              BY <3>0, <7>1, <7>2
          <6>2. ASSUME NEW f \in later, old = {f}
                PROVE  IsFiniteSet(later \ old) /\ Cardinality(later \ old) >= Cardinality(later) - 1
            <7>1. /\ IsFiniteSet(later \ {f})
                  /\ Cardinality(later \ {f}) = Cardinality(later) - 1
              BY <3>0, <6>2, FS_RemoveElement
            <7>2. Cardinality(later) - 1 >= Cardinality(later) - 1
              BY <3>0
            <7> QED
              BY <6>2, <7>1, <7>2
          <6> QED
            BY <5>3, <6>1, <6>2
        <5>5. Cardinality(later \ old) \in Nat
          BY <5>4, FS_CardinalityType
        <5>6. Cardinality(laterNow) = Cardinality(later \ old) + 1
          BY <5>2, <5>4, FS_AddElement
        <5>7. Cardinality(laterNow) >= maxCount
          BY <1>0, <3>0, <4>3, <5>4, <5>5, <5>6
        <5> QED
          BY <4>3, <5>7 DEF laterNow
      <4> QED
        BY <4>1, <4>2, <4>3 DEF DropsOnlyStaleOrOldest
    <3> QED
      BY <3>1, <3>2
  <2> QED
    BY <2>8, <2>9 DEF DropsOnlyStaleOrOldest
<1>2. CASE Expire
  <2>1. UNCHANGED <<lastStored, now>> /\ retained' \subseteq retained
        /\ \A e \in retained : Stale(e) \/ e \in retained'
    BY <1>2 DEF Expire
  <2>2. IsFiniteSet(retained) /\ Cardinality(retained) \in Nat
    BY FS_Subset, FS_CardinalityType DEF Latest
  <2>3. Cardinality(retained') <= Cardinality(retained) /\ Cardinality(retained') \in Nat
    BY <2>1, <2>2, FS_Subset, FS_CardinalityType
  <2>4. maxCount # 0 => Cardinality(retained') <= maxCount
    BY <1>0, <2>2, <2>3 DEF DropsOnlyStaleOrOldest
  <2>5. \A e : Stale(e) => Stale(e)'
    BY <2>1 DEF Stale
  <2> QED
    BY <2>1, <2>4, <2>5 DEF DropsOnlyStaleOrOldest
<1>3. CASE UNCHANGED <<retained, lastStored>> /\ (now' = now \/ now' = now + 1)
  <2>1. \A e \in lastStored : Stale(e) => Stale(e)'
    BY <1>0, <1>3 DEF Stale, NoTtl
  <2> QED
    BY <1>3, <2>1 DEF DropsOnlyStaleOrOldest
<1> QED
  BY <1>1, <1>2, <1>3, StoreSteps

\* The store stays within maxCount, and a message it no longer has is past its
\* lifespan or was pushed out by maxCount later ones.
THEOREM DropsOnlyStaleOrOldestHolds == Spec => []DropsOnlyStaleOrOldest
<1>1. Init => Latest /\ DropsOnlyStaleOrOldest
  BY FS_EmptySet, TopicsAssumption DEF Init, Latest, DropsOnlyStaleOrOldest
<1> QED
  BY <1>1, TypeCorrect, LatestStep, DropsStep, PTL DEF Spec

-----------------------------------------------------------------------------
(* The announced topics.                                                   *)

\* A thread has changed what the node handles and has not made its list yet.
Unlisted == \E a \in Api : opc[a] \in {"replay", "list", "changed"}

\* Unless two threads listed before either announced, the list is still to be
\* made, or the one thread that is about to announce has it, or it is announced.
Announcing ==
    topicsCb /\ ~raced =>
        \/ Unlisted
        \/ \E a \in Api : /\ opc[a] = "announce" /\ olist[a] = localTopics
                          /\ \A b \in Api \ {a} : opc[b] # "announce"
        \/ announced = localTopics /\ \A a \in Api : opc[a] # "announce"

LEMMA AnnouncingStep == TypeOK /\ Announcing /\ [Next]_vars => Announcing'
<1> SUFFICES ASSUME TypeOK, Announcing, [Next]_vars, topicsCb', ~raced'
             PROVE  \/ Unlisted'
                    \/ \E a \in Api : /\ opc'[a] = "announce" /\ olist'[a] = localTopics'
                                      /\ \A b \in Api \ {a} : opc'[b] # "announce"
                    \/ announced' = localTopics' /\ \A a \in Api : opc'[a] # "announce"
  BY DEF Announcing
<1> DEFINE Goal == \/ Unlisted'
                   \/ \E a \in Api : /\ opc'[a] = "announce" /\ olist'[a] = localTopics'
                                     /\ \A b \in Api \ {a} : opc'[b] # "announce"
                   \/ announced' = localTopics' /\ \A a \in Api : opc'[a] # "announce"
<1> USE DEF store, router, work, calls, notice, given
<1>1. ASSUME UNCHANGED <<subs, patternOf, handlers>> PROVE localTopics' = localTopics
  BY <1>1 DEF localTopics
<1>2. CASE UNCHANGED <<router, calls, announced, raced>> /\ (topicsCb' => topicsCb)
  BY <1>1, <1>2 DEF Announcing, Unlisted
<1>3. ASSUME NEW a \in Api, opc'[a] \in {"replay", "list", "changed"} PROVE Goal
  BY <1>3 DEF Unlisted
<1>4. ASSUME NEW a \in Api, Replay(a) PROVE Goal
  BY <1>3, <1>4 DEF Replay, TypeOK
<1>5. ASSUME NEW a \in Api, Changed(a) PROVE Goal
  <2>1. opc'[a] = "list"
    BY <1>5 DEF Changed, TypeOK
  <2> QED
    BY <1>3, <2>1
<1>6. ASSUME NEW a \in Api, ListTopics(a) PROVE Goal
  <2>1. /\ olist'[a] = localTopics /\ opc'[a] = "announce" /\ localTopics' = localTopics
        /\ \A b \in Api \ {a} : opc'[b] = opc[b]
    BY <1>1, <1>6 DEF ListTopics, TypeOK
  <2>2. \A b \in Api \ {a} : opc[b] # "announce"
    BY <1>6 DEF ListTopics
  <2> QED
    BY <2>1, <2>2
<1>7. ASSUME NEW a \in Api, Announce(a) PROVE Goal
  <2>1. /\ opc[a] = "announce" /\ opc'[a] = "end" /\ announced' = olist[a]
        /\ localTopics' = localTopics /\ topicsCb /\ ~raced
        /\ \A b \in Api \ {a} : opc'[b] = opc[b]
    BY <1>1, <1>7 DEF Announce, TypeOK
  <2>2. Unlisted => Unlisted'
    BY <2>1 DEF Unlisted
  <2> QED
    BY <2>1, <2>2 DEF Announcing
<1>8. ASSUME NEW a \in Api, Return(a) PROVE Goal
  <2>1. /\ opc[a] = "end" /\ opc'[a] = "idle" /\ UNCHANGED <<olist, announced>>
        /\ localTopics' = localTopics /\ topicsCb /\ ~raced
        /\ \A b \in Api \ {a} : opc'[b] = opc[b]
    BY <1>1, <1>8 DEF Return, TypeOK
  <2>2. Unlisted => Unlisted'
    BY <2>1 DEF Unlisted
  <2> QED
    BY <2>1, <2>2 DEF Announcing
<1>9. ASSUME NEW a \in Api,
             \/ \E s \in Subs : \/ RemoveSubscription(a, s)
                               \/ \E p \in Patterns, d \in BOOLEAN : AddSubscription(a, s, p, d)
             \/ \E q \in Reps : RemoveHandler(a, q) \/ \E x \in Services : AddHandler(a, q, x)
      PROVE  Goal
  <2>1. opc'[a] \in {"replay", "list", "changed"}
    BY <1>9 DEF RemoveSubscription, AddSubscription, RemoveHandler, AddHandler, TypeOK
  <2> QED
    BY <1>3, <2>1
<1>10. ASSUME NEW w \in Workers, WorkStep(w) PROVE Goal
  BY <1>2, <1>10 DEF WorkStep, Store, Route, DeliverEnds, Call, Deliver
<1>11. CASE (\E s \in Subs : Pause(s)) \/ Expire \/ Tick \/ Shutdown \/ UNCHANGED vars
  BY <1>2, <1>11 DEF Pause, Expire, Tick, Shutdown, vars
<1> QED
  BY <1>4, <1>5, <1>6, <1>7, <1>8, <1>9, <1>10, <1>11 DEF Next, ApiStep

\* Whichever threads create and destroy objects, what is announced once they are
\* done is what the node handles, unless two of them listed before either
\* announced and nothing was listed alone since.
THEOREM AnnouncesLocalTopicsHolds == Spec => []AnnouncesLocalTopics
<1>1. Init => Announcing
  BY DEF Init, Announcing, localTopics
<1>2. Announcing => AnnouncesLocalTopics
  BY DEF Announcing, AnnouncesLocalTopics, Unlisted
<1> QED
  BY <1>1, <1>2, TypeCorrect, AnnouncingStep, PTL DEF Spec
=============================================================================
