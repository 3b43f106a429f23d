# EmbedMQ in TLA+

EmbedMQ is a brokerless message library: every process is a *participant* that
discovers its peers by multicast announcements and exchanges publish/subscribe
and request/reply messages with them over UDP, TCP or shared memory. This
directory holds TLA+ models of its protocol logic, TLC configurations that check
them on small instances, and TLAPS proofs for every instance.

Paths below are relative to the repository (`src/core/...`).

## The system

| Part | State | Operations | Interacts with |
| --- | --- | --- | --- |
| `MessageBus` (`src/core/message_bus.*`) | `seqCounter_`, `corrCounter_`, `peers_`, `pendingRequests_`, `serviceHandlers_`, `replyCache_` | `publish`, `onReceived`, `sendRequest`, `dispatchRequest`, periodic task (200 ms), `stop` | transports (send, receive callback), QoS engine, router, retained store, timer wheel, discovery callbacks |
| `QoSEngine` (`src/core/qos_engine.h`) | `pending_`, `pendingRel_`, one `DedupWindow` per source | `addPending`, `onAck`, `onPubrec`, `addPendingRel`, `onPubcomp`, `processTimeouts`, `isDuplicate`, `cleanupDedupWindow` | called by the bus from application, receive and timer threads |
| `DiscoveryAgent`, `PeerRegistry` (`src/discovery/`) | `localTopics_`, `records_` with `lastSeen` | announce, farewell, `onDiscoveryMessage`, `checkTimeouts` | callbacks into the bus: discovered, updated, lost, will |
| `Participant` (`src/core/participant.cpp`) | `running` | `init`, `createSubscriber`, `createReplier`, `shutdown` | owns and joins all of the above |
| `TopicRouter`, `RetainedStore` (`src/core/`) | subscriptions; last message per topic with a deadline | subscribe, route with wildcards; store, expire, bound | called by the bus |
| `TransportManager` and transports (`src/transport/`) | one mutex, sockets, connection table, shared memory rings, accept, reader and receive threads | `send`, `sendv`, `broadcast`, receive loops, `shutdownAll` | receive callback of the participant |
| `MessageCodec` (`src/core/message_codec.h`), announcement (`discovery_agent.cpp`) | none | encode in one or three pieces, decode, build, parse | bus and discovery |
| `TimerWheel` (`src/util/timer_wheel.h`) | slots, ticks, marks of cancelled timers | add, cancel, tick, `stop` | bus and discovery |
| `MpscQueue`, `RingBuffer`, `MemoryPool` (`src/util/`) | lock-free queues, free lists | push, pop, allocate | tests and benchmark only |
| Platform layer, C API, Python binding, tools | none of the protocol | wrappers | - |

What makes the code hard to test: three kinds of threads (application, transport
receive, timer) share the bus and the QoS engine; packets are sent before they
are registered for retransmission; callbacks run after the lock that justified
them was released; datagrams are lost, repeated and reordered; ids are compared
in a sliding window; timeouts race late answers; peers crash; shutdown joins
threads that want what it holds; packets arrive damaged. `PROJECT.json`
lists these hazards with the line where each one bites and the properties that
cover it.

## Modules

| Module | Models | Composes |
| --- | --- | --- |
| `DedupWindow` | `QoSEngine::DedupWindow` as operators on a record | - |
| `DedupStream` | `isDuplicate` on one source's stream of 32-bit ids | `DedupWindow` |
| `QoSDelivery` | `publish`, `onReceived` and the QoS engine of a sender and its receivers, QoS 0, 1 and 2 | `DedupWindow`, refines `DeliveryContract` |
| `DeliveryContract` | what `publish` promises: the abstract specification | - |
| `RequestReply` | `Requester`, `sendRequest`, the periodic task, REQUEST/REPLY handling, the reply cache, `stop` | - |
| `Discovery` | `PeerRegistry`, `onDiscoveryMessage`, the callbacks into the bus, Last-Will and farewell | - |
| `ShmRing` | `ShmTransport`: segment, ring, receive thread, futex, cache of mapped peers | - |
| `LocalTopics` | `TopicRouter`, `RetainedStore`, the creation and end of subscribers and services, local delivery, wills, the announcement of local topics | - |
| `TimerWheel` | `TimerWheel`: slots, cancellation, callbacks, `stop` from several threads | refines `TimerService` |
| `TimerService` | what a timer promises: the abstract specification | - |
| `Transports` | `TransportManager` with `TcpTransport` and `UdpTransport`: mutex, connection table, descriptors and their reuse, all threads, `shutdownAll` | - |
| `WireFormat` | both encoders and `decode`, the announcement, the filter of packets, the resolution and choice of endpoints, over a network that damages packets | - |
| `QoSDeliveryProofs`, `RequestReplyProofs`, `DiscoveryProofs`, `ShmRingProofs`, `LocalTopicsProofs`, `TimerWheelProofs`, `TransportsProofs`, `WireFormatProofs` | theorems about the module of that name; `QoSDeliveryProofs` also about `DedupStream`, with which it shares the lemmas on the window | that module, TLAPS |
| `MCQoSDelivery`, `MCRequestReply`, `MCLocalTopics`, `MCWireFormat` | symmetry sets, bounds, names and packets for TLC | |

**State and actions.** Variables carry the names of the members they model; the
comment beside each declaration says which. A variable marked *history* records
what happened and is read by no guard. One action is one critical section or one
run of a handler. A handler is split only where another thread can observe the
difference: `PublishSend`/`PublishRegister` and `ReceivePubrec`/`RegisterRel`
(send, then register), `ReceivePublish`/`FilterPublish`/`RoutePublish` (answer,
duplicate filter, delivery), `NumberRequest`/`RegisterRequest`/`DispatchRequest`
(`lastCorrId`, `pendingRequests_`, send), `ReceiveRequest`/`HandlerReturns`/
`RegisterReply` (cache lookup, handler, registration), and in `Discovery` the
critical sections of the registry and the callbacks that follow them. In `ShmRing`,
where no lock protects the ring, one action is one atomic access to a shared word
(under sequential consistency; every access of the code is acquire or release).
In `Transports` a thread's test of `active_` and the system call after it are two
steps, a system call that blocks is a state of its own, and the kernel hands out
the numbers of closed descriptors again. In `LocalTopics` the callbacks of `route`
run one by one after the router's lock was released, and a Subscriber's
construction (router, replay, `localTopics`, announcement) is four steps. In
`TimerWheel` the critical section of a tick, each callback and the re-arming of a
periodic timer are steps of their own.
`PROJECT.json` maps every definition to its lines.

**Data.** A message is its sequence id, a call is its payload and its answer, a
peer's topics are the number of changes it made. Time is abstracted to the order
it allows: an interval or deadline may elapse at any moment. So may the two long
ones: an idle window (30 s) is evicted, and a cached reply (30 s) expires, also
while copies of the message or of the request are still around; history variables
(`forgotten`, `expired`) count how often that happened. `LocalTopics` and
`TimerWheel`, whose code computes with times, have a clock. In `WireFormat` bytes
matter: a packet is a sequence of them, with every field at its place and width,
and only the range of a byte is reduced (`ByteBase`). Its checksum is an ideal
one: a symbol for the bytes it covers. Its integers do not wrap, so an overflow of
a 32-bit sum of offsets would not be seen. `WireAssumption` says what is sent: every
field fits its width, an announcement's host and addresses are shorter than the
range of a byte and its endpoints fewer, an endpoint in shared memory has a name,
no node sends DISCOVER_REQ or DISCOVER_RSP, and packets arrive by UDP from a real
address (`From`, which `udp_transport.cpp:190` fills in for the receive callback).

**Network.** Packets in transit are a bag (`QoSDelivery`) or a set; a packet that
is never received is lost; any packet may be received next; `MaxDup` bounds the
copies the network makes itself, beside those that retransmission makes. Sends
that the code makes after a lock was released are modelled with the critical
section before them where the network's own delay already covers the difference
(the retransmissions of the periodic task).

## Runs

| Run | Instance | Checks |
| --- | --- | --- |
| `QoSSafety` | 1 peer, levels 1 and 2, window of 3, 5 ids, no retry, 1 duplication, evictions at any time; bound `TwoMessages` | `AtMostOnce`, `AckMeansDelivered`, refinement `KeepsContract` |
| `QoSLive` | levels 0-2, 2 receive threads, 2 ids, 2 retries | `TypeOK`, `RetryBudget`, `EntriesSettle`, `DeliveredOrAbandoned` |
| `DedupStream` | window 3, 8 messages in any order and multiplicity | `AcceptedOnce`, `MemoryBounded`, `FreshAccepted` |
| `ReqSafety` | 2 reliable calls on 1 or 2 Requesters, 2 receive threads, 1 retry of a REPLY, shutdown; bound `Undisturbed` | `HandlerOnce`, `OwnAnswer`, `NoForeignCancel` |
| `ReqLive` | 1 QoS 2 call, lossy and repeating network, a Replier that comes and goes | `FutureCompletes`, `ReplySettles` |
| `Discovery` | 1 peer that may fall silent, leave or crash, 2 topic changes, 2 repeated datagrams | `RoutesAgree`, `RoutesConverge`, `CrashIsNoticed` |
| `LocalTopics` | 1 subscriber and 1 replier created and destroyed by 2 threads, 2 delivering threads, 2 messages, 2 topics, 3 patterns, a store of one entry with and without lifespan; bound `ApiBound` | `SeesRetained`, `DropsOnlyStaleOrOldest`, `AnnouncesLocalTopics`, `RoutesToMatching` |
| `TimerWheel` | 2 timers, delays below, beside and beyond one turn of 3 slots, 7 ticks, 2 threads in `stop` | `StopIsBarrier`, refinement `IsTimerService`, `StopReturns` |
| `Transports` | TCP and UDP, 2 connections (dialled and accepted), 2 descriptors, 1 sender beside the callbacks | `TableIsTrue`, `NothingLeftBehind`, `ShutdownEndsOrBlocked` |
| `WireFormat` | 12 messages and 6 announcements, both encoders, up to 2 damages (any byte, any cut) | `RoundTrip`, `DamageRefused`, `NoOverread` |
| `ShmRing` | 2 producers, 3 messages, 2 slots, indices modulo 8 that wrap, a producer that dies, an owner that crashes | `ClaimedSlotIsFree`, `InOrder`, `NoLostWakeup`, `AcceptedArrives` |

One run ends in a violation: `ShutdownUdp`. `shutdownAll` holds the manager's
mutex while it joins the UDP receive thread; a callback on that thread that sends
an acknowledgement or an answer waits for the mutex, and neither goes on, while
`udp_transport.cpp:205` says that the loop ends at once. `Transports` checks what
remains true: `shutdownAll` returns unless such a thread, or one blocked in a call
on a socket, stands in its way.

**Excuses.** Some properties hold only up to an event that the code does not rule
out. Each names the event by a history variable or an operator, so that the run and
the theorem say exactly how far the guarantee goes, and the runs contain the event:
`forgotten` (an eviction of the window, `AtMostOnce`), `Overtaken` (a message that
came a whole window late, `AckMeansDelivered`, `DeliveredOrAbandoned`), `expired`
and the count for each thread (`HandlerOnce`), `crossed` (calls that overlapped on
one Requester, `OwnAnswer`, `NoForeignCancel`), and `raced` (callbacks of two threads
for one peer, `RoutesAgree`; lists of two threads, `AnnouncesLocalTopics`).

Disagreements the models contain but no run is kept for (TLC finds those that
name a property):
- With more ids in flight than the window is wide, a late first copy is answered
  with PUBREC (`message_bus.cpp:439`) and then dropped (`qos_engine.h:170`):
  `AckMeansDelivered` fails without `Overtaken`.
- A window is evicted after 30 s without a message although a retransmission may
  still come (`qos_engine.h:101`; the comment at line 93 accepts one repeated
  delivery): `AtMostOnce` fails without `forgotten`.
- Two receive threads both miss the reply cache (`message_bus.cpp:489`), or the
  cached answer expires before the request (`:644`), and the handler runs twice for
  one request, which line 486 excludes: `HandlerOnce` fails as a bound of 1 on all
  threads together, or without `expired`.
- A request registered after `stop()` never completes, while `message_bus.h:152`
  says that `stop` completes what is pending: `FutureCompletes` with `MayStop`.
- `onLost` of a silent peer erases the route of its return (`peer_registry.h:66`,
  `message_bus.cpp:558`), and `onUpdated` restores a route that was just erased:
  `AllRoutesAgree` of `Discovery`. The next announcement does not repair it, because
  it equals the record and calls nobody back; `RoutesConverge` is therefore about
  peers that never fall silent for the timeout while they are up.
- The owner of an inbox starts again under the same name; a producer writes into
  the old, unlinked segment and reports success (`shm_transport.cpp:320`):
  `CacheIsValid` of `ShmRing`.
- `TcpTransport::send` uses a descriptor after the table's mutex was released; it
  may have been closed and given to another peer (`NoFdReuseRace` of `Transports`,
  the comment at `tcp_transport.h:42`).
- A reader notifies `clientCv_` after `shutdown` may have returned
  (`ReadersGoneAfterShutdown`, `tcp_transport.cpp:58` and `:69`); a connection that
  replaces another one of the same endpoint leaves its descriptor open
  (`EveryFdClosed` with `Replaces = TRUE`).
- On Linux `close()` does not wake a thread in `accept` or `recv` on the same
  descriptor, while `tcp_transport.cpp:48` expects it.
- Two Repliers of one service share an entry of `serviceHandlers_`; the end of the
  first makes the second unreachable (`message_bus.cpp:671`, `ReplierReachable` of
  `LocalTopics` with two of `Reps`).
- Two threads that create or destroy subscriptions may announce the older list
  last (`participant.cpp:148`, `AnnouncesLocalTopics` without `raced`).
- A TransientLocal subscriber with a wildcard gets no retained message; one that
  subscribes while a message is delivered may get it twice; `get` may return an
  entry past its lifespan that `expire` has not swept yet (`LocalTopics`).
- `delayMs + TICK_MS - 1` wraps near 2^32, so that the longest delays fire after
  one tick; a mark of `cancel` for a timer that already fired stays in
  `cancelSet` for ever (`timer_wheel.h:96`, `:73`; the assumption on `Delays` of
  `TimerWheel` leaves such delays out).
- The checksum starts at byte 4: a damaged message type is not noticed, while
  `message_codec.h:133` says that it covers the header; and a packet whose HAS_CRC
  flag was cleared is not checked (both are exceptions in `DamageRefused`).
- Counts and names have one byte: a 256th topic is not announced, longer names
  are cut. `publish` ignores that the encoder refused (`message_bus.cpp:372`), sends
  topic and payload without a header and returns true; the receiver refuses the
  packet unless its bytes happen to look like a header (`SendGathered`).
- `onReceived` filters QoS 2 only, while `docs/architecture.md:1625` says QoS 1 is
  filtered too (`RoutePublish` routes every QoS 1 copy).
- After the 32-bit id wraps, the window takes every fresh id for too old
  (`DedupStream` with a small `SeqSpace` violates `FreshAccepted`).
- Two threads on one `Requester` overwrite its `lastCorrId`, cancel each other's
  request or register both under one id, while `docs/architecture.md:102` calls the
  API thread safe (`NoForeignCancel` and `OwnAnswer` fail without `crossed`).
- At QoS 2 the id filter drops a repeated REPLY before the branch that would
  acknowledge it again, which the comment at `message_bus.cpp:528` promises: the
  replying node goes on until its retries are used up (`ReplySettles`).
- A PUBREC handled between `send` and `addPending` leaves the PUBLISH in
  `pending_` beside its PUBREL, while `message_bus.cpp:413` says its retransmission
  stops (`PubrecStopsPublish` of `QoSDelivery`).
- An announcement behind the FAREWELL revives the peer, and its timeout delivers
  the will, while `peer_registry.h:51` says the will is dropped
  (`FarewellDropsWill` of `Discovery`).
- `writeToRegion` reads `head` before `tail`. When both have moved on in between,
  the unsigned difference is huge and the message is dropped, while line 265 says
  that the inbox is full (`DropsOnlyWhenFull` of `ShmRing`).
- `init` accepts any `slotCount` of at least 2, but only one that divides 2^32
  (the default, 256, does) keeps two indices on either side of the wrap apart
  (`Cap = 3` violates `ClaimedSlotIsFree`, the comment of line 281).
- `openInbox` makes the header valid before it stores 0 in `head`: a peer that
  opens a recreated segment in between claims an index that is handed out again
  (`MaxSegs = 2` violates `ClaimedSlotIsFree` and `InOrder`).
- `checkTimeouts` removes a peer that announced itself after it was collected
  (`CheckTimeouts`, `ReceiveAnnounce`, `RemoveDead`).

**Bounds.** In `QoSSafety` five ids are two messages, the local copies' ids
included, and a publish without a peer between them: the ids sent are two or three
apart, so the second may or may not overtake the first by the window of three. One
duplication gives a copy that comes before or after the eviction. `TwoMessages`
leaves out a first publish without a peer and the second phase of the handshake
for both messages at once. Two retries (`QoSLive`) make an entry pass through a
retransmission that is not the last, the last one and "given up". In `ReqSafety`
the choice of the Requesters is part of the initial state. `Undisturbed` keeps the
service once a REQUEST was sent (`ReqLive` withdraws it at any time) and explores
`stop` apart from overlapping calls and from a second receive thread at work.
`ApiBound` lets the two threads of `LocalTopics` create and destroy at the same time
until the first message, and one at a time from then on. The window of `DedupStream`
is passed twice by its eight messages. Two
REQUEST and two REPLY transmissions let a request be retransmitted after it was
answered, and a reply be repeated from the cache. Two topic changes let an old
announcement overtake two newer ones. Three messages overfill the two slots of
`ShmRing`; its run starts with a new segment or with one whose index is about to
wrap, and its index space is larger than the number of messages, so that a
compare-exchange cannot succeed on an index that came round (in the code: 2^32
messages within one send). It creates one segment; the name of the first is known
to nobody before it is complete. Delays 0, 5 and 7 at 2 ms a tick are 1, 3 and 4
ticks on three slots: the least, exactly one turn, and one that shares its slot
with the first. Two connections and two descriptors let a number be closed and
given to the other connection while somebody still holds it. One subscriber that
comes and goes meets every step of two deliveries; the patterns put `#` behind a
wildcard, at the front, and nowhere. Bytes 0 .. 4 give every list one element too
many at five, ids two digits and the type five values; two damages let a length
and what it counts, or a cut and a length, change together.

**Fairness.** Threads keep running (weak fairness of the second half of a split
handler) and the timer comes round (weak fairness of the timeout of each entry);
nothing is assumed of the network in `QoSDelivery` and `RequestReply`. In
`Discovery` the node's two threads run, a peer's announce timer runs and of the
announcements of unchanged topics that it repeats some are received (strong fairness
of that reception): without it a node may never hear of a peer at all. A peer that is
gone is silent for the timeout; nothing is assumed of the aging of others. In
`RequestReply` the replying node's timer comes round for each REPLY. In `ShmRing` threads run, the 2 ms wait ends,
and a compare-exchange that can succeed again and again does so at some time.
`AcceptedArrives` promises nothing once a process was killed: a producer that dies
with a slot claimed, or an owner that dies between the EMPTY store and the tail
store, stops the ring for good. In `TimerWheel` the thread runs on and callbacks
return. In `Transports` threads run on, a connect and a write end, and the mutex is
not handed to others for ever while `shutdownAll` waits for it (strong fairness of
its acquisition); peers owe nothing. `LocalTopics` and `WireFormat` check safety
only.

`CHECK_DEADLOCK FALSE` stands where the application may stop using the bus, or
every peer may have left.

## Proofs

Each `...Proofs` module proves theorems about the module it extends, for every
value of the constants that satisfies the module's named `ASSUME` and the
hypotheses of the theorem. Every safety property of the runs is proved; the
invariants a proof adds were checked by TLC on the run's instance first. Each proof has one step per action: `TypeCorrect` (the
types) comes first, then an inductive invariant that contains the property.

| Theorem | Property | Hypothesis | Inductive invariant |
| --- | --- | --- | --- |
| `QoSDeliveryProofs!AtMostOnceHolds` | `AtMostOnce` | - | `Remembered`, `UnsentIdle` |
| `...!RetryBudgetHolds` | `RetryBudget` | - | `Unregistered`, `Counted` |
| `...!AckMeansDeliveredHolds` | `AckMeansDelivered` | - | `WindowHonest`, `FilteredLevel`, `AnsweredDone` |
| `...!ImplementsContract` | refinement of `DeliveryContract` | - | all of these, `TransitSent` |
| `...!AcceptedOnceHolds` (of `DedupStream`) | `AcceptedOnce` | - | `Filtered` |
| `...!MemoryBoundedHolds` | `MemoryBounded` | - | `InWindow` |
| `...!FreshAcceptedHolds` | `FreshAccepted` | `MaxMessages < SeqSpace` | `Known` |
| `RequestReplyProofs!OwnAnswerHolds`, `NoForeignCancelHolds` | `OwnAnswer`, `NoForeignCancel` | - | `Correlated` |
| `...!HandlerOnceHolds` | `HandlerOnce` | - | `Once` |
| `DiscoveryProofs!RoutesAgreeHolds` | `RoutesAgree` | - | `Single` |
| `LocalTopicsProofs!RoutesToMatchingHolds` | `RoutesToMatching` | - | types; lemma `MatchIsCovers` |
| `...!SeesRetainedHolds` | `SeesRetained` | no topic is named like a wildcard | `LateJoiner` |
| `...!DropsOnlyStaleOrOldestHolds` | `DropsOnlyStaleOrOldest` | - | `Latest` |
| `...!AnnouncesLocalTopicsHolds` | `AnnouncesLocalTopics` | - | `Announcing` |
| `TimerWheelProofs!StopIsBarrierHolds` | `StopIsBarrier` | - | `JoinedEnded` |
| `...!ImplementsService` | refinement of `TimerService` | - | `WheelInv` |
| `TransportsProofs!TableIsTrueHolds` | `TableIsTrue` | - | `Table` |
| `...!NothingLeftBehindHolds` | `NothingLeftBehind` | `~Replaces` | `Owned`, `Locked`, `Ended` |
| `ShmRingProofs!ClaimedSlotIsFreeHolds` | `ClaimedSlotIsFree` | `Conditions` | `RingInv` |
| `...!NoLostWakeupHolds` | `NoLostWakeup` | `Conditions` | `RingInv`, `Ringing` |
| `...!InOrderHolds` | `InOrder` | `Conditions` | `OrderInv` |
| `WireFormatProofs!NeverOverread` | `NoOverread` | - | `PacketInv`, `ResultInv` |
| `...!DamageIsRefused` | `DamageRefused` | - | `WireInv` |
| `...!RoundTrips` | `RoundTrip` | what goes out without a header is refused | `WireInv` |

**The arguments.** Why a stronger invariant is needed, and what it says:

- *QoS delivery.* `Remembered` counts: what of a QoS 2 message passed the filter is
  at most one more than its evictions, and no more than them while the window does
  not know the id. `UnsentIdle`: an id not yet handed out is used nowhere.
  `MarkKeeps` is the heart: accepting an id never forgets another one, because
  what is pruned is too old from then on. `Unregistered` and `Counted` tie the
  transmissions of an id to its thread and to the retry count of its entry.
  `WindowHonest`: the ids a window goes by passed the filter, so a copy is refused
  only if its message did too or one a whole window later did; `AnsweredDone` then
  follows a message from its answer through the filter to its delivery.
- *Duplicate window.* The same `MarkKeeps` argument, also for ids that wrap
  (`AcceptedOnce` does not need the order of ids to be that of the messages).
  `Known`: what the window holds, and its high-water mark, arrived.
- *Request and reply.* `Correlated`: an id is drawn by one call and held by one
  Requester's `lastCorrId`; two calls have one id, or a call finds another one's id in
  `lastCorrId`, only if they overlapped (`OneIdEach`); and everything that carries an
  id (promise, packet, handler, cached reply) carries the payload of a call with that
  id (`Carried`). `Once`: while no answer is in the cache, and while a thread is in the
  handler, that thread has run it no more often than answers have expired.
- *Discovery.* `Single`: a peer whose last callback began alone has at most one
  callback outstanding, and that one carries what the registry holds.
- *Local topics.* `MatchIsCovers`: the loop of `matchWildcard` agrees with the
  definition of what a pattern covers. `LateJoiner`: a late joiner has got the
  retained message, or a delivery that will call it is under way, or its replay
  has still to come. `Latest`: every entry is the newest of its topic and has a time
  of its own, so that "the oldest" is one entry. `Announcing`: unless lists raced, the
  list is still to be made, or the one thread about to announce has it, or it is
  announced.
- *Timer wheel.* `WheelInv`: a timer waits in the slot of its tick, that tick is
  ahead (`Placed`), and an id names one timer, in a slot or due (`Distinct`); then
  a tick takes out exactly what `TimerService` says is due. The locals of a tick are in
  use only while it runs callbacks (`Turn`), and only `running_` = false lets it drop a
  due timer or not set a periodic one again, which is when the service may.
- *Transports.* `Table`: an entry of the table names an open descriptor of its
  connection, and the connection that the accept thread holds is in no entry yet.
  `Owned` and `Ended`: an open descriptor has a thread that will close it, and a
  transport that is not active has no thread in a loop.
- *Shared memory ring.* Indices are translated to positions, the number of
  messages before them since the start (`Pos`); the only arithmetic with
  remainders is in `Positions` and `SlotsDiffer`. `Bounded`: tail <= head <=
  tail + Cap, and head has not gone round. `Seekers`: what a thread found out about
  head and tail may be stale, but if head is still what it read, there is room.
  `Claimed`: claimed indices lie between tail and head, and their slots are empty;
  a READY slot belongs to such an index. `Receiving`: nobody claims the index the
  receive thread works on. `Ringing`: whoever left a message since the check has
  yet to ring. `Sorted`: along the indices the messages of a producer are in
  order, after those delivered and before the one it is writing.
- *Wire format.* `PacketInv`: a packet consists of bytes and cells of a checksum;
  `ResultInv`: so does all that the receiver holds, whatever the packet claims
  about its sizes, because every read of `decode` and of the announcement's parser
  stays inside it. `DamageInv`: the packet in the network is what is left of the
  packet of `sent` (`Damaged`): at every offset that was not overwritten it is what
  the sender made, and it is shorter only if it was cut. `BareInv` is the same for a
  message beyond the limits, which has no packet. That both encoders make the same
  packet, and that decoding undoes it field by field, rests on the digits of a
  number (`Put`, `Get`) and on what a concatenation holds at each offset. The loops over topics and endpoints are
  recursive functions; `NatSet` (an induction over a set of numbers, from the
  well-foundedness of the naturals) shows that after n rounds the parser has read
  n elements and stands where element n + 1 begins. A cell of the checksum is no byte, so a
  damaged packet that is accepted has the whole checksum of the sender where
  `decode` looks for it; then lengths and covered bytes agree, and the magic
  number and version because their digits are unique.

**The hypotheses** are the conditions under which the code is right; what happens
without them is described in the list of disagreements above or beside them here:

- `MaxMessages < SeqSpace`: after the wrap every fresh id is too old.
- No topic named like a wildcard: `route` does not match such a topic with the
  subscription of the same name.
- `~Replaces`: a second connection of one endpoint leaves a descriptor open.
- `Conditions` of the ring: one segment, a slot count that divides the number of
  indices, and fewer messages than indices. With more, a compare-exchange may
  succeed on an index that came round, and TLC finds a claimed slot that is READY;
  in the code 2^32 messages would have to pass within one send.
- What goes out without a header is refused: `publish` ignores that the encoder
  refused a message beyond the limits (`message_bus.cpp:372`) and sends its topic and
  payload alone; if those look like a packet, the receiver takes them for it.

The named assumptions of the modules are weak: finite and non-empty sets, bounds
that are natural numbers, special values that are not ordinary ones
(`CallsAssumption`: a call is not one of the results that are no answers).

**With TLC only.** Liveness (`EntriesSettle`, `DeliveredOrAbandoned`,
`FutureCompletes`, `ReplySettles`, `RoutesConverge`, `CrashIsNoticed`, `StopReturns`,
`ShutdownEndsOrBlocked`, `AcceptedArrives`): the prover does neither fairness nor
`ENABLED`.

## Not modelled

- `onNack`, `RetainedStore::remove` and `getMatching`, `hasSubscribers`: nothing
  calls them with an effect (no code sends a NACK). HEARTBEAT is parsed
  (`WireFormat`) but sent by nobody.
- A service on the requesting node itself: a plain call without concurrency.
- A part of a frame on TCP: `Transports` writes and reads whole frames. A failed
  `init` that leaves a socket open.
- `MpscQueue`, `RingBuffer`, `MemoryPool`: only the unit tests and the benchmark
  use them.
- Platform layer (wrappers of system calls; epoll's `runOnce` is in `Transports`),
  logger, C API and Python binding (handles without state of their own), tools,
  benchmark, examples.

## Plan

1. Done: delivery with its contract and proofs, request/reply, discovery, the
   shared memory ring.
2. Done: local topics, timer wheel with its abstract service, transports and their
   shutdown, the wire format.
3. Done: the proofs of the safety properties of every module.
4. Done: the hypotheses of the proofs about delivery, request/reply, discovery and
   the announcement of topics replaced by the events that excuse them.
5. Left: the ring over several segments, as long as nobody opens one before its
   reset.
