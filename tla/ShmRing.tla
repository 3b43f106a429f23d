------------------------------ MODULE ShmRing ------------------------------
(***************************************************************************)
(* The shared memory transport (src/transport/shm_transport.cpp): the      *)
(* inbox of one participant, a ring of slots in a named segment, its       *)
(* receive thread, and the threads of other processes that write to it.    *)
(* One action is one atomic access to the shared words, or one run of code *)
(* that nobody else can observe.  A message is the pair of its producer    *)
(* and a number; how slots are laid out, and the refusal of a message that *)
(* is too long for one, are left out.                                      *)
(***************************************************************************)
EXTENDS Integers, Sequences, FiniteSets

CONSTANTS
    Producers,   \* threads that send, each of a process of its own
    MayDie,      \* those whose process may be killed in the middle of a send
    Cap,         \* slotCount
    IdxSpace,    \* number of values of head and tail: 2^32 in the code
    FirstIdx,    \* messages an old inbox has carried when the model starts
    MaxMsgs,     \* bound: messages of all producers together
    MaxSegs,     \* bound: segments created under the name
    MaxCrashes   \* bound: crashes of the owner of the inbox

ASSUME RingAssumption ==
    /\ IsFiniteSet(Producers) /\ MayDie \subseteq Producers
    /\ Cap \in Nat \ {0, 1}
    /\ IdxSpace \in Nat /\ IdxSpace > Cap
    /\ FirstIdx \in 0 .. IdxSpace - 1
    /\ MaxMsgs \in Nat /\ MaxSegs \in Nat \ {0} /\ MaxCrashes \in Nat

VARIABLES
    seg,       \* segments created so far; the newest is number seg
    linked,    \* the name leads to that segment (shm_open without shm_unlink)
    ring,      \* [segment -> ShmHeader and slots]
    pc,        \* next step of each producer, "idle" between sends
    region,    \* the entry of peerRegions_: the mapped segment, 0 if none
    idx,       \* local head, then idx, of writeToRegion
    sent,      \* number of the producer's current or last message
    total,     \* bound: messages of all producers so far
    cpc,       \* next step of the receive thread, "down" without an owner
    gotAny,    \* local of recvLoop
    buf,       \* local buf of recvLoop
    seen,      \* local v of recvLoop: notify before the wait
    crashes,   \* bound: crashes of the owner so far
    accepted,  \* history: messages made READY
    delivered  \* history: messages given to the callback, in order

vars == <<seg, linked, ring, pc, region, idx, sent, total, cpc, gotAny, buf,
          seen, crashes, accepted, delivered>>
owner == <<cpc, gotAny, buf, seen, crashes, delivered>>
sender == <<pc, region, idx, sent, total, accepted>>

Segs == 1 .. MaxSegs
Idx == 0 .. IdxSpace - 1
Message == Producers \X Nat
NoData == <<>>                      \* a slot of length 0

\* Unsigned 32-bit arithmetic on indices, and the slot of an index.
Incr_Wider(i) == i + 1
Incr(i) == (i + 1) % IdxSpace
Dist(a, b) == (a - b) % IdxSpace
SlotOf(i) == i % Cap

ClearRing == [head |-> 0, tail |-> 0, notify |-> 0,
              ready |-> [s \in 0 .. Cap - 1 |-> FALSE],
              data |-> [s \in 0 .. Cap - 1 |-> NoData]]

\* Either nobody has created the segment yet, or it has carried FirstIdx
\* messages and is empty.
Init ==
    /\ \/ seg = 0 /\ linked = FALSE /\ cpc = "down"
          /\ ring = [g \in Segs |-> ClearRing]
       \/ seg = 1 /\ linked = TRUE /\ cpc = "poll"
          /\ ring = [g \in Segs |->
                       [ClearRing EXCEPT !.head = FirstIdx, !.tail = FirstIdx]]
    /\ pc = [p \in Producers |-> "idle"]
    /\ region = [p \in Producers |-> 0]
    /\ idx = [p \in Producers |-> 0]
    /\ sent = [p \in Producers |-> 0] /\ total = 0
    /\ gotAny = FALSE /\ buf = NoData /\ seen = 0 /\ crashes = 0
    /\ accepted = {} /\ delivered = <<>>

-----------------------------------------------------------------------------
(* Producers: send, sendv, resolvePeer, writeToRegion, writevToRegion.      *)

\* resolvePeer: the cached region if there is one, for its magic is that of
\* the mapping and stays what it was; else the segment the name leads to.
Resolve(p) == IF region[p] # 0 THEN region[p] ELSE IF linked THEN seg ELSE 0

\* The name is announced once the first segment is in use.
Announced == seg > 1 \/ (seg = 1 /\ cpc # "create")

Send(p) ==
    /\ pc[p] = "idle" /\ Announced
    /\ total < MaxMsgs
    /\ sent' = [sent EXCEPT ![p] = @ + 1] /\ total' = total + 1
    /\ region' = [region EXCEPT ![p] = Resolve(p)]
    /\ pc' = [pc EXCEPT ![p] = IF Resolve(p) = 0 THEN "idle" ELSE "head"]
    /\ UNCHANGED <<seg, linked, ring, idx, accepted, owner>>

LoadHead(p) ==
    /\ pc[p] = "head"
    /\ idx' = [idx EXCEPT ![p] = ring[region[p]].head]
    /\ pc' = [pc EXCEPT ![p] = "tail"]
    /\ UNCHANGED <<seg, linked, ring, region, sent, total, accepted, owner>>

Full_OneMore(head, tail) == Dist(head, tail) > Cap
Full(head, tail) == Dist(head, tail) >= Cap

\* A full inbox drops the message.
LoadTail(p) ==
    /\ pc[p] = "tail"
    /\ IF Full(idx[p], ring[region[p]].tail)
       THEN pc' = [pc EXCEPT ![p] = "idle"] /\ idx' = [idx EXCEPT ![p] = 0]
       ELSE pc' = [pc EXCEPT ![p] = "cas"] /\ UNCHANGED idx
    /\ UNCHANGED <<seg, linked, ring, region, sent, total, accepted, owner>>

Cas(p) ==
    /\ pc[p] = "cas" /\ ring[region[p]].head = idx[p]
    /\ ring' = [ring EXCEPT ![region[p]].head = Incr(idx[p])]
    /\ pc' = [pc EXCEPT ![p] = "wait"]
    /\ UNCHANGED <<seg, linked, region, idx, sent, total, accepted, owner>>

\* compare_exchange_weak may also fail without a reason.
CasFails(p) ==
    /\ pc[p] = "cas"
    /\ pc' = [pc EXCEPT ![p] = "head"] /\ idx' = [idx EXCEPT ![p] = 0]
    /\ UNCHANGED <<seg, linked, ring, region, sent, total, accepted, owner>>

Slot(p) == SlotOf(idx[p])

\* The slot is seen empty, or the spinning ends and an empty message is left
\* for the receive thread to step over.
AwaitEmpty(p) ==
    /\ pc[p] = "wait"
    /\ IF ring[region[p]].ready[Slot(p)]
       THEN /\ ring' = [ring EXCEPT ![region[p]].data[Slot(p)] = NoData]
            /\ pc' = [pc EXCEPT ![p] = "notify"]
       ELSE pc' = [pc EXCEPT ![p] = "write"] /\ UNCHANGED ring
    /\ UNCHANGED <<seg, linked, region, idx, sent, total, accepted, owner>>

WriteSlot(p) ==
    /\ pc[p] = "write"
    /\ ring' = [ring EXCEPT ![region[p]].data[Slot(p)] = <<p, sent[p]>>]
    /\ pc' = [pc EXCEPT ![p] = "ready"]
    /\ UNCHANGED <<seg, linked, region, idx, sent, total, accepted, owner>>

SetReady(p) ==
    /\ pc[p] = "ready"
    /\ ring' = [ring EXCEPT ![region[p]].ready[Slot(p)] = TRUE]
    /\ accepted' = accepted \cup {<<p, sent[p]>>}
    /\ pc' = [pc EXCEPT ![p] = "notify"]
    /\ UNCHANGED <<seg, linked, region, idx, sent, total, owner>>

\* wakeConsumer: the increment, then FUTEX_WAKE.
Notify(p) ==
    /\ pc[p] = "notify"
    /\ ring' = [ring EXCEPT ![region[p]].notify = @ + 1]
    /\ pc' = [pc EXCEPT ![p] = "wake"] /\ idx' = [idx EXCEPT ![p] = 0]
    /\ UNCHANGED <<seg, linked, region, sent, total, accepted, owner>>

Wake(p) ==
    /\ pc[p] = "wake"
    /\ pc' = [pc EXCEPT ![p] = "idle"]
    /\ cpc' = IF cpc = "asleep" /\ region[p] = seg THEN "poll" ELSE cpc
    /\ UNCHANGED <<seg, linked, ring, region, idx, sent, total, accepted,
                   gotAny, buf, seen, crashes, delivered>>

\* The process is killed.
Die(p) ==
    /\ p \in MayDie /\ pc[p] \notin {"idle", "dead"}
    /\ pc' = [pc EXCEPT ![p] = "dead"]
    /\ UNCHANGED <<seg, linked, ring, region, idx, sent, total, accepted, owner>>

\* The sender shuts its transport down, which unmaps the cached regions, and
\* starts a new one.
CloseRegions(p) ==
    /\ pc[p] = "idle" /\ region[p] # 0
    /\ region' = [region EXCEPT ![p] = 0]
    /\ UNCHANGED <<seg, linked, ring, pc, idx, sent, total, accepted, owner>>

-----------------------------------------------------------------------------
(* The owner: openInbox, recvLoop, shutdown.                                *)

\* openInbox finds no segment: it makes one and writes its header, ...
CreateSegment ==
    /\ cpc = "down" /\ ~linked /\ seg < MaxSegs
    /\ seg' = seg + 1 /\ linked' = TRUE
    /\ ring' = [ring EXCEPT ![seg + 1] = ClearRing]
    /\ cpc' = "create"
    /\ UNCHANGED <<sender, gotAny, buf, seen, crashes, delivered>>

\* ... stores 0 in head, tail and notify, and the receive thread is started.
ResetIndices ==
    /\ cpc = "create"
    /\ ring' = [ring EXCEPT ![seg].head = 0, ![seg].tail = 0, ![seg].notify = 0]
    /\ cpc' = "poll"
    /\ UNCHANGED <<seg, linked, sender, gotAny, buf, seen, crashes, delivered>>

\* openInbox finds a segment with the right magic: it is used as it is.
Attach ==
    /\ cpc = "down" /\ linked
    /\ cpc' = "poll"
    /\ UNCHANGED <<seg, linked, ring, sender, gotAny, buf, seen, crashes,
                   delivered>>

HasData_Gap == Dist(ring[seg].head, ring[seg].tail) > 1
HasData == ring[seg].tail # ring[seg].head
TailSlot == SlotOf(ring[seg].tail)
IsReady == HasData /\ ring[seg].ready[TailSlot]

\* Nothing to read at tail, or not yet: another round, or the wait.
Break ==
    /\ cpc = "poll" /\ ~IsReady
    /\ cpc' = IF gotAny THEN "poll" ELSE "idle"
    /\ gotAny' = FALSE
    /\ UNCHANGED <<seg, linked, ring, sender, buf, seen, crashes, delivered>>

Copy ==
    /\ cpc = "poll" /\ IsReady
    /\ buf' = ring[seg].data[TailSlot]
    /\ cpc' = "copied"
    /\ UNCHANGED <<seg, linked, ring, sender, gotAny, seen, crashes, delivered>>

Emptied_Never(r, s) == r
Emptied(r, s) == [r EXCEPT !.ready[s] = FALSE]

SetEmpty ==
    /\ cpc = "copied"
    /\ ring' = [ring EXCEPT ![seg] = Emptied(@, TailSlot)]
    /\ cpc' = "emptied"
    /\ UNCHANGED <<seg, linked, sender, gotAny, buf, seen, crashes, delivered>>

\* tail is stored, then the callback is called; a message of length 0 is
\* stepped over.
AdvanceTail ==
    /\ cpc = "emptied"
    /\ ring' = [ring EXCEPT ![seg].tail = Incr(@)]
    /\ delivered' = IF buf = NoData THEN delivered ELSE Append(delivered, buf)
    /\ gotAny' = TRUE /\ buf' = NoData /\ cpc' = "poll"
    /\ UNCHANGED <<seg, linked, sender, seen, crashes>>

LoadNotify ==
    /\ cpc = "idle"
    /\ seen' = ring[seg].notify
    /\ cpc' = "check"
    /\ UNCHANGED <<seg, linked, ring, sender, gotAny, buf, crashes, delivered>>

CheckAgain ==
    /\ cpc = "check"
    /\ cpc' = IF HasData THEN "poll" ELSE "wait"
    /\ UNCHANGED <<seg, linked, ring, sender, gotAny, buf, seen, crashes,
                   delivered>>

\* The kernel compares notify with v before it puts the thread to sleep.
Sleeps_Always == TRUE
Sleeps == ring[seg].notify = seen

FutexWait ==
    /\ cpc = "wait"
    /\ cpc' = IF Sleeps THEN "asleep" ELSE "poll"
    /\ seen' = 0
    /\ UNCHANGED <<seg, linked, ring, sender, gotAny, buf, crashes, delivered>>

\* The 2 ms of the wait are over.
WaitTimesOut ==
    /\ cpc = "asleep"
    /\ cpc' = "poll"
    /\ UNCHANGED <<seg, linked, ring, sender, gotAny, buf, seen, crashes,
                   delivered>>

\* The receive thread is gone, and its locals with it.
Stopped == cpc' = "down" /\ gotAny' = FALSE /\ buf' = NoData /\ seen' = 0

\* shutdown: the receive thread sees active_ at the head of its loops and is
\* joined; closeRegion unlinks the name of the segment.
Shutdown ==
    /\ cpc = "poll"
    /\ Stopped /\ linked' = FALSE
    /\ UNCHANGED <<seg, ring, sender, crashes, delivered>>

\* The owner is killed: the segment keeps its name and its contents.
OwnerCrash ==
    /\ cpc # "down" /\ crashes < MaxCrashes
    /\ Stopped /\ crashes' = crashes + 1
    /\ UNCHANGED <<seg, linked, ring, sender, delivered>>

-----------------------------------------------------------------------------
\* One step of writeToRegion; writevToRegion takes the same steps.
SendStep(p) ==
    \/ LoadHead(p) \/ LoadTail(p) \/ Cas(p) \/ CasFails(p) \/ AwaitEmpty(p)
    \/ WriteSlot(p) \/ SetReady(p) \/ Notify(p) \/ Wake(p)

ReceiveStep ==
    \/ Break \/ Copy \/ SetEmpty \/ AdvanceTail
    \/ LoadNotify \/ CheckAgain \/ FutexWait \/ WaitTimesOut

Next ==
    \/ \E p \in Producers : Send(p) \/ SendStep(p) \/ Die(p) \/ CloseRegions(p)
    \/ CreateSegment \/ ResetIndices \/ Attach \/ ReceiveStep
    \/ Shutdown \/ OwnerCrash

Spec == Init /\ [][Next]_vars

\* A thread that is not killed keeps running, and a compare-exchange that can
\* succeed again and again does so at some time.
FairSpec ==
    /\ Spec
    /\ WF_vars(ReceiveStep)
    /\ \A p \in Producers : WF_vars(SendStep(p)) /\ SF_vars(Cas(p))

-----------------------------------------------------------------------------
TypeOK ==
    /\ seg \in 0 .. MaxSegs /\ linked \in BOOLEAN
    /\ ring \in [Segs -> [head : Idx, tail : Idx, notify : Nat,
                          ready : [0 .. Cap - 1 -> BOOLEAN],
                          data : [0 .. Cap - 1 -> Message \cup {NoData}]]]
    /\ pc \in [Producers -> {"idle", "head", "tail", "cas", "wait", "write",
                             "ready", "notify", "wake", "dead"}]
    /\ region \in [Producers -> 0 .. seg]
    /\ idx \in [Producers -> Idx]
    /\ sent \in [Producers -> Nat] /\ total \in 0 .. MaxMsgs
    /\ cpc \in {"down", "create", "poll", "copied", "emptied", "idle",
                "check", "wait", "asleep"}
    /\ gotAny \in BOOLEAN /\ buf \in Message \cup {NoData} /\ seen \in Nat
    /\ crashes \in 0 .. MaxCrashes
    /\ accepted \subseteq Message /\ delivered \in Seq(Message)

\* p has claimed a slot with its compare-exchange and not yet made it READY.
Claims(p) == pc[p] \in {"wait", "write", "ready"}

\* The comment on the spin loop of writeToRegion: the check against the
\* capacity guarantees that a claimed slot has been emptied; and no two
\* producers claim the same slot.
ClaimedSlotIsFree ==
    \A p \in Producers : Claims(p) =>
        /\ ~ring[region[p]].ready[Slot(p)]
        /\ \A q \in Producers \ {p} :
              Claims(q) /\ region[q] = region[p] => Slot(q) # Slot(p)

\* What the callback receives was sent, arrives once, and the messages of a
\* producer arrive in the order it sent them, also when the receiving process
\* is killed at any step and comes back.
InOrder ==
    /\ \A i \in 1 .. Len(delivered) : delivered[i] \in accepted
    /\ \A i, j \in 1 .. Len(delivered) :
          i < j /\ delivered[i][1] = delivered[j][1]
             => delivered[i][2] < delivered[j][2]

\* recvLoop never sleeps on the futex beside a message unless a producer is
\* still about to wake it: the timeout of 2 ms is needed only after a producer
\* died on the way.
NoLostWakeup ==
    cpc = "asleep" /\ IsReady =>
        \E p \in Producers : pc[p] \in {"notify", "wake", "dead"}

\* Every message made READY is delivered, as long as its owner keeps running
\* and no producer dies in the middle of a send (capability: "no loss").
AcceptedArrives ==
    \A m \in Producers \X (1 .. MaxMsgs) :
        (m \in accepted) ~> \/ \E i \in 1 .. Len(delivered) : delivered[i] = m
                            \/ cpc = "down" \/ crashes > 0
                            \/ \E p \in Producers : pc[p] = "dead"

\* The comment in resolvePeer: a cached region is checked to be still valid,
\* for the peer may have unlinked or recreated it.
CacheIsValid ==
    [][\A p \in Producers :
          pc[p] = "idle" /\ pc'[p] = "head" => linked /\ region'[p] = seg]_vars

\* The comment in writeToRegion: a message is dropped when the inbox is full.
DropsOnlyWhenFull ==
    [][\A p \in Producers : pc[p] = "tail" /\ pc'[p] = "idle" =>
          Full(ring[region[p]].head, ring[region[p]].tail)]_vars
=============================================================================
