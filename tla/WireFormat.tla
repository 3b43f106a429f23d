----------------------------- MODULE WireFormat -----------------------------
(***************************************************************************)
(* The packets of EmbedMQ on their way through a network that damages      *)
(* them: MessageCodec (core/message_codec.h), the announcement inside an   *)
(* ANNOUNCE (discovery_agent.cpp) and the filter of incoming packets       *)
(* (participant.cpp).  A packet is a sequence of cells, one for each byte, *)
(* and every field keeps its width and place; only the range of a byte is  *)
(* reduced, from 256 to ByteBase.  A cell is a tuple: <<n>> is the byte n, *)
(* <<i, covered>> byte i of the checksum of the cells covered.  The CRC-32 *)
(* is thus an ideal one, that differs when the cells differ.               *)
(***************************************************************************)
EXTENDS Integers, Sequences, SequencesExt

CONSTANTS
    ByteBase,            \* 256 in the code
    EMBEDMQ_MAGIC, EMBEDMQ_VERSION,
    MAX_PAYLOAD_LEN,     \* 64 MiB in the code
    DataTypes,           \* isDataMsg: PUBLISH, REQUEST, REPLY
    ANNOUNCE, HEARTBEAT, FAREWELL,
    DiscoveryTypes,      \* these three, DISCOVER_REQ and DISCOVER_RSP
    Udp, Tcp, Shm, AnyHost,   \* "udp", "tcp", "shm", "0.0.0.0"
    Messages,            \* messages that are encoded: records, see writeHeader
    Announcements,       \* what a node announces: records, see buildAnnouncePayload
    NodeId, DomainId, LocalHost,   \* of the receiver
    From,                \* the endpoint the packets come from
    Noise,               \* bound: what a byte is overwritten with
    MaxDamage            \* bound: how often a packet is damaged

\* 256^i in the code.
Power[i \in 0 .. 8] == IF i = 0 THEN 1 ELSE ByteBase * Power[i - 1]
UInt(width) == 0 .. Power[width] - 1

Byte(n) == <<n>>
Bytes == {Byte(n) : n \in UInt(1)}
Short == {s \in Seq(Bytes) : Len(s) < ByteBase}

\* What is sent and announced.  No node sends the other discovery types, a node has
\* an endpoint for each of its transports, and one in shared memory has a name.
MessageRecords ==
    [type : UInt(1) \ (DiscoveryTypes \ {HEARTBEAT, FAREWELL}), crc : BOOLEAN,
     qos : UInt(1), flags : UInt(1), serializer : UInt(1), source : UInt(2),
     dest : UInt(2), seq : UInt(4), corr : UInt(4), time : UInt(8),
     topic : Seq(Bytes), payload : Seq(Bytes)]
Endpoints ==
    {e \in [type : {Udp, Tcp, Shm}, address : Short, port : UInt(2)] :
        e.type = Shm => e.address \notin {AnyHost, <<>>}}
AnnounceRecords ==
    [id : UInt(2), domain : UInt(1), name : Seq(Bytes), host : Short,
     topics : Seq(Seq(Bytes)), endpoints : {s \in Seq(Endpoints) : Len(s) < ByteBase},
     will : [enabled : BOOLEAN, qos : UInt(1), retain : BOOLEAN, topic : Seq(Bytes),
             payload : Seq(Bytes)]]

ASSUME WireAssumption ==
    /\ ByteBase \in Nat /\ ByteBase >= 4
    /\ EMBEDMQ_MAGIC \in UInt(2) /\ EMBEDMQ_VERSION \in UInt(1)
    /\ {ANNOUNCE, HEARTBEAT, FAREWELL} \subseteq DiscoveryTypes
    /\ DataTypes \cup DiscoveryTypes \subseteq UInt(1)
    /\ DataTypes \cap DiscoveryTypes = {}
    /\ ANNOUNCE \notin {HEARTBEAT, FAREWELL}
    /\ MAX_PAYLOAD_LEN \in UInt(4) /\ MaxDamage \in Nat
    /\ Noise \subseteq UInt(1)
    /\ {Udp, Tcp, Shm} \subseteq Short /\ Udp # Tcp /\ Udp # Shm /\ Tcp # Shm
    /\ From \in Endpoints /\ From.type = Udp /\ From.address \notin {AnyHost, <<>>}
    /\ Messages \subseteq MessageRecords /\ Announcements \subseteq AnnounceRecords

VARIABLES
    sent,     \* the message or announcement in the packet, or None
    packet,   \* the packet in the network
    hurt,     \* history: offsets of the bytes that were overwritten, -1: a cut
    got       \* what the receiver made of the packet

vars == <<sent, packet, hurt, got>>

None == [kind |-> "none"]
Waiting == [kind |-> "waiting"]
Refused == [kind |-> "refused"]

-----------------------------------------------------------------------------
(* Bytes, explicitly little-endian.                                         *)

Put(n, width) == [i \in 1 .. width |-> Byte((n \div Power[i - 1]) % ByteBase)]
Get(cells) ==
    LET Term(i) == IF i <= Len(cells) THEN cells[i][1] * Power[i - 1] ELSE 0
    IN  Term(1) + Term(2) + Term(3) + Term(4) + Term(5) + Term(6) + Term(7) + Term(8)

\* The size bytes at data + off.  What lies behind the packet is none of its bytes.
Beyond == Byte(-1)
At(data, off, size) ==
    [i \in 1 .. size |-> IF off + i <= Len(data) THEN data[off + i] ELSE Beyond]

\* crc32 of the bytes that are covered.
Crc_SkipsLast(covered) == [i \in 1 .. 4 |-> <<i, Front(covered)>>]
Crc(covered) == [i \in 1 .. 4 |-> <<i, covered>>]

-----------------------------------------------------------------------------
(* MessageCodec: the sender.                                                *)

HEADER_BASE_SIZE == 26
MAX_TOPIC_LEN == Power[2] - 1

\* writeHeader, up to the place of the checksum.
writeHeader(m) ==
    Put(EMBEDMQ_MAGIC, 2) \o Put(EMBEDMQ_VERSION, 1) \o Put(m.type, 1)
    \o Put((IF m.type \in DataTypes THEN 1 ELSE 0) + (IF m.crc THEN 2 ELSE 0), 1)
    \o Put(m.qos, 1) \o Put(m.flags, 1) \o Put(m.serializer, 1)
    \o Put(m.source, 2) \o Put(m.dest, 2) \o Put(Len(m.topic), 2)
    \o Put(m.seq, 4) \o Put(m.corr, 4) \o Put(Len(m.payload), 4)
    \o IF m.type \in DataTypes THEN Put(m.time, 8) ELSE <<>>

Fits(m) == Len(m.topic) <= MAX_TOPIC_LEN /\ Len(m.payload) <= MAX_PAYLOAD_LEN

computeCrcContiguous(buf, checksumPos) ==
    Crc(SubSeq(buf, 5, checksumPos) \o SubSeq(buf, checksumPos + 5, Len(buf)))

\* encodeInto: one buffer, into which the checksum is written last.
encode(m) ==
    LET pos == Len(writeHeader(m))
        buf == writeHeader(m) \o Put(0, IF m.crc THEN 4 ELSE 0) \o m.topic \o m.payload
        crc == computeCrcContiguous(buf, pos)
    IN  IF ~Fits(m) THEN <<>>
        ELSE [i \in DOMAIN buf |->
                IF m.crc /\ i \in pos + 1 .. pos + 4 THEN crc[i - pos] ELSE buf[i]]

\* encodeHeaderInto: the header alone; the checksum runs over three pieces.
encodeHeader_NoTopic(m) ==
    LET head == writeHeader(m)
    IN  IF ~Fits(m) THEN <<>>
        ELSE head \o IF m.crc THEN Crc(SubSeq(head, 5, Len(head)) \o m.payload)
                     ELSE <<>>
encodeHeader(m) ==
    LET head == writeHeader(m)
    IN  IF ~Fits(m) THEN <<>>
        ELSE head \o IF m.crc THEN Crc(SubSeq(head, 5, Len(head)) \o m.topic \o m.payload)
                     ELSE <<>>

-----------------------------------------------------------------------------
(* MessageCodec::decode.                                                    *)

decode(data) ==
    LET U(off, width) == Get(At(data, off, width))
        hasTs == U(4, 1) % 2 = 1
        hasCrc == (U(4, 1) \div 2) % 2 = 1
        checksumPos == HEADER_BASE_SIZE + IF hasTs THEN 8 ELSE 0
        headerSize == checksumPos + IF hasCrc THEN 4 ELSE 0
        expected == headerSize + U(12, 2) + U(22, 4)
    IN  IF \/ Len(data) < HEADER_BASE_SIZE
           \/ U(0, 2) # EMBEDMQ_MAGIC \/ U(2, 1) # EMBEDMQ_VERSION
           \/ Len(data) < headerSize
           \/ Len(data) < expected
           \/ hasCrc /\ At(data, checksumPos, 4)
                          # computeCrcContiguous(At(data, 0, expected), checksumPos)
        THEN Refused
        ELSE [kind |-> "message", type |-> U(3, 1), qos |-> U(5, 1),
              flags |-> U(6, 1), serializer |-> U(7, 1), source |-> U(8, 2),
              dest |-> U(10, 2), seq |-> U(14, 4), corr |-> U(18, 4),
              time |-> IF hasTs THEN At(data, HEADER_BASE_SIZE, 8) ELSE <<>>,
              topic |-> At(data, headerSize, U(12, 2)),
              payload |-> At(data, headerSize + U(12, 2), U(22, 4))]

-----------------------------------------------------------------------------
(* The announcement: buildAnnouncePayload.  Counts and lengths of one byte  *)
(* are capped, and what exceeds them is cut off.                            *)

Capped(s, limit) == IF Len(s) > limit THEN SubSeq(s, 1, limit) ELSE s
putStr8(s) == Put(Len(Capped(s, ByteBase - 1)), 1) \o Capped(s, ByteBase - 1)
putStr16(s) == Put(Len(Capped(s, Power[2] - 1)), 2) \o Capped(s, Power[2] - 1)
List(Item(_), s) ==
    LET shown == Capped(s, ByteBase - 1)
        b[i \in 0 .. Len(shown)] ==
            IF i = 0 THEN Put(Len(shown), 1) ELSE b[i - 1] \o Item(shown[i])
    IN  b[Len(shown)]

ROLE_SUB == 2
TopicItem(t) == Put(ROLE_SUB, 1) \o putStr16(t)
EndpointItem(e) == putStr8(e.type) \o putStr8(e.address) \o Put(e.port, 2)
HasWill(a) == a.will.enabled /\ a.will.topic # <<>>

buildAnnouncePayload(a) ==
    Put(a.id, 2) \o Put(a.domain, 1) \o Put(IF HasWill(a) THEN 1 ELSE 0, 1)
    \o putStr8(a.name) \o putStr8(a.host)
    \o List(TopicItem, a.topics) \o List(EndpointItem, a.endpoints)
    \o IF ~HasWill(a) THEN <<>>
       ELSE Put(a.will.qos, 1) \o Put(IF a.will.retain THEN 1 ELSE 0, 1)
            \o putStr16(a.will.topic) \o Put(Len(a.will.payload), 4) \o a.will.payload

\* sendAnnounce.
AnnounceMessage(a) ==
    [type |-> ANNOUNCE, crc |-> TRUE, qos |-> 0, flags |-> 0, serializer |-> 0,
     source |-> a.id, dest |-> Power[2] - 1, seq |-> 0, corr |-> 0, time |-> 0,
     topic |-> <<>>, payload |-> buildAnnouncePayload(a)]

-----------------------------------------------------------------------------
(* parseAnnouncePayload: a cursor that refuses to read past the end.        *)

Need_FirstByte(r, n) == n = 0 \/ r.off < Len(r.p)
Need(r, n) == n <= Len(r.p) /\ r.off <= Len(r.p) - n

\* u8, u16, u32 and the body of a string; v is what was read last.
Read(r, n) ==
    IF Need(r, n) THEN [r EXCEPT !.off = @ + n, !.v = At(r.p, r.off, n)]
    ELSE [r EXCEPT !.ok = FALSE, !.v = <<>>]
str(r, width) == LET n == Read(r, width) IN Read(n, Get(n.v))

\* One round of the loops over topics and endpoints; they end at the first
\* read that fails, and keep nothing of that round.
ParseTopic(r) ==
    LET role == Read(r, 1)
        topic == str(role, 2)
    IN  IF ~r.ok THEN r
        ELSE IF ~topic.ok THEN topic
        ELSE IF Get(role.v) = ROLE_SUB
             THEN [topic EXCEPT !.out.subscribed = Append(@, topic.v)]
             ELSE [topic EXCEPT !.out.published = Append(@, topic.v)]
ParseEndpoint(r) ==
    LET type == str(r, 1)
        address == str(type, 1)
        port == Read(address, 2)
        ep == [type |-> type.v, address |-> address.v, port |-> Get(port.v)]
    IN  IF ~r.ok THEN r
        ELSE IF ~port.ok THEN port
        ELSE [port EXCEPT !.out.endpoints = Append(@, ep)]
Times(Round(_), count) ==
    LET after[i \in 0 .. Get(count.v)] == IF i = 0 THEN count ELSE Round(after[i - 1])
    IN  after[Get(count.v)]

ParseWill(r) ==
    LET qos == Read(r, 1)
        retain == Read(qos, 1)
        topic == str(retain, 2)
        size == Read(topic, 4)
        payload == Read(size, Get(size.v))
    IN  IF ~size.ok THEN size
        ELSE IF ~payload.ok THEN payload
        ELSE [payload EXCEPT !.out.will =
                {[qos |-> Get(qos.v), retain |-> Get(retain.v) # 0,
                  topic |-> topic.v, payload |-> payload.v]}]

Reader(data) ==
    [p |-> data, off |-> 0, ok |-> TRUE, v |-> <<>>,
     out |-> [kind |-> "peer", id |-> 0, name |-> <<>>, host |-> <<>>, subscribed |-> <<>>,
              published |-> <<>>, endpoints |-> <<>>, will |-> {}]]
ParseNames(r, id) ==
    LET name == str(r, 1)
        host == str(name, 1)
    IN  [host EXCEPT !.out = [@ EXCEPT !.id = id, !.name = name.v, !.host = host.v]]
ParseLists(r) == Times(ParseEndpoint, Read(Times(ParseTopic, Read(r, 1)), 1))

parseAnnouncePayload(data) ==
    LET id == Read(Reader(data), 2)
        domain == Read(id, 1)
        flags == Read(domain, 1)
        lists == ParseLists(ParseNames(flags, Get(id.v)))
        end == IF Get(flags.v) % 2 = 1 THEN ParseWill(lists) ELSE lists
    IN  IF ~domain.ok \/ Get(domain.v) # DomainId \/ ~end.ok THEN Refused ELSE end.out

-----------------------------------------------------------------------------
(* The receiver.                                                            *)

\* onDiscoveryMessage: the endpoint the packet came from stands for "udp", and
\* gives its address to a "tcp" one that has none.
Reach(e) ==
    IF e.type = Tcp /\ e.address \in {AnyHost, <<>>}
    THEN [e EXCEPT !.address = From.address] ELSE e
Resolve(endpoints) ==
    LET resolved[i \in 0 .. Len(endpoints)] ==
            IF i = 0 THEN <<From>>
            ELSE IF endpoints[i].type = Udp THEN resolved[i - 1]
            ELSE Append(resolved[i - 1], Reach(endpoints[i]))
    IN  resolved[Len(endpoints)]

onDiscoveryMessage(data) ==
    LET result == decode(data)
        peer == parseAnnouncePayload(result.payload)
    IN  IF result = Refused \/ result.source = NodeId THEN Refused
        ELSE CASE result.type = ANNOUNCE ->
               IF peer = Refused THEN Refused ELSE [peer EXCEPT !.endpoints = Resolve(@)]
             [] result.type \in {HEARTBEAT, FAREWELL} ->
               [kind |-> "sign", type |-> result.type, id |-> result.source]
             [] OTHER -> Refused

\* The start of MessageBus::onReceived; what follows is in the other modules.
onReceived(data) == decode(data)

\* setRecvCallback of the participant: the first bytes tell where a packet goes.
recvCallback(data) ==
    LET U(off, width) == Get(At(data, off, width))
    IN  IF \/ Len(data) < HEADER_BASE_SIZE
           \/ U(0, 2) # EMBEDMQ_MAGIC \/ U(2, 1) # EMBEDMQ_VERSION
        THEN Refused
        ELSE IF U(3, 1) \in DiscoveryTypes THEN onDiscoveryMessage(data)
        ELSE onReceived(data)

Receive ==
    /\ got = Waiting /\ got' = recvCallback(packet)
    /\ UNCHANGED <<sent, packet, hurt>>

-----------------------------------------------------------------------------
(* selectEndpoint: where the bus sends to a peer, given the transports that *)
(* are active.  Shared memory serves the same host only.                    *)

selectEndpoint(peer, active) ==
    LET First(type) == SelectInSeq(peer.endpoints, LAMBDA e : e.type = type)
        Usable(type) == /\ First(type) # 0 /\ type \in active
                        /\ peer.endpoints[First(type)].address # <<>>
    IN  IF Usable(Shm) /\ LocalHost # <<>> /\ peer.host = LocalHost
        THEN peer.endpoints[First(Shm)]
        ELSE IF Usable(Tcp) THEN peer.endpoints[First(Tcp)]
        ELSE IF First(Udp) # 0 THEN peer.endpoints[First(Udp)]
        ELSE Head(peer.endpoints)

-----------------------------------------------------------------------------
(* The network.                                                             *)

Carry(what, data) ==
    /\ got # Waiting /\ got' = Waiting
    /\ sent' = what /\ packet' = data /\ hurt' = {}

\* A message in one buffer, or its header followed by topic and payload.  That
\* the encoder refused is not looked at: the rest is sent without a header.
Send(m) == Carry([kind |-> "message", m |-> m], encode(m))
SendGathered(m) ==
    Carry([kind |-> "message", m |-> m],
          encodeHeader(m) \o m.topic \o m.payload)
SendAnnounce(a) ==
    Carry([kind |-> "peer", m |-> AnnounceMessage(a), a |-> a], encode(AnnounceMessage(a)))

\* A packet of another program, with nothing to check it by.
Stray(a) == Carry(None, encode([AnnounceMessage(a) EXCEPT !.crc = FALSE]))

Overwrite(off, n) ==
    /\ got = Waiting /\ off < Len(packet) /\ packet[off + 1] # Byte(n)
    /\ Cardinality(hurt) < MaxDamage /\ off \notin hurt
    /\ packet' = [packet EXCEPT ![off + 1] = Byte(n)]
    /\ hurt' = hurt \cup {off}
    /\ UNCHANGED <<sent, got>>
Cut(size) ==
    /\ got = Waiting /\ size < Len(packet)
    /\ Cardinality(hurt) < MaxDamage /\ -1 \notin hurt
    /\ packet' = SubSeq(packet, 1, size)
    /\ hurt' = hurt \cup {-1}
    /\ UNCHANGED <<sent, got>>

Init == sent = None /\ packet = <<>> /\ hurt = {} /\ got = Refused
Next ==
    \/ \E m \in Messages : Send(m) \/ SendGathered(m)
    \/ \E a \in Announcements : SendAnnounce(a) \/ Stray(a)
    \/ \E off \in 0 .. Len(packet) - 1, n \in Noise : Overwrite(off, n)
    \/ \E size \in 0 .. Len(packet) - 1 : Cut(size)
    \/ Receive
Spec == Init /\ [][Next]_vars

-----------------------------------------------------------------------------
\* What a receiver ought to learn from a message and from an announcement.
SameMessage(m) ==
    /\ got.kind = "message" /\ got.topic = m.topic /\ got.payload = m.payload
    /\ \A f \in {"type", "qos", "flags", "serializer", "source", "dest", "seq", "corr"} :
         got[f] = m[f]
    /\ m.type \in DataTypes => Get(got.time) = m.time
SamePeer(a) ==
    /\ got.kind = "peer" /\ got.id = a.id
    /\ got.name = Capped(a.name, ByteBase - 1) /\ got.host = a.host
    /\ got.subscribed = [i \in DOMAIN Capped(a.topics, ByteBase - 1) |->
                           Capped(a.topics[i], MAX_TOPIC_LEN)]
    /\ got.published = <<>> /\ got.endpoints[1] = From
    /\ {[e EXCEPT !.address = <<>>] : e \in ToSet(Tail(got.endpoints))}
         = {[e EXCEPT !.address = <<>>] : e \in {f \in ToSet(a.endpoints) : f.type # Udp}}
    /\ \A e \in ToSet(got.endpoints) : e.address \notin {AnyHost, <<>>}
    /\ got.will = IF HasWill(a)
                  THEN {[qos |-> a.will.qos, retain |-> a.will.retain,
                         topic |-> Capped(a.will.topic, MAX_TOPIC_LEN),
                         payload |-> a.will.payload]} ELSE {}

\* Whichever transports are active, the bus sends to such a peer through one that
\* is, never into the shared memory of another host, and over a connection if the
\* peer offers one.
WellRouted(a) ==
    \A active \in SUBSET {Udp, Tcp, Shm} : Udp \in active =>
       LET ep == selectEndpoint(got, active)
       IN  /\ ep.type \in active /\ ep \in ToSet(got.endpoints)
           /\ ep.type = Shm => a.host = LocalHost
           /\ ep.type = Udp => \A e \in ToSet(a.endpoints) : e.type = Tcp => Tcp \notin active

\* A packet that nothing happened to means what was encoded, whichever of the two
\* encoders made it (message_codec.h:132): all fields, and of an announcement all
\* that its counts of one byte have room for, by which the peer can be reached
\* (message_bus.cpp:141).  A message beyond the limits, an
\* announcement of another domain and a node's own one are not taken.
RoundTrip ==
    hurt = {} /\ sent # None /\ got # Waiting =>
       IF \/ ~Fits(sent.m)
          \/ sent.m.type \in DiscoveryTypes /\ sent.m.source = NodeId
          \/ sent.kind = "peer" /\ sent.a.domain # DomainId
       THEN got = Refused
       ELSE IF sent.kind = "peer" THEN SamePeer(sent.a) /\ WellRouted(sent.a)
       ELSE IF sent.m.type \in {HEARTBEAT, FAREWELL}
       THEN got = [kind |-> "sign", type |-> sent.m.type, id |-> sent.m.source]
       ELSE SameMessage(sent.m)

\* A packet with a checksum that was cut or overwritten is refused, unless the
\* damage is to the type, which the checksum leaves out (message_codec.h:241), or
\* cleared the flag that there is a checksum.
DamageRefused ==
    sent # None /\ hurt # {} /\ got \notin {Waiting, Refused} =>
       \/ ~sent.m.crc \/ ~Fits(sent.m)
       \/ hurt = {3}
       \/ 4 \in hurt /\ (Get(At(packet, 4, 1)) \div 2) % 2 = 0

\* Nothing the receiver made of a packet, whole or damaged, comes from behind its
\* end (message_codec.h:237, discovery_agent.cpp:256).
NoOverread ==
    LET Clean(s) == \A i \in DOMAIN s : s[i] # Beyond
    IN  /\ got.kind = "message" => Clean(got.topic) /\ Clean(got.payload) /\ Clean(got.time)
        /\ got.kind = "peer" =>
             /\ Clean(got.name) /\ Clean(got.host) /\ got.id >= 0
             /\ \A i \in DOMAIN got.subscribed : Clean(got.subscribed[i])
             /\ \A e \in ToSet(got.endpoints) : Clean(e.address) /\ e.port >= 0
             /\ \A w \in got.will : Clean(w.topic) /\ Clean(w.payload)
=============================================================================
