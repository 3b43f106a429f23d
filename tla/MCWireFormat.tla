---------------------------- MODULE MCWireFormat ----------------------------
\* Small packets for WireFormat: bytes 0 .. 4, so that an id is at most 24, a
\* sequence number at most 624, and a list of 5 topics is one too long.
EXTENDS WireFormat

S(n) == <<Byte(n)>>
Long == [i \in 1 .. 25 |-> Byte(1)]

Base(type) ==
    [type |-> type, crc |-> TRUE, qos |-> 2, flags |-> 1, serializer |-> 3,
     source |-> 7, dest |-> 24, seq |-> 0, corr |-> 0, time |-> 300,
     topic |-> S(1), payload |-> <<>>]
MCMessages ==
    {[Base(0) EXCEPT !.crc = c, !.payload = p, !.seq = 624, !.corr = 200] :
        c \in BOOLEAN, p \in {<<>>, S(2)}}
    \cup {[Base(1) EXCEPT !.crc = c, !.topic = <<>>] : c \in BOOLEAN}
    \cup {[Base(1) EXCEPT !.topic = Long]}
    \cup {[Base(t) EXCEPT !.topic = <<>>, !.source = s] : t \in {3, 4}, s \in {6, 7}}
    \cup {[Base(0) EXCEPT !.payload = [i \in 1 .. 33 |-> Byte(0)]]}

NoWill == [enabled |-> FALSE, qos |-> 0, retain |-> FALSE, topic |-> <<>>, payload |-> <<>>]
Will == [enabled |-> TRUE, qos |-> 1, retain |-> TRUE, topic |-> S(3), payload |-> S(0)]
Ep(type, address) == [type |-> type, address |-> address, port |-> 9]
Node == [id |-> 7, domain |-> 1, name |-> S(3), host |-> <<>>, topics |-> <<>>,
         endpoints |-> <<>>, will |-> NoWill]
MCAnnouncements ==
    {[Node EXCEPT !.will = Will, !.topics = <<S(2)>>, !.endpoints = <<Ep(S(3), S(3))>>],
     [Node EXCEPT !.topics = <<S(0), S(1), <<>>, <<>>, S(2)>>],
     [Node EXCEPT !.host = S(2), !.endpoints = <<Ep(S(1), <<>>), Ep(S(2), S(0)), Ep(S(3), S(3))>>],
     [Node EXCEPT !.will = [Will EXCEPT !.topic = <<>>], !.name = [i \in 1 .. 5 |-> Byte(i - 1)]],
     [Node EXCEPT !.domain = 2], [Node EXCEPT !.id = 6]}

MCUdp == S(1)
MCTcp == S(2)
MCShm == S(3)
MCLocalHost == S(2)
MCAnyHost == S(0)
MCFrom == [type |-> S(1), address |-> S(2), port |-> 5]
=============================================================================
