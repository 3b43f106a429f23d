--------------------------- MODULE MCQoSDelivery ---------------------------
(* An instance of QoSDelivery for the run that checks safety with two      *)
(* messages under way.                                                     *)
EXTENDS QoSDelivery

\* Bounds: the first publish has a subscriber, so that the ids sent are two or
\* three apart; and the second phase of the handshake, which touches neither
\* window nor subscribers, is explored for one message at a time.
TwoMessages ==
    /\ seqCounter >= 3 => sends[2] > 0
    /\ \A s, s2 \in pendingRel \union {x \in Seqs : net[Pkt("PUBREL", x)] > 0} : s = s2
=============================================================================
