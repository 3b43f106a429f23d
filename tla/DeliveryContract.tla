-------------------------- MODULE DeliveryContract --------------------------
(***************************************************************************)
(* What publish() promises for a message and a peer, without packets,      *)
(* retransmission or duplicate filter.  The peer takes copies of a message *)
(* that was offered and owes each of them a decision: it delivers the copy *)
(* or discards it.  It discards only a copy of a QoS 2 message that it     *)
(* delivers otherwise or that came too late, and delivers such a message   *)
(* once, and once more each time it forgot it.  Only a message that is     *)
(* owed, delivered or too late is confirmed, and it is given up once.      *)
(***************************************************************************)
EXTENDS Integers

CONSTANTS
    Seqs,        \* sequence ids
    Receivers,   \* peers
    Window       \* how many later ids make a QoS 2 message too late

VARIABLES level, dest, offered, owed, delivered, confirmed, abandoned, forgotten

vars == <<level, dest, offered, owed, delivered, confirmed, abandoned, forgotten>>

Init ==
    /\ level = [s \in Seqs |-> 0]
    /\ dest \in [Seqs -> Receivers]
    /\ offered = {} /\ confirmed = {} /\ abandoned = {}
    /\ owed = [s \in Seqs |-> 0]
    /\ delivered = [s \in Seqs |-> 0]
    /\ forgotten = [s \in Seqs |-> 0]

Offer(s, lvl, r) ==
    /\ s \notin offered
    /\ offered' = offered \union {s}
    /\ level' = [level EXCEPT ![s] = lvl]
    /\ dest' = [dest EXCEPT ![s] = r]
    /\ UNCHANGED <<owed, delivered, confirmed, abandoned, forgotten>>

\* The peer takes a copy and answers it.
Accept(s) ==
    /\ s \in offered
    /\ owed' = [owed EXCEPT ![s] = @ + 1]
    /\ UNCHANGED <<level, dest, offered, delivered, confirmed, abandoned, forgotten>>

Deliver(s) ==
    /\ owed[s] > 0
    /\ level[s] = 2 => delivered[s] <= forgotten[s]
    /\ owed' = [owed EXCEPT ![s] = @ - 1]
    /\ delivered' = [delivered EXCEPT ![s] = @ + 1]
    /\ UNCHANGED <<level, dest, offered, confirmed, abandoned, forgotten>>

\* A whole window of later ids has passed: one of them reached the peer.
TooLate(s) ==
    \E s2 \in Seqs : /\ s2 >= s + Window
                     /\ level[s2] = 2 /\ dest[s2] = dest[s]
                     /\ delivered[s2] + owed[s2] > 0

Discard(s) ==
    /\ owed[s] > 0
    /\ level[s] = 2
    /\ delivered[s] > 0 \/ owed[s] > 1 \/ TooLate(s)
    /\ owed' = [owed EXCEPT ![s] = @ - 1]
    /\ UNCHANGED <<level, dest, offered, delivered, confirmed, abandoned, forgotten>>

Confirm(s) ==
    /\ delivered[s] > 0 \/ owed[s] > 0 \/ (level[s] = 2 /\ TooLate(s))
    /\ confirmed' = confirmed \union {s}
    /\ UNCHANGED <<level, dest, offered, owed, delivered, abandoned, forgotten>>

\* A peer that heard nothing for a while forgets what it received.
Forget(r) ==
    /\ UNCHANGED <<level, dest, offered, owed, delivered, confirmed, abandoned>>
    /\ \E known \in SUBSET {s \in Seqs : level[s] = 2 /\ dest[s] = r} :
          forgotten' = [s \in Seqs |-> forgotten[s] + (IF s \in known THEN 1 ELSE 0)]

GiveUp ==
    /\ UNCHANGED <<level, dest, offered, owed, delivered, confirmed, forgotten>>
    /\ \E lost \in SUBSET {s \in offered \ abandoned : level[s] >= 1} :
          abandoned' = abandoned \union lost

Next ==
    \/ \E s \in Seqs :
          \/ \E lvl \in 0..2, r \in Receivers : Offer(s, lvl, r)
          \/ Accept(s) \/ Deliver(s) \/ Discard(s) \/ Confirm(s)
    \/ \E r \in Receivers : Forget(r)
    \/ GiveUp

Spec == Init /\ [][Next]_vars
=============================================================================
