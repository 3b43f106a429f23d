--------------------------- MODULE MCRequestReply ---------------------------
(* Instances of RequestReply in which the calls, the Requesters and the    *)
(* receive threads are interchangeable, for the run that checks safety.    *)
EXTENDS RequestReply, TLC

Interchangeable ==
    Permutations(Calls) \union Permutations(Requesters) \union Permutations(RxThreads)

\* Bound: the service is not withdrawn once a REQUEST has been sent, and the
\* requesting node is stopped only while no calls have overlapped on a Requester
\* and one receive thread of the other node has been at work.
Undisturbed ==
    /\ service \/ requests = 0
    /\ \/ running
       \/ /\ crossed = {}
          /\ \E t \in RxThreads : \A u \in RxThreads \ {t} :
                rx[u] = Idle /\ \A i \in Corrs : executed[u][i] = 0
=============================================================================
