--------------------------- MODULE MCLocalTopics ----------------------------
\* Names for a small instance of LocalTopics.
EXTENDS LocalTopics, TLC

MCTopics == {<<"a">>, <<"a", "b">>}
MCPatterns == {<<"a">>, <<"*", "#">>, <<"#", "b">>}

\* Threads that deliver are alike, and so are those that create and destroy; no
\* property is about fairness.
Alike == Permutations(Workers) \cup Permutations(Api)

\* The bound on the threads together: they create and destroy at the same time
\* until the first message; from then on they take turns and the list that is
\* announced is not one of a race.
ApiBound == msgs = 0 \/ (~raced /\ Cardinality({a \in Api : opc[a] # "idle"}) <= 1)
=============================================================================
