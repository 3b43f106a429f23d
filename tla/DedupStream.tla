---------------------------- MODULE DedupStream ----------------------------
(***************************************************************************)
(* One source's QoS 2 messages as its receiver sees them: QoSEngine's      *)
(* isDuplicate applied to a stream whose ids come from a 32-bit counter.   *)
(* A message is known here by its place in the stream (0, 1, ...); its     *)
(* header carries that number modulo SeqSpace.                             *)
(***************************************************************************)
EXTENDS Integers, FiniteSets, DedupWindow

CONSTANTS
    SeqSpace,     \* 2^32 in the code: the values of a uint32_t
    MaxMessages   \* bound: messages of the stream

ASSUME StreamAssumption == SeqSpace \in Nat \ {0} /\ MaxMessages \in Nat

VARIABLES
    sent,         \* messages the source has sent
    sourceWindow, \* windows_[sourceId]
    arrived,      \* history: messages that reached isDuplicate
    accepted      \* history: times a message was not called a duplicate

streamVars == <<sent, sourceWindow, arrived, accepted>>

Messages == 0..(MaxMessages - 1)

\* seqCounter_++ on a uint32_t.
SeqId(m) == (m + 1) % SeqSpace

StreamTypeOK ==
    /\ sent \in 0..MaxMessages
    /\ sourceWindow \in WindowState
    /\ arrived \subseteq Messages
    /\ accepted \in [Messages -> Nat]

StreamInit ==
    /\ sent = 0
    /\ sourceWindow = EmptyWindow
    /\ arrived = {}
    /\ accepted = [m \in Messages |-> 0]

Send ==
    /\ sent < MaxMessages
    /\ sent' = sent + 1
    /\ UNCHANGED <<sourceWindow, arrived, accepted>>

\* isDuplicate on a message that arrives: in any order, any number of times.
Arrive(m) ==
    /\ m < sent
    /\ sourceWindow' = CheckAndMark(sourceWindow, SeqId(m))
    /\ arrived' = arrived \union {m}
    /\ accepted' = IF IsDuplicate(sourceWindow, SeqId(m)) THEN accepted
                   ELSE [accepted EXCEPT ![m] = @ + 1]
    /\ UNCHANGED sent

StreamNext == Send \/ \E m \in Messages : Arrive(m)

StreamSpec == StreamInit /\ [][StreamNext]_streamVars

-----------------------------------------------------------------------------
\* A message is accepted at most once, also after its id was pruned.
AcceptedOnce == \A m \in Messages : accepted[m] <= 1

\* The memory of a window is bounded by the width of the window (both ends are
\* kept, hence one more), however long the stream and whatever the order of arrival.
MemoryBounded == Cardinality(sourceWindow.recent) <= Window + 1

\* A message that arrives for the first time, late by less than the width of
\* the window, is not mistaken for a duplicate.
FreshAccepted ==
    [][\A m \in arrived' \ arrived :
          (\A n \in arrived : n - m < Window) => accepted'[m] = 1]_streamVars
=============================================================================
