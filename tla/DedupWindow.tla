---------------------------- MODULE DedupWindow ----------------------------
(***************************************************************************)
(* The receiver's sliding duplicate filter for QoS 2: QoSEngine's          *)
(* DedupWindow, one per source node.  A window remembers the highest       *)
(* sequence id seen from the source and the accepted ids that are not too  *)
(* far below it; everything further below is taken for a duplicate.        *)
(***************************************************************************)
EXTENDS Integers

CONSTANT Window   \* DedupWindow::WINDOW, 1024 in the code

ASSUME WindowAssumption == Window \in Nat \ {0}

\* The values a window takes; the time of the last touch is left out, the
\* eviction it drives is an action of QoSDelivery.
WindowState == [hasAny : BOOLEAN, highWater : Nat, recent : SUBSET Nat]

EmptyWindow_Unset == [hasAny |-> FALSE, highWater |-> -1, recent |-> {}]

EmptyWindow == [hasAny |-> FALSE, highWater |-> 0, recent |-> {}]

\* seq < highWater && highWater - seq >= WINDOW
TooOld(w, seq) == seq < w.highWater /\ w.highWater - seq >= Window

IsDuplicate_HighWaterOnly(w, seq) == w.hasAny /\ seq <= w.highWater

\* What checkAndMark returns: TRUE for a duplicate.
IsDuplicate(w, seq) == w.hasAny /\ (TooOld(w, seq) \/ seq \in w.recent)

HigherOf(a, b) == IF a > b THEN a ELSE b

LowEnd_AtHighWater(high) == high
LowEnd_Zero(high) == 0

\* The ids below this bound are erased from recent.
LowEnd(high) == IF high >= Window THEN high - Window ELSE 0

\* The window after checkAndMark has accepted seq.
Mark(w, seq) ==
    LET high == IF w.hasAny THEN HigherOf(w.highWater, seq) ELSE seq
    IN  [hasAny    |-> TRUE,
         highWater |-> high,
         recent    |-> IF w.hasAny
                       THEN {x \in w.recent \union {seq} : x >= LowEnd(high)}
                       ELSE {seq}]

\* The window after checkAndMark, whatever it returns.
CheckAndMark(w, seq) == IF IsDuplicate(w, seq) THEN w ELSE Mark(w, seq)
=============================================================================
