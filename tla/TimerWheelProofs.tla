-------------------------- MODULE TimerWheelProofs --------------------------
(***************************************************************************)
(* The timer wheel for every number of slots, every width of a tick, every *)
(* set of delays and any number of timers and of threads that call stop:   *)
(* the barrier of stop, and that the wheel implements TimerService.        *)
(***************************************************************************)
EXTENDS TimerWheel, TLAPS

-----------------------------------------------------------------------------
(* The arithmetic of delays and slots.                                     *)

LEMMA DivFacts ==
    ASSUME NEW a \in Nat, NEW b \in Nat \ {0}
    PROVE  /\ a \div b \in Nat
           /\ (a \div b) * b <= a
           /\ a < (a \div b) * b + b
  OBVIOUS

LEMMA SlotOfType == ASSUME NEW n \in Nat PROVE SlotOf(n) \in Slot
  BY WheelAssumption DEF SlotOf, Slot

\* The sum of addTimerLocked does not overflow for the delays of WheelAssumption.
LEMMA TicksOfSum ==
    ASSUME NEW d \in Delays
    PROVE  /\ d \in Nat /\ d + TICK_MS - 1 \in Nat
           /\ d + TICK_MS - 1 < U32
           /\ TicksOf(d) = Larger(1, (d + TICK_MS - 1) \div TICK_MS)
<1>1. d \in Nat /\ d + TICK_MS - 1 \in Nat /\ d + TICK_MS - 1 < U32
  BY WheelAssumption
<1>2. (d + TICK_MS - 1) % U32 = d + TICK_MS - 1
  BY <1>1, WheelAssumption
<1> QED
  BY <1>1, <1>2 DEF TicksOf

LEMMA TicksOfType == ASSUME NEW d \in Delays PROVE TicksOf(d) \in Nat \ {0}
  BY TicksOfSum, DivFacts, WheelAssumption DEF Larger

LEMMA MulMono ==
    ASSUME NEW a \in Nat, NEW b \in Nat, NEW c \in Nat, a <= b
    PROVE  a * c <= b * c
  OBVIOUS

\* The ticks of a delay are the fewest, at least one, that are no shorter.
LEMMA TicksOfFewest ==
    ASSUME NEW d \in Delays
    PROVE  /\ TicksOf(d) \in 1 .. U32
           /\ TicksOf(d) * TICK_MS >= d
           /\ TicksOf(d) = 1 \/ (TicksOf(d) - 1) * TICK_MS < d
<1> DEFINE a == d + TICK_MS - 1
           k == a \div TICK_MS
<1>1. d \in Nat /\ a \in Nat /\ a < U32 /\ TicksOf(d) = Larger(1, k)
  BY TicksOfSum
<1>2. k \in Nat /\ k * TICK_MS <= a /\ a < k * TICK_MS + TICK_MS
  BY <1>1, DivFacts, WheelAssumption
<1>3. k * TICK_MS >= d
  BY <1>1, <1>2, WheelAssumption
<1>4. k <= U32
  <2>1. k * 1 <= k * TICK_MS
    BY <1>2, MulMono, WheelAssumption
  <2> HIDE DEF k
  <2> QED
    BY <1>1, <1>2, <2>1, WheelAssumption
<1> HIDE DEF k
<1>5. (k - 1) * TICK_MS = k * TICK_MS - TICK_MS
  BY <1>2, WheelAssumption
<1>6. 1 * TICK_MS = TICK_MS /\ 0 * TICK_MS = 0
  BY WheelAssumption
<1>7. CASE k > 1
  <2>1. TicksOf(d) = k
    BY <1>1, <1>2, <1>7 DEF Larger
  <2> QED
    BY <1>1, <1>2, <1>3, <1>4, <1>5, <1>7, <2>1, WheelAssumption
<1>8. CASE k <= 1
  <2>1. TicksOf(d) = 1
    BY <1>1, <1>2, <1>8 DEF Larger
  <2>2. d <= TICK_MS
    BY <1>1, <1>2, <1>3, <1>6, <1>8, WheelAssumption
  <2> QED
    BY <1>1, <1>6, <2>1, <2>2, WheelAssumption
<1> QED
  BY <1>2, <1>7, <1>8

\* The rounding of addTimerLocked is what the service promises.
LEMMA PromisedIsTicksOf == ASSUME NEW d \in Delays PROVE Promised(d) = TicksOf(d)
<1> DEFINE P(n) == n * TICK_MS >= d /\ (n = 1 \/ (n - 1) * TICK_MS < d)
<1>1. TicksOf(d) \in 1 .. U32 /\ P(TicksOf(d))
  BY TicksOfFewest
<1>2. ASSUME NEW m \in 1 .. U32, NEW n \in 1 .. U32, P(m), P(n), m < n PROVE FALSE
  <2>1. (n - 1) * TICK_MS < d
    BY <1>2
  <2>2. m * TICK_MS <= (n - 1) * TICK_MS
    BY <1>2, MulMono, WheelAssumption
  <2>3. d \in Nat /\ m * TICK_MS \in Nat /\ (n - 1) * TICK_MS \in Nat
    BY WheelAssumption
  <2> QED
    BY <1>2, <2>1, <2>2, <2>3
<1>3. \A m \in 1 .. U32 : P(m) => m = TicksOf(d)
  BY <1>1, <1>2
<1>4. Promised(d) = CHOOSE n \in 1 .. U32 : P(n)
  BY DEF Promised
<1> QED
  BY <1>1, <1>3, <1>4

-----------------------------------------------------------------------------
(* Types.                                                                  *)

\* addTimerLocked puts a timer into the wheel.
LEMMA WithTimerType ==
    ASSUME TypeOK, NEW id \in Ids, NEW d \in Delays, NEW i \in Delays \cup {0}
    PROVE  WithTimer(id, d, i) \in [Slot -> SUBSET Timer]
<1> DEFINE fireTick == curTick + TicksOf(d)
           new == [id |-> id, intervalMs |-> i, fireTick |-> fireTick]
<1>1. fireTick \in Nat
  BY TicksOfType DEF TypeOK
<1>2. new \in Timer /\ SlotOf(fireTick) \in Slot
  BY <1>1, SlotOfType DEF Timer
<1>3. WithTimer(id, d, i) = [slots EXCEPT ![SlotOf(fireTick)] = @ \cup {new}]
  BY DEF WithTimer
<1> HIDE DEF fireTick, new
<1> QED
  BY <1>2, <1>3 DEF TypeOK

LEMMA TypeStep == TypeOK /\ [Next]_vars => TypeOK'
<1> SUFFICES ASSUME TypeOK, [Next]_vars PROVE TypeOK'
  OBVIOUS
<1> USE DEF TypeOK, wheel, thread, stopping
<1>1. CASE Start
  BY <1>1 DEF Start
<1>2. ASSUME NEW d \in Delays, NEW periodic \in BOOLEAN, AddTimer(d, periodic)
      PROVE  TypeOK'
  <2>1. nextId \in Ids /\ nextId' \in 1 .. MaxTimers + 1
    BY <1>2, WheelAssumption DEF AddTimer, Ids
  <2>2. slots' \in [Slot -> SUBSET Timer]
    BY <1>2, <2>1, WithTimerType DEF AddTimer
  <2> QED
    BY <1>2, <2>1, <2>2 DEF AddTimer
<1>3. ASSUME NEW id \in Ids, Cancel(id) PROVE TypeOK'
  BY <1>3 DEF Cancel
<1>4. CASE Loop
  BY <1>4 DEF Loop
<1>5. CASE TickLocked
  <2>1. SlotOf(curTick + 1) \in Slot
    BY SlotOfType
  <2>2. slots' \in [Slot -> SUBSET Timer] /\ due' \subseteq Timer
    BY <1>5, <2>1 DEF TickLocked, Expired
  <2> QED
    BY <1>5, <2>2 DEF TickLocked, MarksLeft
<1>6. CASE EndTick
  BY <1>6 DEF EndTick
<1>7. CASE ReturnCallback
  BY <1>7 DEF ReturnCallback
<1>8. CASE Rearm
  <2>1. PICK t \in cur : slots' = IF SetAgain(t) THEN WithTimer(t.id, t.intervalMs, t.intervalMs)
                                  ELSE slots
    BY <1>8 DEF Rearm
  <2>2. t \in Timer
    OBVIOUS
  <2>3. SetAgain(t) => t.id \in Ids /\ t.intervalMs \in Delays
    BY <2>2 DEF Timer, SetAgain
  <2>4. slots' \in [Slot -> SUBSET Timer]
    BY <2>1, <2>3, WithTimerType
  <2> QED
    BY <1>8, <2>4 DEF Rearm
<1>9. ASSUME NEW t \in due, StartCallback(t) PROVE TypeOK'
  BY <1>9 DEF StartCallback
<1>10. ASSUME NEW s \in Stoppers, StopCalled(s) PROVE TypeOK'
  BY <1>10 DEF StopCalled
<1>11. ASSUME NEW s \in Stoppers, StopLock(s) PROVE TypeOK'
  BY <1>11 DEF StopLock
<1>12. ASSUME NEW s \in Stoppers, Joined(s) PROVE TypeOK'
  BY <1>12 DEF Joined
<1>13. CASE UNCHANGED vars
  BY <1>13 DEF vars
<1> QED
  BY <1>1, <1>2, <1>3, <1>4, <1>5, <1>6, <1>7, <1>8, <1>9, <1>10, <1>11, <1>12, <1>13
     DEF Next, ThreadStep, StopStep

\* Type correctness: every variable of the model keeps its type.
THEOREM TypeCorrect == Spec => []TypeOK
<1>1. Init => TypeOK
  <2> SUFFICES ASSUME Init PROVE TypeOK
    OBVIOUS
  <2>1. slots \in [Slot -> SUBSET Timer] /\ spc \in [Stoppers -> {"idle", "lock", "join", "done"}]
    BY DEF Init
  <2>2. curTick \in Nat /\ nextId \in 1 .. MaxTimers + 1
    BY WheelAssumption DEF Init
  <2> QED
    BY <2>1, <2>2 DEF Init, TypeOK
<1> QED
  BY <1>1, TypeStep, PTL DEF Spec

-----------------------------------------------------------------------------
(* The barrier of stop.                                                    *)

\* joinable() turns false only when the thread has ended: a caller that finds
\* it false under stopMutex_ may return.
JoinedEnded == joined => tpc = "ended"

LEMMA BarrierStep ==
    TypeOK /\ JoinedEnded /\ StopIsBarrier /\ [Next]_vars => (JoinedEnded /\ StopIsBarrier)'
<1> SUFFICES ASSUME TypeOK, JoinedEnded, StopIsBarrier, [Next]_vars
             PROVE  (JoinedEnded /\ StopIsBarrier)'
  OBVIOUS
<1> USE DEF JoinedEnded, StopIsBarrier, wheel, thread, stopping
<1>1. CASE Start
  BY <1>1 DEF Start
<1>2. ASSUME NEW d \in Delays, NEW periodic \in BOOLEAN, AddTimer(d, periodic)
      PROVE  (JoinedEnded /\ StopIsBarrier)'
  BY <1>2 DEF AddTimer
<1>3. ASSUME NEW id \in Ids, Cancel(id) PROVE (JoinedEnded /\ StopIsBarrier)'
  BY <1>3 DEF Cancel
<1>4. CASE ThreadStep
  BY <1>4 DEF ThreadStep, Loop, TickLocked, EndTick, ReturnCallback, Rearm, StartCallback
<1>5. ASSUME NEW s \in Stoppers, StopCalled(s) PROVE (JoinedEnded /\ StopIsBarrier)'
  BY <1>5 DEF StopCalled, TypeOK
<1>6. ASSUME NEW s \in Stoppers, StopLock(s) PROVE (JoinedEnded /\ StopIsBarrier)'
  BY <1>6 DEF StopLock, TypeOK
<1>7. ASSUME NEW s \in Stoppers, Joined(s) PROVE (JoinedEnded /\ StopIsBarrier)'
  BY <1>7 DEF Joined, TypeOK
<1>8. CASE UNCHANGED vars
  BY <1>8 DEF vars
<1> QED
  BY <1>1, <1>2, <1>3, <1>4, <1>5, <1>6, <1>7, <1>8 DEF Next, StopStep

\* Once any of the threads that call stop has returned, the wheel's thread runs
\* no callback any more, whichever of them joined it.
THEOREM StopIsBarrierHolds == Spec => []StopIsBarrier
<1>1. Init => JoinedEnded /\ StopIsBarrier
  BY DEF Init, JoinedEnded, StopIsBarrier
<1> QED
  BY <1>1, TypeCorrect, BarrierStep, PTL DEF Spec

-----------------------------------------------------------------------------
(* The wheel implements TimerService.                                      *)

\* The timers in the slots.
Kept == UNION {slots[s] : s \in Slot}

\* A timer waits in the slot of the tick it is set for, and that tick is ahead.
Placed == \A s \in Slot : \A t \in slots[s] : SlotOf(t.fireTick) = s /\ t.fireTick > curTick

\* An identity is handed out once and names one timer.
Distinct ==
    /\ \A t \in Kept \cup due \cup cur : t.id < nextId
    /\ \A id \in cancelSet : id < nextId
    /\ \A t, u \in Kept \cup due \cup cur : t.id = u.id => t = u
    /\ Kept \cap (due \cup cur) = {} /\ due \cap cur = {}

\* The locals of tick are in use only while it runs callbacks.
Turn ==
    /\ tpc \notin {"fire", "callback", "again"} => due = {}
    /\ IF tpc \in {"callback", "again"} THEN \E t \in cur : cur = {t} ELSE cur = {}

WheelInv == Placed /\ Distinct /\ Turn

\* addTimerLocked adds one timer, ahead of the current tick and in its slot.
LEMMA WithTimerKept ==
    ASSUME TypeOK, Placed, NEW id \in Ids, NEW d \in Delays, NEW i \in Delays \cup {0},
           slots' = WithTimer(id, d, i), curTick' = curTick
    PROVE  /\ Placed'
           /\ Kept' = Kept \cup
                {[id |-> id, intervalMs |-> i, fireTick |-> curTick + TicksOf(d)]}
<1> DEFINE fireTick == curTick + TicksOf(d)
           new == [id |-> id, intervalMs |-> i, fireTick |-> fireTick]
           f == SlotOf(fireTick)
<1>1. fireTick \in Nat /\ fireTick > curTick
  BY TicksOfType DEF TypeOK
<1>2. new.fireTick = fireTick /\ f \in Slot
  BY <1>1, SlotOfType
<1>3. slots' = [slots EXCEPT ![f] = @ \cup {new}]
  BY DEF WithTimer
<1> SUFFICES Placed' /\ Kept' = Kept \cup {new}
  OBVIOUS
<1>4. SlotOf(new.fireTick) = f
  BY <1>2
<1> HIDE DEF fireTick, new, f
<1>5. slots \in [Slot -> SUBSET Timer]
  BY DEF TypeOK
<1>6. \A s \in Slot : slots'[s] = IF s = f THEN slots[s] \cup {new} ELSE slots[s]
  BY <1>3, <1>5
<1>7. Placed'
  BY <1>1, <1>2, <1>4, <1>6 DEF Placed
<1>8. Kept' = Kept \cup {new}
  BY <1>2, <1>6 DEF Kept
<1> QED
  BY <1>7, <1>8

\* A tick takes exactly the timers that are set for it, of all rounds.
LEMMA TickKept ==
    ASSUME TypeOK, Placed, TickLocked
    PROVE  /\ Placed'
           /\ Expired(slots[SlotOf(curTick + 1)], curTick + 1) = {t \in Kept : t.fireTick = curTick + 1}
           /\ Kept' = {t \in Kept : t.fireTick # curTick + 1}
<1> DEFINE f == SlotOf(curTick + 1)
           expired == Expired(slots[f], curTick + 1)
<1>1. slots \in [Slot -> SUBSET Timer] /\ curTick \in Nat /\ f \in Slot
  BY SlotOfType DEF TypeOK
<1>2. \A s \in Slot : \A t \in slots[s] : t.fireTick \in Nat
  BY <1>1 DEF Timer
<1>3. expired = {t \in slots[f] : t.fireTick <= curTick + 1}
  BY DEF Expired
<1>4. \A s \in Slot : \A t \in slots[s] : t.fireTick = curTick + 1 => s = f
  BY DEF Placed
<1>5. slots' = [slots EXCEPT ![f] = @ \ expired] /\ curTick' = curTick + 1
  BY DEF TickLocked
<1>6. \A t \in slots[f] : t.fireTick <= curTick + 1 <=> t.fireTick = curTick + 1
  BY <1>1, <1>2 DEF Placed
<1>7. expired = {t \in Kept : t.fireTick = curTick + 1}
  BY <1>1, <1>3, <1>4, <1>6 DEF Kept
<1> HIDE DEF f, expired
<1>8. \A s \in Slot : slots'[s] = {t \in slots[s] : t.fireTick # curTick + 1}
  BY <1>1, <1>3, <1>4, <1>5, <1>6
<1>9. Placed'
  BY <1>1, <1>2, <1>5, <1>8 DEF Placed
<1>10. Kept' = {t \in Kept : t.fireTick # curTick + 1}
  BY <1>8 DEF Kept
<1> QED
  BY <1>7, <1>9, <1>10 DEF expired, f

\* The fields of the timers in the slots.
LEMMA KeptTypes ==
    ASSUME TypeOK
    PROVE  /\ Kept \subseteq Timer
           /\ \A t \in Timer : t.id \in Ids /\ t.id \in Nat /\ t.fireTick \in Nat
  BY DEF TypeOK, Kept, Timer, Ids

LEMMA WheelInvStep == TypeOK /\ WheelInv /\ [Next]_vars => WheelInv'
<1> SUFFICES ASSUME TypeOK, WheelInv, [Next]_vars PROVE WheelInv'
  OBVIOUS
<1> USE DEF wheel, thread, stopping
<1>1. ASSUME UNCHANGED wheel PROVE Placed' /\ Kept' = Kept
  BY <1>1 DEF Placed, Kept, WheelInv
<1>2. CASE UNCHANGED <<wheel, due, cur>> /\ Turn'
  BY <1>1, <1>2 DEF WheelInv, Distinct
<1>3. CASE Start
  BY <1>2, <1>3 DEF Start, WheelInv, Turn
<1>4. ASSUME NEW d \in Delays, NEW periodic \in BOOLEAN, AddTimer(d, periodic)
      PROVE  WheelInv'
  <2> DEFINE i == IF periodic THEN d ELSE 0
             new == [id |-> nextId, intervalMs |-> i, fireTick |-> curTick + TicksOf(d)]
  <2>1. nextId \in Ids /\ nextId \in Nat /\ nextId' = nextId + 1 /\ i \in Delays \cup {0}
    BY <1>4, WheelAssumption DEF AddTimer, Ids, TypeOK
  <2>2. Placed' /\ Kept' = Kept \cup {new}
    BY <1>4, <2>1, WithTimerKept DEF AddTimer, WheelInv
  <2>3. new.id = nextId
    OBVIOUS
  <2> HIDE DEF new, i
  <2>4. UNCHANGED <<cancelSet, due, cur, tpc>>
    BY <1>4 DEF AddTimer
  <2>5. /\ \A t \in Kept \cup due \cup cur : t.id < nextId /\ t.id \in Nat
        /\ \A id \in cancelSet : id < nextId /\ id \in Nat
    BY KeptTypes DEF WheelInv, Distinct, TypeOK, Ids
  <2>6. new \notin Kept \cup due \cup cur
    BY <2>1, <2>3, <2>5
  <2>7. /\ \A t \in Kept' \cup due \cup cur : t.id < nextId + 1
        /\ \A id \in cancelSet : id < nextId + 1
    BY <2>1, <2>2, <2>3, <2>5
  <2>8. \A t, u \in Kept' \cup due \cup cur : t.id = u.id => t = u
    BY <2>1, <2>2, <2>3, <2>5 DEF WheelInv, Distinct
  <2>9. Distinct'
    BY <2>1, <2>2, <2>4, <2>6, <2>7, <2>8 DEF WheelInv, Distinct
  <2> QED
    BY <2>2, <2>4, <2>9 DEF WheelInv, Turn
<1>5. ASSUME NEW id \in Ids, Cancel(id) PROVE WheelInv'
  <2>1. Placed' /\ Kept' = Kept
    BY <1>5 DEF Cancel, Placed, Kept, WheelInv
  <2> QED
    BY <1>5, <2>1 DEF Cancel, WheelInv, Distinct, Turn
<1>6. CASE Loop
  BY <1>2, <1>6 DEF Loop, WheelInv, Turn
<1>7. CASE TickLocked
  <2> DEFINE expired == Expired(slots[SlotOf(curTick + 1)], curTick + 1)
  <2>1. Placed' /\ expired = {t \in Kept : t.fireTick = curTick + 1}
                /\ Kept' = {t \in Kept : t.fireTick # curTick + 1}
    BY <1>7, TickKept DEF WheelInv
  <2>2. cur = {} /\ cur' = {} /\ due' \subseteq expired /\ nextId' = nextId
        /\ cancelSet' \subseteq cancelSet /\ tpc' = "fire"
    BY <1>7 DEF TickLocked, WheelInv, Turn, MarksLeft
  <2>3. Kept' \subseteq Kept /\ due' \subseteq Kept /\ Kept' \cap due' = {}
    BY <2>1, <2>2
  <2>4. Distinct'
    BY <2>2, <2>3 DEF WheelInv, Distinct
  <2>5. Turn'
    BY <2>2 DEF Turn
  <2> QED
    BY <2>1, <2>4, <2>5 DEF WheelInv
<1>8. CASE EndTick
  BY <1>1, <1>8 DEF EndTick, WheelInv, Turn, Distinct
<1>9. CASE ReturnCallback
  BY <1>2, <1>9 DEF ReturnCallback, WheelInv, Turn
<1>10. CASE Rearm
  <2>1. PICK t \in cur : slots' = IF SetAgain(t) THEN WithTimer(t.id, t.intervalMs, t.intervalMs)
                                  ELSE slots
    BY <1>10 DEF Rearm
  <2>2. cur = {t} /\ t \in Timer
    BY <1>10, <2>1 DEF Rearm, WheelInv, Turn, TypeOK
  <2>3. UNCHANGED <<cancelSet, curTick, nextId, due>> /\ cur' = {} /\ tpc' = "fire"
    BY <1>10 DEF Rearm
  <2>4. Turn'
    BY <2>3 DEF Turn
  <2>5. CASE SetAgain(t)
    <3> DEFINE new == [id |-> t.id, intervalMs |-> t.intervalMs,
                       fireTick |-> curTick + TicksOf(t.intervalMs)]
    <3>1. t.id \in Ids /\ t.intervalMs \in Delays
      BY <2>2, <2>5 DEF Timer, SetAgain
    <3>2. Placed' /\ Kept' = Kept \cup {new}
      BY <2>1, <2>3, <2>5, <3>1, WithTimerKept DEF WheelInv
    <3>3. new.id = t.id
      OBVIOUS
    <3> HIDE DEF new
    <3>4. \A u \in Kept \cup due : u.id # t.id
      BY <2>2 DEF WheelInv, Distinct
    <3>5. \A u, v \in Kept' \cup due : u.id = v.id => u = v
      BY <3>2, <3>3, <3>4 DEF WheelInv, Distinct
    <3>6. Distinct'
      BY <2>2, <2>3, <3>2, <3>3, <3>4, <3>5 DEF WheelInv, Distinct
    <3> QED
      BY <2>4, <3>2, <3>6 DEF WheelInv
  <2>6. CASE ~SetAgain(t)
    <3>1. Placed' /\ Kept' = Kept
      BY <1>1, <2>1, <2>3, <2>6
    <3>2. Distinct'
      BY <2>3, <3>1 DEF WheelInv, Distinct
    <3> QED
      BY <2>4, <3>1, <3>2 DEF WheelInv
  <2> QED
    BY <2>5, <2>6
<1>11. ASSUME NEW t \in due, StartCallback(t) PROVE WheelInv'
  <2>1. Placed' /\ Kept' = Kept
    BY <1>1, <1>11 DEF StartCallback
  <2>2. cur = {} /\ due' = due \ {t} /\ cur' = {t} /\ tpc' = "callback"
        /\ UNCHANGED <<cancelSet, nextId>>
    BY <1>11 DEF StartCallback, WheelInv, Turn
  <2>3. Distinct'
    BY <2>1, <2>2 DEF WheelInv, Distinct
  <2>4. Turn'
    BY <2>2 DEF Turn
  <2> QED
    BY <2>1, <2>3, <2>4 DEF WheelInv
<1>12. ASSUME NEW s \in Stoppers, StopCalled(s) \/ StopLock(s) \/ Joined(s) PROVE WheelInv'
  BY <1>2, <1>12 DEF StopCalled, StopLock, Joined, WheelInv, Turn
<1>13. CASE UNCHANGED vars
  BY <1>2, <1>13 DEF vars, WheelInv, Turn
<1> QED
  BY <1>3, <1>4, <1>5, <1>6, <1>7, <1>8, <1>9, <1>10, <1>11, <1>12, <1>13
     DEF Next, ThreadStep, StopStep

\* The timers that came up, and the one that runs, as the service sees them.
Due == {ServiceTimer(t) : t \in due}
Active == {ServiceTimer(t) : t \in cur}

LEMMA ServiceTimerFields ==
    ASSUME NEW t
    PROVE  /\ ServiceTimer(t).id = t.id
           /\ ServiceTimer(t).at = t.fireTick
           /\ ServiceTimer(t).period = IF t.intervalMs > 0 /\ t.id \notin cancelSet
                                       THEN Promised(t.intervalMs) ELSE 0
  BY DEF ServiceTimer

\* What the service sees of a timer depends only on the mark of its identity.
LEMMA ServiceTimerSame ==
    ASSUME NEW t, t.id \in cancelSet' <=> t.id \in cancelSet
    PROVE  ServiceTimer(t)' = ServiceTimer(t)
  BY DEF ServiceTimer

LEMMA ArmedIs ==
    /\ Armed = {ServiceTimer(t) : t \in {u \in Kept : u.id \notin cancelSet}}
    /\ Armed' = {ServiceTimer(t)' : t \in {u \in Kept' : u.id \notin cancelSet'}}
  BY DEF Armed, Kept

LEMMA ServiceStep ==
    TypeOK /\ WheelInv /\ [Next]_vars => [Service!Next]_(Service!svars)
<1> SUFFICES ASSUME TypeOK, WheelInv, [Next]_vars
             PROVE  Service!Next \/ UNCHANGED <<curTick, running, Armed, Due, Active>>
  BY DEF Service!svars, Due, Active
<1> USE DEF wheel, thread, stopping
<1>1. ASSUME UNCHANGED <<slots, cancelSet, due, cur>> PROVE UNCHANGED <<Armed, Due, Active>>
  BY <1>1 DEF Armed, Due, Active, ServiceTimer
<1>2. CASE Start
  BY <1>1, <1>2 DEF Start, Service!Next, Service!Start, Due, Active
<1>3. ASSUME NEW d \in Delays, NEW periodic \in BOOLEAN, AddTimer(d, periodic)
      PROVE  Service!Next
  <2> DEFINE i == IF periodic THEN d ELSE 0
             new == [id |-> nextId, intervalMs |-> i, fireTick |-> curTick + TicksOf(d)]
             p == IF i > 0 THEN Promised(d) ELSE 0
  <2>1. nextId \in Ids /\ nextId \in Nat /\ i \in Delays \cup {0}
    BY <1>3, WheelAssumption DEF AddTimer, Ids, TypeOK
  <2>2. Kept' = Kept \cup {new}
    BY <1>3, <2>1, WithTimerKept DEF AddTimer, WheelInv
  <2>3. UNCHANGED <<cancelSet, curTick, due, cur, running>>
    BY <1>3 DEF AddTimer
  <2>4. nextId \notin cancelSet
    BY <2>1 DEF WheelInv, Distinct
  <2>5. ServiceTimer(new) = [id |-> nextId, at |-> curTick + Promised(d), period |-> p]
    BY <2>4, PromisedIsTicksOf DEF ServiceTimer
  <2>6. new.id = nextId
    OBVIOUS
  <2> HIDE DEF new
  <2>7. \A t : ServiceTimer(t)' = ServiceTimer(t)
    BY <2>3 DEF ServiceTimer
  <2>8. Armed' = Armed \cup {ServiceTimer(new)}
    BY <2>2, <2>3, <2>4, <2>6, <2>7, ArmedIs
  <2>9. Due' = Due /\ Active' = Active
    BY <2>3, <2>7 DEF Due, Active
  <2>10. \A t \in Armed \cup Due \cup Active : t.id # nextId
    BY <2>1, KeptTypes, ArmedIs, ServiceTimerFields DEF Due, Active, WheelInv, Distinct, TypeOK
  <2>11. Service!Set(nextId, Promised(d), p)
    BY <2>3, <2>5, <2>8, <2>9, <2>10 DEF Service!Set, Due, Active
  <2>12. p \in {0, Promised(d)} /\ Promised(d) \in {Promised(e) : e \in Delays}
    OBVIOUS
  <2> QED
    BY <2>1, <2>11, <2>12 DEF Service!Next
<1>4. ASSUME NEW id \in Ids, Cancel(id) PROVE Service!Next
  <2>1. UNCHANGED <<slots, curTick, due, cur, running>> /\ cancelSet' = cancelSet \cup {id}
    BY <1>4 DEF Cancel
  <2>2. Kept' = Kept
    BY <2>1 DEF Kept
  <2>3. \A t : t.id # id => ServiceTimer(t)' = ServiceTimer(t)
    BY <2>1, ServiceTimerSame
  <2> DEFINE Unset(t) == [t EXCEPT !.period = 0]
  <2>4. \A t : t.id = id => ServiceTimer(t)' = Unset(ServiceTimer(t))
    BY <2>1 DEF ServiceTimer
  <2> HIDE DEF Unset
  <2>5. Armed' = {t \in Armed : t.id # id}
    BY <2>1, <2>2, <2>3, ArmedIs, ServiceTimerFields
  <2>6. Due' = {t \in Due : t.id # id} \cup
               {Unset(t) : t \in {u \in Due : u.id = id}}
    BY <2>1, <2>3, <2>4, ServiceTimerFields DEF Due
  <2>7. Active' = {t \in Active : t.id # id} \cup
                  {Unset(t) : t \in {u \in Active : u.id = id}}
    BY <2>1, <2>3, <2>4, ServiceTimerFields DEF Active
  <2>8. Service!Cancel(id)
    BY <2>1, <2>5, <2>6, <2>7 DEF Service!Cancel, Service!Unrepeated, Due, Active, Unset
  <2> QED
    BY <2>8 DEF Service!Next
<1>5. CASE Loop
  BY <1>1, <1>5 DEF Loop
<1>6. CASE TickLocked
  <2> DEFINE expired == Expired(slots[SlotOf(curTick + 1)], curTick + 1)
  <2>1. expired = {t \in Kept : t.fireTick = curTick + 1}
        /\ Kept' = {t \in Kept : t.fireTick # curTick + 1}
    BY <1>6, TickKept DEF WheelInv
  <2>2. due = {} /\ cur = {} /\ cur' = {} /\ curTick' = curTick + 1
        /\ running' = running /\ cancelSet' = cancelSet \ {t.id : t \in expired}
        /\ due' = {t \in expired : t.id \notin cancelSet}
    BY <1>6 DEF TickLocked, WheelInv, Turn, MarksLeft
  <2> HIDE DEF expired
  <2>3. \A t \in Kept' : t.id \in cancelSet' <=> t.id \in cancelSet
    BY <2>1, <2>2 DEF WheelInv, Distinct
  <2>4. \A t \in due' : t.id \in cancelSet' <=> t.id \in cancelSet
    BY <2>2
  <2>5. \A t \in Kept' \cup due' : ServiceTimer(t)' = ServiceTimer(t)
    BY <2>3, <2>4, ServiceTimerSame
  <2>6. Due = {} /\ Due' = {ServiceTimer(t) : t \in due'} /\ Active = {} /\ Active' = {}
    BY <2>2, <2>5 DEF Due, Active
  <2>7. Armed' = {ServiceTimer(t) : t \in {u \in Kept' : u.id \notin cancelSet}}
    BY <2>3, <2>5, ArmedIs
  <2>8. Due' = {t \in Armed : t.at = curTick + 1}
    BY <2>1, <2>2, <2>6, ArmedIs, ServiceTimerFields
  <2>9. Armed' = {t \in Armed : t.at # curTick + 1}
    BY <2>1, <2>7, ArmedIs, ServiceTimerFields
  <2>10. Armed' = Armed \ Due'
    BY <2>8, <2>9
  <2>11. Service!Tick
    BY <2>2, <2>6, <2>8, <2>10 DEF Service!Tick, Due, Active
  <2> QED
    BY <2>11 DEF Service!Next
<1>7. CASE EndTick
  <2>1. due' = {} /\ UNCHANGED <<wheel, cur, running>>
    BY <1>7 DEF EndTick
  <2>2. Armed' = Armed /\ Active' = Active
    BY <2>1 DEF Armed, Active, ServiceTimer
  <2>3. Due' = {}
    BY <2>1 DEF Due
  <2>4. CASE due = {}
    BY <2>1, <2>2, <2>3, <2>4 DEF Due
  <2>5. CASE ~running
    <3>1. Service!AbandonAll
      BY <2>1, <2>2, <2>3, <2>5 DEF Service!AbandonAll, Due, Active
    <3> QED
      BY <3>1 DEF Service!Next
  <2> QED
    BY <1>7, <2>4, <2>5 DEF EndTick
<1>8. CASE ReturnCallback
  BY <1>1, <1>8 DEF ReturnCallback
<1>9. CASE Rearm
  <2>1. PICK t \in cur : slots' = IF SetAgain(t) THEN WithTimer(t.id, t.intervalMs, t.intervalMs)
                                  ELSE slots
    BY <1>9 DEF Rearm
  <2>2. cur = {t} /\ t \in Timer
    BY <1>9, <2>1 DEF Rearm, WheelInv, Turn, TypeOK
  <2>3. UNCHANGED <<cancelSet, curTick, due, running>> /\ cur' = {}
    BY <1>9 DEF Rearm
  <2>4. \A u : ServiceTimer(u)' = ServiceTimer(u)
    BY <2>3 DEF ServiceTimer
  <2>5. Due' = Due
    BY <2>3, <2>4 DEF Due
  <2>6. Active = {ServiceTimer(t)} /\ Active' = {}
    BY <2>2, <2>3 DEF Active
  <2>7. CASE SetAgain(t)
    <3> DEFINE new == [id |-> t.id, intervalMs |-> t.intervalMs,
                       fireTick |-> curTick + TicksOf(t.intervalMs)]
               st == ServiceTimer(t)
    <3>1. t.id \in Ids /\ t.intervalMs \in Delays /\ t.id \notin cancelSet /\ t.intervalMs > 0
      BY <2>2, <2>7 DEF Timer, SetAgain
    <3>2. Kept' = Kept \cup {new}
      BY <2>1, <2>3, <2>7, <3>1, WithTimerKept DEF WheelInv
    <3>3. st.period = Promised(t.intervalMs) /\ st.period # 0
      BY <3>1, PromisedIsTicksOf, TicksOfType, ServiceTimerFields
    <3>4. ServiceTimer(new) = [st EXCEPT !.at = curTick + st.period]
      BY <3>1, PromisedIsTicksOf DEF ServiceTimer
    <3>5. new.id = t.id
      OBVIOUS
    <3> HIDE DEF new
    <3>6. Armed' = Armed \cup {ServiceTimer(new)}
      BY <2>3, <2>4, <3>1, <3>2, <3>5, ArmedIs
    <3> HIDE DEF st
    <3>7. Service!Finish(st)
      BY <2>3, <2>5, <2>6, <3>3, <3>4, <3>6 DEF Service!Finish, Due, Active, st
    <3> QED
      BY <2>6, <3>7 DEF Service!Next, Active, st
  <2>8. CASE ~SetAgain(t)
    <3>1. Armed' = Armed
      BY <2>1, <2>3, <2>8 DEF Armed, ServiceTimer
    <3>2. CASE ~running
      <4>1. Service!Abandon(ServiceTimer(t))
        BY <2>3, <2>5, <2>6, <3>1, <3>2 DEF Service!Abandon, Due, Active
      <4> QED
        BY <2>6, <4>1 DEF Service!Next, Active
    <3>3. CASE running
      <4>1. ServiceTimer(t).period = 0
        BY <2>8, <3>3, ServiceTimerFields DEF SetAgain
      <4>2. Service!Finish(ServiceTimer(t))
        BY <2>3, <2>5, <2>6, <3>1, <4>1 DEF Service!Finish, Due, Active
      <4> QED
        BY <2>6, <4>2 DEF Service!Next, Active
    <3> QED
      BY <3>2, <3>3
  <2> QED
    BY <2>7, <2>8
<1>10. ASSUME NEW t \in due, StartCallback(t) PROVE Service!Next
  <2>1. UNCHANGED <<slots, cancelSet, curTick, running>> /\ cur = {} /\ cur' = {t}
        /\ due' = due \ {t} /\ running
    BY <1>10 DEF StartCallback, WheelInv, Turn
  <2>2. Armed' = Armed
    BY <2>1 DEF Armed, ServiceTimer
  <2>3. \A u : ServiceTimer(u)' = ServiceTimer(u)
    BY <2>1 DEF ServiceTimer
  <2>4. Active = {} /\ Active' = {ServiceTimer(t)}
    BY <2>1, <2>3 DEF Active
  <2>5. \A u \in due : u.id = t.id => u = t
    BY <1>10 DEF WheelInv, Distinct
  <2>6. ServiceTimer(t) \in Due /\ Due' = Due \ {ServiceTimer(t)}
    BY <2>1, <2>3, <2>5, ServiceTimerFields DEF Due
  <2>7. Service!Run(ServiceTimer(t))
    BY <2>1, <2>2, <2>4, <2>6 DEF Service!Run, Due, Active
  <2> QED
    BY <2>6, <2>7 DEF Service!Next, Due
<1>11. ASSUME NEW s \in Stoppers, StopCalled(s) \/ StopLock(s) \/ Joined(s)
       PROVE  Service!Next \/ UNCHANGED <<curTick, running, Armed, Due, Active>>
  <2>1. UNCHANGED <<slots, cancelSet, curTick, due, cur>>
    BY <1>11 DEF StopCalled, StopLock, Joined
  <2>2. CASE StopCalled(s)
    BY <1>1, <2>1, <2>2 DEF StopCalled, Service!Next, Service!Stop, Due, Active
  <2>3. CASE StopLock(s) \/ Joined(s)
    BY <1>1, <2>1, <2>3 DEF StopLock, Joined
  <2> QED
    BY <1>11, <2>2, <2>3
<1>12. CASE UNCHANGED vars
  BY <1>1, <1>12 DEF vars
<1> QED
  BY <1>2, <1>3, <1>4, <1>5, <1>6, <1>7, <1>8, <1>9, <1>10, <1>11, <1>12
     DEF Next, ThreadStep, StopStep

\* The wheel with its rounds, marks and threads implements the service: every
\* timer comes up at the tick promised for its delay, its callback runs and a
\* periodic timer is set again unless the wheel was stopped, none is lost or
\* doubled, and cancel counts in whatever state of the timer it comes.
THEOREM ImplementsService == Spec => IsTimerService
<1>1. Init => WheelInv
  BY WheelAssumption DEF Init, WheelInv, Placed, Distinct, Turn, Kept
<1>2. Init => Service!Init
  BY DEF Init, Service!Init, Armed
<1> QED
  BY <1>1, <1>2, TypeCorrect, WheelInvStep, ServiceStep, PTL
     DEF Spec, IsTimerService, Service!Spec
=============================================================================
