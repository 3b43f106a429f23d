----------------------------- MODULE TimerWheel -----------------------------
(***************************************************************************)
(* The timer wheel (src/util/timer_wheel.h) that the message bus and the   *)
(* discovery agent each own: slots of timers, the marks left by cancel,    *)
(* the thread that ticks and runs callbacks, threads that add and cancel   *)
(* timers meanwhile, and threads that stop the wheel, perhaps together.    *)
(* One action is one critical section, or one run of code that nobody else *)
(* can observe.  A slot is a set: the order of the callbacks of one tick   *)
(* is left open.  Callbacks are the owner's; they take time and may add    *)
(* and cancel timers, as any thread may.                                   *)
(***************************************************************************)
EXTENDS Integers, FiniteSets

CONSTANTS
    SLOT_COUNT, TICK_MS,   \* as in the code: 512 slots of 10 ms
    U32,                   \* number of values of uint32_t: 2^32 in the code
    Delays,                \* delays and intervals, in ms, that callers ask for
    Stoppers,              \* threads that call stop
    MaxTimers, MaxTick     \* bounds: timers added, ticks

\* U32 - TICK_MS is the longest delay that (delayMs + TICK_MS - 1) can carry.
ASSUME WheelAssumption ==
    /\ SLOT_COUNT \in Nat \ {0} /\ TICK_MS \in Nat \ {0}
    /\ U32 \in Nat /\ TICK_MS < U32
    /\ Delays \subseteq 0 .. U32 - TICK_MS
    /\ MaxTimers \in Nat /\ MaxTick \in Nat

VARIABLES
    slots,      \* slots_
    cancelSet,  \* cancelSet_
    curTick,    \* curTick_
    nextId,     \* nextId_
    running,    \* running_
    tpc,        \* the wheel's thread: "none", "loop", "sleep", "fire",
                \* "callback", "again", "ended"
    due,        \* local due of tick, without the timers already done
    cur,        \* the timer whose turn it is, as a set of at most one
    joined,     \* thread_ is not joinable any more
    stopLock,   \* stopMutex_: its holder, as a set of at most one
    spc         \* next step of each stopping thread

vars == <<slots, cancelSet, curTick, nextId, running, tpc, due, cur, joined,
          stopLock, spc>>
wheel == <<slots, cancelSet, curTick, nextId>>
thread == <<tpc, due, cur>>
stopping == <<running, joined, stopLock, spc>>

Ids == 1 .. MaxTimers
Slot == 0 .. SLOT_COUNT - 1
Timer == [id : Ids, intervalMs : Delays \cup {0}, fireTick : Nat]

Init ==
    /\ slots = [s \in Slot |-> {}]
    /\ cancelSet = {} /\ curTick = 0 /\ nextId = 1
    /\ running = FALSE /\ tpc = "none" /\ due = {} /\ cur = {}
    /\ joined = FALSE /\ stopLock = {}
    /\ spc = [s \in Stoppers |-> "idle"]

\* start
Start ==
    /\ tpc = "none" /\ \A s \in Stoppers : spc[s] = "idle"
    /\ running' = TRUE /\ tpc' = "loop"
    /\ UNCHANGED <<wheel, due, cur, joined, stopLock, spc>>

-----------------------------------------------------------------------------
(* Callers: addOnce, addPeriodic, cancel.                                   *)

Larger(a, b) == IF a > b THEN a ELSE b

\* The sum is one of uint32_t.
TicksOf(delayMs) == Larger(1, ((delayMs + TICK_MS - 1) % U32) \div TICK_MS)

SlotOf(fireTick) == fireTick % SLOT_COUNT

\* The slots after addTimerLocked.
WithTimer(id, delayMs, intervalMs) ==
    LET fireTick == curTick + TicksOf(delayMs)
    IN  [slots EXCEPT ![SlotOf(fireTick)] = @ \cup
           {[id |-> id, intervalMs |-> intervalMs, fireTick |-> fireTick]}]

\* addOnce, addPeriodic and addTimer.
AddTimer(delayMs, periodic) ==
    /\ nextId <= MaxTimers
    /\ nextId' = nextId + 1
    /\ slots' = WithTimer(nextId, delayMs, IF periodic THEN delayMs ELSE 0)
    /\ UNCHANGED <<cancelSet, curTick, thread, stopping>>

\* Any identity that was given out, of a timer that is over as well.
Cancel(id) ==
    /\ id < nextId
    /\ cancelSet' = cancelSet \cup {id}
    /\ UNCHANGED <<slots, curTick, nextId, thread, stopping>>

-----------------------------------------------------------------------------
(* The wheel's thread: loop and tick.                                       *)

\* Timers of the bucket that come up at this tick.
Expired(bucket, tick) == {t \in bucket : t.fireTick <= tick}

\* A mark is kept until its timer comes up.
MarksLeft_OneTick(expired) == {}
MarksLeft(expired) == cancelSet \ {t.id : t \in expired}

\* loop: running_ is read before the sleep, so one more tick may follow stop.
Loop ==
    /\ tpc = "loop"
    /\ IF running THEN curTick < MaxTick /\ tpc' = "sleep" ELSE tpc' = "ended"
    /\ UNCHANGED <<wheel, due, cur, stopping>>

\* tick: the critical section.
TickLocked ==
    /\ tpc = "sleep"
    /\ LET s == SlotOf(curTick + 1)
           expired == Expired(slots[s], curTick + 1)
       IN  /\ curTick' = curTick + 1
           /\ slots' = [slots EXCEPT ![s] = @ \ expired]
           /\ cancelSet' = MarksLeft(expired)
           /\ due' = {t \in expired : t.id \notin cancelSet}
    /\ tpc' = "fire"
    /\ UNCHANGED <<nextId, cur, stopping>>

\* The next callback starts, unless the wheel is being stopped.
StartCallback(t) ==
    /\ tpc = "fire" /\ t \in due /\ running
    /\ cur' = {t} /\ due' = due \ {t}
    /\ tpc' = "callback"
    /\ UNCHANGED <<wheel, stopping>>

\* All callbacks of the tick are done, or running_ was seen to be false.
EndTick ==
    /\ tpc = "fire" /\ (due = {} \/ ~running)
    /\ due' = {} /\ tpc' = "loop"
    /\ UNCHANGED <<wheel, cur, stopping>>

ReturnCallback ==
    /\ tpc = "callback" /\ tpc' = "again"
    /\ UNCHANGED <<wheel, due, cur, stopping>>

SetAgain(t) == t.intervalMs > 0 /\ running /\ t.id \notin cancelSet

\* A periodic timer is added again, unless it was cancelled meanwhile.
Rearm ==
    /\ tpc = "again"
    /\ \E t \in cur :
         slots' = IF SetAgain(t) THEN WithTimer(t.id, t.intervalMs, t.intervalMs)
                  ELSE slots
    /\ cur' = {} /\ tpc' = "fire"
    /\ UNCHANGED <<cancelSet, curTick, nextId, due, stopping>>

-----------------------------------------------------------------------------
(* stop, called by the owner, by its destructor and by ~TimerWheel.         *)

StopCalled_StillRunning(s) ==
    /\ spc[s] = "idle"
    /\ spc' = [spc EXCEPT ![s] = "lock"]
    /\ UNCHANGED <<wheel, thread, running, joined, stopLock>>
StopCalled(s) ==
    /\ spc[s] = "idle"
    /\ running' = FALSE
    /\ spc' = [spc EXCEPT ![s] = "lock"]
    /\ UNCHANGED <<wheel, thread, joined, stopLock>>

\* The mutex is free, and joinable() is asked under it.
StopLock_NoMutex(s) ==
    /\ spc[s] = "lock"
    /\ IF tpc = "none" \/ joined
       THEN spc' = [spc EXCEPT ![s] = "done"] /\ UNCHANGED joined
       ELSE spc' = [spc EXCEPT ![s] = "join"] /\ joined' = TRUE
    /\ UNCHANGED <<wheel, thread, running, stopLock>>
StopLock(s) ==
    /\ spc[s] = "lock" /\ stopLock = {}
    /\ IF tpc = "none" \/ joined
       THEN spc' = [spc EXCEPT ![s] = "done"] /\ UNCHANGED stopLock
       ELSE spc' = [spc EXCEPT ![s] = "join"] /\ stopLock' = {s}
    /\ UNCHANGED <<wheel, thread, running, joined>>

\* join returns when the thread has ended.
Joined(s) ==
    /\ spc[s] = "join" /\ tpc = "ended"
    /\ joined' = TRUE /\ stopLock' = stopLock \ {s}
    /\ spc' = [spc EXCEPT ![s] = "done"]
    /\ UNCHANGED <<wheel, thread, running>>

-----------------------------------------------------------------------------
ThreadStep ==
    \/ Loop \/ TickLocked \/ EndTick \/ ReturnCallback \/ Rearm
    \/ \E t \in due : StartCallback(t)
StopStep(s) == StopLock(s) \/ Joined(s)

Next ==
    \/ Start
    \/ \E d \in Delays, periodic \in BOOLEAN : AddTimer(d, periodic)
    \/ \E id \in Ids : Cancel(id)
    \/ ThreadStep
    \/ \E s \in Stoppers : StopCalled(s) \/ StopStep(s)

\* The thread goes on while it has something to do and callbacks return; a
\* call of stop goes on when it can.
Fairness == WF_vars(ThreadStep) /\ \A s \in Stoppers : WF_vars(StopStep(s))
Spec == Init /\ [][Next]_vars /\ Fairness

-----------------------------------------------------------------------------
TypeOK ==
    /\ slots \in [Slot -> SUBSET Timer]
    /\ cancelSet \subseteq Ids
    /\ curTick \in Nat /\ nextId \in 1 .. MaxTimers + 1
    /\ running \in BOOLEAN /\ joined \in BOOLEAN
    /\ tpc \in {"none", "loop", "sleep", "fire", "callback", "again", "ended"}
    /\ due \subseteq Timer /\ cur \subseteq Timer
    /\ stopLock \subseteq Stoppers
    /\ spc \in [Stoppers -> {"idle", "lock", "join", "done"}]

\* The timers the wheel still keeps for its owner, as the service sees them:
\* in whatever slot they are, without those marked in cancelSet.  A delay is
\* promised as the fewest ticks, at least one, that are no shorter.
Promised(d) ==
    CHOOSE n \in 1 .. U32 : n * TICK_MS >= d /\ (n = 1 \/ (n - 1) * TICK_MS < d)
ServiceTimer(t) ==
    [id |-> t.id, at |-> t.fireTick,
     period |-> IF t.intervalMs > 0 /\ t.id \notin cancelSet
                THEN Promised(t.intervalMs) ELSE 0]
Armed == {ServiceTimer(t) : t \in {u \in UNION {slots[s] : s \in Slot} :
                                     u.id \notin cancelSet}}
Service == INSTANCE TimerService WITH
    Ids <- Ids, Ticks <- {Promised(d) : d \in Delays},
    now <- curTick, running <- running, armed <- Armed,
    due <- {ServiceTimer(t) : t \in due}, active <- {ServiceTimer(t) : t \in cur}

\* The wheel does what TimerService promises (timer_wheel.h:82 and 123): a
\* timer runs at the tick it was set for although it shares its slot with
\* timers of other rounds, its callback runs before the next tick and a
\* periodic timer is set again unless the wheel is being stopped, cancel counts
\* for a timer far ahead and for one whose callback is running, and no timer is
\* lost or comes up twice.
IsTimerService == Service!Spec

\* When any call of stop has returned, no callback is running and none will
\* run (timer_wheel.h:57, the barrier): true of the second of two callers too.
StopIsBarrier ==
    \A s \in Stoppers : spc[s] = "done" => tpc \in {"none", "ended"}

\* Every call of stop returns, whatever the thread was doing.
StopReturns == \A s \in Stoppers : spc[s] # "idle" ~> spc[s] = "done"
=============================================================================
