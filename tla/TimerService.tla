---------------------------- MODULE TimerService ----------------------------
(***************************************************************************)
(* What the owner of a timer wheel is promised: a timer comes up at        *)
(* exactly the tick it was set for and its callback runs before the next   *)
(* tick, a periodic timer is set again when its callback ends, a cancelled *)
(* timer never comes up again, and a timer that came up before it was      *)
(* cancelled runs at most that once.  Only the stop of the service excuses *)
(* a callback that does not run or a timer that is not set again.  There   *)
(* are no slots, rounds or marks of cancellation here.                     *)
(***************************************************************************)
EXTENDS Integers

CONSTANTS Ids, Ticks   \* timer identities; delays, in ticks, at least 1

VARIABLES
    now,     \* ticks that have passed
    running, \* the service was started and not stopped
    armed,   \* timers that wait: id, the tick they are set for, the period
    due,     \* timers that came up and whose callback has not started
    active   \* timers whose callback runs

svars == <<now, running, armed, due, active>>

Period == Ticks \cup {0}                         \* 0: the timer runs once
ServiceTimer == [id : Ids, at : Nat, period : Period]

Init == now = 0 /\ running = FALSE /\ armed = {} /\ due = {} /\ active = {}

Start == running' = TRUE /\ UNCHANGED <<now, armed, due, active>>
Stop == running' = FALSE /\ UNCHANGED <<now, armed, due, active>>

Set(id, delay, period) ==
    /\ \A t \in armed \cup due \cup active : t.id # id
    /\ armed' = armed \cup {[id |-> id, at |-> now + delay, period |-> period]}
    /\ UNCHANGED <<now, running, due, active>>

\* The timers without the period of id.
Unrepeated(timers, id) ==
    {t \in timers : t.id # id} \cup
    {[t EXCEPT !.period = 0] : t \in {u \in timers : u.id = id}}

\* A timer that came up already loses its period and nothing else.
Cancel(id) ==
    /\ armed' = {t \in armed : t.id # id}
    /\ due' = Unrepeated(due, id) /\ active' = Unrepeated(active, id)
    /\ UNCHANGED <<now, running>>

\* Nothing that is set for this tick is left behind, and nothing of the last
\* tick is still to run.
Tick ==
    /\ due = {} /\ active = {}
    /\ now' = now + 1
    /\ due' = {t \in armed : t.at = now + 1}
    /\ armed' = armed \ due'
    /\ UNCHANGED <<running, active>>

\* The callback of t starts.
Run(t) ==
    /\ running /\ t \in due /\ active = {}
    /\ due' = due \ {t} /\ active' = {t}
    /\ UNCHANGED <<now, running, armed>>

\* The callback of t ends.
Finish(t) ==
    /\ t \in active
    /\ active' = active \ {t}
    /\ armed' = IF t.period = 0 THEN armed
                ELSE armed \cup {[t EXCEPT !.at = now + t.period]}
    /\ UNCHANGED <<now, running, due>>

\* The service was stopped: what came up is dropped, and a timer whose callback
\* was running is not set again.
AbandonAll == ~running /\ due' = {} /\ UNCHANGED <<now, running, armed, active>>
Abandon(t) ==
    /\ ~running /\ t \in active
    /\ active' = active \ {t}
    /\ UNCHANGED <<now, running, armed, due>>

Next ==
    \/ Start \/ Stop
    \/ \E id \in Ids, d \in Ticks : \E p \in {0, d} : Set(id, d, p)
    \/ \E id \in Ids : Cancel(id)
    \/ Tick
    \/ \E t \in due : Run(t)
    \/ \E t \in active : Finish(t) \/ Abandon(t)
    \/ AbandonAll

Spec == Init /\ [][Next]_svars
=============================================================================
