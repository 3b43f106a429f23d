SPECIFICATION Spec
CONSTANTS
    SLOT_COUNT = 3
    TICK_MS = 2
    U32 = 16
    Delays = {0, 5, 7}
    Stoppers = {s1, s2}
    MaxTimers = 2
    MaxTick = 7
INVARIANTS StopIsBarrier
PROPERTIES IsTimerService StopReturns
CHECK_DEADLOCK FALSE
