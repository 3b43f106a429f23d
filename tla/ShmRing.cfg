SPECIFICATION FairSpec
CONSTANTS
    Producers = {p, q}
    MayDie = {q}
    Cap = 2
    IdxSpace = 8
    FirstIdx = 7
    MaxMsgs = 3
    MaxSegs = 1
    MaxCrashes = 1
INVARIANTS TypeOK ClaimedSlotIsFree InOrder NoLostWakeup
PROPERTY AcceptedArrives
CHECK_DEADLOCK FALSE
