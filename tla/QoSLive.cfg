SPECIFICATION FairSpec
CONSTANTS
    Publishers = {p1}
    Receivers = {r1}
    RxThreads = {t1, t2}
    Levels = {0, 1, 2}
    Window = 2
    MaxRetries = 2
    MaxSeq = 2
    MaxDup = 0
INVARIANTS TypeOK RetryBudget
PROPERTIES EntriesSettle DeliveredOrAbandoned
CHECK_DEADLOCK FALSE
