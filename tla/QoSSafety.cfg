SPECIFICATION Spec
CONSTANTS
    Publishers = {p1}
    Receivers = {r1}
    RxThreads = {t1}
    Levels = {1, 2}
    Window = 3
    MaxRetries = 0
    MaxSeq = 5
    MaxDup = 1
CONSTRAINT TwoMessages
INVARIANTS AtMostOnce AckMeansDelivered
PROPERTIES KeepsContract
CHECK_DEADLOCK FALSE
