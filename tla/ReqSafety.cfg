SPECIFICATION Spec
CONSTANTS
    Calls = {c1, c2}
    Requesters = {q1, q2}
    RxThreads = {t1, t2}
    Level = 1
    CanDiscover = {TRUE}
    MayStop = TRUE
    MaxRetries = 1
    MaxRequests = 2
    MaxReplies = 2
    MaxDup = 0
    NoCall = NoCall
SYMMETRY Interchangeable
INVARIANTS TypeOK HandlerOnce OwnAnswer NoForeignCancel
CONSTRAINT Undisturbed
