SPECIFICATION FairSpec
CONSTANTS
    Calls = {c1}
    Requesters = {q1}
    RxThreads = {t1}
    Level = 2
    CanDiscover = {TRUE, FALSE}
    MayStop = FALSE
    MaxRetries = 1
    MaxRequests = 2
    MaxReplies = 2
    MaxDup = 1
    NoCall = NoCall
PROPERTIES FutureCompletes ReplySettles
