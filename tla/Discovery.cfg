SPECIFICATION FairSpec
CONSTANTS
    Peers = {a}
    MaxChanges = 2
    MaxDup = 2
INVARIANTS TypeOK RoutesAgree
PROPERTIES RoutesConverge CrashIsNoticed
CHECK_DEADLOCK FALSE
