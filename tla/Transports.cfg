SPECIFICATION Spec
CONSTANTS
    Registered = {"tcp", "udp"}
    Dialed = {d}
    Callers = {c}
    Replaces = FALSE
    UdpSockets = 1
    NumSenders = 1
    MaxConns = 2
    MaxFds = 2
INVARIANTS TableIsTrue NothingLeftBehind
PROPERTY ShutdownEndsOrBlocked
CHECK_DEADLOCK FALSE
