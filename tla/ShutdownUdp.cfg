SPECIFICATION Spec
CONSTANTS
    Registered = {"udp"}
    Dialed = {d}
    Callers = {c}
    Replaces = FALSE
    UdpSockets = 2
    NumSenders = 1
    MaxConns = 1
    MaxFds = 1
PROPERTY ShutdownEnds
CHECK_DEADLOCK FALSE
