SPECIFICATION StreamSpec
CONSTANTS
    Window = 3
    SeqSpace = 1024
    MaxMessages = 8
INVARIANTS StreamTypeOK AcceptedOnce MemoryBounded
PROPERTIES FreshAccepted
CHECK_DEADLOCK FALSE
