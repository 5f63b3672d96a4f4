SPECIFICATION LiveSpec
CONSTANTS
    MSG_SIZE = 3
    MSG_LIST_MAX = 2
    Byte = {0, 1, 2, 3, 6, 16, 128, 250}
    Addr = {1, 2}
    ReadValues = {0}
    Frames <- CalmBus
    TIMEOUT = 4
    RetryTime = 1
    PoliteHost = TRUE
PROPERTIES SilenceIsNoticed Reregisters
INVARIANTS WritesToAllAreSilent
