SPECIFICATION Spec
CONSTANTS
    MSG_SIZE = 3
    MSG_LIST_MAX = 1
    Byte = {0, 1, 2, 3, 6, 16, 128, 250}
    Addr = {1, 2}
    ReadValues = {0}
    Frames <- BusyBus
    TIMEOUT = 1
    RetryTime = 1
    PoliteHost = FALSE
INVARIANTS TypeOK NoLostFrame RegisteredIsRecent OwnUnlessReplaced
