SPECIFICATION FairSpec
CONSTANTS
    MSG_SIZE = 2
    MSG_LIST_MAX = 3
    Byte = {0, 1}
    Data <- Messages4
INVARIANTS TypeOK NoTwins
PROPERTIES IsOutbox ListDrains
