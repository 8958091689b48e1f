CONSTANTS
    Threads = {t1, t2}
    Keep = 2
    MaxMessages = 5
    MaxClock = 5
SPECIFICATION FairSpec
CHECK_DEADLOCK FALSE
INVARIANTS
    TypeOK
    RecentKept
    HistoryInOrder
PROPERTIES
    OldForgotten
