CONSTANTS
    Threads = {t1, t2}
    Debug = FALSE
    MaxLines = 1
SPECIFICATION Spec

PROPERTIES JoinReturns
CHECK_DEADLOCK FALSE
