CONSTANTS
    Threads = {t1, t2}
    Debug = FALSE
    MaxLines = 3
SPECIFICATION Spec
INVARIANTS TypeOK FlushedWhenJoined
PROPERTIES PrintedIsWritten
CHECK_DEADLOCK FALSE
