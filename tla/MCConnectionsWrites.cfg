CONSTANTS
    c1 = c1
    c2 = c2
    Conns = {c1, c2}
    MaxUsers = 1
    MaxPushes = 2
SPECIFICATION Spec
CHECK_DEADLOCK FALSE
INVARIANTS
    OneWriteAtATime
