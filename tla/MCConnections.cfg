CONSTANTS
    c1 = c1
    c2 = c2
    Conns = {c1, c2}
    MaxUsers = 2
    MaxPushes = 1
SPECIFICATION FairSpec
CHECK_DEADLOCK FALSE
INVARIANTS
    TypeOK
    MapsAgree
    RegisteredWhileRunning
    CommandsRunAsOwner
    OnlyWithPassword
PROPERTIES
    HangupIsNoticed
