CONSTANTS
    None = None
    Writing = Writing
    Lines <- MCLines
    Ids = {0, 1}
    MaxRequests = 3
    MaxPackages = 3
SPECIFICATION FairSpec
CHECK_DEADLOCK FALSE
INVARIANTS
    TypeOK
    UnderstoodByServer
    NothingUndefined
    OneHeartbeat
    PendingHasCallback
PROPERTIES
    OwnAnswer
    CallReturns
