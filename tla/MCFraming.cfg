CONSTANTS
    RequestIDs = {1, 2}
    DataSizes = {0, 1}
    MalformedLengths = {0, 2}
    buffer_lenth = 6
    max_heart_beat_num = 1
    MaxHeartBeats = 3
    MaxBytes = 13
SPECIFICATION FairSpec
CHECK_DEADLOCK FALSE
INVARIANTS
    TypeOK
    RequestsAccountedFor
PROPERTIES
    ChannelSpec
    AnsweredWhileBytesArrive
