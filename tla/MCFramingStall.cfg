CONSTANTS
    RequestIDs = {1, 2}
    DataSizes = {0}
    MalformedLengths = {}
    buffer_lenth = 8
    max_heart_beat_num = 1
    MaxHeartBeats = 3
    MaxBytes = 12
SPECIFICATION FairSpec
CHECK_DEADLOCK FALSE
PROPERTIES
    EveryRequestAnswered
