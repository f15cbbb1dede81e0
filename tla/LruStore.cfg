SPECIFICATION LSpec
CHECK_DEADLOCK FALSE
CONSTANTS
    Keys <- MCKeys
    LongKeys = {"long"}
    Iats <- MCIats
    Capacity = 3
    NShards = 2
    ShardOf <- MCShardOf
    Window = 2
    SweepAge = 4
    Sweepers = {w1}
    StartTime = 0
    MaxTime = 4
    MaxCalls = 5
INVARIANTS
    LTypeOK
    RetainedForCapacity
    CanaryWarns
