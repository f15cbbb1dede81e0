SPECIFICATION FairSpec
CONSTANTS
    k1 = k1
    k2 = k2
    k3 = k3
    kLong = kLong
    Keys <- MCKeys
    LongKeys = {kLong}
    Iats <- MCIats
    NShards = 2
    ShardOf <- MCShardOf
    Threads = {t1, t2}
    Sweepers = {w1, w2}
    Bounded = TRUE
    MaxEntries = 1
    SweepAges = {1}
    Retention = 1
    StartTime = 0
    MaxTime = 2
    MaxCalls = 3
    NoIat = NoIat
INVARIANTS
    TypeOK
    CountConservation
    CapacityOvershootBound
    InsertedIsPresent
PROPERTIES
    StrictJtiStoreImplementsContract
    CapacityIsReclaimed
    EveryCallReturns
