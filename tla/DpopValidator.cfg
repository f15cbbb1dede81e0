SPECIFICATION VSpec
CONSTANTS
    Absent = Absent
    NoIat = NoIat
    Attempts <- MCAttempts
    Keys <- MCKeys
    LongKeys = {}
    Iats <- MCIats
    NShards = 2
    ShardOf <- MCShardOf
    Threads = {t1, t2}
    Sweepers = {w1}
    Bounded = TRUE
    MaxEntries = 2
    SweepAges = {4}
    Retention = 4
    Window = 2
    MaxStall = 1
    StartTime = 1
    MaxTime = 6
    MaxCalls = 4
SYMMETRY Symmetry
INVARIANTS
    VTypeOK
    SingleUse
    RetainedWhileFresh
    OnlySignedProofsBurnJtis
