SPECIFICATION ASpec
CHECK_DEADLOCK FALSE
CONSTANTS
    Threads = {t1, t2}
    Keys = {k1, k2, k3, kLong}
    LongKeys = {kLong}
    Iats = {0, 1}
    NoIat = NoIat
    Bounded = TRUE
    MaxEntries = 2
    Sweepers = {w1}
    SweepAges = {1, 2}
    Retention = 1
    StartTime = 0
    MaxTime = 3
    MaxCalls = 4
INVARIANT CapIsExact
PROPERTY AsyncStoreImplementsContract
