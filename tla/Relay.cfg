SPECIFICATION RSpec
CHECK_DEADLOCK FALSE
CONSTANTS
    Absent = Absent
    Nil = Nil
    NoExpiry = NoExpiry
    Calls <- RelayCalls
    Solo <- NoCalls
    MaxRegexInputLen = 3
    AddressBits <- MCAddressBits
    Cfg <- TrackingCfg
    RequireStrictGuard = TRUE
    Stores = {"jti", "async_jti"}
    StoreOf <- OneStore
    Lists = {"shared"}
    LostAnswers = TRUE
    PorScale = 2
    PorIds <- MCPorIds
    PorShardOf <- MCPorShards
    PorCapacity = 1
    StartTime = 1
    MaxTime = 2
    MaxCalls = 3
INVARIANTS
    RTypeOK
    ProofGrantsOnce
    TokenGrantsOnce
    CtiIsLast
    ReplayNeedsEarlierUse
    BlockHolds
