SPECIFICATION RSpec
CHECK_DEADLOCK FALSE
CONSTANTS
    Absent = Absent
    Nil = Nil
    NoExpiry = NoExpiry
    Calls <- UriCalls
    Solo <- NoCalls
    MaxRegexInputLen = 3
    AddressBits <- MCAddressBits
    Cfg <- BaseCfg
    RequireStrictGuard = FALSE
    Stores = {"jti", "async_jti"}
    StoreOf <- TwoStores
    Lists = {"shared"}
    LostAnswers = FALSE
    PorScale = 2
    PorIds <- NoIds
    PorShardOf <- NoShards
    PorCapacity = 2
    StartTime = 1
    MaxTime = 1
    MaxCalls = 2
INVARIANTS
    GrantMeetsCatu
