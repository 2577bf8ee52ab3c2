CONSTANTS
    Port = {1, 2, 3}
    NWorkers = 2
    Shards <- MCShards
    MaxInflight = 1
    MaxEvents = 1
    Timeout = 1
    StallLimit = 1
    NFds = 2
    NoPort = NoPort
    NoReport = NoReport
SPECIFICATION Spec
INVARIANTS
    TypeOK
    DescriptorsOwned
    NothingLeftOpen
    CountersAddUp
    GapsAreAborts
