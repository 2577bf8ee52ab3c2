CONSTANTS
    Port = {1, 2, 3}
    NWorkers = 1
    Shards <- MCShards
    MaxInflight = 2
    MaxEvents = 1
    Timeout = 1
    StallLimit = 1
    NFds = 3
    NoPort = NoPort
    NoReport = NoReport
SPECIFICATION TimedSpec
INVARIANTS
    WatchdogQuiet
PROPERTIES
    RefinesPortScan
    PatientTimeouts
    ScanReturns
