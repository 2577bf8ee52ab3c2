CONSTANTS
    Ports <- MCPorts
    MaxInflight = 2
    Timeout = 1
    Addr = {a1, a2, a3}
    Prompt = TRUE
    Reuse = FALSE
    NoPort = NoPort
    NoAddr = NoAddr
    NoReport = NoReport
SPECIFICATION Spec
INVARIANTS
    TypeOK
    ResourcesOwned
    CountersAddUp
PROPERTIES
    RefinesPortScan
    ScanReturns
