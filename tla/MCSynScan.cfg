CONSTANTS
    Ports <- MCPorts
    MaxInflight = 2
    Timeout = 1
    Word = 6
    Base = 4
    Span = 2
    Answers <- MCAnswers
    Stale = FALSE
    NoPort = NoPort
    NoReport = NoReport
SPECIFICATION Spec
INVARIANTS
    TypeOK
    CountersAddUp
    NothingHeld
PROPERTIES
    RefinesPortScan
    ScanReturns
