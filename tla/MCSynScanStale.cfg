CONSTANTS
    Ports <- MCPorts
    MaxInflight = 2
    Timeout = 1
    Word = 6
    Base = 4
    Span = 2
    Answers <- MCAnswers
    Stale = TRUE
    NoPort = NoPort
    NoReport = NoReport
SPECIFICATION Spec
INVARIANTS
    OpenMeansAnswered
