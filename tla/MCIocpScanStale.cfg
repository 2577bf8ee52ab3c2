CONSTANTS
    Ports <- MCPorts
    MaxInflight = 2
    Timeout = 1
    Addr = {a1, a2, a3}
    Prompt = TRUE
    Reuse = TRUE
    NoPort = NoPort
    NoAddr = NoAddr
    NoReport = NoReport
SPECIFICATION Spec
INVARIANTS
    OpenMeansAccepted
