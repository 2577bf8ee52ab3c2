CONSTANTS
    CdnOrgs = {"cdn"}
    Orgs = {"cdn", "owner"}
    Owns <- MCOwns
    Certs = {"own", "foreign", "branded"}
    Covers <- MCCovers
    Brand <- MCBrand
    NoBrand = "none"
    AltSnis <- MCAlt
    MinAnswered = 2
    MinDistinct = 3
    Host = "host"
    TlsPorts = {443}
    HttpPorts = {80}
    SocksPorts = {1080}
    SshPorts = {22}
    J3Extra = {80}
    Servers <- MCServers
    Is <- MCIs
    SelfSigned = {"foreign"}
    Fresh = {"own", "foreign"}
    Logged = {"own", "branded"}
    Cut <- MCCut
    DnsAnswers <- MCAnswers
    Targets <- MCTargets
    Tried <- MCTried
    Turns <- MCTurns
    Reads <- MCReads
    JunkLost = {{}, {"HTTP GET /", "HTTP abs-URI"}}
    GoodHttp = {"HTTP/1.1 400"}
    BadHttp = {"HTTP/3.1 200"}
    ShortLines = {"ok"}
SPECIFICATION Spec
INVARIANTS CleanIsQuiet CdnExcuses ProxyIsSeen AccusedOfWhatItIs RealityHasGrounds
CHECK_DEADLOCK FALSE
