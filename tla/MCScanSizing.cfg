CONSTANTS
    MinThreads = 1
    MaxThreads = 70
    DefaultThreads = 40
    Reserve = 8
    Floor = 4
    Ceiling = 80
    PerWorker = 16
    ManyPorts = 8
    MaxPort = 9
    FastPorts <- MCFastPorts
    Lists <- MCLists
    Limits = {0, 3, 8, 9, 12, 13, 14, 30, 60}
    Cores = {0, 1, 2, 16}
    Stdio = 3
SPECIFICATION Spec
INVARIANTS
    ShardsPartition
    WindowsBounded
    DescriptorsFit
