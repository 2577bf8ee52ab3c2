CONSTANTS
    NThreads = 2
    NTasks = 3
SPECIFICATION Spec
INVARIANTS
    TypeOK
    NoLostWakeup
PROPERTIES
    KeepsPromise
    EveryTaskRuns
    DestructorReturns
