SPECIFICATION Spec
CONSTANTS
    Jobs = {j1}
    Threads = {t1, t2}
    Pids = {p1, p2}
    NoJob = NoJob
    NoPid = NoPid
    MaxAttempts = 2
    MaxCrashes = 1
SYMMETRY Interchangeable
INVARIANTS
    TypeOK
    RunningIsOwned
    RetryBudget
PROPERTIES
    DoneIsEarned
    CancelSticks
