SPECIFICATION Spec
CONSTANTS
    Jobs = {j1}
    Threads = {t1, t2}
    Pids = {p1, p2}
    NoJob = NoJob
    NoPid = NoPid
    MaxAttempts = 1
    MaxCrashes = 1
PROPERTY CancelIsTerminal
