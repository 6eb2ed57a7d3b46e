SPECIFICATION FairSpec
CONSTANTS
    LastPhase <- MCLastPhase
    Critical = {1, 2}
    Scripted <- MCScripted
    Fallback <- MCFallback
    HardPre <- MCHardPre
    Gated <- MCGated
    Enforced <- MCEnforced
    MaxSpawns = 3
INVARIANTS
    TypeOK
    CheckpointSound
PROPERTIES
    ReportIsFounded
    FailureStops
    PipelineEnds
    ImplementsAgent
CHECK_DEADLOCK FALSE
