SPECIFICATION Spec
CONSTANTS
    LastPhase <- MCLastPhase
    Critical = {1, 2}
    Scripted <- MCScripted
    Fallback <- MCFallback
    HardPre <- MCHardPre
    Gated <- MCGated
    Enforced <- MCEnforced
    MaxSpawns = 2
PROPERTY EnforcedGateBlocks
CHECK_DEADLOCK FALSE
