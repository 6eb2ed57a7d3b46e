SPECIFICATION Spec
CONSTANTS
    LastPhase <- MCLastPhase
    Critical = {1, 2}
    Scripted <- MCScripted
    Fallback <- MCFallback
    HardPre <- MCHardPre
    Gated <- MCGated
    Enforced <- MCEnforced
    MaxSpawns = 2
INVARIANT FallbackRecovers
CHECK_DEADLOCK FALSE
