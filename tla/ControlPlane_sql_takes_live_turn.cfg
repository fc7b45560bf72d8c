SPECIFICATION Spec
CONSTANTS
    g1 = g1
    h1 = h1
    N = 2
    Initial = 2
    Deps <- Independent
    Gate = {}
    Lane <- NoGates
    Handoff = {}
    MaxTurns = 3
    MaxAttempts = 2
    MaxCost = 2
    Term = 1
    MaxCrashes = 0
    Cost = {1}
    Kind = {"VALIDATED_PROGRESS", "VALIDATION_FAILED"}
    SqlStatus = {"READY"}
    GateSetting = {}
    Answer = {}
    PauseReason = {}
    AbortReason = {}
    WallLimited = FALSE
    NeedsRelease = FALSE
PROPERTIES LiveTurnIsExclusive
