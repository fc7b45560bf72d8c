SPECIFICATION FairSpec
CONSTANTS
    g1 = g1
    h1 = h1
    N = 2
    Initial = 2
    Deps <- ChainOfTwo
    Gate = {g1}
    Lane <- LaneGate
    Handoff = {h1}
    MaxTurns = 2
    MaxAttempts = 2
    MaxCost = 2
    Term = 2
    MaxCrashes = 1
    Cost = {1}
    Kind = {"VALIDATED_PROGRESS", "VALIDATION_FAILED"}
    SqlStatus = {}
    GateSetting = {"OPEN", "HUMAN_REVIEW"}
    Answer = {"yes"}
    PauseReason = {"operator_pause"}
    AbortReason = {}
    WallLimited = TRUE
    NeedsRelease = FALSE
PROPERTIES LiveTurnIsExclusive OrphansAreRecovered TurnsAreLicensed CompletionIsEarned
