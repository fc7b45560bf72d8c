SPECIFICATION GraphSpec
CONSTANTS
    Node = {1, 2, 3}
    PlanNode = {1, 2}
    PlanDepends <- LastOnAll
    PlanEdges <- EdgesToLast
    Key = {k1}
    Enabled = TRUE
    PreferLight = FALSE
    Registered = TRUE
    MaxNodes = 3
    MaxFanOut = 1
    MaxDepth = 1
    MaxWorkers = 1
    MaxMutations = 2
    StallThreshold = 1
    Budget = 1
    Client = {c1}
    MaxMeanwhile = 1
    MaxClaims = 1
    MaxVersion = 2
INVARIANTS JournalRebuildsGraph  RunningNodesAreLicensed
PROPERTIES EvidenceIsEarned
CHECK_DEADLOCK FALSE
