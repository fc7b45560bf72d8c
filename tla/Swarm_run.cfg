SPECIFICATION SwarmSpec
CONSTANTS
    Runner = {r1}
    Capacity = 2
    Node = {1, 2}
    Type <- CheckedLast
    Depends <- LastOnAll
    Edges <- EdgesToLast
    Required = {1}
    MaxWorkers = 1
    CostLimit = 0
    Agent = {}
    Client = {c1}
    TaskRun = 1
    MaxLeases = 2
    MaxOwned = 2
    MaxMeanwhile = 2
INVARIANTS RunningNodesAreLicensed ReadyVerdictIsEarned
CHECK_DEADLOCK FALSE
