SPECIFICATION MCSpec
CONSTANTS
    Owner = {1, 2}
    RunOf <- OneRun
    Path <- Nested
    Ttl = 2
    WaitTtl = 1
    Threshold = 3
    MaxCalls = 4
    Limit = 2
    Ladder = 2
    Others = {"heartbeat"}
    Writers = {"w1", "w2"}
    Ids = {"e1"}
    Values = {"v1"}
    Inputs <- TwoEntries
    Moves = {"COMPLETED"}
    MaxRevision = 3
    MaxFiles = 4
    Requests = {r1, r2}
    r1 = r1
    r2 = r2
    Keys = {k1, k2, k3}
    k1 = k1
    k2 = k2
    k3 = k3
    MaxTurns = 1
    MaxGoals = 1
    MaxGoalRevision = 3
INVARIANTS
     WaitsAreSound
     
    HistoryIsOnDisk
    AdmissionsAreOrdered HistoryIsComplete
CHECK_DEADLOCK FALSE
