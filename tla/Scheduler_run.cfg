SPECIFICATION FairSchedulerSpec
CONSTANTS
    N = 2
    Initial = 2
    Deps <- LaterFirst
    Gate = {}
    Lane <- NoGates
    Handoff <- RepairIds
    MaxTurns = 3
    MaxAttempts = 3
    MaxCost = 2
    Term = 1
    MaxCrashes = 0
    Cost = {0}
    Kind = {"VALIDATED_PROGRESS", "VALIDATION_FAILED"}
    SqlStatus = {"BACKLOG", "READY", "CLAIMED", "PLANNING", "IMPLEMENTING", "TESTING",
                 "REPAIRING", "REVIEWING", "PR_READY", "DONE", "BLOCKED", "FAILED_SAFE",
                 "BLOCKED_NEEDS_HUMAN_REVIEW", "CANCELLED"}
    GateSetting = {}
    Answer = {}
    PauseReason = {"operator_pause"}
    AbortReason = {"interrupted"}
    WallLimited = FALSE
    NeedsRelease = TRUE
    MaxCycles = 1
    InitialSql = {"BACKLOG", "READY"}
    TaskSetting = {"READY", "CANCELLED", "BLOCKED_NEEDS_HUMAN_REVIEW"}
    RunSetting = {"RUNNING", "CANCELLED"}
    TimeLimited = TRUE
    MayDie = TRUE
INVARIANTS ExecutionsAreTurns StoresAgree
PROPERTIES CancelledTasksStay CompletionIsJoint FailuresAreHandled
CHECK_DEADLOCK FALSE
