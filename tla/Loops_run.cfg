SPECIFICATION LoopsSpec
CONSTANTS
    Runner = {r1}
    Capacity = 1
    Loop = {1}
    Kind <- BothCron
    CatchUp = {1}
    Event = {e1}
    Pass = {p1, p2}
    Page = 1
    MaxTime = 1
    MaxCommands = 2
    MaxRuns = 2
    MaxTaskRuns = 2
    HealthSetting = {"QUARANTINED"}
SYMMETRY Passes
INVARIANTS  OccurrenceClaimedOnce
PROPERTIES EndedRunsStayEnded
CHECK_DEADLOCK FALSE
