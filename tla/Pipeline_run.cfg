SPECIFICATION FairSpec
CONSTANTS
    Lane <- Lanes
    Mode = {"fast", "default", "strict"}
    MaxScore = 2
    Threshold = 2
    MaxRepair = 2
    AbsoluteRepair = 3
    ActiveCalls = 1
    GatewayCalls = 4
    VisualCalls = 9
    ChiefCalls = 5
    Ladder = 2
    TaskSetting = {"CANCELLED"}
INVARIANTS ApprovedWorkWasValidated RecoveryIsBounded OutcomesAgree
PROPERTIES PipelineEnds
CHECK_DEADLOCK FALSE
