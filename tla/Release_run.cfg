SPECIFICATION Spec
CONSTANTS
    a1 = a1
    Task = {1, 2}
    Approver = {a1}
    FullAccess = FALSE
    Reviewed = TRUE
    Command = {"RUNNING", "CANCELLED"}
    MaxApprovals = 2
    MaxCrashes = 1
INVARIANTS RecordsAgree
PROPERTIES CompletionIsTested MergesAreLicensed
