SPECIFICATION FairSpec
CONSTANTS
    p1 = p1
    p2 = p2
    Process = {p1, p2}
    Operation = {"result", "pause"}
    Anonymous = {"sync"}
    MaxRevision = 3
    MaxCrashes = 2
INVARIANTS JournalTrailsSnapshot
PROPERTIES ImplementsOperationLog StoreStaysUsable
