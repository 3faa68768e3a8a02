CONSTANTS
    Posts <- TrioPosts
    Runs <- TrioRuns
    IdsOf <- TrioIds
    TargetOf <- TrioTarget
    BranchOf <- TrioBranch
    Targets = {"t1"}
    Branches = {"b1", "b2"}
    MaxRestarts = 1
SPECIFICATION Spec
CHECK_DEADLOCK FALSE
INVARIANTS TypeOK SucceededHasWork OneAttemptPerTarget BranchesNotShared NoneForgotten
