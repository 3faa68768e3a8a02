CONSTANTS
    Posts <- PairPosts
    Runs <- PairRuns
    IdsOf <- PairIds
    TargetOf <- SameTarget
    BranchOf <- OwnBranch
    Targets = {"t1"}
    Branches = {"b1", "b2"}
    MaxRestarts = 1
SPECIFICATION Spec
CHECK_DEADLOCK FALSE
INVARIANTS OneAgentPerTarget
