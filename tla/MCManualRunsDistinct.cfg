CONSTANTS
    Posts <- PairPosts
    Runs <- PairRuns
    IdsOf <- PairIds
    TargetOf <- OwnTarget
    BranchOf <- OwnBranch
    Targets = {"t1", "t2"}
    Branches = {"b1", "b2"}
    MaxRestarts = 2
SPECIFICATION FairSpec
CHECK_DEADLOCK FALSE
PROPERTIES RecordsAreHonest SettlesWithoutRestart
