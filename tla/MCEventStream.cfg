SPECIFICATION Spec
CONSTANTS
    r1 = r1
    r2 = r2
    NoRun = NoRun
    None = None
    Runs <- SomeRuns
    PageLimit = 2
    Floors = {0, 2}
    Scenes <- SomeScenes
    MaxEvents <- SomeEvents
    MaxTrouble = 2
INVARIANTS TypeOK NothingSkipped
PROPERTIES FollowerCatchesUp RemovalIsAudited
CHECK_DEADLOCK FALSE
