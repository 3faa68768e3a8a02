SPECIFICATION Spec
CONSTANTS
    deploy = deploy
    Effects = {deploy}
    FirstAdapters = {"codex"}
    Detected <- SomeVersions
    RequirementSets <- SomeRequirements
    HeartbeatInterval = 1
    UnresponsiveAfter = 2
    FailureAfter = 3
    TimeoutAfter = 4
    GrantTtl = 1
    MaxAttempts = 3
    MaxTrouble = 1
INVARIANTS TypeOK OneAgent EffectOnce
PROPERTIES StartsAreSafe RunSteps SilenceIsNoticed
CHECK_DEADLOCK FALSE
