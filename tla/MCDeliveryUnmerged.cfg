CONSTANTS
    Templates = {"direct"}
    Machines <- SomeMachines
    ReviewInputs = {}
    CommitChoices = {FALSE}
    PatchChoices = {FALSE}
    Ttl = 1
    CompletedDays = 1
    TerminalDays = 2
    MaxRevisions = 3
    MaxBuilds = 1
    MaxPushes = 0
    MaxTime = 1
SPECIFICATION Spec
CHECK_DEADLOCK FALSE
INVARIANTS CompletedIsMerged
