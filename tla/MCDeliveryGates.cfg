CONSTANTS
    Templates = {"direct", "plan_build_review"}
    Machines <- SomeMachines
    ReviewInputs <- SomeReviews
    CommitChoices = {TRUE}
    PatchChoices = {FALSE}
    Ttl = 1
    CompletedDays = 1
    TerminalDays = 2
    MaxRevisions = 5
    MaxBuilds = 3
    MaxPushes = 1
    MaxTime = 2
SPECIFICATION Spec
CHECK_DEADLOCK FALSE
INVARIANTS TypeOK ApprovedInTime CorrectionsCounted AcceptedWorkSurvives
PROPERTIES RunSteps
