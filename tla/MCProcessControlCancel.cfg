CONSTANTS
    Attempts <- TwoAttempts
    Callers <- TwoCallers
SPECIFICATION FairSpec
CHECK_DEADLOCK FALSE
INVARIANTS TypeOK EndedIsGone UnsharedShutdownCloses
PROPERTIES KillsOwnChild CancellingEnds ShutdownReturns
