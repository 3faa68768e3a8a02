CONSTANTS
    Requests <- Two
    Keys = {"k1"}
    KeyOf <- OneKey
    EffectOf <- SecondUnknown
    Starts <- Anywhere
SPECIFICATION Spec
CHECK_DEADLOCK FALSE
INVARIANTS
    TypeOK AppliedOnce ReplayTellsTruth
PROPERTIES RunSteps
