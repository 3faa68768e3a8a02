SPECIFICATION Spec
CONSTANTS
    r1 = r1
    r2 = r2
    Runs = {r1}
    Bridges = {FALSE}
INVARIANTS StoredRunsAreShown
CHECK_DEADLOCK FALSE
