SPECIFICATION Spec
CONSTANTS
    r1 = r1
    r2 = r2
    Runs = {r1, r2}
    Bridges = {TRUE, FALSE}
INVARIANTS TypeOK CreatedIsShown
PROPERTIES ControlsComeBack
CHECK_DEADLOCK FALSE
