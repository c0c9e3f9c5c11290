SPECIFICATION FairSpec
CONSTANTS
    Sessions = {s1}
    Probs = {p1, p2}
    Homing = {p1}
    Priority <- Ordered
    Callers = {c1, c2}
    None = None
    MaxTic = 2
    MaxFaults = 1
INVARIANTS
    TicOnce
PROPERTIES
    ErrorStops
    LoopGoesOn
CHECK_DEADLOCK FALSE
