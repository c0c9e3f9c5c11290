SPECIFICATION FairSpec
CONSTANTS
    Events = {e1, e2}
    Rules <- Few
    Awaited = {e1}
    None = None
    MaxTime = 2
    MaxEdits = 1
    MaxFaults = 1
INVARIANTS
    RunsOnce
    EditsPickedUp
PROPERTIES
    KeepsPromise
    DueRuns
    WaitersReleased
CHECK_DEADLOCK FALSE
