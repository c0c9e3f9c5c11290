SPECIFICATION Spec
CONSTANTS
    Steps <- Five
    Packages <- JoinGraphs
    None = None
    MaxItems = 1
    MaxFaults = 0
    MaxRuns = 1
INVARIANTS
    OfferedJoinsRun
CHECK_DEADLOCK FALSE
