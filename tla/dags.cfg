SPECIFICATION Spec
CONSTANTS
    Steps <- Five
    Packages <- DagGraphs
    None = None
    MaxItems = 1
    MaxFaults = 0
    MaxRuns = 1
INVARIANTS
    JoinAfterArms
    OncePerPass
    PlainArmsJoin
CHECK_DEADLOCK FALSE
