SPECIFICATION FairSpec
CONSTANTS
    Records = {1, 2, 3, 4}
    Blanks = {1}
    None = None
    PageSize = 3
    Tolerance = 2
    MaxWrites = 1
    MaxFailures = 2
INVARIANTS
    RequestsServed
PROPERTIES
    SweepEnds
    PendingIsEmbedded
CHECK_DEADLOCK FALSE
