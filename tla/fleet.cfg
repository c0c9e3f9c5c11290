SPECIFICATION FairSpec
CONSTANTS
    Rows = {r1}
    None = None
    UpgradeFrom = {"running", "suspended"}
    MaxCheckouts = 1
    MaxReports = 2
    MaxFaults = 1
INVARIANTS
    DeletedIsGone
    PaidIsOn
PROPERTIES
    SandboxSuspends
    GraceEndsInDeletion
CHECK_DEADLOCK FALSE
