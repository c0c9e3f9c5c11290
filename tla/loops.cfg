SPECIFICATION FairSpec
CONSTANTS
    Steps <- Five
    Packages <- ChainPackages
    None = None
    MaxItems = 1
    MaxFaults = 1
    MaxRuns = 2
INVARIANTS
    PassOpensAtEntry
    CountedPasses
    TriesWithinBudget
    StableIds
    FreshIdsUnbroken
    WaitsServed
PROPERTIES
    Terminates
CHECK_DEADLOCK FALSE
