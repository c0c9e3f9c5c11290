SPECIFICATION FairSpec
CONSTANTS
    Threads = {t1}
    Texts = {m1}
    None = None
    MaxBatches = 1
    Switching = {}
    Faults = {"early", "late", "restart"}
    MaxFaults = 1
INVARIANTS
    AppliedOnce
PROPERTIES
    PollSettles
    BatchSettles
CHECK_DEADLOCK FALSE
