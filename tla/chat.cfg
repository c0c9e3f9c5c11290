SPECIFICATION Spec
CONSTANTS
    Threads = {t1, t2}
    Texts = {m1, m2}
    None = None
    MaxBatches = 1
    Switching = {}
    Faults = {}
    MaxFaults = 0
INVARIANTS
    SentOnce
CHECK_DEADLOCK FALSE
