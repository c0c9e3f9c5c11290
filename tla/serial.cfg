SPECIFICATION FairSpec
CONSTANTS
    Rows = {r1, r2}
    Threads = {one}
    Runners = {one}
    Stoppers = {one}
    Wakers = {one}
    Firers = {one}
    Last <- Three
    Kind <- CreateEventWait
    None = None
    MaxCalls = 5
    MaxFaults = 1
INVARIANTS
    StopIsFinal
    StepOnce
    PollableResult
    WaitingHasWait
    NoStepSkipped
PROPERTIES
    PurgeKeeps
    DueRunsResume
    ReleasedResumeUnbroken
CHECK_DEADLOCK FALSE
