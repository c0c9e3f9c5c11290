SPECIFICATION FairSpec
CONSTANTS
    Sequences = {s1, s2}
    OneStep = {s2}
    Events = {e1}
    Consoles = {c1}
    None = None
    MaxRows = 2
    Ticks = {k1}
    Handlers = {h1}
    Panels = {"builder", "event", "console", "createSequence", "createEvent", "space", "audit"}
    MaxFailures = 1
INVARIANTS
    OneWorkspaceOpen
    DefinitionIsSelected
PROPERTIES
    RunSettles
CHECK_DEADLOCK FALSE
