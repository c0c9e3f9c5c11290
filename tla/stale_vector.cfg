SPECIFICATION Spec
CONSTANTS
    Records = {1, 2}
    Blanks = {}
    None = None
    PageSize = 2
    Tolerance = 2
    MaxWrites = 2
    MaxFailures = 0
PROPERTIES
    MarksAreKept
CHECK_DEADLOCK FALSE
