\* Incremental runs only, which can be cut short.
SPECIFICATION Spec
CONSTANTS
    NumFiles = 2
    NumFixtures = 0
    Starts <- MCStarts
    BatchSize = 2
    Modes = {"incremental"}
    Mishaps = {"crash"}
    MaxRuns = 3
    MaxEdits = 1
INVARIANT
    DeletedPointsRemoved
CHECK_DEADLOCK FALSE
