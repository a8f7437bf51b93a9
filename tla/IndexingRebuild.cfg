\* Two tracked files; a forced rebuild or any other run can be cut short.
SPECIFICATION Spec
CONSTANTS
    NumFiles = 2
    NumFixtures = 1
    Starts <- MCStarts
    BatchSize = 2
    Modes = {"incremental", "force"}
    Mishaps = {"crash"}
    MaxRuns = 3
    MaxEdits = 1
INVARIANT
    NeverSilentlyIncomplete
CHECK_DEADLOCK FALSE
