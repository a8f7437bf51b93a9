\* Two tracked files and a fixture under every mode and every mishap.
SPECIFICATION Spec
CONSTANTS
    NumFiles = 2
    NumFixtures = 1
    Starts <- MCStarts
    BatchSize = 2
    Modes = {"incremental", "force", "reset", "full"}
    Mishaps = {"crash", "revert", "race", "skip"}
    MaxRuns = 3
    MaxEdits = 2
INVARIANTS
    TypeOK
    IncrementalIsFull
    NothingLost
    ReplacedExactly
    RebuildRestores
\* The runs and the edits are bounded.
CHECK_DEADLOCK FALSE
