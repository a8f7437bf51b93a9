\* Plain text only, but an append can be cut short.
SPECIFICATION Spec
CONSTANTS
    NumQuestions = 2
    MaxRuns = 3
    Payloads = {"plain"}
    TornWrites = TRUE
INVARIANT
    ResumeNeverRefused
CHECK_DEADLOCK FALSE
