\* Nothing is ever cut short, but the evidence text can hold a line separator.
SPECIFICATION Spec
CONSTANTS
    NumQuestions = 2
    MaxRuns = 3
    Payloads = {"plain", "evidence"}
    TornWrites = FALSE
INVARIANT
    ResumeNeverRefused
CHECK_DEADLOCK FALSE
