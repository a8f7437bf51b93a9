\* No damage at all: one question fails and a later one succeeds.
SPECIFICATION Spec
CONSTANTS
    NumQuestions = 2
    MaxRuns = 3
    Payloads = {"plain"}
    TornWrites = FALSE
INVARIANT
    TraceKeepsItsQuestion
CHECK_DEADLOCK FALSE
