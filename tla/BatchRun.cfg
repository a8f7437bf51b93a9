\* Every stop, resume and torn append of a two-question batch.
SPECIFICATION Spec
CONSTANTS
    NumQuestions = 2
    MaxRuns = 3
    Payloads = {"plain"}
    TornWrites = TRUE
INVARIANTS
    TypeOK
    DurableCompletion
    CsvCoversCheckpoint
    BundleMatchesCheckpoint
PROPERTIES
    CompletedNeverReasked
    RefinesLedger
    InvocationEnds
\* The invocations of a folder are bounded by MaxRuns.
CHECK_DEADLOCK FALSE
