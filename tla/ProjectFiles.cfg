\* Two processes, started twice each, in one second, with two corpora.
SPECIFICATION Spec
CONSTANTS
    Processes = {p1, p2}
    MaxInvocations = 2
    Stamps = {second}
    RunName = answers
    Corpora = {c1, c2}
    None = None
INVARIANTS
    TypeOK
    NoGaps
PROPERTIES
    TokensMatchChunks
    ImplementsClaims
\* The invocations are bounded.
CHECK_DEADLOCK FALSE
