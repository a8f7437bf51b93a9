\* Two retries, one fallback profile, and as many revisions as the code permits.
SPECIFICATION Spec
CONSTANTS
    GenerationRetries = 2
    RouterRetries = 1
    Fallbacks = 1
    MaxRevisionLoops = 2
    WeakAnswers = FALSE
    WeakExcerpts = TRUE
    MaxQuestions = 2
INVARIANTS
    TypeOK
    ReviewsAreOfTheAnswer
    StatusIsPreserved
    UnsupportedNeverAnswered
    ObjectionsAreHeeded
    PanelIsCurrent
    BoardSettles
PROPERTIES
    ProgressNeverFalls
    RunEnds
\* The questions are bounded.
CHECK_DEADLOCK FALSE
