\* Three candidates of two documents, small, large and oversized, with every similarity,
\* every place of the selected ones in their documents, every order of their scores.
SPECIFICATION ContextSpec
CONSTANTS
    Candidates = 3
    Sources = {d1, d2}
    Sizes = {1, 4, 7}
    Strategies = {"reranker_score_threshold", "source_diversity", "redundancy_reduction", "token_budget"}
    MinSelected = 2
    MaxSelected = 3
    FallbackTopN = 3
    PerSource = 2
    Budget = 6
    TargetMin = 3
    TargetMax = 5
    Places = {0, 1, 2}
    Header = 2
    Separator = 1
    ContextBudget = 12
    Slack = 2
INVARIANTS
    TypeOK
    FloorReached
    TargetOnlyForFloor
    WeakIsTrue
    NothingUsefulLeft
    SectionsAreSelection
    ContextFits
\* The context is built.
CHECK_DEADLOCK FALSE
