\* Two questions in either mode, two ticks, no browser.
SPECIFICATION Spec
CONSTANTS
    Questions = 2
    MaxTicks = 2
    HistorySize = 2
    Connections = {}
INVARIANTS
    TypeOK
    BoardFollowsPipeline
    ContextIsCurrent
PROPERTIES
    PublishesScripts
    EveryQuestionRecorded
\* The batch ends.
CHECK_DEADLOCK FALSE
