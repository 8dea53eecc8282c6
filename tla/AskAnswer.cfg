SPECIFICATION AnswerSpec
CONSTANTS
    Endpoints = {"stream", "progress", "json"}
    QueueSize = 3
    MaxSteps = 3
    Finds <- FieldAndTable
    Searches = {1, 2, 3}
    MaxChanges = 1
    Parallel = 1
    MaxTables = 1
    MaxMerged = 2
    Calls = {c1, c2}
    Capacity = 1
INVARIANTS
    StreamIsWhole
    CompletedChildIsHeard
    CancelledOnlyByCaller
    NothingOutlivesAsk
    AnswersAreHonest
    PermitsAccounted
    NothingLeftBehind
    NoCutBody
PROPERTIES
    EveryAskEnds
    CallEnds
CHECK_DEADLOCK FALSE
