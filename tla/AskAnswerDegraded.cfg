SPECIFICATION AnswerSpec
CONSTANTS
    Endpoints = {"stream"}
    QueueSize = 2
    MaxSteps = 1
    Finds <- FieldAndTable
    Searches = {1, 2}
    MaxChanges = 1
    Parallel = 1
    MaxTables = 1
    MaxMerged = 2
    Calls = {}
    Capacity = 1
INVARIANT DegradedIsUnavailable
CHECK_DEADLOCK FALSE
