\* An operation that prompts and may be paused, and an undo job, under fairness.
CONSTANTS
    j1 = j1
    j2 = j2
    j3 = j3
    j4 = j4
    w1 = w1
    Jobs = {j1, j2}
    UndoJobs = {j2}
    Workers = {w1}
    Priority <- Foreground
    MaxPrompts = 1
    Buffered = TRUE
    MaxEvents = 1
    NoJob = NoJob
SPECIFICATION FairCoordinatorSpec
CHECK_DEADLOCK FALSE
INVARIANTS
    CoordinatorTypeOK
    FinishedShowsResult
    ActiveKeepsPolling
PROPERTIES
    PollDelivers
