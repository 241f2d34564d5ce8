\* The poll stops between a job's terminal event and its completion.
CONSTANTS
    j1 = j1
    j2 = j2
    j3 = j3
    j4 = j4
    w1 = w1
    Jobs = {j1}
    UndoJobs = {}
    Workers = {w1}
    Priority <- Foreground
    MaxPrompts = 0
    Buffered = TRUE
    MaxEvents = 0
    NoJob = NoJob
SPECIFICATION FairCoordinatorSpec
CHECK_DEADLOCK FALSE
PROPERTIES
    OutcomeIsReceived
