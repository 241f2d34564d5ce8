\* The notification of cancel() falls between the check and the wait.
CONSTANTS
    j1 = j1
    j2 = j2
    j3 = j3
    w1 = w1
    w2 = w2
    Jobs = {j1}
    UndoJobs = {}
    Workers = {w1}
    Priority <- OneInBackground
    MaxPrompts = 1
    Buffered = FALSE
    MaxEvents = 1
    NoJob = NoJob
SPECIFICATION FairSchedulerSpec
CHECK_DEADLOCK FALSE
PROPERTIES
    CancelEndsJob
