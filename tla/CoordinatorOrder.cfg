\* Two operations share the worker, or one is undone and perhaps undone again.
CONSTANTS
    j1 = j1
    j2 = j2
    j3 = j3
    j4 = j4
    w1 = w1
    Jobs = {j1, j2, j3, j4}
    UndoJobs = {j3, j4}
    Workers = {w1}
    Priority <- Foreground
    MaxPrompts = 0
    Buffered = TRUE
    MaxEvents = 0
    NoJob = NoJob
SPECIFICATION TwoOrUndoneSpec
CHECK_DEADLOCK FALSE
INVARIANTS
    UndoRecordsAreKept
    RunsInOrder
