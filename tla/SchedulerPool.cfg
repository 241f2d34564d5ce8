\* Two workers, a background operation and a foreground undo job.
CONSTANTS
    j1 = j1
    j2 = j2
    j3 = j3
    w1 = w1
    w2 = w2
    Jobs = {j1, j2}
    UndoJobs = {j2}
    Workers = {w1, w2}
    Priority <- OneInBackground
    MaxPrompts = 0
    Buffered = FALSE
    MaxEvents = 1
    NoJob = NoJob
SPECIFICATION SchedulerSpec
CHECK_DEADLOCK FALSE
INVARIANTS
    SingleExecution
    DropSettlesEveryJob
PROPERTIES
    ImplementsLifecycle
