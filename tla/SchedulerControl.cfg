\* One worker and one operation that prompts twice.
CONSTANTS
    j1 = j1
    j2 = j2
    j3 = j3
    w1 = w1
    w2 = w2
    Jobs = {j1}
    UndoJobs = {}
    Workers = {w1}
    Priority <- OneInBackground
    MaxPrompts = 2
    Buffered = FALSE
    MaxEvents = 1
    NoJob = NoJob
SPECIFICATION FairSchedulerSpec
CHECK_DEADLOCK FALSE
INVARIANTS
    SchedulerTypeOK
    NoLostWakeup
PROPERTIES
    CancelledInQueueNeverStarts
    QueueIsServed
    AnswerIsTaken
    DropReturns
