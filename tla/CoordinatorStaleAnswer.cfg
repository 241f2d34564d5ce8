\* A button of the first prompt is clicked twice.
CONSTANTS
    j1 = j1
    j2 = j2
    j3 = j3
    j4 = j4
    w1 = w1
    Jobs = {j1}
    UndoJobs = {}
    Workers = {w1}
    Priority <- Foreground
    MaxPrompts = 2
    Buffered = TRUE
    MaxEvents = 0
    NoJob = NoJob
SPECIFICATION CoordinatorSpec
CHECK_DEADLOCK FALSE
PROPERTIES
    DecisionAnswersItsPrompt
