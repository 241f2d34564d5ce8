\* Jobs on two sources, batches of two, extractions of two archives; another
\* process takes two steps and one call fails.
CONSTANTS
    Jobs <- SmallJobs
    ForeignPlaces <- SmallForeignPlaces
    OtherData <- TwoWrites
    MaxFaults = 1
    MaxNodes = 14
    na = na
    nb = nb
    nc = nc
    f1 = f1
    f2 = f2
    fx = fx
    Names = {na, nb, nc}
    Files = {f1, f2, fx}
    NoFile = NoFile
    Links = {fx}
    Content <- TwoFiles
    MaxPairs = 2
    MaxIntrusions = 2
    MaxFailures = 1
    ArchiveBatches <- SmallBatches
    Occupied <- SmallOccupied
    MaxEntries = 4
    MaxVisits = 2
    MaxBreaks = 1
SPECIFICATION OperationsSpec
CHECK_DEADLOCK FALSE
INVARIANTS
    NoDataIsLost
    NoLeftovers
    PutOverOnlyAgain
    OutcomeIsTrue
    UnlistedSourcesAreWhole
    UndoRestores
    RenamesLoseNothing
    FailedBatchIsUndone
    FailedChmodIsUndone
    UndoneMeansRestored
    EntriesOfOthersStay
    FailedExtractionLeavesNothing
    OutputsAreWhole
