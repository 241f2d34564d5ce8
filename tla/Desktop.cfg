\* The parts of the window and the portal, one at a time, under fairness.
CONSTANTS
    d1 = d1
    d2 = d2
    a = a
    b = b
    r1 = r1
    r2 = r2
    p1 = p1
    p2 = p2
    t1 = t1
    t2 = t2
    home = home
    Dirs = {d1}
    Trash = Trash
    NoPath = NoPath
    Names = {a}
    HiddenNames = {}
    Commands = {"refresh", "trash"}
    Kinds = {"write", "remove", "error"}
    HideGitignored = FALSE
    Failures = {"scan", "watch"}
    InitialShow = {FALSE}
    MaxGen = 2
    MaxChanges = 1
    Requests = {r1, r2}
    AppOf <- OneApplication
    HandleOf <- OneHandle
    MaxActive = 2
    MaxPerApp = 2
    UiCapacity = 1
    NoRequest = NoRequest
    MaxPlugs = 2
    MaxLosses = 2
    MaxDeadlines = 2
    Files = {p1, p2}
    NoPreview = NoPreview
    CacheCapacity = 1
    MaxCommands = 3
    MaxMishaps = 1
    Folders = {d1, d2}
    Home = home
    Texts = {t1, t2}
    NoText = NoText
    MaxStrokes = 4
SPECIFICATION DesktopSpec
CHECK_DEADLOCK FALSE
INVARIANTS
    ViewTypeOK
    LoadedRowsAreOfTheTab
    QuotaIsExact
    AnswerIsTrue
PROPERTIES
    LoadEnds
    ReportedChangeIsShown
    RequestEnds
    DeviceChangeIsShown
    PreviewFollowsCursor
    SearchIsAnswered
