\* One reload of a watched folder, then one change.
CONSTANTS
    d1 = d1
    d2 = d2
    a = a
    b = b
    Dirs = {d1}
    Trash = Trash
    NoPath = NoPath
    Names = {a}
    HiddenNames = {}
    Commands = {"refresh"}
    Kinds = {"write"}
    HideGitignored = FALSE
    Failures = {}
    InitialShow = {FALSE}
    MaxGen = 2
    MaxChanges = 1
SPECIFICATION FairSpec
CHECK_DEADLOCK FALSE
PROPERTIES
    WatchedFolderIsRefreshed
