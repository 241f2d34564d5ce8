\* One folder, a hidden name, two changes; a second load that the user, an event or a failed
\* read asks for.
CONSTANTS
    d1 = d1
    d2 = d2
    a = a
    b = b
    Dirs = {d1}
    Trash = Trash
    NoPath = NoPath
    Names = {a, b}
    HiddenNames = {b}
    Commands = {"go", "refresh", "trash", "hidden"}
    Kinds = {"remove", "rename", "self"}
    HideGitignored = FALSE
    Failures = {"item", "metadata", "read"}
    InitialShow = {FALSE}
    MaxGen = 2
    MaxChanges = 2
SPECIFICATION Spec
CHECK_DEADLOCK FALSE
INVARIANTS
    SettledRowsAreFresh
    BatchFlagsAreOwned
