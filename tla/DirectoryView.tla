--------------------------- MODULE DirectoryView ---------------------------
(***************************************************************************)
(* How the main window follows a folder: load_directory and load_trash     *)
(* start a scan under a new generation, the scan reports in two phases,    *)
(* and a watcher of the folder changes the rows in batches.  Everything    *)
(* that holds a generation (scan, watcher task, event loop, batch timer,   *)
(* batch of re-read entries) may be overtaken by a later load.             *)
(*                                                                         *)
(* Foreground actions are closures of `this.update`: they run one at a     *)
(* time.  Scans, watcher creation and entry reads run in the background.   *)
(* Other programs change the folders at any moment.                        *)
(***************************************************************************)
EXTENDS Integers, Sequences, FiniteSets

CONSTANTS
    Dirs,            \* folders
    Trash,           \* the trash as a place rows come from
    NoPath,          \* `None` of watched_path
    Names,           \* names of entries in a folder
    HiddenNames,     \* those that start with a dot
    Commands,        \* what the user may do: "go", "refresh", "trash", "hidden"
    Kinds,           \* external changes: "write", "remove", "rename", "self", "any", "error"
    HideGitignored,  \* settings.hide_gitignored: every batch is a reload
    Failures,        \* what may fail: "scan", "item", "metadata", "watch", "read"
    InitialShow,     \* settings.show_hidden of a new window: a set of values
    MaxGen,          \* bound on the number of loads
    MaxChanges       \* bound on the number of external changes

ASSUME DirsAssumption == Trash \notin Dirs /\ NoPath \notin Dirs \union {Trash}
ASSUME NamesAssumption == HiddenNames \subseteq Names
ASSUME BoundsAssumption == MaxGen \in Nat \ {0} /\ MaxChanges \in Nat
ASSUME FlagsAssumption == HideGitignored \in BOOLEAN /\ InitialShow \subseteq BOOLEAN

Gens == 1 .. MaxGen
Places == Dirs \union {Trash}

(***************************************************************************)
(* A row is absent, known by name only, without readable metadata, or      *)
(* shows a version of the file: versions count the external changes.       *)
(***************************************************************************)
Absent == 0
Pending == -1
Unavailable == -2
Version == 1 .. MaxChanges + 1
Row == {Absent, Pending, Unavailable} \union Version
Rows == [Names -> Row]
NoRows == [n \in Names |-> Absent]

(***************************************************************************)
(* Events of the watcher; "self" names the path of the folder itself.      *)
(***************************************************************************)
Event == [kind : {"upsert", "remove"}, name : Names]
         \union [kind : {"rename"}, from : Names, to : Names]
         \union [kind : {"self", "rescan", "error"}]

NoChanges == [upserts |-> {}, removes |-> {}, self |-> FALSE, rescan |-> FALSE]
Changes == [upserts : SUBSET Names, removes : SUBSET Names, self : BOOLEAN, rescan : BOOLEAN]

Message == [result : {"ok"}, phase : {"discovered", "complete"}, rows : Rows]
           \union [result : {"interrupted", "failed"}]

NoScan == [pc |-> "none", place |-> NoPath, show |-> FALSE, cancelled |-> FALSE,
           rows |-> NoRows, out |-> <<>>]
NoWatcher == [stage |-> "none", path |-> NoPath, queue |-> <<>>]
NoApply == [active |-> FALSE, path |-> NoPath, names |-> {}, left |-> {}, got |-> NoRows]

VARIABLES
    disk,        \* content of every place
    changes,     \* number of external changes so far
    blind,       \* history: names the last load skipped or whose metadata it could not read,
                 \* or changed since with no watcher of it to tell
    tab,         \* TabState: path, root, show_hidden
    generation,
    loading,
    failed,      \* `error` set by a load
    snap,        \* DirectorySnapshot; `from` is the place its rows were read from
    scanCancel,  \* the generation whose flag scan_cancel holds, or 0
    scans,       \* the background scan of every generation and its channel
    watchers,    \* the watcher created by every generation, its channel and event loop
    watch,       \* watched_path, watcher_refresh_at, pending_watch_changes, watcher_apply_running
    timers,      \* generations with a batch timer
    applies      \* the entries a batch of every generation re-reads

external == <<disk, changes, blind>>
view == <<tab, generation, loading, failed, snap, scanCancel>>
tasks == <<scans, watchers, watch, timers, applies>>
vars == <<disk, changes, blind, tab, generation, loading, failed, snap, scanCancel,
          scans, watchers, watch, timers, applies>>

Tabs == [path : Dirs, root : {"directory", "trash"}, show : BOOLEAN]
Snapshots == [path : Dirs, from : Places, rows : Rows, phase : {"discovered", "complete"}]
Scans == [pc : {"none", "discover", "metadata", "trash", "done"}, place : Places \union {NoPath},
          show : BOOLEAN, cancelled : BOOLEAN, rows : Rows, out : Seq(Message)]
Watchers == [stage : {"none", "asked", "ready", "listening", "deaf"},
             path : Dirs \union {NoPath}, queue : Seq(Event)]
Watches == [path : Dirs \union {NoPath}, refreshAt : BOOLEAN, pending : Changes, applying : BOOLEAN]
Applies == [active : BOOLEAN, path : Dirs \union {NoPath}, names : SUBSET Names,
            left : SUBSET Names, got : Rows]

\* Every variable has its type (FileManager, its snapshot, tasks and channels).
ViewTypeOK ==
    /\ disk \in [Places -> [Names -> {Absent} \union Version]]
    /\ changes \in 0 .. MaxChanges
    /\ blind \subseteq Names
    /\ tab \in Tabs
    /\ generation \in Gens
    /\ loading \in BOOLEAN /\ failed \in BOOLEAN
    /\ snap \in Snapshots
    /\ scanCancel \in 0 .. MaxGen
    /\ scans \in [Gens -> Scans]
    /\ watchers \in [Gens -> Watchers]
    /\ watch \in Watches
    /\ timers \subseteq Gens
    /\ applies \in [Gens -> Applies]

NoWatch == [path |-> NoPath, refreshAt |-> FALSE, pending |-> NoChanges, applying |-> FALSE]
Visible(n, show) == show \/ n \notin HiddenNames

(***************************************************************************)
(* load_directory.                                                         *)
(***************************************************************************)
\* Defect: the new scan is given the flag of the cancelled one.
Defect_NewScan(t) ==
    [NoScan EXCEPT !.pc = IF t.root = "trash" THEN "trash" ELSE "discover",
                   !.place = IF t.root = "trash" THEN Trash ELSE t.path,
                   !.show = t.show, !.cancelled = (scanCancel # 0)]

NewScan(t) ==
    [NoScan EXCEPT !.pc = IF t.root = "trash" THEN "trash" ELSE "discover",
                   !.place = IF t.root = "trash" THEN Trash ELSE t.path,
                   !.show = t.show]

\* scan_cancel.take() and store(true)
CancelScan(ss) ==
    IF scanCancel = 0 THEN ss ELSE [ss EXCEPT ![scanCancel].cancelled = TRUE]

\* directory_watcher = None: the event loop of the dropped watcher has no sender left
DropWatcher(ws) ==
    [g \in Gens |-> IF ws[g].stage \in {"listening", "deaf"} THEN NoWatcher ELSE ws[g]]

\* ensure_directory_watcher, and the Trash branch of load_directory
EnsureWatcher(t, w, g) ==
    IF t.root = "trash"
    THEN /\ watch' = NoWatch
         /\ watchers' = DropWatcher(watchers)
    ELSE IF w.path = t.path
    THEN /\ watch' = w
         /\ UNCHANGED watchers
    ELSE /\ watch' = NoWatch
         /\ watchers' = [DropWatcher(watchers) EXCEPT
                           ![g] = [stage |-> "asked", path |-> t.path, queue |-> <<>>]]

\* `t` is the tab, `w` the watch state and `s` the snapshot when it is called
LoadDirectory(t, w, s) ==
    LET g == generation + 1 IN
    /\ generation < MaxGen
    /\ generation' = g
    /\ tab' = t
    /\ loading' = TRUE
    /\ failed' = FALSE
    /\ scanCancel' = IF t.root = "trash" THEN 0 ELSE g
    /\ scans' = [CancelScan(scans) EXCEPT ![g] = NewScan(t)]
    /\ snap' = IF t.root = "directory" /\ s.path # t.path
               THEN [path |-> t.path, from |-> t.path, rows |-> NoRows, phase |-> "discovered"]
               ELSE s
    /\ EnsureWatcher(t, w, g)
    /\ blind' = {}

Init ==
    \E d \in Dirs, show \in InitialShow :
      /\ disk \in [Places -> [Names -> {Absent, 1}]]
      /\ disk[Trash] = [n \in Names |-> 1]
      /\ changes = 0
      /\ blind = {}
      /\ tab = [path |-> d, root |-> "directory", show |-> show]
      /\ generation = 1
      /\ loading = TRUE
      /\ failed = FALSE
      /\ snap = [path |-> d, from |-> d, rows |-> NoRows, phase |-> "complete"]
      /\ scanCancel = 1
      /\ scans = [[g \in Gens |-> NoScan] EXCEPT ![1] = NewScan(tab)]
      /\ watchers = [[g \in Gens |-> NoWatcher] EXCEPT
                       ![1] = [stage |-> "asked", path |-> d, queue |-> <<>>]]
      /\ watch = NoWatch
      /\ timers = {}
      /\ applies = [g \in Gens |-> NoApply]

(***************************************************************************)
(* The user, and other parts of the program that call load_directory.      *)
(***************************************************************************)
Go(d) ==
    /\ "go" \in Commands
    /\ LoadDirectory([tab EXCEPT !.path = d, !.root = "directory"], watch, snap)
    /\ UNCHANGED <<disk, changes, timers, applies>>

\* Defect: navigate_trash makes the trash the path of the tab.
Defect_OpenTrash ==
    /\ "trash" \in Commands
    /\ LoadDirectory([tab EXCEPT !.root = "trash", !.path = Trash], watch, snap)
    /\ UNCHANGED <<disk, changes, timers, applies>>

OpenTrash ==
    /\ "trash" \in Commands
    /\ LoadDirectory([tab EXCEPT !.root = "trash"], watch, snap)
    /\ UNCHANGED <<disk, changes, timers, applies>>

\* F5, and every finished file operation of the coordinator
Refresh ==
    /\ "refresh" \in Commands
    /\ LoadDirectory(tab, watch, snap)
    /\ UNCHANGED <<disk, changes, timers, applies>>

ToggleHidden ==
    /\ "hidden" \in Commands
    /\ tab.root # "trash"
    /\ LoadDirectory([tab EXCEPT !.show = ~@], watch, snap)
    /\ UNCHANGED <<disk, changes, timers, applies>>

(***************************************************************************)
(* Other programs.  notify reports a change to every watcher of the        *)
(* folder; a deaf watcher's channel fills up unread and is left out.       *)
(***************************************************************************)
Hears(w, d) == w.path = d /\ w.stage \in {"ready", "listening"}

Report(d, event) ==
    watchers' = [g \in Gens |->
        IF Hears(watchers[g], d) THEN [watchers[g] EXCEPT !.queue = Append(@, event)]
        ELSE watchers[g]]

ChangeFolder(d, names, rows, event) ==
    /\ changes < MaxChanges
    /\ changes' = changes + 1
    /\ disk' = [disk EXCEPT ![d] = rows]
    /\ Report(d, event)
    /\ blind' = IF d = tab.path /\ ~Hears(watchers[generation], d)
                THEN blind \union names ELSE blind
    /\ UNCHANGED <<tab, generation, loading, failed, snap, scanCancel,
                   scans, watch, timers, applies>>

NewVersion == changes + 2

External(d) ==
    \/ \E n \in Names, kind \in Kinds \intersect {"write", "any"} :
         ChangeFolder(d, {n}, [disk[d] EXCEPT ![n] = NewVersion],
                      IF kind = "write" THEN [kind |-> "upsert", name |-> n] ELSE [kind |-> "rescan"])
    \/ /\ "remove" \in Kinds
       /\ \E n \in Names :
            /\ disk[d][n] # Absent
            /\ ChangeFolder(d, {n}, [disk[d] EXCEPT ![n] = Absent], [kind |-> "remove", name |-> n])
    \/ /\ "rename" \in Kinds
       /\ \E m, n \in Names :
            /\ m # n /\ disk[d][m] # Absent
            /\ ChangeFolder(d, {m, n}, [disk[d] EXCEPT ![m] = Absent, ![n] = NewVersion],
                            [kind |-> "rename", from |-> m, to |-> n])
    \/ \E kind \in Kinds \intersect {"self", "error"} :
         ChangeFolder(d, {}, disk[d], [kind |-> kind])

(***************************************************************************)
(* The scan thread: scan_directory_progressive and scan_trash.             *)
(***************************************************************************)
Send(g, message) == Append(scans[g].out, message)
Interrupted == [result |-> "interrupted"]
Failure == [result |-> "failed"]
Found(phase, rows) == [result |-> "ok", phase |-> phase, rows |-> rows]

ScanStep(g, pc, rows, message) ==
    scans' = [scans EXCEPT ![g].pc = pc, ![g].rows = rows, ![g].out = Send(g, message)]

IsCurrent(g) == g = generation

\* what the current load could not read is not read again before the next load
\* or a watcher event of it
Unread(g, names) == blind' = IF IsCurrent(g) THEN blind \union names ELSE blind

\* discover_entries, which skips an item that it cannot read, then the first
\* snapshot: names without metadata
Discover(g) ==
    LET found == {n \in Names : disk[scans[g].place][n] # Absent /\ Visible(n, scans[g].show)}
    IN  /\ scans[g].pc = "discover"
        /\ \/ /\ scans[g].cancelled
              /\ ScanStep(g, "done", NoRows, Interrupted)
              /\ UNCHANGED blind
           \/ \E skipped \in IF "item" \in Failures THEN SUBSET found ELSE {{}} :
                LET names == [n \in Names |-> IF n \in found \ skipped THEN Pending ELSE Absent] IN
                /\ ~scans[g].cancelled
                /\ ScanStep(g, "metadata", names, Found("discovered", names))
                /\ Unread(g, skipped)
           \/ /\ ~scans[g].cancelled /\ "scan" \in Failures
              /\ ScanStep(g, "done", NoRows, Failure)
              /\ UNCHANGED blind
        /\ UNCHANGED <<disk, changes, view, watchers, watch, timers, applies>>

\* read_metadata of one entry, by one of the worker threads: it fails for an
\* entry that is gone, and may fail for any other
ReadMetadata(g, n) ==
    LET version == disk[scans[g].place][n] IN
    /\ scans[g].pc = "metadata"
    /\ ~scans[g].cancelled
    /\ scans[g].rows[n] = Pending
    /\ \/ /\ version # Absent
          /\ scans' = [scans EXCEPT ![g].rows[n] = version]
          /\ UNCHANGED blind
       \/ /\ version = Absent \/ "metadata" \in Failures
          /\ scans' = [scans EXCEPT ![g].rows[n] = Unavailable]
          /\ Unread(g, IF version = Absent THEN {} ELSE {n})
    /\ UNCHANGED <<disk, changes, view, watchers, watch, timers, applies>>

FinishScan(g) ==
    /\ scans[g].pc = "metadata"
    /\ \/ /\ scans[g].cancelled
          /\ ScanStep(g, "done", NoRows, Interrupted)
       \/ /\ ~scans[g].cancelled
          /\ \A n \in Names : scans[g].rows[n] # Pending
          /\ ScanStep(g, "done", NoRows, Found("complete", scans[g].rows))
    /\ UNCHANGED <<external, view, watchers, watch, timers, applies>>

ScanTrash(g) ==
    /\ scans[g].pc = "trash"
    /\ \/ ScanStep(g, "done", NoRows, Found("complete", disk[Trash]))
       \/ "scan" \in Failures /\ ScanStep(g, "done", NoRows, Failure)
    /\ UNCHANGED <<external, view, watchers, watch, timers, applies>>

(***************************************************************************)
(* The closures that take the results of a scan.                           *)
(***************************************************************************)
\* a directory scan replaces the snapshot, load_trash only its rows
ShowResult(place, message) ==
    CASE message.result = "ok" ->
           /\ loading' = (message.phase # "complete")
           /\ snap' = [path |-> IF place = Trash THEN snap.path ELSE place, from |-> place,
                       rows |-> message.rows, phase |-> message.phase]
           /\ UNCHANGED failed
      [] message.result = "interrupted" -> UNCHANGED <<loading, snap, failed>>
      [] message.result = "failed" ->
           /\ loading' = FALSE
           /\ failed' = TRUE
           /\ snap' = IF place = Trash THEN [snap EXCEPT !.rows = NoRows] ELSE snap

TakeResult(g) ==
    scans' = IF scans[g].pc = "done" /\ Len(scans[g].out) = 1
             THEN [scans EXCEPT ![g] = NoScan]
             ELSE [scans EXCEPT ![g].out = Tail(@)]

\* Defect: results are not compared with the generation.
Defect_DeliverScan(g) ==
    /\ scans[g].out # <<>>
    /\ TakeResult(g)
    /\ ShowResult(scans[g].place, Head(scans[g].out))
    /\ UNCHANGED <<external, tab, generation, scanCancel, watchers, watch, timers, applies>>

DeliverScan(g) ==
    /\ scans[g].out # <<>>
    /\ TakeResult(g)
    /\ IF IsCurrent(g) /\ (scans[g].place = Trash => tab.root = "trash")
       THEN ShowResult(scans[g].place, Head(scans[g].out))
       ELSE UNCHANGED <<loading, failed, snap>>
    /\ UNCHANGED <<external, tab, generation, scanCancel, watchers, watch, timers, applies>>

(***************************************************************************)
(* The watcher: creation in the background, then the event loop.           *)
(***************************************************************************)
StartWatching(g) ==
    /\ watchers[g].stage = "asked"
    /\ \/ watchers' = [watchers EXCEPT ![g].stage = "ready"]
       \/ "watch" \in Failures /\ watchers' = [watchers EXCEPT ![g] = NoWatcher]
    /\ UNCHANGED <<external, view, scans, watch, timers, applies>>

InstallWatcher(g) ==
    /\ watchers[g].stage = "ready"
    /\ IF IsCurrent(g) /\ tab.path = watchers[g].path
       THEN /\ watchers' = [watchers EXCEPT ![g].stage = "listening"]
            /\ watch' = [watch EXCEPT !.path = watchers[g].path]
       ELSE /\ watchers' = [watchers EXCEPT ![g] = NoWatcher]
            /\ UNCHANGED watch
    /\ UNCHANGED <<external, view, scans, timers, applies>>

\* Defect: the new name of a renamed entry is forgotten.
Defect_Record(pending, event) ==
    CASE event.kind = "upsert" -> [pending EXCEPT !.upserts = @ \union {event.name}]
      [] event.kind = "remove" -> [pending EXCEPT !.removes = @ \union {event.name}]
      [] event.kind = "rename" -> [pending EXCEPT !.removes = @ \union {event.from}]
      [] event.kind = "self" -> [pending EXCEPT !.self = TRUE]
      [] event.kind = "rescan" -> [pending EXCEPT !.rescan = TRUE]
      [] event.kind = "error" -> pending

Record(pending, event) ==
    CASE event.kind = "upsert" -> [pending EXCEPT !.upserts = @ \union {event.name}]
      [] event.kind = "remove" -> [pending EXCEPT !.removes = @ \union {event.name}]
      [] event.kind = "rename" -> [pending EXCEPT !.removes = @ \union {event.from},
                                                  !.upserts = @ \union {event.to}]
      [] event.kind = "self" -> [pending EXCEPT !.self = TRUE]
      [] event.kind = "rescan" -> [pending EXCEPT !.rescan = TRUE]
      [] event.kind = "error" -> pending

\* the loop ends when it finds another generation, and nobody starts it again
ReceiveEvent(g) ==
    LET pending == Record(watch.pending, Head(watchers[g].queue)) IN
    /\ watchers[g].stage = "listening"
    /\ watchers[g].queue # <<>>
    /\ IF IsCurrent(g)
       THEN /\ watchers' = [watchers EXCEPT ![g].queue = Tail(@)]
            /\ IF pending # NoChanges /\ ~watch.refreshAt
               THEN /\ watch' = [watch EXCEPT !.pending = pending, !.refreshAt = TRUE]
                    /\ timers' = timers \union {g}
               ELSE /\ watch' = [watch EXCEPT !.pending = pending]
                    /\ UNCHANGED timers
       ELSE /\ watchers' = [watchers EXCEPT ![g].stage = "deaf", ![g].queue = <<>>]
            /\ UNCHANGED <<watch, timers>>
    /\ UNCHANGED <<external, view, scans, applies>>

(***************************************************************************)
(* The batch timer.  While a load or the previous batch runs, the timer    *)
(* is set again: the same state, so the step waits instead.                *)
(***************************************************************************)
DropRows(rows, names) == [n \in Names |-> IF n \in names THEN Absent ELSE rows[n]]

\* apply_watcher_changes: removals at once, the other entries are read again
ApplyChanges(g, w, changed) ==
    LET hidden == {n \in changed.upserts : ~Visible(n, tab.show)}
        removes == changed.removes \union hidden
        upserts == changed.upserts \ hidden
    IN  /\ snap' = [snap EXCEPT !.rows = DropRows(@, removes)]
        /\ watch' = [w EXCEPT !.applying = (upserts # {})]
        /\ applies' = IF upserts = {} THEN applies
                      ELSE [applies EXCEPT ![g] = [active |-> TRUE, path |-> tab.path,
                              names |-> upserts, left |-> upserts, got |-> NoRows]]
        /\ UNCHANGED <<blind, tab, generation, loading, failed, scanCancel, scans, watchers>>

\* Defect: a timer that finds a scan or a batch running is not set again.
Defect_FireOnce(g) ==
    LET changed == watch.pending
        taken == [watch EXCEPT !.refreshAt = FALSE, !.pending = NoChanges]
    IN  /\ g \in timers
        /\ timers' = timers \ {g}
        /\ IF ~IsCurrent(g) \/ ~watch.refreshAt \/ tab.root = "trash" \/ loading \/ watch.applying
           THEN UNCHANGED <<blind, view, scans, watchers, watch, applies>>
           ELSE IF changed.rescan \/ HideGitignored \/ changed.self
           THEN LoadDirectory(tab, taken, snap) /\ UNCHANGED applies
           ELSE ApplyChanges(g, taken, changed)
        /\ UNCHANGED <<disk, changes>>

FireBatch(g) ==
    LET changed == watch.pending
        taken == [watch EXCEPT !.refreshAt = FALSE, !.pending = NoChanges]
    IN  /\ g \in timers
        /\ timers' = timers \ {g}
        /\ IF ~IsCurrent(g) \/ ~watch.refreshAt \/ tab.root = "trash"
           THEN UNCHANGED <<blind, view, scans, watchers, watch, applies>>
           ELSE /\ ~loading /\ ~watch.applying
                /\ IF changed.rescan \/ HideGitignored \/ changed.self
                   THEN LoadDirectory(tab, taken, snap) /\ UNCHANGED applies
                   ELSE ApplyChanges(g, taken, changed)
        /\ UNCHANGED <<disk, changes>>

\* scan_entry of one path of the batch
ScanEntry(g, n) ==
    /\ n \in applies[g].left
    /\ \E result \in {disk[applies[g].path][n]} \union (IF "read" \in Failures THEN {Unavailable} ELSE {}) :
         applies' = [applies EXCEPT ![g].left = @ \ {n}, ![g].got[n] = result]
    /\ UNCHANGED <<external, view, scans, watchers, watch, timers>>

\* Defect: watcher_apply_running is not reset.
Defect_DeliverApply(g) ==
    LET batch == applies[g]
        rows == [n \in Names |-> IF n \in batch.names THEN batch.got[n] ELSE snap.rows[n]]
    IN  /\ batch.active /\ batch.left = {}
        /\ applies' = [applies EXCEPT ![g] = NoApply]
        /\ snap' = IF IsCurrent(g) THEN [snap EXCEPT !.rows = rows] ELSE snap
        /\ UNCHANGED <<blind, tab, generation, loading, failed, scanCancel, scans, watchers,
                       watch, disk, changes, timers>>

\* the entries that were read replace their rows; a failed read asks for a new scan
DeliverApply(g) ==
    LET batch == applies[g]
        unread == {n \in batch.names : batch.got[n] = Unavailable}
        rows == [n \in Names |-> IF n \in unread THEN Absent
                                 ELSE IF n \in batch.names THEN batch.got[n] ELSE snap.rows[n]]
        applied == [watch EXCEPT !.applying = FALSE]
        shown == [snap EXCEPT !.rows = rows]
    IN  /\ batch.active /\ batch.left = {}
        /\ applies' = [applies EXCEPT ![g] = NoApply]
        /\ IF ~IsCurrent(g) \/ tab.path # batch.path
           THEN UNCHANGED <<blind, view, scans, watchers, watch>>
           ELSE IF unread # {}
           THEN LoadDirectory(tab, applied, shown)
           ELSE /\ watch' = applied
                /\ snap' = shown
                /\ UNCHANGED <<blind, tab, generation, loading, failed, scanCancel, scans, watchers>>
        /\ UNCHANGED <<disk, changes, timers>>

ScanThread(g) == Discover(g) \/ FinishScan(g) \/ ScanTrash(g) \/ \E n \in Names : ReadMetadata(g, n)
WatchThread(g) == StartWatching(g)
ApplyThread(g) == \E n \in Names : ScanEntry(g, n)

System(g) ==
    \/ ScanThread(g) \/ DeliverScan(g)
    \/ WatchThread(g) \/ InstallWatcher(g) \/ ReceiveEvent(g)
    \/ FireBatch(g) \/ ApplyThread(g) \/ DeliverApply(g)

User == Refresh \/ OpenTrash \/ ToggleHidden \/ \E d \in Dirs : Go(d)

Next == User \/ (\E d \in Dirs : External(d)) \/ (\E g \in Gens : System(g))

Spec == Init /\ [][Next]_vars

(***************************************************************************)
(* The executors run the background tasks and the ready closures of the    *)
(* foreground.  Loads and changes are bounded and no step re-arms itself,  *)
(* so that no task can be put off for ever by the others; users and other  *)
(* programs owe nothing.                                                   *)
(***************************************************************************)
Fairness == WF_vars(\E g \in Gens : System(g))

FairSpec == Spec /\ Fairness

(***************************************************************************)
(* Properties.                                                             *)
(***************************************************************************)

\* The row a folder's file should have now.
Fresh(n) == IF Visible(n, tab.show) THEN disk[tab.path][n] ELSE Absent
Drifted(n) == tab.root = "directory" /\ snap.rows[n] # Fresh(n)

\* When a load has ended well, the rows are those of the place the tab is at,
\* and the snapshot is complete, however many older scans were overtaken on
\* the way: load_directory's generations and the two generation checks.
LoadedRowsAreOfTheTab ==
    ~loading /\ ~failed =>
        /\ snap.from = IF tab.root = "trash" THEN Trash ELSE tab.path
        /\ snap.phase = "complete"
        /\ \A n \in Names : snap.rows[n] # Pending

\* Nothing of the current generation is on its way.
Settled ==
    /\ tab.root = "directory" /\ ~loading /\ ~failed
    /\ watchers[generation].queue = <<>>
    /\ watch.pending = NoChanges
    /\ ~applies[generation].active

\* Once the watcher, the batches and the scan are at rest, every row is what
\* the disk holds, except for the changes nobody could report (no watcher of
\* this generation was there yet, or any more) and for the entries that the
\* load skipped or whose metadata it could not read, which it does not try
\* again (scan.rs:90-95, 156-159): no event is lost between the scan, the event
\* loop, the batch timer and the batch's late results.
SettledRowsAreFresh ==
    Settled => \A n \in Names \ blind : ~Drifted(n)

\* While the event loop serves the current generation, whatever its flags
\* wait for is on its way: a set refresh time has its timer, a running batch
\* has its task, and pending changes have a refresh time.  Otherwise batches
\* would be put off for ever.
BatchFlagsAreOwned ==
    watchers[generation].stage = "listening" =>
        /\ watch.refreshAt => generation \in timers
        /\ watch.applying => applies[generation].active
        /\ watch.pending # NoChanges => watch.refreshAt

\* Every load ends, or a newer one takes its place: no cancellation hits the
\* scan that the window waits for.
LoadEnds ==
    \A g \in Gens : (loading /\ generation = g) ~> (~loading \/ generation # g)

Queued(n, g) ==
    /\ watchers[g].stage = "listening"
    /\ \E i \in DOMAIN watchers[g].queue :
         LET event == watchers[g].queue[i] IN
         \/ event.kind \in {"upsert", "remove"} /\ event.name = n
         \/ event.kind = "rename" /\ n \in {event.from, event.to}

\* A change reported to the event loop of the current generation is shown,
\* unless another load takes over or the load fails.
ReportedChangeIsShown ==
    \A n \in Names, g \in Gens :
        (Queued(n, g) /\ generation = g) ~> (~Drifted(n) \/ generation # g \/ failed)

\* docs/ARCHITECTURE.md:36-37: "The non-recursive watcher coalesces bursts and
\* refreshes the current directory after external or successful local changes."
\* A change reported to the watcher of the folder is shown, as long as the tab
\* stays there.
WatchedFolderIsRefreshed ==
    \A n \in Names, d \in Dirs :
        (tab.root = "directory" /\ tab.path = d /\ \E g \in Gens : watchers[g].path = d /\ Queued(n, g))
            ~> (~Drifted(n) \/ tab.path # d \/ failed)
=============================================================================
