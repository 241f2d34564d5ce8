-------------------------- MODULE PreviewRequests --------------------------
(***************************************************************************)
(* The preview panel of the main window: a selected file is previewed at   *)
(* once (load_preview) or after a pause (schedule_preview), in a           *)
(* background task that may take the result from a cache all tasks share.  *)
(* A later selection cancels the task; what comes late is dropped by its   *)
(* generation.                                                             *)
(*                                                                         *)
(* A file is a path with a version that other programs raise, and a        *)
(* preview is the version it was made from.  The key of the cache (size,   *)
(* time, inode) is the version; all previews have one weight.              *)
(***************************************************************************)
EXTENDS Integers, Sequences, FiniteSets, TLC

CONSTANTS
    Files,           \* paths of the folder
    NoPreview,       \* None, of a path
    CacheCapacity,   \* how many previews fit the cache
    MaxCommands,     \* bound on selections, toggles and reloads
    MaxMishaps       \* bound on the files written by others and the previews that fail

ASSUME PreviewFiles == NoPreview \notin Files
ASSUME PreviewBounds ==
    CacheCapacity \in Nat /\ MaxCommands \in Nat /\ MaxMishaps \in Nat

VARIABLES
    content,      \* the version of every file
    visible,      \* preview_visible
    cursor,       \* the file at the cursor
    preview,      \* preview_path with preview
    ask,          \* preview_request_path, preview_generation, preview_debounce_generation
    pauses,       \* debounce timers
    previewers,   \* the background task of a preview_generation
    cache,        \* PreviewCache, the least recently used entry first
    commands,     \* commands so far
    mishaps,      \* writes and failed previews so far
    unasked       \* history: nothing was asked for the cursor since a reload, a failure
                  \* or a change of the rows around it

previewVars == <<content, visible, cursor, preview, ask, pauses, previewers, cache, commands,
                 mishaps, unasked>>

Empty == [path |-> NoPreview, of |-> 0]
Unreadable == 0
Interrupted_ == -1

PreviewInit ==
    /\ content = [f \in Files |-> 1]
    /\ visible \in BOOLEAN
    /\ cursor = NoPreview
    /\ preview = Empty
    /\ ask = [path |-> NoPreview, gen |-> 0, debounce |-> 0]
    /\ pauses = {}
    /\ previewers = << >>
    /\ cache = << >>
    /\ commands = 0 /\ mishaps = 0
    /\ unasked = FALSE

-----------------------------------------------------------------------------
(***************************************************************************)
(* The window.                                                             *)
(***************************************************************************)

\* cancel_preview_request: preview_cancel is the flag of the current task
CancelTask == [g \in DOMAIN previewers |->
                  [previewers[g] EXCEPT !.cancelled = @ \/ g = ask.gen]]
CancelAsk(a) == [path |-> NoPreview, gen |-> a.gen + 1, debounce |-> a.debounce + 1]

\* load_preview with the cursor at p
LoadPreview(p, shown) ==
    LET asked == [ask EXCEPT !.debounce = @ + 1]
        next == CancelAsk(asked)
    IN  IF ~shown \/ (p # NoPreview /\ ask.path = p)
        THEN ask' = asked /\ UNCHANGED <<preview, previewers>>
        ELSE IF p = NoPreview
        THEN ask' = next /\ previewers' = CancelTask /\ preview' = Empty
        ELSE IF preview.path = p
        THEN ask' = next /\ previewers' = CancelTask /\ UNCHANGED preview
        ELSE /\ ask' = [next EXCEPT !.path = p]
             /\ previewers' = CancelTask @@
                  (next.gen :> [pc |-> "lookup", path |-> p, cancelled |-> FALSE, got |-> 0])
             /\ UNCHANGED preview

Command == commands < MaxCommands /\ commands' = commands + 1

\* selection_changed: a click or a toggle
SelectFile(p) ==
    /\ Command /\ p # cursor
    /\ cursor' = p
    /\ IF visible THEN LoadPreview(p, TRUE) /\ unasked' = FALSE
                  ELSE UNCHANGED <<preview, ask, previewers, unasked>>
    /\ UNCHANGED <<content, visible, pauses, cache, mishaps>>

\* selection_changed_debounced: the keyboard moves the cursor
MoveCursor(p) ==
    /\ Command /\ p # cursor
    /\ cursor' = p
    /\ IF visible
       THEN /\ ask' = CancelAsk(ask) /\ previewers' = CancelTask
            /\ pauses' = pauses \union {ask.debounce + 1}
            /\ unasked' = FALSE
       ELSE UNCHANGED <<ask, previewers, pauses, unasked>>
    /\ UNCHANGED <<content, visible, preview, cache, mishaps>>

\* Defect: the timer loads nothing.
Defect_PauseEnds(d) ==
    /\ d \in pauses
    /\ pauses' = pauses \ {d}
    /\ UNCHANGED <<preview, ask, previewers>>
    /\ UNCHANGED <<content, visible, cursor, cache, commands, mishaps, unasked>>

\* the timer of schedule_preview
PauseEnds(d) ==
    /\ d \in pauses
    /\ pauses' = pauses \ {d}
    /\ IF d = ask.debounce THEN LoadPreview(cursor, visible)
                           ELSE UNCHANGED <<preview, ask, previewers>>
    /\ UNCHANGED <<content, visible, cursor, cache, commands, mishaps, unasked>>

\* toggle_preview
TogglePreview ==
    /\ Command
    /\ visible' = ~visible
    /\ IF visible THEN ask' = CancelAsk(ask) /\ previewers' = CancelTask /\ UNCHANGED <<preview, unasked>>
                  ELSE LoadPreview(cursor, TRUE) /\ unasked' = FALSE
    /\ UNCHANGED <<content, cursor, pauses, cache, mishaps>>

\* load_directory, load_trash, or a watcher batch that took selected rows away:
\* the panel is emptied, and nothing is asked for the row left at the cursor
RowsChange(p) ==
    /\ Command
    /\ cursor' = p
    /\ ask' = CancelAsk(ask) /\ previewers' = CancelTask
    /\ preview' = Empty
    /\ unasked' = TRUE
    /\ UNCHANGED <<content, visible, pauses, cache, mishaps>>

\* rows that are removed, inserted and sorted around the cursor, which keeps its
\* index: a watcher batch that takes no selected row away, or the result of a
\* load.  Nothing is cancelled or asked; a timer that runs will find the new row.
RowsShift(p) ==
    /\ Command /\ p # cursor
    /\ cursor' = p
    /\ unasked' = (unasked \/ ask.debounce \notin pauses)
    /\ UNCHANGED <<content, visible, preview, ask, pauses, previewers, cache, mishaps>>

-----------------------------------------------------------------------------
(***************************************************************************)
(* The background task, and PreviewCache behind its lock.                  *)
(***************************************************************************)
Key(p) == [path |-> p, version |-> content[p]]

TaskAt(g, pc) == g \in DOMAIN previewers /\ previewers[g].pc = pc
TaskStep(g, pc, got) == previewers' = [previewers EXCEPT ![g].pc = pc, ![g].got = got]

\* PreviewCache::get
LookUp(g) ==
    /\ TaskAt(g, "lookup")
    /\ LET hits == {i \in DOMAIN cache : cache[i].key = Key(previewers[g].path)} IN
         IF hits = {}
         THEN TaskStep(g, "compute", 0) /\ UNCHANGED cache
         ELSE \E i \in hits :
                /\ TaskStep(g, "done", cache[i].of)
                /\ cache' = Append(SelectSeq(cache, LAMBDA e : e # cache[i]), cache[i])
    /\ UNCHANGED <<content, visible, cursor, preview, ask, pauses, commands, mishaps, unasked>>

\* preview_cancellable: it may see the flag, and it may fail
ComputePreview(g) ==
    /\ TaskAt(g, "compute")
    /\ \/ TaskStep(g, "insert", content[previewers[g].path]) /\ UNCHANGED mishaps
       \/ previewers[g].cancelled /\ TaskStep(g, "done", Interrupted_) /\ UNCHANGED mishaps
       \/ /\ mishaps < MaxMishaps /\ mishaps' = mishaps + 1
          /\ TaskStep(g, "done", Unreadable)
    /\ UNCHANGED <<content, visible, cursor, preview, ask, pauses, cache, commands, unasked>>

\* PreviewCache::insert: the key is read now; older entries of the path go, and
\* then the least recently used ones
InsertPreview(g) ==
    LET p == previewers[g].path
        others == SelectSeq(cache, LAMBDA e : e.key.path # p)
        grown == Append(others, [key |-> Key(p), of |-> previewers[g].got])
        excess == IF Len(grown) > CacheCapacity /\ Len(grown) > 1
                  THEN Len(grown) - (IF CacheCapacity > 1 THEN CacheCapacity ELSE 1) ELSE 0
    IN  /\ TaskAt(g, "insert")
        /\ cache' = SubSeq(grown, excess + 1, Len(grown))
        /\ TaskStep(g, "done", previewers[g].got)
        /\ UNCHANGED <<content, visible, cursor, preview, ask, pauses, commands, mishaps, unasked>>

Finish(g) == previewers' = [h \in DOMAIN previewers \ {g} |-> previewers[h]]

\* Defect: neither the generation nor the path is compared.
Defect_DeliverPreview(g) ==
    /\ TaskAt(g, "done") /\ Finish(g)
    /\ IF previewers[g].got \in {Interrupted_, Unreadable}
       THEN UNCHANGED <<preview, ask, unasked>>
       ELSE /\ preview' = [path |-> previewers[g].path, of |-> previewers[g].got]
            /\ ask' = [ask EXCEPT !.path = NoPreview]
            /\ UNCHANGED unasked
    /\ UNCHANGED <<content, visible, cursor, pauses, cache, commands, mishaps>>

\* the result reaches the window
DeliverPreview(g) ==
    /\ TaskAt(g, "done") /\ Finish(g)
    /\ LET result == previewers[g] IN
         IF g # ask.gen \/ ask.path # result.path \/ result.got = Interrupted_
         THEN UNCHANGED <<preview, ask, unasked>>
         ELSE /\ ask' = [ask EXCEPT !.path = NoPreview]
              /\ IF result.got = Unreadable
                 THEN unasked' = TRUE /\ UNCHANGED preview
                 ELSE preview' = [path |-> result.path, of |-> result.got] /\ UNCHANGED unasked
    /\ UNCHANGED <<content, visible, cursor, pauses, cache, commands, mishaps>>

\* another program writes a file
WriteFile(f) ==
    /\ mishaps < MaxMishaps /\ mishaps' = mishaps + 1
    /\ content' = [content EXCEPT ![f] = @ + 1]
    /\ UNCHANGED <<visible, cursor, preview, ask, pauses, previewers, cache, commands, unasked>>

-----------------------------------------------------------------------------
Previewer(g) == LookUp(g) \/ ComputePreview(g) \/ InsertPreview(g)

PreviewSystem ==
    \/ \E d \in pauses : PauseEnds(d)
    \/ \E g \in DOMAIN previewers : Previewer(g) \/ DeliverPreview(g)

PreviewNext ==
    \/ \E p \in Files \union {NoPreview} : SelectFile(p) \/ MoveCursor(p) \/ RowsChange(p) \/ RowsShift(p)
    \/ TogglePreview
    \/ \E f \in Files : WriteFile(f)
    \/ PreviewSystem

PreviewSpec == PreviewInit /\ [][PreviewNext]_previewVars

(***************************************************************************)
(* Timers fire, tasks run and their results are taken.  Commands and tasks *)
(* are finite in number, so that none of them can be put off for ever.     *)
(***************************************************************************)
PreviewFairness == WF_previewVars(PreviewSystem)

\* load_preview, cancel_preview_request and the two generations: while the
\* panel is visible it comes to show the file at the cursor, however quickly
\* the cursor moved and whatever task ends last, except after a reload, a failed
\* preview or a batch or result that put another row under the cursor's index
\* (directory_watcher.rs:168, 215): these ask for nothing, and the panel may stay
\* on another file until the next selection.
PreviewFollowsCursor ==
    \A f \in Files \union {NoPreview} :
        (visible /\ cursor = f /\ ~unasked) ~>
            (preview.path = f \/ cursor # f \/ ~visible \/ unasked)

\* docs/ARCHITECTURE.md:33-34: "fingerprinted results may come from the bounded
\* memory cache."  A cached preview is of the version its key names.
CachedPreviewIsOfItsKey == \A i \in DOMAIN cache : cache[i].of = cache[i].key.version
=============================================================================
