----------------------------- MODULE Selection -----------------------------
(***************************************************************************)
(* The selection of the main window's list: cursor and anchor are row      *)
(* numbers, the selected files are paths, and the rows change under them   *)
(* (a scan or the trash is read, the list is sorted, the watcher applies a *)
(* batch).  A press, a drag or a rubber band keeps the selection it        *)
(* started from, to put it back.                                           *)
(*                                                                         *)
(* Files are numbers in the order of the list, rows count from one, and 0  *)
(* stands for None.  A scan delivers what is in the folder when its result *)
(* arrives (DirectoryView has the delays), and nothing is revealed.        *)
(***************************************************************************)
EXTENDS Integers, Sequences, FiniteSets, SequencesExt

CONSTANTS
    ListedFiles,     \* what folder and trash may hold: positive numbers
    MaxRowChanges    \* bound on the files that other programs add or remove

VARIABLES
    rows,         \* snapshot.entries
    complete,     \* snapshot.phase
    present,      \* the files in the folder and in the trash
    root,         \* tab.root
    ascending,    \* tab.sort.direction
    reading,      \* `loading`: a scan of the current generation runs
    sel,          \* SelectionState
    pointer,      \* PointerInteraction
    panicked,     \* a slice was indexed beyond its end
    rowChanges

selectionVars == <<rows, complete, present, root, ascending, reading, sel, pointer, panicked, rowChanges>>

Roots == {"folder", "trash"}

Nothing == [cursor |-> 0, anchor |-> 0, paths |-> {}]
Idle == [kind |-> "Idle", index |-> 0, merge |-> "Replace", baseline |-> Nothing]

Listing(files, up) == SetToSortSeq(files, LAMBDA x, y : IF up THEN x < y ELSE x > y)
Position(f, es) == IF \E i \in DOMAIN es : es[i] = f THEN CHOOSE i \in DOMAIN es : es[i] = f ELSE 0
FileAt(i) == IF i \in DOMAIN rows THEN rows[i] ELSE -1

SelectionInit ==
    /\ root = "folder"
    /\ present \in [Roots -> SUBSET ListedFiles]
    /\ rows = Listing(present["folder"], TRUE)
    /\ complete = TRUE
    /\ ascending = TRUE
    /\ reading = FALSE
    /\ sel = Nothing
    /\ pointer = Idle
    /\ panicked = FALSE
    /\ rowChanges = 0

-----------------------------------------------------------------------------
(***************************************************************************)
(* SelectionState.  index is a row.                                        *)
(***************************************************************************)
Only(index) == [cursor |-> index, anchor |-> index, paths |-> {rows[index]}]

Toggled(index) ==
    [cursor |-> index, anchor |-> index,
     paths |-> IF rows[index] \in sel.paths THEN sel.paths \ {rows[index]} ELSE sel.paths \union {rows[index]}]

\* anchor.or(cursor).unwrap_or(index)
RangeAnchor(index) == IF sel.anchor # 0 THEN sel.anchor ELSE IF sel.cursor # 0 THEN sel.cursor ELSE index

\* extend_to_with_mode: entries[start..=end] panics when the anchor is no row
Extend(index, additive) ==
    LET anchor == RangeAnchor(index) IN
    IF anchor > Len(rows)
    THEN panicked' = TRUE /\ UNCHANGED sel
    ELSE /\ sel' = [cursor |-> index, anchor |-> anchor,
                    paths |-> {rows[i] : i \in (anchor .. index) \union (index .. anchor)}
                                \union (IF additive THEN sel.paths ELSE {})]
         /\ UNCHANGED panicked

\* apply_indices
Applied(baseline, hits, merge, cursor) ==
    LET paths == {rows[i] : i \in hits \intersect DOMAIN rows}
        at == IF cursor \in DOMAIN rows THEN <<cursor, cursor>>
              ELSE IF merge = "Replace" THEN <<0, 0>> ELSE <<baseline.cursor, baseline.anchor>>
    IN  [cursor |-> at[1], anchor |-> at[2],
         paths |-> CASE merge = "Replace" -> paths
                     [] merge = "Union" -> baseline.paths \union paths
                     [] merge = "Toggle" -> (baseline.paths \ paths) \union (paths \ baseline.paths)]

\* retain_existing, once the rows are es
Retained(s, es) ==
    LET cursor == IF s.cursor > Len(es) THEN Len(es) ELSE s.cursor IN
    [cursor |-> cursor,
     anchor |-> IF s.anchor > Len(es) THEN cursor ELSE s.anchor,
     paths |-> s.paths \intersect ToSet(es)]

-----------------------------------------------------------------------------
(***************************************************************************)
(* Mouse and keyboard.                                                     *)
(***************************************************************************)
Runs == ~panicked
Press(kind, index, merge) == pointer' = [kind |-> kind, index |-> index, merge |-> merge, baseline |-> sel]
PlaceUnchanged == UNCHANGED <<rows, complete, present, root, ascending, reading, rowChanges>>

\* select_from_click: plain, with Ctrl, with Shift, with both
Click(index) ==
    /\ Runs /\ pointer.kind \in {"Idle", "RowArmed"}
    /\ pointer' = Idle
    /\ \/ sel' \in {Only(index), Toggled(index)} /\ UNCHANGED panicked
       \/ \E additive \in BOOLEAN : Extend(index, additive)
    /\ PlaceUnchanged

\* arm_row_drag
PressRow(index) ==
    /\ Runs /\ pointer = Idle
    /\ Press("RowArmed", index, "Replace")
    /\ PlaceUnchanged /\ UNCHANGED <<sel, panicked>>

\* handle_file_drag_move: a row that was not selected is dragged alone
StartDrag ==
    /\ Runs /\ pointer.kind = "RowArmed"
    /\ pointer' = [pointer EXCEPT !.kind = "FileDrag"]
    /\ sel' = IF FileAt(pointer.index) \in pointer.baseline.paths \/ pointer.index > Len(rows)
              THEN sel ELSE Only(pointer.index)
    /\ PlaceUnchanged /\ UNCHANGED panicked

\* begin_rubber_band
PressSpace(merge) ==
    /\ Runs /\ pointer = Idle
    /\ IF rows = << >>
       THEN /\ sel' = IF merge = "Replace" THEN Nothing ELSE sel
            /\ UNCHANGED pointer
       ELSE /\ Press("RubberBand", 0, merge)
                    /\ UNCHANGED sel
    /\ PlaceUnchanged /\ UNCHANGED panicked

\* finish_rubber_band: the band covered rows, or the pointer hardly moved
ReleaseBand ==
    /\ pointer.kind = "RubberBand"
    /\ \/ \E i, j \in DOMAIN rows : i <= j /\ \E end \in {i, j} :
            sel' = Applied(pointer.baseline, i .. j, pointer.merge, end)
       \/ sel' = Applied(pointer.baseline, {}, pointer.merge, 0)
       \/ sel' = IF pointer.merge = "Replace" THEN Nothing ELSE pointer.baseline

\* finish_pointer_interaction
Release ==
    /\ Runs /\ pointer # Idle
    /\ pointer' = Idle
    /\ \/ pointer.kind = "RowArmed" /\ UNCHANGED sel
       \/ pointer.kind = "FileDrag" /\ sel' = pointer.baseline
       \/ ReleaseBand
    /\ PlaceUnchanged /\ UNCHANGED panicked

\* drop_internal: the files go, the selection stays
Drop ==
    /\ Runs /\ pointer.kind = "FileDrag"
    /\ pointer' = Idle
    /\ PlaceUnchanged /\ UNCHANGED <<sel, panicked>>

\* cancel_pointer_interaction
CancelPointer ==
    /\ Runs /\ pointer # Idle
    /\ pointer' = Idle
    /\ sel' = pointer.baseline
    /\ PlaceUnchanged /\ UNCHANGED panicked

\* move_cursor
Moved(delta) ==
    LET current == IF sel.cursor # 0 THEN sel.cursor ELSE IF delta < 0 THEN 2 ELSE 1
        moved == IF current + delta < 1 THEN 1 ELSE current + delta
    IN  IF moved > Len(rows) THEN Len(rows) ELSE moved

MoveCursorBy(delta, extend) ==
    /\ Runs
    /\ IF rows = << >> THEN sel' = Nothing /\ UNCHANGED panicked
       ELSE IF extend THEN Extend(Moved(delta), FALSE)
       ELSE sel' = Only(Moved(delta)) /\ UNCHANGED panicked
    /\ PlaceUnchanged /\ UNCHANGED pointer

\* toggle_selection, select_all_entries, Escape
SelectKey ==
    /\ Runs
    /\ \/ sel.cursor \in DOMAIN rows /\ sel' = Toggled(sel.cursor)
       \/ sel' = [cursor |-> IF rows = << >> THEN 0 ELSE 1, anchor |-> IF rows = << >> THEN 0 ELSE 1,
                  paths |-> ToSet(rows)]
       \/ sel' = Nothing
    /\ PlaceUnchanged /\ UNCHANGED <<pointer, panicked>>

-----------------------------------------------------------------------------
(***************************************************************************)
(* The rows change.                                                        *)
(***************************************************************************)
\* load_directory puts back what the pointer had changed
Restored == IF pointer = Idle THEN sel ELSE pointer.baseline

\* load_directory of the folder that the snapshot names: the rows stay
Reload ==
    /\ root' = "folder"
    /\ sel' = Restored
    /\ UNCHANGED <<rows, complete>>

\* load_trash
ReloadTrash ==
    /\ root' = "trash"
    /\ sel' = Nothing
    /\ UNCHANGED <<rows, complete>>

\* a refresh, a finished operation, Back and Forward between folder and trash;
\* the snapshot keeps the folder's path while the trash is shown
Load ==
    /\ Runs
    /\ pointer' = Idle /\ reading' = TRUE
    /\ Reload \/ ReloadTrash
    /\ UNCHANGED <<present, ascending, panicked, rowChanges>>

\* load_directory of another folder, whatever it holds
OpenFolder ==
    /\ Runs
    /\ pointer' = Idle /\ reading' = TRUE
    /\ root' = "folder"
    /\ \E fs \in SUBSET ListedFiles : present' = [present EXCEPT !["folder"] = fs]
    /\ rows' = << >> /\ complete' = FALSE
    /\ sel' = Nothing
    /\ UNCHANGED <<ascending, panicked, rowChanges>>

\* a phase of the scan: the cursor follows its file, and takes the anchor along
TakeScan ==
    /\ Runs /\ reading /\ root = "folder"
    /\ rows' = Listing(present["folder"], ascending)
    /\ \E last \in BOOLEAN : complete' = last /\ reading' = ~last
    /\ LET kept == Retained(sel, rows')
           at == Position(FileAt(sel.cursor), rows')
       IN  sel' = IF at = 0 THEN kept
                  ELSE [kept EXCEPT !.cursor = at, !.anchor = IF @ = 0 THEN 0 ELSE at]
    /\ UNCHANGED <<present, root, ascending, pointer, panicked, rowChanges>>

\* the scan of a folder fails
LoseScan ==
    /\ Runs /\ reading /\ root = "folder"
    /\ reading' = FALSE
    /\ UNCHANGED <<rows, complete, present, root, ascending, sel, pointer, panicked, rowChanges>>

\* the result of load_trash replaces the rows and leaves the selection
TakeTrash ==
    /\ Runs /\ reading /\ root = "trash"
    /\ reading' = FALSE
    /\ \/ rows' = Listing(present["trash"], ascending) /\ complete' = TRUE
       \/ rows' = << >> /\ UNCHANGED complete
    /\ UNCHANGED <<present, root, ascending, sel, pointer, panicked, rowChanges>>

\* toggle of the sort and apply_sort_to_snapshot
Sort ==
    /\ Runs
    /\ ascending' = ~ascending
    /\ IF complete
       THEN /\ rows' = Listing(ToSet(rows), ascending')
            /\ sel' = [sel EXCEPT !.cursor = Position(FileAt(@), rows'), !.anchor = Position(FileAt(@), rows')]
            /\ UNCHANGED <<pointer, reading, complete, root>>
       ELSE /\ pointer' = Idle /\ reading' = TRUE
            /\ IF root = "folder" THEN Reload ELSE ReloadTrash
    /\ UNCHANGED <<present, panicked, rowChanges>>

\* a batch of the folder's watcher, one file at a time
WatcherApplies(f) ==
    /\ Runs /\ root = "folder"
    /\ (f \in present["folder"]) # (f \in ToSet(rows))
    /\ rows' = Listing(IF f \in present["folder"] THEN ToSet(rows) \union {f} ELSE ToSet(rows) \ {f}, ascending)
    /\ sel' = Retained(sel, rows')
    /\ UNCHANGED <<complete, present, root, ascending, reading, pointer, panicked, rowChanges>>

\* another program adds or removes a file
FileChanges(place, f) ==
    /\ Runs /\ rowChanges < MaxRowChanges
    /\ rowChanges' = rowChanges + 1
    /\ present' = [present EXCEPT ![place] = IF f \in @ THEN @ \ {f} ELSE @ \union {f}]
    /\ UNCHANGED <<rows, complete, root, ascending, reading, sel, pointer, panicked>>

-----------------------------------------------------------------------------
UserSelects ==
    \/ \E index \in DOMAIN rows : Click(index) \/ PressRow(index)
    \/ \E merge \in {"Replace", "Union", "Toggle"} : PressSpace(merge)
    \/ StartDrag \/ Release \/ Drop \/ CancelPointer
    \/ \E delta \in {-1, 1}, extend \in BOOLEAN : MoveCursorBy(delta, extend)
    \/ SelectKey

RowsAreRead ==
    \/ Load \/ OpenFolder \/ TakeScan \/ LoseScan \/ TakeTrash \/ Sort
    \/ \E f \in ListedFiles : WatcherApplies(f) \/ \E place \in Roots : FileChanges(place, f)

SelectionSpec == SelectionInit /\ [][UserSelects \/ RowsAreRead]_selectionVars

\* README.md:50: "`Shift+Up` / `Shift+Down` | Extend selection".  A range is
\* taken from rows that exist, whatever replaced the rows since the anchor was
\* set; otherwise extend_to_with_mode indexes beyond the entries and panics.
RangeStaysInRows == ~panicked
=============================================================================
