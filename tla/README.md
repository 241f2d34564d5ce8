# gnil-fm: specifications of its concurrent core

gnil-fm is a file manager for Linux/Wayland written in Rust. Its user interface is one thread that
must never block; every copy, move, scan, preview or portal request runs elsewhere and comes back as
an event, a completion or a finished task. This directory models that boundary and the file operations
behind it: the TLA+ modules keep the control of the code (every guard, early return, error path and
the order of the steps), TLC checks them on small instances, and TLAPS proves the theorems for all
values of the constants. Paths below are relative to the repository's `crates/` unless they name a
document.

## 1. Inventory

| Component | Source | State | Operations | Hard behaviour | What makes it correct |
|---|---|---|---|---|---|
| Task scheduler | `gnil-fs/src/scheduler.rs` | priority queue, `shutdown`, worker threads; per job `cancelled`, `paused`, `started`, `decision`, two channels | submit, worker loop, Drop | mutex + condition variables, a flag stored without the mutex, two sends per end of job, Drop against everything | each task runs once, no wakeup is lost, Drop settles every job and returns |
| Job control | `gnil-fs/src/scheduler.rs`, `gnil-core/src/job.rs` | see above | pause, resume, cancel, respond; checkpoint, state, request | callers and the worker interleave inside one call | a job cancelled in the queue never starts, an answer reaches its prompt |
| Operation coordinator | `gnil-app/src/operation_center.rs` | records, order, snapshots, undo stack, `polling` | enqueue, enqueue_undo, poll, finish, dismiss, clicks | polls channels each 50 ms while workers send | what a snapshot shows is what happened; undo records are kept, once |
| Job bodies | `gnil-fs/src/operation/job_execution.rs` | the tree, prepared totals, partial outcome | copy, move, delete, trash, restore, purge, and their undo | cancellation, prompts, retries and other processes between any two system calls | no data is lost, a body reports what it did, undo only what it did |
| File operations | `gnil-fs/src/operation.rs`, `fingerprint.rs`, `secure_fs.rs` | the folder | bulk rename, chmod, staged replacement, quarantine, undo | a step fails halfway, other processes change files | nothing is lost or overwritten; rollback restores |
| Archive extraction | `gnil-fs/src/archive.rs` | staging entries, committed outputs | preflight, extract, commit, roll back | one output of several cannot be committed | all or nothing, nobody else's entry is touched |
| Directory loading and watching | `gnil-app/src/file_manager/loading.rs`, `directory_watcher.rs`, `gnil-fs/src/{watcher,scan}.rs` | `generation`, snapshot, `loading`, watcher, pending changes | load_directory, results, watch events, batches, incremental apply | stale results, events from an older watcher, timers | only results of the current load are shown; external changes show up in the end |
| Preview requests and cache | `loading.rs` 803-925, `gnil-preview/src/{cache,lib}.rs` | preview generations, request path, memory cache | schedule, load, result, toggle | debounce, cancellation, stale results | the preview shown is that of the cursor |
| Selection | `gnil-core/src/selection.rs`, `gnil-app/src/file_manager/{interaction,rubber_band}.rs`, `pointer_interaction.rs` | paths, cursor and anchor indices, a baseline | clicks, ranges, drags, rubber band | the rows change underneath | an index is a row |
| Search | `gnil-fs/src/search.rs`, `gnil-app/src/file_manager/file_search.rs` | session, generation, results, closing animation | type, scope, dismiss, result | sessions overtake each other | the hits are those of the text in the field |
| Devices | `gnil-fs/src/devices.rs`, `gnil-app/src/device_refresh.rs` | refresh gate, deadlines, monitor | request, finished, tick | coalescing, retry | a reported change is shown |
| FileChooser portal, picker | `gnil-app/src/portal_*.rs`, `bin/portal.rs`, `picker.rs`, `picker/` | requests, permits, request objects, picker windows | OpenFile, SaveFile(s), Close, answer, timeouts | answer, close and timeout race; a handle is used again | one true response per request, permits come back |
| Tab history | `gnil-core/src/tab.rs` | two stacks and the root | navigate, back, forward, trash | - | the path a load goes to |
| FileManager1 service | `gnil-app/src/file_manager_service.rs` | - | ShowFolders, ShowItems, ShowItemProperties | - | one window per directory |
| Main window, menus, actions, settings | `gnil-app/src/file_manager.rs`, `file_manager/operations.rs`, ... | what is displayed | event handlers | - | - |
| Trash view, Git, MIME, open with, clipboard, themes | see `PROJECT.json` | - | - | pure input and output | - |
| GUI toolkit | `gnil-gpui` (a fork of GPUI) | - | - | - | taken as given: foreground tasks run one at a time |

Interaction: the main window and the operation windows call the coordinator; the coordinator owns a
`TaskScheduler` with one worker and holds a `JobHandle` per job (a controller, an event channel, a
completion channel). The worker runs the body, which reports through its `JobContext` to the same
channels and works on the file system, which other processes change too. Loads, previews, searches and
device scans are background tasks of the window: they share nothing with it but a flag to cancel them
and a channel or a closure to come back, and each window compares a generation to tell late results. The
portal is a process of its own: D-Bus calls and picker windows share a bounded queue of commands and
three channels per call.

## 2. Modules

| Module | Models |
|---|---|
| `JobLifecycle` | what the scheduler promises: submit, claim, begin, skip or end, close |
| `TaskScheduler` | `scheduler.rs` in full, and job bodies as the sequence of calls they make |
| `OperationCoordinator` | `operation_center.rs` on top of `TaskScheduler` |
| `FileJobs` | `job_execution.rs` with the parts of `operation.rs`, `secure_fs.rs` and `fingerprint.rs` it calls, and the undo of its jobs |
| `FileTransactions` | bulk rename, single rename and permissions of `operation.rs`, their rollback and undo |
| `ArchiveExtraction` | `extract_archives` of `archive.rs` |
| `DirectoryView` | `loading.rs` 1-260, `directory_watcher.rs`, `scan.rs`, `watcher.rs` and the commands that load |
| `PreviewRequests` | the preview panel and the memory cache |
| `FileSearch` | the search field and its background walks |
| `DeviceRefresh` | monitor, refresh gate, retry and reconciliation of the devices |
| `PortalService` | D-Bus calls, quota, request objects, command loop and picker windows |
| `Selection` | selection, presses, drags and rubber bands against changing rows |
| `MCTaskScheduler`, `MCOperationCoordinator`, `MCDirectoryView`, `MCFileOperations`, `MCDesktop` | the instances TLC checks |
| `TaskScheduler_proofs` | the scheduler's theorems; that it implements `JobLifecycle`, and that `Drop` settles every job |
| `OperationCoordinator_proofs` | the coordinator's theorems, on top of the scheduler's |
| `FileTransactions_proofs` | renames lose nothing; a batch of renames or permissions is all or nothing; an undo that succeeds restores |
| `FileJobs_proofs` | no job loses data, and none leaves anything hidden behind |
| `FileJobsOutcome_proofs` | the outcome of an undisturbed job is true, sources it does not name are whole, an undo that succeeds restores |
| `ArchiveExtraction_proofs` | the batch of archives is all or nothing, and its outputs are whole |
| `PortalService_proofs` | the quota is exact, answers are true |
| `DirectoryView_proofs` | the view's theorems |

### TaskScheduler

One variable per piece of shared state, named after the field where there is one (`cancelled`,
`paused`, `started`, `decision`, `shutdown`). `pc[w]` is what worker `w` does next and `job[w]` the
task in its hands. The granularity is that of the locks: what happens under a mutex is one step and
each send on a channel is one step, while these are apart, because the code lets something in between:

* `submit`: ticket and `Queued` event, then the push and `notify_one` (`SubmitTicket`, `SubmitPush`);
* `cancel` and `Drop`: the store of the flag, then the notification (`Cancel`, `CancelNotify`,
  `DropCancel`, `DropNotify`), neither under the mutex of the job;
* `worker_loop`: the pop, the look at `cancelled`, `started = true`, the state event (`Pop`,
  `SkipCancelled` or `Accept`, `Start`, `SendState`); the terminal event, then the completion
  (`Terminate`, `Complete`);
* `checkpoint` and `request`: the check that decides to wait, then the wait (`Checkpoint`,
  `AwaitDecision`, then `Wait`). Between the two the mutex is held, which `ControlFree` says: pause,
  resume and respond stay out, cancel does not;
* `JobContext::state`: `paused` is read under the mutex, the event is sent later (`Report`,
  `SendState`).

`drop.missed` is history: the jobs whose worker was on its way into a wait when `Drop` notified it. Only these
excuse a `Drop` that does not return.

Condition variables may wake spuriously (`SpuriousWakeup`). A body reports Preparing, then Running,
checks in as often as it likes, raises at most `MaxPrompts` prompts and returns; undo jobs only
return. Prompts are numbered, and a decision carries the number of the prompt its sender had seen:
the code has no such number, and no guard of the model reads it.

Left out: Progress and Message events (display only), and the difference between WaitingForConflict
and WaitingForError, which no reader makes.

### OperationCoordinator

Its handlers run on the UI thread one at a time (`ui`), but the worker runs between the steps of
`poll` (`PollTimer`, then for each record `ApplyEvent`, `Drained`, `Receive`, then `Finish` and
`EndPoll`), because `try_iter` and `try_recv` are separate looks at live channels. Clicks are possible
when `render` shows the button: pause, resume and cancel on an active record without a prompt, the
decision buttons while a prompt is shown, also again before the next poll. An undo record is named by
the job that yielded it; `undoes` is the record an undo job captured and `reserved` its
`reserved_undo`. One way to lose a record is excepted by name (`ClosedUnheard`): the poll stops at the
terminal event of a failed undo, and the user dismisses it before its completion is received. Left out: windows, titles, progress, rates, queue positions, quitting.

### DirectoryView

The window starts a scan, and sometimes a watcher, under each new `generation`; closures that come
back compare theirs with the current one. The tasks are therefore functions of the generation that
started them: `scans[g]` (thread and bounded channel), `watchers[g]` (creation in the background, the
unbounded channel of events, the event loop), `applies[g]` (entries a batch re-reads) and `timers`.
`LoadDirectory` is `load_directory` in full, with the watcher it asks for and both roots; every
handler that ends in `load_directory` is an action that uses it, the batch and its late results
included. Each closure given to `this.update` is one step. In the background the listing of a folder,
the metadata of one entry, the creation of the watcher and the reading of one entry of a batch are one
step each, and other programs change the folder between any two of them (`External`).

The rows are numbers: a name is absent, known without metadata, unreadable, or shows the version of
the file that some read found. Every external change makes a new version, so a stale row is one whose
version is not the disk's. A scan skips items it cannot read, and any entry may turn out unreadable when its
metadata is asked for, also one that exists; neither is tried again. `blind` is a history variable: the names
the last load skipped or could not read, and those changed since when no watcher of the current generation was
there to report it. No guard reads it.

A watcher whose event loop met another generation is `deaf`: it is kept by the code, so the next load of
the same folder makes no new one, but nobody reads its channel, and the model drops its events.
A batch timer that finds a load or a batch running is set again, which changes nothing but the
clock: in the model `FireBatch` waits. `notify` may report a rename as two events; these are the
`remove` and the `upsert` of the model.

Left out: the order of rows, selection and reveal, previews, Git status, devices (a device's folder is
loaded like any folder), history (back, forward and up are `Go` or `OpenTrash`), and what
notify does when its own queue overflows.

### FileJobs

`tree` maps each existing path to its inode and data (a path has the folder, a name and, in a copied
folder, a child), `job` is what the body of the job knows, `info` the `.trashinfo` files. A job takes
its sources one by one; each system call that changes the tree is a step, and so are each checkpoint
that may see the cancellation, each prompt and its answer (Retry, Skip, Replace, KeepBoth, Cancel).
Between any two of them another process writes or removes at `ForeignPlaces`, and any call may fail.
Copies go to a staging name first and are renamed when complete; a move across devices (`split`) copies
and then removes; a replacement goes through the exchange of names of `commit_staged_replacement`.
At most `MaxFaults` calls fail by themselves; but the error of the removal of something hidden is dropped by the
code, and as its cause may last, such a removal may also fail after the first fault (`Cleared`). What stays
then is recorded in `litter`. Two more history variables: `kept` is the data that no user gave up, `over` what the
job had brought to its place itself and then replaced by less. Special files, which a restore across devices
silently drops (`operation.rs:869`), are not modelled. The undo is the one the outcome's record
would run: fingerprints, quarantine, then removal; or the moves back.
The number of a name is that of its copies; sources in `src` have the number 0, so that two of them are
never asked to go to one place, while the trash may hold several entries from one place.

### FileTransactions

`dir` maps names and temporary names to inodes, `mode` has their permissions. A batch renames each
entry to a temporary name, then each to its new name, and on an error or a cancellation goes back the
same way (`StageOne`, `CommitOne`, `Unrename`, `Unstage`). `set_permissions` changes entry by entry after
a check of all identities, and rolls back (`PreflightChmod`, `ChmodOne`, `Unchmod`). `undo` runs the same
loops on the recorded pairs (`UndoBatch`). The intruder creates, removes, renames and chmods entries under
visible names. `alive`, `touched` and `before` are history.

### ArchiveExtraction

A batch of archives is read through (`preflight`: the entry limit, unsafe paths and links, clashes), staged,
and committed one output at a time with `rename_noreplace` (to the first free name for KeepBoth);
any error rolls the committed outputs back to their staging names and removes these. `dest` records the
owner of each entry, so that taking another's is visible. An archive is its list of entries. The cleanup may
fail to remove a staging entry, which the code does not report (`left`), and the rollback takes back whatever
has the name of a committed output by then (`seized`): both are history, and what the properties except.

### PreviewRequests, FileSearch, DeviceRefresh

Each has its background tasks as a function of the generation that started them, like `DirectoryView`:
`previewers` with the debounce `pauses`, `searchers` with the `closers` of the closing animation, and the
one `scan` the gate lets run. A closure that comes back to the window is one step, and so is each timer
that fires. Content is a version: of a file that others write, of the set of devices. The cache is the
list of keys with its least recently used entry first. Rows may be replaced (`RowsChange`), or move under the
cursor's number without any request (`RowsShift`, a batch of the watcher): `PreviewFollowsCursor` excepts the
second by name (`unasked`), until a file is asked for again.

### PortalService

`calls[r]` is where `run_request` and `await_picker` of a call are (`publish`, `open`, `startup`, `closing`,
`waiting`, `unpublish`, `return`) with the three channels it reads; `uiQueue` is the bounded queue to the
thread of the windows, `windows` its map from handle to window and `pickers` the windows alive. Answer,
Close, startup timeout and answer timeout are separate steps, and a handle may be used again when its
request object is gone. `said` is a history variable.

### Selection

Rows are a sequence of files, `sel` is `SelectionState` with cursor and anchor as row numbers (0 is
None), `pointer` the press with its baseline. Rows are replaced by a scan (which calls `retain_existing`),
by the trash (which does not), by a new order and by the watcher's batches.

## 3. Runs

| Run | Instance | Shows |
|---|---|---|
| `scheduler_control` | 1 worker, 1 operation with 2 prompts, fair | `SchedulerTypeOK`, `NoLostWakeup`, `CancelledInQueueNeverStarts`, `QueueIsServed`, `AnswerIsTaken`, `DropReturns` |
| `scheduler_pool` | 2 workers, an operation and an undo job of higher priority | `SingleExecution`, `DropSettlesEveryJob`, `ImplementsLifecycle` |
| `coordinator_order` | two operations, or one that is undone and perhaps undone again | `UndoRecordsAreKept`, `RunsInOrder` |
| `coordinator_poll` | 1 operation (1 prompt, pauses), 1 undo job, fair | `CoordinatorTypeOK`, `FinishedShowsResult`, `ActiveKeepsPolling`, `PollDelivers` |
| `view_changes` | 1 folder, 2 names (1 hidden), 2 loads, 2 changes (removals, renames, the folder itself), entries that are skipped or cannot be read | `SettledRowsAreFresh`, `BatchFlagsAreOwned` |
| `desktop` | the view of a folder, portal, devices, preview, search, fair | `ViewTypeOK`, `LoadedRowsAreOfTheTab`, `QuotaIsExact`, `AnswerIsTrue`; `LoadEnds`, `ReportedChangeIsShown`, `RequestEnds`, `DeviceChangeIsShown`, `PreviewFollowsCursor`, `SearchIsAnswered` |
| `file_operations` | a job of 2 sources, a batch of 2 entries, or an extraction of 2 archives | `NoDataIsLost`, `NoLeftovers`, `PutOverOnlyAgain`, `OutcomeIsTrue`, `UnlistedSourcesAreWhole`, `UndoRestores`; `RenamesLoseNothing`, `FailedBatchIsUndone`, `FailedChmodIsUndone`, `UndoneMeansRestored`; `EntriesOfOthersStay`, `FailedExtractionLeavesNothing`, `OutputsAreWhole` |
| `scheduler_cancel` | 1 worker, 1 job, fair | **violated**: `CancelEndsJob` |
| `coordinator_lost_outcome` | 1 operation, fair | **violated**: `OutcomeIsReceived` |
| `coordinator_stale_answer` | 1 operation with 2 prompts | **violated**: `DecisionAnswersItsPrompt` |
| `view_deaf_watcher` | 1 folder, 1 refresh, 1 change, fair | **violated**: `WatchedFolderIsRefreshed` |
| `selection_panic` | 3 files, 1 change | **violated**: `RangeStaysInRows` |

`MCDesktop` and `MCFileOperations` put parts that share no state beside each other: `part` and `body` say
which of them runs, and the others stay in an idle state in which none of their steps is enabled, so that
the fairness of each part is the one stated in its module.

What the violated ones show:

* `CancelEndsJob` (README "cancellable priority scheduler"): `cancel` stores the flag and notifies
  without the mutex. A worker that has seen `cancelled = false` in `checkpoint` or `request` and has
  not entered the wait misses the notification; the job stays cancelled and waiting. `Drop` has the
  same window and then joins a thread that never ends, which is why `DropReturns` excuses it, and it alone.
* `OutcomeIsReceived` (ARCHITECTURE "Mutations ... return an optional undo record"): the worker sends
  the terminal event and the completion separately. A poll between the two finds every snapshot
  terminal and stops; `finish` is never called, so the undo record is lost, unless another operation
  starts the poll again. (An undo that failed loses the record it had reserved in the same way, if it is
  dismissed then: `UndoRecordsAreKept` excepts that.) `PollDelivers` is what does hold: it speaks of a poll that is still alive.
* `DecisionAnswersItsPrompt` (README "never overwritten without an explicit conflict decision"): the
  second click on the buttons of a prompt is stored and taken by the next `request`.
* `WatchedFolderIsRefreshed` (ARCHITECTURE "refreshes the current directory after external or
  successful local changes"): a reload of the folder that is already watched keeps the watcher, and
  its event loop, started with the old generation, ends at the next event. From the first refresh or
  finished operation on, external changes are not shown until another folder is opened.
  `ReportedChangeIsShown` is what does hold: it speaks of the event loop of the current generation. The
  picker's copy of the watcher has the same gap.
* `RangeStaysInRows` (README "Extend selection"): the result of a trash scan replaces the rows and keeps
  cursor and anchor; Shift+Arrow then slices the new rows with the old anchor and panics.

Three properties of the modules state more than the code keeps, and no run includes them:
`RestoredIsWhole` (`FileJobs`: a replacing restore that fails while it removes the trashed source and is
retried replaces the restored folder by what is left, `operation.rs:535`; and of two entries trashed from one
place, restored together with Replace, the second replaces the first and both are listed; `OutcomeIsTrue` excepts
these cases and that of a source listed twice, which is copied, not wholly removed, and moved again with what is
left of it, by name: `ReplacedAgain` and `OnePlace`; the data that is gone then is `over`, which `NoDataIsLost`
excepts, and `PutOverOnlyAgain` says that it happens in these cases only), `EveryFileIsExtracted`
(`ArchiveExtraction`: `single_directory_root` takes one root of a set, so a file beside a folder may lose its
whole path, `archive.rs:575`), `CachedPreviewIsOfItsKey` (`PreviewRequests`: `cache.rs:91` reads the key again
after the preview was made). The properties that do hold except exactly these cases by name.

Other divergences met while modelling, which no property states:

* a pause whose event is sent after a prompt removes the prompt from the snapshot, and resume does not
  bring it back (`operation_center.rs:483`); the record of a failed undo goes on top of records that came
  meanwhile (`operation_center.rs:538`);
* scan and watcher start side by side, and what changes after the scan read it and before the watcher
  was added is seen by neither (`directory_watcher.rs:26`), nor is an entry that the scan skipped or could not read
  (`scan.rs:90`, `scan.rs:156`) read again; `SettledRowsAreFresh` excepts exactly these names, `blind`; ARCHITECTURE says that rows are not patched from events and that batches wait 100 ms, while
  `apply_watcher_changes` patches them after 25 ms;
* the undo of a copy deletes what another process added to the copied folder before the job ended
  (`job_execution.rs:408`), and, when the copy merged into a folder, also what that folder held before
  (`job_execution.rs:403`): `GivenUp` counts both as given up; the undo of a move across devices always fails; undo of permissions or of several
  moves stops halfway (`operation.rs:628`); an error at `fingerprint.rs:59` leaves earlier trees in quarantine (`AsideFails`);
  `commit_staged_replacement` reports where the old destination was kept, and its caller removes it
  (`operation.rs:893`); a staging tree whose removal fails stays without a word (`job_execution.rs:698`,
  `archive.rs:704`: an archive with a folder that may not be written to, whose mode is set before a
  cancellation; `NoLeftovers` and `FailedExtractionLeavesNothing` except `litter` and `left`); the rollback of an
  extraction takes whatever now has a committed name, and the cleanup deletes it (`archive.rs:681`; `seized`); Retry after a failed identity check deletes the changed path (`job_execution.rs:900`);
* a batch of the watcher keeps the cursor's number while rows move, so Enter opens another file
  (`directory_watcher.rs:168`) and the preview stays that of the file before (`RowsShift`); the cached drag payload may be that of an older selection
  (`interaction.rs:185`);
* a search dismissed and reopened within 80 ms shows the old text without its results; a scope chosen during
  the closing animation drops the result and loads for ever (`file_search.rs:177`); Ctrl+F in the trash moves
  an open search to Home without searching (`file_search.rs:45`);
* after a refresh, and after a failed preview, the panel stays as it is until the cursor moves
  (`loading.rs:911`); a device monitor that ends is not restarted (`device_refresh.rs:46`);
* opening an operation window reads the coordinator inside its own update (`operation_center.rs:395`,
  `gnil-gpui/src/app.rs:926`, `entity_map.rs:138`), which panics; see section 6.

### Bounds

`MaxPrompts` bounds the prompts of one body: one is enough for a wait, two for an answer that is
taken by the wrong prompt. `MaxEvents` stops pause and resume while that many events wait in a
channel; nothing else is limited, so the channel still holds every event of the worker. With
`Buffered = FALSE` the holder of a handle empties its channels at once: the scheduler's own properties
do not read them. Two jobs suffice to compete for a worker, two workers for a task; the undo stack
needs one operation and two undo jobs to fail, return and be taken again. Each job is submitted once.

In `DirectoryView`, `MaxGen` bounds the loads, of which two overtake each other, and `MaxChanges` the
changes: two let a name change before and after the batch or the scan that reads it. `desktop` has no event
that asks for a reload: the last generation could not serve it, and the bound would look like a lost change.
In `view_changes` a name is removed, or renamed, which takes one away and makes or replaces the other, or an
event names the folder itself; the second load is the user's (a folder, the trash, a refresh, a toggle of what is
hidden), or follows such an event or a failed read. In `desktop` a name is written or removed, the watcher reports
errors, and the user goes to the trash or refreshes.
`HideGitignored = FALSE` in all runs: with it each batch is a reload, which events without a path also cause.

In `file_operations` each body has two sources, entries or archives: a failure may come before the first,
between the two and after the second. Only the move onto a folder that asks what to do has one: with a second
source it alone has 1.7 million states, and two sources meet the same question in the move onto two files and
a fixed merge in the move onto a folder. One move lists a source twice (`OnePlace`). The other process takes two steps (`OtherData`, `MaxIntrusions`,
`MaxVisits`), which is one to take a name and one to free it, and one call fails (`MaxFaults`, `MaxFailures`,
`MaxBreaks`); `MaxNodes` numbers enough inodes and enough copies of a name, jobs go from one folder to
another (from `src` or the trash), and `MaxEntries` = 4 is the code's own limit made small enough
to be met. The run has 2.3 million distinct states, `view_changes` 3.7 million. In `desktop`, two calls use one handle one after the other with a queue of one command; devices
change, fail and pass their deadlines twice; two previewed files, one place in the cache, three commands and
one write or failure; two texts and four strokes. The selection needs three rows for a range beyond the end
of fewer.

Deadlock is not checked: a system whose jobs are all done, or whose user does nothing, stops.

### Fairness

A worker thread that can take a step takes one (weak fairness of `Worker(w)`). It may not go round
checkpoints for ever while a report or a return is open to it (strong fairness of `Report` and
`Return`): a body does finitely many checkpoints. Client calls that were entered are left (`SubmitPush`,
`CancelNotify`), and so are the steps of Drop, except its beginning. In the coordinator the handlers
finish, and the 50 ms timer gets its turn between the user's clicks however many come (strong fairness
of `PollTimer`).

The other parts have one weak fairness each, over everything their executors, timers and threads do:
`Fairness` (background tasks and ready closures of the view), `PortalFairness` (zbus' executor, the command
loop, timers), `DeviceFairness` (the polling timer and scans; no deadline need pass, so what a signal reports
must not wait for the reconciliation), `PreviewFairness`, `SearchFairness`. One disjunction is enough because
each of these tasks ends after finitely many steps and new ones are only started by bounded commands, so
that none can be put off for ever. Users, callers, other programs and deadlines owe nothing anywhere.

## 4. Proofs

Each module of proofs states its inductive invariant in named parts. Constants are constrained only by the named assumptions of the module.

### Scheduler

Any jobs, any non-empty set of workers, any priorities and any bounds (`ConstantsAssumption`). `IInv` in
`TaskScheduler_proofs` is inductive. Its parts:

* `Holding`: a worker holds a job exactly at the program counters inside the loop body; a held task was
  popped, has no completion, and has no second holder. `SingleExecution` alone is not inductive: the
  pop needs that a queued task is in nobody's hands.
* `Waiting`: from the check to the end of the wait the reason to wait holds. `NoLostWakeup` needs the
  moment in between, when the mutex is held (`pauseHeld`, `askHeld`), and `ControlFree` in the guards of
  pause, resume and respond.
* `Progressing`, `Starting`, `Closing`: what is sent, what was started, how far Drop has come.

Theorems: `TypeCorrect`, `ExecutedOnce`, `WaitsForAReason` from `IInv` alone; `DropSettles` adds that
a popped task stays with a worker until its completion (`Owned`) and that exited workers stay so
(`Joined`); `RefinesLifecycle` maps the push, the pop, the start and the completion to the actions of
`JobLifecycle` and all else to stuttering.

### Coordinator

Any jobs, workers and bounds. `CInv` carries the scheduler's `IInv` and `Owned` along and adds:

* `Listed`: a job is in `order` at most once, and only after it was submitted; one submission runs at a time.
* `Answered`: what was sent as completion is a result, and an undo job never yields issues.
* `Polled`: in the middle of a poll, the ids still to be visited are records, and a record whose completion
  was received is announced or waits in `finished`, once.
* `UndoKept`: where the record of each undo job is. `UndoRecordsAreKept` alone is not inductive: it speaks of
  announced jobs between handlers, while records move from the stack to an undo job (`Pending`), through its
  completion and the poll, and back.
* `Told`: the last event of a job is its result (`EndsWithResult`). This is why a snapshot that shows a result
  cannot go back for good, although its channel may still hold events when the result is announced.

`PollingGoesOn` and `ResultStaysShown` follow from `CInv`, `CoordinatorTypes` and `UndoRecordsKept` from `CInv` and
one more layer, `Reports`: a result is told, and a record removed, only when the body has returned
(`Reporting`), undo jobs yield no record (`Yielding`), and what is on the stack is the record of an operation
(`Recorded`). This is what says that a failed undo was dismissed, and not one that still runs. `RunInOrder`
assumes `OneWorker` and `SamePriority`, which is what `OperationCoordinator` starts, and adds `InOrder`:
tickets grow along `order`, and a job that was popped has all before it completed.

### Renames

Any folder, batch, failures and intrusions (`FolderAssumption`). `NothingIsLost` needs only that a rename
moves one file into a free place. `BatchIsAllOrNothing` needs `BatchInv`, which says at each point of the four
loops which renames hold a temporary name (`Staged`) and which are committed (`Committed`), that a file under a
temporary name comes from its pair (`TempsOwned`) and that a file under a visible name is there by a committed
rename or has not moved (`NamesOwned`). Swaps and cycles are why both are needed: a name may be the source of
one pair and the target of another.

`FailedChmodIsUndoneAlways` adds `ChmodInv`: a file that no other process touched has its first mode, or an entry
that is applied and not yet taken back is about it (`ModesOwned`), and the entries know the modes to go back to
(`ModesKnown`).

`UndoneMeansRestoredAlways` adds `RestoreInv`. `BatchInv` says where the file under a name came from, which does
not say that no file is missing, so `Placed` goes the other way round: where the file of each name has gone.
`Origins` ties the undo to the operation before it (a file that moved has its pair reversed), `AtHome` says what
the operation leaves alone, `EntriesKnow` and `OthersHaveModes` are the same for permissions. Both operations drop
the pairs that change nothing. `Filtered` is that filter, by recursion along the sequence; that it keeps exactly
the pairs that change is proved with the least number, as for the archives below.

### Archives

Any batches of archives with any entries, any occupied names, failures and visits (`ArchiveAssumption`).
`ExtractionInvariant` proves `ExInv`, from which `EntriesOfOthersStay` and `FailedExtractionLeavesNothing`
follow, both with the exceptions their statements name. Neither is inductive: the rollback renames and removes by name, so the invariant says who owns what is
under each name. `Standing` counts plans, staging entries and outputs in each phase; `Staged` gives each
archive that was extracted its staging entry until it is committed; `Apart` keeps what others own away from
the names the rollback will touch; `Traced` says that an output is where the rollback and the cleanup look.

`OutputsAreWhole` needs `WholeInv` as well, with what each plan is (`Planned`) and what each staging entry
holds (`Contents`). The plan of an archive is defined along its entries and an entry's path along its
components. The library's induction theorems cannot be instantiated here, so the proofs take the least number
at which a claim fails (`LeastNumber`, from the well-foundedness of the natural numbers), once for the
existence of each function and once for its value. The first attempt at this proof failed for a reason: the
property was false for an archive whose only root is a file with entries below it, which loses that file. It now
excepts this archive by name, `EveryFileIsExtracted` is about it, and the run includes one (`Beneath`).

### Long jobs

Any operation, sources, trees of two levels, data, faults and steps of the other process
(`JobsAssumption`). `JobsInvariant` proves `JobsInv`, which gives `NoDataIsLost` and `NoLeftovers`. Alone
neither is inductive, since they say nothing of the half-made copy that is about to take a file's place:

* `FileTree`, `JobFits`, `JobStands`: a child has its folder, and what the body knows at each point.
* `Fresh`: what the other process is still to write is not there yet.
* `Held`: what the other parts speak of is the data of `kept` without `over`. An exchange that replaces what the
  job has brought before moves the difference to `over`, so that all parts go on to hold for less (`InvOfLess`).
* `Safe`: kept data is at a place the job does not remove (neither staging, nor chosen for deletion, nor in the
  source it is removing). `NoDataIsLost` follows.
* `Carried`: while a source that will be removed is copied, kept data is elsewhere, or has been copied, or waits
  in a child that is still to be copied. The commit of the copy turns this into `Safe`.
* `Tidy`: hidden names are in the staging tree, at the leaf being written, or in quarantine. `NoLeftovers`
  follows, with `Costly`: something in `litter` takes a fault.
* `Doubled`, `Listed`, `Compared`: what a copy has made holds no kept data that its sources do not hold, the
  fingerprints list no other, and a tree about to be destroyed is among the fingerprints. They are why the
  undo of a copy loses nothing.

Two steps of the proof could not be done with what the properties first excused, and TLC confirmed both
executions on instances that had been left out (a merging copy, a copy with Replace): the undo of a copy that
merged removes what the folder held before (`GivenUp`); and while a copy with Replace removes what it replaced,
what another process adds to the new copy is listed with it and goes with its undo, as it does later (`Promised`).

What a job promises of its outcome it promises while no other process interferes (`foreign` is 0). The outcome
compares the tree with that of the beginning (`first`), so `FileJobsOutcome_proofs` adds two invariants to `JobsInv`.
`JobsTold` follows every source until the job ends, and gives `OutcomeIsTrue` and `UnlistedSourcesAreWhole`:

* `Booked`: the sources before the present one are exactly the skipped and the affected ones.
* `Named`, `Gone`: a target has the base name of its source, and a source that is done is not there. Names tell
  apart what two sources go to; a second source of the same name finds the first target taken.
* `TargetsWhole`, `SourcesFine`: each target of a source that is done holds it as a whole, and each other source
  is whole, except the present one while it is removed.
* `Progress`: of the present source, what has been copied is in the work place, and the rest is in `walk` or is
  the leaf in hand. Its removal begins when the target is whole, which keeps the other parts true through it.

The two exceptions of the properties are where these parts fail: `ReplacedAgain` and `OnePlace`. The second one
came from the proof: a source that is listed twice was not in the instances, and TLC confirmed the execution.

`JobsReversible` gives `UndoRestores`. For a job that replaced and merged nothing, everything visible is as it was
at first but for what its records name: the copies that still stand, at places that were free (`CopyRule`), or,
for jobs that rename, the pairs not yet moved back, each with just what its source held (`MoveRule`; no two of
them share a place). It needs that a job that renames never begins a copy or a removal (`Tame`), and that the
undo of a move across devices does not end as done. When the undo is done no record is left, and `NoLeftovers`
says that nothing hidden is.

### Portal

Any calls, applications, handles and limits. `QuotaExact` counts the calls in progress. `AnswersAreTrue` needs
`PInv`: a call that may still send to its window owns its handle (`Owned`), its window is asked for once, and a
Close that will find it comes after the call has its outcome (`ClosesLater`, `WindowsOwn`); so a late Close of
an earlier call with the same handle cannot reach the window of a later one.

### Directory view

The constants are any folders other than the trash (`DirsAssumption`), any names, commands, failures
and kinds of change, and any bounds (`BoundsAssumption`, `FlagsAssumption`). The inductive invariant
is `VInv`. `BatchFlagsAreOwned` alone is not inductive, and its other parts say why it holds all the
same:

* `Calm`: between the request for a watcher and its installation nothing is pending. The step that
  installs the watcher makes `BatchFlagsAreOwned` speak of it, and must find the flags clear.
* `Local`: the batch of the current generation re-reads the folder that is shown. `DeliverApply` does
  not reset `watcher_apply_running` for a batch of another folder, so a batch of this generation
  must not be one.
* `Quiet`: in the trash no watcher listens, where a timer that fires leaves the flags as they are.
* `Ahead`: a generation that has not begun has no watcher and no batch to inherit.
* `Placed`: a running task knows its place, so that what it reads has the type of rows.

`LoadedRowsAreRight` adds `RInv`: the scan of the current generation reads the place the tab is at
(`Home`: tab and generation only change together, in `load_directory`), what is sent as complete has
its metadata (`Sent`), and so has what batches have read (`Reread`). With `Home`, the comparison
of generations alone keeps the rows of other places out.

`SettledRowsStayFresh` proves `SettledRowsAreFresh` with `VInv`, `RInv` and `FInv`. The property speaks of rest,
and says nothing of the steps that lead there, so `FInv` follows every row on its way:

* `RowsOK`: of a row that is not what the disk holds somebody still knows (`Known`: an event in the queue,
  or a name or flag among the pending changes), or the running scan or batch will show it right
  (`ScanRow`, `BatchRow`), or nobody could report or read it (`blind`). At rest only the last is left.
* `RemovalsHold`: `apply_watcher_changes` drops rows without a look at the disk. That is right only because
  a removal is never the last thing known of a name that exists again: a later event in the queue, or an
  upsert that is pending with it, tells of it.
* `Scanning`: the scan of the current generation is not cancelled, uses the tab's hidden flag, and ends with
  a complete or a failed result that is sent last, so that the rows shown last are the rows read last.
* `Batching`: a batch never runs during a load, and only for rows that are visible.
* `Watching`: the watcher is one of the tab's folder, and a timer of the current generation was set by its
  event loop.

The steps that matter are `ReceiveEvent`, where what the queue knew must be noted (`RecordNotes`),
`ApplyChanges`, which takes the pending changes and must show each of them or read it again, and the
changes of other programs, which every part above must survive at any moment.

## 5. What is only model-checked

Every safety invariant and action property that a passing run checks is a theorem, except two.

* `PutOverOnlyAgain`: it would need, for every data brought, where it stands while the job goes on; the
  invariants of the outcome say this only while no other process interferes.
* All liveness properties, and `CancelledInQueueNeverStarts`: the prover handles neither fairness nor
  ENABLED, and the latter nests temporal operators.
* The small modules `PreviewRequests`, `FileSearch` and `DeviceRefresh` have liveness properties only.

## 6. Not modelled, and what is left

* **Operation windows** and the decision to quit that hangs on them. `show_window` opens the window inside an
  update of the coordinator; the toolkit draws a window when it opens it, and the first drawing reads the
  coordinator that is being updated, which panics. A model would end there. The observer of closed windows in
  `file_manager.rs:807` reads it in the same way. Once this is repaired, `OperationCoordinator` can be extended
  by the windows: which record has one, dismissal with its window, Escape, and when the process ends.
* **GUI toolkit** (`gnil-gpui`): a fork of GPUI with layout, rendering, text and the Wayland client. It is
  about 60 000 of the 83 000 lines of the repository, which is why the modules cover about 7 % of all lines
  though they cover most of the lines that coordinate work. The models use of it that foreground tasks run one
  at a time, in closures that do not overlap.
* **Thumbnails of the grid** (`grid_preview.rs`), which have their own keys of tasks in flight; the text of a
  preview is cut at a byte there (`grid_preview.rs:50`), which panics inside a character of several bytes.
* **The picker's folder view**, a copy of the main window's loads and watcher; `DirectoryView` stands for both.
* **FileManager1 service**: each call groups its paths and opens windows; it keeps no state.
* **Main window, menus, actions, settings, themes, open with, MIME, Git status, trash view, clipboard**: event
  handlers that change what is displayed, conversions, and input and output through libraries.
* Decoders of archives, images and code, UDisks2 and D-Bus themselves are external.

Next in order: the windows (see above), then the keys of grid thumbnails.
