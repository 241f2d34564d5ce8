------------------------ MODULE DirectoryView_proofs ------------------------
(***************************************************************************)
(* Theorems about DirectoryView, for any folders, names, commands, failures*)
(* and bounds: its types, that no batch of the watcher waits for a timer   *)
(* or a task that does not exist, and, in the second half, its rows.       *)
(***************************************************************************)
EXTENDS DirectoryView, TLAPS

\* A task that runs knows its place, and a free slot has no result left.
Placed ==
    \A g \in Gens :
       /\ scans[g].pc = "none" => scans[g].out = <<>>
       /\ scans[g].pc # "none" => scans[g].place \in Places
       /\ applies[g].left # {} => applies[g].path \in Dirs

\* Generations that have not begun have no watcher and no batch.
Ahead == \A g \in Gens : g > generation => watchers[g].stage = "none" /\ ~applies[g].active

\* The batch of the current generation is one of the folder that is shown.
Local == applies[generation].active => applies[generation].path = tab.path

\* Until the watcher that this load asked for is installed, nothing is pending.
Calm ==
    watchers[generation].stage \in {"asked", "ready"} =>
        ~watch.refreshAt /\ ~watch.applying /\ watch.pending = NoChanges

\* The trash is not watched.
Quiet == tab.root = "trash" => watchers[generation].stage = "none"

VInv == ViewTypeOK /\ Placed /\ Ahead /\ Local /\ Calm /\ Quiet /\ BatchFlagsAreOwned

-----------------------------------------------------------------------------
(* The empty values have their types.                                      *)
LEMMA EmptyTypes ==
  /\ NoRows \in Rows /\ NoScan \in Scans /\ NoWatcher \in Watchers
  /\ NoApply \in Applies /\ NoChanges \in Changes /\ NoWatch \in Watches
<1>1. NoRows \in Rows
  BY DEF NoRows, Rows, Row
<1>2. <<>> \in Seq(Message) /\ <<>> \in Seq(Event)
  OBVIOUS
<1>3. NoChanges \in Changes
  BY DEF NoChanges, Changes
<1>4. NoScan \in Scans
  BY <1>1, <1>2 DEF NoScan, Scans
<1>5. NoWatcher \in Watchers
  BY <1>2 DEF NoWatcher, Watchers
<1>6. NoApply \in Applies
  BY <1>1 DEF NoApply, Applies
<1>7. NoWatch \in Watches
  BY <1>3 DEF NoWatch, Watches
<1> QED
  BY <1>1, <1>3, <1>4, <1>5, <1>6, <1>7

(* The generations: the next one is in range when there is one.            *)
LEMMA NextGeneration ==
  ASSUME ViewTypeOK, generation < MaxGen
  PROVE  /\ generation \in Nat /\ generation + 1 \in Gens
         /\ generation + 1 \in 0 .. MaxGen /\ 0 \in 0 .. MaxGen
BY BoundsAssumption DEF ViewTypeOK, Gens

(* load_directory keeps the types of what it changes.                      *)
LEMMA LoadTypes ==
  ASSUME ViewTypeOK, NEW t \in Tabs, NEW w \in Watches, NEW s \in Snapshots,
         LoadDirectory(t, w, s)
  PROVE  /\ generation' \in Gens /\ tab' \in Tabs /\ loading' \in BOOLEAN
         /\ failed' \in BOOLEAN /\ snap' \in Snapshots /\ scanCancel' \in 0 .. MaxGen
         /\ scans' \in [Gens -> Scans] /\ watchers' \in [Gens -> Watchers]
         /\ watch' \in Watches /\ blind' \subseteq Names
<1> DEFINE g == generation + 1
<1>1. g \in Gens /\ g \in 0 .. MaxGen /\ 0 \in 0 .. MaxGen
  BY NextGeneration DEF LoadDirectory
<1>2. snap' \in Snapshots
  BY EmptyTypes DEF LoadDirectory, Snapshots, Tabs, Places
<1>3. NewScan(t) \in Scans
  BY EmptyTypes DEF NewScan, Scans, Tabs, Places, NoScan
<1>4. CancelScan(scans) \in [Gens -> Scans]
  <2>1. CASE scanCancel = 0
    BY <2>1 DEF CancelScan, ViewTypeOK
  <2>2. CASE scanCancel # 0
    <3>1. scanCancel \in Gens
      BY <2>2, BoundsAssumption DEF ViewTypeOK, Gens
    <3>2. [scans[scanCancel] EXCEPT !.cancelled = TRUE] \in Scans
      BY <3>1 DEF ViewTypeOK, Scans
    <3> QED
      BY <2>2, <3>1, <3>2 DEF CancelScan, ViewTypeOK
  <2> QED
    BY <2>1, <2>2
<1>5. scans' \in [Gens -> Scans]
  BY <1>1, <1>3, <1>4 DEF LoadDirectory
<1>6. DropWatcher(watchers) \in [Gens -> Watchers]
  BY EmptyTypes DEF DropWatcher, ViewTypeOK
<1>7. [stage |-> "asked", path |-> t.path, queue |-> <<>>] \in Watchers
  BY DEF Watchers, Tabs
<1>8. watch' \in Watches /\ watchers' \in [Gens -> Watchers]
  BY <1>1, <1>6, <1>7, EmptyTypes DEF LoadDirectory, EnsureWatcher, ViewTypeOK
<1> QED
  BY <1>1, <1>2, <1>5, <1>8 DEF LoadDirectory

(* After load_directory the watcher of the new generation is asked for, with *)
(* nothing pending, or there is none: nothing waits for the batches.       *)
LEMMA LoadFlags ==
  ASSUME VInv, NEW t \in Tabs, NEW w \in Watches, NEW s \in Snapshots,
         LoadDirectory(t, w, s), \A h \in Gens : applies'[h].active => applies[h].active
  PROVE  Ahead' /\ Local' /\ Calm' /\ Quiet' /\ BatchFlagsAreOwned'
<1> DEFINE g == generation + 1
<1>1. g \in Gens /\ generation \in Nat /\ generation' = g
  BY NextGeneration DEF LoadDirectory, VInv
<1>2. watchers[g].stage = "none"
  BY <1>1 DEF VInv, Ahead
<1>3. ASSUME NEW h \in Gens, h > generation
      PROVE  /\ watchers[h].stage = "none" /\ DropWatcher(watchers)[h].stage = "none"
             /\ ~applies'[h].active
  BY <1>3 DEF VInv, Ahead, DropWatcher
<1>4. Local'
  BY <1>1, <1>3 DEF Local, Gens
<1>5. CASE t.root = "trash"
  <2>1. watchers' = DropWatcher(watchers) /\ tab' = t
    BY <1>5 DEF LoadDirectory, EnsureWatcher
  <2>2. watchers'[g].stage = "none" /\ Ahead'
    BY <1>1, <1>3, <2>1 DEF Ahead, Gens
  <2> QED
    BY <1>1, <1>4, <2>2 DEF Calm, Quiet, BatchFlagsAreOwned
<1>6. CASE t.root # "trash" /\ w.path = t.path
  <2>1. watchers' = watchers /\ tab' = t
    BY <1>6 DEF LoadDirectory, EnsureWatcher
  <2>2. Ahead'
    BY <1>1, <1>3, <2>1 DEF Ahead, Gens
  <2> QED
    BY <1>1, <1>2, <1>4, <2>1, <2>2 DEF Calm, Quiet, BatchFlagsAreOwned
<1>7. CASE t.root # "trash" /\ w.path # t.path
  <2>1. /\ watch' = NoWatch /\ tab' = t
        /\ watchers' = [DropWatcher(watchers) EXCEPT
                          ![g] = [stage |-> "asked", path |-> t.path, queue |-> <<>>]]
    BY <1>7 DEF LoadDirectory, EnsureWatcher
  <2>2. DOMAIN DropWatcher(watchers) = Gens
    BY DEF DropWatcher
  <2>3. watchers'[g].stage = "asked"
    BY <1>1, <2>1, <2>2
  <2>4. Ahead'
    BY <1>1, <1>3, <2>1, <2>2 DEF Ahead, Gens
  <2> QED
    BY <1>1, <1>4, <1>7, <2>1, <2>3, <2>4 DEF Calm, Quiet, BatchFlagsAreOwned, NoWatch
<1> QED
  BY <1>5, <1>6, <1>7

(* The scans of a load know their places.                                  *)
LEMMA LoadPlaces ==
  ASSUME VInv, NEW t \in Tabs, NEW w \in Watches, NEW s \in Snapshots,
         LoadDirectory(t, w, s), NEW h \in Gens
  PROVE  /\ scans'[h].pc = "none" => scans'[h].out = <<>>
         /\ scans'[h].pc # "none" => scans'[h].place \in Places
<1> DEFINE g == generation + 1
<1>1. g \in Gens /\ scans' = [CancelScan(scans) EXCEPT ![g] = NewScan(t)]
  BY NextGeneration DEF LoadDirectory, VInv
<1>2. /\ DOMAIN CancelScan(scans) = Gens
      /\ \A k \in Gens : /\ CancelScan(scans)[k].pc = scans[k].pc
                         /\ CancelScan(scans)[k].out = scans[k].out
                         /\ CancelScan(scans)[k].place = scans[k].place
  <2>1. CASE scanCancel = 0
    BY <2>1 DEF CancelScan, VInv, ViewTypeOK
  <2>2. CASE scanCancel # 0
    BY <2>2 DEF CancelScan, VInv, ViewTypeOK, Scans
  <2> QED
    BY <2>1, <2>2
<1>3. NewScan(t).pc # "none" /\ NewScan(t).place \in Places
  BY DEF NewScan, NoScan, Places, Tabs
<1>4. CASE h = g
  BY <1>1, <1>2, <1>3, <1>4
<1>5. CASE h # g
  BY <1>1, <1>2, <1>5 DEF VInv, Placed
<1> QED
  BY <1>4, <1>5

-----------------------------------------------------------------------------
(* Every handler that ends in load_directory keeps the invariant.          *)
LEMMA LoadStep ==
  ASSUME VInv, NEW t \in Tabs, NEW w \in Watches, NEW s \in Snapshots,
         LoadDirectory(t, w, s), UNCHANGED <<disk, changes>>, timers' \subseteq Gens,
         applies' \in [Gens -> Applies],
         \A h \in Gens : /\ applies'[h].left # {} => applies'[h].path \in Dirs
                         /\ applies'[h].active => applies[h].active
  PROVE  VInv'
<1>1. ViewTypeOK'
  BY LoadTypes DEF VInv, ViewTypeOK
<1>2. Placed'
  BY LoadPlaces DEF Placed
<1> QED
  BY <1>1, <1>2, LoadFlags DEF VInv

LEMMA CommandStep ==
  ASSUME VInv, NEW t \in Tabs, LoadDirectory(t, watch, snap),
         UNCHANGED <<disk, changes, timers, applies>>
  PROVE  VInv'
<1>1. watch \in Watches /\ snap \in Snapshots /\ timers \subseteq Gens /\ applies \in [Gens -> Applies]
  BY DEF VInv, ViewTypeOK
<1>2. \A h \in Gens : applies'[h].left # {} => applies'[h].path \in Dirs
  BY DEF VInv, Placed
<1> QED
  BY <1>1, <1>2, LoadStep

(* What notify reports is appended to queues and changes nothing else.     *)
LEMMA ExternalStep ==
  ASSUME VInv, NEW d \in Dirs, NEW names \in SUBSET Names,
         NEW rows \in [Names -> {Absent} \union Version], NEW event \in Event,
         ChangeFolder(d, names, rows, event)
  PROVE  VInv'
<1>1. watchers' \in [Gens -> Watchers] /\ \A h \in Gens : watchers'[h].stage = watchers[h].stage
  <2> SUFFICES ASSUME NEW h \in Gens
               PROVE  watchers'[h] \in Watchers /\ watchers'[h].stage = watchers[h].stage
    BY DEF ChangeFolder, Report
  <2>1. watchers[h] \in Watchers
    BY DEF VInv, ViewTypeOK
  <2>2. Append(watchers[h].queue, event) \in Seq(Event)
    BY <2>1 DEF Watchers
  <2> QED
    BY <2>1, <2>2 DEF ChangeFolder, Report, Watchers
<1>2. disk' \in [Places -> [Names -> {Absent} \union Version]]
  BY DEF VInv, ViewTypeOK, ChangeFolder
<1>3. changes' \in 0 .. MaxChanges
  BY BoundsAssumption DEF VInv, ViewTypeOK, ChangeFolder
<1>4. blind' \subseteq Names
  BY DEF VInv, ViewTypeOK, ChangeFolder
<1>5. ViewTypeOK'
  BY <1>1, <1>2, <1>3, <1>4 DEF VInv, ViewTypeOK, ChangeFolder
<1>6. Placed' /\ UNCHANGED <<generation, watch, timers, applies, tab>>
  BY DEF VInv, Placed, ChangeFolder
<1>7. generation \in Gens
  BY DEF VInv, ViewTypeOK
<1>8. Ahead' /\ Local' /\ Calm' /\ Quiet'
  BY <1>1, <1>6, <1>7 DEF VInv, Ahead, Local, Calm, Quiet
<1>9. BatchFlagsAreOwned'
  BY <1>1, <1>6, <1>7 DEF VInv, BatchFlagsAreOwned
<1> QED
  BY <1>5, <1>6, <1>8, <1>9 DEF VInv

(* A change of one scan that leaves it typed and placed.                   *)
LEMMA ScanChange ==
  ASSUME VInv, NEW g \in Gens, NEW scan \in Scans, scans' = [scans EXCEPT ![g] = scan],
         scan.pc = "none" => scan.out = <<>>, scan.pc # "none" => scan.place \in Places,
         loading' \in BOOLEAN, failed' \in BOOLEAN, snap' \in Snapshots, blind' \subseteq Names,
         UNCHANGED <<disk, changes, tab, generation, scanCancel, watchers, watch, timers, applies>>
  PROVE  VInv'
<1>1. ViewTypeOK'
  BY DEF VInv, ViewTypeOK
<1>2. Placed'
  <2> SUFFICES ASSUME NEW h \in Gens
               PROVE  /\ scans'[h].pc = "none" => scans'[h].out = <<>>
                      /\ scans'[h].pc # "none" => scans'[h].place \in Places
                      /\ applies'[h].left # {} => applies'[h].path \in Dirs
    BY DEF Placed
  <2>1. CASE h = g
    BY <2>1 DEF VInv, ViewTypeOK, Placed
  <2>2. CASE h # g
    BY <2>2 DEF VInv, ViewTypeOK, Placed
  <2> QED
    BY <2>1, <2>2
<1>3. Ahead' /\ Local' /\ Calm' /\ Quiet' /\ BatchFlagsAreOwned'
  BY DEF VInv, Ahead, Local, Calm, Quiet, BatchFlagsAreOwned
<1> QED
  BY <1>1, <1>2, <1>3 DEF VInv

(* A step of a scan thread sends one message and keeps its place.          *)
LEMMA SendingStep ==
  ASSUME VInv, NEW g \in Gens, scans[g].pc # "none",
         NEW pc \in {"discover", "metadata", "trash", "done"}, NEW rows \in Rows,
         NEW message \in Message, ScanStep(g, pc, rows, message), blind' \subseteq Names,
         UNCHANGED <<disk, changes, view, watchers, watch, timers, applies>>
  PROVE  VInv'
<1> DEFINE scan == [scans[g] EXCEPT !.pc = pc, !.rows = rows, !.out = Send(g, message)]
<1>1. scans[g] \in Scans /\ scans[g].place \in Places
  BY DEF VInv, ViewTypeOK, Placed
<1>2. Send(g, message) \in Seq(Message)
  BY <1>1 DEF Send, Scans
<1>3. scan \in Scans /\ scan.pc # "none" /\ scan.place \in Places
  BY <1>1, <1>2 DEF Scans
<1>4. scans' = [scans EXCEPT ![g] = scan]
  BY DEF ScanStep, VInv, ViewTypeOK
<1>5. /\ loading' \in BOOLEAN /\ failed' \in BOOLEAN /\ snap' \in Snapshots
      /\ UNCHANGED <<tab, generation, scanCancel>>
  BY DEF VInv, ViewTypeOK, view
<1> HIDE DEF scan
<1> QED
  BY <1>3, <1>4, <1>5, ScanChange

(* The rows a scan reads are rows.                                         *)
LEMMA DiskRows ==
  ASSUME VInv, NEW place \in Places
  PROVE  disk[place] \in Rows /\ \A n \in Names : disk[place][n] \in Row
BY DEF VInv, ViewTypeOK, Rows, Row

LEMMA Messages ==
  /\ Interrupted \in Message /\ Failure \in Message
  /\ \A phase \in {"discovered", "complete"}, rows \in Rows : Found(phase, rows) \in Message
BY DEF Interrupted, Failure, Found, Message

\* The first snapshot of a scan that skips some of the entries that are there.
Discovered(g, skipped) ==
    [n \in Names |-> IF n \in {m \in Names : disk[scans[g].place][m] # Absent
                                          /\ Visible(m, scans[g].show)} \ skipped
                     THEN Pending ELSE Absent]

LEMMA DiscoverCases ==
  ASSUME NEW g \in Gens, Discover(g)
  PROVE  \/ ScanStep(g, "done", NoRows, Interrupted) /\ scans[g].cancelled /\ UNCHANGED blind
         \/ \E skipped \in SUBSET Names :
               /\ ScanStep(g, "metadata", Discovered(g, skipped),
                           Found("discovered", Discovered(g, skipped)))
               /\ Unread(g, skipped)
         \/ ScanStep(g, "done", NoRows, Failure) /\ UNCHANGED blind
BY DEF Discover, Discovered

\* A thread of a scan changes what could not be read only if it is the current one.
LEMMA ScanThreadLeaves ==
  ASSUME VInv, NEW g \in Gens, ScanThread(g)
  PROVE  /\ scans[g].pc # "none"
         /\ UNCHANGED <<disk, changes, view, watchers, watch, timers, applies>>
         /\ blind \subseteq blind' /\ blind' \subseteq Names
         /\ g # generation => UNCHANGED blind
<1>1. blind \subseteq Names
  BY DEF VInv, ViewTypeOK
<1>2. CASE Discover(g)
  BY <1>1, <1>2, DiscoverCases DEF Discover, Unread, IsCurrent
<1>3. CASE FinishScan(g) \/ ScanTrash(g)
  BY <1>1, <1>3 DEF FinishScan, ScanTrash, external
<1>4. CASE \E n \in Names : ReadMetadata(g, n)
  BY <1>1, <1>4 DEF ReadMetadata, Unread, IsCurrent
<1> QED
  BY <1>2, <1>3, <1>4 DEF ScanThread

LEMMA DiscoverStep ==
  ASSUME VInv, NEW g \in Gens, Discover(g)
  PROVE  VInv'
<1>1. \A skipped : Discovered(g, skipped) \in Rows
  BY DEF Discovered, Rows, Row
<1>2. scans[g].pc # "none" /\ UNCHANGED <<disk, changes, view, watchers, watch, timers, applies>>
      /\ blind' \subseteq Names
  BY ScanThreadLeaves DEF ScanThread
<1> QED
  BY <1>1, <1>2, DiscoverCases, Messages, EmptyTypes, SendingStep

LEMMA ReadMetadataStep ==
  ASSUME VInv, NEW g \in Gens, NEW n \in Names, ReadMetadata(g, n)
  PROVE  VInv'
<1> PICK row \in {Unavailable, disk[scans[g].place][n]} : scans' = [scans EXCEPT ![g].rows[n] = row]
  BY DEF ReadMetadata
<1> DEFINE scan == [scans[g] EXCEPT !.rows[n] = row]
<1>1. scans[g] \in Scans /\ scans[g].place \in Places /\ scans[g].pc = "metadata"
  BY DEF VInv, ViewTypeOK, Placed, ReadMetadata
<1>2. row \in Row
  BY <1>1, DiskRows DEF Row
<1>3. [scans[g].rows EXCEPT ![n] = row] \in Rows
  BY <1>1, <1>2 DEF Scans, Rows
<1>4. scan \in Scans /\ scan.pc = "metadata" /\ scan.place \in Places
  BY <1>1, <1>3 DEF Scans
<1>5. scans' = [scans EXCEPT ![g] = scan]
  BY DEF VInv, ViewTypeOK
<1>6. /\ loading' \in BOOLEAN /\ failed' \in BOOLEAN /\ snap' \in Snapshots
      /\ UNCHANGED <<disk, changes, tab, generation, scanCancel, watchers, watch, timers, applies>>
      /\ blind' \subseteq Names
  BY ScanThreadLeaves DEF ScanThread, VInv, ViewTypeOK, view
<1> HIDE DEF scan
<1> QED
  BY <1>4, <1>5, <1>6, ScanChange

LEMMA FinishScanStep ==
  ASSUME VInv, NEW g \in Gens, FinishScan(g)
  PROVE  VInv'
<1>1. scans[g].rows \in Rows
  BY DEF VInv, ViewTypeOK, Scans
<1>2. \/ ScanStep(g, "done", NoRows, Interrupted)
      \/ ScanStep(g, "done", NoRows, Found("complete", scans[g].rows))
  BY DEF FinishScan
<1>3. scans[g].pc # "none" /\ UNCHANGED <<disk, changes, view, watchers, watch, timers, applies>>
      /\ blind' \subseteq Names
  BY ScanThreadLeaves DEF ScanThread
<1> QED
  BY <1>1, <1>2, <1>3, Messages, EmptyTypes, SendingStep

LEMMA ScanTrashStep ==
  ASSUME VInv, NEW g \in Gens, ScanTrash(g)
  PROVE  VInv'
<1>1. disk[Trash] \in Rows
  BY DiskRows DEF Places
<1>2. \/ ScanStep(g, "done", NoRows, Found("complete", disk[Trash]))
      \/ ScanStep(g, "done", NoRows, Failure)
  BY DEF ScanTrash
<1>3. scans[g].pc # "none" /\ UNCHANGED <<disk, changes, view, watchers, watch, timers, applies>>
      /\ blind' \subseteq Names
  BY ScanThreadLeaves DEF ScanThread
<1> QED
  BY <1>1, <1>2, <1>3, Messages, EmptyTypes, SendingStep

(* The result of a scan, shown or not, keeps the types of the view.        *)
LEMMA ShowTypes ==
  ASSUME VInv, NEW place \in Places, NEW message \in Message, ShowResult(place, message)
  PROVE  loading' \in BOOLEAN /\ failed' \in BOOLEAN /\ snap' \in Snapshots
<1>1. snap \in Snapshots /\ loading \in BOOLEAN /\ failed \in BOOLEAN
  BY DEF VInv, ViewTypeOK
<1>2. CASE message.result = "ok"
  <2>1. message.phase \in {"discovered", "complete"} /\ message.rows \in Rows
    BY <1>2 DEF Message
  <2>2. (IF place = Trash THEN snap.path ELSE place) \in Dirs
    BY <1>1 DEF Snapshots, Places
  <2> QED
    BY <1>1, <1>2, <2>1, <2>2 DEF ShowResult, Snapshots
<1>3. CASE message.result = "interrupted"
  BY <1>1, <1>3 DEF ShowResult
<1>4. CASE message.result = "failed"
  <2>1. [snap EXCEPT !.rows = NoRows] \in Snapshots
    BY <1>1, EmptyTypes DEF Snapshots
  <2> QED
    BY <1>1, <1>4, <2>1 DEF ShowResult
<1> QED
  BY <1>2, <1>3, <1>4 DEF Message

LEMMA DeliverScanStep ==
  ASSUME VInv, NEW g \in Gens, DeliverScan(g)
  PROVE  VInv'
<1>1. /\ scans[g] \in Scans /\ scans[g].out # <<>>
      /\ scans[g].pc # "none" /\ scans[g].place \in Places
  BY DEF VInv, ViewTypeOK, Placed, DeliverScan
<1>2. Head(scans[g].out) \in Message /\ Tail(scans[g].out) \in Seq(Message)
  BY <1>1 DEF Scans
<1>3. loading' \in BOOLEAN /\ failed' \in BOOLEAN /\ snap' \in Snapshots
  <2>1. CASE ShowResult(scans[g].place, Head(scans[g].out))
    BY <1>1, <1>2, <2>1, ShowTypes
  <2>2. CASE UNCHANGED <<loading, failed, snap>>
    BY <2>2 DEF VInv, ViewTypeOK
  <2> QED
    BY <2>1, <2>2 DEF DeliverScan
<1>4. UNCHANGED <<disk, changes, tab, generation, scanCancel, watchers, watch, timers, applies>>
      /\ blind' \subseteq Names
  BY DEF DeliverScan, external, VInv, ViewTypeOK
<1>5. CASE scans[g].pc = "done" /\ Len(scans[g].out) = 1
  <2>1. scans' = [scans EXCEPT ![g] = NoScan]
    BY <1>5 DEF DeliverScan, TakeResult
  <2>2. NoScan.pc = "none" /\ NoScan.out = <<>>
    BY DEF NoScan
  <2> QED
    BY <1>3, <1>4, <2>1, <2>2, EmptyTypes, ScanChange
<1>6. CASE ~(scans[g].pc = "done" /\ Len(scans[g].out) = 1)
  <2> DEFINE scan == [scans[g] EXCEPT !.out = Tail(scans[g].out)]
  <2>1. scans' = [scans EXCEPT ![g] = scan]
    BY <1>6 DEF DeliverScan, TakeResult, VInv, ViewTypeOK
  <2>2. scan \in Scans /\ scan.pc # "none" /\ scan.place \in Places
    BY <1>1, <1>2 DEF Scans
  <2> HIDE DEF scan
  <2> QED
    BY <1>3, <1>4, <2>1, <2>2, ScanChange
<1> QED
  BY <1>5, <1>6

-----------------------------------------------------------------------------
LEMMA StartWatchingStep ==
  ASSUME VInv, NEW g \in Gens, StartWatching(g)
  PROVE  VInv'
<1> DEFINE started == [watchers[g] EXCEPT !.stage = "ready"]
<1>1. generation \in Gens /\ watchers[g] \in Watchers /\ watchers[g].stage = "asked"
  BY DEF VInv, ViewTypeOK, StartWatching
<1>2. started \in Watchers /\ started.stage = "ready"
  BY <1>1 DEF Watchers
<1>3. \/ watchers' = [watchers EXCEPT ![g] = started]
      \/ watchers' = [watchers EXCEPT ![g] = NoWatcher]
  BY DEF StartWatching, VInv, ViewTypeOK
<1>4. NoWatcher \in Watchers /\ NoWatcher.stage = "none"
  BY EmptyTypes DEF NoWatcher
<1>5. UNCHANGED <<external, view, scans, watch, timers, applies>>
  BY DEF StartWatching
<1> HIDE DEF started
<1>6. watchers' \in [Gens -> Watchers]
  BY <1>2, <1>3, <1>4 DEF VInv, ViewTypeOK
<1>7. \A h \in Gens : \/ watchers'[h] = watchers[h]
                      \/ h = g /\ watchers'[h].stage \in {"none", "ready"}
  BY <1>2, <1>3, <1>4 DEF VInv, ViewTypeOK
<1>8. ViewTypeOK' /\ Placed'
  BY <1>5, <1>6 DEF VInv, ViewTypeOK, Placed, external, view
<1>9. Ahead' /\ Local' /\ Calm' /\ Quiet'
  BY <1>1, <1>5, <1>7 DEF VInv, Ahead, Local, Calm, Quiet, view
<1>10. BatchFlagsAreOwned'
  BY <1>1, <1>5, <1>7 DEF VInv, BatchFlagsAreOwned, view
<1> QED
  BY <1>8, <1>9, <1>10 DEF VInv

LEMMA InstallWatcherStep ==
  ASSUME VInv, NEW g \in Gens, InstallWatcher(g)
  PROVE  VInv'
<1> DEFINE installed == [watchers[g] EXCEPT !.stage = "listening"]
<1>1. /\ generation \in Gens /\ watchers[g] \in Watchers /\ watchers[g].stage = "ready"
      /\ UNCHANGED <<external, view, scans, timers, applies>>
  BY DEF VInv, ViewTypeOK, InstallWatcher
<1>2. installed \in Watchers /\ installed.stage = "listening"
  BY <1>1 DEF Watchers
<1>3. CASE IsCurrent(g) /\ tab.path = watchers[g].path
  <2>1. /\ watchers' = [watchers EXCEPT ![g] = installed]
        /\ watch' = [watch EXCEPT !.path = watchers[g].path]
    BY <1>3 DEF InstallWatcher, VInv, ViewTypeOK
  <2>2. /\ g = generation
        /\ ~watch.refreshAt /\ ~watch.applying /\ watch.pending = NoChanges
    BY <1>1, <1>3 DEF IsCurrent, VInv, Calm
  <2>3. /\ watch' \in Watches
        /\ ~watch'.refreshAt /\ ~watch'.applying /\ watch'.pending = NoChanges
    BY <2>1, <2>2, <1>1 DEF VInv, ViewTypeOK, Watches, Watchers
  <2> HIDE DEF installed
  <2>4. ViewTypeOK' /\ Placed'
    BY <1>1, <1>2, <2>1, <2>3 DEF VInv, ViewTypeOK, Placed, external, view
  <2>5. watchers'[generation].stage = "listening" /\ UNCHANGED <<generation, tab>>
    BY <1>1, <1>2, <2>1, <2>2 DEF VInv, ViewTypeOK, view
  <2>6. Ahead' /\ Local'
    BY <1>1, <2>1, <2>2, <2>5 DEF VInv, ViewTypeOK, Ahead, Local, Gens
  <2>7. Calm' /\ Quiet'
    BY <1>1, <2>2, <2>5 DEF VInv, Calm, Quiet
  <2>8. BatchFlagsAreOwned'
    BY <2>3 DEF BatchFlagsAreOwned
  <2> QED
    BY <2>4, <2>6, <2>7, <2>8 DEF VInv
<1>4. CASE ~(IsCurrent(g) /\ tab.path = watchers[g].path)
  <2>1. watchers' = [watchers EXCEPT ![g] = NoWatcher] /\ UNCHANGED watch
    BY <1>4 DEF InstallWatcher
  <2>2. NoWatcher \in Watchers /\ NoWatcher.stage = "none"
    BY EmptyTypes DEF NoWatcher
  <2>3. ViewTypeOK' /\ Placed'
    BY <1>1, <2>1, <2>2 DEF VInv, ViewTypeOK, Placed, external, view
  <2>4. \A h \in Gens : watchers'[h] = watchers[h] \/ watchers'[h].stage = "none"
    BY <2>1, <2>2 DEF VInv, ViewTypeOK
  <2>5. Ahead' /\ Local' /\ Calm' /\ Quiet' /\ BatchFlagsAreOwned'
    BY <1>1, <2>1, <2>4 DEF VInv, Ahead, Local, Calm, Quiet, BatchFlagsAreOwned, view
  <2> QED
    BY <2>3, <2>5 DEF VInv
<1> QED
  BY <1>3, <1>4

LEMMA RecordType ==
  ASSUME NEW pending \in Changes, NEW event \in Event
  PROVE  Record(pending, event) \in Changes
<1>1. CASE event.kind = "upsert"
  BY <1>1 DEF Record, Changes, Event
<1>2. CASE event.kind = "remove"
  BY <1>2 DEF Record, Changes, Event
<1>3. CASE event.kind = "rename"
  BY <1>3 DEF Record, Changes, Event
<1>4. CASE event.kind \in {"self", "rescan", "error"}
  BY <1>4 DEF Record, Changes, Event
<1> QED
  BY <1>1, <1>2, <1>3, <1>4 DEF Event

(* The event loop sets the refresh time and the timer together.            *)
LEMMA ReceiveEventStep ==
  ASSUME VInv, NEW g \in Gens, ReceiveEvent(g)
  PROVE  VInv'
<1> DEFINE pending == Record(watch.pending, Head(watchers[g].queue))
           served == [watchers[g] EXCEPT !.queue = Tail(watchers[g].queue)]
           ended == [watchers[g] EXCEPT !.stage = "deaf", !.queue = <<>>]
<1>1. /\ generation \in Gens /\ watchers[g] \in Watchers /\ watch \in Watches
      /\ watchers[g].stage = "listening" /\ watchers[g].queue # <<>>
      /\ UNCHANGED <<external, view, scans, applies>>
  BY DEF VInv, ViewTypeOK, ReceiveEvent
<1>2. Head(watchers[g].queue) \in Event /\ Tail(watchers[g].queue) \in Seq(Event)
  BY <1>1 DEF Watchers
<1>3. served \in Watchers /\ served.stage = "listening"
  BY <1>1, <1>2 DEF Watchers
<1>4. ended \in Watchers /\ ended.stage = "deaf"
  <2>1. <<>> \in Seq(Event)
    OBVIOUS
  <2> QED
    BY <1>1, <2>1 DEF Watchers
<1>5. pending \in Changes
  BY <1>1, <1>2, RecordType DEF Watches
<1>6. CASE IsCurrent(g)
  <2>1. watchers' = [watchers EXCEPT ![g] = served]
    BY <1>6 DEF ReceiveEvent, VInv, ViewTypeOK
  <2>2. /\ watch' \in Watches /\ timers' \subseteq Gens
        /\ watch'.pending = pending /\ watch'.applying = watch.applying
        /\ \/ watch'.refreshAt /\ timers' = timers \union {g}
           \/ watch'.refreshAt = watch.refreshAt /\ timers' = timers
              /\ (pending # NoChanges => watch.refreshAt)
    <3> HIDE DEF pending
    <3>1. CASE pending # NoChanges /\ ~watch.refreshAt
      <4>1. /\ watch' = [watch EXCEPT !.pending = pending, !.refreshAt = TRUE]
            /\ timers' = timers \union {g}
        BY <1>6, <3>1 DEF ReceiveEvent, pending
      <4> QED
        BY <1>1, <1>5, <4>1 DEF Watches, VInv, ViewTypeOK
    <3>2. CASE ~(pending # NoChanges /\ ~watch.refreshAt)
      <4>1. watch' = [watch EXCEPT !.pending = pending] /\ timers' = timers
        BY <1>6, <3>2 DEF ReceiveEvent, pending
      <4> QED
        BY <1>1, <1>5, <3>2, <4>1 DEF Watches, VInv, ViewTypeOK
    <3> QED
      BY <3>1, <3>2
  <2> HIDE DEF pending, served
  <2>3. ViewTypeOK' /\ Placed'
    BY <1>1, <1>3, <2>1, <2>2 DEF VInv, ViewTypeOK, Placed, external, view
  <2>4. g = generation /\ UNCHANGED <<generation, tab>>
    BY <1>1, <1>6 DEF IsCurrent, view
  <2>5. \A h \in Gens : watchers'[h].stage = watchers[h].stage
    BY <1>1, <1>3, <2>1 DEF VInv, ViewTypeOK
  <2>6. Ahead' /\ Local' /\ Calm' /\ Quiet'
    BY <1>1, <2>4, <2>5 DEF VInv, Ahead, Local, Calm, Quiet
  <2>7. BatchFlagsAreOwned'
    BY <1>1, <2>2, <2>4, <2>5 DEF VInv, BatchFlagsAreOwned
  <2> QED
    BY <2>3, <2>6, <2>7 DEF VInv
<1>7. CASE ~IsCurrent(g)
  <2>1. watchers' = [watchers EXCEPT ![g] = ended] /\ UNCHANGED <<watch, timers>>
    BY <1>7 DEF ReceiveEvent, VInv, ViewTypeOK
  <2> HIDE DEF ended, pending, served
  <2>2. ViewTypeOK' /\ Placed'
    BY <1>1, <1>4, <2>1 DEF VInv, ViewTypeOK, Placed, external, view
  <2>3. UNCHANGED <<generation, tab>> /\ g # generation
    BY <1>1, <1>7 DEF IsCurrent, view
  <2>4. watchers'[generation] = watchers[generation]
    BY <1>1, <2>1, <2>3 DEF VInv, ViewTypeOK
  <2>5. Ahead' /\ Local'
    BY <1>1, <2>1, <2>3 DEF VInv, ViewTypeOK, Ahead, Local
  <2>6. Calm' /\ Quiet' /\ BatchFlagsAreOwned'
    BY <1>1, <2>1, <2>3, <2>4 DEF VInv, Calm, Quiet, BatchFlagsAreOwned
  <2> QED
    BY <2>2, <2>5, <2>6 DEF VInv
<1> QED
  BY <1>6, <1>7

-----------------------------------------------------------------------------
(* apply_watcher_changes: a batch that is running has its task.            *)
LEMMA ApplyChangesStep ==
  ASSUME VInv, NEW w \in Watches, NEW changed \in Changes,
         ~w.refreshAt, w.pending = NoChanges,
         ApplyChanges(generation, w, changed), timers' \subseteq Gens,
         UNCHANGED <<disk, changes>>, watchers[generation].stage \notin {"asked", "ready"}
  PROVE  VInv'
<1> DEFINE hidden == {n \in changed.upserts : ~Visible(n, tab.show)}
           removes == changed.removes \union hidden
           upserts == changed.upserts \ hidden
           batch == [active |-> TRUE, path |-> tab.path,
                     names |-> upserts, left |-> upserts, got |-> NoRows]
<1>1. /\ removes \subseteq Names /\ upserts \subseteq Names
      /\ generation \in Gens /\ tab \in Tabs /\ snap \in Snapshots
  BY DEF VInv, ViewTypeOK, Changes
<1>2. /\ snap' = [snap EXCEPT !.rows = DropRows(snap.rows, removes)]
      /\ watch' = [w EXCEPT !.applying = (upserts # {})]
      /\ applies' = IF upserts = {} THEN applies ELSE [applies EXCEPT ![generation] = batch]
      /\ UNCHANGED <<blind, tab, generation, loading, failed, scanCancel, scans, watchers>>
  BY DEF ApplyChanges
<1> HIDE DEF removes, upserts
<1>3. DropRows(snap.rows, removes) \in Rows
  BY <1>1 DEF DropRows, Snapshots, Rows, Row
<1>4. snap' \in Snapshots
  BY <1>1, <1>2, <1>3 DEF Snapshots
<1>5. watch' \in Watches /\ ~watch'.refreshAt /\ watch'.pending = NoChanges
      /\ watch'.applying = (upserts # {})
  BY <1>2 DEF Watches
<1>6. batch \in Applies /\ batch.active /\ batch.path = tab.path /\ tab.path \in Dirs
  BY <1>1, EmptyTypes DEF Applies, Tabs
<1> HIDE DEF batch
<1>7. /\ applies' \in [Gens -> Applies]
      /\ upserts # {} => applies'[generation].active
      /\ applies'[generation].active => applies'[generation].path = tab.path
      /\ \A h \in Gens \ {generation} : applies'[h] = applies[h]
      /\ \A h \in Gens : applies'[h].left # {} => applies'[h].path \in Dirs
  BY <1>1, <1>2, <1>6 DEF VInv, ViewTypeOK, Placed, Local
<1>8. ViewTypeOK' /\ Placed'
  BY <1>2, <1>4, <1>5, <1>7 DEF VInv, ViewTypeOK, Placed
<1>9. Ahead' /\ Local' /\ Calm' /\ Quiet'
  BY <1>1, <1>2, <1>7 DEF VInv, Gens, Ahead, Local, Calm, Quiet
<1>10. BatchFlagsAreOwned'
  BY <1>2, <1>5, <1>7 DEF BatchFlagsAreOwned
<1> QED
  BY <1>8, <1>9, <1>10 DEF VInv

(* The batch timer: it is spent when its refresh time is.                  *)
LEMMA FireBatchStep ==
  ASSUME VInv, NEW g \in Gens, FireBatch(g)
  PROVE  VInv'
<1> DEFINE taken == [watch EXCEPT !.refreshAt = FALSE, !.pending = NoChanges]
<1>1. /\ timers' = timers \ {g} /\ timers' \subseteq Gens /\ UNCHANGED <<disk, changes>>
      /\ generation \in Gens /\ watch \in Watches /\ tab \in Tabs /\ snap \in Snapshots
      /\ watch.pending \in Changes
  BY DEF FireBatch, VInv, ViewTypeOK, Watches
<1>2. taken \in Watches /\ ~taken.refreshAt /\ taken.pending = NoChanges
  BY <1>1, EmptyTypes DEF Watches
<1>3. CASE ~IsCurrent(g) \/ ~watch.refreshAt \/ tab.root = "trash"
  <2>1. UNCHANGED <<blind, view, scans, watchers, watch, applies>>
    BY <1>3 DEF FireBatch
  <2>2. ViewTypeOK' /\ Placed' /\ Ahead' /\ Local' /\ Calm' /\ Quiet'
    BY <1>1, <2>1 DEF VInv, ViewTypeOK, Placed, Ahead, Local, Calm, Quiet, view
  <2>3. BatchFlagsAreOwned'
    BY <1>1, <1>3, <2>1 DEF VInv, Quiet, BatchFlagsAreOwned, IsCurrent, view
  <2> QED
    BY <2>2, <2>3 DEF VInv
<1>4. CASE ~(~IsCurrent(g) \/ ~watch.refreshAt \/ tab.root = "trash")
  <2> HIDE DEF taken
  <2>1. CASE LoadDirectory(tab, taken, snap) /\ UNCHANGED applies
    <3>1. /\ applies' \in [Gens -> Applies]
          /\ \A h \in Gens : applies'[h].left # {} => applies'[h].path \in Dirs
      BY <2>1 DEF VInv, ViewTypeOK, Placed
    <3> QED
      BY <1>1, <1>2, <2>1, <3>1, LoadStep
  <2>2. CASE ApplyChanges(g, taken, watch.pending)
    <3>1. g = generation /\ watch.refreshAt
      BY <1>4 DEF IsCurrent
    <3>2. watchers[generation].stage \notin {"asked", "ready"}
      BY <3>1 DEF VInv, Calm
    <3> QED
      BY <1>1, <1>2, <2>2, <3>1, <3>2, ApplyChangesStep
  <2> QED
    BY <1>4, <2>1, <2>2 DEF FireBatch, taken
<1> QED
  BY <1>3, <1>4

LEMMA ScanEntryStep ==
  ASSUME VInv, NEW g \in Gens, NEW n \in Names, ScanEntry(g, n)
  PROVE  VInv'
<1>1. applies[g] \in Applies /\ applies[g].left # {} /\ applies[g].path \in Places
  BY DEF VInv, ViewTypeOK, Placed, ScanEntry, Places
<1>2. PICK result \in {disk[applies[g].path][n]}
                       \union (IF "read" \in Failures THEN {Unavailable} ELSE {}) :
        applies' = [applies EXCEPT ![g].left = @ \ {n}, ![g].got[n] = result]
  BY DEF ScanEntry
<1>3. result \in Row
  BY <1>1, DiskRows DEF Row
<1> DEFINE batch == [applies[g] EXCEPT !.left = applies[g].left \ {n},
                                       !.got = [applies[g].got EXCEPT ![n] = result]]
<1>4. [applies[g].got EXCEPT ![n] = result] \in Rows
  BY <1>1, <1>3 DEF Applies, Rows
<1>5. /\ batch \in Applies /\ batch.active = applies[g].active
      /\ batch.path = applies[g].path
  BY <1>1, <1>4 DEF Applies
<1>6. applies' = [applies EXCEPT ![g] = batch]
  BY <1>2 DEF VInv, ViewTypeOK
<1>7. /\ generation \in Gens
      /\ UNCHANGED <<external, view, scans, watchers, watch, timers>>
  BY DEF ScanEntry, VInv, ViewTypeOK
<1> HIDE DEF batch
<1>8. /\ applies' \in [Gens -> Applies]
      /\ \A h \in Gens : applies'[h].active = applies[h].active
      /\ \A h \in Gens : applies'[h].path = applies[h].path
      /\ \A h \in Gens \ {g} : applies'[h] = applies[h]
  BY <1>5, <1>6 DEF VInv, ViewTypeOK
<1>9. Placed'
  <2>1. applies[g].path \in Dirs
    BY <1>1 DEF VInv, Placed
  <2> QED
    BY <1>7, <1>8, <2>1 DEF VInv, Placed
<1>10. ViewTypeOK' /\ Ahead' /\ Local' /\ Calm' /\ Quiet'
  BY <1>7, <1>8 DEF VInv, ViewTypeOK, Ahead, Local, Calm, Quiet, external, view
<1>11. BatchFlagsAreOwned'
  BY <1>7, <1>8 DEF VInv, BatchFlagsAreOwned, view
<1> QED
  BY <1>9, <1>10, <1>11 DEF VInv

(* A batch's results: the flag is reset with the task, or the task was of an *)
(* earlier load.                                                           *)
LEMMA DeliverApplyStep ==
  ASSUME VInv, NEW g \in Gens, DeliverApply(g)
  PROVE  VInv'
<1> DEFINE batch == applies[g]
           unread == {n \in batch.names : batch.got[n] = Unavailable}
           rows == [n \in Names |-> IF n \in unread THEN Absent
                                    ELSE IF n \in batch.names THEN batch.got[n] ELSE snap.rows[n]]
           applied == [watch EXCEPT !.applying = FALSE]
           shown == [snap EXCEPT !.rows = rows]
<1>1. /\ batch \in Applies /\ batch.active
      /\ applies' = [applies EXCEPT ![g] = NoApply]
      /\ UNCHANGED <<disk, changes, timers>>
      /\ generation \in Gens /\ watch \in Watches /\ tab \in Tabs /\ snap \in Snapshots
      /\ timers' \subseteq Gens
  BY DEF DeliverApply, VInv, ViewTypeOK
<1>2. rows \in Rows
  BY <1>1 DEF Applies, Snapshots, Rows, Row
<1>3. shown \in Snapshots
  BY <1>1, <1>2 DEF Snapshots
<1>4. /\ applied \in Watches /\ ~applied.applying
      /\ applied.refreshAt = watch.refreshAt /\ applied.pending = watch.pending
  BY <1>1 DEF Watches
<1>5. /\ applies' \in [Gens -> Applies]
      /\ \A h \in Gens : applies'[h].left # {} => applies'[h].path \in Dirs
      /\ \A h \in Gens \ {g} : applies'[h] = applies[h]
      /\ \A h \in Gens : applies'[h].active => applies[h] = applies'[h]
  BY <1>1, EmptyTypes DEF VInv, ViewTypeOK, Placed, NoApply
<1>6. CASE ~IsCurrent(g) \/ tab.path # batch.path
  <2>1. UNCHANGED <<blind, view, scans, watchers, watch>>
    BY <1>6 DEF DeliverApply
  <2>2. ViewTypeOK' /\ Placed' /\ Ahead' /\ Local' /\ Calm' /\ Quiet'
    BY <1>1, <1>5, <2>1 DEF VInv, ViewTypeOK, Placed, Ahead, Local, Calm, Quiet, view
  <2>3. BatchFlagsAreOwned'
    BY <1>1, <1>5, <1>6, <2>1 DEF VInv, Local, BatchFlagsAreOwned, IsCurrent, view
  <2> QED
    BY <2>2, <2>3 DEF VInv
<1>7. CASE IsCurrent(g) /\ tab.path = batch.path /\ LoadDirectory(tab, applied, shown)
  <2> HIDE DEF applied, shown
  <2> QED
    BY <1>1, <1>3, <1>4, <1>5, <1>7, LoadStep
<1>8. CASE /\ IsCurrent(g)
           /\ watch' = applied /\ snap' = shown
           /\ UNCHANGED <<blind, tab, generation, loading, failed, scanCancel, scans, watchers>>
  <2> HIDE DEF applied, shown
  <2>1. ViewTypeOK' /\ Placed'
    BY <1>1, <1>3, <1>4, <1>5, <1>8 DEF VInv, ViewTypeOK, Placed
  <2>2. Ahead' /\ Local' /\ Calm' /\ Quiet'
    BY <1>1, <1>4, <1>5, <1>8 DEF VInv, Ahead, Local, Calm, Quiet
  <2>3. BatchFlagsAreOwned'
    BY <1>1, <1>4, <1>8 DEF VInv, BatchFlagsAreOwned
  <2> QED
    BY <2>1, <2>2, <2>3 DEF VInv
<1> QED
  BY <1>6, <1>7, <1>8 DEF DeliverApply

-----------------------------------------------------------------------------
LEMMA InitVInv ==
  ASSUME Init
  PROVE  VInv
<1>1. PICK d \in Dirs, show \in InitialShow :
        /\ disk \in [Places -> [Names -> {Absent, 1}]] /\ changes = 0 /\ blind = {}
        /\ tab = [path |-> d, root |-> "directory", show |-> show]
        /\ generation = 1 /\ loading = TRUE /\ failed = FALSE
        /\ snap = [path |-> d, from |-> d, rows |-> NoRows, phase |-> "complete"]
        /\ scanCancel = 1
        /\ scans = [[g \in Gens |-> NoScan] EXCEPT ![1] = NewScan(tab)]
        /\ watchers = [[g \in Gens |-> NoWatcher] EXCEPT
                         ![1] = [stage |-> "asked", path |-> d, queue |-> <<>>]]
        /\ watch = NoWatch /\ timers = {} /\ applies = [g \in Gens |-> NoApply]
  BY DEF Init
<1>2. 1 \in Gens /\ 1 \in 0 .. MaxGen /\ 0 \in 0 .. MaxChanges /\ 1 \in Version
  BY BoundsAssumption DEF Gens, Version
<1>3. tab \in Tabs /\ snap \in Snapshots
  BY <1>1, EmptyTypes, FlagsAssumption DEF Tabs, Snapshots, Places
<1>4. NewScan(tab) \in Scans /\ NewScan(tab).pc # "none" /\ NewScan(tab).place \in Places
  BY <1>3, EmptyTypes DEF NewScan, Scans, Tabs, Places, NoScan
<1>5. scans \in [Gens -> Scans]
  BY <1>1, <1>2, <1>4, EmptyTypes
<1>6. /\ watchers \in [Gens -> Watchers] /\ watchers[1].stage = "asked"
      /\ \A g \in Gens : g > 1 => watchers[g].stage = "none"
  <2>1. <<>> \in Seq(Event)
    OBVIOUS
  <2>2. [stage |-> "asked", path |-> d, queue |-> <<>>] \in Watchers
    BY <2>1 DEF Watchers
  <2>3. \A g \in Gens : g > 1 => watchers[g] = NoWatcher
    BY <1>1, <1>2
  <2> QED
    BY <1>1, <1>2, <2>2, <2>3, EmptyTypes DEF NoWatcher
<1>7. disk \in [Places -> [Names -> {Absent} \union Version]]
  BY <1>1, <1>2
<1>8. applies \in [Gens -> Applies] /\ \A g \in Gens : applies[g] = NoApply
  BY <1>1, EmptyTypes
<1>9. ViewTypeOK
  BY <1>1, <1>2, <1>3, <1>5, <1>6, <1>7, <1>8, EmptyTypes DEF ViewTypeOK
<1>10. Placed
  BY <1>1, <1>4, <1>8 DEF Placed, NoScan, NoApply
<1>11. Ahead /\ Local /\ Calm /\ Quiet
  BY <1>1, <1>2, <1>6, <1>8 DEF Ahead, Local, Calm, Quiet, NoApply, NoWatch
<1>12. BatchFlagsAreOwned
  BY <1>1, <1>6 DEF BatchFlagsAreOwned
<1> QED
  BY <1>9, <1>10, <1>11, <1>12 DEF VInv

LEMMA UserStep ==
  ASSUME VInv, User
  PROVE  VInv'
<1>1. tab \in Tabs
  BY DEF VInv, ViewTypeOK
<1>2. CASE Refresh
  BY <1>1, <1>2, CommandStep DEF Refresh
<1>3. CASE OpenTrash
  <2>1. [tab EXCEPT !.root = "trash"] \in Tabs
    BY <1>1 DEF Tabs
  <2> QED
    BY <1>3, <2>1, CommandStep DEF OpenTrash
<1>4. CASE ToggleHidden
  <2>1. [tab EXCEPT !.show = ~tab.show] \in Tabs
    BY <1>1 DEF Tabs
  <2> QED
    BY <1>4, <2>1, CommandStep DEF ToggleHidden
<1>5. ASSUME NEW d \in Dirs, Go(d)
      PROVE  VInv'
  <2>1. [tab EXCEPT !.path = d, !.root = "directory"] \in Tabs
    BY <1>1 DEF Tabs
  <2> QED
    BY <1>5, <2>1, CommandStep DEF Go
<1> QED
  BY <1>2, <1>3, <1>4, <1>5 DEF User

LEMMA OtherProgramStep ==
  ASSUME VInv, NEW d \in Dirs, External(d)
  PROVE  VInv'
<1>1. disk[d] \in [Names -> {Absent} \union Version]
  BY DEF VInv, ViewTypeOK, Places
<1>2. ASSUME changes < MaxChanges  PROVE NewVersion \in Version
  BY <1>2, BoundsAssumption DEF VInv, ViewTypeOK, NewVersion, Version
<1>3. ASSUME NEW names \in SUBSET Names, NEW rows, NEW event \in Event,
             ChangeFolder(d, names, rows, event),
             changes < MaxChanges => rows \in [Names -> {Absent} \union Version]
      PROVE  VInv'
  <2>1. rows \in [Names -> {Absent} \union Version]
    BY <1>3 DEF ChangeFolder
  <2> QED
    BY <1>3, <2>1, ExternalStep
<1>4. ASSUME NEW n \in Names
      PROVE  /\ {n} \in SUBSET Names
             /\ [kind |-> "upsert", name |-> n] \in Event
             /\ [kind |-> "remove", name |-> n] \in Event
             /\ [disk[d] EXCEPT ![n] = Absent] \in [Names -> {Absent} \union Version]
             /\ changes < MaxChanges =>
                  [disk[d] EXCEPT ![n] = NewVersion] \in [Names -> {Absent} \union Version]
  <2>1. [kind |-> "upsert", name |-> n] \in Event /\ [kind |-> "remove", name |-> n] \in Event
    BY DEF Event
  <2>2. [disk[d] EXCEPT ![n] = Absent] \in [Names -> {Absent} \union Version]
    BY <1>1
  <2>3. ASSUME changes < MaxChanges
        PROVE  [disk[d] EXCEPT ![n] = NewVersion] \in [Names -> {Absent} \union Version]
    BY <1>1, <1>2, <2>3
  <2> QED
    BY <2>1, <2>2, <2>3
<1>5. [kind |-> "self"] \in Event /\ [kind |-> "rescan"] \in Event
      /\ [kind |-> "error"] \in Event
  BY DEF Event
<1>6. CASE \E n \in Names : ChangeFolder(d, {n}, [disk[d] EXCEPT ![n] = NewVersion],
                                        [kind |-> "upsert", name |-> n])
  <2>1. PICK n \in Names : ChangeFolder(d, {n}, [disk[d] EXCEPT ![n] = NewVersion],
                                        [kind |-> "upsert", name |-> n])
    BY <1>6
  <2> QED
    BY <2>1, <1>4, <1>3
<1>7. CASE \E n \in Names : ChangeFolder(d, {n}, [disk[d] EXCEPT ![n] = Absent],
                                        [kind |-> "remove", name |-> n])
  <2>1. PICK n \in Names : ChangeFolder(d, {n}, [disk[d] EXCEPT ![n] = Absent],
                                        [kind |-> "remove", name |-> n])
    BY <1>7
  <2> QED
    BY <2>1, <1>4, <1>3
<1>8. CASE \E m, n \in Names :
             ChangeFolder(d, {m, n}, [disk[d] EXCEPT ![m] = Absent, ![n] = NewVersion],
                          [kind |-> "rename", from |-> m, to |-> n])
  <2>1. PICK m, n \in Names :
          ChangeFolder(d, {m, n}, [disk[d] EXCEPT ![m] = Absent, ![n] = NewVersion],
                       [kind |-> "rename", from |-> m, to |-> n])
    BY <1>8
  <2>2. {m, n} \in SUBSET Names /\ [kind |-> "rename", from |-> m, to |-> n] \in Event
    BY DEF Event
  <2>3. ASSUME changes < MaxChanges
        PROVE  [disk[d] EXCEPT ![m] = Absent, ![n] = NewVersion]
                 \in [Names -> {Absent} \union Version]
    BY <1>1, <1>2, <2>3
  <2> QED
    BY <2>1, <2>2, <2>3, <1>3
<1>9. CASE \E n \in Names : ChangeFolder(d, {n}, [disk[d] EXCEPT ![n] = NewVersion],
                                        [kind |-> "rescan"])
  <2>1. PICK n \in Names : ChangeFolder(d, {n}, [disk[d] EXCEPT ![n] = NewVersion],
                                        [kind |-> "rescan"])
    BY <1>9
  <2> QED
    BY <2>1, <1>4, <1>5, <1>3
<1>10. ASSUME NEW kind \in {"self", "error"}, ChangeFolder(d, {}, disk[d], [kind |-> kind])
       PROVE  VInv'
  BY <1>10, <1>1, <1>5, <1>3
<1>11. ASSUME NEW n \in Names, NEW kind \in {"write", "any"},
              ChangeFolder(d, {n}, [disk[d] EXCEPT ![n] = NewVersion],
                IF kind = "write" THEN [kind |-> "upsert", name |-> n] ELSE [kind |-> "rescan"])
       PROVE  VInv'
  <2>1. CASE kind = "write"
    BY <1>11, <2>1, <1>6
  <2>2. CASE kind = "any"
    BY <1>11, <2>2, <1>9
  <2> QED
    BY <2>1, <2>2
<1> QED
  BY <1>7, <1>8, <1>10, <1>11 DEF External

LEMMA SystemStep ==
  ASSUME VInv, NEW g \in Gens, System(g)
  PROVE  VInv'
BY DiscoverStep, FinishScanStep, ScanTrashStep, ReadMetadataStep, DeliverScanStep,
   StartWatchingStep, InstallWatcherStep, ReceiveEventStep, FireBatchStep, ScanEntryStep,
   DeliverApplyStep
   DEF System, ScanThread, WatchThread, ApplyThread

LEMMA StutterStep ==
  ASSUME VInv, UNCHANGED vars
  PROVE  VInv'
BY DEF vars, VInv, ViewTypeOK, Placed, Ahead, Local, Calm, Quiet, BatchFlagsAreOwned

LEMMA Invariance == Spec => []VInv
<1>1. VInv /\ [Next]_vars => VInv'
  BY UserStep, OtherProgramStep, SystemStep, StutterStep DEF Next
<1> QED
  BY InitVInv, <1>1, PTL DEF Spec

\* Every variable of the view, its tasks and its channels has its type.
THEOREM ViewTypeCorrect == Spec => []ViewTypeOK
<1>1. VInv => ViewTypeOK
  BY DEF VInv
<1> QED
  BY <1>1, Invariance, PTL

\* schedule_directory_watcher_batch and apply_watcher_changes: for any number of
\* loads and changes, a set refresh time has its timer, a running batch its
\* task, and pending changes a refresh time, as long as the event loop serves
\* the current generation.
THEOREM BatchesAreServed == Spec => []BatchFlagsAreOwned
<1>1. VInv => BatchFlagsAreOwned
  BY DEF VInv
<1> QED
  BY <1>1, Invariance, PTL

-----------------------------------------------------------------------------
(* A load that ended well shows the place the tab is at, and the rows of a *)
(* window at rest are those of the disk, for any folders, names, commands, *)
(* failures and bounds.                                                    *)

PlaceOf(t) == IF t.root = "trash" THEN Trash ELSE t.path
AllRead(rows) == \A n \in Names : rows[n] # Pending
CompleteIsRead(message) ==
    message.result = "ok" => (message.phase = "complete" => AllRead(message.rows))

\* The scan of the current generation reads the place the tab is at.
Home == scans[generation].pc # "none" => scans[generation].place = PlaceOf(tab)

\* A snapshot sent as complete has its metadata.
Sent == \A g \in Gens : \A i \in 1 .. Len(scans[g].out) : CompleteIsRead(scans[g].out[i])

\* So has what a batch has read.
Reread == \A g \in Gens : AllRead(applies[g].got)

RInv == Home /\ Sent /\ Reread /\ LoadedRowsAreOfTheTab

-----------------------------------------------------------------------------
LEMMA EmptyIsRead == AllRead(NoRows) /\ AllRead(NoApply.got)
BY DEF AllRead, NoRows, NoApply, Absent, Pending

(* load_directory starts a scan of the tab's place and is not done.        *)
LEMMA LoadRows ==
  ASSUME VInv, RInv, NEW t \in Tabs, NEW w \in Watches, NEW s \in Snapshots,
         LoadDirectory(t, w, s), Reread'
  PROVE  RInv'
<1> DEFINE g == generation + 1
<1>1. g \in Gens /\ scans' = [CancelScan(scans) EXCEPT ![g] = NewScan(t)]
      /\ generation' = g /\ tab' = t /\ loading' = TRUE
  BY NextGeneration DEF LoadDirectory, VInv
<1>2. /\ DOMAIN CancelScan(scans) = Gens
      /\ \A h \in Gens : CancelScan(scans)[h].out = scans[h].out
  <2>1. CASE scanCancel = 0
    BY <2>1 DEF CancelScan, VInv, ViewTypeOK
  <2>2. CASE scanCancel # 0
    BY <2>2 DEF CancelScan, VInv, ViewTypeOK, Scans
  <2> QED
    BY <2>1, <2>2
<1>3. NewScan(t).place = PlaceOf(t) /\ NewScan(t).out = <<>>
  BY DEF NewScan, NoScan, PlaceOf
<1>4. Home'
  BY <1>1, <1>2, <1>3 DEF Home, PlaceOf
<1>5. Sent'
  <2> SUFFICES ASSUME NEW h \in Gens, NEW i \in 1 .. Len(scans'[h].out)
               PROVE  CompleteIsRead(scans'[h].out[i])
    BY DEF Sent, CompleteIsRead, AllRead
  <2>1. CASE h = g
    BY <1>1, <1>2, <1>3, <2>1
  <2>2. CASE h # g
    <3>1. scans'[h].out = scans[h].out
      BY <1>1, <1>2, <2>2
    <3> QED
      BY <3>1 DEF RInv, Sent
  <2> QED
    BY <2>1, <2>2
<1>6. LoadedRowsAreOfTheTab'
  BY <1>1 DEF LoadedRowsAreOfTheTab
<1> QED
  BY <1>4, <1>5, <1>6 DEF RInv

(* Steps that leave the view and the scans alone.                          *)
LEMMA ViewUnchanged ==
  ASSUME RInv, UNCHANGED <<view, scans>>, Reread'
  PROVE  RInv'
BY DEF RInv, view, Home, Sent, CompleteIsRead, AllRead, LoadedRowsAreOfTheTab, PlaceOf

LEMMA AppliesUnchanged ==
  ASSUME RInv, UNCHANGED applies
  PROVE  Reread'
BY DEF RInv, Reread, AllRead

(* A change of one scan that leaves the view alone.                        *)
LEMMA ScanRows ==
  ASSUME VInv, RInv, NEW g \in Gens, NEW scan, scans' = [scans EXCEPT ![g] = scan],
         \A i \in 1 .. Len(scan.out) : CompleteIsRead(scan.out[i]),
         scan.pc # "none" => scans[g].pc # "none" /\ scan.place = scans[g].place
  PROVE  /\ UNCHANGED <<tab, generation>> => Home'
         /\ Sent'
<1>1. generation \in Gens /\ scans \in [Gens -> Scans]
  BY DEF VInv, ViewTypeOK
<1>2. ASSUME UNCHANGED <<tab, generation>>  PROVE Home'
  <2>1. CASE generation = g
    BY <1>1, <1>2, <2>1 DEF RInv, Home, PlaceOf
  <2>2. CASE generation # g
    BY <1>1, <1>2, <2>2 DEF RInv, Home, PlaceOf
  <2> QED
    BY <2>1, <2>2
<1>3. Sent'
  <2> SUFFICES ASSUME NEW h \in Gens, NEW i \in 1 .. Len(scans'[h].out)
               PROVE  CompleteIsRead(scans'[h].out[i])
    BY DEF Sent, CompleteIsRead, AllRead
  <2>1. CASE h = g
    BY <1>1, <2>1
  <2>2. CASE h # g
    <3>1. scans'[h] = scans[h]
      BY <1>1, <2>2
    <3> QED
      BY <3>1 DEF RInv, Sent
  <2> QED
    BY <2>1, <2>2
<1> QED
  BY <1>2, <1>3

LEMMA ScanThreadRows ==
  ASSUME VInv, RInv, NEW g \in Gens, ScanThread(g)
  PROVE  RInv'
<1>1. scans[g] \in Scans /\ UNCHANGED <<view, watchers, watch, timers, applies>>
      /\ scans[g].pc # "none"
  BY ScanThreadLeaves DEF VInv, ViewTypeOK
<1>2. UNCHANGED <<tab, generation>> /\ LoadedRowsAreOfTheTab' /\ Reread'
  BY <1>1, AppliesUnchanged DEF RInv, view, LoadedRowsAreOfTheTab
<1>3. ASSUME NEW pc, pc # "none", NEW rows, NEW message, ScanStep(g, pc, rows, message),
             CompleteIsRead(message)
      PROVE  RInv'
  <2> DEFINE scan == [scans[g] EXCEPT !.pc = pc, !.rows = rows, !.out = Send(g, message)]
  <2>1. scans' = [scans EXCEPT ![g] = scan]
    BY <1>3 DEF ScanStep, VInv, ViewTypeOK
  <2>2. scan.place = scans[g].place /\ scan.out = Append(scans[g].out, message)
    BY <1>1 DEF Scans, Send
  <2>3. ASSUME NEW i \in 1 .. Len(scan.out)  PROVE CompleteIsRead(scan.out[i])
    <3>1. scans[g].out \in Seq(Message)
      BY <1>1 DEF Scans
    <3>2. Len(scan.out) = Len(scans[g].out) + 1 /\ Len(scans[g].out) \in Nat
      BY <2>2, <3>1
    <3>3. CASE i = Len(scans[g].out) + 1
      BY <1>3, <2>2, <3>1, <3>3
    <3>4. CASE i # Len(scans[g].out) + 1
      <4>1. i \in 1 .. Len(scans[g].out) /\ scan.out[i] = scans[g].out[i]
        BY <2>2, <3>1, <3>2, <3>4
      <4> QED
        BY <4>1 DEF RInv, Sent
    <3> QED
      BY <3>3, <3>4
  <2> HIDE DEF scan
  <2> QED
    BY <1>1, <1>2, <2>1, <2>2, <2>3, ScanRows DEF RInv
<1>4. /\ CompleteIsRead(Interrupted) /\ CompleteIsRead(Failure)
      /\ \A rows : CompleteIsRead(Found("discovered", rows))
      /\ \A rows : AllRead(rows) => CompleteIsRead(Found("complete", rows))
  BY DEF CompleteIsRead, Interrupted, Failure, Found
<1>5. CASE Discover(g)
  BY <1>3, <1>4, <1>5, DiscoverCases
<1>6. CASE FinishScan(g)
  <2>1. CASE ScanStep(g, "done", NoRows, Interrupted)
    BY <2>1, <1>3, <1>4
  <2>2. CASE /\ \A n \in Names : scans[g].rows[n] # Pending
             /\ ScanStep(g, "done", NoRows, Found("complete", scans[g].rows))
    BY <2>2, <1>3, <1>4 DEF AllRead
  <2> QED
    BY <1>6, <2>1, <2>2 DEF FinishScan
<1>7. CASE ScanTrash(g)
  <2>1. AllRead(disk[Trash])
    BY BoundsAssumption DEF AllRead, VInv, ViewTypeOK, Places, Absent, Version, Pending
  <2> QED
    BY <1>7, <2>1, <1>3, <1>4 DEF ScanTrash
<1>8. CASE \E n \in Names : ReadMetadata(g, n)
  <2>1. PICK n \in Names : ReadMetadata(g, n)
    BY <1>8
  <2> PICK row \in {Unavailable, disk[scans[g].place][n]} : scans' = [scans EXCEPT ![g].rows[n] = row]
    BY <2>1 DEF ReadMetadata
  <2> DEFINE scan == [scans[g] EXCEPT !.rows[n] = row]
  <2>2. scans' = [scans EXCEPT ![g] = scan]
    BY DEF VInv, ViewTypeOK
  <2>3. scan.place = scans[g].place /\ scan.out = scans[g].out
    BY <1>1 DEF Scans
  <2>4. \A i \in 1 .. Len(scan.out) : CompleteIsRead(scan.out[i])
    BY <2>3 DEF RInv, Sent
  <2> HIDE DEF scan
  <2> QED
    BY <1>1, <1>2, <2>2, <2>3, <2>4, ScanRows DEF RInv
<1> QED
  BY <1>5, <1>6, <1>7, <1>8 DEF ScanThread

(* A result is shown only by the scan of the current generation.           *)
LEMMA DeliverScanRows ==
  ASSUME VInv, RInv, NEW g \in Gens, DeliverScan(g)
  PROVE  RInv'
<1> DEFINE message == Head(scans[g].out)
<1>1. /\ scans[g] \in Scans /\ scans[g].out # <<>> /\ scans[g].pc # "none"
      /\ scans[g].out \in Seq(Message) /\ scans \in [Gens -> Scans]
  BY DEF VInv, ViewTypeOK, Placed, DeliverScan, Scans
<1>2. UNCHANGED <<tab, generation, applies>>
  BY DEF DeliverScan
<1>3. Reread'
  BY <1>2, AppliesUnchanged
<1>4. message \in Message /\ CompleteIsRead(message)
  <2>1. 1 \in 1 .. Len(scans[g].out) /\ message = scans[g].out[1] /\ message \in Message
    BY <1>1
  <2> QED
    BY <2>1 DEF RInv, Sent
<1>5. Home' /\ Sent'
  <2>1. CASE scans[g].pc = "done" /\ Len(scans[g].out) = 1
    <3>1. scans' = [scans EXCEPT ![g] = NoScan]
      BY <2>1 DEF DeliverScan, TakeResult
    <3>2. NoScan.pc = "none" /\ NoScan.out = <<>>
      BY DEF NoScan
    <3>3. \A i \in 1 .. Len(NoScan.out) : CompleteIsRead(NoScan.out[i])
      BY <3>2
    <3> QED
      BY <1>2, <3>1, <3>2, <3>3, ScanRows
  <2>2. CASE ~(scans[g].pc = "done" /\ Len(scans[g].out) = 1)
    <3> DEFINE scan == [scans[g] EXCEPT !.out = Tail(scans[g].out)]
    <3>1. scans' = [scans EXCEPT ![g] = scan]
      BY <1>1, <2>2 DEF DeliverScan, TakeResult
    <3>2. scan.place = scans[g].place /\ scan.out = Tail(scans[g].out)
      BY <1>1 DEF Scans
    <3>3. ASSUME NEW i \in 1 .. Len(scan.out)  PROVE CompleteIsRead(scan.out[i])
      <4>1. i + 1 \in 1 .. Len(scans[g].out) /\ scan.out[i] = scans[g].out[i + 1]
        BY <1>1, <3>2, <3>3
      <4> QED
        BY <4>1 DEF RInv, Sent
    <3> HIDE DEF scan
    <3>4. Home' /\ Sent'
      BY <1>1, <1>2, <3>1, <3>2, <3>3, ScanRows
    <3> QED
      BY <3>4
  <2> QED
    BY <2>1, <2>2
<1>6. LoadedRowsAreOfTheTab'
  <2>1. CASE UNCHANGED <<loading, failed, snap>>
    BY <1>2, <2>1 DEF RInv, LoadedRowsAreOfTheTab
  <2>2. CASE g = generation /\ ShowResult(scans[g].place, message)
    <3>1. scans[g].place = PlaceOf(tab)
      BY <1>1, <2>2 DEF RInv, Home
    <3>2. CASE message.result = "ok"
      <4> HIDE DEF message
      <4>0. /\ loading' = (message.phase # "complete")
            /\ snap' = [path |-> IF scans[g].place = Trash THEN snap.path ELSE scans[g].place,
                        from |-> scans[g].place, rows |-> message.rows,
                        phase |-> message.phase]
        BY <2>2, <3>2, Zenon DEF ShowResult
      <4>1. /\ ~loading' => message.phase = "complete"
            /\ snap'.from = scans[g].place /\ snap'.rows = message.rows
            /\ snap'.phase = message.phase
        BY <4>0
      <4>2. message.phase = "complete" => AllRead(message.rows)
        BY <1>4, <3>2 DEF CompleteIsRead
      <4> QED
        BY <1>2, <3>1, <4>1, <4>2 DEF LoadedRowsAreOfTheTab, PlaceOf, AllRead
    <3>3. CASE message.result = "interrupted"
      BY <2>1, <2>2, <3>3 DEF ShowResult
    <3>4. CASE message.result = "failed"
      BY <2>2, <3>4 DEF ShowResult, LoadedRowsAreOfTheTab
    <3> QED
      BY <1>4, <3>2, <3>3, <3>4 DEF Message
  <2> QED
    BY <2>1, <2>2 DEF DeliverScan, IsCurrent
<1> QED
  BY <1>3, <1>5, <1>6 DEF RInv

(* A batch changes rows of the snapshot and nothing else of it.            *)
LEMMA BatchRows ==
  ASSUME VInv, RInv, NEW rows, AllRead(snap.rows) => AllRead(rows),
         snap' = [snap EXCEPT !.rows = rows],
         UNCHANGED <<tab, generation, loading, failed, scans>>, Reread'
  PROVE  RInv'
<1>1. snap \in Snapshots
  BY DEF VInv, ViewTypeOK
<1>2. snap'.from = snap.from /\ snap'.phase = snap.phase /\ snap'.rows = rows
  BY <1>1 DEF Snapshots
<1>3. LoadedRowsAreOfTheTab'
  BY <1>2 DEF RInv, LoadedRowsAreOfTheTab, AllRead
<1> QED
  BY <1>3 DEF RInv, Home, Sent, CompleteIsRead, AllRead, PlaceOf

LEMMA FireBatchRows ==
  ASSUME VInv, RInv, NEW g \in Gens, FireBatch(g)
  PROVE  RInv'
<1> DEFINE taken == [watch EXCEPT !.refreshAt = FALSE, !.pending = NoChanges]
<1>1. watch \in Watches /\ tab \in Tabs /\ snap \in Snapshots /\ applies \in [Gens -> Applies]
  BY DEF VInv, ViewTypeOK
<1>2. taken \in Watches
  BY <1>1, EmptyTypes DEF Watches
<1>3. CASE UNCHANGED <<view, scans, applies>>
  BY <1>3, AppliesUnchanged, ViewUnchanged
<1>4. CASE LoadDirectory(tab, taken, snap) /\ UNCHANGED applies
  BY <1>1, <1>2, <1>4, AppliesUnchanged, LoadRows
<1>5. CASE ApplyChanges(g, taken, watch.pending)
  <2> DEFINE hidden == {n \in watch.pending.upserts : ~Visible(n, tab.show)}
             removes == watch.pending.removes \union hidden
             upserts == watch.pending.upserts \ hidden
             rows == DropRows(snap.rows, removes)
  <2>1. snap' = [snap EXCEPT !.rows = rows]
    BY <1>5 DEF ApplyChanges
  <2>2. AllRead(snap.rows) => AllRead(rows)
    BY DEF AllRead, DropRows, Absent, Pending
  <2>3. Reread'
    <3>1. CASE applies' = applies
      BY <3>1, AppliesUnchanged
    <3>2. CASE applies' = [applies EXCEPT ![g] = [active |-> TRUE, path |-> tab.path,
                              names |-> upserts, left |-> upserts, got |-> NoRows]]
      BY <1>1, <3>2, EmptyIsRead DEF RInv, Reread, AllRead
    <3> QED
      BY <1>5, <3>1, <3>2 DEF ApplyChanges
  <2>4. UNCHANGED <<tab, generation, loading, failed, scans>>
    BY <1>5 DEF ApplyChanges
  <2> HIDE DEF rows
  <2> QED
    BY <2>1, <2>2, <2>3, <2>4, BatchRows
<1> QED
  BY <1>3, <1>4, <1>5 DEF FireBatch

LEMMA ScanEntryRows ==
  ASSUME VInv, RInv, NEW g \in Gens, NEW n \in Names, ScanEntry(g, n)
  PROVE  RInv'
<1>1. /\ applies \in [Gens -> Applies] /\ applies[g] \in Applies
      /\ applies[g].path \in Places
  BY DEF VInv, ViewTypeOK, Placed, ScanEntry, Places
<1>2. PICK result \in {disk[applies[g].path][n]}
                        \union (IF "read" \in Failures THEN {Unavailable} ELSE {}) :
        applies' = [applies EXCEPT ![g].left = @ \ {n}, ![g].got[n] = result]
  BY DEF ScanEntry
<1>3. result # Pending
  BY <1>1, <1>2, BoundsAssumption
     DEF VInv, ViewTypeOK, Absent, Version, Pending, Unavailable
<1>4. Reread'
  <2> SUFFICES ASSUME NEW h \in Gens, NEW m \in Names
               PROVE  applies'[h].got[m] # Pending
    BY DEF Reread, AllRead
  <2>1. applies[h].got[m] # Pending /\ applies[h] \in Applies
    BY <1>1 DEF RInv, Reread, AllRead
  <2>2. applies[g].got \in Rows
    BY <1>1 DEF Applies
  <2>3. CASE h = g
    BY <1>1, <1>2, <1>3, <2>1, <2>2, <2>3 DEF Applies, Rows
  <2>4. CASE h # g
    BY <1>1, <1>2, <2>1, <2>4
  <2> QED
    BY <2>3, <2>4
<1> QED
  BY <1>4, ViewUnchanged DEF ScanEntry

LEMMA DeliverApplyRows ==
  ASSUME VInv, RInv, NEW g \in Gens, DeliverApply(g)
  PROVE  RInv'
<1> DEFINE batch == applies[g]
           unread == {n \in batch.names : batch.got[n] = Unavailable}
           rows == [n \in Names |-> IF n \in unread THEN Absent
                                    ELSE IF n \in batch.names THEN batch.got[n] ELSE snap.rows[n]]
           applied == [watch EXCEPT !.applying = FALSE]
           shown == [snap EXCEPT !.rows = rows]
<1>1. /\ watch \in Watches /\ tab \in Tabs /\ snap \in Snapshots /\ batch \in Applies
      /\ applies \in [Gens -> Applies] /\ applies' = [applies EXCEPT ![g] = NoApply]
  BY DEF VInv, ViewTypeOK, DeliverApply
<1>2. Reread'
  BY <1>1, EmptyIsRead DEF RInv, Reread, AllRead
<1>3. CASE UNCHANGED <<view, scans>>
  BY <1>2, <1>3, ViewUnchanged
<1>4. CASE LoadDirectory(tab, applied, shown)
  <2>1. applied \in Watches
    BY <1>1 DEF Watches
  <2>2. rows \in Rows
    BY <1>1 DEF Rows, Row, Applies, Snapshots
  <2>3. shown \in Snapshots
    BY <1>1, <2>2 DEF Snapshots
  <2> HIDE DEF shown, applied
  <2> QED
    BY <1>1, <1>2, <1>4, <2>1, <2>3, LoadRows
<1>5. CASE snap' = shown /\ UNCHANGED <<tab, generation, loading, failed, scans>>
  <2>1. AllRead(snap.rows) => AllRead(rows)
    BY DEF RInv, Reread, AllRead, Absent, Pending
  <2> HIDE DEF rows
  <2> QED
    BY <1>2, <1>5, <2>1, BatchRows
<1> QED
  BY <1>3, <1>4, <1>5 DEF DeliverApply

-----------------------------------------------------------------------------
(* Every command of the user ends in load_directory.                       *)
LEMMA UserLoads ==
  ASSUME VInv, User
  PROVE  /\ \E t \in Tabs : LoadDirectory(t, watch, snap)
         /\ watch \in Watches /\ snap \in Snapshots /\ UNCHANGED <<applies, timers>>
<1>1. tab \in Tabs /\ watch \in Watches /\ snap \in Snapshots /\ UNCHANGED <<applies, timers>>
  BY DEF VInv, ViewTypeOK, User, Refresh, OpenTrash, ToggleHidden, Go
<1>2. \E t \in Tabs : LoadDirectory(t, watch, snap)
  <2>1. CASE Refresh
    BY <1>1, <2>1 DEF Refresh
  <2>2. CASE OpenTrash
    BY <1>1, <2>2 DEF OpenTrash, Tabs
  <2>3. CASE ToggleHidden
    <3>1. [tab EXCEPT !.show = ~tab.show] \in Tabs
      BY <1>1 DEF Tabs
    <3> QED
      BY <2>3, <3>1 DEF ToggleHidden
  <2>4. CASE \E d \in Dirs : Go(d)
    <3>1. PICK d \in Dirs : Go(d)
      BY <2>4
    <3>2. [tab EXCEPT !.path = d, !.root = "directory"] \in Tabs
      BY <1>1 DEF Tabs
    <3> QED
      BY <3>1, <3>2 DEF Go
  <2> QED
    BY <2>1, <2>2, <2>3, <2>4 DEF User
<1> QED
  BY <1>1, <1>2

LEMMA UserRows ==
  ASSUME VInv, RInv, User
  PROVE  RInv'
BY UserLoads, AppliesUnchanged, LoadRows

LEMMA InitRInv ==
  ASSUME Init
  PROVE  RInv
<1>1. PICK d \in Dirs, show \in InitialShow :
        /\ tab = [path |-> d, root |-> "directory", show |-> show]
        /\ generation = 1 /\ loading = TRUE
        /\ scans = [[g \in Gens |-> NoScan] EXCEPT ![1] = NewScan(tab)]
        /\ applies = [g \in Gens |-> NoApply]
  BY DEF Init
<1>2. 1 \in Gens
  BY BoundsAssumption DEF Gens
<1>3. NewScan(tab).place = PlaceOf(tab) /\ NewScan(tab).out = <<>> /\ NoScan.out = <<>>
  BY DEF NewScan, NoScan, PlaceOf
<1>4. Home /\ LoadedRowsAreOfTheTab
  BY <1>1, <1>2, <1>3 DEF Home, LoadedRowsAreOfTheTab
<1>5. \A g \in Gens : scans[g].out = <<>>
  BY <1>1, <1>2, <1>3
<1>6. Sent
  BY <1>5 DEF Sent
<1>7. Reread
  BY <1>1, EmptyIsRead DEF Reread
<1> QED
  BY <1>4, <1>6, <1>7 DEF RInv

LEMMA RowsStep ==
  ASSUME VInv, RInv, [Next]_vars
  PROVE  RInv'
<1>1. CASE User
  BY <1>1, UserRows
<1>2. CASE \E d \in Dirs : External(d)
  <2>1. UNCHANGED <<view, scans, applies>>
    BY <1>2 DEF External, ChangeFolder, view
  <2> QED
    BY <2>1, AppliesUnchanged, ViewUnchanged
<1>3. ASSUME NEW g \in Gens, System(g)
      PROVE  RInv'
  <2>1. CASE WatchThread(g) \/ InstallWatcher(g) \/ ReceiveEvent(g)
    <3>1. UNCHANGED <<view, scans, applies>>
      BY <2>1 DEF WatchThread, StartWatching, InstallWatcher, ReceiveEvent
    <3> QED
      BY <3>1, AppliesUnchanged, ViewUnchanged
  <2>2. CASE ApplyThread(g)
    BY <2>2, ScanEntryRows DEF ApplyThread
  <2> QED
    BY <1>3, <2>1, <2>2, ScanThreadRows, DeliverScanRows, FireBatchRows, DeliverApplyRows DEF System
<1>4. CASE UNCHANGED vars
  <2>1. UNCHANGED <<view, scans, applies>>
    BY <1>4 DEF vars, view
  <2> QED
    BY <2>1, AppliesUnchanged, ViewUnchanged
<1> QED
  BY <1>1, <1>2, <1>3, <1>4 DEF Next

\* load_directory, load_trash and their two generation checks: whatever loads
\* overtake each other, and in whatever order their results and the batches of
\* the watcher arrive, a window that has stopped loading without an error
\* shows a complete snapshot of the place its tab is at.
THEOREM LoadedRowsAreRight == Spec => []LoadedRowsAreOfTheTab
<1>1. VInv /\ RInv /\ [Next]_vars => RInv'
  BY RowsStep
<1>2. RInv => LoadedRowsAreOfTheTab
  BY DEF RInv
<1>3. Spec => []RInv
  BY InitRInv, <1>1, Invariance, PTL DEF Spec
<1> QED
  BY <1>2, <1>3, PTL

-----------------------------------------------------------------------------
(***************************************************************************)
(* Rows at rest.  Of a row that is not what the disk holds somebody must   *)
(* still know: the scan that is running, an event in the queue, the        *)
(* pending changes, or the batch that reads entries again.                 *)
(***************************************************************************)
\* The tasks of the current generation.
Scan == scans[generation]
Watcher == watchers[generation]
Batch == applies[generation]

\* A scan sends the names it found, and then its end.
Progress(message) == message.result = "ok" /\ message.phase = "discovered"
Final(message) == message.result = "failed" \/ (message.result = "ok" /\ message.phase = "complete")
Last(scan) == scan.out[Len(scan.out)]

\* While a folder loads, its scan is neither cancelled nor of other flags than the
\* tab's, and what it has sent last is its end.
Scanning ==
    tab.root = "directory" =>
       /\ loading <=> Scan.pc # "none"
       /\ Scan.pc # "none" => ~Scan.cancelled /\ Scan.show = tab.show /\ Scan.pc # "trash"
       /\ \A i \in 1 .. Len(Scan.out) :
             Progress(Scan.out[i]) \/ (Scan.pc = "done" /\ i = Len(Scan.out))
       /\ Scan.pc = "done" => Scan.out # <<>> /\ Final(Last(Scan))

\* The watcher is one of the tab's folder, and its timer is set by its event loop.
Watching ==
    /\ Watcher.stage # "none" => Watcher.path = tab.path
    /\ Watcher.stage = "asked" => Watcher.queue = <<>>
    /\ \A g \in timers : g <= generation
    /\ generation \in timers => Watcher.stage = "listening"

\* A batch runs outside loads, under its flag, for rows that are shown.
Batching ==
    tab.root = "directory" /\ Batch.active =>
       /\ watch.applying /\ ~loading
       /\ \A n \in Batch.names : Visible(n, tab.show)

\* An event tells of n when it names n, or asks for a new scan.
Tells(event, n) ==
    \/ event.kind \in {"upsert", "remove"} /\ event.name = n
    \/ event.kind = "rename" /\ n \in {event.from, event.to}
    \/ event.kind \in {"self", "rescan"}
Removes(event, n) ==
    \/ event.kind = "remove" /\ event.name = n
    \/ event.kind = "rename" /\ event.from = n

\* Who knows of n: the queue, or what the event loop has noted.
Gone(n) == disk[tab.path][n] = Absent
Hearing == Watcher.stage \in {"ready", "listening"}
Told(queue, n) == \E i \in 1 .. Len(queue) : Tells(queue[i], n)
Waiting(n) == Hearing /\ Told(Watcher.queue, n)
Noted(pending, n) ==
    n \in pending.upserts \/ n \in pending.removes \/ pending.rescan \/ pending.self
Known(n) == Waiting(n) \/ Noted(watch.pending, n)

\* A removal is never the last that is known of an entry that is there again:
\* rows are dropped without a look at the disk.
RemovalsHold ==
    /\ Hearing => \A n \in Names : \A i \in 1 .. Len(Watcher.queue) :
          Removes(Watcher.queue[i], n) =>
             Gone(n) \/ \E j \in (i + 1) .. Len(Watcher.queue) : Tells(Watcher.queue[j], n)
    /\ Watcher.stage = "listening" => \A n \in watch.pending.removes :
          Gone(n) \/ Waiting(n) \/ n \in watch.pending.upserts
                  \/ watch.pending.rescan \/ watch.pending.self

\* The row of n, as the running scan or batch will show it, or as it is shown.
ScanRow(n) ==
    \/ Scan.pc = "discover"
    \/ /\ Scan.pc = "metadata"
       /\ Scan.rows[n] = Fresh(n) \/ (Scan.rows[n] = Pending /\ Fresh(n) # Absent)
    \/ Scan.pc = "done" /\ (Last(Scan).result = "failed" \/ Last(Scan).rows[n] = Fresh(n))
BatchRow(n) == n \in Batch.left \/ Batch.got[n] \in {Unavailable, disk[tab.path][n]}
RowOK(n) ==
    IF loading THEN ScanRow(n)
    ELSE \/ failed
         \/ Batch.active /\ n \in Batch.names /\ BatchRow(n)
         \/ ~(Batch.active /\ n \in Batch.names) /\ snap.rows[n] = Fresh(n)

\* Every row somebody could report on is known to be stale, or it is right.
RowsOK == tab.root = "directory" => \A n \in Names \ blind : Known(n) \/ RowOK(n)
FInv == Scanning /\ Watching /\ Batching /\ RemovalsHold /\ RowsOK

-----------------------------------------------------------------------------
(* What FInv speaks of has its type.                                       *)
LEMMA CurrentTypes ==
  ASSUME VInv
  PROVE  /\ generation \in Gens /\ generation \in Nat /\ Scan \in Scans /\ Watcher \in Watchers
         /\ Batch \in Applies /\ tab \in Tabs /\ watch \in Watches /\ watch.pending \in Changes
         /\ tab.path \in Dirs /\ tab.path \in Places /\ tab.path # Trash
         /\ disk[tab.path] \in [Names -> {Absent} \union Version] /\ snap \in Snapshots
BY DirsAssumption DEF VInv, ViewTypeOK, Scan, Watcher, Batch, Tabs, Watches, Places, Gens

(* Steps of tasks of other generations, and what does not concern the view. *)
LEMMA Elsewhere ==
  ASSUME FInv, UNCHANGED <<blind, tab, generation, loading, failed, snap, watch>>,
         Scan' = Scan, Watcher' = Watcher, Batch' = Batch, disk'[tab.path] = disk[tab.path],
         timers' \subseteq timers
  PROVE  FInv'
<1>1. \A n : Fresh(n)' = Fresh(n)
  BY DEF Fresh
<1>2. Scanning' /\ Watching' /\ Batching'
  BY DEF FInv, Scanning, Watching, Batching, Progress, Final, Last
<1>3. (\A n : Gone(n)' = Gone(n)) /\ Hearing' = Hearing
  BY DEF Gone, Hearing
<1>4. (\A n : Waiting(n)' = Waiting(n)) /\ (\A n : Known(n)' = Known(n))
  BY <1>3 DEF Waiting, Told, Tells, Known, Noted
<1>5. RemovalsHold'
  BY <1>3, <1>4 DEF FInv, RemovalsHold, Removes, Tells
<1>6. \A n : RowOK(n)' = RowOK(n)
  BY <1>1 DEF RowOK, ScanRow, BatchRow, Last
<1>7. RowsOK'
  BY <1>4, <1>6 DEF FInv, RowsOK
<1> QED
  BY <1>2, <1>5, <1>7 DEF FInv

(* A new scan reads everything again, and its watcher has told nothing.    *)
LEMMA NewScanFresh ==
  ASSUME tab' \in Tabs, loading' = TRUE, Scan' = NewScan(tab'), ~Batch'.active,
         \/ Watcher'.stage = "none"
         \/ Watcher'.stage = "asked" /\ Watcher'.queue = <<>> /\ Watcher'.path = tab'.path,
         generation' \in Nat, \A g \in timers' : g <= generation' /\ g # generation'
  PROVE  FInv'
<1>1. tab'.root = "directory" =>
        /\ Scan'.pc = "discover" /\ ~Scan'.cancelled /\ Scan'.show = tab'.show
        /\ Scan'.out = <<>>
  BY DEF NewScan, NoScan
<1>2. Scanning'
  BY <1>1 DEF Scanning
<1>3. Watching' /\ Batching'
  BY DEF Watching, Batching
<1>4. RemovalsHold'
  BY DEF RemovalsHold, Hearing
<1>5. RowsOK'
  BY <1>1 DEF RowsOK, RowOK, ScanRow
<1> QED
  BY <1>2, <1>3, <1>4, <1>5 DEF FInv

(* load_directory: the watcher is kept for no later generation, so nothing *)
(* is noted for the new one.                                               *)
LEMMA LoadFresh ==
  ASSUME VInv, FInv, NEW t \in Tabs, NEW w \in Watches, NEW s \in Snapshots,
         LoadDirectory(t, w, s), timers' \subseteq timers,
         \A h \in Gens : applies'[h].active => applies[h].active
  PROVE  FInv'
<1> DEFINE g == generation + 1
<1>1. /\ g \in Gens /\ g \in Nat /\ generation \in Nat /\ generation' = g /\ tab' = t
      /\ loading' = TRUE /\ scans' = [CancelScan(scans) EXCEPT ![g] = NewScan(t)]
  BY NextGeneration DEF LoadDirectory, VInv
<1>2. watchers[g].stage = "none" /\ ~Batch'.active
  BY <1>1 DEF VInv, Ahead, Batch
<1>3. DOMAIN CancelScan(scans) = Gens
  BY DEF CancelScan, VInv, ViewTypeOK
<1>4. Scan' = NewScan(tab')
  <2>1. scans'[g] = NewScan(t)
    BY <1>1, <1>3
  <2> QED
    BY <1>1, <2>1 DEF Scan, NewScan
<1>5. \/ Watcher'.stage = "none"
      \/ Watcher'.stage = "asked" /\ Watcher'.queue = <<>> /\ Watcher'.path = tab'.path
  <2>1. CASE watchers' = DropWatcher(watchers) \/ watchers' = watchers
    BY <1>1, <1>2, <2>1 DEF DropWatcher, Watcher
  <2>2. CASE watchers' = [DropWatcher(watchers) EXCEPT
                            ![g] = [stage |-> "asked", path |-> t.path, queue |-> <<>>]]
    BY <1>1, <2>2 DEF DropWatcher, Watcher
  <2> QED
    BY <2>1, <2>2 DEF LoadDirectory, EnsureWatcher
<1>6. \A h \in timers' : h <= generation' /\ h # generation'
  <2>1. \A h \in timers : h <= generation
    BY DEF FInv, Watching
  <2>2. timers \subseteq Gens /\ Gens \subseteq Nat
    BY DEF VInv, ViewTypeOK, Gens
  <2> QED
    BY <1>1, <2>1, <2>2
<1> QED
  BY <1>1, <1>2, <1>4, <1>5, <1>6, NewScanFresh

(* A new window starts a load.                                             *)
LEMMA InitFresh ==
  ASSUME Init
  PROVE  FInv
<1>1. PICK d \in Dirs, show \in InitialShow :
        /\ tab = [path |-> d, root |-> "directory", show |-> show]
        /\ generation = 1 /\ loading = TRUE
        /\ scans = [[g \in Gens |-> NoScan] EXCEPT ![1] = NewScan(tab)]
        /\ watchers = [[g \in Gens |-> NoWatcher] EXCEPT
                         ![1] = [stage |-> "asked", path |-> d, queue |-> <<>>]]
        /\ timers = {} /\ applies = [g \in Gens |-> NoApply]
  BY DEF Init
<1>2. 1 \in Gens
  BY BoundsAssumption DEF Gens
<1>3. /\ Scan.pc = "discover" /\ ~Scan.cancelled /\ Scan.show = tab.show /\ Scan.out = <<>>
  BY <1>1, <1>2 DEF Scan, NewScan, NoScan
<1>4. /\ Watcher.stage = "asked" /\ Watcher.queue = <<>> /\ Watcher.path = tab.path
      /\ ~Batch.active
  BY <1>1, <1>2 DEF Watcher, Batch, NoApply
<1>5. Scanning /\ Watching /\ Batching
  BY <1>1, <1>3, <1>4 DEF Scanning, Watching, Batching
<1>6. RemovalsHold /\ RowsOK
  BY <1>1, <1>3, <1>4 DEF RemovalsHold, Hearing, RowsOK, RowOK, ScanRow
<1> QED
  BY <1>5, <1>6 DEF FInv

-----------------------------------------------------------------------------
(* Steps of the scan: the watcher, the batch and what they know stay.      *)
LEMMA ScanStepFresh ==
  ASSUME FInv, UNCHANGED <<disk, tab, generation, watchers, watch, timers, applies>>,
         blind \subseteq blind', Scanning', tab.root = "directory" => ~loading' \/ loading,
         ASSUME tab.root = "directory", NEW n \in Names \ blind', RowOK(n)
         PROVE  RowOK(n)'
  PROVE  FInv'
<1>1. Watcher' = Watcher /\ Batch' = Batch
  BY DEF Watcher, Batch
<1>2. Watching' /\ Batching'
  BY <1>1 DEF FInv, Watching, Batching
<1>3. (\A n : Gone(n)' = Gone(n)) /\ Hearing' = Hearing
  BY <1>1 DEF Gone, Hearing
<1>4. (\A n : Waiting(n)' = Waiting(n)) /\ (\A n : Known(n)' = Known(n))
  BY <1>1, <1>3 DEF Waiting, Told, Tells, Known, Noted
<1>5. RemovalsHold'
  BY <1>1, <1>3, <1>4 DEF FInv, RemovalsHold, Removes, Tells
<1>6. RowsOK'
  BY <1>1, <1>4 DEF FInv, RowsOK
<1> QED
  BY <1>2, <1>5, <1>6 DEF FInv

(* A fresh row is absent or shows a version of the file.                   *)
LEMMA FreshRow ==
  ASSUME VInv, NEW n \in Names
  PROVE  /\ Fresh(n) # Pending /\ Fresh(n) # Unavailable
         /\ disk[tab.path][n] # Pending /\ disk[tab.path][n] # Unavailable
         /\ Fresh(n) # Absent <=> disk[tab.path][n] # Absent /\ Visible(n, tab.show)
         /\ Visible(n, tab.show) => Fresh(n) = disk[tab.path][n]
         /\ ~Visible(n, tab.show) => Fresh(n) = Absent
<1>1. disk[tab.path][n] \in {Absent} \union Version
  BY CurrentTypes
<1>2. Pending \notin {Absent} \union Version /\ Unavailable \notin {Absent} \union Version
  BY BoundsAssumption DEF Absent, Version, Pending, Unavailable
<1> QED
  BY <1>1, <1>2 DEF Fresh

(* The end of the channel after one more message.                          *)
LEMMA Appended ==
  ASSUME NEW S, NEW queue \in Seq(S), NEW message \in S
  PROVE  /\ Len(Append(queue, message)) = Len(queue) + 1 /\ Len(queue) \in Nat
         /\ Append(queue, message)[Len(queue) + 1] = message
         /\ Append(queue, message) # <<>>
         /\ \A i \in 1 .. Len(queue) : Append(queue, message)[i] = queue[i]
OBVIOUS

(* And after its first message was taken.                                  *)
LEMMA Shifted ==
  ASSUME NEW S, NEW queue \in Seq(S), queue # <<>>
  PROVE  /\ Len(queue) \in Nat \ {0} /\ Len(Tail(queue)) = Len(queue) - 1
         /\ Head(queue) = queue[1] /\ Head(queue) \in S
         /\ Tail(queue) \in Seq(S)
         /\ \A i \in 1 .. Len(Tail(queue)) : Tail(queue)[i] = queue[i + 1]
         /\ Tail(queue) = <<>> <=> Len(queue) = 1
<1>1. Len(queue) \in Nat \ {0} /\ Head(queue) = queue[1] /\ Head(queue) \in S
  OBVIOUS
<1>2. Tail(queue) \in Seq(S) /\ Len(Tail(queue)) = Len(queue) - 1
  OBVIOUS
<1>3. \A i \in 1 .. Len(Tail(queue)) : Tail(queue)[i] = queue[i + 1]
  BY <1>1, <1>2
<1>4. Tail(queue) = <<>> <=> Len(Tail(queue)) = 0
  BY <1>2
<1> QED
  BY <1>1, <1>2, <1>3, <1>4

(* A thread of the current scan of a folder reads what is there now.       *)
LEMMA ScanThreadFresh ==
  ASSUME VInv, RInv, FInv, NEW g \in Gens, ScanThread(g)
  PROVE  FInv'
<1>1. /\ scans[g].pc # "none"
      /\ UNCHANGED <<disk, changes, view, watchers, watch, timers, applies>>
      /\ blind \subseteq blind'
      /\ g # generation => UNCHANGED blind
  BY ScanThreadLeaves
<1>2. CASE g # generation
  <2>1. scans'[generation] = scans[generation]
    <3>1. generation \in Gens /\ scans \in [Gens -> Scans]
      BY DEF VInv, ViewTypeOK
    <3>2. CASE Discover(g)
      BY <1>2, <3>1, <3>2 DEF Discover, ScanStep
    <3>3. CASE FinishScan(g)
      BY <1>2, <3>1, <3>3 DEF FinishScan, ScanStep
    <3>4. CASE ScanTrash(g)
      BY <1>2, <3>1, <3>4 DEF ScanTrash, ScanStep
    <3>5. CASE \E n \in Names : ReadMetadata(g, n)
      BY <1>2, <3>1, <3>5 DEF ReadMetadata
    <3> QED
      BY <3>2, <3>3, <3>4, <3>5 DEF ScanThread
  <2>2. Scan' = Scan /\ Watcher' = Watcher /\ Batch' = Batch
    BY <1>1, <2>1 DEF Scan, Watcher, Batch, view
  <2> QED
    BY <1>1, <1>2, <2>2, Elsewhere DEF view
<1>3. CASE g = generation /\ tab.root # "directory"
  BY <1>1, <1>3, ScanStepFresh DEF view, Scanning
<1>4. CASE g = generation /\ tab.root = "directory"
  <2>1. /\ Scan = scans[g] /\ Scan \in Scans /\ scans \in [Gens -> Scans]
        /\ Scan.place = tab.path /\ Scan.out \in Seq(Message) /\ Scan.rows \in Rows
        /\ loading /\ ~Scan.cancelled /\ Scan.show = tab.show /\ Scan.pc # "trash"
    <3>1. Scan = scans[g] /\ Scan \in Scans /\ scans \in [Gens -> Scans]
      BY <1>4, CurrentTypes DEF Scan, VInv, ViewTypeOK
    <3> QED
      BY <1>1, <1>4, <3>1 DEF RInv, Home, PlaceOf, Scans, Scan, FInv, Scanning
  <2>2. UNCHANGED <<tab, generation, watchers, watch, timers, applies, loading,
                    failed, snap, disk>>
    BY <1>1 DEF view
  <2>3. \A n : Fresh(n)' = Fresh(n)
    BY <2>2 DEF Fresh
  <2>4. ASSUME NEW pc \in {"metadata", "done"}, NEW rows \in Rows, NEW message \in Message,
               ScanStep(g, pc, rows, message), Scan.pc \in {"discover", "metadata"},
               IF pc = "metadata" THEN Progress(message) ELSE Final(message),
               ASSUME NEW n \in Names \ blind', RowOK(n)
               PROVE  IF pc = "metadata"
                      THEN rows[n] = Fresh(n) \/ (rows[n] = Pending /\ Fresh(n) # Absent)
                      ELSE message.result = "failed" \/ message.rows[n] = Fresh(n)
        PROVE  FInv'
    <3>1. /\ Scan'.pc = pc /\ Scan'.rows = rows /\ Scan'.out = Append(Scan.out, message)
          /\ Scan'.cancelled = Scan.cancelled /\ Scan'.show = Scan.show
      <4>1. scans'[g] = [scans[g] EXCEPT !.pc = pc, !.rows = rows, !.out = Send(g, message)]
        BY <2>1, <2>4 DEF ScanStep
      <4> QED
        BY <1>4, <2>1, <2>2, <4>1 DEF Scan, Scans, Send
    <3>2. Last(Scan') = message /\ Scan'.out # <<>>
      BY <2>1, <3>1, Appended DEF Last
    <3>3. Last(Scan)' = message
      BY <3>2 DEF Last
    <3>4. ASSUME NEW i \in 1 .. Len(Scan'.out)
          PROVE  Progress(Scan'.out[i]) \/ (Scan'.pc = "done" /\ i = Len(Scan'.out))
      <4>1. CASE i = Len(Scan'.out)
        BY <2>1, <2>4, <3>1, <4>1, Appended
      <4>2. CASE i # Len(Scan'.out)
        <5>1. i \in 1 .. Len(Scan.out) /\ Scan'.out[i] = Scan.out[i]
          BY <2>1, <3>1, <4>2, Appended
        <5> QED
          BY <1>4, <2>4, <5>1 DEF FInv, Scanning
      <4> QED
        BY <4>1, <4>2
    <3>5. Scanning'
      BY <2>1, <2>2, <2>4, <3>1, <3>2, <3>3, <3>4 DEF Scanning, Progress, Final
    <3>6. ASSUME NEW n \in Names \ blind', RowOK(n)
          PROVE  RowOK(n)'
      <4>1. CASE pc = "metadata"
        BY <2>1, <2>2, <2>3, <2>4, <3>1, <3>6, <4>1 DEF RowOK, ScanRow
      <4>2. CASE pc = "done"
        BY <2>1, <2>2, <2>3, <2>4, <3>1, <3>3, <3>6, <4>2 DEF RowOK, ScanRow
      <4> QED
        BY <4>1, <4>2
    <3> QED
      BY <1>1, <2>2, <3>5, <3>6, ScanStepFresh
  <2>5. CASE Discover(g)
    <3>1. Scan.pc = "discover"
      BY <2>1, <2>5 DEF Discover
    <3>2. CASE ScanStep(g, "done", NoRows, Failure)
      <4>1. Failure \in Message /\ Final(Failure) /\ Failure.result = "failed"
        BY Messages DEF Failure, Final
      <4> QED
        BY <2>4, <3>1, <3>2, <4>1, EmptyTypes
    <3>3. CASE ~ScanStep(g, "done", NoRows, Failure)
      <4>1. PICK skipped \in SUBSET Names :
               /\ ScanStep(g, "metadata", Discovered(g, skipped),
                           Found("discovered", Discovered(g, skipped)))
               /\ Unread(g, skipped)
        BY <2>1, <2>5, <3>3, DiscoverCases
      <4> DEFINE names == Discovered(g, skipped)
      <4>2. names \in Rows
        BY DEF Discovered, Rows, Row
      <4>3. ASSUME NEW n \in Names \ blind'
            PROVE  names[n] = Fresh(n) \/ (names[n] = Pending /\ Fresh(n) # Absent)
        <5>1. n \notin skipped
          BY <1>4, <4>1, <4>3 DEF Unread, IsCurrent
        <5> QED
          BY <2>1, <5>1, FreshRow DEF Discovered
      <4>4. Found("discovered", names) \in Message /\ Progress(Found("discovered", names))
        BY <4>2, Messages DEF Found, Progress
      <4> HIDE DEF names
      <4> QED
        BY <2>4, <3>1, <4>1, <4>2, <4>3, <4>4 DEF names
    <3> QED
      BY <3>2, <3>3
  <2>6. CASE FinishScan(g)
    <3> DEFINE message == Found("complete", Scan.rows)
    <3>1. /\ Scan.pc = "metadata" /\ \A n \in Names : Scan.rows[n] # Pending
          /\ ScanStep(g, "done", NoRows, message)
      BY <2>1, <2>6 DEF FinishScan
    <3>2. message \in Message /\ Final(message) /\ message.rows = Scan.rows
      BY <2>1, Messages DEF Found, Final
    <3> HIDE DEF message
    <3>3. ASSUME NEW n \in Names \ blind', RowOK(n)
          PROVE  message.rows[n] = Fresh(n)
      BY <2>1, <3>1, <3>2, <3>3 DEF RowOK, ScanRow
    <3> QED
      BY <2>4, <3>1, <3>2, <3>3, EmptyTypes
  <2>7. CASE ScanTrash(g)
    BY <2>1, <2>7 DEF ScanTrash
  <2>8. CASE \E n \in Names : ReadMetadata(g, n)
    <3>1. PICK n \in Names : ReadMetadata(g, n)
      BY <2>8
    <3> PICK row : /\ scans' = [scans EXCEPT ![g].rows[n] = row]
                   /\ \/ row = Unavailable /\ disk[scans[g].place][n] = Absent
                      \/ row = Unavailable /\ Unread(g, {n})
                      \/ row = disk[scans[g].place][n] /\ row # Absent
      BY <3>1 DEF ReadMetadata
    <3>2. scans'[g] = [scans[g] EXCEPT !.rows[n] = row]
      BY <2>1
    <3>3. /\ Scan'.pc = "metadata" /\ Scan'.rows = [Scan.rows EXCEPT ![n] = row]
          /\ Scan'.out = Scan.out /\ Scan'.cancelled = Scan.cancelled /\ Scan'.show = Scan.show
          /\ Scan.pc = "metadata" /\ Scan.rows[n] = Pending
      BY <1>4, <2>1, <2>2, <3>1, <3>2 DEF Scan, Scans, ReadMetadata
    <3>4. Scanning'
      BY <1>4, <2>2, <3>3 DEF FInv, Scanning, Progress
    <3>5. ASSUME NEW m \in Names \ blind', RowOK(m)
          PROVE  RowOK(m)'
      <4>1. Scan.rows[m] = Fresh(m) \/ (Scan.rows[m] = Pending /\ Fresh(m) # Absent)
        BY <2>1, <3>3, <3>5 DEF RowOK, ScanRow
      <4>2. CASE m = n
        <5>1. Fresh(n) # Absent
          BY <3>3, <4>1, <4>2, FreshRow
        <5>2. ~Unread(g, {n})
          BY <1>4, <3>5, <4>2 DEF Unread, IsCurrent
        <5>3. row = disk[tab.path][n] /\ Fresh(n) = disk[tab.path][n]
          BY <2>1, <5>1, <5>2, FreshRow
        <5>4. Scan'.rows[n] = Fresh(n)
          BY <2>1, <3>3, <5>3 DEF Rows
        <5> QED
          BY <2>1, <2>2, <2>3, <3>3, <4>2, <5>4 DEF RowOK, ScanRow
      <4>3. CASE m # n
        <5>1. Scan'.rows[m] = Scan.rows[m]
          BY <2>1, <3>3, <4>3 DEF Rows
        <5> QED
          BY <2>1, <2>2, <2>3, <3>3, <4>1, <5>1 DEF RowOK, ScanRow
      <4> QED
        BY <4>2, <4>3
    <3> QED
      BY <1>1, <2>2, <3>4, <3>5, ScanStepFresh
  <2> QED
    BY <2>5, <2>6, <2>7, <2>8 DEF ScanThread
<1>5. tab.root \in {"directory", "trash"}
  BY CurrentTypes DEF Tabs
<1> QED
  BY <1>2, <1>3, <1>4

(* The results of the current scan are shown in order, the last one last.  *)
LEMMA DeliverScanFresh ==
  ASSUME VInv, RInv, FInv, NEW g \in Gens, DeliverScan(g)
  PROVE  FInv'
<1>1. /\ UNCHANGED <<external, tab, generation, scanCancel, watchers, watch, timers, applies>>
      /\ scans[g].out # <<>> /\ scans[g].out \in Seq(Message) /\ scans[g] \in Scans
      /\ scans \in [Gens -> Scans] /\ generation \in Gens
      /\ scans[g].pc # "none"
  BY DEF DeliverScan, VInv, ViewTypeOK, Scans, Placed
<1>2. CASE g # generation
  <2>1. scans'[generation] = scans[generation] /\ UNCHANGED <<loading, failed, snap>>
    BY <1>1, <1>2 DEF DeliverScan, TakeResult, IsCurrent
  <2>2. Scan' = Scan /\ Watcher' = Watcher /\ Batch' = Batch
    BY <1>1, <2>1 DEF Scan, Watcher, Batch
  <2> QED
    BY <1>1, <2>1, <2>2, Elsewhere DEF external
<1>3. CASE g = generation /\ tab.root # "directory"
  BY <1>1, <1>3, ScanStepFresh DEF Scanning, external
<1>4. CASE g = generation /\ tab.root = "directory"
  <2> DEFINE message == Head(scans[g].out)
  <2>1. /\ Scan = scans[g] /\ Scan \in Scans /\ Scan.place = tab.path /\ Scan.pc # "none"
        /\ loading /\ ~Scan.cancelled /\ Scan.show = tab.show /\ Scan.pc # "trash"
        /\ tab.path # Trash
    <3>1. Scan = scans[g]
      BY <1>4 DEF Scan
    <3> QED
      BY <1>1, <1>4, <3>1, CurrentTypes DEF RInv, Home, PlaceOf, Scan, FInv, Scanning
  <2>2. /\ Len(Scan.out) \in Nat \ {0} /\ Len(Tail(Scan.out)) = Len(Scan.out) - 1
        /\ message = Scan.out[1] /\ message \in Message
        /\ \A i \in 1 .. Len(Tail(Scan.out)) : Tail(Scan.out)[i] = Scan.out[i + 1]
        /\ Tail(Scan.out) = <<>> <=> Len(Scan.out) = 1
    BY <1>1, <2>1, Shifted
  <2>3. ShowResult(tab.path, message)
    BY <1>4, <2>1 DEF DeliverScan, IsCurrent
  <2>4. \A n : Fresh(n)' = Fresh(n)
    BY <1>1 DEF Fresh, external
  <2> HIDE DEF message
  <2>5. CASE Scan.pc = "done" /\ Len(Scan.out) = 1
    <3>1. Scan'.pc = "none" /\ Scan'.out = <<>>
      BY <1>1, <1>4, <2>1, <2>5 DEF DeliverScan, TakeResult, Scan, NoScan
    <3>2. Final(message) /\ message = Last(Scan)
      BY <1>4, <2>2, <2>5 DEF FInv, Scanning, Last
    <3>3. ~loading' /\ (message.result = "failed" => failed')
          /\ (message.result = "ok" => snap'.rows = message.rows)
      <4>1. CASE message.result = "failed"
        BY <2>3, <4>1 DEF ShowResult
      <4>2. CASE message.result = "ok"
        <5>1. /\ loading' = (message.phase # "complete")
              /\ snap' = [path |-> IF tab.path = Trash THEN snap.path ELSE tab.path,
                          from |-> tab.path, rows |-> message.rows, phase |-> message.phase]
          BY <2>3, <4>2, Zenon DEF ShowResult
        <5> QED
          BY <3>2, <4>2, <5>1 DEF Final
      <4> QED
        BY <3>2, <4>1, <4>2 DEF Final
    <3>4. Scanning'
      BY <3>1, <3>3 DEF Scanning
    <3>5. ~Batch'.active
      BY <1>1, <1>4, <2>1 DEF FInv, Batching, Batch
    <3>6. ASSUME NEW n \in Names, RowOK(n)
          PROVE  RowOK(n)'
      <4>1. message.result = "failed" \/ message.rows[n] = Fresh(n)
        BY <2>1, <2>5, <3>2, <3>6 DEF RowOK, ScanRow
      <4> QED
        BY <2>4, <3>2, <3>3, <3>5, <4>1 DEF RowOK, Final
    <3> QED
      BY <1>1, <2>1, <3>4, <3>6, ScanStepFresh DEF external
  <2>6. CASE ~(Scan.pc = "done" /\ Len(Scan.out) = 1)
    <3>1. scans'[g] = [scans[g] EXCEPT !.out = Tail(scans[g].out)]
      BY <1>1, <2>1, <2>6 DEF DeliverScan, TakeResult
    <3>2. /\ Scan'.pc = Scan.pc /\ Scan'.rows = Scan.rows /\ Scan'.out = Tail(Scan.out)
          /\ Scan'.cancelled = Scan.cancelled /\ Scan'.show = Scan.show
      BY <1>1, <1>4, <2>1, <3>1 DEF Scan, Scans
    <3>3. Progress(message)
      BY <1>4, <2>2, <2>6 DEF FInv, Scanning
    <3>4. loading'
      <4>1. loading' = (message.phase # "complete")
        BY <2>3, <3>3, Zenon DEF ShowResult, Progress
      <4> QED
        BY <3>3, <4>1 DEF Progress
    <3>5. Scan.pc = "done" => Scan'.out # <<>> /\ Last(Scan)' = Last(Scan)
      <4>1. CASE Scan.pc = "done"
        <5>1. Len(Scan'.out) \in 1 .. Len(Tail(Scan.out)) /\ Scan'.out # <<>>
          BY <2>2, <2>6, <3>2, <4>1
        <5>2. Scan'.out[Len(Scan'.out)] = Scan.out[Len(Scan.out)]
          BY <2>2, <3>2, <5>1
        <5> QED
          BY <5>1, <5>2 DEF Last
      <4> QED
        BY <4>1
    <3>6. ASSUME NEW i \in 1 .. Len(Scan'.out)
          PROVE  Progress(Scan'.out[i]) \/ (Scan'.pc = "done" /\ i = Len(Scan'.out))
      <4>1. i + 1 \in 1 .. Len(Scan.out) /\ Scan'.out[i] = Scan.out[i + 1]
        BY <2>2, <3>2
      <4>2. Progress(Scan.out[i + 1]) \/ (Scan.pc = "done" /\ i + 1 = Len(Scan.out))
        BY <1>4, <4>1 DEF FInv, Scanning
      <4> QED
        BY <2>2, <3>2, <4>1, <4>2
    <3>7. Scanning'
      BY <1>1, <1>4, <2>1, <3>2, <3>4, <3>5, <3>6 DEF FInv, Scanning, Progress, Final
    <3>8. ASSUME NEW n \in Names, RowOK(n)
          PROVE  RowOK(n)'
      BY <2>1, <2>4, <3>2, <3>4, <3>5, <3>8 DEF RowOK, ScanRow
    <3> QED
      BY <1>1, <2>1, <3>7, <3>8, ScanStepFresh DEF external
  <2> QED
    BY <2>5, <2>6
<1> QED
  BY <1>2, <1>3, <1>4

-----------------------------------------------------------------------------
(* Steps of the watcher: the scan, the batch and the rows stay.            *)
LEMMA WatcherStepFresh ==
  ASSUME FInv, UNCHANGED <<external, view, scans, applies>>,
         watch'.applying = watch.applying, Watching', RemovalsHold',
         \A n \in Names : Known(n) => Known(n)'
  PROVE  FInv'
<1>1. Scan' = Scan /\ Batch' = Batch
  BY DEF Scan, Batch, view
<1>2. Scanning' /\ Batching'
  BY <1>1 DEF FInv, Scanning, Batching, Progress, Final, Last, view
<1>3. \A n : Fresh(n)' = Fresh(n)
  BY DEF Fresh, external, view
<1>4. \A n : RowOK(n)' = RowOK(n)
  BY <1>1, <1>3 DEF RowOK, ScanRow, BatchRow, Last, external, view
<1>5. RowsOK'
  BY <1>4 DEF FInv, RowsOK, external, view
<1> QED
  BY <1>2, <1>5 DEF FInv

(* A watcher that was only asked for has told nothing.                     *)
LEMMA StartWatchingFresh ==
  ASSUME VInv, FInv, NEW g \in Gens, StartWatching(g)
  PROVE  FInv'
<1>1. /\ UNCHANGED <<external, view, scans, watch, timers, applies>>
      /\ watchers[g].stage = "asked" /\ watchers \in [Gens -> Watchers] /\ generation \in Gens
      /\ watchers[g] \in Watchers
  BY DEF StartWatching, VInv, ViewTypeOK
<1>2. CASE g # generation
  <2>1. watchers'[generation] = watchers[generation]
    BY <1>1, <1>2 DEF StartWatching
  <2>2. Scan' = Scan /\ Watcher' = Watcher /\ Batch' = Batch
    BY <1>1, <2>1 DEF Scan, Watcher, Batch, view
  <2> QED
    BY <1>1, <2>2, Elsewhere DEF external, view
<1>3. CASE g = generation
  <2>1. Watcher = watchers[g] /\ Watcher.queue = <<>> /\ Watcher.path = tab.path
        /\ generation \notin timers
    BY <1>1, <1>3 DEF Watcher, FInv, Watching
  <2>2. \/ Watcher'.stage = "none"
        \/ Watcher'.stage = "ready" /\ Watcher'.queue = <<>> /\ Watcher'.path = tab.path
    <3>1. CASE watchers' = [watchers EXCEPT ![g] = NoWatcher]
      BY <1>1, <1>3, <3>1 DEF Watcher, NoWatcher, view
    <3>2. CASE watchers' = [watchers EXCEPT ![g].stage = "ready"]
      BY <1>1, <1>3, <2>1, <3>2 DEF Watcher, Watchers, view
    <3> QED
      BY <3>1, <3>2 DEF StartWatching
  <2>3. Watching'
    BY <1>1, <2>1, <2>2 DEF FInv, Watching, view
  <2>4. RemovalsHold'
    BY <2>2 DEF RemovalsHold, Hearing
  <2>5. \A n \in Names : Known(n) => Known(n)'
    BY <1>1, <1>3, <2>1 DEF Known, Waiting, Hearing, Watcher, Noted
  <2> QED
    BY <1>1, <2>3, <2>4, <2>5, WatcherStepFresh
<1> QED
  BY <1>2, <1>3

(* An installed watcher may already have events waiting.                   *)
LEMMA InstallWatcherFresh ==
  ASSUME VInv, FInv, NEW g \in Gens, InstallWatcher(g)
  PROVE  FInv'
<1>1. /\ UNCHANGED <<external, view, scans, timers, applies>>
      /\ watchers[g].stage = "ready" /\ watchers \in [Gens -> Watchers] /\ generation \in Gens
      /\ watchers[g] \in Watchers
  BY DEF InstallWatcher, VInv, ViewTypeOK
<1>2. CASE g # generation
  <2>1. watchers'[generation] = watchers[generation] /\ UNCHANGED watch
    BY <1>1, <1>2 DEF InstallWatcher, IsCurrent
  <2>2. Scan' = Scan /\ Watcher' = Watcher /\ Batch' = Batch
    BY <1>1, <2>1 DEF Scan, Watcher, Batch, view
  <2> QED
    BY <1>1, <2>1, <2>2, Elsewhere DEF external, view
<1>3. CASE g = generation
  <2>1. Watcher = watchers[g] /\ Watcher.path = tab.path /\ watch.pending = NoChanges
        /\ watch \in Watches
    BY <1>1, <1>3, CurrentTypes DEF Watcher, FInv, Watching, VInv, Calm
  <2>2. /\ watchers' = [watchers EXCEPT ![g].stage = "listening"]
        /\ watch' = [watch EXCEPT !.path = watchers[g].path]
    BY <1>3, <2>1 DEF InstallWatcher, IsCurrent
  <2>3. /\ Watcher'.stage = "listening" /\ Watcher'.queue = Watcher.queue
        /\ Watcher'.path = tab.path
        /\ watch'.pending = NoChanges /\ watch'.applying = watch.applying
    BY <1>1, <1>3, <2>1, <2>2 DEF Watcher, Watchers, Watches, view
  <2>4. Watching'
    BY <1>1, <2>3 DEF FInv, Watching, view
  <2>5. \A n : Gone(n)' = Gone(n)
    BY <1>1 DEF Gone, external, view
  <2>6. RemovalsHold'
    BY <1>1, <2>1, <2>3, <2>5 DEF FInv, RemovalsHold, Hearing, Removes, Tells, NoChanges
  <2>7. \A n \in Names : Known(n) => Known(n)'
    BY <2>1, <2>3 DEF Known, Waiting, Told, Tells, Hearing, Noted, NoChanges
  <2> QED
    BY <1>1, <2>3, <2>4, <2>6, <2>7, WatcherStepFresh
<1> QED
  BY <1>2, <1>3

(* What an event tells is noted when it is received.                       *)
LEMMA RecordNotes ==
  ASSUME NEW pending \in Changes, NEW event \in Event, NEW n
  PROVE  LET after == Record(pending, event) IN
         /\ n \in pending.upserts => n \in after.upserts
         /\ n \in pending.removes => n \in after.removes
         /\ pending.rescan => after.rescan
         /\ pending.self => after.self
         /\ Tells(event, n) => Noted(after, n)
         /\ n \in after.removes => n \in pending.removes \/ Removes(event, n)
         /\ Tells(event, n) /\ ~Removes(event, n) =>
              n \in after.upserts \/ after.rescan \/ after.self
<1> DEFINE after == Record(pending, event)
<1>1. CASE event.kind = "upsert"
  <2>1. after = [pending EXCEPT !.upserts = @ \union {event.name}]
    BY <1>1 DEF Record
  <2> QED
    BY <1>1, <2>1 DEF Changes, Tells, Noted, Removes
<1>2. CASE event.kind = "remove"
  <2>1. after = [pending EXCEPT !.removes = @ \union {event.name}]
    BY <1>2 DEF Record
  <2> QED
    BY <1>2, <2>1 DEF Changes, Tells, Noted, Removes
<1>3. CASE event.kind = "rename"
  <2>1. after = [pending EXCEPT !.removes = @ \union {event.from},
                                !.upserts = @ \union {event.to}]
    BY <1>3 DEF Record
  <2> QED
    BY <1>3, <2>1 DEF Changes, Tells, Noted, Removes
<1>4. CASE event.kind = "self"
  <2>1. after = [pending EXCEPT !.self = TRUE]
    BY <1>4 DEF Record
  <2> QED
    BY <1>4, <2>1 DEF Changes, Tells, Noted, Removes
<1>5. CASE event.kind = "rescan"
  <2>1. after = [pending EXCEPT !.rescan = TRUE]
    BY <1>5 DEF Record
  <2> QED
    BY <1>5, <2>1 DEF Changes, Tells, Noted, Removes
<1>6. CASE event.kind = "error"
  <2>1. after = pending
    BY <1>6 DEF Record
  <2> QED
    BY <1>6, <2>1 DEF Changes, Tells, Noted, Removes
<1> QED
  BY <1>1, <1>2, <1>3, <1>4, <1>5, <1>6 DEF Event

(* The event loop moves what the first event tells into the pending changes. *)
LEMMA ReceiveEventFresh ==
  ASSUME VInv, FInv, NEW g \in Gens, ReceiveEvent(g)
  PROVE  FInv'
<1>1. /\ UNCHANGED <<external, view, scans, applies>>
      /\ watchers[g].stage = "listening" /\ watchers \in [Gens -> Watchers]
      /\ generation \in Gens /\ generation \in Nat
      /\ watchers[g] \in Watchers /\ watchers[g].queue \in Seq(Event) /\ watchers[g].queue # <<>>
  BY CurrentTypes DEF ReceiveEvent, VInv, ViewTypeOK, Watchers
<1>2. CASE g # generation
  <2>1. watchers'[generation] = watchers[generation] /\ UNCHANGED <<watch, timers>>
    BY <1>1, <1>2 DEF ReceiveEvent, IsCurrent
  <2>2. Scan' = Scan /\ Watcher' = Watcher /\ Batch' = Batch
    BY <1>1, <2>1 DEF Scan, Watcher, Batch, view
  <2> QED
    BY <1>1, <2>1, <2>2, Elsewhere DEF external, view
<1>3. CASE g = generation
  <2> DEFINE queue == Watcher.queue
             event == Head(queue)
             after == Record(watch.pending, event)
  <2>1. /\ Watcher = watchers[g] /\ watch \in Watches /\ watch.pending \in Changes
        /\ Watcher.path = tab.path
    BY <1>1, <1>3, CurrentTypes DEF Watcher, FInv, Watching
  <2>2. /\ Len(queue) \in Nat \ {0} /\ Len(Tail(queue)) = Len(queue) - 1
        /\ event = queue[1] /\ event \in Event
        /\ \A i \in 1 .. Len(Tail(queue)) : Tail(queue)[i] = queue[i + 1]
    BY <1>1, <2>1, Shifted
  <2>3. /\ Watcher'.stage = "listening" /\ Watcher'.queue = Tail(queue)
        /\ Watcher'.path = tab.path
    <3>1. watchers' = [watchers EXCEPT ![g].queue = Tail(queue)]
      BY <1>3, <2>1 DEF ReceiveEvent, IsCurrent
    <3> QED
      BY <1>1, <1>3, <2>1, <3>1 DEF Watcher, Watchers, view
  <2>4. /\ watch'.pending = after /\ watch'.applying = watch.applying
        /\ timers' \subseteq timers \union {generation}
    <3>1. /\ \/ watch' = [watch EXCEPT !.pending = after, !.refreshAt = TRUE]
             \/ watch' = [watch EXCEPT !.pending = after]
          /\ timers' \subseteq timers \union {g}
      BY <1>3, <2>1 DEF ReceiveEvent, IsCurrent
    <3> QED
      BY <1>3, <2>1, <3>1 DEF Watches
  <2>5. Watching'
    BY <1>1, <2>3, <2>4 DEF FInv, Watching, view
  <2>6. ASSUME NEW n
        PROVE  /\ n \in watch.pending.upserts => n \in after.upserts
               /\ n \in watch.pending.removes => n \in after.removes
               /\ watch.pending.rescan => after.rescan
               /\ watch.pending.self => after.self
               /\ Tells(event, n) => Noted(after, n)
               /\ n \in after.removes => n \in watch.pending.removes \/ Removes(event, n)
               /\ Tells(event, n) /\ ~Removes(event, n) =>
                    n \in after.upserts \/ after.rescan \/ after.self
    BY <2>1, <2>2, RecordNotes
  <2> HIDE DEF queue, event, after
  <2>7. \A n : Gone(n)' = Gone(n)
    BY <1>1 DEF Gone, external, view
  <2>8. Hearing /\ Hearing' /\ Watcher.stage = "listening"
    BY <1>1, <2>1, <2>3 DEF Hearing
  <2>9. ASSUME NEW n, NEW j \in 2 .. Len(queue), Tells(queue[j], n)
        PROVE  Told(Tail(queue), n)
    <3>1. j - 1 \in 1 .. Len(Tail(queue)) /\ Tail(queue)[j - 1] = queue[j]
      BY <2>2
    <3> QED
      BY <2>9, <3>1 DEF Told
  <2>10. \A n : Told(queue, n) => Tells(event, n) \/ Told(Tail(queue), n)
    <3> SUFFICES ASSUME NEW n, NEW i \in 1 .. Len(queue), Tells(queue[i], n)
                 PROVE  Tells(event, n) \/ Told(Tail(queue), n)
      BY DEF Told
    <3>1. i = 1 \/ i \in 2 .. Len(queue)
      BY <2>2
    <3> QED
      BY <2>2, <2>9, <3>1
  <2>11. \A n : Waiting(n) <=> Told(queue, n)
    BY <2>8 DEF Waiting, queue
  <2>12. \A n : Waiting(n)' <=> Told(Tail(queue), n)
    BY <2>3, <2>8 DEF Waiting, Told, Tells
  <2>13. ASSUME NEW n \in Names, Known(n)  PROVE Known(n)'
    <3>1. Noted(watch.pending, n) => Noted(after, n)
      BY <2>6 DEF Noted
    <3>2. Noted(watch'.pending, n) <=> Noted(after, n)
      BY <2>4
    <3> QED
      BY <2>4, <2>6, <2>10, <2>11, <2>12, <2>13, <3>1 DEF Known, Noted
  <2>14. ASSUME NEW n \in Names, NEW i \in 1 .. Len(queue), Removes(queue[i], n)
         PROVE  Gone(n) \/ \E j \in (i + 1) .. Len(queue) : Tells(queue[j], n)
    BY <2>8, <2>14 DEF FInv, RemovalsHold, queue
  <2>15. ASSUME NEW n \in Names, NEW i \in 1 .. Len(Tail(queue)), Removes(Tail(queue)[i], n)
         PROVE  Gone(n) \/ \E j \in (i + 1) .. Len(Tail(queue)) : Tells(Tail(queue)[j], n)
    <3>1. i + 1 \in 1 .. Len(queue) /\ Removes(queue[i + 1], n)
      BY <2>2, <2>15
    <3>2. CASE Gone(n)
      BY <3>2
    <3>3. CASE \E j \in (i + 1 + 1) .. Len(queue) : Tells(queue[j], n)
      <4>1. PICK j \in (i + 1 + 1) .. Len(queue) : Tells(queue[j], n)
        BY <3>3
      <4>2. /\ j - 1 \in (i + 1) .. Len(Tail(queue)) /\ j - 1 \in 1 .. Len(Tail(queue))
            /\ Tail(queue)[j - 1] = queue[j]
        BY <2>2, <4>1
      <4> QED
        BY <4>1, <4>2
    <3> QED
      BY <2>14, <3>1, <3>2, <3>3
  <2>16. ASSUME NEW n \in after.removes
         PROVE  Gone(n) \/ Told(Tail(queue), n) \/ n \in after.upserts
                        \/ after.rescan \/ after.self
    <3>1. n \in Names
      <4>1. after \in Changes
        BY <2>1, <2>2, RecordType DEF after
      <4> QED
        BY <4>1 DEF Changes
    <3>2. CASE Removes(event, n)
      <4>1. Gone(n) \/ \E j \in 2 .. Len(queue) : Tells(queue[j], n)
        BY <2>2, <2>14, <3>1, <3>2
      <4> QED
        BY <2>9, <4>1
    <3>3. CASE ~Removes(event, n)
      <4>1. n \in watch.pending.removes
        BY <2>6, <2>16, <3>3
      <4>2. Gone(n) \/ Waiting(n) \/ n \in watch.pending.upserts
                    \/ watch.pending.rescan \/ watch.pending.self
        BY <2>8, <4>1 DEF FInv, RemovalsHold
      <4> QED
        BY <2>6, <2>10, <2>11, <3>3, <4>2
    <3> QED
      BY <3>2, <3>3
  <2>17. RemovalsHold'
    <3>1. ASSUME NEW n \in Names, NEW i \in 1 .. Len(Watcher'.queue),
                 Removes(Watcher'.queue[i], n)
          PROVE  Gone(n)' \/ \E j \in (i + 1) .. Len(Watcher'.queue) : Tells(Watcher'.queue[j], n)
      BY <2>3, <2>7, <2>15, <3>1
    <3>2. ASSUME NEW n \in watch'.pending.removes
          PROVE  Gone(n)' \/ Waiting(n)' \/ n \in watch'.pending.upserts
                          \/ watch'.pending.rescan \/ watch'.pending.self
      BY <2>4, <2>7, <2>12, <2>16
    <3> QED
      BY <3>1, <3>2 DEF RemovalsHold, Removes, Tells
  <2> QED
    BY <1>1, <2>4, <2>5, <2>13, <2>17, WatcherStepFresh
<1> QED
  BY <1>2, <1>3

-----------------------------------------------------------------------------
(* apply_watcher_changes: removals are dropped, the rest is read again.    *)
LEMMA ApplyChangesFresh ==
  ASSUME VInv, FInv, generation \in timers, timers' \subseteq timers, tab.root = "directory",
         ~loading, ~watch.applying, ~watch.pending.rescan, ~watch.pending.self, UNCHANGED disk,
         NEW w \in Watches, w.pending = NoChanges, ApplyChanges(generation, w, watch.pending)
  PROVE  FInv'
<1> DEFINE changed == watch.pending
           hidden == {n \in changed.upserts : ~Visible(n, tab.show)}
           removes == changed.removes \union hidden
           upserts == changed.upserts \ hidden
           batch == [active |-> TRUE, path |-> tab.path,
                     names |-> upserts, left |-> upserts, got |-> NoRows]
<1>1. /\ snap' = [snap EXCEPT !.rows = DropRows(snap.rows, removes)]
      /\ watch' = [w EXCEPT !.applying = (upserts # {})]
      /\ applies' = IF upserts = {} THEN applies ELSE [applies EXCEPT ![generation] = batch]
      /\ UNCHANGED <<blind, tab, generation, loading, failed, scanCancel, scans, watchers>>
  BY DEF ApplyChanges
<1>2. /\ generation \in Gens /\ snap \in Snapshots /\ applies \in [Gens -> Applies]
      /\ changed \in Changes /\ Watcher.stage = "listening" /\ ~Batch.active
  BY CurrentTypes DEF VInv, ViewTypeOK, FInv, Watching, Batching
<1>3. /\ Scan' = Scan /\ Watcher' = Watcher
      /\ watch'.pending = NoChanges /\ watch'.applying = (upserts # {})
      /\ snap'.rows = DropRows(snap.rows, removes)
  BY <1>1, <1>2 DEF Scan, Watcher, Watches, Snapshots
<1>4. \/ upserts = {} /\ ~Batch'.active
      \/ upserts # {} /\ Batch'.active /\ Batch'.names = upserts /\ Batch'.left = upserts
  BY <1>1, <1>2 DEF Batch
<1>5. (\A n : Fresh(n)' = Fresh(n)) /\ (\A n : Gone(n)' = Gone(n)) /\ Hearing' = Hearing
  BY <1>1, <1>3 DEF Fresh, Gone, Hearing
<1>6. \A n : Waiting(n)' = Waiting(n)
  BY <1>3, <1>5 DEF Waiting, Told, Tells
<1>7. Scanning' /\ Watching'
  BY <1>1, <1>3 DEF FInv, Scanning, Watching, Progress, Final, Last
<1>8. Batching'
  BY <1>1, <1>3, <1>4 DEF Batching
<1>9. RemovalsHold'
  <2>1. watch'.pending.removes = {}
    BY <1>3 DEF NoChanges
  <2> QED
    BY <1>3, <1>5, <2>1 DEF FInv, RemovalsHold, Removes, Tells
<1>10. ASSUME NEW n \in Names \ blind
       PROVE  Known(n)' \/ RowOK(n)'
  <2>1. CASE Waiting(n)
    BY <1>6, <2>1 DEF Known
  <2>2. CASE n \in upserts
    <3>1. RowOK(n)'
      BY <1>1, <1>4, <2>2 DEF RowOK, BatchRow
    <3> QED
      BY <3>1
  <2>3. CASE ~Waiting(n) /\ n \in removes \ upserts
    <3>1. Fresh(n) = Absent
      <4>1. CASE n \in hidden
        BY <4>1, FreshRow
      <4>2. CASE n \notin hidden
        <5>1. n \in changed.removes /\ n \notin changed.upserts
          BY <2>3, <4>2
        <5>2. Gone(n)
          BY <1>2, <2>3, <5>1 DEF FInv, RemovalsHold
        <5> QED
          BY <5>2, FreshRow DEF Gone
      <4> QED
        BY <4>1, <4>2
    <3>2. snap'.rows[n] = Absent
      BY <1>3, <2>3 DEF DropRows
    <3>3. RowOK(n)'
      BY <1>1, <1>4, <1>5, <2>3, <3>1, <3>2 DEF RowOK
    <3> QED
      BY <3>3
  <2>4. CASE ~Waiting(n) /\ n \notin removes /\ n \notin upserts
    <3>1. ~Known(n)
      BY <2>4 DEF Known, Noted
    <3>2. failed \/ snap.rows[n] = Fresh(n)
      BY <1>2, <3>1 DEF FInv, RowsOK, RowOK
    <3>3. snap'.rows[n] = snap.rows[n]
      BY <1>3, <2>4 DEF DropRows
    <3>4. RowOK(n)'
      BY <1>1, <1>4, <1>5, <2>4, <3>2, <3>3 DEF RowOK
    <3> QED
      BY <3>4
  <2> QED
    BY <2>1, <2>2, <2>3, <2>4
<1>11. RowsOK'
  BY <1>1, <1>10 DEF RowsOK
<1> QED
  BY <1>7, <1>8, <1>9, <1>11 DEF FInv

(* The timer: a reload, or a batch of what is pending.                     *)
LEMMA FireBatchFresh ==
  ASSUME VInv, FInv, NEW g \in Gens, FireBatch(g)
  PROVE  FInv'
<1> DEFINE taken == [watch EXCEPT !.refreshAt = FALSE, !.pending = NoChanges]
<1>1. /\ g \in timers /\ timers' \subseteq timers /\ UNCHANGED <<disk, changes>>
      /\ watch \in Watches /\ tab \in Tabs /\ snap \in Snapshots
  BY CurrentTypes DEF FireBatch
<1>2. taken \in Watches /\ taken.pending = NoChanges
  BY <1>1, EmptyTypes DEF Watches
<1>3. CASE ~IsCurrent(g) \/ ~watch.refreshAt \/ tab.root = "trash"
  <2>1. UNCHANGED <<blind, view, scans, watchers, watch, applies>>
    BY <1>3 DEF FireBatch
  <2>2. Scan' = Scan /\ Watcher' = Watcher /\ Batch' = Batch
    BY <2>1 DEF Scan, Watcher, Batch, view
  <2> QED
    BY <1>1, <2>1, <2>2, Elsewhere DEF view
<1>4. CASE ~(~IsCurrent(g) \/ ~watch.refreshAt \/ tab.root = "trash")
  <2> HIDE DEF taken
  <2>1. CASE LoadDirectory(tab, taken, snap) /\ UNCHANGED applies
    BY <1>1, <1>2, <2>1, LoadFresh
  <2>2. CASE /\ ~loading /\ ~watch.applying
             /\ ~watch.pending.rescan /\ ~watch.pending.self
             /\ ApplyChanges(g, taken, watch.pending)
    <3>1. g = generation /\ tab.root = "directory"
      BY <1>1, <1>4 DEF IsCurrent, Tabs
    <3> QED
      BY <1>1, <1>2, <2>2, <3>1, ApplyChangesFresh
  <2> QED
    BY <1>4, <2>1, <2>2 DEF FireBatch, taken
<1> QED
  BY <1>3, <1>4

(* An entry of the batch is read as it is now.                             *)
LEMMA ScanEntryFresh ==
  ASSUME VInv, FInv, NEW g \in Gens, NEW n \in Names, ScanEntry(g, n)
  PROVE  FInv'
<1>1. /\ UNCHANGED <<external, view, scans, watchers, watch, timers>>
      /\ generation \in Gens /\ applies \in [Gens -> Applies]
  BY DEF ScanEntry, VInv, ViewTypeOK
<1>2. PICK result \in {disk[applies[g].path][n]}
                       \union (IF "read" \in Failures THEN {Unavailable} ELSE {}) :
        applies' = [applies EXCEPT ![g].left = @ \ {n}, ![g].got[n] = result]
  BY DEF ScanEntry
<1>3. Scan' = Scan /\ Watcher' = Watcher
  BY <1>1 DEF Scan, Watcher, view
<1>4. CASE g # generation
  <2>1. Batch' = Batch
    BY <1>1, <1>2, <1>4 DEF Batch, view
  <2> QED
    BY <1>1, <1>3, <2>1, Elsewhere DEF external, view
<1>5. CASE g = generation
  <2>1. Batch = applies[g] /\ Batch \in Applies /\ Batch.got \in Rows
    BY <1>1, <1>5 DEF Batch, Applies
  <2>2. /\ Batch'.active = Batch.active /\ Batch'.names = Batch.names
        /\ Batch'.left = Batch.left \ {n} /\ Batch'.got = [Batch.got EXCEPT ![n] = result]
    BY <1>1, <1>2, <1>5, <2>1 DEF Batch, Applies, view
  <2>3. Batch.active => result \in {Unavailable, disk[tab.path][n]}
    BY <1>2, <1>5, <2>1 DEF VInv, Local
  <2>4. \A m : Fresh(m)' = Fresh(m) /\ Gone(m)' = Gone(m)
    BY <1>1 DEF Fresh, Gone, external, view
  <2>5. Scanning' /\ Watching' /\ Batching'
    BY <1>1, <1>3, <2>2
       DEF FInv, Scanning, Watching, Batching, Progress, Final, Last, external, view
  <2>6. Hearing' = Hearing /\ (\A m : Waiting(m)' = Waiting(m)) /\ (\A m : Known(m)' = Known(m))
    BY <1>1, <1>3 DEF Hearing, Waiting, Told, Tells, Known, Noted
  <2>7. RemovalsHold'
    BY <1>1, <1>3, <2>4, <2>6 DEF FInv, RemovalsHold, Removes, Tells
  <2>8. ASSUME NEW m \in Names, Batch.active, BatchRow(m)
        PROVE  BatchRow(m)'
    <3>1. disk'[tab'.path][m] = disk[tab.path][m]
      BY <1>1 DEF external, view
    <3>2. CASE m = n
      <4>1. Batch'.got[m] = result
        BY <2>1, <2>2, <3>2 DEF Rows
      <4> QED
        BY <2>3, <2>8, <3>1, <3>2, <4>1 DEF BatchRow
    <3>3. CASE m # n
      <4>1. Batch'.got[m] = Batch.got[m]
        BY <2>1, <2>2, <3>3 DEF Rows
      <4> QED
        BY <2>2, <2>8, <3>1, <3>3, <4>1 DEF BatchRow
    <3> QED
      BY <3>2, <3>3
  <2>9. ASSUME NEW m \in Names, RowOK(m)
        PROVE  RowOK(m)'
    <3>1. ScanRow(m)' = ScanRow(m)
      BY <1>3, <2>4 DEF ScanRow, Last
    <3> QED
      BY <1>1, <2>2, <2>4, <2>8, <2>9, <3>1 DEF RowOK, view
  <2>10. RowsOK'
    BY <1>1, <2>6, <2>9 DEF FInv, RowsOK, external, view
  <2> QED
    BY <2>5, <2>7, <2>10 DEF FInv
<1> QED
  BY <1>4, <1>5

(* The entries a batch has read replace rows, or a new scan is started.    *)
LEMMA DeliverApplyFresh ==
  ASSUME VInv, FInv, NEW g \in Gens, DeliverApply(g)
  PROVE  FInv'
<1> DEFINE batch == applies[g]
           unread == {n \in batch.names : batch.got[n] = Unavailable}
           rows == [n \in Names |-> IF n \in unread THEN Absent
                                    ELSE IF n \in batch.names THEN batch.got[n] ELSE snap.rows[n]]
           applied == [watch EXCEPT !.applying = FALSE]
           shown == [snap EXCEPT !.rows = rows]
<1>1. /\ batch \in Applies /\ batch.active /\ batch.left = {}
      /\ applies \in [Gens -> Applies] /\ applies' = [applies EXCEPT ![g] = NoApply]
      /\ UNCHANGED <<disk, changes, timers>>
      /\ generation \in Gens /\ watch \in Watches /\ tab \in Tabs /\ snap \in Snapshots
  BY DEF DeliverApply, VInv, ViewTypeOK
<1>2. shown \in Snapshots /\ shown.rows = rows
  <2>1. rows \in Rows
    BY <1>1 DEF Applies, Snapshots, Rows, Row
  <2> QED
    BY <1>1, <2>1 DEF Snapshots
<1>3. applied \in Watches /\ ~applied.applying /\ applied.pending = watch.pending
  BY <1>1 DEF Watches
<1>4. \A h \in Gens : applies'[h].active => applies[h].active
  BY <1>1 DEF NoApply
<1>5. CASE ~IsCurrent(g) \/ tab.path # batch.path
  <2>1. UNCHANGED <<blind, view, scans, watchers, watch>> /\ g # generation
    BY <1>1, <1>5 DEF DeliverApply, VInv, Local, IsCurrent
  <2>2. Scan' = Scan /\ Watcher' = Watcher /\ Batch' = Batch
    BY <1>1, <2>1 DEF Scan, Watcher, Batch, view
  <2> QED
    BY <1>1, <2>1, <2>2, Elsewhere DEF view
<1>6. CASE LoadDirectory(tab, applied, shown)
  <2> HIDE DEF applied, shown
  <2> QED
    BY <1>1, <1>2, <1>3, <1>4, <1>6, LoadFresh
<1>7. CASE /\ IsCurrent(g) /\ unread = {} /\ watch' = applied /\ snap' = shown
           /\ UNCHANGED <<blind, tab, generation, loading, failed, scanCancel, scans, watchers>>
  <2>1. /\ Scan' = Scan /\ Watcher' = Watcher /\ ~Batch'.active /\ Batch = batch
        /\ watch'.pending = watch.pending /\ snap'.rows = rows
    BY <1>1, <1>2, <1>3, <1>7 DEF Scan, Watcher, Batch, NoApply, IsCurrent
  <2>2. (\A n : Fresh(n)' = Fresh(n)) /\ (\A n : Gone(n)' = Gone(n)) /\ Hearing' = Hearing
    BY <1>1, <1>7, <2>1 DEF Fresh, Gone, Hearing
  <2>3. (\A n : Waiting(n)' = Waiting(n)) /\ (\A n : Known(n)' = Known(n))
    BY <2>1, <2>2 DEF Waiting, Told, Tells, Known, Noted
  <2>4. Scanning' /\ Watching' /\ Batching'
    BY <1>1, <1>7, <2>1 DEF FInv, Scanning, Watching, Batching, Progress, Final, Last
  <2>5. RemovalsHold'
    BY <2>1, <2>2, <2>3 DEF FInv, RemovalsHold, Removes, Tells
  <2>6. ASSUME NEW n \in Names, RowOK(n), tab.root = "directory"
        PROVE  RowOK(n)'
    <3>1. ~loading /\ \A m \in batch.names : Visible(m, tab.show)
      BY <1>1, <2>1, <2>6 DEF FInv, Batching
    <3>2. failed \/ rows[n] = Fresh(n)
      <4>1. CASE n \in batch.names
        <5>1. rows[n] = batch.got[n] /\ batch.got[n] # Unavailable
          BY <1>7, <4>1
        <5>2. failed \/ BatchRow(n)
          BY <1>1, <2>1, <2>6, <3>1, <4>1 DEF RowOK
        <5>3. failed \/ batch.got[n] = disk[tab.path][n]
          BY <1>1, <2>1, <5>1, <5>2 DEF BatchRow
        <5> QED
          BY <3>1, <4>1, <5>1, <5>3, FreshRow
      <4>2. CASE n \notin batch.names
        <5>1. rows[n] = snap.rows[n]
          BY <4>2
        <5> QED
          BY <2>1, <2>6, <3>1, <4>2, <5>1 DEF RowOK
      <4> QED
        BY <4>1, <4>2
    <3> QED
      BY <1>7, <2>1, <2>2, <3>1, <3>2 DEF RowOK
  <2>7. RowsOK'
    BY <1>7, <2>3, <2>6 DEF FInv, RowsOK
  <2> QED
    BY <2>4, <2>5, <2>7 DEF FInv
<1> QED
  BY <1>5, <1>6, <1>7 DEF DeliverApply

-----------------------------------------------------------------------------
(* A change is told to the watcher that hears it, or it is one of those    *)
(* nobody could report.                                                    *)
LEMMA ChangeFresh ==
  ASSUME VInv, FInv, NEW d \in Dirs, NEW names \in SUBSET Names, NEW rows, NEW event \in Event,
         ChangeFolder(d, names, rows, event),
         \A n \in names : Tells(event, n),
         \A n \in Names \ names : rows[n] = disk[d][n],
         \A n \in Names : Removes(event, n) => rows[n] = Absent
  PROVE  FInv'
<1>1. /\ UNCHANGED <<tab, generation, loading, failed, snap, scanCancel, scans, watch, timers,
                    applies>>
      /\ disk' = [disk EXCEPT ![d] = rows] /\ d \in Places /\ d \in DOMAIN disk
      /\ watchers \in [Gens -> Watchers] /\ generation \in Gens /\ Watcher \in Watchers
      /\ Watcher.queue \in Seq(Event)
      /\ watchers' = [h \in Gens |->
           IF Hears(watchers[h], d) THEN [watchers[h] EXCEPT !.queue = Append(@, event)]
           ELSE watchers[h]]
      /\ blind' = IF d = tab.path /\ ~Hears(Watcher, d) THEN blind \union names ELSE blind
  BY CurrentTypes DEF ChangeFolder, Report, VInv, ViewTypeOK, Places, Watcher, Watchers
<1>2. Scan' = Scan /\ Batch' = Batch
  BY <1>1 DEF Scan, Batch
<1>3. Watcher.stage # "none" => Watcher.path = tab.path
  BY DEF FInv, Watching
<1>4. CASE d # tab.path
  <2>1. Watcher' = Watcher /\ disk'[tab.path] = disk[tab.path]
    BY <1>1, <1>3, <1>4 DEF Watcher, Hears
  <2> QED
    BY <1>1, <1>2, <1>4, <2>1, Elsewhere
<1>5. ASSUME d = tab.path, NEW n \in Names \ names
      PROVE  /\ disk'[tab'.path][n] = disk[tab.path][n]
             /\ Fresh(n)' = Fresh(n) /\ Gone(n)' = Gone(n) /\ RowOK(n)' = RowOK(n)
  <2>1. disk'[tab'.path][n] = disk[tab.path][n]
    BY <1>1, <1>5
  <2>2. Fresh(n)' = Fresh(n) /\ Gone(n)' = Gone(n)
    BY <1>1, <2>1 DEF Fresh, Gone
  <2>3. ScanRow(n)' = ScanRow(n) /\ BatchRow(n)' = BatchRow(n)
    BY <1>2, <2>1, <2>2 DEF ScanRow, BatchRow, Last
  <2> QED
    BY <1>1, <1>2, <2>1, <2>2, <2>3 DEF RowOK
<1>6. Scanning' /\ Batching'
  BY <1>1, <1>2 DEF FInv, Scanning, Batching, Progress, Final, Last
<1>7. CASE d = tab.path /\ ~Hears(Watcher, d)
  <2>1. Watcher' = Watcher /\ ~Hearing /\ ~Hearing' /\ blind' = blind \union names
    BY <1>1, <1>3, <1>7 DEF Watcher, Hears, Hearing
  <2>2. Watching' /\ RemovalsHold'
    BY <1>1, <2>1 DEF FInv, Watching, RemovalsHold, Hearing
  <2>3. \A n : Known(n)' = Known(n)
    BY <1>1, <2>1 DEF Known, Waiting, Noted
  <2>4. RowsOK'
    BY <1>1, <1>5, <1>7, <2>1, <2>3 DEF FInv, RowsOK
  <2> QED
    BY <1>6, <2>2, <2>4 DEF FInv
<1>8. CASE d = tab.path /\ Hears(Watcher, d)
  <2> DEFINE queue == Watcher.queue
  <2>1. /\ Watcher'.stage = Watcher.stage /\ Watcher'.path = Watcher.path
        /\ Watcher'.queue = Append(queue, event) /\ blind' = blind
        /\ Hearing /\ Hearing' /\ Watcher.stage \in {"ready", "listening"}
    BY <1>1, <1>8 DEF Watcher, Hears, Hearing, Watchers
  <2>2. /\ Len(Watcher'.queue) = Len(queue) + 1 /\ Len(queue) \in Nat
        /\ Watcher'.queue[Len(queue) + 1] = event
        /\ \A i \in 1 .. Len(queue) : Watcher'.queue[i] = queue[i]
    BY <1>1, <2>1, Appended
  <2>3. Watching'
    BY <1>1, <2>1 DEF FInv, Watching
  <2>4. \A n \in names : Told(Watcher'.queue, n)
    <3>1. Len(queue) + 1 \in 1 .. Len(Watcher'.queue)
      BY <2>2
    <3> QED
      BY <2>2, <3>1 DEF Told
  <2>5. \A n : Told(queue, n) => Told(Watcher'.queue, n)
    <3>1. 1 .. Len(queue) \subseteq 1 .. Len(Watcher'.queue)
      BY <2>2
    <3> QED
      BY <2>2, <3>1 DEF Told
  <2>6. \A n : Waiting(n)' <=> Told(Watcher'.queue, n)
    BY <2>1 DEF Waiting, Told, Tells
  <2>7. \A n : Waiting(n) <=> Told(queue, n)
    BY <2>1 DEF Waiting
  <2>8. RowsOK'
    <3> SUFFICES ASSUME NEW n \in Names \ blind, tab.root = "directory"
                 PROVE  Known(n)' \/ RowOK(n)'
      BY <1>1, <2>1 DEF RowsOK
    <3>1. CASE n \in names
      BY <2>4, <2>6, <3>1 DEF Known
    <3>2. CASE n \notin names
      <4>1. Known(n) \/ RowOK(n)
        BY DEF FInv, RowsOK
      <4>2. Known(n) => Known(n)'
        BY <1>1, <2>5, <2>6, <2>7 DEF Known, Noted
      <4> QED
        BY <1>5, <1>8, <3>2, <4>1, <4>2
    <3> QED
      BY <3>1, <3>2
  <2>9. ASSUME NEW n \in Names, NEW i \in 1 .. Len(Watcher'.queue), Removes(Watcher'.queue[i], n)
        PROVE  Gone(n)' \/ \E j \in (i + 1) .. Len(Watcher'.queue) : Tells(Watcher'.queue[j], n)
    <3>1. CASE i = Len(queue) + 1
      <4>1. rows[n] = Absent
        BY <2>2, <2>9, <3>1
      <4> QED
        BY <1>1, <1>8, <4>1 DEF Gone
    <3>2. CASE i # Len(queue) + 1
      <4>1. i \in 1 .. Len(queue) /\ Removes(queue[i], n)
        BY <2>2, <2>9, <3>2
      <4>2. CASE n \in names
        <5>1. Len(queue) + 1 \in (i + 1) .. Len(Watcher'.queue)
          BY <2>2, <4>1
        <5> QED
          BY <2>2, <4>2, <5>1
      <4>3. CASE n \notin names
        <5>1. CASE Gone(n)
          BY <1>5, <1>8, <4>3, <5>1
        <5>2. CASE \E j \in (i + 1) .. Len(queue) : Tells(queue[j], n)
          <6>1. PICK j \in (i + 1) .. Len(queue) : Tells(queue[j], n)
            BY <5>2
          <6>2. j \in (i + 1) .. Len(Watcher'.queue) /\ Watcher'.queue[j] = queue[j]
            BY <2>2, <4>1, <6>1
          <6> QED
            BY <6>1, <6>2
        <5> QED
          BY <2>1, <4>1, <5>1, <5>2 DEF FInv, RemovalsHold
      <4> QED
        BY <4>2, <4>3
    <3> QED
      BY <3>1, <3>2
  <2>10. ASSUME Watcher.stage = "listening", NEW n \in watch.pending.removes
         PROVE  Gone(n)' \/ Told(Watcher'.queue, n) \/ n \in watch.pending.upserts
                         \/ watch.pending.rescan \/ watch.pending.self
    <3>1. n \in Names
      BY CurrentTypes DEF Changes
    <3>2. CASE n \in names
      BY <2>4, <3>2
    <3>3. CASE n \notin names
      <4>1. Gone(n) \/ Waiting(n) \/ n \in watch.pending.upserts
                    \/ watch.pending.rescan \/ watch.pending.self
        BY <2>10 DEF FInv, RemovalsHold
      <4> QED
        BY <1>5, <1>8, <2>5, <2>7, <3>1, <3>3, <4>1
    <3> QED
      BY <3>2, <3>3
  <2>11. RemovalsHold'
    BY <1>1, <2>1, <2>6, <2>9, <2>10 DEF RemovalsHold, Removes, Tells
  <2> QED
    BY <1>6, <2>3, <2>8, <2>11 DEF FInv
<1> QED
  BY <1>4, <1>7, <1>8

(* What notify reports names what has changed, and what is gone.           *)
LEMMA ExternalFresh ==
  ASSUME VInv, FInv, NEW d \in Dirs, External(d)
  PROVE  FInv'
<1>1. disk[d] \in [Names -> {Absent} \union Version]
  BY DEF VInv, ViewTypeOK, Places
<1>2. ASSUME NEW n \in Names, NEW kind \in {"write", "any"},
             ChangeFolder(d, {n}, [disk[d] EXCEPT ![n] = NewVersion],
               IF kind = "write" THEN [kind |-> "upsert", name |-> n] ELSE [kind |-> "rescan"])
      PROVE  FInv'
  <2> DEFINE event == IF kind = "write" THEN [kind |-> "upsert", name |-> n]
                      ELSE [kind |-> "rescan"]
             rows == [disk[d] EXCEPT ![n] = NewVersion]
  <2>1. event \in Event /\ Tells(event, n) /\ \A m : ~Removes(event, m)
    BY DEF Event, Tells, Removes
  <2>2. \A m \in Names \ {n} : rows[m] = disk[d][m]
    BY <1>1
  <2>3. ChangeFolder(d, {n}, rows, event)
    BY <1>2
  <2> HIDE DEF event, rows
  <2> QED
    BY <2>1, <2>2, <2>3, ChangeFresh
<1>3. ASSUME NEW n \in Names,
             ChangeFolder(d, {n}, [disk[d] EXCEPT ![n] = Absent], [kind |-> "remove", name |-> n])
      PROVE  FInv'
  <2> DEFINE event == [kind |-> "remove", name |-> n]
             rows == [disk[d] EXCEPT ![n] = Absent]
  <2>1. event \in Event /\ Tells(event, n) /\ \A m : Removes(event, m) => m = n
    BY DEF Event, Tells, Removes
  <2>2. rows[n] = Absent /\ \A m \in Names \ {n} : rows[m] = disk[d][m]
    BY <1>1
  <2>3. ChangeFolder(d, {n}, rows, event)
    BY <1>3
  <2> HIDE DEF event, rows
  <2> QED
    BY <2>1, <2>2, <2>3, ChangeFresh
<1>4. ASSUME NEW m \in Names, NEW n \in Names, m # n,
             ChangeFolder(d, {m, n}, [disk[d] EXCEPT ![m] = Absent, ![n] = NewVersion],
                          [kind |-> "rename", from |-> m, to |-> n])
      PROVE  FInv'
  <2> DEFINE event == [kind |-> "rename", from |-> m, to |-> n]
             rows == [disk[d] EXCEPT ![m] = Absent, ![n] = NewVersion]
  <2>1. /\ event \in Event /\ Tells(event, m) /\ Tells(event, n)
        /\ \A k : Removes(event, k) => k = m
    BY DEF Event, Tells, Removes
  <2>2. rows[m] = Absent /\ \A k \in Names \ {m, n} : rows[k] = disk[d][k]
    BY <1>1, <1>4
  <2>3. ChangeFolder(d, {m, n}, rows, event) /\ {m, n} \in SUBSET Names
    BY <1>4
  <2> HIDE DEF event, rows
  <2> QED
    BY <2>1, <2>2, <2>3, ChangeFresh
<1>5. ASSUME NEW kind \in {"self", "error"}, ChangeFolder(d, {}, disk[d], [kind |-> kind])
      PROVE  FInv'
  <2>1. [kind |-> kind] \in Event /\ \A n : ~Removes([kind |-> kind], n)
    BY DEF Event, Removes
  <2> QED
    BY <1>5, <2>1, ChangeFresh
<1> QED
  BY <1>2, <1>3, <1>4, <1>5 DEF External

(* The commands of the user are loads.                                     *)
LEMMA UserFresh ==
  ASSUME VInv, FInv, User
  PROVE  FInv'
BY UserLoads, LoadFresh

(* No step loses a change.                                                 *)
LEMMA FreshStep ==
  ASSUME VInv, RInv, FInv, [Next]_vars
  PROVE  FInv'
<1>1. CASE User
  BY <1>1, UserFresh
<1>2. CASE \E d \in Dirs : External(d)
  BY <1>2, ExternalFresh
<1>3. ASSUME NEW g \in Gens, System(g)
      PROVE  FInv'
  BY <1>3, ScanThreadFresh, DeliverScanFresh, StartWatchingFresh, InstallWatcherFresh,
     ReceiveEventFresh, FireBatchFresh, ScanEntryFresh, DeliverApplyFresh
     DEF System, WatchThread, ApplyThread
<1>4. CASE UNCHANGED vars
  <2>1. /\ UNCHANGED <<blind, tab, generation, loading, failed, snap, watch, disk, timers>>
        /\ Scan' = Scan /\ Watcher' = Watcher /\ Batch' = Batch
    BY <1>4 DEF vars, Scan, Watcher, Batch
  <2> QED
    BY <2>1, Elsewhere
<1> QED
  BY <1>1, <1>2, <1>3, <1>4 DEF Next

(* At rest nobody knows of a change that is not shown.                     *)
LEMMA NothingLeft ==
  ASSUME FInv
  PROVE  SettledRowsAreFresh
<1> SUFFICES ASSUME Settled, NEW n \in Names \ blind
             PROVE  ~Drifted(n)
  BY DEF SettledRowsAreFresh
<1>1. /\ tab.root = "directory" /\ ~loading /\ ~failed /\ Watcher.queue = <<>>
      /\ watch.pending = NoChanges /\ ~Batch.active
  BY DEF Settled, Watcher, Batch
<1>2. ~Known(n)
  BY <1>1 DEF Known, Waiting, Told, Noted, NoChanges
<1>3. snap.rows[n] = Fresh(n)
  BY <1>1, <1>2 DEF FInv, RowsOK, RowOK
<1> QED
  BY <1>3 DEF Drifted

\* scan_directory_progressive, wait_for_directory_watcher_event,
\* schedule_directory_watcher_batch and apply_watcher_changes together: in whatever
\* order the scan's reads, the events, the batches, their late results and the
\* changes of other programs come, once nothing of the current generation is on
\* its way, every row is what the disk holds, except for changes that no watcher
\* of this generation was there to report, and entries that the load skipped or
\* whose metadata it could not read.
THEOREM SettledRowsStayFresh == Spec => []SettledRowsAreFresh
<1>1. VInv /\ RInv /\ [Next]_vars => RInv'
  BY RowsStep
<1>2. VInv /\ RInv /\ FInv /\ [Next]_vars => FInv'
  BY FreshStep
<1>3. Spec => [](RInv /\ FInv)
  BY InitRInv, InitFresh, <1>1, <1>2, Invariance, PTL DEF Spec
<1> QED
  BY <1>3, NothingLeft, PTL
=============================================================================
