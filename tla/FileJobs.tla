------------------------------ MODULE FileJobs ------------------------------
(***************************************************************************)
(* The bodies of the long jobs of gnil-fs: copy, move, trash, permanent    *)
(* deletion, restore and purge (operation/job_execution.rs, with the parts *)
(* of operation.rs and secure_fs.rs they call), and the undo of the first  *)
(* three (operation.rs, fingerprint.rs).                                   *)
(*                                                                         *)
(* A job works on its sources one by one, in small steps.  Between any two *)
(* another process may change the folders and the user may cancel; a call  *)
(* may fail, and then the user is asked what to do.  A path is a sequence  *)
(* of a folder, a name and, in a folder that is copied, a child; the       *)
(* folders src, dst and trash always exist.  Names with a UUID are never   *)
(* met by another process.                                                 *)
(***************************************************************************)
EXTENDS Integers, Sequences, FiniteSets, SequencesExt, TLC

CONSTANTS
    Jobs,           \* the jobs: [op, sources, conflict, replace, tree]
    ForeignPlaces,  \* the paths the other process works on
    OtherData,      \* what it writes, in order: a bound on its steps, too
    MaxFaults,      \* bound: calls that fail by themselves
    MaxNodes        \* bound: inode numbers, and copies of a name

Ops        == {"copy", "move", "trash", "delete", "restore", "purge"}
Decisions  == {"Skip", "KeepBoth", "Replace", "MergeDirectory"}
Folders    == {"src", "dst", "trash"}
Name(b, n) == <<b, n>>          \* "b", "b copy", "b copy 2"
Plain(b)   == Name(b, 0)
Hidden(tag, n) == <<tag, n>>    \* .gnil-part-*, .gnil-leaf-*, .gnil-undo-*
HiddenTags == {".part", ".leaf", ".undo"}
Folder     == "dir"             \* the data of a folder

VisibleNames == (STRING \ HiddenTags) \X Nat
VisiblePaths == (Folders \X VisibleNames) \cup (Folders \X VisibleNames \X VisibleNames)

\* The sources are entries of one folder: of src, whose names are told apart by
\* their base, or of the trash, where entries from one place differ in the number.
\* A file has nothing below it.  What the other process writes is told from all other data.
ASSUME JobsAssumption ==
    /\ \A j \in Jobs :
          /\ j.op \in Ops /\ j.conflict \in Decisions \cup {"Ask"} /\ j.replace \in BOOLEAN
          /\ j.sources \in Seq({IF j.op \in {"restore", "purge"} THEN "trash" ELSE "src"} \X VisibleNames)
          /\ j.op \notin {"restore", "purge"} => \A i \in DOMAIN j.sources : j.sources[i][2][2] = 0
          /\ DOMAIN j.tree \subseteq VisiblePaths
          /\ \A p \in DOMAIN j.tree : Len(p) = 3 =>
                Front(p) \in DOMAIN j.tree /\ j.tree[Front(p)].data = Folder
          /\ \A p \in DOMAIN j.tree : j.tree[p].data \notin ToSet(OtherData)
    /\ ForeignPlaces \subseteq VisiblePaths
    /\ IsInjective(OtherData) /\ Folder \notin ToSet(OtherData)
    /\ Len(OtherData) \in Nat /\ DOMAIN OtherData = 1..Len(OtherData)
    /\ MaxFaults \in Nat /\ MaxNodes \in Nat

VARIABLES
    tree,       \* path -> [id, data], of the paths that exist
    info,       \* the entries of the trash that have their .trashinfo
    split,      \* whether dst and trash are on another device than src
    job,        \* the job and what its body knows
    cancelled, foreign, faults,
    first,      \* the tree at first
    kept,       \* the data that must not be lost
    over,       \* what the job had brought to its place and replaced by less
    litter      \* hidden paths whose removal failed: no name of a later call is the same

fsVars  == <<tree, info>>
envVars == <<split, foreign, faults, first, over, litter>>
jobsVars == <<fsVars, envVars, job, cancelled, kept>>

-----------------------------------------------------------------------------
(* The file system.                                                        *)

path_lexists(p) == p \in DOMAIN tree
is_dir(p)   == path_lexists(p) /\ tree[p].data = Folder
Under(p)    == {q \in DOMAIN tree : IsPrefix(p, q)}
Below(p)    == Under(p) \ {p}
HasParent(p) == Len(p) = 2 \/ is_dir(Front(p))
DataAt(p)   == {tree[q].data : q \in Under(p)} \ {Folder}
Rebase(q, p, r) == r \o SubSeq(q, Len(p) + 1, Len(q))
Leafs(t)    == {t[q].data : q \in DOMAIN t} \ {Folder}

\* The trees after the calls of secure_fs.
Without(p)   == [q \in DOMAIN tree \ Under(p) |-> tree[q]]
With(p, n)   == [q \in DOMAIN tree \cup {p} |-> IF q = p THEN n ELSE tree[q]]
Moved(p, r)  ==
    [q \in (DOMAIN tree \ Under(p)) \cup {Rebase(s, p, r) : s \in Under(p)} |->
        IF IsPrefix(r, q) THEN tree[Rebase(q, r, p)] ELSE tree[q]]
Exchanged(p, r) ==
    LET to(q) == CASE IsPrefix(p, q) -> Rebase(q, p, r)
                   [] IsPrefix(r, q) -> Rebase(q, r, p)
                   [] OTHER -> q
    IN  [q \in {to(s) : s \in DOMAIN tree} |-> tree[to(q)]]

\* An inode number no one has and no identity remembers.
Remembered == {n.id : n \in Range(job.ident) \cup Range(job.prints)}
NewNode(data) ==
    [id |-> CHOOSE n \in 1..MaxNodes : n \notin Remembered \cup {m.id : m \in Range(tree)},
     data |-> data]

-----------------------------------------------------------------------------
(* The job.                                                                *)

Source   == job.sources[job.i]
Base(p)  == p[2][1]
Requested == <<"dst", Plain(Base(Source))>>
Original == <<"src", Plain(Base(Source))>>
Staging  == IF job.op = "restore" THEN <<"src", Hidden(".part", 0)>>
                                  ELSE <<"dst", Hidden(".part", 0)>>
Work     == IF job.how = "merge" THEN job.target ELSE Staging
ItemFrom == Source \o job.item
ItemTo   == Work \o job.item
Leaf     == Append(Front(ItemTo), Hidden(".leaf", 0))
Quarantine(j) == <<"dst", Hidden(".undo", j)>>

AtPC(l)       == job.pc = l
Goto(l)       == [job EXCEPT !.pc = l]
NextSource(j) == [j EXCEPT !.i = @ + 1, !.pc = "next"]
Affect(j, t)  == [j EXCEPT !.affected = Append(@, [source |-> Source, target |-> t])]
MovedTo(j, t) == [Affect(j, t) EXCEPT !.moves = Append(@, [source |-> Source, target |-> t])]
Skipped(j)    == [j EXCEPT !.skipped = @ \cup {Source}]
Issue(j)      == [j EXCEPT !.issues = @ \cup {Source}]
Prompt(e, s)  == [job EXCEPT !.pc = "error", !.error = e, !.stage = s]
CopyFails(e)  == [job EXCEPT !.pc = "cleanup", !.error = e]

\* copy_outcome, move_outcome, trash_outcome: the result and the undo record.  That
\* of a copy may list nothing.
Outcome(j, r) ==
    LET targets == {j.affected[n].target : n \in DOMAIN j.affected}
    IN  [j EXCEPT
           !.pc = "ended", !.result = r,
           !.prints = IF j.op = "copy" /\ targets \subseteq DOMAIN tree
                      THEN [q \in UNION {Under(t) : t \in targets} |-> tree[q]]
                      ELSE << >>,
           !.undo = IF \/ j.pc \in {"prepare", "validate"}       \* a default outcome
                       \/ j.op \notin {"copy", "move", "trash"}
                       \/ j.op = "copy" /\ ~(targets \subseteq DOMAIN tree)
                       \/ j.op = "move" /\ j.moves = << >>
                       \/ j.op = "trash" /\ targets = {}
                    THEN "none" ELSE "offered"]

NewJob(j) ==
    [op |-> j.op, sources |-> j.sources, all |-> j.conflict, replace |-> j.replace,
     pc |-> "prepare", i |-> 1, ident |-> << >>,
     target |-> << >>, how |-> "plain", canMerge |-> FALSE, merged |-> FALSE,
     item |-> << >>, walk |-> {}, error |-> "none", stage |-> "none",
     affected |-> << >>, moves |-> << >>, skipped |-> {}, issues |-> {},
     replaced |-> FALSE, result |-> "none",
     prints |-> << >>, undo |-> "none", n |-> 0, stuck |-> {}]

JobsInit ==
    \E j \in Jobs :
       /\ tree = j.tree /\ first = j.tree
       /\ info = {p \in DOMAIN j.tree : p[1] = "trash" /\ Len(p) = 2}
       /\ split \in BOOLEAN
       /\ job = NewJob(j)
       /\ cancelled = FALSE /\ foreign = 0 /\ faults = 0 /\ over = {} /\ litter = {}
       /\ kept = Leafs(j.tree) \
                   IF j.op \in {"delete", "purge"}
                   THEN UNION {DataAt(j.sources[n]) : n \in DOMAIN j.sources} ELSE {}

Quiet == UNCHANGED <<envVars, cancelled, kept>>
Keep  == Quiet /\ UNCHANGED fsVars

\* A call that fails by itself.  Its cause may last, and make later calls fail, too.
CallFails == faults < MaxFaults /\ faults' = faults + 1
LastingFault == faults' = IF faults = 0 THEN 1 ELSE faults

\* What is hidden at p is removed, or that fails: the error is ignored, what
\* stays is not used again.
Cleared(p) ==
    /\ tree' = Without(p)
    /\ \/ litter' = {q \in litter : ~IsPrefix(p, q)} /\ UNCHANGED faults
       \/ /\ path_lexists(p) /\ MaxFaults > 0 /\ LastingFault
          /\ litter' = litter \cup {p}
    /\ UNCHANGED <<split, foreign, first, over, cancelled, kept>>

-----------------------------------------------------------------------------
(* prepare, and the head of the loop over the sources.                     *)

\* prepare remembers the identity of every entry; a source that is not there
\* has none and is not validated later.
Prepare ==
    /\ AtPC("prepare")
    /\ IF job.i > Len(job.sources)
       THEN job' = [job EXCEPT !.i = 1, !.pc = IF job.op \in {"copy", "move"}
                                               THEN "validate" ELSE "next"]
       ELSE IF cancelled THEN job' = Outcome(job, "Cancelled")
       ELSE job' = [job EXCEPT !.i = @ + 1,
                               !.ident = @ @@ [q \in Under(Source) |-> tree[q]]]
    /\ Keep

\* validate_transfer_destination
ValidateTransfer ==
    /\ AtPC("validate")
    /\ job' = IF \A i \in DOMAIN job.sources : path_lexists(job.sources[i])
              THEN Goto("next") ELSE Outcome(job, "Failed")
    /\ Keep

SameIdentity(p) ==
    /\ path_lexists(p)
    /\ p \in DOMAIN job.ident => tree[p].id = job.ident[p].id

\* purge_entries removes the .trashinfo files when every entry is gone.
AllDone ==
    /\ AtPC("next") /\ job.i > Len(job.sources)
    /\ job' = Outcome(job, "Completed")
    /\ info' = IF job.op = "purge" THEN info \ ToSet(job.sources) ELSE info
    /\ Quiet /\ UNCHANGED tree

AtSource(op) == AtPC("next") /\ job.i <= Len(job.sources) /\ job.op \in op

StopAtSource ==
    /\ AtSource({"copy", "move", "trash", "restore"}) /\ cancelled
    /\ job' = Outcome(job, "Cancelled")
    /\ Keep

-----------------------------------------------------------------------------
(* choose_destination and start_move_transfer.                             *)

CopyOf(p, n) == <<p[1], Name(Base(p), n)>>
HasFree(p)   == \E n \in 1..MaxNodes : ~path_lexists(CopyOf(p, n))
FirstFree(p) ==      \* unique_copy_path
    CopyOf(p, CHOOSE n \in 1..MaxNodes :
                 ~path_lexists(CopyOf(p, n)) /\ \A m \in 1..(n - 1) : path_lexists(CopyOf(p, m)))

Choice(j, decision) ==
    CASE decision = "Skip"     -> NextSource(Skipped(j))
      [] decision = "KeepBoth" -> [j EXCEPT !.target = FirstFree(Requested),
                                            !.how = "plain", !.pc = "transfer"]
      [] decision = "Replace"  -> [j EXCEPT !.target = Requested, !.how = "replace",
                                            !.replaced = TRUE, !.pc = "transfer"]
      [] decision = "MergeDirectory" ->
                                  [j EXCEPT !.target = Requested, !.how = "merge", !.merged = TRUE,
                                            !.replaced = TRUE, !.pc = "transfer"]

ChooseDestination ==
    /\ AtSource({"copy", "move"}) /\ ~cancelled /\ HasFree(Requested)
    /\ job' = CASE ~path_lexists(Requested) ->
                     [job EXCEPT !.target = Requested, !.how = "plain", !.pc = "transfer"]
                [] path_lexists(Requested) /\ job.all # "Ask" -> Choice(job, job.all)
                [] path_lexists(Requested) /\ job.all = "Ask" ->
                     IF path_lexists(Source)
                     THEN [job EXCEPT !.pc = "conflict",
                                      !.canMerge = is_dir(Source) /\ is_dir(Requested)]
                     ELSE Outcome(job, "Failed")
    /\ Keep

\* The user answers the conflict; a cancelled job answers itself.
Decide(decision, apply_to_all) ==
    /\ AtPC("conflict") /\ ~cancelled /\ HasFree(Requested)
    /\ decision = "MergeDirectory" => job.canMerge
    /\ job' = Choice(IF apply_to_all THEN [job EXCEPT !.all = decision] ELSE job, decision)
    /\ Keep

DecideCancel ==
    /\ AtPC("conflict")
    /\ job' = Outcome(job, "Cancelled")
    /\ Keep

Transfer ==
    /\ AtPC("transfer")
    /\ IF job.op = "copy" THEN job' = Goto("copy") /\ UNCHANGED tree
       ELSE IF job.target = Source THEN job' = NextSource(Skipped(job)) /\ UNCHANGED tree
       ELSE IF job.how # "plain" THEN job' = Goto("copy") /\ UNCHANGED tree
       ELSE IF ~SameIdentity(Source) THEN job' = Prompt("io", "transfer") /\ UNCHANGED tree
       ELSE IF split THEN job' = Goto("copy") /\ UNCHANGED tree
       ELSE IF path_lexists(job.target) THEN job' = Prompt("exists", "transfer") /\ UNCHANGED tree
       ELSE tree' = Moved(Source, job.target) /\ job' = NextSource(MovedTo(job, job.target))
    /\ Quiet /\ UNCHANGED info

-----------------------------------------------------------------------------
(* copy_one and copy_tree (copy_path for a restore).                       *)

CopyFail(e) == job' = CopyFails(e) /\ UNCHANGED tree

\* copy_entry opens what prepare saw; copy_path of a restore, what is there.
Opens(p) == IF job.op = "restore" THEN path_lexists(p) ELSE SameIdentity(p)

\* The data of a file goes to a hidden leaf beside its place.
ReadToLeaf(item) ==
    /\ job' = [job EXCEPT !.item = item, !.pc = "leaf"]
    /\ tree' = With(Append(Front(Work \o item), Hidden(".leaf", 0)),
                    NewNode(tree[Source \o item].data))

CopyRoot ==
    /\ AtPC("copy")
    /\ IF cancelled THEN CopyFail("cancelled")
       ELSE IF ~Opens(Source) THEN CopyFail("io")
       ELSE IF ~is_dir(Source) THEN ReadToLeaf(<< >>)
       ELSE IF path_lexists(Work) /\ ~(job.how = "merge" /\ is_dir(Work)) THEN CopyFail("exists")
       ELSE /\ job' = [job EXCEPT !.walk = {q[3] : q \in Below(Source)}, !.pc = "walk"]
            /\ tree' = IF path_lexists(Work) THEN tree ELSE With(Work, NewNode(Folder))
    /\ Quiet /\ UNCHANGED info

CopyChild(c) ==
    /\ AtPC("walk") /\ c \in job.walk
    /\ IF cancelled THEN CopyFail("cancelled")
       ELSE IF ~Opens(Append(Source, c)) \/ ~is_dir(Work) THEN CopyFail("io")
       ELSE ReadToLeaf(<<c>>)
    /\ Quiet /\ UNCHANGED info

\* The flushed leaf is renamed to its place, or removed.
PlaceLeaf ==
    /\ AtPC("leaf")
    /\ IF cancelled \/ path_lexists(ItemTo) \/ ~path_lexists(Leaf)
       THEN /\ Cleared(Leaf)
            /\ job' = CopyFails(IF cancelled THEN "cancelled" ELSE "exists")
       ELSE /\ tree' = Moved(Leaf, ItemTo)
            /\ job' = IF job.item = << >> THEN Goto("commit")
                      ELSE [job EXCEPT !.walk = @ \ {job.item[1]}, !.item = << >>, !.pc = "walk"]
            /\ Quiet
    /\ UNCHANGED info

\* A folder that was copied gets its permissions.
Seal ==
    /\ AtPC("walk") /\ job.walk = {}
    /\ job' = IF path_lexists(Work) THEN Goto("commit") ELSE CopyFails("io")
    /\ Keep

Copied(j) ==
    IF j.op = "copy" THEN NextSource(Affect(j, j.target)) ELSE [j EXCEPT !.pc = "remove"]

\* Defect: a plain commit is a rename that replaces.
Defect_Commit ==
    /\ AtPC("commit")
    /\ IF job.how = "merge" THEN job' = Copied(job) /\ UNCHANGED tree
       ELSE IF job.how = "plain" THEN tree' = Moved(Staging, job.target) /\ job' = Copied(job)
       ELSE /\ job' = Goto(IF path_lexists(job.target) THEN "exchange" ELSE "place")
            /\ UNCHANGED tree
    /\ Quiet /\ UNCHANGED info

\* rename_path_noreplace, or the loop of commit_staged_replacement.
Commit ==
    /\ AtPC("commit")
    /\ IF job.how = "merge" THEN job' = Copied(job) /\ UNCHANGED tree
       ELSE IF job.how = "plain"
       THEN IF path_lexists(job.target) THEN CopyFail("exists")
            ELSE tree' = Moved(Staging, job.target) /\ job' = Copied(job)
       ELSE /\ job' = Goto(IF path_lexists(job.target) THEN "exchange" ELSE "place")
            /\ UNCHANGED tree
    /\ Quiet /\ UNCHANGED info

\* What the sources held at first.
Brought == {first[q].data : q \in {r \in DOMAIN first : \E s \in ToSet(job.sources) : IsPrefix(s, r)}}

\* What was at the target is in the staging path after the exchange.  The user gave
\* it up; but it may also be what this job has put there before: then what the
\* staged tree does not hold again is recorded in over.
Exchange ==
    /\ AtPC("exchange")
    /\ IF path_lexists(job.target)
       THEN LET replaced == DataAt(job.target) IN
            /\ tree' = Exchanged(Staging, job.target)
            /\ kept' = kept \ (replaced \ Brought)
            /\ over' = over \cup ((kept \cap replaced \cap Brought) \ DataAt(Staging))
            /\ job' = Goto("discard")
       ELSE job' = Goto("place") /\ UNCHANGED <<tree, kept, over>>
    /\ UNCHANGED <<split, foreign, faults, first, litter, cancelled, info>>

Place ==
    /\ AtPC("place")
    /\ IF path_lexists(job.target) THEN job' = Goto("commit") /\ UNCHANGED tree
       ELSE tree' = Moved(Staging, job.target) /\ job' = Copied(job)
    /\ Quiet /\ UNCHANGED info

Discard ==
    /\ AtPC("discard")
    /\ tree' = Without(Staging) /\ job' = Copied(job)
    /\ Quiet /\ UNCHANGED info

\* Defect: only a cancelled copy removes its staging tree.
Defect_CleanUp ==
    /\ AtPC("cleanup")
    /\ IF job.how = "merge" \/ job.error # "cancelled" THEN UNCHANGED tree /\ Quiet ELSE Cleared(Staging)
    /\ job' = IF job.error = "cancelled" THEN Outcome(job, "Cancelled")
              ELSE Prompt(job.error, "transfer")
    /\ UNCHANGED info

\* A merge, and the direct copy of a restore, leave what they have copied.
CleanUp ==
    /\ AtPC("cleanup")
    /\ IF job.how = "merge" THEN UNCHANGED tree /\ Quiet ELSE Cleared(Staging)
    /\ job' = IF job.error = "cancelled" THEN Outcome(job, "Cancelled")
              ELSE Prompt(job.error, "transfer")
    /\ UNCHANGED info

-----------------------------------------------------------------------------
(* controlled_remove: for delete and purge, for the source of a move after *)
(* its copy, and, without checkpoints and identity, for a restore.         *)

RemoveFails ==
    job' = Prompt("io", IF job.op = "restore" THEN "transfer" ELSE "remove")

\* Defect: a move whose removal is cancelled does not list its target.
Defect_RemoveStopped ==
    LET listed == job
    IN  job' = [Outcome(listed, "Cancelled") EXCEPT !.error = "cancelled"]

RemoveStopped ==
    LET listed == IF job.op = "move" THEN Issue(Affect(job, job.target)) ELSE Issue(job)
    IN  job' = [Outcome(listed, "Cancelled") EXCEPT !.error = "cancelled"]

Removed ==
    job' = CASE job.op = "move"    -> NextSource(MovedTo(job, job.target))
             [] job.op = "restore" -> Goto("info")
             [] OTHER              -> NextSource(Affect(job, Source))

RemoveRoot ==
    /\ AtPC("remove")
    /\ IF IF job.op = "restore" THEN ~path_lexists(Source) ELSE ~SameIdentity(Source)
       THEN RemoveFails /\ UNCHANGED tree
       ELSE job' = Goto("unlink") /\ UNCHANGED tree
    /\ Quiet /\ UNCHANGED info

\* remove_tree_at: a file is unlinked, a folder is listed.
UnlinkRoot ==
    /\ AtPC("unlink")
    /\ IF cancelled /\ job.op # "restore" THEN RemoveStopped /\ UNCHANGED tree
       ELSE IF ~path_lexists(Source) THEN RemoveFails /\ UNCHANGED tree
       ELSE IF is_dir(Source)
       THEN /\ job' = [job EXCEPT !.walk = {q[3] : q \in Below(Source)}, !.pc = "removing"]
            /\ UNCHANGED tree
       ELSE Removed /\ tree' = Without(Source)
    /\ Quiet /\ UNCHANGED info

RemoveChild(c) ==
    /\ AtPC("removing") /\ c \in job.walk
    /\ IF cancelled /\ job.op # "restore" THEN RemoveStopped /\ UNCHANGED tree
       ELSE IF ~path_lexists(Append(Source, c)) THEN RemoveFails /\ UNCHANGED tree
       ELSE /\ job' = [job EXCEPT !.walk = @ \ {c}]
            /\ tree' = Without(Append(Source, c))
    /\ Quiet /\ UNCHANGED info

RemoveFolder ==
    /\ AtPC("removing") /\ job.walk = {}
    /\ IF ~path_lexists(Source) \/ Below(Source) # {} THEN RemoveFails /\ UNCHANGED tree
       ELSE Removed /\ tree' = Without(Source)
    /\ Quiet /\ UNCHANGED info

Delete ==
    /\ AtSource({"delete", "purge"})
    /\ job' = Goto("remove")
    /\ Keep

-----------------------------------------------------------------------------
(* trash_paths and restore_entries.                                        *)

CheckForTrash ==
    /\ AtSource({"trash"}) /\ ~cancelled
    /\ job' = IF SameIdentity(Source) THEN Goto("trash") ELSE Prompt("io", "identity")
    /\ Keep

\* trash::delete of the trash library.
TrashOne ==
    /\ AtPC("trash") /\ HasFree(<<"trash", Plain(Base(Source))>>)
    /\ IF ~path_lexists(Source) THEN job' = Prompt("io", "transfer") /\ UNCHANGED fsVars
       ELSE LET place == FirstFree(<<"trash", Plain(Base(Source))>>) IN
            /\ tree' = Moved(Source, place)
            /\ info' = info \cup {place}
            /\ job' = NextSource(Affect(job, place))
    /\ Quiet

CheckForRestore ==
    /\ AtSource({"restore"}) /\ ~cancelled
    /\ job' = IF ~path_lexists(Source) THEN Prompt("io", "transfer")
              ELSE IF ~job.replace /\ path_lexists(Original) THEN Prompt("exists", "transfer")
              ELSE [job EXCEPT !.target = Original, !.pc = "restore"]
    /\ Keep

RestoreOne ==
    /\ AtPC("restore")
    /\ IF cancelled THEN job' = Outcome(job, "Cancelled") /\ UNCHANGED tree
       ELSE IF job.replace
       THEN job' = [job EXCEPT !.how = "replace", !.replaced = TRUE, !.pc = "copy"] /\ UNCHANGED tree
       ELSE IF split /\ path_lexists(Source)
       THEN job' = [job EXCEPT !.how = "merge", !.pc = "copy"] /\ UNCHANGED tree
       ELSE IF ~path_lexists(Source) THEN job' = Prompt("io", "transfer") /\ UNCHANGED tree
       ELSE IF path_lexists(Original) THEN job' = Prompt("exists", "transfer") /\ UNCHANGED tree
       ELSE tree' = Moved(Source, Original) /\ job' = Goto("info")
    /\ Quiet /\ UNCHANGED info

RemoveInfo ==
    /\ AtPC("info")
    /\ info' = info \ {Source}
    /\ job' = NextSource(Affect(job, Original))
    /\ Quiet /\ UNCHANGED tree

-----------------------------------------------------------------------------
(* Errors.                                                                 *)

\* A call fails by itself.  (The removal of a leaf may fail, too.)
SystemFault ==
    /\ CallFails
    /\ \/ /\ job.pc \in {"copy", "walk", "commit", "exchange", "place", "discard"}
          /\ CopyFail("io") /\ UNCHANGED litter
       \/ /\ AtPC("leaf") /\ job' = CopyFails("io") /\ tree' = Without(Leaf)
          /\ litter' \in {litter, litter \cup {Leaf}}
       \/ /\ job.pc \in {"trash", "restore", "info"} \/ (AtPC("transfer") /\ job.op = "move")
          /\ job' = Prompt("io", "transfer") /\ UNCHANGED <<tree, litter>>
       \/ job.pc \in {"remove", "unlink", "removing"} /\ RemoveFails /\ UNCHANGED <<tree, litter>>
    /\ UNCHANGED <<split, foreign, first, over, cancelled, kept, info>>

\* Defect: a removal that failed is tried again from the head of the loop.
Defect_Retry ==
    /\ AtPC("error") /\ ~cancelled
    /\ job' = Goto(IF job.stage = "identity" THEN "trash" ELSE "next")
    /\ Keep

\* Retry goes back to the head of the loop; after a failed removal of a source
\* that was copied only the removal is tried again, and after a changed identity
\* the path is trashed as it is.
Retry ==
    /\ AtPC("error") /\ ~cancelled
    /\ job' = Goto(CASE job.stage = "remove"   -> "remove"
                     [] job.stage = "identity" -> "trash"
                     [] OTHER                  -> "next")
    /\ Keep

\* Defect: a source that was skipped is reported as done.
Defect_SkipError ==
    /\ AtPC("error") /\ ~cancelled /\ job.op \notin {"delete", "purge"}
    /\ job' = NextSource(Skipped(Affect(job, job.target)))
    /\ Keep

SkipError ==
    /\ AtPC("error") /\ ~cancelled /\ job.op \notin {"delete", "purge"}
    /\ job' = NextSource(CASE job.stage = "remove" -> Issue(Skipped(Affect(job, job.target)))
                           [] job.op = "restore"   -> Skipped(job)
                           [] OTHER                -> Issue(Skipped(job)))
    /\ Keep

CancelError ==
    /\ AtPC("error")
    /\ job' = Outcome(IF job.stage = "remove" /\ job.op = "move"
                      THEN Issue(Affect(job, job.target)) ELSE job, "Cancelled")
    /\ Keep

-----------------------------------------------------------------------------
(* undo.                                                                   *)

Records == IF job.op = "move" THEN job.moves ELSE job.affected
UndoStep(f) == job' = f /\ Quiet

\* What the fingerprints list goes with the copies; of a copy that merged they
\* list what the folder held before, too.
GivenUp ==
    IF job.merged
    THEN Leafs(job.prints) \ UNION {DataAt(job.sources[n]) : n \in DOMAIN job.sources} ELSE {}

Undo ==
    /\ AtPC("ended") /\ job.undo = "offered"
    /\ job' = [job EXCEPT
          !.undo = "running",
          !.pc = CASE job.op = "copy" -> "quarantine" [] job.op = "move" -> "move back"
                   [] job.op = "trash" -> "untrash",
          !.n = IF job.op = "copy" THEN 1 ELSE Len(Records)]
    /\ kept' = IF job.op = "copy" THEN kept \ GivenUp ELSE kept
    /\ UNCHANGED <<fsVars, envVars, cancelled>>

UndoEnds(r) == [job EXCEPT !.pc = "ended", !.undo = r]

\* MoveBack, from the last pair to the first; an error ends it.
Defect_MoveBack ==
    /\ AtPC("move back")
    /\ IF job.n <= 1 THEN UndoStep(UndoEnds("done")) /\ UNCHANGED tree
       ELSE LET r == Records[job.n] IN
            IF split \/ ~path_lexists(r.target) \/ path_lexists(r.source)
            THEN UndoStep(UndoEnds("halfway")) /\ UNCHANGED tree
            ELSE /\ tree' = Moved(r.target, r.source)
                 /\ UndoStep([job EXCEPT !.n = @ - 1])
    /\ UNCHANGED info

MoveBack ==
    /\ AtPC("move back")
    /\ IF job.n = 0 THEN UndoStep(UndoEnds("done")) /\ UNCHANGED tree
       ELSE LET r == Records[job.n] IN
            IF split \/ ~path_lexists(r.target) \/ path_lexists(r.source)
            THEN UndoStep(UndoEnds("halfway")) /\ UNCHANGED tree
            ELSE /\ tree' = Moved(r.target, r.source)
                 /\ UndoStep([job EXCEPT !.n = @ - 1])
    /\ UNCHANGED info

\* restore_from_trash: every item is found, then the library restores them.
Untrash ==
    /\ AtPC("untrash")
    /\ IF job.n = 0 THEN UndoStep(UndoEnds("done")) /\ UNCHANGED fsVars
       ELSE LET r == Records[job.n] IN
            IF \/ \E m \in 1..job.n : Records[m].target \notin info
               \/ path_lexists(r.source)
            THEN UndoStep(UndoEnds("halfway")) /\ UNCHANGED fsVars
            ELSE /\ tree' = Moved(r.target, r.source)
                 /\ info' = info \ {r.target}
                 /\ UndoStep([job EXCEPT !.n = @ - 1])

\* quarantine_and_remove: every tree is moved aside, ...
MoveAside ==
    /\ AtPC("quarantine")
    /\ IF job.n > Len(Records) THEN UndoStep(Goto("verify")) /\ UNCHANGED tree
       ELSE LET root == Records[job.n].target IN
            IF path_lexists(root)
            THEN /\ tree' = Moved(root, Quarantine(job.n))
                 /\ UndoStep([job EXCEPT !.n = @ + 1])
            ELSE /\ UndoStep([job EXCEPT !.pc = "unquarantine", !.n = @ - 1])
                 /\ UNCHANGED tree
    /\ UNCHANGED info

\* A folder that cannot be opened ends it at once: what was moved stays aside.
AsideFails ==
    /\ AtPC("quarantine") /\ job.n <= Len(Records)
    /\ CallFails
    /\ job' = UndoEnds("halfway")
    /\ UNCHANGED <<fsVars, split, foreign, first, over, litter, cancelled, kept>>

SameTree(n) ==
    LET root == Records[n].target
        then == {q \in DOMAIN job.prints : IsPrefix(root, q)}
    IN  /\ {Rebase(q, Quarantine(n), root) : q \in Under(Quarantine(n))} = then
        /\ \A q \in then : tree[Rebase(q, root, Quarantine(n))] = job.prints[q]

\* ... compared with its fingerprint, ...
Verify ==
    /\ AtPC("verify")
    /\ UndoStep([job EXCEPT !.pc = IF \A n \in DOMAIN Records : SameTree(n)
                                   THEN "destroy" ELSE "unquarantine",
                            !.n = Len(Records)])
    /\ UNCHANGED fsVars

\* ... and removed, unless a removal fails, ...
Destroy ==
    /\ AtPC("destroy")
    /\ IF job.n = 0 THEN UndoStep(UndoEnds("done")) /\ UNCHANGED tree
       ELSE /\ tree' = Without(Quarantine(job.n))
            /\ UndoStep([job EXCEPT !.n = @ - 1])
    /\ UNCHANGED info

DestroyFails ==
    /\ AtPC("destroy") /\ job.n > 0
    /\ CallFails
    /\ job' = UndoEnds("halfway")
    /\ UNCHANGED <<fsVars, split, foreign, first, over, litter, cancelled, kept>>

\* ... or moved back: what cannot be is reported with its quarantine path.
PutBack ==
    /\ AtPC("unquarantine")
    /\ IF job.n = 0
       THEN /\ UndoStep(UndoEnds(IF job.stuck = {} THEN "conflict" ELSE "recovery"))
            /\ UNCHANGED tree
       ELSE LET root == Records[job.n].target IN
            /\ tree' = IF path_lexists(root) THEN tree ELSE Moved(Quarantine(job.n), root)
            /\ UndoStep([job EXCEPT !.n = @ - 1,
                                    !.stuck = IF path_lexists(root) THEN @ \cup {job.n} ELSE @])
    /\ UNCHANGED info

-----------------------------------------------------------------------------
(* The user, and another process.                                          *)

Cancel ==
    /\ ~AtPC("ended") /\ job.undo = "none" /\ ~cancelled
    /\ cancelled' = TRUE
    /\ UNCHANGED <<fsVars, envVars, job, kept>>

\* Its data has no promise where the user selected something to be taken away,
\* nor inside a copy of a job that still runs: the undo record is made from what
\* the copies hold at its end.
Promised(p) ==
    /\ \A s \in ToSet(job.sources) : ~IsPrefix(s, p)
    /\ job.op = "copy" /\ ~AtPC("ended") =>
          /\ \A n \in DOMAIN job.affected : ~IsPrefix(job.affected[n].target, p)
          /\ AtPC("discard") => ~IsPrefix(job.target, p)

ForeignCreate(p) ==
    /\ foreign < Len(OtherData) /\ foreign' = foreign + 1
    /\ ~path_lexists(p) /\ HasParent(p)
    /\ tree' = With(p, NewNode(OtherData[foreign']))
    /\ kept' = IF Promised(p) THEN kept \cup {OtherData[foreign']} ELSE kept
    /\ UNCHANGED <<info, split, faults, first, over, litter, job, cancelled>>

ForeignRemove(p) ==
    /\ foreign < Len(OtherData) /\ foreign' = foreign + 1
    /\ path_lexists(p)
    /\ tree' = Without(p)
    /\ kept' = kept \ DataAt(p)
    /\ UNCHANGED <<info, split, faults, first, over, litter, job, cancelled>>

-----------------------------------------------------------------------------
CopyNext ==
    \/ ChooseDestination \/ DecideCancel \/ Transfer \/ CopyRoot \/ PlaceLeaf \/ Seal
    \/ \E c \in job.walk : CopyChild(c)
    \/ \E d \in {"Skip", "KeepBoth", "Replace", "MergeDirectory"}, all \in BOOLEAN : Decide(d, all)
    \/ Commit \/ Exchange \/ Place \/ Discard \/ CleanUp

RemoveNext ==
    RemoveRoot \/ UnlinkRoot \/ (\E c \in job.walk : RemoveChild(c)) \/ RemoveFolder \/ Delete

TrashNext == CheckForTrash \/ TrashOne \/ CheckForRestore \/ RestoreOne \/ RemoveInfo

ErrorNext == SystemFault \/ Retry \/ SkipError \/ CancelError

UndoNext ==
    \/ Undo \/ MoveBack \/ Untrash \/ PutBack
    \/ MoveAside \/ AsideFails \/ Verify \/ Destroy \/ DestroyFails

ForeignNext == \E p \in ForeignPlaces : ForeignCreate(p) \/ ForeignRemove(p)

JobsNext ==
    \/ Prepare \/ ValidateTransfer \/ AllDone \/ StopAtSource
    \/ CopyNext \/ RemoveNext \/ TrashNext \/ ErrorNext \/ UndoNext
    \/ Cancel \/ ForeignNext

JobsSpec == JobsInit /\ [][JobsNext]_jobsVars

-----------------------------------------------------------------------------
(* Properties.                                                             *)

\* At every moment, whatever fails or is cancelled, each piece of data that was
\* there, or that another process put where nothing was selected, is somewhere:
\* unless it was chosen for deletion, given up by a Replace, taken by the undo of a
\* copy that merged, or removed by the other process itself.  The exception is over:
\* a restore that replaces, tried again after the source was partly removed, puts
\* the rest over the whole it had restored (operation.rs:535-542); so does a second
\* source for the same place (see PutOverOnlyAgain).  Special files, which a restore
\* across devices drops (operation.rs:869-872), are not modelled.
NoDataIsLost == kept \subseteq Leafs(tree) \cup over

HiddenPaths == {p \in DOMAIN tree : \E n \in 2..Len(p) : p[n][1] \in HiddenTags}

\* A job that has ended leaves no staging tree and no leaf behind, and an undo
\* that is not reported as stuck or broken off leaves nothing in quarantine: but for
\* what could not be removed (litter), which takes a call that failed by itself.
NoLeftovers ==
    AtPC("ended") /\ job.undo \notin {"recovery", "halfway"} =>
       HiddenPaths = {} /\ (litter # {} => faults > 0)

\* What a source held at first is, as a whole, under a path.
Whole(s, p) ==
    \A q \in DOMAIN first : IsPrefix(s, q) =>
       LET r == Rebase(q, s, p) IN path_lexists(r) /\ tree[r].data = first[q].data

Restored == job.op = "restore"
ReplacedAgain == Restored /\ job.replace /\ faults > 0   \* see RestoredIsWhole

\* Two entries for one place.  A restore that replaces puts one over the other; a
\* source that is listed twice and not removed as a whole is moved again with what is
\* left of it.
OnePlace(s) ==
    \/ Restored /\ job.replace /\ \E r \in ToSet(job.sources) \ {s} : Base(r) = Base(s)
    \/ /\ job.op = "move" /\ s \in job.issues
       /\ \E m, n \in DOMAIN job.sources : m # n /\ job.sources[m] = s /\ job.sources[n] = s

\* A job puts something smaller over what it has brought itself only in a restore
\* that replaces, after a failed call or for a second entry of one place, or in a
\* move of a source that is listed twice.
PutOverOnlyAgain ==
    over # {} => ReplacedAgain \/ \E s \in ToSet(job.sources) : OnePlace(s)

\* When no other process interferes the outcome is true: each affected target
\* holds the whole source (but see OnePlace), a source that was moved, trashed or
\* restored is gone unless an issue names it, and a complete run has handled every
\* source.
OutcomeIsTrue ==
    AtPC("ended") /\ foreign = 0 /\ job.undo \in {"none", "offered"} =>
       /\ \A n \in DOMAIN job.affected :
             LET a == job.affected[n] IN
             /\ job.op \in {"copy", "move", "trash", "restore"}
                /\ ~ReplacedAgain /\ ~OnePlace(a.source) => Whole(a.source, a.target)
             /\ job.op # "copy" /\ a.source \notin job.issues => ~path_lexists(a.source)
             /\ a.source \notin job.issues /\ job.op # "trash" /\ job.result = "Completed"
                   => a.source \notin info
       /\ job.result = "Completed" =>
             ToSet(job.sources) = job.skipped \cup {job.affected[n].source : n \in DOMAIN job.affected}

\* What a restore lists as restored is there as a whole.
RestoredIsWhole ==
    AtPC("ended") /\ Restored /\ foreign = 0 =>
       \A n \in DOMAIN job.affected : Whole(job.affected[n].source, job.affected[n].target)

\* A source the outcome does not name was not taken apart: it is whole where it
\* was, or, for a restore, where it belongs.  (The user may give up a deletion
\* that failed halfway: the outcome does not name that source.)
UnlistedSourcesAreWhole ==
    AtPC("ended") /\ foreign = 0 /\ job.undo \in {"none", "offered"}
    /\ ~(job.op \in {"delete", "purge"} /\ job.error = "io") /\ ~ReplacedAgain =>
       \A s \in ToSet(job.sources) :
          \/ s \in job.issues \cup {job.affected[n].source : n \in DOMAIN job.affected}
          \/ Whole(s, s)
          \/ Restored /\ Whole(s, <<"src", Plain(Base(s))>>)

\* An undo that succeeds restores the folders of before the job, if that
\* neither merged nor replaced: no copy stays, no file is missing.  (The litter of a
\* removal that failed is not undone.)
UndoRestores ==
    job.undo = "done" /\ foreign = 0 /\ ~job.replaced =>
       /\ DOMAIN tree = DOMAIN first
       /\ \A p \in DOMAIN tree : tree[p].data = first[p].data
=============================================================================
