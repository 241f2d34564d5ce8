-------------------------- MODULE FileTransactions --------------------------
(***************************************************************************)
(* The operations of gnil-fs/operation.rs that change several entries of   *)
(* one folder and roll back when one of them fails: bulk_rename and        *)
(* set_permissions, the single rename, and the undo of each.               *)
(*                                                                         *)
(* Every rename is a renameat2(RENAME_NOREPLACE), and so an atomic step;   *)
(* another process works in the folder between any two steps, the user may *)
(* cancel, and any system call may fail.  A file is its inode.             *)
(***************************************************************************)
EXTENDS Integers, Sequences, FiniteSets

CONSTANTS
    Names,       \* the visible names of the folder
    Files,       \* inodes, those of the other process included
    NoFile,
    Content,     \* what each name holds at first
    Links,       \* the files that are symbolic links
    MaxPairs,    \* bound: length of a batch
    MaxIntrusions,  \* bound: steps of the other process
    MaxFailures    \* bound: system calls that fail by themselves

Temp(i) == <<"gnil-rename", i>>   \* unique_temporary_path, a fresh UUID
Temps   == {Temp(i) : i \in 1..MaxPairs}
Places  == Names \cup Temps
Bits    == {"r", "w"}

ASSUME FolderAssumption ==
    /\ NoFile \notin Files /\ Links \subseteq Files
    /\ Content \in [Names -> Files \cup {NoFile}]
    /\ \A p, q \in Names : Content[p] = Content[q] /\ Content[p] # NoFile => p = q
    /\ MaxPairs \in Nat /\ MaxIntrusions \in Nat /\ MaxFailures \in Nat
    /\ Names \cap Temps = {}

VARIABLES
    dir, mode,     \* the folder, and the permissions of each file
    op, undoing,   \* "rename", "single" or "chmod"; whether undo() runs it
    pc, result,
    pairs,         \* RenamePairs of the batch
    entries,       \* PermissionUndo entries with their identities
    k, completed,  \* index of the loop; renames that were committed
    cause, errors, \* why it rolls back; the indices that could not be
    batchCancelled,
    intrusions, failures,
    alive,         \* files that exist and that no other process removed
    touched,       \* files that the other process moved, removed or changed
    before         \* the folder and the permissions when the batch began

folderVars == <<dir, mode>>
batchVars  == <<op, undoing, pairs, entries>>
loopVars   == <<pc, result, k, completed, cause, errors>>
ghostVars  == <<alive, touched, before>>
transactionVars ==
    <<folderVars, batchVars, loopVars, batchCancelled, intrusions, failures, ghostVars>>

Pairs   == [from : Names, to : Names]
Batches == UNION {[1..n -> Pairs] : n \in 1..MaxPairs}
Changes == [keep : SUBSET Bits, set : SUBSET Bits]   \* Exact(m) keeps nothing
Selections == {s \in UNION {[1..n -> Names] : n \in 1..MaxPairs} :
                  \A i, j \in DOMAIN s : s[i] = s[j] => i = j}

exists(p) == p \in Places /\ dir[p] # NoFile

TransactionInit ==
    /\ dir = [p \in Places |-> IF p \in Names THEN Content[p] ELSE NoFile]
    /\ mode = [f \in Files |-> Bits]
    /\ op = "rename" /\ undoing = FALSE
    /\ pc = "idle" /\ result = "none"
    /\ pairs = << >> /\ entries = << >>
    /\ k = 0 /\ completed = 0 /\ cause = "none" /\ errors = {}
    /\ batchCancelled = FALSE
    /\ intrusions = 0 /\ failures = 0
    /\ alive = {Content[p] : p \in Names} \ {NoFile}
    /\ touched = {}
    /\ before = [dir |-> dir, mode |-> mode]

-----------------------------------------------------------------------------
(* System calls.  Renames and Refuses are the two outcomes of one call.    *)

CanRename(p, q) == exists(p) /\ q \in Places /\ ~exists(q)

Renames(p, q) ==
    /\ CanRename(p, q)
    /\ dir' = [dir EXCEPT ![p] = NoFile, ![q] = dir[p]]
    /\ UNCHANGED <<mode, failures>>

CanChmod(e) ==      \* chmod_nofollow opens the file for reading
    exists(e.name) /\ dir[e.name] = e.file
       /\ e.file \notin Links /\ "r" \in mode[e.file]

Chmods(e, bits) ==
    /\ CanChmod(e)
    /\ mode' = [mode EXCEPT ![e.file] = bits]
    /\ UNCHANGED <<dir, failures>>

Refuses(possible) ==
    /\ UNCHANGED folderVars
    /\ IF possible THEN failures < MaxFailures /\ failures' = failures + 1
                   ELSE UNCHANGED failures

-----------------------------------------------------------------------------
(* Requests.                                                               *)

Begin(o, p, e) ==
    /\ op' = o /\ pairs' = p /\ entries' = e
    /\ pc' = "preflight" /\ result' = "none"
    /\ k' = 1 /\ completed' = 0 /\ cause' = "none" /\ errors' = {}
    /\ batchCancelled' = FALSE
    /\ before' = [dir |-> dir, mode |-> mode]
    /\ UNCHANGED <<folderVars, intrusions, failures, alive, touched>>

RenameRequested(batch, kind) ==
    /\ pc = "idle"
    /\ kind = "single" => Len(batch) = 1
    /\ Begin(kind, batch, << >>)
    /\ UNCHANGED undoing

ChmodRequested(names, change) ==
    /\ pc = "idle"
    /\ Begin("chmod", << >>, [i \in DOMAIN names |-> [name |-> names[i], file |-> NoFile,
                                                      before |-> change.keep, after |-> change.set]])
    /\ UNCHANGED undoing

\* undo: the pairs of a batch go back in the same order, and with a flag of
\* their own that nobody sets.
UndoBatch ==
    /\ pc = "ended" /\ result = "done" /\ ~undoing
    /\ undoing' = TRUE
    /\ Begin(op, [i \in DOMAIN pairs |-> [from |-> pairs[i].to, to |-> pairs[i].from]], entries)

CancelBatch ==
    /\ pc \notin {"idle", "ended"} /\ ~undoing /\ ~batchCancelled
    /\ batchCancelled' = TRUE
    /\ UNCHANGED <<folderVars, batchVars, loopVars, intrusions, failures, ghostVars>>

End(r) == pc' = "ended" /\ result' = r

\* The members of s with an index in I, in their order.
Filtered(s, I) ==
    LET f[n \in 0..Len(s)] == IF n = 0 THEN << >>
                              ELSE IF n \in I THEN Append(f[n - 1], s[n]) ELSE f[n - 1]
    IN  f[Len(s)]

-----------------------------------------------------------------------------
(* bulk_rename.                                                            *)

From(i) == pairs[i].from
To(i)   == pairs[i].to

\* Pairs that change nothing have left the batch.
Valid(batch) ==
    /\ \A i \in DOMAIN batch : exists(batch[i].from)
    /\ \A i, j \in DOMAIN batch :
          i # j => batch[i].from # batch[j].from /\ batch[i].to # batch[j].to
    /\ \A i \in DOMAIN batch :
          exists(batch[i].to) => \E j \in DOMAIN batch : batch[j].from = batch[i].to

\* Defect: a destination that exists is accepted whoever holds it.
Defect_CommitOne ==
    /\ pc = "commit" /\ k <= Len(pairs) /\ ~batchCancelled
    /\ \/ /\ exists(Temp(k))
          /\ dir' = [dir EXCEPT ![Temp(k)] = NoFile, ![To(k)] = dir[Temp(k)]]
          /\ k' = k + 1 /\ completed' = k
          /\ UNCHANGED <<mode, failures, pc, result, cause, errors>>
    /\ UNCHANGED <<batchVars, batchCancelled, intrusions, ghostVars>>

PreflightRename ==
    /\ pc = "preflight" /\ op = "rename"
    /\ pairs' = Filtered(pairs, {i \in DOMAIN pairs : From(i) # To(i)})
    /\ IF ~Valid(pairs') THEN End("refused")
       ELSE IF pairs' = << >> THEN End("nothing")
       ELSE pc' = "stage" /\ UNCHANGED result
    /\ UNCHANGED <<folderVars, op, undoing, entries, k, completed, cause, errors,
                   batchCancelled, intrusions, failures, ghostVars>>

\* A failure sends the loop back: to's to their temporaries, these to the from's.
RollBack(why, done) ==
    /\ cause' = why /\ completed' = done
    /\ pc' = IF pc = "commit" THEN "unrename" ELSE "unstage"
    /\ k' = IF pc = "commit" THEN done ELSE k - 1
    /\ UNCHANGED <<result, errors>>

StopForCancel ==
    /\ pc \in {"stage", "commit"} /\ k <= Len(pairs) /\ batchCancelled
    /\ RollBack("cancelled", completed)
    /\ UNCHANGED <<folderVars, batchVars, batchCancelled, intrusions, failures, ghostVars>>

StageOne ==
    /\ pc = "stage" /\ k <= Len(pairs) /\ ~batchCancelled
    /\ \/ Renames(From(k), Temp(k)) /\ k' = k + 1
          /\ UNCHANGED <<pc, result, completed, cause, errors>>
       \/ Refuses(CanRename(From(k), Temp(k))) /\ RollBack("failed", 0)
    /\ UNCHANGED <<batchVars, batchCancelled, intrusions, ghostVars>>

CommitOne ==
    /\ pc = "commit" /\ k <= Len(pairs) /\ ~batchCancelled
    /\ \/ Renames(Temp(k), To(k)) /\ k' = k + 1 /\ completed' = k
          /\ UNCHANGED <<pc, result, cause, errors>>
       \/ Refuses(CanRename(Temp(k), To(k))) /\ RollBack("failed", completed)
    /\ UNCHANGED <<batchVars, batchCancelled, intrusions, ghostVars>>

LoopEnds ==
    /\ pc \in {"stage", "commit"} /\ k > Len(pairs)
    /\ IF pc = "stage" THEN pc' = "commit" /\ k' = 1 /\ UNCHANGED result
       ELSE End("done") /\ UNCHANGED k
    /\ UNCHANGED <<folderVars, batchVars, completed, cause, errors, batchCancelled,
                   intrusions, failures, ghostVars>>

\* rollback_bulk_rename, then rollback_staged, from the last to the first.
Unrename ==
    /\ pc = "unrename" /\ k > 0
    /\ \/ Renames(To(k), Temp(k)) /\ UNCHANGED errors
       \/ Refuses(CanRename(To(k), Temp(k))) /\ errors' = errors \cup {k}
    /\ k' = k - 1
    /\ UNCHANGED <<batchVars, pc, result, completed, cause, batchCancelled, intrusions, ghostVars>>

\* Defect: the rollback of committed renames leaves out rollback_staged.
Defect_Unrenamed ==
    /\ pc = "unrename" /\ k = 0
    /\ End(IF errors = {} THEN cause ELSE "rollback failed")
    /\ UNCHANGED <<folderVars, batchVars, k, completed, cause, errors, batchCancelled,
                   intrusions, failures, ghostVars>>

Unrenamed ==
    /\ pc = "unrename" /\ k = 0
    /\ pc' = "unstage" /\ k' = Len(pairs)
    /\ UNCHANGED <<folderVars, batchVars, result, completed, cause, errors, batchCancelled,
                   intrusions, failures, ghostVars>>

Unstage ==
    /\ pc = "unstage" /\ k > 0
    /\ \/ ~exists(Temp(k)) /\ UNCHANGED <<folderVars, failures, errors>>
       \/ Renames(Temp(k), From(k)) /\ UNCHANGED errors
       \/ /\ exists(Temp(k))
          /\ Refuses(CanRename(Temp(k), From(k))) /\ errors' = errors \cup {k}
    /\ k' = k - 1
    /\ UNCHANGED <<batchVars, pc, result, completed, cause, batchCancelled, intrusions, ghostVars>>

RolledBack ==
    /\ pc \in {"unstage", "unchmod"} /\ k = 0
    /\ End(IF errors = {} THEN cause ELSE "rollback failed")
    /\ UNCHANGED <<folderVars, batchVars, k, completed, cause, errors, batchCancelled,
                   intrusions, failures, ghostVars>>

\* rename, and RenameBack of its undo.
SingleRename ==
    /\ pc = "preflight" /\ op = "single"
    /\ \/ Renames(From(1), To(1)) /\ End("done")
       \/ Refuses(CanRename(From(1), To(1))) /\ End("failed")
    /\ UNCHANGED <<batchVars, k, completed, cause, errors, batchCancelled, intrusions, ghostVars>>

-----------------------------------------------------------------------------
(* set_permissions.                                                        *)

AllRegular == \A i \in DOMAIN entries :
    exists(entries[i].name) /\ dir[entries[i].name] \notin Links

\* The entries that change, with the modes before and after and the identity.
Prepared(i) ==
    LET f == dir[entries[i].name]
    IN  [name |-> entries[i].name, file |-> f, before |-> mode[f],
         after |-> (mode[f] \cap entries[i].before) \cup entries[i].after]

PreflightChmod ==
    /\ pc = "preflight" /\ op = "chmod" /\ ~undoing
    /\ IF ~AllRegular THEN End("refused") /\ UNCHANGED entries
       ELSE /\ entries' = Filtered([i \in DOMAIN entries |-> Prepared(i)],
                                   {i \in DOMAIN entries : Prepared(i).before # Prepared(i).after})
            /\ IF entries' = << >> THEN End("nothing")
               ELSE pc' = "chmod" /\ UNCHANGED result
    /\ UNCHANGED <<folderVars, op, undoing, pairs, k, completed, cause, errors,
                   batchCancelled, intrusions, failures, ghostVars>>

\* Defect: the modes of the record are not swapped.
Defect_PreflightRestore ==
    /\ pc = "preflight" /\ op = "chmod" /\ undoing
    /\ IF AllRegular /\ \A i \in DOMAIN entries : mode[dir[entries[i].name]] = entries[i].after
       THEN /\ entries' = [i \in DOMAIN entries |->
                             [entries[i] EXCEPT !.file = dir[entries[i].name]]]
            /\ pc' = "chmod" /\ UNCHANGED result
       ELSE End("refused") /\ UNCHANGED entries
    /\ UNCHANGED <<folderVars, op, undoing, pairs, k, completed, cause, errors,
                   batchCancelled, intrusions, failures, ghostVars>>

\* RestorePermissions: every mode must be the one the operation left.
PreflightRestore ==
    /\ pc = "preflight" /\ op = "chmod" /\ undoing
    /\ IF AllRegular /\ \A i \in DOMAIN entries : mode[dir[entries[i].name]] = entries[i].after
       THEN /\ entries' = [i \in DOMAIN entries |->
                             [entries[i] EXCEPT !.file = dir[entries[i].name],
                                                !.before = entries[i].after,
                                                !.after = entries[i].before]]
            /\ pc' = "chmod" /\ UNCHANGED result
       ELSE End("refused") /\ UNCHANGED entries
    /\ UNCHANGED <<folderVars, op, undoing, pairs, k, completed, cause, errors,
                   batchCancelled, intrusions, failures, ghostVars>>

\* Only the operation rolls back: the undo stops where it is.
ChmodOne ==
    /\ pc = "chmod" /\ k <= Len(entries)
    /\ \/ Chmods(entries[k], entries[k].after) /\ k' = k + 1
          /\ UNCHANGED <<pc, result, cause>>
       \/ /\ Refuses(CanChmod(entries[k])) /\ k' = k - 1
          /\ IF undoing THEN End("halfway") /\ UNCHANGED cause
             ELSE pc' = "unchmod" /\ cause' = "failed" /\ UNCHANGED result
    /\ UNCHANGED <<batchVars, completed, errors, batchCancelled, intrusions, ghostVars>>

ChmodEnds ==
    /\ pc = "chmod" /\ k > Len(entries)
    /\ End("done")
    /\ UNCHANGED <<folderVars, batchVars, k, completed, cause, errors, batchCancelled,
                   intrusions, failures, ghostVars>>

\* Defect: the rollback writes the new mode again.
Defect_Unchmod ==
    /\ pc = "unchmod" /\ k > 0
    /\ \/ Chmods(entries[k], entries[k].after) /\ UNCHANGED errors
       \/ Refuses(CanChmod(entries[k])) /\ errors' = errors \cup {k}
    /\ k' = k - 1
    /\ UNCHANGED <<batchVars, pc, result, completed, cause, batchCancelled, intrusions, ghostVars>>

\* rollback_permissions.
Unchmod ==
    /\ pc = "unchmod" /\ k > 0
    /\ \/ Chmods(entries[k], entries[k].before) /\ UNCHANGED errors
       \/ Refuses(CanChmod(entries[k])) /\ errors' = errors \cup {k}
    /\ k' = k - 1
    /\ UNCHANGED <<batchVars, pc, result, completed, cause, batchCancelled, intrusions, ghostVars>>

-----------------------------------------------------------------------------
(* The other process: it sees the visible names only.                      *)

IntruderStep ==
    /\ pc \notin {"idle"} /\ intrusions < MaxIntrusions
    /\ intrusions' = intrusions + 1
    /\ UNCHANGED <<batchVars, loopVars, batchCancelled, failures, before>>

IntruderCreates(p, f) ==
    /\ IntruderStep
    /\ ~exists(p) /\ f \notin alive \cup touched
    /\ dir' = [dir EXCEPT ![p] = f]
    /\ alive' = alive \cup {f}
    /\ touched' = touched \cup {f}
    /\ UNCHANGED mode

IntruderRemoves(p) ==
    /\ IntruderStep
    /\ exists(p)
    /\ dir' = [dir EXCEPT ![p] = NoFile]
    /\ alive' = alive \ {dir[p]}
    /\ touched' = touched \cup {dir[p]}
    /\ UNCHANGED mode

IntruderChmods(p, bits) ==
    /\ IntruderStep
    /\ exists(p) /\ mode[dir[p]] # bits
    /\ mode' = [mode EXCEPT ![dir[p]] = bits]
    /\ touched' = touched \cup {dir[p]}
    /\ UNCHANGED <<dir, alive>>

-----------------------------------------------------------------------------
RenameNext ==
    \/ PreflightRename \/ StopForCancel \/ StageOne \/ CommitOne \/ LoopEnds
    \/ Unrename \/ Unrenamed \/ Unstage \/ RolledBack \/ SingleRename

ChmodNext ==
    PreflightChmod \/ PreflightRestore \/ ChmodOne \/ ChmodEnds \/ Unchmod

IntruderNext ==
    \E p \in Names :
       \/ \E f \in Files : IntruderCreates(p, f)
       \/ IntruderRemoves(p)
       \/ \E bits \in SUBSET Bits : IntruderChmods(p, bits)

UserNext ==
    \/ \E batch \in Batches, kind \in {"rename", "single"} : RenameRequested(batch, kind)
    \/ \E names \in Selections, change \in Changes : ChmodRequested(names, change)
    \/ UndoBatch \/ CancelBatch

TransactionNext == UserNext \/ RenameNext \/ ChmodNext \/ IntruderNext

TransactionSpec == TransactionInit /\ [][TransactionNext]_transactionVars

-----------------------------------------------------------------------------
(* Properties.                                                             *)

\* No rename, rollback or undo loses a file or overwrites one, whatever the
\* other process puts in the way: a file that nobody removed has its place.
RenamesLoseNothing ==
    \A f \in alive : \E p \in Places : dir[p] = f

\* bulk_rename is all or nothing: when it gives up and does not report a failed
\* rollback, each file is where it was, swaps and cycles included, and no
\* temporary name is left.
FailedBatchIsUndone ==
    pc = "ended" /\ op # "chmod" /\ result \in {"failed", "cancelled", "refused"} =>
       \A p \in Places :
          /\ dir[p] \notin touched \cup {NoFile} => before.dir[p] = dir[p]
          /\ p \in Temps => dir[p] = NoFile

\* set_permissions that fails and does not report a failed rollback leaves each
\* file with the permissions it had.
FailedChmodIsUndone ==
    pc = "ended" /\ op = "chmod" /\ result \in {"failed", "refused"} =>
       \A f \in Files \ touched : mode[f] = before.mode[f]

\* After an undo that succeeds, each file that the other process left alone has
\* its first name and its first permissions, and no temporary name is left.
UndoneMeansRestored ==
    pc = "ended" /\ undoing /\ result = "done" =>
       /\ \A f \in Files \ touched :
             /\ mode[f] = Bits
             /\ \A p \in Names : Content[p] = f => dir[p] = f
       /\ \A p \in Temps : dir[p] = NoFile
=============================================================================
