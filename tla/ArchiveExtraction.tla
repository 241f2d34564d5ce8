-------------------------- MODULE ArchiveExtraction --------------------------
(***************************************************************************)
(* extract_archives of gnil-fs/archive.rs: every archive of a batch is     *)
(* read through once (preflight), extracted into a staging entry of the    *)
(* destination, and when all are there each is renamed to its name, or the *)
(* first free "name (n)".  An error moves the committed outputs back to    *)
(* their staging names and removes these.                                  *)
(*                                                                         *)
(* Another process works in the destination, the user may cancel, a call   *)
(* may fail.  An archive is the sequence of its entries; the undo of an    *)
(* extraction is the one of a copy, in FileJobs.                           *)
(***************************************************************************)
EXTENDS Integers, Sequences, FiniteSets, SequencesExt

CONSTANTS
    ArchiveBatches,  \* sequences of [output, stream, entries]
    Occupied,        \* names taken in the destination at first
    MaxEntries,      \* MAX_ENTRIES of a batch
    MaxVisits,       \* bound: steps of the other process
    MaxBreaks        \* bound: calls that fail by themselves

EntryKinds == {"File", "Directory", "Symlink", "Special"}
ArchiveEntries == [path : Seq(STRING), kind : EntryKinds, target : Seq(STRING)]
Archives == [output : STRING \ {"gnil-extract"}, stream : BOOLEAN, entries : Seq(ArchiveEntries)]

\* The staging names have a UUID: no output and nobody else has one of them.
ASSUME ArchiveAssumption ==
    /\ ArchiveBatches \subseteq Seq(Archives)
    /\ \A p \in Occupied : p[1] # "gnil-extract"
    /\ MaxEntries \in Nat /\ MaxVisits \in Nat /\ MaxBreaks \in Nat

VARIABLES
    dest,       \* place -> [owner, files, dirs], of the places taken
    ex,         \* the extraction
    exCancelled, visits, breaks,
    theirs,     \* owners that nobody else may remove
    seized,     \* history: owners of what the rollback took for an output
    left        \* history: staging names that the cleanup could not remove

exEnv  == <<exCancelled, visits, breaks, theirs, seized, left>>
exVars == <<dest, ex, exEnv>>

-----------------------------------------------------------------------------
(* The plan of an archive.                                                 *)

Escapes == <<"/">>      \* no normalized path holds a slash

\* normalize_archive_path of a relative path.
Normalized(path) ==
    LET upTo[n \in 0..Len(path)] ==
          IF n = 0 THEN << >>
          ELSE LET done == upTo[n - 1]
                   part == path[n]
               IN  CASE done = Escapes -> Escapes
                     [] done # Escapes /\ part = "." -> done
                     [] done # Escapes /\ part = ".." ->
                          IF done = << >> THEN Escapes ELSE Front(done)
                     [] OTHER -> Append(done, part)
    IN  IF path # << >> /\ path[1] = "/" THEN Escapes ELSE upTo[Len(path)]

\* The entries that count; the archive root itself is left out.
Entries(archive) ==
    LET upTo[n \in 0..Len(archive.entries)] ==
          IF n = 0 THEN << >>
          ELSE LET path == Normalized(archive.entries[n].path)
               IN  IF path = << >> THEN upTo[n - 1]
                   ELSE Append(upTo[n - 1], [archive.entries[n] EXCEPT !.path = path])
    IN  upTo[Len(archive.entries)]

Acceptable(archive) ==
    LET es == Entries(archive)
        links == {n \in DOMAIN es : es[n].kind = "Symlink"}
    IN  /\ \A n \in DOMAIN es : es[n].path # Escapes /\ es[n].kind # "Special"
        /\ \A n, m \in DOMAIN es : es[n].path = es[m].path => n = m
        /\ \A n \in links : Normalized(Front(es[n].path) \o es[n].target) # Escapes
        /\ \A n \in links, m \in DOMAIN es : ~IsStrictPrefix(es[n].path, es[m].path)

Roots(es) == {es[n].path[1] : n \in DOMAIN es}

\* Defect: the only root is stripped, a file too.
Defect_StripRoots(es) == {<<r>> : r \in Roots(es)}

\* single_directory_root takes the first root of a hash set, and any deeper
\* entry makes it a directory.
StripRoots(es) ==
    IF Roots(es) = {} THEN {<< >>}
    ELSE {IF \/ \E n \in DOMAIN es : es[n].path = <<r>> /\ es[n].kind = "Directory"
             \/ \E n \in DOMAIN es : Len(es[n].path) > 1
          THEN <<r>> ELSE << >> : r \in Roots(es)}

Stripped(path, root) ==
    IF root # << >> /\ IsPrefix(root, path) THEN Tail(path) ELSE path

-----------------------------------------------------------------------------
(* The destination.                                                        *)

Named(name, n) == <<name, n>>               \* "name", "name (1)", ...
Stage(i)       == <<"gnil-extract", i>>
Taken(p)       == p \in DOMAIN dest
Renamed(p, q)  == [r \in (DOMAIN dest \ {p}) \cup {q} |-> IF r = q THEN dest[p] ELSE dest[r]]
Stages         == {Stage(i) : i \in DOMAIN ex.batch}

ExtractionInit ==
    /\ dest = [p \in Occupied |-> [owner |-> <<"old", p>>, files |-> {}, dirs |-> {}]]
    /\ \E b \in ArchiveBatches :
          ex = [batch |-> b, pc |-> "preflight", i |-> 1, k |-> 0,
                plans |-> << >>, strips |-> << >>, committed |-> << >>,
                errors |-> {}, cause |-> "none", result |-> "none"]
    /\ exCancelled = FALSE /\ visits = 0 /\ breaks = 0
    /\ theirs = {<<"old", p>> : p \in Occupied} /\ seized = {} /\ left = {}

ExAt(pc)  == ex.pc = pc
More    == ex.i <= Len(ex.batch)
Ends(r) == [ex EXCEPT !.pc = "ended", !.result = r]

\* An error of the extraction, and one of the commits.
Abort(why) ==
    [ex EXCEPT !.cause = why, !.k = Len(ex.committed),
               !.pc = IF ExAt("commit") THEN "rollback" ELSE "cleanup"]

Breaks == breaks < MaxBreaks /\ breaks' = breaks + 1

-----------------------------------------------------------------------------
(* extract_archives.                                                       *)

Preflight ==
    /\ ExAt("preflight") /\ More
    /\ IF exCancelled THEN ex' = Ends("cancelled")
       ELSE LET archive == ex.batch[ex.i]
                plans == Append(ex.plans, Entries(archive))
                total == FoldSeq(LAMBDA es, sum : sum + Len(es), 0, plans)
            IN  IF ~Acceptable(archive) \/ total > MaxEntries THEN ex' = Ends("refused")
                ELSE \E root \in IF archive.stream THEN {<< >>} ELSE StripRoots(Entries(archive)) :
                       ex' = [ex EXCEPT !.i = @ + 1, !.plans = plans,
                                        !.strips = Append(@, root)]
    /\ UNCHANGED <<dest, exEnv>>

PhaseEnds ==
    /\ ex.pc \in {"preflight", "stage", "commit"} /\ ~More
    /\ ex' = CASE ExAt("preflight") -> [ex EXCEPT !.pc = "stage", !.i = 1]
               [] ExAt("stage")     -> [ex EXCEPT !.pc = "commit", !.i = 1, !.k = 0]
               [] ExAt("commit")    -> Ends("done")
    /\ UNCHANGED <<dest, exEnv>>

\* A stream is one file that holds the data; an archive gets a folder.
OpenStage ==
    /\ ExAt("stage") /\ More
    /\ IF exCancelled THEN ex' = Abort("cancelled") /\ UNCHANGED dest
       ELSE /\ ex' = [ex EXCEPT !.pc = "extract", !.k = 1]
            /\ dest' = [p \in DOMAIN dest \cup {Stage(ex.i)} |->
                           IF p = Stage(ex.i)
                           THEN [owner |-> <<"archive", ex.i>>, files |-> {}, dirs |-> {}]
                           ELSE dest[p]]
    /\ UNCHANGED exEnv

\* ensure_safe_parent, and then one entry: a file or link must be new.
Fits(output, path, kind) ==
    /\ \A f \in output.files : ~IsStrictPrefix(f, path)
    /\ path \notin output.files
    /\ kind # "Directory" => path \notin output.dirs

Written(output, path, kind) ==
    LET parents == {SubSeq(path, 1, n) : n \in 1..(Len(path) - 1)}
    IN  [output EXCEPT !.files = IF kind = "Directory" THEN @ ELSE @ \cup {path},
                       !.dirs = @ \cup parents \cup IF kind = "Directory" THEN {path} ELSE {}]

ExtractEntry ==
    /\ ExAt("extract") /\ ex.k <= Len(ex.plans[ex.i])
    /\ LET entry == ex.plans[ex.i][ex.k]
           path  == Stripped(entry.path, ex.strips[ex.i])
       IN  IF exCancelled THEN ex' = Abort("cancelled") /\ UNCHANGED dest
           ELSE IF path = << >> THEN ex' = [ex EXCEPT !.k = @ + 1] /\ UNCHANGED dest
           ELSE IF ~Fits(dest[Stage(ex.i)], path, entry.kind)
           THEN ex' = Abort("failed") /\ UNCHANGED dest
           ELSE /\ ex' = [ex EXCEPT !.k = @ + 1]
                /\ dest' = [dest EXCEPT ![Stage(ex.i)] = Written(@, path, entry.kind)]
    /\ UNCHANGED exEnv

EntriesEnd ==
    /\ ExAt("extract") /\ ex.k > Len(ex.plans[ex.i])
    /\ ex' = [ex EXCEPT !.pc = "stage", !.i = @ + 1]
    /\ UNCHANGED <<dest, exEnv>>

\* Defect: the rename of the commit replaces.
Defect_CommitKeepBoth ==
    /\ ExAt("commit") /\ More
    /\ IF exCancelled THEN ex' = Abort("cancelled") /\ UNCHANGED dest
       ELSE LET final == Named(ex.batch[ex.i].output, ex.k) IN
            /\ dest' = Renamed(Stage(ex.i), final)
            /\ ex' = [ex EXCEPT !.committed = Append(@, final), !.i = @ + 1, !.k = 0]
    /\ UNCHANGED exEnv

\* commit_keep_both: one try of its loop.
CommitKeepBoth ==
    /\ ExAt("commit") /\ More
    /\ IF exCancelled /\ ex.k = 0 THEN ex' = Abort("cancelled") /\ UNCHANGED dest
       ELSE LET final == Named(ex.batch[ex.i].output, ex.k) IN
            IF Taken(final) THEN ex' = [ex EXCEPT !.k = @ + 1] /\ UNCHANGED dest
            ELSE /\ dest' = Renamed(Stage(ex.i), final)
                 /\ ex' = [ex EXCEPT !.committed = Append(@, final), !.i = @ + 1, !.k = 0]
    /\ UNCHANGED exEnv

\* Defect: the rollback leaves out the first output.
Defect_RollBackOne ==
    /\ ExAt("rollback")
    /\ IF ex.k <= 1 THEN ex' = [ex EXCEPT !.pc = "cleanup"] /\ UNCHANGED <<dest, seized>>
       ELSE IF Taken(ex.committed[ex.k])
       THEN /\ dest' = Renamed(ex.committed[ex.k], Stage(ex.k))
            /\ seized' = seized \cup {dest[ex.committed[ex.k]].owner}
            /\ ex' = [ex EXCEPT !.k = @ - 1]
       ELSE ex' = [ex EXCEPT !.k = @ - 1, !.errors = @ \cup {ex.k}] /\ UNCHANGED <<dest, seized>>
    /\ UNCHANGED <<exCancelled, visits, breaks, theirs, left>>

\* rollback_committed moves back whatever has the name now.
RollBackOne ==
    /\ ExAt("rollback")
    /\ IF ex.k = 0 THEN ex' = [ex EXCEPT !.pc = "cleanup"] /\ UNCHANGED <<dest, seized>>
       ELSE IF Taken(ex.committed[ex.k])
       THEN /\ dest' = Renamed(ex.committed[ex.k], Stage(ex.k))
            /\ seized' = seized \cup {dest[ex.committed[ex.k]].owner}
            /\ ex' = [ex EXCEPT !.k = @ - 1]
       ELSE ex' = [ex EXCEPT !.k = @ - 1, !.errors = @ \cup {ex.k}] /\ UNCHANGED <<dest, seized>>
    /\ UNCHANGED <<exCancelled, visits, breaks, theirs, left>>

\* cleanup_staged, whatever the staging names hold.  A removal may fail, which
\* nobody is told: below a folder that was given a mode without write permission,
\* for one.  What it left of the entry makes no difference.
CleanUpStaged ==
    /\ ExAt("cleanup")
    /\ \/ left' = {} /\ UNCHANGED breaks
       \/ left' \in SUBSET (Stages \cap DOMAIN dest) \ {{}} /\ Breaks
    /\ dest' = [p \in DOMAIN dest \ (Stages \ left') |-> dest[p]]
    /\ ex' = Ends(IF ex.errors = {} THEN ex.cause ELSE "rollback failed")
    /\ UNCHANGED <<exCancelled, visits, theirs, seized>>

\* A call fails: no space, an archive that changed, a commit that is refused, a
\* committed output that cannot be moved back.
ExtractionBreaks ==
    /\ Breaks
    /\ \/ ExAt("preflight") /\ More /\ ex' = Ends("refused")
       \/ ex.pc \in {"extract", "commit"} /\ ex' = Abort("failed")
       \/ ExAt("rollback") /\ ex.k > 0 /\ ex' = [ex EXCEPT !.k = @ - 1, !.errors = @ \cup {ex.k}]
    /\ UNCHANGED <<dest, exCancelled, visits, theirs, seized, left>>

-----------------------------------------------------------------------------
(* The user, and the other process.                                        *)

CancelExtraction ==
    /\ ~ExAt("ended") /\ ~exCancelled
    /\ exCancelled' = TRUE
    /\ UNCHANGED <<dest, ex, visits, breaks, theirs, seized, left>>

Visible == {Named(ex.batch[i].output, n) : i \in DOMAIN ex.batch, n \in 0..1}
Visit   == /\ visits < MaxVisits /\ visits' = visits + 1
           /\ UNCHANGED <<ex, exCancelled, breaks, seized, left>>

\* A new entry, also in the place of an output that was committed and removed.
VisitorCreates(p) ==
    /\ Visit /\ ~Taken(p)
    /\ dest' = [q \in DOMAIN dest \cup {p} |->
                   IF q = p THEN [owner |-> <<"visitor", Named("visit", visits)>>, files |-> {}, dirs |-> {}]
                   ELSE dest[q]]
    /\ theirs' = theirs \cup {<<"visitor", Named("visit", visits)>>}

VisitorRemoves(p) ==
    /\ Visit /\ Taken(p)
    /\ dest' = [q \in DOMAIN dest \ {p} |-> dest[q]]
    /\ theirs' = theirs \ {dest[p].owner}

ExtractionNext ==
    \/ Preflight \/ PhaseEnds \/ OpenStage \/ ExtractEntry \/ EntriesEnd
    \/ CommitKeepBoth \/ RollBackOne \/ CleanUpStaged \/ ExtractionBreaks
    \/ CancelExtraction
    \/ \E p \in Visible : VisitorCreates(p) \/ VisitorRemoves(p)

ExtractionSpec == ExtractionInit /\ [][ExtractionNext]_exVars

-----------------------------------------------------------------------------
(* Properties.                                                             *)

\* An extraction never overwrites: what was in the destination, or was put
\* there while the extraction ran, stays until its owner removes it.  Excepted is
\* what somebody put in the place of a committed output that a later failure of
\* the batch takes back: rollback_committed moves whatever has the name now to
\* the staging name, and cleanup_staged deletes it (archive.rs:681-702).
EntriesOfOthersStay ==
    \A owner \in theirs \ seized : \E p \in DOMAIN dest : dest[p].owner = owner

\* The batch is all or nothing: after an error that does not report a failed
\* rollback the destination holds no output, of no archive, under any name but
\* the hidden staging names whose removal failed, an error that remove_if_exists
\* drops (archive.rs:704-709).
FailedExtractionLeavesNothing ==
    ExAt("ended") /\ ex.result \in {"refused", "failed", "cancelled"} =>
       \A p \in DOMAIN dest : dest[p].owner[1] = "archive" => p \in Stages \cap left

FilePaths(es) == {es[n].path : n \in {m \in DOMAIN es : es[m].kind # "Directory"}}
IsFolder(r, es) == \A n \in DOMAIN es : es[n].path = <<r>> => es[n].kind = "Directory"

\* What an archive should become: a single folder at its root is the output
\* itself, everything else is below the output as it is in the archive.
Layout(es) ==
    IF \E r \in Roots(es) : Roots(es) = {r} /\ IsFolder(r, es)
    THEN {Tail(f) : f \in FilePaths(es)} ELSE FilePaths(es)

\* No file or link of the archive has entries below it.
IsTree(es) ==
    \A n, m \in DOMAIN es : IsStrictPrefix(es[n].path, es[m].path) => es[n].kind = "Directory"

HasLayout(es) ==
    \/ Cardinality(Roots(es)) = 1 /\ IsTree(es)
    \/ \A n \in DOMAIN es : Len(es[n].path) = 1 /\ es[n].kind # "Directory"

Output(i) == dest[ex.committed[i]]
IsOutput(i) == Taken(ex.committed[i]) /\ Output(i).owner = <<"archive", i>>

\* A batch that succeeds has one output for every archive, with the layout of an
\* archive that has one root or no folder; with several roots that are folders
\* no file is missing.  EveryFileIsExtracted is about the others, and about the
\* archive whose only root is a file with entries below it: the file is dropped.
OutputsAreWhole ==
    ExAt("ended") /\ ex.result = "done" =>
       /\ Len(ex.committed) = Len(ex.batch)
       /\ \A i \in DOMAIN ex.batch : IsOutput(i) /\ ~ex.batch[i].stream =>
             LET es == ex.plans[i] IN
             /\ HasLayout(es) => Output(i).files = Layout(es)
             /\ (\A r \in Roots(es) : IsFolder(r, es))
                   => Cardinality(Output(i).files) = Cardinality(FilePaths(es))

\* README.md:242-243: "Archive extraction ... stages the complete batch".
\* Every file of an archive is in its output.
EveryFileIsExtracted ==
    ExAt("ended") /\ ex.result = "done" =>
       \A i \in DOMAIN ex.batch : IsOutput(i) /\ ~ex.batch[i].stream =>
          Cardinality(Output(i).files) = Cardinality(FilePaths(ex.plans[i]))
=============================================================================
