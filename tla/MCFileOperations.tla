-------------------------- MODULE MCFileOperations --------------------------
(***************************************************************************)
(* Small instances of the operations of gnil-fs: a long job, a batch of    *)
(* renames or permissions, or the extraction of archives.  Each works in   *)
(* folders of its own, so that one of them runs.                           *)
(***************************************************************************)
EXTENDS FileJobs, FileTransactions, ArchiveExtraction

CONSTANTS na, nb, nc, f1, f2, fx

VARIABLE body       \* what runs: "job", "batch" or "extraction"

-----------------------------------------------------------------------------
\* The jobs: a folder "a" with the file "x", and a file "b".
At(folder, b) == <<folder, Plain(b)>>
X == Plain("x")
Y == Plain("y")

Sources(folder) ==
    At(folder, "a") :> [id |-> 1, data |-> Folder] @@ Append(At(folder, "a"), X) :> [id |-> 2, data |-> "ax"]
       @@ At(folder, "b") :> [id |-> 3, data |-> "b"]

\* What is at the destination: nothing, a folder, or files of the same names.
Existing(folder, child) ==
    At(folder, "a") :> [id |-> 4, data |-> Folder] @@ Append(At(folder, "a"), child) :> [id |-> 5, data |-> "old"]

TwoFilesThere == At("dst", "a") :> [id |-> 4, data |-> "older"] @@ At("dst", "b") :> [id |-> 5, data |-> "old"]

SourceFiles == At("src", "a") :> [id |-> 1, data |-> "a"] @@ At("src", "b") :> [id |-> 2, data |-> "b"]

\* A second file "a" that was trashed from the same place.
Again == <<"trash", Name("a", 1)>>

SmallJobs ==
    {[op |-> "copy", conflict |-> "KeepBoth", replace |-> FALSE,
      sources |-> <<At("src", "a"), At("src", "b")>>, tree |-> Sources("src") @@ d]
        : d \in {<< >>, Existing("dst", X)}}
    \cup
    {[op |-> "copy", conflict |-> "MergeDirectory", replace |-> FALSE,
      sources |-> <<At("src", "a"), At("src", "b")>>, tree |-> Sources("src") @@ Existing("dst", Y)],
     [op |-> "copy", conflict |-> "Replace", replace |-> FALSE,
      sources |-> <<At("src", "a"), At("src", "b")>>, tree |-> Sources("src") @@ Existing("dst", X)]}
    \cup
    {[op |-> "move", conflict |-> "Ask", replace |-> FALSE,
      sources |-> <<At("src", "a"), At("src", "b")>>, tree |-> t]
        : t \in {Sources("src"), SourceFiles @@ TwoFilesThere}}
    \cup
    {[op |-> "move", conflict |-> "Ask", replace |-> FALSE,
      sources |-> <<At("src", "a")>>, tree |-> Sources("src") @@ Existing("dst", X)],
     [op |-> "move", conflict |-> "MergeDirectory", replace |-> FALSE,
      sources |-> <<At("src", "a"), At("src", "b")>>, tree |-> Sources("src") @@ Existing("dst", Y)],
     [op |-> "move", conflict |-> "Ask", replace |-> FALSE,           \* listed twice
      sources |-> <<At("src", "a"), At("src", "a")>>, tree |-> Sources("src")]}
    \cup
    {[op |-> o, conflict |-> "Ask", replace |-> FALSE,
      sources |-> <<At("src", "a"), At("src", "b")>>, tree |-> Sources("src")] : o \in {"trash", "delete"}}
    \cup
    {[op |-> "restore", conflict |-> "Ask", replace |-> r,
      sources |-> <<At("trash", "a"), At("trash", "b")>>, tree |-> Sources("trash") @@ d]
        : r \in BOOLEAN, d \in {<< >>, Existing("src", Y)}}
    \cup
    {[op |-> "restore", conflict |-> "Ask", replace |-> r, sources |-> <<At("trash", "a"), Again>>,
      tree |-> At("trash", "a") :> [id |-> 1, data |-> "a"] @@ Again :> [id |-> 2, data |-> "again"]]
        : r \in BOOLEAN}
    \cup
    {[op |-> "purge", conflict |-> "Ask", replace |-> FALSE,
      sources |-> <<At("trash", "a"), At("trash", "b")>>, tree |-> Sources("trash")]}

TwoWrites == <<"new", "newer">>

SmallForeignPlaces ==
    {Append(At("dst", "a"), Y), At("dst", "b"), Append(At("src", "a"), X)}

-----------------------------------------------------------------------------
\* The batches: two files, a free name, and a link of another process.
TwoFiles == [p \in Names |-> IF p = na THEN f1 ELSE IF p = nb THEN f2 ELSE NoFile]

-----------------------------------------------------------------------------
\* The archives.
File(path) == [path |-> path, kind |-> "File", target |-> << >>]
Dir(path)  == [path |-> path, kind |-> "Directory", target |-> << >>]
Link(path, to) == [path |-> path, kind |-> "Symlink", target |-> to]
Tree(name, es) == [output |-> name, stream |-> FALSE, entries |-> es]
Stream(name)   == [output |-> name, stream |-> TRUE, entries |-> <<File(<<"output">>)>>]

OneRoot   == <<Dir(<<"p">>), File(<<"p", "x">>), File(<<".", "p", "q", "..", "y">>)>>
OneFile   == <<File(<<"x">>)>>
Flat      == <<File(<<"x">>), File(<<"y">>)>>
TwoRoots  == <<File(<<"p", "x">>), File(<<"q", "x">>)>>
Clash     == <<File(<<"p", "x", "y">>), File(<<"x">>)>>
Twice     == <<File(<<"x">>), File(<<"p", "..", "x">>)>>
OutOfRoot == <<File(<<"p", "..", "..", "x">>)>>
Linked    == <<Dir(<<"p">>), Link(<<"p", "l">>, <<"..", "p">>), File(<<"p", "x">>)>>
Beneath   == <<File(<<"p">>), File(<<"p", "x">>)>>
Mixed     == <<File(<<"x">>), File(<<"p", "y">>)>>

SmallBatches ==
    {<<Tree("p", es)>> : es \in {OneFile, Clash, Twice, OutOfRoot, Linked, Mixed, Beneath}}
    \cup {<<Tree("p", es), Stream("p")>> : es \in {OneRoot, Flat, TwoRoots}}
    \cup {<<Tree("p", OneRoot), Tree("q", Flat)>>}
SmallOccupied == {Named("p", 0)}

-----------------------------------------------------------------------------
NoJob == [op |-> "none", sources |-> << >>, conflict |-> "Ask", replace |-> FALSE]

JobsIdle ==
    /\ tree = << >> /\ first = << >> /\ info = {} /\ split = FALSE
    /\ job = NewJob(NoJob)
    /\ cancelled = FALSE /\ foreign = 0 /\ faults = 0 /\ kept = {} /\ over = {} /\ litter = {}

ExtractionIdle ==
    /\ dest = << >>
    /\ ex = [batch |-> << >>, pc |-> "ended", i |-> 1, k |-> 0, plans |-> << >>,
             strips |-> << >>, committed |-> << >>, errors |-> {}, cause |-> "none",
             result |-> "none"]
    /\ exCancelled = FALSE /\ visits = 0 /\ breaks = 0 /\ theirs = {} /\ seized = {} /\ left = {}

operationVars == <<body, jobsVars, transactionVars, exVars>>

OperationsInit ==
    \/ body = "job" /\ JobsInit /\ TransactionInit /\ ExtractionIdle
    \/ body = "batch" /\ JobsIdle /\ TransactionInit /\ ExtractionIdle
    \/ body = "extraction" /\ JobsIdle /\ TransactionInit /\ ExtractionInit

OperationsNext ==
    \/ body = "job" /\ JobsNext /\ UNCHANGED <<body, transactionVars, exVars>>
    \/ body = "batch" /\ TransactionNext /\ UNCHANGED <<body, jobsVars, exVars>>
    \/ body = "extraction" /\ ExtractionNext /\ UNCHANGED <<body, jobsVars, transactionVars>>

OperationsSpec == OperationsInit /\ [][OperationsNext]_operationVars
=============================================================================
