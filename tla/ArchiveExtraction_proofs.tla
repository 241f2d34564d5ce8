-------------------- MODULE ArchiveExtraction_proofs --------------------
(***************************************************************************)
(* Theorems about ArchiveExtraction, for any batches, occupied names and   *)
(* bounds: no entry of another process is lost that the rollback did not   *)
(* take for an output, a failed batch leaves nothing but staging entries   *)
(* that could not be removed, and the outputs of one that succeeds are     *)
(* whole.                                                                  *)
(***************************************************************************)
EXTENDS ArchiveExtraction, SequenceTheorems, WellFoundedInduction, NaturalsInduction,
        FiniteSetTheorems, FunctionTheorems, TLAPS

-----------------------------------------------------------------------------
(* The plan of an archive.  Both of its functions go along a sequence: for *)
(* each, one lemma shows that the function exists, and one what it is.     *)

\* Every set of numbers has a least one: what the inductions rest on.
LEMMA LeastNumber ==
  ASSUME NEW T, T \subseteq Nat, T # {}
  PROVE  \E n \in T : \A m \in T : n <= m
<1> DEFINE R == {ss \in Nat \X Nat : ss[1] < ss[2]}
<1>1. IsWellFoundedOn(R, Nat)
  BY NatLessThanWellFounded, Zenon DEF OpToRel
<1>2. \E x \in T : \A y \in T : <<y, x>> \notin R
  <2> HIDE DEF R
  <2> QED BY <1>1, WFMin
<1>3. PICK x \in T : \A y \in T : <<y, x>> \notin R
  BY <1>2
<1>4. \A y \in T : ~(y < x)
  <2> SUFFICES ASSUME NEW y \in T, y < x PROVE FALSE
    OBVIOUS
  <2>1. <<y, x>> \in Nat \X Nat /\ <<y, x>>[1] < <<y, x>>[2]
    OBVIOUS
  <2>2. <<y, x>> \in R
    BY <2>1
  <2> QED BY <2>2, <1>3
<1> QED BY <1>3, <1>4

\* What a path is made of, and the mark of one that leaves the archive.
Parts == STRING \cup {"/"}

\* One component of normalize_archive_path.
Component(path, done, n) ==
    CASE done = Escapes -> Escapes
      [] done # Escapes /\ path[n] = "." -> done
      [] done # Escapes /\ path[n] = ".." -> IF done = << >> THEN Escapes ELSE Front(done)
      [] OTHER -> Append(done, path[n])

NormalizedStep(path, f, n) == IF n = 0 THEN << >> ELSE Component(path, f[n - 1], n)
NormalizedTo(path) == CHOOSE f : f = [n \in 0..Len(path) |-> NormalizedStep(path, f, n)]

LEMMA NormalizedIs ==
  ASSUME NEW path
  PROVE  Normalized(path) = IF path # << >> /\ path[1] = "/" THEN Escapes
                            ELSE NormalizedTo(path)[Len(path)]
BY DEF Normalized, NormalizedTo, NormalizedStep, Component

LEMMA NormalizedExists ==
  ASSUME NEW path, Len(path) \in Nat
  PROVE  \E f : f = [n \in 0..Len(path) |-> NormalizedStep(path, f, n)]
<1> DEFINE Def(m, f) == f = [n \in 0..m |-> NormalizedStep(path, f, n)]
           T == {m \in Nat : ~\E f : Def(m, f)}
<1>1. \E f : Def(0, f)
  <2>1. Def(0, [n \in 0..0 |-> << >>])
    BY DEF NormalizedStep
  <2> QED BY <2>1
<1>2. ASSUME NEW m \in Nat \ {0}, NEW f, Def(m - 1, f)
      PROVE  \E g : Def(m, g)
  <2> DEFINE g == [n \in 0..m |-> IF n < m THEN f[n] ELSE NormalizedStep(path, f, m)]
  <2>1. ASSUME NEW n \in 0..m PROVE NormalizedStep(path, g, n) = NormalizedStep(path, f, n)
    <3>1. CASE n = 0
      BY <3>1 DEF NormalizedStep
    <3>2. CASE n # 0
      <4>1. g[n - 1] = f[n - 1]
        BY <3>2
      <4> HIDE DEF g
      <4> QED BY <3>2, <4>1 DEF NormalizedStep
    <3> QED BY <3>1, <3>2
  <2>2. \A n \in 0..(m - 1) : f[n] = NormalizedStep(path, f, n)
    BY <1>2
  <2>3. Def(m, g)
    BY <2>1, <2>2
  <2> QED BY <2>3
<1>3. T = {}
  <2> SUFFICES ASSUME T # {} PROVE FALSE
    OBVIOUS
  <2>1. PICK m \in T : \A n \in T : m <= n
    BY LeastNumber
  <2> HIDE DEF Def
  <2>2. m # 0
    BY <1>1
  <2>3. \E f : Def(m - 1, f)
    BY <2>1, <2>2
  <2> QED BY <2>2, <2>3, <1>2
<1> QED BY <1>3

LEMMA NormalizedType ==
  ASSUME NEW path \in Seq(STRING)
  PROVE  Normalized(path) \in Seq(Parts)
<1> DEFINE f == NormalizedTo(path)
           T == {n \in 0..Len(path) : f[n] \notin Seq(Parts)}
<1>0. Escapes \in Seq(Parts)
  BY DEF Escapes, Parts
<1>1. f = [n \in 0..Len(path) |-> NormalizedStep(path, f, n)]
  BY NormalizedExists DEF NormalizedTo
<1> HIDE DEF f
<1>2. T = {}
  <2> SUFFICES ASSUME T # {} PROVE FALSE
    OBVIOUS
  <2>0. T \subseteq Nat
    OBVIOUS
  <2>1. PICK n \in T : \A m \in T : n <= m
    <3> HIDE DEF T
    <3> QED BY <2>0, LeastNumber
  <2>2. CASE n = 0
    BY <2>2, <1>1 DEF NormalizedStep
  <2>3. CASE n # 0
    <3>1. n - 1 \in 0..Len(path) /\ n \in 1..Len(path) /\ f[n - 1] \in Seq(Parts)
      BY <2>1, <2>3
    <3>2. f[n] = Component(path, f[n - 1], n)
      BY <1>1, <2>3, <3>1 DEF NormalizedStep
    <3>3. path[n] \in Parts
      BY <3>1 DEF Parts
    <3> HIDE DEF T
    <3>5. Component(path, f[n - 1], n) \in Seq(Parts)
      <4> DEFINE done == f[n - 1]
      <4>1. done \in Seq(Parts)
        BY <3>1
      <4> HIDE DEF done
      <4>2. done # << >> => Front(done) \in Seq(Parts)
        BY <4>1 DEF Front
      <4>3. Append(done, path[n]) \in Seq(Parts)
        BY <4>1, <3>3
      <4>4. Component(path, done, n) \in Seq(Parts)
        BY <4>1, <4>2, <4>3, <1>0 DEF Component
      <4> QED BY <4>4 DEF done
    <3> QED BY <3>5, <3>2, <2>1 DEF T
  <2> QED BY <2>2, <2>3
<1>3. f[Len(path)] \in Seq(Parts)
  BY <1>2
<1> QED BY <1>0, <1>3, NormalizedIs DEF f

\* One entry of preflight.
EntriesStep(entries, f, n) ==
    IF n = 0 THEN << >>
    ELSE LET path == Normalized(entries[n].path)
         IN  IF path = << >> THEN f[n - 1]
             ELSE Append(f[n - 1], [entries[n] EXCEPT !.path = path])
EntriesTo(entries) == CHOOSE f : f = [n \in 0..Len(entries) |-> EntriesStep(entries, f, n)]

PlannedEntries == [path : Seq(Parts) \ {<< >>}, kind : EntryKinds, target : Seq(STRING)]

LEMMA EntriesIs ==
  ASSUME NEW archive
  PROVE  Entries(archive) = EntriesTo(archive.entries)[Len(archive.entries)]
BY DEF Entries, EntriesTo, EntriesStep

LEMMA EntriesExists ==
  ASSUME NEW entries, Len(entries) \in Nat
  PROVE  \E f : f = [n \in 0..Len(entries) |-> EntriesStep(entries, f, n)]
<1> DEFINE Def(m, f) == f = [n \in 0..m |-> EntriesStep(entries, f, n)]
           T == {m \in Nat : ~\E f : Def(m, f)}
<1>1. \E f : Def(0, f)
  <2>1. Def(0, [n \in 0..0 |-> << >>])
    BY DEF EntriesStep
  <2> QED BY <2>1
<1>2. ASSUME NEW m \in Nat \ {0}, NEW f, Def(m - 1, f)
      PROVE  \E g : Def(m, g)
  <2> DEFINE g == [n \in 0..m |-> IF n < m THEN f[n] ELSE EntriesStep(entries, f, m)]
  <2>1. ASSUME NEW n \in 0..m PROVE EntriesStep(entries, g, n) = EntriesStep(entries, f, n)
    <3>1. CASE n = 0
      BY <3>1 DEF EntriesStep
    <3>2. CASE n # 0
      <4>1. g[n - 1] = f[n - 1]
        BY <3>2
      <4> HIDE DEF g
      <4> QED BY <3>2, <4>1 DEF EntriesStep
    <3> QED BY <3>1, <3>2
  <2>2. \A n \in 0..(m - 1) : f[n] = EntriesStep(entries, f, n)
    BY <1>2
  <2>3. Def(m, g)
    BY <2>1, <2>2
  <2> QED BY <2>3
<1>3. T = {}
  <2> SUFFICES ASSUME T # {} PROVE FALSE
    OBVIOUS
  <2>1. PICK m \in T : \A n \in T : m <= n
    BY LeastNumber
  <2> HIDE DEF Def
  <2>2. m # 0
    BY <1>1
  <2>3. \E f : Def(m - 1, f)
    BY <2>1, <2>2
  <2> QED BY <2>2, <2>3, <1>2
<1> QED BY <1>3

LEMMA EntriesType ==
  ASSUME NEW archive \in Archives
  PROVE  Entries(archive) \in Seq(PlannedEntries)
<1> DEFINE entries == archive.entries
           f == EntriesTo(entries)
           T == {n \in 0..Len(entries) : f[n] \notin Seq(PlannedEntries)}
<1>0. entries \in Seq(ArchiveEntries)
  BY DEF Archives
<1> HIDE DEF entries
<1>1. f = [n \in 0..Len(entries) |-> EntriesStep(entries, f, n)]
  BY <1>0, EntriesExists DEF EntriesTo
<1> HIDE DEF f
<1>2. T = {}
  <2> SUFFICES ASSUME T # {} PROVE FALSE
    OBVIOUS
  <2>0. T \subseteq Nat
    BY <1>0
  <2>1. PICK n \in T : \A m \in T : n <= m
    <3> HIDE DEF T
    <3> QED BY <2>0, LeastNumber
  <2>2. CASE n = 0
    BY <2>2, <1>0, <1>1 DEF EntriesStep
  <2>3. CASE n # 0
    <3>1. n - 1 \in 0..Len(entries) /\ n \in 1..Len(entries) /\ f[n - 1] \in Seq(PlannedEntries)
      BY <1>0, <2>1, <2>3
    <3>2. f[n] = EntriesStep(entries, f, n)
      BY <1>0, <1>1, <3>1
    <3> DEFINE e == entries[n]
               path == Normalized(e.path)
    <3>3. e \in ArchiveEntries
      BY <1>0, <3>1
    <3> HIDE DEF e, T
    <3>4. path \in Seq(Parts)
      BY <3>3, NormalizedType DEF ArchiveEntries
    <3> HIDE DEF path
    <3>5. path # << >> => [e EXCEPT !.path = path] \in PlannedEntries
      BY <3>3, <3>4 DEF ArchiveEntries, PlannedEntries
    <3>6. EntriesStep(entries, f, n) \in Seq(PlannedEntries)
      BY <2>3, <3>1, <3>5 DEF EntriesStep, e, path
    <3> QED BY <3>2, <3>6, <2>1 DEF T
  <2> QED BY <2>2, <2>3
<1>3. f[Len(entries)] \in Seq(PlannedEntries)
  BY <1>0, <1>2
<1> QED BY <1>3, EntriesIs DEF f, entries

-----------------------------------------------------------------------------
(* Types, and where the extraction stands.                                 *)

Phases  == {"preflight", "stage", "extract", "commit", "rollback", "cleanup", "ended"}
Results == {"none", "refused", "failed", "cancelled", "done", "rollback failed"}
Finals  == {Named(name, n) : name \in STRING \ {"gnil-extract"}, n \in Nat}
Extractions ==
    [batch : Seq(Archives), pc : Phases, i : Nat \ {0}, k : Nat,
     plans : Seq(Seq(PlannedEntries)), strips : Seq(Seq(Parts)), committed : Seq(Finals),
     errors : SUBSET Nat, cause : {"none", "failed", "cancelled"}, result : Results]

OldOwners      == {<<"old", p>> : p \in Occupied}
Visitors(n)    == {<<"visitor", Named("visit", m)>> : m \in 0..(n - 1)}
ArchiveOwners  == {<<"archive", j>> : j \in Nat}
Outputs ==
    [owner : OldOwners \cup Visitors(visits) \cup ArchiveOwners,
     files : SUBSET Seq(Parts), dirs : SUBSET Seq(Parts)]

ExtractionTypes ==
    /\ ex \in Extractions
    /\ \A p \in DOMAIN dest : dest[p] \in Outputs
    /\ visits \in Nat /\ exCancelled \in BOOLEAN

\* How far the plans and the commits have come in each phase.
Standing ==
    /\ ex.pc = "preflight" => /\ Len(ex.plans) = ex.i - 1 /\ Len(ex.strips) = ex.i - 1
                              /\ ex.i <= Len(ex.batch) + 1
    /\ ex.pc \in {"stage", "extract", "commit"} =>
          Len(ex.plans) = Len(ex.batch) /\ Len(ex.strips) = Len(ex.batch)
    /\ ex.pc \in {"preflight", "stage", "extract"} => ex.committed = << >>
    /\ ex.pc \in {"stage", "commit"} => ex.i <= Len(ex.batch) + 1
    /\ ex.pc = "extract" => ex.i <= Len(ex.batch) /\ ex.k \in 1..(Len(ex.plans[ex.i]) + 1)
    /\ ex.pc = "commit" => Len(ex.committed) = ex.i - 1
    /\ ex.pc = "rollback" => ex.k <= Len(ex.committed)
    /\ ex.pc # "ended" => Len(ex.committed) <= Len(ex.batch)
    /\ ex.pc \in {"rollback", "cleanup"} => ex.cause # "none"
    /\ ex.pc \in {"preflight", "stage", "extract", "commit"} => ex.errors = {}

\* Each archive that was extracted has its staging entry until it is committed.
Staged ==
    \A j \in DOMAIN ex.batch :
       \/ ex.pc = "stage" /\ j < ex.i
       \/ ex.pc = "extract" /\ j <= ex.i
       \/ ex.pc = "commit" /\ j >= ex.i
       => Taken(Stage(j)) /\ dest[Stage(j)].owner = <<"archive", j>>

\* What others own, and the rollback did not take, is under no staging name.
Kept == theirs \ seized
Apart ==
    /\ Kept \subseteq OldOwners \cup Visitors(visits)
    /\ \A p \in DOMAIN dest : dest[p].owner \in Kept => p \notin Stages

\* An output is where the rollback and the cleanup look for it.
Reached ==
    CASE ex.pc = "preflight" -> {}
      [] ex.pc \in {"stage", "extract", "cleanup"} -> Stages
      [] ex.pc = "commit" -> Stages \cup ToSet(ex.committed)
      [] ex.pc = "rollback" -> Stages \cup {ex.committed[j] : j \in 1..ex.k}
      [] OTHER -> {}
Traced ==
    ex.pc # "ended" /\ ex.errors = {} =>
       \A p \in DOMAIN dest : dest[p].owner[1] = "archive" => p \in Reached

ExInv ==
    /\ ExtractionTypes /\ Standing /\ Staged /\ Apart /\ Traced
    /\ EntriesOfOthersStay /\ FailedExtractionLeavesNothing

-----------------------------------------------------------------------------
(* No two archives share a staging name, and no output has one.            *)
LEMMA StagingNames ==
  /\ \A i, j \in Nat : Stage(i) = Stage(j) => i = j
  /\ \A i : Stage(i)[1] = "gnil-extract" /\ \A p \in Occupied : Stage(i) # p
  /\ \A i : \A p \in Finals : Stage(i) # p
<1>1. \A i : Stage(i)[1] = "gnil-extract" /\ Stage(i)[2] = i
  BY DEF Stage
<1>2. \A p \in Finals : p[1] # "gnil-extract"
  BY DEF Finals, Named
<1> QED BY <1>1, <1>2, ArchiveAssumption

LEMMA ExtractionBegins == ExtractionInit => ExInv
<1> SUFFICES ASSUME ExtractionInit PROVE ExInv
  OBVIOUS
<1>1. PICK b \in ArchiveBatches :
          ex = [batch |-> b, pc |-> "preflight", i |-> 1, k |-> 0,
                plans |-> << >>, strips |-> << >>, committed |-> << >>,
                errors |-> {}, cause |-> "none", result |-> "none"]
  BY DEF ExtractionInit
<1>2. /\ dest = [p \in Occupied |-> [owner |-> <<"old", p>>, files |-> {}, dirs |-> {}]]
      /\ exCancelled = FALSE /\ visits = 0 /\ seized = {}
      /\ theirs = {<<"old", p>> : p \in Occupied}
  BY DEF ExtractionInit
<1>3. b \in Seq(Archives)
  BY ArchiveAssumption
<1>4. ExtractionTypes
  <2>1. ex \in Extractions
    BY <1>1, <1>3 DEF Extractions, Phases, Results
  <2>2. \A p \in Occupied : dest[p] \in Outputs
    BY <1>2 DEF Outputs, OldOwners
  <2> QED BY <2>1, <2>2, <1>2 DEF ExtractionTypes
<1>5. Standing
  BY <1>1, <1>3 DEF Standing
<1>6. Staged
  BY <1>1 DEF Staged
<1>7. Apart
  <2>1. Stages \cap Occupied = {}
    BY StagingNames DEF Stages
  <2>2. ToSet(ex.committed) = {}
    BY <1>1 DEF ToSet
  <2> QED BY <2>1, <2>2, <1>2 DEF Apart, Kept, OldOwners
<1>8. Traced
  BY <1>2 DEF Traced
<1>9. EntriesOfOthersStay
  BY <1>2 DEF EntriesOfOthersStay, Kept
<1>10. FailedExtractionLeavesNothing
  BY <1>1 DEF FailedExtractionLeavesNothing, ExAt
<1> QED BY <1>4, <1>5, <1>6, <1>7, <1>8, <1>9, <1>10 DEF ExInv

\* A step of the extraction that leaves the destination alone.
LEMMA DestinationStays ==
  ASSUME ExInv, UNCHANGED <<dest, exCancelled, visits, theirs, seized, left>>,
         ex' \in Extractions, ex'.batch = ex.batch, ex'.committed = ex.committed,
         Standing', Staged', Traced', FailedExtractionLeavesNothing'
  PROVE  ExInv'
<1>1. ExtractionTypes'
  BY DEF ExInv, ExtractionTypes, Outputs
<1>2. Apart'
  BY DEF ExInv, Apart, Kept, Stages, ToSet, Visitors
<1>3. EntriesOfOthersStay'
  BY DEF ExInv, EntriesOfOthersStay
<1> QED BY <1>1, <1>2, <1>3 DEF ExInv

\* The extraction gives up, before or while it commits.
LEMMA Aborts ==
  ASSUME ExInv, NEW why \in {"failed", "cancelled"}, ex.pc \in {"stage", "extract", "commit"},
         ex' = Abort(why), UNCHANGED <<dest, exCancelled, visits, theirs, seized, left>>
  PROVE  ExInv'
<1>1. ex \in Extractions
  BY DEF ExInv, ExtractionTypes
<1>2. /\ ex'.pc = IF ex.pc = "commit" THEN "rollback" ELSE "cleanup"
      /\ ex'.k = Len(ex.committed) /\ ex'.cause = why
      /\ ex'.batch = ex.batch /\ ex'.committed = ex.committed /\ ex'.errors = ex.errors
      /\ ex' \in Extractions
  <2> DEFINE to == IF ex.pc = "commit" THEN "rollback" ELSE "cleanup"
  <2>1. ex' = [ex EXCEPT !.cause = why, !.k = Len(ex.committed), !.pc = to]
    BY DEF Abort, ExAt
  <2>2. to \in Phases /\ Len(ex.committed) \in Nat
    BY <1>1 DEF Extractions, Phases
  <2> HIDE DEF to
  <2>3. ex'.pc = to /\ ex' \in Extractions
    BY <1>1, <2>1, <2>2 DEF Extractions
  <2> QED BY <1>1, <2>1, <2>3 DEF Extractions, to
<1>3. ex.pc # "ended"
  OBVIOUS
<1> HIDE DEF Abort
<1>4. Standing'
  BY <1>1, <1>2 DEF ExInv, Standing, Extractions
<1>5. Staged'
  BY <1>2 DEF Staged
<1>6. Traced'
  <2>1. Traced
    BY DEF ExInv
  <2>2. ToSet(ex.committed) = {ex.committed[j] : j \in 1..Len(ex.committed)}
    BY <1>1 DEF ToSet, Extractions
  <2>3. Stages' = Stages
    BY <1>2 DEF Stages
  <2>4. CASE ex.pc = "commit"
    BY <2>1, <2>2, <2>3, <2>4, <1>2 DEF Traced, Reached
  <2>5. CASE ex.pc # "commit"
    BY <2>1, <2>3, <2>5, <1>2 DEF Traced, Reached
  <2> QED BY <2>4, <2>5
<1>7. FailedExtractionLeavesNothing'
  BY <1>2 DEF FailedExtractionLeavesNothing, ExAt
<1> QED BY <1>2, <1>4, <1>5, <1>6, <1>7, DestinationStays

-----------------------------------------------------------------------------
(* Every step keeps the invariant.                                         *)
LEMMA PreflightStep ==
  ASSUME ExInv, Preflight
  PROVE  ExInv'
<1> DEFINE archive == ex.batch[ex.i]
           plans == Append(ex.plans, Entries(archive))
           total == FoldSeq(LAMBDA es, sum : sum + Len(es), 0, plans)
<1>1. ex \in Extractions /\ ex.pc = "preflight" /\ ex.i \in 1..Len(ex.batch)
  <2>1. ex \in Extractions /\ ex.pc = "preflight" /\ ex.i <= Len(ex.batch)
    BY DEF ExInv, ExtractionTypes, Preflight, ExAt, More
  <2> QED BY <2>1 DEF Extractions
<1>2. \/ \E r \in {"cancelled", "refused"} : ex' = Ends(r)
      \/ \E root \in IF archive.stream THEN {<< >>} ELSE StripRoots(Entries(archive)) :
            ex' = [ex EXCEPT !.i = @ + 1, !.plans = plans, !.strips = Append(@, root)]
  <2> HIDE DEF total
  <2> QED BY Zenon DEF Preflight, plans, archive, total
<1>3. UNCHANGED <<dest, exCancelled, visits, theirs, seized, left>>
  BY DEF Preflight, exEnv
<1>4. archive \in Archives
  BY <1>1 DEF Extractions
<1>5. Entries(archive) \in Seq(PlannedEntries)
  BY <1>4, EntriesType
<1>6. plans \in Seq(Seq(PlannedEntries)) /\ Len(plans) = Len(ex.plans) + 1
  BY <1>1, <1>5 DEF Extractions
<1>7. StripRoots(Entries(archive)) \subseteq Seq(Parts)
  <2> DEFINE es == Entries(archive)
  <2>1. \A n \in DOMAIN es : <<es[n].path[1]>> \in Seq(Parts)
    <3> SUFFICES ASSUME NEW n \in DOMAIN es PROVE <<es[n].path[1]>> \in Seq(Parts)
      OBVIOUS
    <3>0. es \in Seq(PlannedEntries) /\ n \in 1..Len(es)
      BY <1>5
    <3>3. es[n] \in PlannedEntries
      BY <3>0
    <3>1. es[n].path \in Seq(Parts) /\ es[n].path # << >>
      BY <3>3 DEF PlannedEntries
    <3>2. es[n].path[1] \in Parts
      BY <3>1
    <3> QED BY <3>2
  <2> HIDE DEF es
  <2>2. StripRoots(es) \subseteq Seq(Parts)
    <3>1. \A r \in Roots(es) : <<r>> \in Seq(Parts)
      BY <2>1 DEF Roots
    <3>2. << >> \in Seq(Parts)
      OBVIOUS
    <3> QED BY <3>1, <3>2 DEF StripRoots
  <2> QED BY <2>2 DEF es
<1> HIDE DEF archive, plans
<1>8. CASE \E r \in {"cancelled", "refused"} : ex' = Ends(r)
  <2>1. PICK r \in {"cancelled", "refused"} : ex' = [ex EXCEPT !.pc = "ended", !.result = r]
    BY <1>8 DEF Ends
  <2>2. /\ ex'.pc = "ended" /\ ex'.batch = ex.batch /\ ex'.committed = ex.committed
        /\ ex' \in Extractions
    BY <1>1, <2>1 DEF Extractions, Phases, Results
  <2>3. Standing'
    BY <2>2 DEF ExInv, Standing
  <2>4. Staged' /\ Traced'
    BY <2>2 DEF Staged, Traced
  <2>5. \A p \in DOMAIN dest : dest[p].owner[1] # "archive"
    BY <1>1 DEF ExInv, Traced, Reached, Standing
  <2>6. FailedExtractionLeavesNothing'
    BY <1>3, <2>5 DEF FailedExtractionLeavesNothing
  <2> QED BY <1>3, <2>2, <2>3, <2>4, <2>6, DestinationStays
<1>9. CASE \E root \in IF archive.stream THEN {<< >>} ELSE StripRoots(Entries(archive)) :
            ex' = [ex EXCEPT !.i = @ + 1, !.plans = plans, !.strips = Append(@, root)]
  <2>1. PICK root \in Seq(Parts) :
            ex' = [ex EXCEPT !.i = @ + 1, !.plans = plans, !.strips = Append(@, root)]
    <3>1. << >> \in Seq(Parts)
      OBVIOUS
    <3> QED BY <3>1, <1>7, <1>9
  <2>2. /\ ex'.pc = "preflight" /\ ex'.batch = ex.batch /\ ex'.committed = ex.committed
        /\ ex'.i = ex.i + 1 /\ Len(ex'.plans) = Len(ex.plans) + 1
        /\ Len(ex'.strips) = Len(ex.strips) + 1 /\ ex'.errors = ex.errors
    BY <1>1, <1>6, <2>1 DEF Extractions
  <2>3. ex' \in Extractions
    <3>1. Append(ex.strips, root) \in Seq(Seq(Parts)) /\ ex.i + 1 \in Nat \ {0}
      BY <1>1 DEF Extractions
    <3> QED BY <1>1, <1>6, <2>1, <3>1 DEF Extractions
  <2>4. Standing'
    BY <1>1, <2>2 DEF ExInv, Standing, Extractions
  <2>5. Staged' /\ FailedExtractionLeavesNothing'
    BY <2>2 DEF Staged, FailedExtractionLeavesNothing, ExAt
  <2>6. Traced'
    BY <1>1, <1>3, <2>2 DEF ExInv, Traced, Reached, Standing
  <2> QED BY <1>3, <2>2, <2>3, <2>4, <2>5, <2>6, DestinationStays
<1> QED BY <1>2, <1>8, <1>9

LEMMA PhaseEndsStep ==
  ASSUME ExInv, PhaseEnds
  PROVE  ExInv'
<1>1. ex \in Extractions /\ ex.i > Len(ex.batch) /\ Len(ex.batch) \in Nat
  <2>1. ex \in Extractions /\ ~(ex.i <= Len(ex.batch))
    BY DEF ExInv, ExtractionTypes, PhaseEnds, More
  <2> QED BY <2>1 DEF Extractions
<1>2. UNCHANGED <<dest, exCancelled, visits, theirs, seized, left>>
  BY DEF PhaseEnds, exEnv
<1>3. \/ ex.pc = "preflight" /\ ex' = [ex EXCEPT !.pc = "stage", !.i = 1]
      \/ ex.pc = "stage" /\ ex' = [ex EXCEPT !.pc = "commit", !.i = 1, !.k = 0]
      \/ ex.pc = "commit" /\ ex' = [ex EXCEPT !.pc = "ended", !.result = "done"]
  BY Zenon DEF PhaseEnds, ExAt, Ends
<1>4. /\ ex'.batch = ex.batch /\ ex'.committed = ex.committed /\ ex'.plans = ex.plans
      /\ ex'.strips = ex.strips /\ ex'.errors = ex.errors /\ ex' \in Extractions
  <2>1. {"stage", "commit", "ended"} \subseteq Phases /\ "done" \in Results /\ 1 \in Nat \ {0} /\ 0 \in Nat
    BY DEF Phases, Results
  <2>2. CASE ex' = [ex EXCEPT !.pc = "stage", !.i = 1]
    BY <1>1, <2>1, <2>2 DEF Extractions
  <2>3. CASE ex' = [ex EXCEPT !.pc = "commit", !.i = 1, !.k = 0]
    BY <1>1, <2>1, <2>3 DEF Extractions
  <2>4. CASE ex' = [ex EXCEPT !.pc = "ended", !.result = "done"]
    BY <1>1, <2>1, <2>4 DEF Extractions
  <2> QED BY <1>3, <2>2, <2>3, <2>4
<1>5. Standing /\ Staged /\ Traced
  BY DEF ExInv
<1>6. \/ ex.pc = "preflight" /\ ex'.pc = "stage" /\ ex'.i = 1
      \/ ex.pc = "stage" /\ ex'.pc = "commit" /\ ex'.i = 1
      \/ ex.pc = "commit" /\ ex'.pc = "ended" /\ ex'.result = "done"
  BY <1>1, <1>3 DEF Extractions
<1>7. Standing'
  <2>1. Len(ex.plans) \in Nat /\ Len(ex.strips) \in Nat /\ Len(ex.committed) \in Nat /\ ex.i \in Nat
    BY <1>1 DEF Extractions
  <2>2. ex.pc = "preflight" => ex.i = Len(ex.batch) + 1
    BY <1>1, <1>5, <2>1 DEF Standing
  <2>3. CASE ex.pc = "preflight" /\ ex'.pc = "stage" /\ ex'.i = 1
    BY <1>1, <1>4, <1>5, <2>1, <2>2, <2>3 DEF Standing
  <2>4. CASE ex.pc = "stage" /\ ex'.pc = "commit" /\ ex'.i = 1
    BY <1>1, <1>4, <1>5, <2>1, <2>4 DEF Standing
  <2>5. CASE ex'.pc = "ended"
    BY <2>5 DEF Standing
  <2> QED BY <1>6, <2>3, <2>4, <2>5
<1>8. Staged'
  BY <1>1, <1>2, <1>4, <1>5, <1>6 DEF Staged, Taken, Extractions
<1>9. Traced'
  BY <1>1, <1>2, <1>4, <1>5, <1>6 DEF Traced, Reached, Stages
<1>10. FailedExtractionLeavesNothing'
  BY <1>6 DEF FailedExtractionLeavesNothing, ExAt
<1> QED BY <1>2, <1>4, <1>7, <1>8, <1>9, <1>10, DestinationStays

\* A place that holds an output belongs to nobody else.
LEMMA OutputsAreOurs ==
  ASSUME Apart, NEW o \in ArchiveOwners
  PROVE  o \notin Kept
<1>1. o[1] = "archive"
  BY DEF ArchiveOwners
<1>2. \A t \in Kept : t[1] # "archive"
  BY DEF Apart, Kept, OldOwners, Visitors
<1> QED BY <1>1, <1>2

LEMMA OpenStageStep ==
  ASSUME ExInv, OpenStage
  PROVE  ExInv'
<1>1. ex \in Extractions /\ ex.pc = "stage" /\ ex.i \in 1..Len(ex.batch)
  <2>1. ex \in Extractions /\ ex.pc = "stage" /\ ex.i <= Len(ex.batch)
    BY DEF ExInv, ExtractionTypes, OpenStage, ExAt, More
  <2> QED BY <2>1 DEF Extractions
<1>2. UNCHANGED <<exCancelled, visits, theirs, seized, left>>
  BY DEF OpenStage, exEnv
<1>3. CASE exCancelled
  BY <1>1, <1>2, <1>3, Aborts DEF OpenStage
<1>4. CASE ~exCancelled
  <2> DEFINE s == Stage(ex.i)
             new == [owner |-> <<"archive", ex.i>>, files |-> {}, dirs |-> {}]
  <2>1. ex' = [ex EXCEPT !.pc = "extract", !.k = 1]
    BY <1>4 DEF OpenStage
  <2>2. /\ DOMAIN dest' = DOMAIN dest \cup {s} /\ dest'[s] = new
        /\ \A p \in DOMAIN dest \ {s} : dest'[p] = dest[p]
    BY <1>4 DEF OpenStage
  <2>3. /\ ex'.batch = ex.batch /\ ex'.committed = ex.committed /\ ex'.plans = ex.plans
        /\ ex'.strips = ex.strips /\ ex'.errors = ex.errors /\ ex' \in Extractions
        /\ ex'.i = ex.i /\ ex'.k = 1 /\ ex'.pc = "extract"
    <3>1. "extract" \in Phases /\ 1 \in Nat
      BY DEF Phases
    <3> QED BY <1>1, <2>1, <3>1 DEF Extractions
  <2>4. ex.i \in Nat /\ new \in Outputs /\ new.owner \in ArchiveOwners /\ Outputs' = Outputs
    BY <1>1, <1>2 DEF Outputs, ArchiveOwners
  <2>5. ExtractionTypes /\ Standing /\ Staged /\ Apart /\ Traced /\ EntriesOfOthersStay
    BY DEF ExInv
  <2>6. s \in Stages /\ s \notin ToSet(ex.committed) /\ Stages' = Stages
    <3>1. ex.committed = << >> /\ DOMAIN ex.batch = 1..Len(ex.batch)
      BY <1>1, <2>5 DEF Standing, Extractions
    <3> QED BY <1>1, <2>3, <3>1 DEF Stages, ToSet
  <2>7. new.owner \notin Kept
    BY <2>4, <2>5, OutputsAreOurs
  <2> HIDE DEF new
  <2>8. ExtractionTypes'
    BY <1>2, <2>2, <2>3, <2>4, <2>5 DEF ExtractionTypes
  <2>9. Standing'
    <3>1. Len(ex.plans[ex.i]) \in Nat
      <4>1. ex.plans \in Seq(Seq(PlannedEntries)) /\ ex.i \in DOMAIN ex.plans
        BY <1>1, <2>5 DEF Standing, Extractions
      <4>2. ex.plans[ex.i] \in Seq(PlannedEntries)
        BY <4>1
      <4> QED BY <4>2
    <3>2. 1 \in 1..(Len(ex.plans[ex.i]) + 1)
      BY <3>1
    <3> QED BY <1>1, <2>3, <2>5, <3>2 DEF Standing, Extractions
  <2>10. Staged'
    <3> SUFFICES ASSUME NEW j \in DOMAIN ex.batch, j <= ex.i
                 PROVE  Taken(Stage(j))' /\ dest'[Stage(j)].owner = <<"archive", j>>
      BY <2>3 DEF Staged
    <3>1. CASE j = ex.i
      BY <3>1, <2>2 DEF Taken, new
    <3>2. CASE j # ex.i
      <4>1. j \in Nat /\ j < ex.i
        BY <1>1, <3>2 DEF Extractions
      <4>2. Stage(j) # s
        BY <1>1, <4>1, <3>2, StagingNames
      <4>3. Taken(Stage(j)) /\ dest[Stage(j)].owner = <<"archive", j>>
        BY <1>1, <2>5, <4>1 DEF Staged
      <4> QED BY <2>2, <4>2, <4>3 DEF Taken
    <3> QED BY <3>1, <3>2
  <2>11. Apart'
    <3>1. Kept' \subseteq (OldOwners \cup Visitors(visits))'
      BY <1>2, <2>5 DEF Apart, Kept, Visitors
    <3>2. ToSet(ex'.committed) = ToSet(ex.committed)
      BY <2>3
    <3> QED BY <1>2, <2>2, <2>5, <2>6, <2>7, <3>1, <3>2 DEF Apart, Kept
  <2>12. Traced'
    BY <1>1, <2>2, <2>3, <2>5, <2>6 DEF Traced, Reached
  <2>13. EntriesOfOthersStay'
    <3> SUFFICES ASSUME NEW owner \in Kept
                 PROVE  \E p \in DOMAIN dest' : dest'[p].owner = owner
      BY <1>2 DEF EntriesOfOthersStay, Kept
    <3>1. PICK p \in DOMAIN dest : dest[p].owner = owner
      BY <2>5 DEF EntriesOfOthersStay, Kept
    <3>2. p # s
      BY <3>1, <2>5, <2>6 DEF Apart, Kept
    <3> QED BY <2>2, <3>1, <3>2
  <2>14. FailedExtractionLeavesNothing'
    BY <2>3 DEF FailedExtractionLeavesNothing, ExAt
  <2> QED BY <2>8, <2>9, <2>10, <2>11, <2>12, <2>13, <2>14 DEF ExInv
<1> QED BY <1>3, <1>4

LEMMA ExtractEntryStep ==
  ASSUME ExInv, ExtractEntry
  PROVE  ExInv'
<1> DEFINE entry == ex.plans[ex.i][ex.k]
           path  == Stripped(entry.path, ex.strips[ex.i])
           s == Stage(ex.i)
<1>1. /\ ex \in Extractions /\ ex.pc = "extract" /\ ex.k <= Len(ex.plans[ex.i])
      /\ UNCHANGED <<exCancelled, visits, theirs, seized, left>>
      /\ ExtractionTypes /\ Standing /\ Staged /\ Apart /\ Traced /\ EntriesOfOthersStay
  BY DEF ExInv, ExtractionTypes, ExtractEntry, ExAt, exEnv
<1>2. /\ ex.i \in 1..Len(ex.batch) /\ ex.i \in DOMAIN ex.plans /\ ex.i \in DOMAIN ex.strips
      /\ ex.i \in Nat /\ ex.k \in 1..Len(ex.plans[ex.i])
  <2>1. ex.i \in Nat \ {0} /\ ex.i <= Len(ex.batch) /\ Len(ex.plans) = Len(ex.batch)
        /\ Len(ex.strips) = Len(ex.batch)
    BY <1>1 DEF Standing, Extractions
  <2>2. ex.batch \in Seq(Archives) /\ ex.plans \in Seq(Seq(PlannedEntries)) /\ ex.strips \in Seq(Seq(Parts))
    BY <1>1 DEF Extractions
  <2>3. ex.i \in 1..Len(ex.batch) /\ ex.i \in DOMAIN ex.plans /\ ex.i \in DOMAIN ex.strips
    BY <2>1, <2>2
  <2>4. ex.plans[ex.i] \in Seq(PlannedEntries)
    BY <2>2, <2>3
  <2>5. ex.k \in 1..(Len(ex.plans[ex.i]) + 1)
    BY <1>1 DEF Standing
  <2> QED BY <1>1, <2>3, <2>4, <2>5
<1>3. \/ \E why \in {"failed", "cancelled"} : ex' = Abort(why) /\ dest' = dest
      \/ ex' = [ex EXCEPT !.k = @ + 1] /\ dest' = dest
      \/ /\ ex' = [ex EXCEPT !.k = @ + 1] /\ Fits(dest[s], path, entry.kind)
         /\ dest' = [dest EXCEPT ![s] = Written(@, path, entry.kind)]
  BY Zenon DEF ExtractEntry
<1>4. CASE \E why \in {"failed", "cancelled"} : ex' = Abort(why) /\ dest' = dest
  BY <1>1, <1>4, Aborts
<1>5. ASSUME ex' = [ex EXCEPT !.k = @ + 1]
      PROVE  /\ ex'.batch = ex.batch /\ ex'.committed = ex.committed /\ ex'.plans = ex.plans
             /\ ex'.strips = ex.strips /\ ex'.errors = ex.errors /\ ex' \in Extractions
             /\ ex'.i = ex.i /\ ex'.k = ex.k + 1 /\ ex'.pc = "extract"
             /\ Standing' /\ Stages' = Stages /\ FailedExtractionLeavesNothing'
  <2>1. /\ ex'.batch = ex.batch /\ ex'.committed = ex.committed /\ ex'.plans = ex.plans
        /\ ex'.strips = ex.strips /\ ex'.errors = ex.errors /\ ex' \in Extractions
        /\ ex'.i = ex.i /\ ex'.k = ex.k + 1 /\ ex'.pc = "extract"
    <3>1. ex.k + 1 \in Nat
      BY <1>1 DEF Extractions
    <3> QED BY <1>1, <1>5, <3>1 DEF Extractions
  <2>2. Standing'
    <3>1. ex.k + 1 \in 1..(Len(ex.plans[ex.i]) + 1)
      <4>1. ex.plans[ex.i] \in Seq(PlannedEntries)
        BY <1>1, <1>2 DEF Extractions
      <4> QED BY <1>2, <4>1
    <3> QED BY <1>1, <2>1, <3>1 DEF Standing
  <2>3. FailedExtractionLeavesNothing'
    BY <2>1 DEF FailedExtractionLeavesNothing, ExAt
  <2> QED BY <2>1, <2>2, <2>3 DEF Stages
<1>6. CASE ex' = [ex EXCEPT !.k = @ + 1] /\ dest' = dest
  <2>1. Staged'
    BY <1>1, <1>5, <1>6 DEF Staged, Taken
  <2>2. Traced'
    BY <1>1, <1>5, <1>6 DEF Traced, Reached
  <2> QED BY <1>1, <1>5, <1>6, <2>1, <2>2, DestinationStays
<1>7. CASE /\ ex' = [ex EXCEPT !.k = @ + 1] /\ Fits(dest[s], path, entry.kind)
           /\ dest' = [dest EXCEPT ![s] = Written(@, path, entry.kind)]
  <2>1. s \in DOMAIN dest /\ dest[s].owner = <<"archive", ex.i>> /\ dest[s] \in Outputs
    BY <1>1, <1>2 DEF Staged, Taken, ExtractionTypes
  <2> DEFINE new == Written(dest[s], path, entry.kind)
  <2>2. DOMAIN dest' = DOMAIN dest /\ dest'[s] = new /\ \A p \in DOMAIN dest \ {s} : dest'[p] = dest[p]
    BY <1>7, <2>1
  <2>3. path \in Seq(Parts)
    <3>1. ex.plans[ex.i] \in Seq(PlannedEntries) /\ ex.strips[ex.i] \in Seq(Parts)
      BY <1>1, <1>2 DEF Extractions
    <3>2. entry \in PlannedEntries
      BY <1>2, <3>1
    <3>3. entry.path \in Seq(Parts) /\ entry.path # << >>
      BY <3>2 DEF PlannedEntries
    <3> HIDE DEF entry
    <3> QED BY <3>3 DEF Stripped
  <2>4. {SubSeq(path, 1, n) : n \in 1..(Len(path) - 1)} \subseteq Seq(Parts)
    <3> HIDE DEF path
    <3> SUFFICES ASSUME NEW n \in 1..(Len(path) - 1) PROVE SubSeq(path, 1, n) \in Seq(Parts)
      OBVIOUS
    <3> QED BY <2>3
  <2>5. new \in Outputs /\ new.owner = <<"archive", ex.i>>
    <3> HIDE DEF path, entry
    <3> QED BY <2>1, <2>3, <2>4 DEF Written, Outputs
  <2> HIDE DEF new
  <2>6. ExtractionTypes'
    BY <1>1, <1>5, <1>7, <2>2, <2>5 DEF ExtractionTypes, Outputs, Visitors
  <2>7. Staged'
    BY ZenonT(60), <1>1, <1>5, <1>7, <2>1, <2>2, <2>5 DEF Staged, Taken
  <2>8. Apart'
    BY <1>1, <1>5, <1>7, <2>1, <2>2, <2>5 DEF Apart, Kept, Visitors
  <2>9. Traced'
    <3>1. s \in Stages
      <4>1. ex.i \in DOMAIN ex.batch
        BY <1>1, <1>2 DEF Extractions
      <4> QED BY <4>1 DEF Stages
    <3>2. Reached' = Stages /\ Reached = Stages
      BY <1>1, <1>5, <1>7 DEF Reached
    <3>3. ex'.errors = ex.errors /\ ex.pc # "ended"
      BY <1>1, <1>5, <1>7
    <3> HIDE DEF s
    <3> QED BY <1>1, <2>2, <3>1, <3>2, <3>3 DEF Traced
  <2>10. EntriesOfOthersStay'
    BY <1>1, <2>1, <2>2, <2>5 DEF EntriesOfOthersStay, Kept
  <2> QED BY <1>5, <1>7, <2>6, <2>7, <2>8, <2>9, <2>10 DEF ExInv
<1> QED BY <1>3, <1>4, <1>6, <1>7

LEMMA EntriesEndStep ==
  ASSUME ExInv, EntriesEnd
  PROVE  ExInv'
<1>1. /\ ex \in Extractions /\ ex.pc = "extract"
      /\ UNCHANGED <<dest, exCancelled, visits, theirs, seized, left>>
      /\ Standing /\ Staged /\ Traced /\ ex' = [ex EXCEPT !.pc = "stage", !.i = @ + 1]
  BY DEF ExInv, ExtractionTypes, EntriesEnd, ExAt, exEnv
<1>2. /\ ex'.batch = ex.batch /\ ex'.committed = ex.committed /\ ex'.plans = ex.plans
      /\ ex'.strips = ex.strips /\ ex'.errors = ex.errors /\ ex' \in Extractions
      /\ ex'.i = ex.i + 1 /\ ex'.pc = "stage"
  <2>1. "stage" \in Phases /\ ex.i + 1 \in Nat \ {0}
    BY <1>1 DEF Phases, Extractions
  <2> QED BY <1>1, <2>1 DEF Extractions
<1>3. Standing'
  <2>1. ex.i \in Nat /\ Len(ex.batch) \in Nat /\ ex.i <= Len(ex.batch)
    BY <1>1 DEF Standing, Extractions
  <2>2. ex.i + 1 <= Len(ex.batch) + 1
    BY <2>1
  <2> QED BY <1>1, <1>2, <2>2 DEF Standing
<1>4. Staged'
  BY <1>1, <1>2 DEF Staged, Taken, Extractions
<1>5. Traced'
  BY <1>1, <1>2 DEF Traced, Reached, Stages
<1>6. FailedExtractionLeavesNothing'
  BY <1>2 DEF FailedExtractionLeavesNothing, ExAt
<1> QED BY <1>1, <1>2, <1>3, <1>4, <1>5, <1>6, DestinationStays

\* What an entry is, and whose, goes with it when it is renamed.
LEMMA Renames ==
  ASSUME NEW p \in DOMAIN dest, NEW q, q \notin DOMAIN dest \ {p}, dest' = Renamed(p, q)
  PROVE  /\ DOMAIN dest' = (DOMAIN dest \ {p}) \cup {q}
         /\ dest'[q] = dest[p]
         /\ \A r \in DOMAIN dest \ {p} : r # q /\ dest'[r] = dest[r]
BY DEF Renamed

LEMMA CommitKeepBothStep ==
  ASSUME ExInv, CommitKeepBoth
  PROVE  ExInv'
<1> DEFINE final == Named(ex.batch[ex.i].output, ex.k)
           s == Stage(ex.i)
<1>1. /\ ex \in Extractions /\ ex.pc = "commit"
      /\ UNCHANGED <<exCancelled, visits, theirs, seized, left>>
      /\ ExtractionTypes /\ Standing /\ Staged /\ Apart /\ Traced /\ EntriesOfOthersStay
  BY DEF ExInv, ExtractionTypes, CommitKeepBoth, ExAt, exEnv
<1>2. /\ ex.i \in 1..Len(ex.batch) /\ ex.i \in DOMAIN ex.batch /\ ex.i \in Nat /\ ex.k \in Nat
      /\ Len(ex.batch) \in Nat
  <2>1. ex.i <= Len(ex.batch)
    BY DEF CommitKeepBoth, More
  <2> QED BY <1>1, <2>1 DEF Extractions
<1>3. \/ exCancelled /\ ex' = Abort("cancelled") /\ dest' = dest
      \/ ex' = [ex EXCEPT !.k = @ + 1] /\ dest' = dest
      \/ /\ ~Taken(final) /\ dest' = Renamed(s, final)
         /\ ex' = [ex EXCEPT !.committed = Append(@, final), !.i = @ + 1, !.k = 0]
  BY Zenon DEF CommitKeepBoth
<1>4. CASE ex' = Abort("cancelled") /\ dest' = dest
  BY <1>1, <1>4, Aborts
<1>5. CASE ex' = [ex EXCEPT !.k = @ + 1] /\ dest' = dest
  <2>1. ex.k + 1 \in Nat
    BY <1>2
  <2>2. /\ ex'.batch = ex.batch /\ ex'.committed = ex.committed /\ ex'.plans = ex.plans
        /\ ex'.strips = ex.strips /\ ex'.errors = ex.errors /\ ex' \in Extractions
        /\ ex'.i = ex.i /\ ex'.pc = "commit"
    BY <1>1, <1>5, <2>1 DEF Extractions
  <2>3. Standing'
    BY <1>1, <2>2 DEF Standing
  <2>4. Staged'
    BY <1>1, <1>5, <2>2 DEF Staged, Taken
  <2>5. Traced'
    BY <1>1, <1>5, <2>2 DEF Traced, Reached, Stages
  <2>6. FailedExtractionLeavesNothing'
    BY <2>2 DEF FailedExtractionLeavesNothing, ExAt
  <2> QED BY <1>1, <1>5, <2>2, <2>3, <2>4, <2>5, <2>6, DestinationStays
<1>6. CASE /\ ~Taken(final) /\ dest' = Renamed(s, final)
           /\ ex' = [ex EXCEPT !.committed = Append(@, final), !.i = @ + 1, !.k = 0]
  <2>1. s \in DOMAIN dest /\ dest[s].owner = <<"archive", ex.i>>
    BY <1>1, <1>2 DEF Staged, Taken
  <2>2. final \in Finals
    <3>1. ex.batch[ex.i] \in Archives
      BY <1>1, <1>2 DEF Extractions
    <3> QED BY <1>2, <3>1 DEF Archives, Finals
  <2>3. /\ DOMAIN dest' = (DOMAIN dest \ {s}) \cup {final} /\ dest'[final] = dest[s]
        /\ \A r \in DOMAIN dest \ {s} : r # final /\ dest'[r] = dest[r]
    <3>1. final \notin DOMAIN dest
      BY <1>6 DEF Taken
    <3> HIDE DEF final, s
    <3> QED BY <1>6, <2>1, <3>1, Renames
  <2>4. /\ ex'.batch = ex.batch /\ ex'.committed = Append(ex.committed, final)
        /\ ex'.plans = ex.plans /\ ex'.strips = ex.strips /\ ex'.errors = ex.errors
        /\ ex' \in Extractions /\ ex'.i = ex.i + 1 /\ ex'.pc = "commit"
    <3>1. Append(ex.committed, final) \in Seq(Finals) /\ ex.i + 1 \in Nat \ {0} /\ 0 \in Nat
      BY <1>1, <1>2, <2>2 DEF Extractions
    <3> QED BY <1>1, <1>6, <3>1 DEF Extractions
  <2>5. ex.committed \in Seq(Finals) /\ Len(ex.committed) = ex.i - 1
    BY <1>1 DEF Extractions, Standing
  <2>6. ToSet(ex'.committed) = ToSet(ex.committed) \cup {final} /\ Len(ex'.committed) = ex.i
    <3>1. ToSet(Append(ex.committed, final)) = ToSet(ex.committed) \cup {final}
      <4> DEFINE c == ex.committed
      <4>1. c \in Seq(Finals)
        BY <2>5
      <4> HIDE DEF c, final
      <4>2. /\ Len(Append(c, final)) = Len(c) + 1 /\ Append(c, final) \in Seq(Finals)
            /\ \A n \in 1..Len(c) : Append(c, final)[n] = c[n]
            /\ Append(c, final)[Len(c) + 1] = final
        BY <2>2, <4>1
      <4>3. ToSet(c) = {c[n] : n \in 1..Len(c)}
            /\ ToSet(Append(c, final)) = {Append(c, final)[n] : n \in 1..(Len(c) + 1)}
        BY <4>1, <4>2 DEF ToSet
      <4>4. Len(c) \in Nat /\ 1..(Len(c) + 1) = 1..Len(c) \cup {Len(c) + 1}
        BY <4>1
      <4> QED BY <4>2, <4>3, <4>4 DEF c
    <3> QED BY <1>2, <2>2, <2>4, <2>5, <3>1
  <2>7. Stages' = Stages /\ s \in Stages /\ final \notin Stages
    BY <1>2, <2>2, <2>4, StagingNames DEF Stages
  <2>8. dest[s].owner \notin Kept
    <3>1. dest[s].owner \in ArchiveOwners
      BY <1>2, <2>1 DEF ArchiveOwners
    <3> QED BY <1>1, <3>1, OutputsAreOurs
  <2> HIDE DEF final
  <2>9. ExtractionTypes'
    <3>1. dest[s] \in Outputs /\ Outputs' = Outputs
      BY <1>1, <2>1 DEF ExtractionTypes, Outputs, Visitors
    <3> QED BY <1>1, <2>3, <2>4, <3>1 DEF ExtractionTypes
  <2>10. Standing'
    BY <1>1, <1>2, <2>4, <2>6 DEF Standing
  <2>11. Staged'
    <3> SUFFICES ASSUME NEW j \in DOMAIN ex.batch, j >= ex.i + 1
                 PROVE  Stage(j) \in DOMAIN dest' /\ dest'[Stage(j)].owner = <<"archive", j>>
      BY <2>4 DEF Staged, Taken
    <3>1. j \in Nat /\ j >= ex.i /\ j # ex.i
      BY <1>1, <1>2 DEF Extractions
    <3>2. Stage(j) # s /\ Stage(j) \in DOMAIN dest /\ dest[Stage(j)].owner = <<"archive", j>>
      BY <1>1, <1>2, <3>1, StagingNames DEF Staged, Taken
    <3> QED BY <2>3, <3>2
  <2>12. Apart'
    <3>1. Kept' \subseteq (OldOwners \cup Visitors(visits))'
      BY <1>1 DEF Apart, Kept, Visitors
    <3>2. ASSUME NEW p \in DOMAIN dest', dest'[p].owner \in Kept
          PROVE  p \notin Stages
      BY <1>1, <2>3, <2>6, <2>8, <3>2 DEF Apart, Kept
    <3> QED BY <1>1, <2>7, <3>1, <3>2 DEF Apart, Kept
  <2>13. Traced'
    <3>1. Reached = Stages \cup ToSet(ex.committed) /\ Reached' = Stages \cup ToSet(ex.committed) \cup {final}
      BY <1>1, <2>4, <2>6, <2>7 DEF Reached
    <3> QED BY <1>1, <2>1, <2>3, <2>4, <3>1 DEF Traced
  <2>14. EntriesOfOthersStay'
    <3> SUFFICES ASSUME NEW owner \in Kept PROVE \E p \in DOMAIN dest' : dest'[p].owner = owner
      BY <1>1 DEF EntriesOfOthersStay, Kept
    <3>1. PICK p \in DOMAIN dest : dest[p].owner = owner
      BY <1>1 DEF EntriesOfOthersStay, Kept
    <3>2. p # s
      BY <2>8, <3>1
    <3> QED BY <2>3, <3>1, <3>2
  <2>15. FailedExtractionLeavesNothing'
    BY <2>4 DEF FailedExtractionLeavesNothing, ExAt
  <2> QED BY <2>9, <2>10, <2>11, <2>12, <2>13, <2>14, <2>15 DEF ExInv
<1> QED BY <1>3, <1>4, <1>5, <1>6

LEMMA RollBackOneStep ==
  ASSUME ExInv, RollBackOne
  PROVE  ExInv'
<1> DEFINE from == ex.committed[ex.k]
           s == Stage(ex.k)
<1>1. /\ ex \in Extractions /\ ex.pc = "rollback"
      /\ UNCHANGED <<exCancelled, visits, theirs, left>>
      /\ ExtractionTypes /\ Standing /\ Staged /\ Apart /\ Traced /\ EntriesOfOthersStay
  BY DEF ExInv, ExtractionTypes, RollBackOne, ExAt, exEnv
<1>2. ex.k \in Nat /\ ex.committed \in Seq(Finals) /\ ex.k <= Len(ex.committed)
      /\ Len(ex.committed) <= Len(ex.batch) /\ ex.batch \in Seq(Archives)
      /\ Len(ex.batch) \in Nat /\ Len(ex.committed) \in Nat
  BY <1>1 DEF Extractions, Standing
<1>3. \/ ex.k = 0 /\ ex' = [ex EXCEPT !.pc = "cleanup"] /\ UNCHANGED <<dest, seized>>
      \/ /\ ex.k # 0 /\ Taken(from) /\ dest' = Renamed(from, s)
         /\ ex' = [ex EXCEPT !.k = @ - 1] /\ seized' = seized \cup {dest[from].owner}
      \/ /\ ex.k # 0 /\ ex' = [ex EXCEPT !.k = @ - 1, !.errors = @ \cup {ex.k}]
         /\ UNCHANGED <<dest, seized>>
  BY Zenon DEF RollBackOne
<1>4. CASE ex.k = 0 /\ ex' = [ex EXCEPT !.pc = "cleanup"] /\ UNCHANGED <<dest, seized>>
  <2>1. /\ ex'.batch = ex.batch /\ ex'.committed = ex.committed /\ ex'.errors = ex.errors
        /\ ex' \in Extractions /\ ex'.pc = "cleanup" /\ ex'.cause = ex.cause
    <3>1. "cleanup" \in Phases
      BY DEF Phases
    <3> QED BY <1>1, <1>4, <3>1 DEF Extractions
  <2>2. Standing'
    BY <1>1, <2>1 DEF Standing
  <2>3. Staged' /\ FailedExtractionLeavesNothing'
    BY <2>1 DEF Staged, FailedExtractionLeavesNothing, ExAt
  <2>4. Traced'
    BY <1>1, <1>4, <2>1 DEF Traced, Reached, Stages
  <2> QED BY <1>1, <1>4, <2>1, <2>2, <2>3, <2>4, DestinationStays
<1>5. CASE /\ ex.k # 0 /\ ex' = [ex EXCEPT !.k = @ - 1, !.errors = @ \cup {ex.k}]
           /\ UNCHANGED <<dest, seized>>
  <2>1. /\ ex'.batch = ex.batch /\ ex'.committed = ex.committed /\ ex'.errors = ex.errors \cup {ex.k}
        /\ ex' \in Extractions /\ ex'.pc = "rollback" /\ ex'.k = ex.k - 1 /\ ex'.cause = ex.cause
    <3>1. ex.k - 1 \in Nat /\ ex.errors \cup {ex.k} \in SUBSET Nat
      BY <1>1, <1>2, <1>5 DEF Extractions
    <3> QED BY <1>1, <1>5, <3>1 DEF Extractions
  <2>2. Standing'
    BY <1>1, <1>2, <2>1 DEF Standing
  <2>3. Staged' /\ FailedExtractionLeavesNothing'
    BY <2>1 DEF Staged, FailedExtractionLeavesNothing, ExAt
  <2>4. Traced'
    BY <2>1 DEF Traced
  <2> QED BY <1>1, <1>5, <2>1, <2>2, <2>3, <2>4, DestinationStays
<1>6. CASE /\ ex.k # 0 /\ Taken(from) /\ dest' = Renamed(from, s)
           /\ ex' = [ex EXCEPT !.k = @ - 1] /\ seized' = seized \cup {dest[from].owner}
  <2>1. /\ ex'.batch = ex.batch /\ ex'.committed = ex.committed /\ ex'.errors = ex.errors
        /\ ex' \in Extractions /\ ex'.pc = "rollback" /\ ex'.k = ex.k - 1 /\ ex'.cause = ex.cause
    <3>1. ex.k - 1 \in Nat
      BY <1>2, <1>6
    <3> QED BY <1>1, <1>6, <3>1 DEF Extractions
  <2>2. from \in ToSet(ex.committed) /\ from \in Finals /\ s \in Stages /\ Stages' = Stages
    <3>1. ex.k \in 1..Len(ex.committed) /\ ex.k \in 1..Len(ex.batch)
      BY <1>2, <1>6
    <3>2. ex.k \in DOMAIN ex.committed /\ ex.k \in DOMAIN ex.batch
      BY <1>2, <3>1
    <3> QED BY <1>2, <2>1, <3>2 DEF ToSet, Stages
  <2>3. /\ DOMAIN dest' = (DOMAIN dest \ {from}) \cup {s} /\ dest'[s] = dest[from]
        /\ \A r \in DOMAIN dest \ {from, s} : dest'[r] = dest[r]
    BY <1>6 DEF Renamed, Taken
  <2>4. from \in DOMAIN dest
    BY <1>6 DEF Taken
  <2>5. Kept' = Kept \ {dest[from].owner} /\ (s \in DOMAIN dest => dest[s].owner \notin Kept)
    BY <1>1, <1>6, <2>2 DEF Apart, Kept
  <2>6. ExtractionTypes'
    <3>1. dest[from] \in Outputs /\ Outputs' = Outputs
      BY <1>1, <2>4 DEF ExtractionTypes, Outputs, Visitors
    <3> HIDE DEF from, s
    <3> QED BY <1>1, <2>1, <2>3, <3>1 DEF ExtractionTypes
  <2>7. Standing'
    BY <1>1, <1>2, <2>1 DEF Standing
  <2>8. Staged' /\ FailedExtractionLeavesNothing'
    BY <2>1 DEF Staged, FailedExtractionLeavesNothing, ExAt
  <2>9. Apart'
    <3>1. Kept' \subseteq (OldOwners \cup Visitors(visits))'
      BY <1>1, <2>5 DEF Apart, Visitors
    <3>2. ASSUME NEW p \in DOMAIN dest', dest'[p].owner \in Kept'
          PROVE  p \notin Stages
      <4> HIDE DEF from, s
      <4> QED BY <1>1, <2>3, <2>5, <3>2 DEF Apart
    <3> QED BY <2>2, <3>1, <3>2 DEF Apart
  <2>10. Traced'
    <3>1. Reached = Stages \cup {ex.committed[j] : j \in 1..ex.k}
      BY <1>1 DEF Reached
    <3>2. Reached' = Stages \cup {ex.committed[j] : j \in 1..(ex.k - 1)}
      BY <2>1, <2>2 DEF Reached
    <3>3. 1..ex.k = 1..(ex.k - 1) \cup {ex.k}
      BY <1>2, <1>6
    <3>4. Reached \subseteq Reached' \cup {from}
      BY <3>1, <3>2, <3>3
    <3>5. ASSUME NEW p \in DOMAIN dest', dest'[p].owner[1] = "archive", ex.errors = {}
          PROVE  p \in Reached'
      <4>1. CASE p = s
        BY <4>1, <2>2, <3>2
      <4>2. CASE p # s
        <5>1. p \in DOMAIN dest \ {from, s}
          BY <2>3, <2>2, <4>2, StagingNames
        <5>2. p \in Reached
          BY <1>1, <2>3, <3>5, <5>1 DEF Traced
        <5> QED BY <3>4, <5>1, <5>2
      <4> QED BY <4>1, <4>2
    <3> QED BY <2>1, <3>5 DEF Traced
  <2>11. EntriesOfOthersStay'
    <3> SUFFICES ASSUME NEW owner \in Kept, owner # dest[from].owner
                 PROVE  \E p \in DOMAIN dest' : dest'[p].owner = owner
      BY <2>5 DEF EntriesOfOthersStay, Kept
    <3>1. PICK p \in DOMAIN dest : dest[p].owner = owner
      BY <1>1 DEF EntriesOfOthersStay, Kept
    <3>2. p # s /\ p # from
      BY <2>5, <3>1
    <3> QED BY <2>3, <3>1, <3>2
  <2> QED BY <2>6, <2>7, <2>8, <2>9, <2>10, <2>11 DEF ExInv
<1> QED BY <1>3, <1>4, <1>5, <1>6

LEMMA CleanUpStagedStep ==
  ASSUME ExInv, CleanUpStaged
  PROVE  ExInv'
<1> DEFINE r == IF ex.errors = {} THEN ex.cause ELSE "rollback failed"
<1>1. /\ ex \in Extractions /\ ex.pc = "cleanup"
      /\ UNCHANGED <<exCancelled, visits, theirs, seized>>
      /\ ExtractionTypes /\ Standing /\ Apart /\ Traced /\ EntriesOfOthersStay
      /\ ex' = [ex EXCEPT !.pc = "ended", !.result = r]
      /\ dest' = [p \in DOMAIN dest \ (Stages \ left') |-> dest[p]]
  BY DEF ExInv, ExtractionTypes, CleanUpStaged, ExAt, exEnv, Ends
<1>2. r \in Results /\ "ended" \in Phases
  BY <1>1 DEF Results, Phases, Extractions
<1>3. /\ ex'.batch = ex.batch /\ ex'.committed = ex.committed
      /\ ex' \in Extractions /\ ex'.pc = "ended" /\ ex'.result = r
  <2> HIDE DEF r
  <2> QED BY <1>1, <1>2 DEF Extractions
<1>4. /\ DOMAIN dest' = DOMAIN dest \ (Stages \ left')
      /\ \A p \in DOMAIN dest \ (Stages \ left') : dest'[p] = dest[p]
  BY <1>1
<1>5. ExtractionTypes'
  BY <1>1, <1>3, <1>4 DEF ExtractionTypes, Outputs, Visitors
<1>6. Standing' /\ Staged' /\ Traced'
  BY <1>3 DEF Standing, Staged, Traced
<1>7. Apart'
  <2>1. Stages' = Stages /\ ToSet(ex'.committed) = ToSet(ex.committed)
    BY <1>3 DEF Stages
  <2>2. Kept' \subseteq (OldOwners \cup Visitors(visits))'
    BY <1>1 DEF Apart, Kept, Visitors
  <2> QED BY <1>1, <1>4, <2>1, <2>2 DEF Apart, Kept
<1>8. EntriesOfOthersStay'
  <2> SUFFICES ASSUME NEW owner \in Kept PROVE \E p \in DOMAIN dest' : dest'[p].owner = owner
    BY <1>1 DEF EntriesOfOthersStay, Kept
  <2>1. PICK p \in DOMAIN dest : dest[p].owner = owner
    BY <1>1 DEF EntriesOfOthersStay, Kept
  <2>2. p \notin Stages
    BY <1>1, <2>1 DEF Apart, Kept
  <2> QED BY <1>4, <2>1, <2>2
<1>9. FailedExtractionLeavesNothing'
  <2>1. ex.errors = {} => \A p \in DOMAIN dest' :
                             dest'[p].owner[1] = "archive" => p \in Stages \cap left'
    BY <1>1, <1>4 DEF Traced, Reached
  <2>2. ex.errors # {} => ex'.result = "rollback failed"
    BY <1>3
  <2>3. Stages' = Stages
    BY <1>3 DEF Stages
  <2> QED BY <2>1, <2>2, <2>3 DEF FailedExtractionLeavesNothing
<1> QED BY <1>5, <1>6, <1>7, <1>8, <1>9 DEF ExInv

LEMMA ExtractionBreaksStep ==
  ASSUME ExInv, ExtractionBreaks
  PROVE  ExInv'
<1>1. /\ ex \in Extractions /\ UNCHANGED <<dest, exCancelled, visits, theirs, seized, left>>
      /\ ExtractionTypes /\ Standing /\ Apart /\ Traced
  BY DEF ExInv, ExtractionTypes, ExtractionBreaks
<1>2. \/ ex.pc = "preflight" /\ ex' = [ex EXCEPT !.pc = "ended", !.result = "refused"]
      \/ ex.pc \in {"extract", "commit"} /\ ex' = Abort("failed")
      \/ /\ ex.pc = "rollback" /\ ex.k > 0
         /\ ex' = [ex EXCEPT !.k = @ - 1, !.errors = @ \cup {ex.k}]
  BY Zenon DEF ExtractionBreaks, ExAt, Ends
<1>3. CASE ex.pc = "preflight" /\ ex' = [ex EXCEPT !.pc = "ended", !.result = "refused"]
  <2>1. "ended" \in Phases /\ "refused" \in Results
    BY DEF Phases, Results
  <2>2. /\ ex'.pc = "ended" /\ ex'.batch = ex.batch /\ ex'.committed = ex.committed
        /\ ex' \in Extractions
    BY <1>1, <1>3, <2>1 DEF Extractions
  <2>3. Standing' /\ Staged' /\ Traced'
    BY <2>2 DEF Standing, Staged, Traced
  <2>4. \A p \in DOMAIN dest : dest[p].owner[1] # "archive"
    BY <1>1, <1>3 DEF Traced, Reached, Standing
  <2>5. FailedExtractionLeavesNothing'
    BY <1>1, <2>4 DEF FailedExtractionLeavesNothing
  <2> QED BY <1>1, <2>2, <2>3, <2>5, DestinationStays
<1>4. CASE ex.pc \in {"extract", "commit"} /\ ex' = Abort("failed")
  BY <1>1, <1>4, Aborts
<1>5. CASE /\ ex.pc = "rollback" /\ ex.k > 0
           /\ ex' = [ex EXCEPT !.k = @ - 1, !.errors = @ \cup {ex.k}]
  <2>1. /\ ex'.batch = ex.batch /\ ex'.committed = ex.committed /\ ex'.errors = ex.errors \cup {ex.k}
        /\ ex' \in Extractions /\ ex'.pc = "rollback" /\ ex'.k = ex.k - 1 /\ ex'.cause = ex.cause
    <3>1. ex.k - 1 \in Nat /\ ex.errors \cup {ex.k} \in SUBSET Nat
      BY <1>1, <1>5 DEF Extractions
    <3> QED BY <1>1, <1>5, <3>1 DEF Extractions
  <2>2. Standing'
    <3>1. ex.k \in Nat /\ Len(ex.committed) \in Nat
      BY <1>1 DEF Extractions
    <3> QED BY <1>1, <1>5, <2>1, <3>1 DEF Standing
  <2>3. Staged' /\ FailedExtractionLeavesNothing'
    BY <2>1 DEF Staged, FailedExtractionLeavesNothing, ExAt
  <2>4. Traced'
    BY <2>1 DEF Traced
  <2> QED BY <1>1, <2>1, <2>2, <2>3, <2>4, DestinationStays
<1> QED BY <1>2, <1>3, <1>4, <1>5

LEMMA CancelExtractionStep ==
  ASSUME ExInv, CancelExtraction
  PROVE  ExInv'
<1>1. exCancelled' = TRUE /\ UNCHANGED <<dest, ex, visits, theirs, seized, left>>
  BY DEF CancelExtraction
<1> QED BY <1>1 DEF ExInv, ExtractionTypes, Standing, Staged, Apart, Kept, Traced, Outputs, Visitors,
           Taken, Stages, Reached, EntriesOfOthersStay, FailedExtractionLeavesNothing, ExAt

\* What the other process works on is no staging entry.
LEMMA VisiblePlaces ==
  ASSUME ex \in Extractions, NEW p \in Visible
  PROVE  p \notin Stages
<1>1. PICK i \in DOMAIN ex.batch, n \in 0..1 : p = Named(ex.batch[i].output, n)
  BY DEF Visible
<1>2. ex.batch[i] \in Archives
  BY <1>1 DEF Extractions
<1>3. p[1] # "gnil-extract"
  BY <1>1, <1>2 DEF Archives, Named
<1> QED BY <1>3, StagingNames DEF Stages

LEMMA VisitorCreatesStep ==
  ASSUME ExInv, NEW p \in Visible, VisitorCreates(p)
  PROVE  ExInv'
<1> DEFINE o == <<"visitor", Named("visit", visits)>>
           new == [owner |-> o, files |-> {}, dirs |-> {}]
<1>1. /\ ex \in Extractions /\ UNCHANGED <<ex, exCancelled, seized, left>> /\ visits' = visits + 1
      /\ visits \in Nat /\ exCancelled \in BOOLEAN
      /\ ExtractionTypes /\ Standing /\ Staged /\ Apart /\ Traced /\ EntriesOfOthersStay
  BY DEF ExInv, ExtractionTypes, VisitorCreates, Visit
<1>2. /\ DOMAIN dest' = DOMAIN dest \cup {p} /\ dest'[p] = new
      /\ \A q \in DOMAIN dest : q # p /\ dest'[q] = dest[q]
      /\ Kept' \subseteq Kept \cup {o}
  BY <1>1 DEF VisitorCreates, Taken, Kept
<1>3. p \notin Stages
  BY <1>1, VisiblePlaces
<1>4. o \notin OldOwners \cup Visitors(visits) \cup ArchiveOwners
      /\ o \in Visitors(visits + 1) /\ Visitors(visits) \subseteq Visitors(visits + 1)
      /\ o[1] # "archive"
  <2>1. o[1] = "visitor" /\ o[2] = Named("visit", visits) /\ o[2][2] = visits
    BY DEF Named
  <2>2. o \notin OldOwners \cup ArchiveOwners
    BY DEF OldOwners, ArchiveOwners
  <2>3. \A v \in Visitors(visits) : v[2][2] # visits
    BY <1>1 DEF Visitors, Named
  <2>4. o \in Visitors(visits + 1) /\ Visitors(visits) \subseteq Visitors(visits + 1)
    <3>1. 0..(visits - 1) \subseteq 0..(visits + 1 - 1) /\ visits \in 0..(visits + 1 - 1)
      BY <1>1
    <3> HIDE DEF o
    <3>2. o = <<"visitor", Named("visit", visits)>>
      BY DEF o
    <3> QED BY <3>1, <3>2 DEF Visitors
  <2> HIDE DEF o
  <2> QED BY <2>1, <2>2, <2>3, <2>4
<1>5. Outputs \subseteq Outputs' /\ new \in Outputs'
  <2> HIDE DEF o
  <2> QED BY <1>1, <1>4 DEF Outputs
<1>6. \A q \in DOMAIN dest : dest[q].owner # o
  <2> HIDE DEF o
  <2> QED BY <1>1, <1>4 DEF ExtractionTypes, Outputs
<1>7. new.owner = o
  OBVIOUS
<1> HIDE DEF o, new
<1>8. ExtractionTypes'
  BY <1>1, <1>2, <1>5 DEF ExtractionTypes
<1>9. Standing' /\ FailedExtractionLeavesNothing'
  <2>1. ex.pc = "ended" /\ ex.result \in {"refused", "failed", "cancelled"}
           => \A q \in DOMAIN dest' : dest'[q].owner[1] = "archive" => q \in Stages \cap left
    BY <1>2, <1>4, <1>7 DEF ExInv, FailedExtractionLeavesNothing, ExAt
  <2> QED BY <1>1, <2>1 DEF Standing, Stages, FailedExtractionLeavesNothing, ExAt
<1>10. Staged'
  BY <1>1, <1>2 DEF Staged, Taken
<1>11. Apart'
  <2>1. Kept' \subseteq (OldOwners \cup Visitors(visits))'
    BY <1>1, <1>2, <1>4 DEF Apart, Kept
  <2>2. ASSUME NEW q \in DOMAIN dest', dest'[q].owner \in Kept'
        PROVE  q \notin Stages
    <3>1. CASE q = p
      <4>1. o \notin Kept
        BY <1>1, <1>4 DEF Apart, Kept
      <4> QED BY <1>2, <1>3, <1>7, <2>2, <3>1, <4>1
    <3>2. CASE q # p
      <4>1. q \in DOMAIN dest /\ dest[q].owner \in Kept
        BY <1>2, <1>6, <2>2, <3>2
      <4> QED BY <1>1, <4>1 DEF Apart, Kept
    <3> QED BY <3>1, <3>2
  <2>3. Stages' = Stages
    BY <1>1 DEF Stages
  <2> QED BY <1>1, <2>1, <2>2, <2>3 DEF Apart, Kept
<1>12. Traced'
  <2>1. Reached' = Reached
    BY <1>1 DEF Reached, Stages
  <2> QED BY <1>1, <1>2, <1>4, <1>7, <2>1 DEF Traced
<1>13. EntriesOfOthersStay'
  <2> SUFFICES ASSUME NEW owner \in Kept' PROVE \E q \in DOMAIN dest' : dest'[q].owner = owner
    BY DEF EntriesOfOthersStay, Kept
  <2>1. CASE owner \in Kept
    <3>1. PICK q \in DOMAIN dest : dest[q].owner = owner
      BY <1>1, <2>1 DEF EntriesOfOthersStay, Kept
    <3> QED BY <1>2, <3>1
  <2>2. CASE owner = o
    BY <1>2, <1>7, <2>2
  <2> QED BY <1>2, <2>1, <2>2
<1> QED BY <1>8, <1>9, <1>10, <1>11, <1>12, <1>13 DEF ExInv

LEMMA VisitorRemovesStep ==
  ASSUME ExInv, NEW p \in Visible, VisitorRemoves(p)
  PROVE  ExInv'
<1>1. /\ ex \in Extractions /\ UNCHANGED <<ex, exCancelled, seized, left>> /\ visits' = visits + 1
      /\ visits \in Nat /\ exCancelled \in BOOLEAN /\ p \in DOMAIN dest
      /\ ExtractionTypes /\ Standing /\ Staged /\ Apart /\ Traced /\ EntriesOfOthersStay
      /\ Kept' = Kept \ {dest[p].owner}
  BY DEF ExInv, ExtractionTypes, VisitorRemoves, Visit, Taken, Kept
<1>2. DOMAIN dest' = DOMAIN dest \ {p} /\ \A q \in DOMAIN dest \ {p} : dest'[q] = dest[q]
  BY DEF VisitorRemoves
<1>3. p \notin Stages /\ Stages' = Stages
  BY <1>1, VisiblePlaces DEF Stages
<1>4. Visitors(visits) \subseteq Visitors(visits)'
  <2>1. 0..(visits - 1) \subseteq 0..(visits + 1 - 1)
    BY <1>1
  <2> QED BY <1>1, <2>1 DEF Visitors
<1>5. ExtractionTypes'
  <2>1. Outputs \subseteq Outputs'
    BY <1>4 DEF Outputs
  <2> QED BY <1>1, <1>2, <2>1 DEF ExtractionTypes
<1>6. Standing'
  BY <1>1 DEF Standing
<1>7. Staged'
  <2> SUFFICES ASSUME NEW j \in DOMAIN ex.batch,
                      \/ ex.pc = "stage" /\ j < ex.i
                      \/ ex.pc = "extract" /\ j <= ex.i
                      \/ ex.pc = "commit" /\ j >= ex.i
               PROVE  Stage(j) \in DOMAIN dest' /\ dest'[Stage(j)].owner = <<"archive", j>>
    BY <1>1 DEF Staged, Taken
  <2>1. Stage(j) \in DOMAIN dest /\ dest[Stage(j)].owner = <<"archive", j>>
    BY <1>1 DEF Staged, Taken
  <2>2. Stage(j) # p
    BY <1>3 DEF Stages
  <2> QED BY <1>2, <2>1, <2>2
<1>8. Apart'
  <2>1. Kept' \subseteq (OldOwners \cup Visitors(visits))'
    BY <1>1, <1>4 DEF Apart, Kept
  <2> QED BY <1>1, <1>2, <1>3, <2>1 DEF Apart, Kept
<1>9. Traced'
  <2>1. Reached' = Reached
    BY <1>1 DEF Reached, Stages
  <2> QED BY <1>1, <1>2, <2>1 DEF Traced
<1>10. EntriesOfOthersStay'
  <2> SUFFICES ASSUME NEW owner \in Kept, owner # dest[p].owner
               PROVE  \E q \in DOMAIN dest' : dest'[q].owner = owner
    BY <1>1 DEF EntriesOfOthersStay, Kept
  <2>1. PICK q \in DOMAIN dest : dest[q].owner = owner
    BY <1>1 DEF EntriesOfOthersStay, Kept
  <2> QED BY <1>2, <2>1
<1>11. FailedExtractionLeavesNothing'
  <2>1. FailedExtractionLeavesNothing
    BY DEF ExInv
  <2> QED BY <1>1, <1>2, <1>3, <2>1 DEF FailedExtractionLeavesNothing, ExAt
<1> QED BY <1>5, <1>6, <1>7, <1>8, <1>9, <1>10, <1>11 DEF ExInv

LEMMA ExtractionStays ==
  ASSUME ExInv, UNCHANGED exVars
  PROVE  ExInv'
<1>1. UNCHANGED <<dest, ex, exCancelled, visits, theirs, seized, left>>
  BY DEF exVars, exEnv
<1> QED BY <1>1 DEF ExInv, ExtractionTypes, Standing, Staged, Apart, Kept, Traced, Outputs, Visitors,
           Taken, Stages, Reached, EntriesOfOthersStay, FailedExtractionLeavesNothing, ExAt


-----------------------------------------------------------------------------
(* What the output of an archive should hold.                              *)

LEMMA FirstParts ==
  ASSUME NEW path \in Seq(Parts) \ {<< >>}, NEW r
  PROVE  /\ IsPrefix(<<r>>, path) <=> path[1] = r
         /\ IsStrictPrefix(<<r>>, path) <=> path[1] = r /\ Len(path) > 1
         /\ Stripped(path, << >>) = path
         /\ Stripped(path, <<r>>) = IF path[1] = r THEN Tail(path) ELSE path
         /\ path[1] \in Parts /\ Len(path) \in Nat \ {0}
         /\ Tail(path) = << >> <=> path = <<path[1]>>
         /\ path = <<path[1]>> <=> Len(path) = 1
<1>1. Len(path) \in Nat \ {0} /\ path[1] \in Parts
  BY EmptySeq
<1>2. Len(<<r>>) = 1 /\ SubSeq(<<r>>, 1, 1) = <<r>>
  <2> DEFINE s == <<r>>
  <2>1. s \in Seq({r}) /\ Len(s) = 1 /\ s[1] = r
    OBVIOUS
  <2> HIDE DEF s
  <2>2. SubSeq(s, 1, 1) = s
    BY <2>1
  <2> QED BY <2>1, <2>2 DEF s
<1>3. SubSeq(path, 1, 1) = <<path[1]>>
  <2> DEFINE t == SubSeq(path, 1, 1)
  <2>1. t \in Seq(Parts) /\ Len(t) = 1 /\ t[1] = path[1]
    BY <1>1
  <2> HIDE DEF t
  <2>2. t = <<path[1]>>
    BY <2>1
  <2> QED BY <2>2 DEF t
<1>4. IsPrefix(<<r>>, path) <=> path[1] = r
  BY <1>1, <1>2, <1>3 DEF IsPrefix
<1>5. path = <<path[1]>> <=> Len(path) = 1
  BY <1>1
<1>6. Tail(path) = << >> <=> Len(path) = 1
  <2>1. Len(Tail(path)) = Len(path) - 1 /\ Tail(path) \in Seq(Parts)
    BY <1>1, HeadTailProperties
  <2>2. Tail(path) = << >> <=> Len(Tail(path)) = 0
    BY <2>1, EmptySeq
  <2> QED BY <1>1, <2>1, <2>2
<1>7. IsStrictPrefix(<<r>>, path) <=> path[1] = r /\ Len(path) > 1
  <2>1. IsStrictPrefix(<<r>>, path) <=> path[1] = r /\ <<r>> # path
    BY <1>4 DEF IsStrictPrefix
  <2>2. path[1] = r => (<<r>> # path <=> Len(path) # 1)
    BY <1>5
  <2> QED BY <1>1, <2>1, <2>2
<1>8. <<r>> # << >>
  OBVIOUS
<1> QED BY <1>1, <1>4, <1>5, <1>6, <1>7, <1>8 DEF Stripped

\* Paths that stay apart when the root is stripped.
Files(es, root, m) ==
    {Stripped(es[n].path, root) : n \in {n \in 1..m : /\ es[n].kind # "Directory"
                                                   /\ Stripped(es[n].path, root) # << >>}}
KeptApart(es, root, m) ==
    \A n1, n2 \in 1..m :
       /\ es[n1].kind # "Directory" /\ Stripped(es[n1].path, root) # << >>
       /\ es[n2].kind # "Directory" /\ Stripped(es[n2].path, root) # << >>
       /\ Stripped(es[n1].path, root) = Stripped(es[n2].path, root)
       => n1 = n2

\* An archive with one root, or of files alone, is laid out as its users expect.
LEMMA LaidOut ==
  ASSUME NEW es \in Seq(PlannedEntries), NEW root \in StripRoots(es),
         \A n, m \in DOMAIN es : es[n].path = es[m].path => n = m,
         HasLayout(es)
  PROVE  Files(es, root, Len(es)) = Layout(es)
<1>1. \A n \in DOMAIN es : es[n] \in PlannedEntries
  OBVIOUS
<1>2. \A n \in DOMAIN es : es[n].path \in Seq(Parts) \ {<< >>}
  BY <1>1 DEF PlannedEntries
<1>3. DOMAIN es = 1..Len(es) /\ Len(es) \in Nat
  OBVIOUS
<1>4. FilePaths(es) = {es[n].path : n \in {n \in 1..Len(es) : es[n].kind # "Directory"}}
  BY <1>3 DEF FilePaths
<1>5. ASSUME root = << >> PROVE Files(es, root, Len(es)) = FilePaths(es)
  <2>1. \A n \in 1..Len(es) : Stripped(es[n].path, root) = es[n].path /\ es[n].path # << >>
    BY <1>2, <1>3, <1>5, FirstParts
  <2> QED BY <1>4, <2>1 DEF Files
<1>6. CASE \A n \in DOMAIN es : Len(es[n].path) = 1 /\ es[n].kind # "Directory"
  <2>1. root = << >>
    BY <1>2, <1>6, FirstParts DEF StripRoots
  <2>2. ~\E r \in Roots(es) : Roots(es) = {r} /\ IsFolder(r, es)
    <3> SUFFICES ASSUME NEW r \in Roots(es), IsFolder(r, es) PROVE FALSE
      OBVIOUS
    <3>1. PICK n \in DOMAIN es : r = es[n].path[1]
      BY DEF Roots
    <3>2. es[n].path = <<r>>
      BY <1>2, <1>6, <3>1, FirstParts
    <3> QED BY <1>6, <3>2 DEF IsFolder
  <2> QED BY <1>5, <2>1, <2>2 DEF Layout
<1>7. CASE Cardinality(Roots(es)) = 1 /\ IsTree(es)
  <2>1. PICK r : Roots(es) = {r}
    <3>1. IsFiniteSet(1..Len(es))
      BY <1>3, FS_Interval
    <3>2. IsFiniteSet(Roots(es))
      <4> DEFINE f == [n \in 1..Len(es) |-> es[n].path[1]]
      <4>1. f \in [1..Len(es) -> Roots(es)] /\ \A t \in Roots(es) : \E n \in 1..Len(es) : f[n] = t
        BY <1>3 DEF Roots
      <4> HIDE DEF f
      <4>2. f \in Surjection(1..Len(es), Roots(es))
        BY <4>1, Fun_IsSurj
      <4> QED BY <3>1, <4>2, FS_Surjection
    <3> QED BY <1>7, <3>2, FS_Singleton
  <2>2. \A n \in DOMAIN es : es[n].path[1] = r
    BY <2>1 DEF Roots
  <2>3. PICK n0 \in DOMAIN es : TRUE
    BY <2>1 DEF Roots
  <2>4. root = IF \/ \E n \in DOMAIN es : es[n].path = <<r>> /\ es[n].kind = "Directory"
                  \/ \E n \in DOMAIN es : Len(es[n].path) > 1
               THEN <<r>> ELSE << >>
    BY <2>1 DEF StripRoots
  <2>5. CASE IsFolder(r, es)
    <3>1. root = <<r>>
      <4>1. CASE Len(es[n0].path) > 1
        BY <2>4, <4>1
      <4>2. CASE ~(Len(es[n0].path) > 1)
        <5>1. es[n0].path = <<r>>
          BY <1>2, <2>2, <2>3, <4>2, FirstParts
        <5> QED BY <2>3, <2>4, <2>5, <5>1 DEF IsFolder
      <4> QED BY <4>1, <4>2
    <3>2. \A n \in 1..Len(es) : Stripped(es[n].path, root) = Tail(es[n].path)
      <4> SUFFICES ASSUME NEW n \in 1..Len(es) PROVE Stripped(es[n].path, <<r>>) = Tail(es[n].path)
        BY <3>1
      <4>1. es[n].path \in Seq(Parts) \ {<< >>} /\ es[n].path[1] = r
        BY <1>2, <1>3, <2>2
      <4> QED BY <4>1, FirstParts
    <3>3. ASSUME NEW n \in 1..Len(es), es[n].kind # "Directory" PROVE Tail(es[n].path) # << >>
      <4>1. es[n].path # <<r>>
        BY <1>3, <2>5, <3>3 DEF IsFolder
      <4> QED BY <1>2, <1>3, <2>2, <4>1, FirstParts
    <3>4. Files(es, root, Len(es)) = {Tail(es[n].path) : n \in {n \in 1..Len(es) : es[n].kind # "Directory"}}
      BY <3>2, <3>3 DEF Files
    <3>5. Layout(es) = {Tail(f) : f \in FilePaths(es)}
      BY <2>1, <2>5 DEF Layout
    <3>6. {Tail(f) : f \in FilePaths(es)}
            = {Tail(es[n].path) : n \in {n \in 1..Len(es) : es[n].kind # "Directory"}}
      BY <1>4, Zenon
    <3> QED BY <3>4, <3>5, <3>6
  <2>6. CASE ~IsFolder(r, es)
    <3>1. PICK n \in DOMAIN es : es[n].path = <<r>> /\ es[n].kind # "Directory"
      BY <2>6 DEF IsFolder
    <3>2. \A m \in DOMAIN es : ~(Len(es[m].path) > 1)
      <4> SUFFICES ASSUME NEW m \in DOMAIN es, Len(es[m].path) > 1 PROVE FALSE
        OBVIOUS
      <4>1. es[m].path \in Seq(Parts) \ {<< >>} /\ es[m].path[1] = r
        BY <1>2, <2>2
      <4>2. IsStrictPrefix(<<r>>, es[m].path)
        BY <4>1, FirstParts
      <4>3. IsStrictPrefix(es[n].path, es[m].path)
        BY <3>1, <4>2
      <4> QED BY <1>7, <3>1, <4>3 DEF IsTree
    <3>3. root = << >>
      BY <2>4, <3>1, <3>2
    <3>4. Layout(es) = FilePaths(es)
      BY <2>1, <2>6 DEF Layout
    <3> QED BY <1>5, <3>3, <3>4
  <2> QED BY <2>5, <2>6
<1> QED BY <1>6, <1>7 DEF HasLayout

\* Folders that are stripped take no file with them.
LEMMA NoneMissing ==
  ASSUME NEW es \in Seq(PlannedEntries), NEW root \in StripRoots(es),
         \A n, m \in DOMAIN es : es[n].path = es[m].path => n = m,
         \A r \in Roots(es) : IsFolder(r, es), KeptApart(es, root, Len(es))
  PROVE  Cardinality(Files(es, root, Len(es))) = Cardinality(FilePaths(es))
<1> DEFINE N == {n \in 1..Len(es) : es[n].kind # "Directory"}
           F == Files(es, root, Len(es))
           P == FilePaths(es)
<1>1. \A n \in DOMAIN es : es[n] \in PlannedEntries
  OBVIOUS
<1>2. \A n \in DOMAIN es : es[n].path \in Seq(Parts) \ {<< >>}
  BY <1>1 DEF PlannedEntries
<1>3. DOMAIN es = 1..Len(es) /\ Len(es) \in Nat
  OBVIOUS
<1>4. P = {es[n].path : n \in N}
  BY <1>3 DEF FilePaths
<1>5. root = << >> \/ \E r \in Roots(es) : root = <<r>>
  BY DEF StripRoots
<1>6. ASSUME NEW n \in N PROVE Stripped(es[n].path, root) # << >>
  <2>1. CASE root = << >>
    BY <1>2, <1>3, <2>1, FirstParts
  <2>2. ASSUME NEW r \in Roots(es), root = <<r>> PROVE Stripped(es[n].path, root) # << >>
    <3>1. es[n].path # <<r>>
      BY <1>3 DEF IsFolder
    <3> QED BY <1>2, <1>3, <2>2, <3>1, FirstParts
  <2> QED BY <1>5, <2>1, <2>2
<1>7. F = {Stripped(es[n].path, root) : n \in N}
  BY <1>6 DEF Files
<1>8. \A n1, n2 \in N : Stripped(es[n1].path, root) = Stripped(es[n2].path, root) => n1 = n2
  BY <1>6 DEF KeptApart
<1>9. \A n1, n2 \in N : es[n1].path = es[n2].path => n1 = n2
  BY <1>3
<1> HIDE DEF F, P
<1>10. IsFiniteSet(P) /\ ExistsBijection(P, F)
  <2>1. IsFiniteSet(N)
    <3>1. IsFiniteSet(1..Len(es)) /\ N \subseteq 1..Len(es)
      BY <1>3, FS_Interval
    <3> QED BY <3>1, FS_Subset
  <2>2. IsFiniteSet(P)
    <3> DEFINE g == [n \in N |-> es[n].path]
    <3>1. g \in [N -> P] /\ \A t \in P : \E n \in N : g[n] = t
      BY <1>4
    <3> HIDE DEF g, N
    <3>2. g \in Surjection(N, P)
      BY <3>1, Fun_IsSurj
    <3> QED BY <2>1, <3>2, FS_Surjection
  <2> DEFINE f == [p \in P |-> Stripped(p, root)]
  <2>3. f \in [P -> F]
    BY <1>4, <1>7
  <2>4. \A a, b \in P : f[a] = f[b] => a = b
    BY <1>4, <1>8
  <2>5. \A t \in F : \E s \in P : f[s] = t
    BY <1>4, <1>7
  <2> HIDE DEF f
  <2>6. f \in Bijection(P, F)
    BY <2>3, <2>4, <2>5, Fun_IsBij
  <2> QED BY <2>2, <2>6 DEF ExistsBijection
<1> QED BY <1>10, FS_Bijection DEF F, P

\* How much of an archive its output holds, and where the output is.
Filled(j, m, output) ==
    /\ output.files = Files(ex.plans[j], ex.strips[j], m)
    /\ KeptApart(ex.plans[j], ex.strips[j], m)
Progress(j) == IF ex.pc = "extract" /\ j = ex.i THEN ex.k - 1 ELSE Len(ex.plans[j])
IsDone      == ex.pc = "ended" /\ ex.result = "done"
Contents ==
    ex.pc \in {"stage", "extract", "commit"} \/ IsDone =>
       \A p \in DOMAIN dest : \A j \in Nat : dest[p].owner = <<"archive", j>> =>
          /\ j \in DOMAIN ex.batch
          /\ ex.pc = "stage" => p = Stage(j) /\ j < ex.i
          /\ ex.pc = "extract" => p = Stage(j) /\ j <= ex.i
          /\ Filled(j, Progress(j), dest[p])

\* What was planned for each archive that was read.
Planned ==
    /\ \A j \in DOMAIN ex.plans :
          /\ j \in DOMAIN ex.batch /\ j \in DOMAIN ex.strips
          /\ ex.plans[j] = Entries(ex.batch[j]) /\ Acceptable(ex.batch[j])
          /\ ~ex.batch[j].stream => ex.strips[j] \in StripRoots(ex.plans[j])
    /\ IsDone => Len(ex.committed) = Len(ex.batch) /\ Len(ex.plans) = Len(ex.batch)

WholeInv == ExInv /\ Planned /\ Contents

\* While it plans, rolls back and cleans up, an extraction promises nothing yet.
LEMMA NothingPromised ==
  ASSUME Planned, ex'.batch = ex.batch, ex'.plans = ex.plans, ex'.strips = ex.strips,
         ~(ex'.pc \in {"stage", "extract", "commit"} \/ IsDone')
  PROVE  Planned' /\ Contents'
BY DEF Planned, Contents

LEMMA AbortsPromiseNothing ==
  ASSUME WholeInv, NEW why, ex' = Abort(why)
  PROVE  Planned' /\ Contents'
<1>1. ex \in Extractions
  BY DEF WholeInv, ExInv, ExtractionTypes
<1> DEFINE to == IF ex.pc = "commit" THEN "rollback" ELSE "cleanup"
<1>2. ex' = [ex EXCEPT !.cause = why, !.k = Len(ex.committed), !.pc = to]
  BY DEF Abort, ExAt
<1> HIDE DEF to
<1>3. ex'.pc = to /\ ex'.batch = ex.batch /\ ex'.plans = ex.plans /\ ex'.strips = ex.strips
  BY <1>1, <1>2 DEF Extractions
<1> QED BY <1>3, NothingPromised DEF WholeInv, to, IsDone

LEMMA EndsPromiseNothing ==
  ASSUME WholeInv, NEW r, r # "done", ex' = Ends(r)
  PROVE  Planned' /\ Contents'
<1>1. ex \in Extractions
  BY DEF WholeInv, ExInv, ExtractionTypes
<1>2. ex'.pc = "ended" /\ ex'.result = r /\ ex'.batch = ex.batch /\ ex'.plans = ex.plans /\ ex'.strips = ex.strips
  BY <1>1 DEF Extractions, Ends
<1> QED BY <1>2, NothingPromised DEF WholeInv, IsDone

LEMMA PreflightPlans ==
  ASSUME WholeInv, Preflight
  PROVE  Planned' /\ Contents'
<1> DEFINE archive == ex.batch[ex.i]
           plans == Append(ex.plans, Entries(archive))
           total == FoldSeq(LAMBDA es, sum : sum + Len(es), 0, plans)
<1>1. ex \in Extractions /\ ex.pc = "preflight" /\ ex.i <= Len(ex.batch) /\ Planned /\ Standing
  BY DEF WholeInv, ExInv, ExtractionTypes, Preflight, ExAt, More
<1>2. \/ \E r \in {"cancelled", "refused"} : ex' = Ends(r)
      \/ /\ Acceptable(archive)
         /\ \E root \in IF archive.stream THEN {<< >>} ELSE StripRoots(Entries(archive)) :
               ex' = [ex EXCEPT !.i = @ + 1, !.plans = plans, !.strips = Append(@, root)]
  <2> HIDE DEF total
  <2> QED BY Zenon DEF Preflight, plans, archive, total
<1>3. CASE \E r \in {"cancelled", "refused"} : ex' = Ends(r)
  BY <1>3, EndsPromiseNothing
<1>4. CASE /\ Acceptable(archive)
           /\ \E root \in IF archive.stream THEN {<< >>} ELSE StripRoots(Entries(archive)) :
                 ex' = [ex EXCEPT !.i = @ + 1, !.plans = plans, !.strips = Append(@, root)]
  <2>1. PICK root \in IF archive.stream THEN {<< >>} ELSE StripRoots(Entries(archive)) :
                 ex' = [ex EXCEPT !.i = @ + 1, !.plans = plans, !.strips = Append(@, root)]
    BY <1>4
  <2>2. ~archive.stream => root \in StripRoots(Entries(archive))
    BY <2>1
  <2>3. /\ ex'.pc = "preflight" /\ ex'.batch = ex.batch
        /\ ex'.plans = plans /\ ex'.strips = Append(ex.strips, root)
    <3> HIDE DEF plans
    <3> QED BY <1>1, <2>1 DEF Extractions
  <2>4. /\ ex.plans \in Seq(Seq(PlannedEntries)) /\ ex.strips \in Seq(Seq(Parts))
        /\ ex.batch \in Seq(Archives) /\ ex.i \in Nat \ {0}
        /\ Len(ex.plans) = ex.i - 1 /\ Len(ex.strips) = ex.i - 1
    BY <1>1 DEF Extractions, Standing
  <2> DEFINE es == Entries(archive)
             strips == Append(ex.strips, root)
  <2>5. /\ DOMAIN plans = 1..ex.i /\ DOMAIN strips = 1..ex.i
        /\ plans[ex.i] = es /\ strips[ex.i] = root
        /\ \A j \in 1..(ex.i - 1) : plans[j] = ex.plans[j] /\ strips[j] = ex.strips[j]
    <3>1. es \in Seq(PlannedEntries)
      <4>1. archive \in Archives
        BY <1>1, <2>4
      <4> QED BY <4>1, EntriesType
    <3> HIDE DEF es
    <3> DEFINE P == ex.plans
               S == ex.strips
               n == ex.i
    <3>2. P \in Seq(Seq(PlannedEntries)) /\ Len(P) = n - 1 /\ n \in Nat \ {0}
      BY <2>4
    <3>3. S \in Seq(Seq(Parts)) /\ Len(S) = n - 1
      BY <2>4
    <3> HIDE DEF P, S, n
    <3>6. S \in Seq(Seq(Parts) \cup {root})
      <4>1. S = [j \in 1..(n - 1) |-> S[j]] /\ \A j \in 1..(n - 1) : S[j] \in Seq(Parts)
        BY <3>3
      <4>2. \A j \in 1..(n - 1) : S[j] \in Seq(Parts) \cup {root}
        BY <4>1
      <4>3. n - 1 \in Nat /\ S \in [1..(n - 1) -> Seq(Parts) \cup {root}]
        BY <3>2, <4>1, <4>2
      <4> QED BY <4>3, SeqDef
    <3>4. /\ DOMAIN Append(P, es) = 1..n /\ Append(P, es)[n] = es
          /\ \A j \in 1..(n - 1) : Append(P, es)[j] = P[j]
      BY <3>1, <3>2
    <3>5. /\ DOMAIN Append(S, root) = 1..n /\ Append(S, root)[n] = root
          /\ \A j \in 1..(n - 1) : Append(S, root)[j] = S[j]
      BY <3>2, <3>3, <3>6
    <3>7. plans = Append(P, es) /\ strips = Append(S, root)
      BY DEF P, S, es
    <3> HIDE DEF plans, strips
    <3> QED BY <3>4, <3>5, <3>7 DEF P, S, n
  <2>6. DOMAIN ex.plans = 1..(ex.i - 1) /\ DOMAIN ex.batch = 1..Len(ex.batch) /\ ex.i \in DOMAIN ex.batch
    BY <1>1, <2>4
  <2>7. ASSUME NEW j \in 1..ex.i
        PROVE  /\ j \in DOMAIN ex.batch /\ j \in DOMAIN strips
               /\ plans[j] = Entries(ex.batch[j]) /\ Acceptable(ex.batch[j])
               /\ ~ex.batch[j].stream => strips[j] \in StripRoots(plans[j])
    <3>1. CASE j = ex.i
      <4> HIDE DEF plans, strips
      <4> QED BY <1>4, <2>2, <2>5, <2>6, <3>1
    <3>2. CASE j # ex.i
      <4>1. j \in 1..(ex.i - 1)
        BY <2>4, <3>2
      <4> HIDE DEF plans, strips
      <4> QED BY <1>1, <2>5, <2>6, <4>1 DEF Planned
    <3> QED BY <3>1, <3>2
  <2> HIDE DEF plans, strips
  <2>8. Planned'
    BY <2>3, <2>5, <2>7 DEF Planned, IsDone, strips
  <2>9. Contents'
    BY <2>3 DEF Contents, IsDone
  <2> QED BY <2>8, <2>9
<1> QED BY <1>2, <1>3, <1>4

LEMMA PhaseEndsFills ==
  ASSUME WholeInv, PhaseEnds
  PROVE  Planned' /\ Contents'
<1>1. /\ ex \in Extractions /\ ~(ex.i <= Len(ex.batch)) /\ UNCHANGED dest
      /\ Planned /\ Contents /\ Standing /\ Traced
  BY DEF WholeInv, ExInv, ExtractionTypes, PhaseEnds, More
<1>2. \/ ex.pc = "preflight" /\ ex' = [ex EXCEPT !.pc = "stage", !.i = 1]
      \/ ex.pc = "stage" /\ ex' = [ex EXCEPT !.pc = "commit", !.i = 1, !.k = 0]
      \/ ex.pc = "commit" /\ ex' = [ex EXCEPT !.pc = "ended", !.result = "done"]
  BY Zenon DEF PhaseEnds, ExAt, Ends
<1>3. /\ ex'.batch = ex.batch /\ ex'.plans = ex.plans /\ ex'.strips = ex.strips
      /\ ex'.committed = ex.committed
      /\ \/ ex.pc = "preflight" /\ ex'.pc = "stage"
         \/ ex.pc = "stage" /\ ex'.pc = "commit"
         \/ ex.pc = "commit" /\ ex'.pc = "ended" /\ ex'.result = "done"
  BY <1>1, <1>2 DEF Extractions
<1>4. Planned'
  <2>1. ex'.pc = "ended" => Len(ex.committed) = Len(ex.batch) /\ Len(ex.plans) = Len(ex.batch)
    <3>1. ex.i \in Nat /\ Len(ex.batch) \in Nat
      BY <1>1 DEF Extractions
    <3>2. ex.pc = "commit" => /\ Len(ex.committed) = ex.i - 1 /\ ex.i <= Len(ex.batch) + 1
                              /\ Len(ex.plans) = Len(ex.batch)
      BY <1>1 DEF Standing
    <3> QED BY <1>1, <1>3, <3>1, <3>2
  <2> QED BY <1>1, <1>3, <2>1 DEF Planned, IsDone
<1>5. CASE ex.pc = "preflight"
  <2>1. \A p \in DOMAIN dest : dest[p].owner[1] # "archive"
    BY <1>1, <1>5 DEF Traced, Reached, Standing
  <2>2. \A p \in DOMAIN dest : \A j \in Nat : dest[p].owner # <<"archive", j>>
    BY <2>1
  <2>3. Contents'
    BY <1>1, <2>2 DEF Contents
  <2> QED BY <1>4, <2>3
<1>6. CASE ex.pc \in {"stage", "commit"}
  <2>1. ASSUME NEW p \in DOMAIN dest, NEW j \in Nat, dest[p].owner = <<"archive", j>>
        PROVE  /\ j \in DOMAIN ex.batch
               /\ dest[p].files = Files(ex.plans[j], ex.strips[j], Len(ex.plans[j]))
               /\ KeptApart(ex.plans[j], ex.strips[j], Len(ex.plans[j]))
    BY <1>1, <1>6, <2>1 DEF Contents, Filled, Progress
  <2>2. ex'.pc \in {"commit", "ended"}
    BY <1>3, <1>6
  <2>3. Contents'
    BY <1>1, <1>3, <2>1, <2>2 DEF Contents, Filled, Progress
  <2> QED BY <1>4, <2>3
<1> QED BY <1>3, <1>5, <1>6

LEMMA OpenStageFills ==
  ASSUME WholeInv, OpenStage
  PROVE  Planned' /\ Contents'
<1>1. ex \in Extractions /\ ex.pc = "stage" /\ ex.i <= Len(ex.batch) /\ Planned /\ Contents
  BY DEF WholeInv, ExInv, ExtractionTypes, OpenStage, ExAt, More
<1>2. CASE exCancelled
  BY <1>2, AbortsPromiseNothing DEF OpenStage
<1>3. CASE ~exCancelled
  <2> DEFINE s == Stage(ex.i)
             new == [owner |-> <<"archive", ex.i>>, files |-> {}, dirs |-> {}]
  <2>1. ex' = [ex EXCEPT !.pc = "extract", !.k = 1]
    BY <1>3 DEF OpenStage
  <2>2. /\ DOMAIN dest' = DOMAIN dest \cup {s} /\ dest'[s] = new
        /\ \A p \in DOMAIN dest \ {s} : dest'[p] = dest[p]
    BY <1>3 DEF OpenStage
  <2>3. /\ ex'.batch = ex.batch /\ ex'.plans = ex.plans /\ ex'.strips = ex.strips
        /\ ex'.i = ex.i /\ ex'.k = 1 /\ ex'.pc = "extract"
    BY <1>1, <2>1 DEF Extractions
  <2>4. Planned'
    BY <1>1, <2>3 DEF Planned, IsDone
  <2>5. ex.i \in DOMAIN ex.batch /\ ex.i \in Nat
    BY <1>1 DEF Extractions
  <2>6. new.owner = <<"archive", ex.i>> /\ new.files = {}
    OBVIOUS
  <2> HIDE DEF new, s
  <2>7. ASSUME NEW p \in DOMAIN dest', NEW j \in Nat, dest'[p].owner = <<"archive", j>>
        PROVE  /\ j \in DOMAIN ex.batch /\ p = Stage(j) /\ j <= ex.i
               /\ Filled(j, Progress(j), dest[p])'
    <3>1. CASE p = s
      <4>1. j = ex.i
        BY <2>2, <2>6, <2>7, <3>1
      <4>2. Progress(j)' = 0
        BY <2>3, <4>1 DEF Progress
      <4>3. Files(ex.plans[j], ex.strips[j], 0) = {} /\ KeptApart(ex.plans[j], ex.strips[j], 0)
        BY DEF Files, KeptApart
      <4> QED BY <2>2, <2>3, <2>5, <2>6, <3>1, <4>1, <4>2, <4>3 DEF Filled, s
    <3>2. CASE p # s
      <4>1. p \in DOMAIN dest /\ dest'[p] = dest[p]
        BY <2>2, <3>2
      <4>2. j \in DOMAIN ex.batch /\ p = Stage(j) /\ j < ex.i /\ Filled(j, Progress(j), dest[p])
        BY <1>1, <2>7, <4>1 DEF Contents
      <4>3. Progress(j) = Len(ex.plans[j]) /\ Progress(j)' = Len(ex.plans[j])
        BY <1>1, <2>3, <2>5, <4>2 DEF Progress
      <4> QED BY <2>3, <2>5, <4>1, <4>2, <4>3 DEF Filled
    <3> QED BY <3>1, <3>2
  <2>8. Contents'
    BY <2>3, <2>7 DEF Contents
  <2> QED BY <2>4, <2>8
<1> QED BY <1>2, <1>3

\* One more entry of an archive.
LEMMA OneMoreEntry ==
  ASSUME NEW es, NEW root, NEW m \in Nat \ {0}, KeptApart(es, root, m - 1)
  PROVE  LET path == Stripped(es[m].path, root) IN
         /\ es[m].kind = "Directory" \/ path = << >>
               => Files(es, root, m) = Files(es, root, m - 1) /\ KeptApart(es, root, m)
         /\ es[m].kind # "Directory" /\ path # << >> /\ path \notin Files(es, root, m - 1)
               => Files(es, root, m) = Files(es, root, m - 1) \cup {path} /\ KeptApart(es, root, m)
<1> DEFINE path == Stripped(es[m].path, root)
           Counts(n) == es[n].kind # "Directory" /\ Stripped(es[n].path, root) # << >>
           S(n) == Stripped(es[n].path, root)
<1>1. 1..m = 1..(m - 1) \cup {m} /\ m \notin 1..(m - 1)
  OBVIOUS
<1>2. \A k \in Nat : Files(es, root, k) = {S(n) : n \in {n \in 1..k : Counts(n)}}
  BY DEF Files
<1>3. \A k \in Nat : KeptApart(es, root, k) <=>
         \A n1, n2 \in 1..k : Counts(n1) /\ Counts(n2) /\ S(n1) = S(n2) => n1 = n2
  BY DEF KeptApart
<1>4. m - 1 \in Nat /\ m \in Nat
  OBVIOUS
<1>5. S(m) = path /\ (Counts(m) <=> es[m].kind # "Directory" /\ path # << >>)
  OBVIOUS
<1> HIDE DEF path, Counts, S
<1>6. CASE ~Counts(m)
  <2>1. {n \in 1..m : Counts(n)} = {n \in 1..(m - 1) : Counts(n)}
    BY <1>1, <1>6
  <2>2. Files(es, root, m) = Files(es, root, m - 1)
    BY <1>2, <1>4, <2>1
  <2>3. KeptApart(es, root, m)
    BY <1>1, <1>3, <1>4, <1>6
  <2> QED BY <1>5, <1>6, <2>2, <2>3 DEF path
<1>7. CASE Counts(m)
  <2>1. {n \in 1..m : Counts(n)} = {n \in 1..(m - 1) : Counts(n)} \cup {m}
    BY <1>1, <1>7
  <2>2. Files(es, root, m) = Files(es, root, m - 1) \cup {S(m)}
    BY <1>2, <1>4, <2>1
  <2>3. S(m) \notin Files(es, root, m - 1) => KeptApart(es, root, m)
    <3>1. S(m) \notin Files(es, root, m - 1) => \A n \in 1..(m - 1) : Counts(n) => S(n) # S(m)
      BY <1>2, <1>4
    <3> QED BY <1>1, <1>3, <1>4, <3>1
  <2> QED BY <1>5, <1>7, <2>2, <2>3 DEF path
<1> QED BY <1>6, <1>7

LEMMA ExtractEntryFills ==
  ASSUME WholeInv, ExtractEntry
  PROVE  Planned' /\ Contents'
<1> DEFINE entry == ex.plans[ex.i][ex.k]
           path  == Stripped(entry.path, ex.strips[ex.i])
           s == Stage(ex.i)
<1>1. /\ ex \in Extractions /\ ex.pc = "extract" /\ Planned /\ Contents /\ Standing /\ Staged
  BY DEF WholeInv, ExInv, ExtractionTypes, ExtractEntry, ExAt
<1>2. ex.i \in Nat /\ ex.i \in DOMAIN ex.batch /\ ex.k \in Nat \ {0} /\ ex.i <= Len(ex.batch)
  <2>1. ex.i \in Nat \ {0} /\ ex.i <= Len(ex.batch) /\ ex.k \in 1..(Len(ex.plans[ex.i]) + 1)
    BY <1>1 DEF Standing, Extractions
  <2>2. ex.k \in Nat /\ ex.batch \in Seq(Archives)
    BY <1>1 DEF Extractions
  <2>3. ex.k # 0
    BY <2>1, <2>2
  <2> QED BY <2>1, <2>2, <2>3
<1>3. \/ \E why \in {"failed", "cancelled"} : ex' = Abort(why) /\ dest' = dest
      \/ ex' = [ex EXCEPT !.k = @ + 1] /\ dest' = dest /\ path = << >>
      \/ /\ ex' = [ex EXCEPT !.k = @ + 1] /\ path # << >> /\ Fits(dest[s], path, entry.kind)
         /\ dest' = [dest EXCEPT ![s] = Written(@, path, entry.kind)]
  BY Zenon DEF ExtractEntry
<1>4. CASE \E why \in {"failed", "cancelled"} : ex' = Abort(why) /\ dest' = dest
  BY <1>4, AbortsPromiseNothing
<1>5. s \in DOMAIN dest /\ dest[s].owner = <<"archive", ex.i>>
  BY <1>1, <1>2 DEF Staged, Taken
<1>6. /\ dest[s].files = Files(ex.plans[ex.i], ex.strips[ex.i], ex.k - 1)
      /\ KeptApart(ex.plans[ex.i], ex.strips[ex.i], ex.k - 1)
  <2>1. Filled(ex.i, Progress(ex.i), dest[s])
    BY <1>1, <1>2, <1>5 DEF Contents
  <2>2. Progress(ex.i) = ex.k - 1
    BY <1>1 DEF Progress
  <2> QED BY <2>1, <2>2 DEF Filled
<1>7. ASSUME ex' = [ex EXCEPT !.k = @ + 1],
             DOMAIN dest' = DOMAIN dest,
             dest'[s].owner = <<"archive", ex.i>>,
             \A p \in DOMAIN dest \ {s} : dest'[p] = dest[p],
             dest'[s].files = Files(ex.plans[ex.i], ex.strips[ex.i], ex.k),
             KeptApart(ex.plans[ex.i], ex.strips[ex.i], ex.k)
      PROVE  Planned' /\ Contents'
  <2>1. /\ ex'.batch = ex.batch /\ ex'.plans = ex.plans /\ ex'.strips = ex.strips
        /\ ex'.i = ex.i /\ ex'.k = ex.k + 1 /\ ex'.pc = "extract"
    BY <1>1, <1>7 DEF Extractions
  <2>2. Planned'
    BY <1>1, <2>1 DEF Planned, IsDone
  <2>3. ASSUME NEW p \in DOMAIN dest', NEW j \in Nat, dest'[p].owner = <<"archive", j>>
        PROVE  /\ j \in DOMAIN ex.batch /\ p = Stage(j) /\ j <= ex.i
               /\ Filled(j, Progress(j), dest[p])'
    <3>1. CASE p = s
      <4>1. j = ex.i
        BY <1>7, <2>3, <3>1
      <4>2. Progress(j)' = ex.k
        BY <1>2, <2>1, <4>1 DEF Progress
      <4> QED BY <1>2, <1>7, <2>1, <3>1, <4>1, <4>2 DEF Filled
    <3>2. CASE p # s
      <4>1. p \in DOMAIN dest /\ dest'[p] = dest[p]
        BY <1>7, <3>2
      <4>2. j \in DOMAIN ex.batch /\ p = Stage(j) /\ j <= ex.i /\ Filled(j, Progress(j), dest[p])
        BY <1>1, <2>3, <4>1 DEF Contents
      <4>3. j # ex.i
        BY <3>2, <4>2
      <4>4. Progress(j) = Len(ex.plans[j]) /\ Progress(j)' = Len(ex.plans[j])
        BY <2>1, <4>3 DEF Progress
      <4> QED BY <2>1, <4>1, <4>2, <4>4 DEF Filled
    <3> QED BY <3>1, <3>2
  <2>4. Contents'
    BY <2>1, <2>3 DEF Contents
  <2> QED BY <2>2, <2>4
<1>8. CASE ex' = [ex EXCEPT !.k = @ + 1] /\ dest' = dest /\ path = << >>
  <2>1. /\ Files(ex.plans[ex.i], ex.strips[ex.i], ex.k) = Files(ex.plans[ex.i], ex.strips[ex.i], ex.k - 1)
        /\ KeptApart(ex.plans[ex.i], ex.strips[ex.i], ex.k)
    BY <1>2, <1>6, <1>8, OneMoreEntry
  <2> HIDE DEF s, path
  <2> QED BY <1>5, <1>6, <1>7, <1>8, <2>1
<1>9. CASE /\ ex' = [ex EXCEPT !.k = @ + 1] /\ path # << >> /\ Fits(dest[s], path, entry.kind)
           /\ dest' = [dest EXCEPT ![s] = Written(@, path, entry.kind)]
  <2> DEFINE new == Written(dest[s], path, entry.kind)
  <2>1. DOMAIN dest' = DOMAIN dest /\ dest'[s] = new /\ \A p \in DOMAIN dest \ {s} : dest'[p] = dest[p]
    BY <1>5, <1>9
  <2>2. path \notin dest[s].files
    BY <1>9 DEF Fits
  <2>3. dest[s] \in Outputs
    BY <1>5 DEF WholeInv, ExInv, ExtractionTypes
  <2>4. /\ new.owner = dest[s].owner
        /\ new.files = IF entry.kind = "Directory" THEN dest[s].files ELSE dest[s].files \cup {path}
    <3> HIDE DEF path, entry, s
    <3> QED BY <2>3 DEF Written, Outputs
  <2>5. /\ new.files = Files(ex.plans[ex.i], ex.strips[ex.i], ex.k)
        /\ KeptApart(ex.plans[ex.i], ex.strips[ex.i], ex.k)
    <3> DEFINE es == ex.plans[ex.i]
               root == ex.strips[ex.i]
    <3>1. entry = es[ex.k] /\ path = Stripped(es[ex.k].path, root)
      OBVIOUS
    <3> HIDE DEF es, root, path, entry, new
    <3>2. KeptApart(es, root, ex.k - 1) /\ dest[s].files = Files(es, root, ex.k - 1)
      BY <1>6 DEF es, root
    <3>3. /\ entry.kind = "Directory"
               => Files(es, root, ex.k) = Files(es, root, ex.k - 1) /\ KeptApart(es, root, ex.k)
          /\ entry.kind # "Directory" /\ path # << >> /\ path \notin Files(es, root, ex.k - 1)
               => Files(es, root, ex.k) = Files(es, root, ex.k - 1) \cup {path} /\ KeptApart(es, root, ex.k)
      BY <1>2, <3>1, <3>2, OneMoreEntry
    <3>4. path # << >>
      BY <1>9
    <3> QED BY <2>2, <2>4, <3>2, <3>3, <3>4 DEF es, root
  <2> HIDE DEF new, s, path, entry
  <2> QED BY <1>5, <1>7, <1>9, <2>1, <2>4, <2>5
<1> QED BY <1>3, <1>4, <1>8, <1>9

LEMMA EntriesEndFills ==
  ASSUME WholeInv, EntriesEnd
  PROVE  Planned' /\ Contents'
<1>1. /\ ex \in Extractions /\ ex.pc = "extract" /\ Planned /\ Contents /\ Standing
      /\ UNCHANGED dest /\ ex' = [ex EXCEPT !.pc = "stage", !.i = @ + 1]
      /\ ex.k > Len(ex.plans[ex.i])
  BY DEF WholeInv, ExInv, ExtractionTypes, EntriesEnd, ExAt
<1>2. /\ ex'.batch = ex.batch /\ ex'.plans = ex.plans /\ ex'.strips = ex.strips
      /\ ex'.i = ex.i + 1 /\ ex'.pc = "stage"
  BY <1>1 DEF Extractions
<1>3. ex.k - 1 = Len(ex.plans[ex.i]) /\ ex.i \in Nat
  <2>1. ex.i \in Nat \ {0} /\ ex.i <= Len(ex.batch) /\ Len(ex.plans) = Len(ex.batch)
        /\ ex.k \in 1..(Len(ex.plans[ex.i]) + 1)
    BY <1>1 DEF Standing, Extractions
  <2>2. ex.plans \in Seq(Seq(PlannedEntries)) /\ Len(ex.batch) \in Nat
    BY <1>1 DEF Extractions
  <2>3. ex.plans[ex.i] \in Seq(PlannedEntries)
    BY <2>1, <2>2
  <2> QED BY <1>1, <2>1, <2>3
<1>4. Planned'
  BY <1>1, <1>2 DEF Planned, IsDone
<1>5. ASSUME NEW p \in DOMAIN dest, NEW j \in Nat, dest[p].owner = <<"archive", j>>
      PROVE  /\ j \in DOMAIN ex.batch /\ p = Stage(j) /\ j < ex.i + 1
             /\ Filled(j, Progress(j), dest[p])'
  <2>1. j \in DOMAIN ex.batch /\ p = Stage(j) /\ j <= ex.i /\ Filled(j, Progress(j), dest[p])
    BY <1>1, <1>5 DEF Contents
  <2>2. Progress(j) = Len(ex.plans[j])
    BY <1>1, <1>3 DEF Progress
  <2>3. Progress(j)' = Len(ex.plans[j])
    BY <1>2 DEF Progress
  <2>4. j < ex.i + 1
    BY <1>3, <2>1
  <2> QED BY <1>1, <1>2, <2>1, <2>2, <2>3, <2>4 DEF Filled
<1>6. Contents'
  BY <1>1, <1>2, <1>5 DEF Contents
<1> QED BY <1>4, <1>6

LEMMA CommitFills ==
  ASSUME WholeInv, CommitKeepBoth
  PROVE  Planned' /\ Contents'
<1> DEFINE final == Named(ex.batch[ex.i].output, ex.k)
           s == Stage(ex.i)
<1>1. ex \in Extractions /\ ex.pc = "commit" /\ ex.i <= Len(ex.batch) /\ Planned /\ Contents /\ Staged
  BY DEF WholeInv, ExInv, ExtractionTypes, CommitKeepBoth, ExAt, More
<1>2. \/ ex' = Abort("cancelled")
      \/ ex' = [ex EXCEPT !.k = @ + 1] /\ dest' = dest
      \/ /\ ~Taken(final) /\ dest' = Renamed(s, final)
         /\ ex' = [ex EXCEPT !.committed = Append(@, final), !.i = @ + 1, !.k = 0]
  BY Zenon DEF CommitKeepBoth
<1>3. CASE ex' = Abort("cancelled")
  BY <1>3, AbortsPromiseNothing
<1>4. ASSUME ex'.pc = "commit", ex'.batch = ex.batch, ex'.plans = ex.plans, ex'.strips = ex.strips,
             \A p \in DOMAIN dest' : \E q \in DOMAIN dest : dest'[p] = dest[q]
      PROVE  Planned' /\ Contents'
  <2>1. Planned'
    BY <1>1, <1>4 DEF Planned, IsDone
  <2>2. ASSUME NEW p \in DOMAIN dest', NEW j \in Nat, dest'[p].owner = <<"archive", j>>
        PROVE  j \in DOMAIN ex.batch /\ Filled(j, Progress(j), dest[p])'
    <3>1. PICK q \in DOMAIN dest : dest'[p] = dest[q]
      BY <1>4
    <3>2. j \in DOMAIN ex.batch /\ Filled(j, Progress(j), dest[q])
      BY <1>1, <2>2, <3>1 DEF Contents
    <3>3. Progress(j) = Len(ex.plans[j]) /\ Progress(j)' = Len(ex.plans[j])
      BY <1>1, <1>4 DEF Progress
    <3> QED BY <1>4, <3>1, <3>2, <3>3 DEF Filled
  <2>3. Contents'
    BY <1>4, <2>2 DEF Contents
  <2> QED BY <2>1, <2>3
<1>5. CASE ex' = [ex EXCEPT !.k = @ + 1] /\ dest' = dest
  <2>1. ex'.pc = "commit" /\ ex'.batch = ex.batch /\ ex'.plans = ex.plans /\ ex'.strips = ex.strips
    BY <1>1, <1>5 DEF Extractions
  <2> QED BY <1>4, <1>5, <2>1
<1>6. CASE /\ ~Taken(final) /\ dest' = Renamed(s, final)
           /\ ex' = [ex EXCEPT !.committed = Append(@, final), !.i = @ + 1, !.k = 0]
  <2> HIDE DEF final
  <2>1. ex'.pc = "commit" /\ ex'.batch = ex.batch /\ ex'.plans = ex.plans /\ ex'.strips = ex.strips
    BY <1>1, <1>6 DEF Extractions
  <2>2. ex.i \in DOMAIN ex.batch
    BY <1>1 DEF Extractions
  <2>3. s \in DOMAIN dest
    BY <1>1, <2>2 DEF Staged, Taken, Extractions
  <2>4. \A p \in DOMAIN dest' : \E q \in DOMAIN dest : dest'[p] = dest[q]
    <3>1. final \notin DOMAIN dest
      BY <1>6 DEF Taken
    <3> HIDE DEF s
    <3>2. /\ DOMAIN dest' = (DOMAIN dest \ {s}) \cup {final} /\ dest'[final] = dest[s]
          /\ \A r \in DOMAIN dest \ {s} : r # final /\ dest'[r] = dest[r]
      BY <1>6, <2>3, <3>1, Renames
    <3> QED BY <2>3, <3>2
  <2> QED BY <1>4, <2>1, <2>4
<1> QED BY <1>2, <1>3, <1>5, <1>6

LEMMA OthersFillNothing ==
  ASSUME WholeInv, RollBackOne \/ CleanUpStaged \/ ExtractionBreaks
  PROVE  Planned' /\ Contents'
<1>1. ex \in Extractions /\ Planned /\ Standing
  BY DEF WholeInv, ExInv, ExtractionTypes
<1>2. \/ ex.pc = "rollback" /\ ex' = [ex EXCEPT !.pc = "cleanup"]
      \/ ex.pc = "rollback" /\ ex' = [ex EXCEPT !.k = @ - 1]
      \/ ex.pc = "rollback" /\ ex' = [ex EXCEPT !.k = @ - 1, !.errors = @ \cup {ex.k}]
      \/ ex.pc = "cleanup" /\ ex' = Ends(IF ex.errors = {} THEN ex.cause ELSE "rollback failed")
      \/ ex' = Ends("refused")
      \/ ex' = Abort("failed")
  BY Zenon DEF RollBackOne, CleanUpStaged, ExtractionBreaks, ExAt
<1>3. CASE ex.pc = "rollback" /\ ex' = [ex EXCEPT !.pc = "cleanup"]
  <2>1. ex'.pc = "cleanup" /\ ex'.batch = ex.batch /\ ex'.plans = ex.plans /\ ex'.strips = ex.strips
    BY <1>1, <1>3 DEF Extractions
  <2> QED BY <1>1, <2>1, NothingPromised DEF IsDone
<1>4. CASE ex.pc = "rollback" /\ ex' = [ex EXCEPT !.k = @ - 1]
  <2>1. ex'.pc = "rollback" /\ ex'.batch = ex.batch /\ ex'.plans = ex.plans /\ ex'.strips = ex.strips
    BY <1>1, <1>4 DEF Extractions
  <2> QED BY <1>1, <2>1, NothingPromised DEF IsDone
<1>5. CASE ex.pc = "rollback" /\ ex' = [ex EXCEPT !.k = @ - 1, !.errors = @ \cup {ex.k}]
  <2>1. ex'.pc = "rollback" /\ ex'.batch = ex.batch /\ ex'.plans = ex.plans /\ ex'.strips = ex.strips
    BY <1>1, <1>5 DEF Extractions
  <2> QED BY <1>1, <2>1, NothingPromised DEF IsDone
<1>6. CASE ex.pc = "cleanup" /\ ex' = Ends(IF ex.errors = {} THEN ex.cause ELSE "rollback failed")
  <2> DEFINE r == IF ex.errors = {} THEN ex.cause ELSE "rollback failed"
  <2>1. r # "done"
    BY <1>1 DEF Extractions
  <2> HIDE DEF r
  <2>2. ex' = Ends(r)
    BY <1>6 DEF r
  <2> QED BY <2>1, <2>2, EndsPromiseNothing
<1>7. CASE ex' = Ends("refused")
  BY <1>7, EndsPromiseNothing
<1>8. CASE ex' = Abort("failed")
  BY <1>8, AbortsPromiseNothing
<1> QED BY <1>2, <1>3, <1>4, <1>5, <1>6, <1>7, <1>8

\* The user and the other process leave what the archives became.
LEMMA EnvironmentFillsNothing ==
  ASSUME WholeInv, UNCHANGED ex,
         \A p \in DOMAIN dest' : \/ p \in DOMAIN dest /\ dest'[p] = dest[p]
                                 \/ dest'[p].owner[1] = "visitor"
  PROVE  Planned' /\ Contents'
<1>1. Planned'
  BY DEF WholeInv, Planned, IsDone
<1>2. ASSUME NEW p \in DOMAIN dest', NEW j \in Nat, dest'[p].owner = <<"archive", j>>
      PROVE  p \in DOMAIN dest /\ dest'[p] = dest[p]
  <2>1. dest'[p].owner[1] = "archive"
    BY <1>2
  <2> QED BY <2>1
<1>3. Contents'
  BY <1>2 DEF WholeInv, Contents, IsDone, Filled, Progress, Stage
<1> QED BY <1>1, <1>3

-----------------------------------------------------------------------------
(* The theorems.                                                           *)

LEMMA ExtractionStepKept ==
  ASSUME ExInv, [ExtractionNext]_exVars
  PROVE  ExInv'
<1>1. CASE Preflight
  BY <1>1, PreflightStep
<1>2. CASE PhaseEnds
  BY <1>2, PhaseEndsStep
<1>3. CASE OpenStage
  BY <1>3, OpenStageStep
<1>4. CASE ExtractEntry
  BY <1>4, ExtractEntryStep
<1>5. CASE EntriesEnd
  BY <1>5, EntriesEndStep
<1>6. CASE CommitKeepBoth
  BY <1>6, CommitKeepBothStep
<1>7. CASE RollBackOne
  BY <1>7, RollBackOneStep
<1>8. CASE CleanUpStaged
  BY <1>8, CleanUpStagedStep
<1>9. CASE ExtractionBreaks
  BY <1>9, ExtractionBreaksStep
<1>10. CASE CancelExtraction
  BY <1>10, CancelExtractionStep
<1>11. ASSUME NEW p \in Visible, VisitorCreates(p) PROVE ExInv'
  BY <1>11, VisitorCreatesStep
<1>12. ASSUME NEW p \in Visible, VisitorRemoves(p) PROVE ExInv'
  BY <1>12, VisitorRemovesStep
<1>13. CASE UNCHANGED exVars
  BY <1>13, ExtractionStays
<1> QED BY <1>1, <1>2, <1>3, <1>4, <1>5, <1>6, <1>7, <1>8, <1>9, <1>10, <1>11, <1>12, <1>13
        DEF ExtractionNext

\* The inductive invariant of an extraction.
THEOREM ExtractionInvariant == ExtractionSpec => []ExInv
<1> QED BY ExtractionBegins, ExtractionStepKept, PTL DEF ExtractionSpec

\* An extraction never overwrites what another process has in the destination,
\* and takes away only what has the name of an output that it takes back.
THEOREM EntriesOfOthersStayAlways == ExtractionSpec => []EntriesOfOthersStay
<1>1. ExInv => EntriesOfOthersStay
  BY DEF ExInv
<1> QED BY <1>1, ExtractionInvariant, PTL

\* After an error the destination holds nothing of the batch, but for staging
\* entries whose removal failed.
THEOREM FailedExtractionLeavesNothingAlways == ExtractionSpec => []FailedExtractionLeavesNothing
<1>1. ExInv => FailedExtractionLeavesNothing
  BY DEF ExInv
<1> QED BY <1>1, ExtractionInvariant, PTL

LEMMA ContentsStepKept ==
  ASSUME WholeInv, [ExtractionNext]_exVars
  PROVE  Planned' /\ Contents'
<1>1. CASE Preflight
  BY <1>1, PreflightPlans
<1>2. CASE PhaseEnds
  BY <1>2, PhaseEndsFills
<1>3. CASE OpenStage
  BY <1>3, OpenStageFills
<1>4. CASE ExtractEntry
  BY <1>4, ExtractEntryFills
<1>5. CASE EntriesEnd
  BY <1>5, EntriesEndFills
<1>6. CASE CommitKeepBoth
  BY <1>6, CommitFills
<1>7. CASE RollBackOne \/ CleanUpStaged \/ ExtractionBreaks
  BY <1>7, OthersFillNothing
<1>8. CASE CancelExtraction
  BY <1>8, EnvironmentFillsNothing DEF CancelExtraction
<1>9. ASSUME NEW p \in Visible, VisitorCreates(p) PROVE Planned' /\ Contents'
  <2>1. UNCHANGED ex /\ DOMAIN dest' = DOMAIN dest \cup {p}
        /\ dest'[p].owner = <<"visitor", Named("visit", visits)>>
        /\ \A q \in DOMAIN dest : dest'[q] = dest[q]
    BY <1>9 DEF VisitorCreates, Visit, Taken
  <2>2. dest'[p].owner[1] = "visitor"
    BY <2>1
  <2> QED BY <2>1, <2>2, EnvironmentFillsNothing
<1>10. ASSUME NEW p \in Visible, VisitorRemoves(p) PROVE Planned' /\ Contents'
  <2>1. UNCHANGED ex /\ DOMAIN dest' = DOMAIN dest \ {p}
        /\ \A q \in DOMAIN dest \ {p} : dest'[q] = dest[q]
    BY <1>10 DEF VisitorRemoves, Visit
  <2> QED BY <2>1, EnvironmentFillsNothing
<1>11. CASE UNCHANGED exVars
  BY <1>11, EnvironmentFillsNothing DEF exVars
<1> QED BY <1>1, <1>2, <1>3, <1>4, <1>5, <1>6, <1>7, <1>8, <1>9, <1>10, <1>11
        DEF ExtractionNext

\* When every archive is there, what each holds follows from its plan.
LEMMA WholeOutputs ==
  ASSUME WholeInv
  PROVE  OutputsAreWhole
<1> SUFFICES ASSUME ex.pc = "ended", ex.result = "done" PROVE
       /\ Len(ex.committed) = Len(ex.batch)
       /\ \A i \in DOMAIN ex.batch : IsOutput(i) /\ ~ex.batch[i].stream =>
             LET es == ex.plans[i] IN
             /\ HasLayout(es) => Output(i).files = Layout(es)
             /\ (\A r \in Roots(es) : IsFolder(r, es))
                   => Cardinality(Output(i).files) = Cardinality(FilePaths(es))
  BY DEF OutputsAreWhole, ExAt
<1>1. ex \in Extractions /\ Planned /\ Contents /\ IsDone
  BY DEF WholeInv, ExInv, ExtractionTypes, IsDone
<1>2. Len(ex.committed) = Len(ex.batch) /\ Len(ex.plans) = Len(ex.batch)
  BY <1>1 DEF Planned
<1>3. ASSUME NEW i \in DOMAIN ex.batch, IsOutput(i), ~ex.batch[i].stream
      PROVE  LET es == ex.plans[i] IN
             /\ HasLayout(es) => Output(i).files = Layout(es)
             /\ (\A r \in Roots(es) : IsFolder(r, es))
                   => Cardinality(Output(i).files) = Cardinality(FilePaths(es))
  <2> DEFINE es == ex.plans[i]
             root == ex.strips[i]
  <2>1. i \in Nat /\ i \in DOMAIN ex.plans /\ es \in Seq(PlannedEntries)
    <3>1. ex.batch \in Seq(Archives) /\ ex.plans \in Seq(Seq(PlannedEntries))
      BY <1>1 DEF Extractions
    <3> QED BY <1>2, <3>1
  <2>2. es = Entries(ex.batch[i]) /\ Acceptable(ex.batch[i]) /\ root \in StripRoots(es)
    BY <1>1, <1>3, <2>1 DEF Planned
  <2>3. \A n, m \in DOMAIN es : es[n].path = es[m].path => n = m
    BY <2>2 DEF Acceptable
  <2>4. Filled(i, Progress(i), Output(i))
    BY <1>1, <1>3, <2>1 DEF Contents, IsOutput, Output, Taken
  <2>5. Progress(i) = Len(es)
    BY DEF Progress
  <2>6. Output(i).files = Files(es, root, Len(es)) /\ KeptApart(es, root, Len(es))
    BY <2>4, <2>5 DEF Filled
  <2> HIDE DEF es, root
  <2>7. HasLayout(es) => Output(i).files = Layout(es)
    BY <2>1, <2>2, <2>3, <2>6, LaidOut
  <2>8. (\A r \in Roots(es) : IsFolder(r, es)) => Cardinality(Output(i).files) = Cardinality(FilePaths(es))
    BY <2>1, <2>2, <2>3, <2>6, NoneMissing
  <2> QED BY <2>7, <2>8 DEF es
<1> QED BY <1>2, <1>3

\* The one that says what the outputs hold as well.
THEOREM ContentsInvariant == ExtractionSpec => []WholeInv
<1>1. ExtractionInit => WholeInv
  <2> SUFFICES ASSUME ExtractionInit PROVE WholeInv
    OBVIOUS
  <2>1. ExInv
    BY ExtractionBegins
  <2>2. ex.pc = "preflight" /\ ex.plans = << >>
    BY DEF ExtractionInit
  <2> QED BY <2>1, <2>2 DEF WholeInv, Planned, Contents, IsDone
<1>2. WholeInv /\ [ExtractionNext]_exVars => WholeInv'
  BY ExtractionStepKept, ContentsStepKept DEF WholeInv
<1> QED BY <1>1, <1>2, PTL DEF ExtractionSpec

\* A batch that succeeds has an output for every archive, in the layout it asks for
\* if it has one root and no file with entries below it, or nothing but files; of
\* several roots that are all folders no file is missing.
THEOREM OutputsAreWholeAlways == ExtractionSpec => []OutputsAreWhole
<1> QED BY ContentsInvariant, WholeOutputs, PTL
=============================================================================
