----------------------- MODULE FileTransactions_proofs -----------------------
(***************************************************************************)
(* Theorems about FileTransactions, for any folder, batch, failures and    *)
(* intrusions: renames, rollbacks and undos lose no file; a batch of       *)
(* renames or of permissions that gives up leaves every file as it was,    *)
(* and an undo that succeeds brings every file back.                       *)
(***************************************************************************)
EXTENDS FileTransactions, SequenceTheorems, WellFoundedInduction, NaturalsInduction, TLAPS

FolderTypeOK == dir \in [Places -> Files \cup {NoFile}] /\ alive \subseteq Files

-----------------------------------------------------------------------------
(* Where the loops of bulk_rename are: the renames that hold a temporary   *)
(* name, and those that are committed.                                     *)
Staged(i) ==
    \/ pc = "stage" /\ i < k
    \/ pc = "commit" /\ i >= k
    \/ pc = "unrename" /\ i > k
    \/ pc = "unstage" /\ i <= k

Committed(i) == (pc = "commit" /\ i < k) \/ (pc = "unrename" /\ i <= k)

LoopOK ==
    /\ pairs \in Seq(Pairs) /\ Len(pairs) <= MaxPairs
    /\ op = "single" => Len(pairs) = 1
    /\ pc \in {"idle", "preflight", "stage", "commit", "chmod"} => errors = {}
    /\ pc = "ended" /\ result \in {"done", "failed", "cancelled", "refused"} => errors = {}
    /\ pc = "preflight" => k = 1 /\ completed = 0
    /\ pc \in {"stage", "commit"} =>
          k \in 1 .. Len(pairs) + 1 /\ completed = IF pc = "stage" THEN 0 ELSE k - 1
    /\ pc \in {"unrename", "unstage"} => k \in 0 .. Len(pairs)
    /\ pc \in {"stage", "commit", "unrename", "unstage"} =>
          \A i, j \in 1 .. Len(pairs) : To(i) = To(j) => i = j

\* A file under a temporary name is there for its rename, and comes from the
\* name it had when the batch began.
TempsOwned ==
    errors = {} =>
       \A i \in 1 .. MaxPairs : dir[Temp(i)] # NoFile =>
          /\ i \in 1 .. Len(pairs) /\ Staged(i)
          /\ dir[Temp(i)] \notin touched => before.dir[From(i)] = dir[Temp(i)]

\* A file under a visible name was put there by a committed rename, or has not
\* moved.
NamesOwned ==
    errors = {} /\ ~(pc = "ended" /\ result = "done") =>
       \A p \in Names : dir[p] \notin touched \cup {NoFile} =>
          /\ \A i \in 1 .. Len(pairs) : Committed(i) /\ To(i) = p => before.dir[From(i)] = dir[p]
          /\ (\A i \in 1 .. Len(pairs) : ~(Committed(i) /\ To(i) = p)) => before.dir[p] = dir[p]

BatchInv == FolderTypeOK /\ LoopOK /\ TempsOwned /\ NamesOwned
-----------------------------------------------------------------------------
(* No file is lost.                                                        *)
LEMMA Moved ==
  ASSUME FolderTypeOK, NEW p, NEW q, Renames(p, q)
  PROVE  /\ p \in Places /\ q \in Places /\ p # q /\ dir[p] \in Files /\ dir[q] = NoFile
         /\ dir' \in [Places -> Files \cup {NoFile}]
         /\ dir'[p] = NoFile /\ dir'[q] = dir[p]
         /\ \A o \in Places : o # p /\ o # q => dir'[o] = dir[o]
BY FolderAssumption DEF FolderTypeOK, Renames, CanRename, exists

LEMMA FolderSteps ==
  ASSUME [TransactionNext]_transactionVars
  PROVE  \/ dir' = dir /\ alive' = alive
         \/ alive' = alive /\ \E p, q : Renames(p, q)
         \/ \E p \in Names, f \in Files : IntruderCreates(p, f)
         \/ \E p \in Names : IntruderRemoves(p)
<1>1. CASE UserNext
  BY <1>1 DEF UserNext, RenameRequested, ChmodRequested, UndoBatch, CancelBatch, Begin, folderVars, ghostVars
<1>2. CASE StageOne \/ CommitOne
  BY <1>2 DEF StageOne, CommitOne, Refuses, folderVars, ghostVars
<1>3. CASE Unrename \/ Unstage
  BY <1>3 DEF Unrename, Unstage, Refuses, folderVars, ghostVars
<1>4. CASE SingleRename
  BY <1>4 DEF SingleRename, Refuses, folderVars, ghostVars
<1>5. CASE PreflightRename \/ StopForCancel \/ LoopEnds \/ Unrenamed \/ RolledBack
  BY <1>5 DEF PreflightRename, StopForCancel, LoopEnds, Unrenamed, RolledBack, folderVars, ghostVars
<1>6. CASE ChmodNext
  BY <1>6 DEF ChmodNext, PreflightChmod, PreflightRestore, ChmodOne, ChmodEnds, Unchmod, Chmods, Refuses,
              folderVars, ghostVars
<1>7. CASE IntruderNext
  BY <1>7 DEF IntruderNext, IntruderChmods
<1>8. CASE UNCHANGED transactionVars
  BY <1>8 DEF transactionVars, folderVars, ghostVars
<1> QED
  BY <1>1, <1>2, <1>3, <1>4, <1>5, <1>6, <1>7, <1>8 DEF TransactionNext, RenameNext

LEMMA FolderKept ==
  ASSUME FolderTypeOK, RenamesLoseNothing, [TransactionNext]_transactionVars
  PROVE  FolderTypeOK' /\ RenamesLoseNothing'
<1>1. CASE dir' = dir /\ alive' = alive
  BY <1>1 DEF FolderTypeOK, RenamesLoseNothing
<1>2. ASSUME alive' = alive, NEW p, NEW q, Renames(p, q)
      PROVE  FolderTypeOK' /\ RenamesLoseNothing'
  <2>1. FolderTypeOK'
    BY <1>2, Moved DEF FolderTypeOK
  <2>2. ASSUME NEW f \in alive PROVE \E o \in Places : dir'[o] = f
    <3>1. PICK o \in Places : dir[o] = f
      BY DEF RenamesLoseNothing
    <3>2. CASE o = p
      BY <1>2, <3>1, <3>2, Moved
    <3>3. CASE o # p
      <4>1. o # q
        BY <1>2, <3>1, Moved, FolderAssumption DEF FolderTypeOK
      <4> QED
        BY <1>2, <3>1, <3>3, <4>1, Moved
    <3> QED
      BY <3>2, <3>3
  <2> QED
    BY <1>2, <2>1, <2>2 DEF RenamesLoseNothing
<1>3. ASSUME NEW p \in Names, NEW f \in Files, IntruderCreates(p, f)
      PROVE  FolderTypeOK' /\ RenamesLoseNothing'
  <2>1. /\ p \in Places /\ dir[p] = NoFile /\ dir' = [dir EXCEPT ![p] = f] /\ alive' = alive \cup {f}
        /\ dir \in [Places -> Files \cup {NoFile}] /\ alive \subseteq Files /\ NoFile \notin Files
    BY <1>3, FolderAssumption DEF IntruderCreates, FolderTypeOK, exists, Places
  <2> QED
    BY <2>1 DEF FolderTypeOK, RenamesLoseNothing
<1>4. ASSUME NEW p \in Names, IntruderRemoves(p)
      PROVE  FolderTypeOK' /\ RenamesLoseNothing'
  <2>1. /\ p \in Places /\ dir' = [dir EXCEPT ![p] = NoFile] /\ alive' = alive \ {dir[p]}
        /\ dir \in [Places -> Files \cup {NoFile}] /\ alive \subseteq Files
    BY <1>4 DEF IntruderRemoves, FolderTypeOK, Places
  <2> QED
    BY <2>1 DEF FolderTypeOK, RenamesLoseNothing
<1> QED
  BY <1>1, <1>2, <1>3, <1>4, FolderSteps

LEMMA FolderStarts ==
  ASSUME TransactionInit
  PROVE  FolderTypeOK /\ RenamesLoseNothing
<1>1. /\ dir = [p \in Places |-> IF p \in Names THEN Content[p] ELSE NoFile]
      /\ alive = {Content[p] : p \in Names} \ {NoFile}
      /\ Content \in [Names -> Files \cup {NoFile}]
  BY FolderAssumption DEF TransactionInit
<1> QED
  BY <1>1 DEF FolderTypeOK, RenamesLoseNothing, Places

\* renameat2(RENAME_NOREPLACE) in rename, bulk_rename, their rollbacks and
\* their undos: a file that no other process removed always has a place.
THEOREM NothingIsLost == TransactionSpec => []RenamesLoseNothing
<1>1. FolderTypeOK /\ RenamesLoseNothing /\ [TransactionNext]_transactionVars
         => FolderTypeOK' /\ RenamesLoseNothing'
  BY FolderKept
<1> QED
  BY <1>1, FolderStarts, PTL DEF TransactionSpec

-----------------------------------------------------------------------------
(* The names of a batch.                                                   *)
LEMMA TempsDiffer ==
  /\ \A i \in 1 .. MaxPairs : Temp(i) \in Places /\ Temp(i) \notin Names
  /\ \A i, j \in 1 .. MaxPairs : Temp(i) = Temp(j) => i = j
  /\ \A p \in Temps : \E i \in 1 .. MaxPairs : p = Temp(i)
BY FolderAssumption DEF Temp, Temps, Places

LEMMA PairNames ==
  ASSUME pairs \in Seq(Pairs), Len(pairs) <= MaxPairs, NEW i \in 1 .. Len(pairs)
  PROVE  /\ From(i) \in Names /\ To(i) \in Names /\ i \in 1 .. MaxPairs
         /\ From(i) \in Places /\ To(i) \in Places
<1>1. pairs[i] \in Pairs /\ Len(pairs) \in Nat
  BY ElementOfSeq, LenProperties
<1> QED
  BY <1>1, FolderAssumption DEF From, To, Pairs, Places

-----------------------------------------------------------------------------
(* Steps that leave the folder alone.                                      *)
LEMMA Quiet ==
  ASSUME BatchInv, dir' = dir, touched' = touched, pairs' = pairs, before' = before, errors' = errors,
         \A i \in 1 .. Len(pairs) : Staged(i) /\ dir[Temp(i)] # NoFile => Staged(i)',
         \A i \in 1 .. Len(pairs) : Committed(i)' <=> Committed(i),
         pc = "ended" /\ result = "done" => pc' = "ended" /\ result' = "done"
  PROVE  TempsOwned' /\ NamesOwned'
<1>1. \A i : From(i)' = From(i) /\ To(i)' = To(i)
  BY DEF From, To
<1>2. TempsOwned'
  BY <1>1 DEF BatchInv, TempsOwned, Temp
<1>3. NamesOwned'
  <2> SUFFICES ASSUME errors = {}, ~(pc' = "ended" /\ result' = "done"),
                      NEW p \in Names, dir[p] \notin touched \cup {NoFile}
               PROVE  /\ \A i \in 1 .. Len(pairs) : Committed(i)' /\ To(i) = p => before.dir[From(i)] = dir[p]
                      /\ (\A i \in 1 .. Len(pairs) : ~(Committed(i)' /\ To(i) = p)) => before.dir[p] = dir[p]
    BY <1>1 DEF NamesOwned
  <2>1. /\ \A i \in 1 .. Len(pairs) : Committed(i) /\ To(i) = p => before.dir[From(i)] = dir[p]
        /\ (\A i \in 1 .. Len(pairs) : ~(Committed(i) /\ To(i) = p)) => before.dir[p] = dir[p]
    BY DEF BatchInv, NamesOwned
  <2> QED
    BY <2>1
<1> QED
  BY <1>2, <1>3

(* When no loop runs, no temporary name is in use.                         *)
LEMMA Vacant ==
  ASSUME BatchInv, errors = {}, pc \notin {"stage", "commit", "unrename", "unstage"}
  PROVE  /\ \A i \in 1 .. MaxPairs : dir[Temp(i)] = NoFile
         /\ ~(pc = "ended" /\ result = "done") =>
              \A p \in Names : dir[p] \notin touched \cup {NoFile} => before.dir[p] = dir[p]
<1>1. \A i : ~Staged(i) /\ ~Committed(i)
  BY DEF Staged, Committed
<1> QED
  BY <1>1 DEF BatchInv, TempsOwned, NamesOwned

LEMMA Ready ==
  ASSUME dir' = dir, \A i \in 1 .. MaxPairs : dir[Temp(i)] = NoFile,
         \A p \in Names : dir[p] \notin touched' \cup {NoFile} => before'.dir[p] = dir[p],
         pc' \notin {"commit", "unrename"}
  PROVE  TempsOwned' /\ NamesOwned'
<1>1. \A i : ~Committed(i)'
  BY DEF Committed
<1>2. TempsOwned'
  BY DEF TempsOwned, Temp
<1>3. NamesOwned'
  BY <1>1 DEF NamesOwned
<1> QED
  BY <1>2, <1>3

-----------------------------------------------------------------------------
(* The requests.                                                           *)
LEMMA Begun ==
  ASSUME BatchInv, NEW o, NEW b, NEW e, Begin(o, b, e), pc \in {"idle", "ended"},
         pc = "ended" => result = "done",
         b \in Seq(Pairs), Len(b) <= MaxPairs, o = "single" => Len(b) = 1
  PROVE  BatchInv'
<1>1. errors = {}
  BY DEF BatchInv, LoopOK
<1>2. /\ dir' = dir /\ alive' = alive /\ pairs' = b /\ op' = o /\ pc' = "preflight" /\ k' = 1 /\ completed' = 0
      /\ errors' = {} /\ before'.dir = dir /\ touched' = touched
  BY DEF Begin, folderVars
<1>3. FolderTypeOK' /\ LoopOK'
  BY <1>2 DEF BatchInv, FolderTypeOK, LoopOK
<1>4. TempsOwned' /\ NamesOwned'
  BY <1>1, <1>2, Vacant, Ready
<1> QED
  BY <1>3, <1>4 DEF BatchInv

LEMMA UserKeepsBatch ==
  ASSUME BatchInv, UserNext
  PROVE  BatchInv'
<1>1. ASSUME NEW batch \in Batches, NEW kind \in {"rename", "single"}, RenameRequested(batch, kind)
      PROVE  BatchInv'
  <2>1. PICK n \in 1 .. MaxPairs : batch \in [1 .. n -> Pairs]
    BY DEF Batches
  <2>2. batch \in Seq(Pairs) /\ Len(batch) <= MaxPairs
    BY <2>1, FolderAssumption, SeqDef, LenProperties
  <2> QED
    BY <1>1, <2>2, Begun DEF RenameRequested
<1>2. ASSUME NEW names \in Selections, NEW change \in Changes, ChmodRequested(names, change)
      PROVE  BatchInv'
  <2>1. << >> \in Seq(Pairs) /\ Len(<< >>) <= MaxPairs
    BY FolderAssumption
  <2> QED
    BY <1>2, <2>1, Begun DEF ChmodRequested
<1>3. CASE UndoBatch
  <2> DEFINE b == [i \in DOMAIN pairs |-> [from |-> pairs[i].to, to |-> pairs[i].from]]
  <2>1. pairs \in Seq(Pairs) /\ Len(pairs) \in Nat /\ Len(pairs) <= MaxPairs /\ DOMAIN pairs = 1 .. Len(pairs)
    BY LenProperties DEF BatchInv, LoopOK
  <2>2. \A i \in 1 .. Len(pairs) : [from |-> pairs[i].to, to |-> pairs[i].from] \in Pairs
    BY <2>1, ElementOfSeq DEF Pairs
  <2>3. b \in [1 .. Len(pairs) -> Pairs]
    BY <2>1, <2>2
  <2>4. b \in Seq(Pairs) /\ Len(b) = Len(pairs)
    BY <2>1, <2>3, SeqDef, LenProperties
  <2>5. op = "single" => Len(b) = 1
    BY <2>4 DEF BatchInv, LoopOK
  <2> HIDE DEF b
  <2>6. Begin(op, b, entries) /\ pc = "ended" /\ result = "done"
    BY <1>3 DEF UndoBatch, b
  <2> QED
    BY <2>1, <2>4, <2>5, <2>6, Begun
<1>4. CASE CancelBatch
  <2>1. UNCHANGED <<dir, touched, pairs, before, errors, alive, pc, k, result, op, completed>>
    BY <1>4 DEF CancelBatch, folderVars, batchVars, loopVars, ghostVars
  <2>2. FolderTypeOK' /\ LoopOK' /\ \A i : (Staged(i)' <=> Staged(i)) /\ (Committed(i)' <=> Committed(i))
    BY <2>1 DEF BatchInv, FolderTypeOK, LoopOK, Staged, Committed, To
  <2>3. TempsOwned' /\ NamesOwned'
    BY <2>1, <2>2, Quiet
  <2> QED
    BY <2>2, <2>3 DEF BatchInv
<1> QED
  BY <1>1, <1>2, <1>3, <1>4 DEF UserNext

-----------------------------------------------------------------------------
(* The filter.  It goes along a sequence: one lemma shows that its function *)
(* exists, one what it keeps.                                              *)

\* Every set of numbers has a least one: what the inductions rest on.
LEMMA LeastNumber ==
  ASSUME NEW T, T \subseteq Nat, T # {}
  PROVE  \E n \in T : \A m \in T : n <= m
<1> DEFINE R == {ss \in Nat \X Nat : ss[1] < ss[2]}
<1>1. IsWellFoundedOn(R, Nat)
  BY NatLessThanWellFounded, Zenon DEF OpToRel
<1>2. \E x \in T : \A y \in T : <<y, x>> \notin R
  <2> HIDE DEF R
  <2> QED BY <1>1, WFMin
<1>3. PICK x \in T : \A y \in T : <<y, x>> \notin R
  BY <1>2
<1>4. \A y \in T : ~(y < x)
  <2> SUFFICES ASSUME NEW y \in T, y < x PROVE FALSE
    OBVIOUS
  <2>1. <<y, x>> \in Nat \X Nat /\ <<y, x>>[1] < <<y, x>>[2]
    OBVIOUS
  <2>2. <<y, x>> \in R
    BY <2>1
  <2> QED BY <2>2, <1>3
<1> QED BY <1>3, <1>4

FilteredStep(s, I, f, n) ==
    IF n = 0 THEN << >> ELSE IF n \in I THEN Append(f[n - 1], s[n]) ELSE f[n - 1]
FilteredTo(s, I) == CHOOSE f : f = [n \in 0..Len(s) |-> FilteredStep(s, I, f, n)]

LEMMA FilteredIs ==
  ASSUME NEW s, NEW I
  PROVE  Filtered(s, I) = FilteredTo(s, I)[Len(s)]
BY DEF Filtered, FilteredTo, FilteredStep

LEMMA FilteredExists ==
  ASSUME NEW s, NEW I, Len(s) \in Nat
  PROVE  \E f : f = [n \in 0..Len(s) |-> FilteredStep(s, I, f, n)]
<1> DEFINE Def(m, f) == f = [n \in 0..m |-> FilteredStep(s, I, f, n)]
           T == {m \in Nat : ~\E f : Def(m, f)}
<1>1. \E f : Def(0, f)
  <2>1. Def(0, [n \in 0..0 |-> << >>])
    BY DEF FilteredStep
  <2> QED BY <2>1
<1>2. ASSUME NEW m \in Nat \ {0}, NEW f, Def(m - 1, f)
      PROVE  \E g : Def(m, g)
  <2> DEFINE g == [n \in 0..m |-> IF n < m THEN f[n] ELSE FilteredStep(s, I, f, m)]
  <2>1. ASSUME NEW n \in 0..m PROVE FilteredStep(s, I, g, n) = FilteredStep(s, I, f, n)
    <3>1. CASE n = 0
      BY <3>1 DEF FilteredStep
    <3>2. CASE n # 0
      <4>1. g[n - 1] = f[n - 1]
        BY <3>2
      <4> HIDE DEF g
      <4> QED BY <3>2, <4>1 DEF FilteredStep
    <3> QED BY <3>1, <3>2
  <2>2. \A n \in 0..(m - 1) : f[n] = FilteredStep(s, I, f, n)
    BY <1>2
  <2>3. Def(m, g)
    BY <2>1, <2>2
  <2> QED BY <2>3
<1>3. T = {}
  <2> SUFFICES ASSUME T # {} PROVE FALSE
    OBVIOUS
  <2>1. PICK m \in T : \A n \in T : m <= n
    BY LeastNumber
  <2> HIDE DEF Def
  <2>2. m # 0
    BY <1>1
  <2>3. \E f : Def(m - 1, f)
    BY <2>1, <2>2
  <2> QED BY <2>2, <2>3, <1>2
<1> QED BY <1>3

\* The filter keeps what has an index in I, and nothing else.
KeepsUpTo(s, I, t, n) ==
    /\ Len(t) <= n
    /\ \A j \in 1..Len(t) : \E i \in (1..n) \cap I : t[j] = s[i]
    /\ \A i \in (1..n) \cap I : \E j \in 1..Len(t) : t[j] = s[i]

LEMMA FilterStepKeeps ==
  ASSUME NEW S, NEW s \in Seq(S), NEW I, NEW n \in 1..Len(s), NEW t \in Seq(S), KeepsUpTo(s, I, t, n - 1)
  PROVE  /\ n \in I => Append(t, s[n]) \in Seq(S) /\ KeepsUpTo(s, I, Append(t, s[n]), n)
         /\ n \notin I => KeepsUpTo(s, I, t, n)
<1>0. Len(s) \in Nat /\ n \in Nat /\ Len(t) \in Nat /\ s[n] \in S /\ 1..n = (1..(n - 1)) \cup {n}
  OBVIOUS
<1>1. CASE n \in I
  <2> DEFINE u == Append(t, s[n])
  <2>1. /\ u \in Seq(S) /\ Len(u) = Len(t) + 1 /\ u[Len(t) + 1] = s[n]
        /\ \A j \in 1..Len(t) : u[j] = t[j]
    BY <1>0, AppendProperties
  <2>2. 1..Len(u) = (1..Len(t)) \cup {Len(t) + 1}
    BY <1>0, <2>1
  <2> HIDE DEF u
  <2>3. Len(u) <= n
    BY <1>0, <2>1 DEF KeepsUpTo
  <2>4. ASSUME NEW j \in 1..Len(u) PROVE \E i \in (1..n) \cap I : u[j] = s[i]
    <3>1. CASE j = Len(t) + 1
      BY <1>0, <1>1, <2>1, <3>1
    <3>2. CASE j \in 1..Len(t)
      <4>1. PICK i \in (1..(n - 1)) \cap I : t[j] = s[i]
        BY <3>2 DEF KeepsUpTo
      <4> QED BY <1>0, <2>1, <3>2, <4>1
    <3> QED BY <2>2, <3>1, <3>2
  <2>5. \A i \in (1..n) \cap I : \E j \in 1..Len(u) : u[j] = s[i]
    BY <1>0, <1>1, <2>1, <2>2 DEF KeepsUpTo
  <2> QED BY <1>1, <2>1, <2>3, <2>4, <2>5 DEF KeepsUpTo, u
<1>2. CASE n \notin I
  BY <1>0, <1>2 DEF KeepsUpTo
<1> QED BY <1>1, <1>2

LEMMA FilterKeeps ==
  ASSUME NEW S, NEW s \in Seq(S), NEW I
  PROVE  Filtered(s, I) \in Seq(S) /\ KeepsUpTo(s, I, Filtered(s, I), Len(s))
<1> DEFINE f == FilteredTo(s, I)
           T == {n \in 0..Len(s) : ~(f[n] \in Seq(S) /\ KeepsUpTo(s, I, f[n], n))}
<1>0. Len(s) \in Nat
  OBVIOUS
<1>1. f = [n \in 0..Len(s) |-> FilteredStep(s, I, f, n)]
  BY <1>0, FilteredExists DEF FilteredTo
<1> HIDE DEF f
<1>2. T = {}
  <2> SUFFICES ASSUME T # {} PROVE FALSE
    OBVIOUS
  <2>0. T \subseteq Nat
    OBVIOUS
  <2>1. PICK n \in T : \A m \in T : n <= m
    <3> HIDE DEF T
    <3> QED BY <2>0, LeastNumber
  <2>2. f[n] = FilteredStep(s, I, f, n) /\ n \in 0..Len(s)
    BY <1>1
  <2>3. CASE n = 0
    <3>1. f[n] = << >> /\ << >> \in Seq(S) /\ Len(<< >>) = 0 /\ 1..n = {}
      BY <2>2, <2>3 DEF FilteredStep
    <3>2. KeepsUpTo(s, I, f[n], n)
      BY <2>3, <3>1 DEF KeepsUpTo
    <3> QED BY <3>1, <3>2
  <2>4. CASE n # 0
    <3> DEFINE t == f[n - 1]
    <3>1. n \in 1..Len(s) /\ n - 1 \in 0..Len(s) /\ ~(n <= n - 1)
      BY <1>0, <2>2, <2>4
    <3>2. t \in Seq(S) /\ KeepsUpTo(s, I, t, n - 1)
      BY <2>1, <3>1
    <3>3. f[n] = IF n \in I THEN Append(t, s[n]) ELSE t
      BY <2>2, <2>4 DEF FilteredStep
    <3> HIDE DEF t, T
    <3>4. f[n] \in Seq(S) /\ KeepsUpTo(s, I, f[n], n)
      BY <3>1, <3>2, <3>3, FilterStepKeeps
    <3> QED BY <3>4, <2>1 DEF T
  <2> QED BY <2>3, <2>4
<1>3. f[Len(s)] \in Seq(S) /\ KeepsUpTo(s, I, f[Len(s)], Len(s))
  BY <1>0, <1>2
<1> QED BY <1>3, FilteredIs DEF f

LEMMA FilteredMembers ==
  ASSUME NEW S, NEW s \in Seq(S), NEW I
  PROVE  /\ Filtered(s, I) \in Seq(S) /\ Len(Filtered(s, I)) \in Nat /\ Len(Filtered(s, I)) <= Len(s)
         /\ \A j \in 1..Len(Filtered(s, I)) : \E i \in 1..Len(s) : i \in I /\ Filtered(s, I)[j] = s[i]
         /\ \A i \in 1..Len(s) : i \in I => \E j \in 1..Len(Filtered(s, I)) : Filtered(s, I)[j] = s[i]
<1>1. Filtered(s, I) \in Seq(S) /\ KeepsUpTo(s, I, Filtered(s, I), Len(s))
  BY FilterKeeps
<1> QED BY <1>1 DEF KeepsUpTo

-----------------------------------------------------------------------------
(* The loops of bulk_rename.                                               *)
LEMMA PreflightKeepsBatch ==
  ASSUME BatchInv, PreflightRename
  PROVE  BatchInv'
<1>1. /\ pc = "preflight" /\ op = "rename" /\ dir' = dir /\ alive' = alive /\ op' = op /\ k' = k /\ completed' = completed
      /\ errors' = errors /\ before' = before /\ touched' = touched
  BY DEF PreflightRename, folderVars, ghostVars
<1>2. \/ pc' = "ended" /\ result' \in {"refused", "nothing"}
      \/ pc' = "stage" /\ Valid(pairs')
  BY DEF PreflightRename, End
<1>3. errors = {} /\ k = 1 /\ completed = 0
  BY <1>1 DEF BatchInv, LoopOK
<1>4. pairs' \in Seq(Pairs) /\ Len(pairs') \in Nat /\ Len(pairs') <= MaxPairs
  <2> DEFINE I == {i \in DOMAIN pairs : From(i) # To(i)}
  <2>1. pairs' = Filtered(pairs, I)
    BY DEF PreflightRename
  <2>2. pairs \in Seq(Pairs) /\ Len(pairs) \in Nat /\ Len(pairs) <= MaxPairs
    BY LenProperties DEF BatchInv, LoopOK
  <2> HIDE DEF I
  <2>3. pairs \in Seq(Pairs)
    BY <2>2
  <2>4. Filtered(pairs, I) \in Seq(Pairs) /\ Len(Filtered(pairs, I)) \in Nat
        /\ Len(Filtered(pairs, I)) <= Len(pairs)
    BY <2>3, FilteredMembers
  <2> QED BY <2>1, <2>2, <2>4, FolderAssumption
<1>5. Valid(pairs') => \A i, j \in 1 .. Len(pairs') : To(i)' = To(j)' => i = j
  BY <1>4, LenProperties DEF Valid, To
<1>6. LoopOK'
  BY <1>1, <1>2, <1>3, <1>4, <1>5 DEF LoopOK
<1>7. TempsOwned' /\ NamesOwned'
  BY <1>1, <1>2, <1>3, Vacant, Ready
<1> QED
  BY <1>1, <1>6, <1>7 DEF BatchInv, FolderTypeOK

LEMMA RollBackKeepsBatch ==
  ASSUME BatchInv, pc \in {"stage", "commit"}, k <= Len(pairs), NEW why, RollBack(why, completed),
         UNCHANGED <<dir, batchVars, ghostVars>>
  PROVE  BatchInv'
<1>1. UNCHANGED <<dir, alive, touched, before, pairs, op, errors, result>>
  BY DEF RollBack, batchVars, ghostVars
<1>2. pairs \in Seq(Pairs) /\ Len(pairs) \in Nat /\ k \in 1 .. Len(pairs)
      /\ completed = (IF pc = "stage" THEN 0 ELSE k - 1) /\ errors = {}
  BY LenProperties DEF BatchInv, LoopOK
<1>3. k' = k - 1 /\ pc' = IF pc = "commit" THEN "unrename" ELSE "unstage"
  BY <1>2 DEF RollBack
<1>4. \A i \in 1 .. Len(pairs) : (Staged(i) => Staged(i)') /\ (Committed(i)' <=> Committed(i))
  BY <1>2, <1>3 DEF Staged, Committed
<1>5. TempsOwned' /\ NamesOwned'
  BY <1>1, <1>4, Quiet
<1>6. LoopOK'
  BY <1>1, <1>2, <1>3 DEF BatchInv, LoopOK, To
<1> QED
  BY <1>1, <1>5, <1>6 DEF BatchInv, FolderTypeOK

LEMMA StageKeepsBatch ==
  ASSUME BatchInv, StageOne
  PROVE  BatchInv'
<1>0. pc = "stage" /\ k <= Len(pairs) /\ UNCHANGED <<pairs, op, touched, before, alive>>
  BY DEF StageOne, batchVars, ghostVars
<1>1. pairs \in Seq(Pairs) /\ Len(pairs) \in Nat /\ Len(pairs) <= MaxPairs /\ k \in 1 .. Len(pairs)
      /\ completed = 0 /\ errors = {}
  BY <1>0, LenProperties DEF BatchInv, LoopOK
<1>2. CASE Renames(From(k), Temp(k)) /\ k' = k + 1 /\ UNCHANGED <<pc, result, completed, cause, errors>>
  <2>1. From(k) \in Names /\ k \in 1 .. MaxPairs /\ From(k) \in Places
    BY <1>1, PairNames
  <2>2. /\ dir' \in [Places -> Files \cup {NoFile}]
        /\ dir'[From(k)] = NoFile /\ dir'[Temp(k)] = dir[From(k)]
        /\ \A o \in Places : o # From(k) /\ o # Temp(k) => dir'[o] = dir[o]
    BY <1>2, Moved DEF BatchInv
  <2>3. \A i : ~Committed(i) /\ ~Committed(i)'
    BY <1>0, <1>2 DEF Committed
  <2>4. TempsOwned'
    <3> SUFFICES ASSUME NEW i \in 1 .. MaxPairs, dir'[Temp(i)] # NoFile
                 PROVE  /\ i \in 1 .. Len(pairs) /\ Staged(i)'
                        /\ dir'[Temp(i)] \notin touched => before.dir[From(i)] = dir'[Temp(i)]
      BY <1>0 DEF TempsOwned, Temp, From
    <3>1. CASE i = k
      <4>1. dir[From(k)] \notin touched \cup {NoFile} => before.dir[From(k)] = dir[From(k)]
        BY <1>0, <1>1, <2>1, <2>3 DEF BatchInv, NamesOwned
      <4>2. Staged(i)'
        BY <1>0, <1>1, <1>2, <3>1 DEF Staged
      <4> QED
        BY <1>1, <2>2, <3>1, <4>1, <4>2
    <3>2. CASE i # k
      <4>1. dir'[Temp(i)] = dir[Temp(i)]
        BY <2>1, <2>2, <3>2, TempsDiffer
      <4>2. i \in 1 .. Len(pairs) /\ Staged(i) /\ (dir[Temp(i)] \notin touched => before.dir[From(i)] = dir[Temp(i)])
        BY <1>1, <4>1 DEF BatchInv, TempsOwned
      <4>3. Staged(i)'
        BY <1>0, <1>1, <1>2, <4>2 DEF Staged
      <4> QED
        BY <4>1, <4>2, <4>3
    <3> QED
      BY <3>1, <3>2
  <2>5. NamesOwned'
    <3> SUFFICES ASSUME NEW p \in Names, dir'[p] \notin touched \cup {NoFile}
                 PROVE  before.dir[p] = dir'[p]
      BY <1>0, <2>3 DEF NamesOwned
    <3>1. p # Temp(k) /\ p \in Places
      BY <2>1, TempsDiffer DEF Places
    <3>2. p # From(k)
      BY <2>2
    <3>3. dir'[p] = dir[p]
      BY <2>2, <3>1, <3>2
    <3> QED
      BY <1>0, <1>1, <2>3, <3>3 DEF BatchInv, NamesOwned
  <2>6. LoopOK'
    BY <1>0, <1>1, <1>2 DEF BatchInv, LoopOK, To
  <2> QED
    BY <1>0, <2>2, <2>4, <2>5, <2>6 DEF BatchInv, FolderTypeOK
<1>3. CASE Refuses(CanRename(From(k), Temp(k))) /\ RollBack("failed", 0)
  BY <1>0, <1>1, <1>3, RollBackKeepsBatch DEF StageOne, Refuses, folderVars
<1> QED
  BY <1>2, <1>3 DEF StageOne

LEMMA CommitKeepsBatch ==
  ASSUME BatchInv, CommitOne
  PROVE  BatchInv'
<1>0. pc = "commit" /\ k <= Len(pairs) /\ UNCHANGED <<pairs, op, touched, before, alive>>
  BY DEF CommitOne, batchVars, ghostVars
<1>1. pairs \in Seq(Pairs) /\ Len(pairs) \in Nat /\ Len(pairs) <= MaxPairs /\ k \in 1 .. Len(pairs)
      /\ completed = k - 1 /\ errors = {} /\ \A i, j \in 1 .. Len(pairs) : To(i) = To(j) => i = j
  BY <1>0, LenProperties DEF BatchInv, LoopOK
<1>2. CASE Renames(Temp(k), To(k)) /\ k' = k + 1 /\ completed' = k /\ UNCHANGED <<pc, result, cause, errors>>
  <2>1. To(k) \in Names /\ k \in 1 .. MaxPairs /\ To(k) \in Places
    BY <1>1, PairNames
  <2>2. /\ dir' \in [Places -> Files \cup {NoFile}]
        /\ dir'[Temp(k)] = NoFile /\ dir'[To(k)] = dir[Temp(k)] /\ dir[Temp(k)] \in Files
        /\ \A o \in Places : o # To(k) /\ o # Temp(k) => dir'[o] = dir[o]
    BY <1>2, Moved DEF BatchInv
  <2>3. \A i \in 1 .. Len(pairs) : (Committed(i) <=> i < k) /\ (Committed(i)' <=> i <= k)
                                   /\ (Staged(i) <=> i >= k) /\ (Staged(i)' <=> i > k)
    BY <1>0, <1>1, <1>2 DEF Committed, Staged
  <2>4. TempsOwned'
    <3> SUFFICES ASSUME NEW i \in 1 .. MaxPairs, dir'[Temp(i)] # NoFile
                 PROVE  /\ i \in 1 .. Len(pairs) /\ Staged(i)'
                        /\ dir'[Temp(i)] \notin touched => before.dir[From(i)] = dir'[Temp(i)]
      BY <1>0 DEF TempsOwned, Temp, From
    <3>1. i # k
      BY <2>2
    <3>2. dir'[Temp(i)] = dir[Temp(i)]
      BY <2>1, <2>2, <3>1, TempsDiffer
    <3>3. i \in 1 .. Len(pairs) /\ Staged(i) /\ (dir[Temp(i)] \notin touched => before.dir[From(i)] = dir[Temp(i)])
      BY <1>1, <3>2 DEF BatchInv, TempsOwned
    <3>4. Staged(i)'
      BY <1>1, <2>3, <3>1, <3>3
    <3> QED
      BY <3>2, <3>3, <3>4
  <2>5. NamesOwned'
    <3> SUFFICES ASSUME NEW p \in Names, dir'[p] \notin touched \cup {NoFile}
                 PROVE  /\ \A i \in 1 .. Len(pairs) : Committed(i)' /\ To(i) = p => before.dir[From(i)] = dir'[p]
                        /\ (\A i \in 1 .. Len(pairs) : ~(Committed(i)' /\ To(i) = p)) => before.dir[p] = dir'[p]
      BY <1>0 DEF NamesOwned, To, From
    <3>1. CASE p = To(k)
      <4>1. before.dir[From(k)] = dir'[p]
        BY <1>1, <2>1, <2>2, <3>1 DEF BatchInv, TempsOwned
      <4>2. \A i \in 1 .. Len(pairs) : (To(i) = p <=> i = k) /\ (i = k => Committed(i)')
        BY <1>1, <2>3, <3>1
      <4> QED
        BY <1>1, <3>1, <4>1, <4>2
    <3>2. CASE p # To(k)
      <4>1. dir'[p] = dir[p]
        BY <2>1, <2>2, <3>2, TempsDiffer DEF Places
      <4>2. /\ \A i \in 1 .. Len(pairs) : Committed(i) /\ To(i) = p => before.dir[From(i)] = dir[p]
            /\ (\A i \in 1 .. Len(pairs) : ~(Committed(i) /\ To(i) = p)) => before.dir[p] = dir[p]
        BY <1>0, <1>1, <4>1 DEF BatchInv, NamesOwned
      <4>3. \A i \in 1 .. Len(pairs) : To(i) = p => (Committed(i)' <=> Committed(i))
        BY <1>1, <2>3, <3>2
      <4> QED
        BY <4>1, <4>2, <4>3
    <3> QED
      BY <3>1, <3>2
  <2>6. LoopOK'
    BY <1>0, <1>1, <1>2 DEF BatchInv, LoopOK, To
  <2> QED
    BY <1>0, <2>2, <2>4, <2>5, <2>6 DEF BatchInv, FolderTypeOK
<1>3. CASE Refuses(CanRename(Temp(k), To(k))) /\ RollBack("failed", completed)
  BY <1>0, <1>1, <1>3, RollBackKeepsBatch DEF CommitOne, Refuses, folderVars
<1> QED
  BY <1>2, <1>3 DEF CommitOne

LEMMA UnrenameKeepsBatch ==
  ASSUME BatchInv, Unrename
  PROVE  BatchInv'
<1>0. pc = "unrename" /\ k > 0 /\ k' = k - 1 /\ UNCHANGED <<pc, result, completed, pairs, op, touched, before, alive>>
  BY DEF Unrename, batchVars, ghostVars
<1>1. pairs \in Seq(Pairs) /\ Len(pairs) \in Nat /\ Len(pairs) <= MaxPairs /\ k \in 1 .. Len(pairs)
      /\ \A i, j \in 1 .. Len(pairs) : To(i) = To(j) => i = j
  BY <1>0, LenProperties DEF BatchInv, LoopOK
<1>6. LoopOK'
  BY <1>0, <1>1 DEF BatchInv, LoopOK, To
<1>2. CASE Renames(To(k), Temp(k)) /\ UNCHANGED errors
  <2>1. To(k) \in Names /\ k \in 1 .. MaxPairs /\ To(k) \in Places
    BY <1>1, PairNames
  <2>2. /\ dir' \in [Places -> Files \cup {NoFile}]
        /\ dir'[To(k)] = NoFile /\ dir'[Temp(k)] = dir[To(k)] /\ dir[To(k)] \in Files
        /\ \A o \in Places : o # To(k) /\ o # Temp(k) => dir'[o] = dir[o]
    BY <1>2, Moved DEF BatchInv
  <2>3. \A i \in 1 .. Len(pairs) : (Committed(i) <=> i <= k) /\ (Committed(i)' <=> i < k)
                                   /\ (Staged(i) <=> i > k) /\ (Staged(i)' <=> i >= k)
    BY <1>0, <1>1 DEF Committed, Staged
  <2>4. TempsOwned'
    <3> SUFFICES ASSUME errors = {}, NEW i \in 1 .. MaxPairs, dir'[Temp(i)] # NoFile
                 PROVE  /\ i \in 1 .. Len(pairs) /\ Staged(i)'
                        /\ dir'[Temp(i)] \notin touched => before.dir[From(i)] = dir'[Temp(i)]
      BY <1>0, <1>2 DEF TempsOwned, Temp, From
    <3>1. CASE i = k
      <4>1. dir[To(k)] \notin touched => before.dir[From(k)] = dir[To(k)]
        BY <1>0, <1>1, <2>1, <2>2, <2>3, FolderAssumption DEF BatchInv, NamesOwned
      <4>2. Staged(i)'
        BY <1>1, <2>3, <3>1
      <4> QED
        BY <1>1, <2>2, <3>1, <4>1, <4>2
    <3>2. CASE i # k
      <4>1. dir'[Temp(i)] = dir[Temp(i)]
        BY <2>1, <2>2, <3>2, TempsDiffer
      <4>2. i \in 1 .. Len(pairs) /\ Staged(i) /\ (dir[Temp(i)] \notin touched => before.dir[From(i)] = dir[Temp(i)])
        BY <4>1 DEF BatchInv, TempsOwned
      <4>3. Staged(i)'
        BY <1>1, <2>3, <4>2
      <4> QED
        BY <4>1, <4>2, <4>3
    <3> QED
      BY <3>1, <3>2
  <2>5. NamesOwned'
    <3> SUFFICES ASSUME errors = {}, NEW p \in Names, dir'[p] \notin touched \cup {NoFile}
                 PROVE  /\ \A i \in 1 .. Len(pairs) : Committed(i)' /\ To(i) = p => before.dir[From(i)] = dir'[p]
                        /\ (\A i \in 1 .. Len(pairs) : ~(Committed(i)' /\ To(i) = p)) => before.dir[p] = dir'[p]
      BY <1>0, <1>2 DEF NamesOwned, To, From
    <3>1. p # To(k)
      BY <2>2
    <3>2. dir'[p] = dir[p]
      BY <2>1, <2>2, <3>1, TempsDiffer DEF Places
    <3>3. /\ \A i \in 1 .. Len(pairs) : Committed(i) /\ To(i) = p => before.dir[From(i)] = dir[p]
          /\ (\A i \in 1 .. Len(pairs) : ~(Committed(i) /\ To(i) = p)) => before.dir[p] = dir[p]
      BY <1>0, <3>2 DEF BatchInv, NamesOwned
    <3>4. \A i \in 1 .. Len(pairs) : To(i) = p => (Committed(i)' <=> Committed(i))
      BY <1>1, <2>3, <3>1
    <3> QED
      BY <3>2, <3>3, <3>4
  <2> QED
    BY <1>0, <1>6, <2>2, <2>4, <2>5 DEF BatchInv, FolderTypeOK
<1>3. CASE Refuses(CanRename(To(k), Temp(k))) /\ errors' = errors \cup {k}
  <2>1. dir' = dir /\ errors' # {}
    BY <1>3 DEF Refuses, folderVars
  <2> QED
    BY <1>0, <1>6, <2>1 DEF BatchInv, FolderTypeOK, TempsOwned, NamesOwned
<1> QED
  BY <1>2, <1>3 DEF Unrename

LEMMA UnstageKeepsBatch ==
  ASSUME BatchInv, Unstage
  PROVE  BatchInv'
<1>0. pc = "unstage" /\ k > 0 /\ k' = k - 1 /\ UNCHANGED <<pc, result, completed, pairs, op, touched, before, alive>>
  BY DEF Unstage, batchVars, ghostVars
<1>1. pairs \in Seq(Pairs) /\ Len(pairs) \in Nat /\ Len(pairs) <= MaxPairs /\ k \in 1 .. Len(pairs)
  BY <1>0, LenProperties DEF BatchInv, LoopOK
<1>6. LoopOK'
  BY <1>0, <1>1 DEF BatchInv, LoopOK, To
<1>7. \A i : ~Committed(i) /\ ~Committed(i)'
  BY <1>0 DEF Committed
<1>8. \A i \in 1 .. Len(pairs) : (Staged(i) <=> i <= k) /\ (Staged(i)' <=> i < k)
  BY <1>0, <1>1 DEF Staged
<1>2. CASE Renames(Temp(k), From(k)) /\ UNCHANGED errors
  <2>1. From(k) \in Names /\ k \in 1 .. MaxPairs /\ From(k) \in Places
    BY <1>1, PairNames
  <2>2. /\ dir' \in [Places -> Files \cup {NoFile}]
        /\ dir'[Temp(k)] = NoFile /\ dir'[From(k)] = dir[Temp(k)] /\ dir[Temp(k)] \in Files
        /\ \A o \in Places : o # From(k) /\ o # Temp(k) => dir'[o] = dir[o]
    BY <1>2, Moved DEF BatchInv
  <2>4. TempsOwned'
    <3> SUFFICES ASSUME errors = {}, NEW i \in 1 .. MaxPairs, dir'[Temp(i)] # NoFile
                 PROVE  /\ i \in 1 .. Len(pairs) /\ Staged(i)'
                        /\ dir'[Temp(i)] \notin touched => before.dir[From(i)] = dir'[Temp(i)]
      BY <1>0, <1>2 DEF TempsOwned, Temp, From
    <3>1. i # k
      BY <2>2
    <3>2. dir'[Temp(i)] = dir[Temp(i)]
      BY <2>1, <2>2, <3>1, TempsDiffer
    <3>3. i \in 1 .. Len(pairs) /\ Staged(i) /\ (dir[Temp(i)] \notin touched => before.dir[From(i)] = dir[Temp(i)])
      BY <3>2 DEF BatchInv, TempsOwned
    <3> QED
      BY <1>1, <1>8, <3>1, <3>2, <3>3
  <2>5. NamesOwned'
    <3> SUFFICES ASSUME errors = {}, NEW p \in Names, dir'[p] \notin touched \cup {NoFile}
                 PROVE  before.dir[p] = dir'[p]
      BY <1>0, <1>2, <1>7 DEF NamesOwned
    <3>1. CASE p = From(k)
      BY <2>1, <2>2, <3>1, FolderAssumption DEF BatchInv, TempsOwned
    <3>2. CASE p # From(k)
      <4>1. dir'[p] = dir[p]
        BY <2>1, <2>2, <3>2, TempsDiffer DEF Places
      <4> QED
        BY <1>0, <1>7, <4>1 DEF BatchInv, NamesOwned
    <3> QED
      BY <3>1, <3>2
  <2> QED
    BY <1>0, <1>6, <2>2, <2>4, <2>5 DEF BatchInv, FolderTypeOK
<1>3. CASE errors' = errors \cup {k} /\ UNCHANGED folderVars
  BY <1>0, <1>3, <1>6 DEF BatchInv, FolderTypeOK, TempsOwned, NamesOwned, folderVars
<1>4. CASE ~exists(Temp(k)) /\ UNCHANGED <<folderVars, failures, errors>>
  <2>1. dir' = dir /\ errors' = errors
    BY <1>4 DEF folderVars
  <2>2. dir[Temp(k)] = NoFile
    BY <1>1, <1>4, PairNames, TempsDiffer DEF exists
  <2>3. \A i \in 1 .. Len(pairs) : Staged(i) /\ dir[Temp(i)] # NoFile => Staged(i)'
    BY <1>1, <1>8, <2>2
  <2>4. TempsOwned' /\ NamesOwned'
    BY <1>0, <1>7, <2>1, <2>3, Quiet
  <2> QED
    BY <1>0, <1>6, <2>1, <2>4 DEF BatchInv, FolderTypeOK
<1> QED
  BY <1>2, <1>3, <1>4 DEF Unstage, Refuses

-----------------------------------------------------------------------------
(* The steps that leave the folder to the other process, and its steps.    *)
LEMMA LoopStepsKeepBatch ==
  ASSUME BatchInv, StopForCancel \/ LoopEnds \/ Unrenamed \/ RolledBack
  PROVE  BatchInv'
<1>1. CASE StopForCancel
  BY <1>1, RollBackKeepsBatch DEF StopForCancel, folderVars
<1>2. CASE LoopEnds
  <2>1. UNCHANGED <<dir, alive, touched, before, pairs, op, errors, completed>>
    BY <1>2 DEF LoopEnds, folderVars, batchVars, ghostVars
  <2>2. pairs \in Seq(Pairs) /\ Len(pairs) \in Nat /\ k = Len(pairs) + 1 /\ errors = {} /\ pc \in {"stage", "commit"}
        /\ (pc = "stage" => completed = 0)
    BY <1>2, LenProperties DEF BatchInv, LoopOK, LoopEnds
  <2>3. CASE pc = "stage"
    <3>1. pc' = "commit" /\ k' = 1 /\ result' = result
      BY <1>2, <2>3 DEF LoopEnds
    <3>2. \A i \in 1 .. Len(pairs) : Staged(i)' /\ ~Committed(i) /\ ~Committed(i)'
      BY <2>2, <2>3, <3>1 DEF Staged, Committed
    <3>3. TempsOwned' /\ NamesOwned'
      BY <2>1, <2>3, <3>2, Quiet
    <3>4. LoopOK'
      BY <2>1, <2>2, <2>3, <3>1 DEF BatchInv, LoopOK, To
    <3> QED
      BY <2>1, <3>3, <3>4 DEF BatchInv, FolderTypeOK
  <2>4. CASE pc = "commit"
    <3>1. pc' = "ended" /\ result' = "done"
      BY <1>2, <2>4 DEF LoopEnds, End
    <3>2. \A i \in 1 .. Len(pairs) : ~Staged(i)
      BY <2>2, <2>4 DEF Staged
    <3>3. TempsOwned'
      BY <2>1, <3>2 DEF BatchInv, TempsOwned, Temp
    <3>4. NamesOwned' /\ LoopOK'
      BY <2>1, <2>2, <3>1 DEF BatchInv, LoopOK, NamesOwned
    <3> QED
      BY <2>1, <3>3, <3>4 DEF BatchInv, FolderTypeOK
  <2> QED
    BY <2>2, <2>3, <2>4
<1>3. CASE Unrenamed
  <2>1. UNCHANGED <<dir, alive, touched, before, pairs, op, errors, completed, result>>
    BY <1>3 DEF Unrenamed, folderVars, batchVars, ghostVars
  <2>2. pc = "unrename" /\ k = 0 /\ pc' = "unstage" /\ k' = Len(pairs) /\ Len(pairs) \in Nat
    BY <1>3, LenProperties DEF Unrenamed, BatchInv, LoopOK
  <2>3. \A i \in 1 .. Len(pairs) : Staged(i)' /\ ~Committed(i) /\ ~Committed(i)'
    BY <2>2 DEF Staged, Committed
  <2>4. TempsOwned' /\ NamesOwned'
    BY <2>1, <2>2, <2>3, Quiet
  <2>5. LoopOK'
    BY <2>1, <2>2 DEF BatchInv, LoopOK, To
  <2> QED
    BY <2>1, <2>4, <2>5 DEF BatchInv, FolderTypeOK
<1>4. CASE RolledBack
  <2>1. UNCHANGED <<dir, alive, touched, before, pairs, op, errors, completed>>
    BY <1>4 DEF RolledBack, folderVars, batchVars, ghostVars
  <2>2. pc \in {"unstage", "unchmod"} /\ k = 0 /\ pc' = "ended" /\ (errors # {} => result' = "rollback failed")
    BY <1>4 DEF RolledBack, End
  <2>3. pc \in {"unstage", "unchmod"} /\ k = 0
    BY <2>2
  <2>4. Len(pairs) \in Nat
    BY LenProperties DEF BatchInv, LoopOK
  <2>5. \A i \in 1 .. Len(pairs) : ~Staged(i) /\ ~Committed(i) /\ ~Committed(i)'
    <3> SUFFICES ASSUME NEW i \in 1 .. Len(pairs)
                 PROVE  ~Staged(i) /\ ~Committed(i) /\ ~Committed(i)'
      OBVIOUS
    <3>1. i \in Nat /\ i >= 1
      BY <2>4
    <3>2. ~Staged(i)
      BY <2>3, <3>1 DEF Staged
    <3>3. ~Committed(i)
      BY <2>2 DEF Committed
    <3>4. ~Committed(i)'
      BY <2>2 DEF Committed
    <3> QED
      BY <3>2, <3>3, <3>4
  <2>6. TempsOwned' /\ NamesOwned'
    BY <2>1, <2>2, <2>5, Quiet
  <2>7. LoopOK'
    BY <2>1, <2>2 DEF BatchInv, LoopOK
  <2> QED
    BY <2>1, <2>6, <2>7 DEF BatchInv, FolderTypeOK
<1> QED
  BY <1>1, <1>2, <1>3, <1>4

LEMMA SingleKeepsBatch ==
  ASSUME BatchInv, SingleRename
  PROVE  BatchInv'
<1>1. UNCHANGED <<alive, touched, before, pairs, op, errors, completed, k>> /\ pc = "preflight" /\ op = "single" /\ pc' = "ended"
  BY DEF SingleRename, batchVars, ghostVars, End
<1>2. pairs \in Seq(Pairs) /\ Len(pairs) = 1 /\ Len(pairs) <= MaxPairs /\ 1 \in 1 .. Len(pairs) /\ errors = {}
  BY <1>1 DEF BatchInv, LoopOK
<1>3. LoopOK'
  BY <1>1, <1>2 DEF LoopOK
<1>4. \A i \in 1 .. MaxPairs : dir[Temp(i)] = NoFile
  BY <1>1, <1>2, Vacant
<1>5. CASE Renames(From(1), To(1)) /\ End("done")
  <2>1. From(1) \in Names /\ To(1) \in Names
    BY <1>2, PairNames
  <2>2. /\ dir' \in [Places -> Files \cup {NoFile}]
        /\ \A o \in Places : o # From(1) /\ o # To(1) => dir'[o] = dir[o]
    BY <1>5, Moved DEF BatchInv
  <2>3. TempsOwned'
    BY <1>4, <2>1, <2>2, TempsDiffer DEF TempsOwned, Temp
  <2>4. NamesOwned'
    BY <1>5 DEF NamesOwned, End
  <2> QED
    BY <1>1, <1>3, <2>2, <2>3, <2>4 DEF BatchInv, FolderTypeOK
<1>6. CASE Refuses(CanRename(From(1), To(1))) /\ End("failed")
  <2>1. dir' = dir
    BY <1>6 DEF Refuses, folderVars
  <2>2. TempsOwned' /\ NamesOwned'
    BY <1>1, <1>2, <2>1, Vacant, Ready
  <2> QED
    BY <1>1, <1>3, <2>1, <2>2 DEF BatchInv, FolderTypeOK
<1> QED
  BY <1>5, <1>6 DEF SingleRename

LEMMA ChmodKeepsBatch ==
  ASSUME BatchInv, ChmodNext
  PROVE  BatchInv'
<1>1. UNCHANGED <<dir, alive, touched, before, pairs, op, completed>>
  BY DEF ChmodNext, PreflightChmod, PreflightRestore, ChmodOne, ChmodEnds, Unchmod, Chmods, Refuses,
         folderVars, batchVars, ghostVars
<1>2. /\ pc \in {"preflight", "chmod", "unchmod"} /\ pc' \in {"chmod", "unchmod", "ended"}
      /\ pc' = "chmod" => errors' = errors /\ pc \in {"preflight", "chmod"}
      /\ pc' = "ended" => errors' = errors /\ pc \in {"preflight", "chmod"}
      /\ pc \in {"preflight", "chmod"} => errors' = errors
      /\ errors' # errors => errors' # {}
  <2>1. CASE PreflightChmod \/ PreflightRestore
    BY <2>1 DEF PreflightChmod, PreflightRestore, End
  <2>2. CASE ChmodOne
    BY <2>2 DEF ChmodOne, End
  <2>3. CASE ChmodEnds
    BY <2>3 DEF ChmodEnds, End
  <2>4. CASE Unchmod
    BY <2>4 DEF Unchmod
  <2> QED
    BY <2>1, <2>2, <2>3, <2>4 DEF ChmodNext
<1>3. \A i : ~Staged(i) /\ ~Committed(i) /\ ~Committed(i)'
  BY <1>2 DEF Staged, Committed
<1>4. TempsOwned' /\ NamesOwned'
  <2>1. CASE errors' = errors
    BY <1>1, <1>2, <1>3, <2>1, Quiet
  <2>2. CASE errors' # {}
    BY <2>2 DEF TempsOwned, NamesOwned
  <2> QED
    BY <1>2, <2>1, <2>2
<1>5. LoopOK'
  BY <1>1, <1>2 DEF BatchInv, LoopOK
<1> QED
  BY <1>1, <1>4, <1>5 DEF BatchInv, FolderTypeOK

LEMMA IntruderKeepsBatch ==
  ASSUME BatchInv, IntruderNext
  PROVE  TempsOwned' /\ NamesOwned' /\ LoopOK'
<1>1. PICK p \in Names :
        \/ \E f \in Files : IntruderCreates(p, f)
        \/ IntruderRemoves(p)
        \/ \E bits \in SUBSET Bits : IntruderChmods(p, bits)
  BY DEF IntruderNext
<1>2. UNCHANGED <<pairs, op, pc, result, k, completed, errors, before>>
  BY <1>1 DEF IntruderCreates, IntruderRemoves, IntruderChmods, IntruderStep, batchVars, loopVars
<1>3. /\ touched \subseteq touched' /\ \A o \in Places : o # p => dir'[o] = dir[o]
      /\ dir'[p] = dir[p] \/ dir'[p] \in touched' \cup {NoFile}
      /\ p \in Places
  <2>1. dir \in [Places -> Files \cup {NoFile}] /\ p \in Places
    BY DEF BatchInv, FolderTypeOK, Places
  <2> QED
    BY <1>1, <2>1 DEF IntruderCreates, IntruderRemoves, IntruderChmods
<1>4. \A i : (Staged(i)' <=> Staged(i)) /\ (Committed(i)' <=> Committed(i)) /\ To(i)' = To(i) /\ From(i)' = From(i)
  BY <1>2 DEF Staged, Committed, To, From
<1>5. TempsOwned'
  <2>1. \A i \in 1 .. MaxPairs : dir'[Temp(i)] = dir[Temp(i)]
    BY <1>3, TempsDiffer
  <2> QED
    BY <1>2, <1>3, <1>4, <2>1 DEF BatchInv, TempsOwned, Temp
<1>6. NamesOwned'
  <2> SUFFICES ASSUME errors = {}, ~(pc = "ended" /\ result = "done"),
                      NEW o \in Names, dir'[o] \notin touched' \cup {NoFile}
               PROVE  /\ \A i \in 1 .. Len(pairs) : Committed(i) /\ To(i) = o => before.dir[From(i)] = dir'[o]
                      /\ (\A i \in 1 .. Len(pairs) : ~(Committed(i) /\ To(i) = o)) => before.dir[o] = dir'[o]
    BY <1>2, <1>4 DEF NamesOwned
  <2>1. dir'[o] = dir[o]
    BY <1>3 DEF Places
  <2> QED
    BY <1>3, <2>1 DEF BatchInv, NamesOwned
<1>7. LoopOK'
  BY <1>2, <1>4 DEF BatchInv, LoopOK
<1> QED
  BY <1>5, <1>6, <1>7

-----------------------------------------------------------------------------
LEMMA BatchStarts ==
  ASSUME TransactionInit
  PROVE  BatchInv
<1>1. FolderTypeOK
  BY FolderStarts
<1>2. LoopOK
  <2>1. pairs = << >> /\ pairs \in Seq(Pairs) /\ Len(pairs) = 0
    BY DEF TransactionInit
  <2> QED
    BY <2>1, FolderAssumption DEF TransactionInit, LoopOK
<1>3. /\ pc = "idle" /\ before.dir = dir
      /\ \A i \in 1 .. MaxPairs : dir[Temp(i)] = NoFile
  BY TempsDiffer DEF TransactionInit
<1>4. \A i : ~Committed(i)
  BY <1>3 DEF Committed
<1> QED
  BY <1>1, <1>2, <1>3, <1>4 DEF BatchInv, TempsOwned, NamesOwned

LEMMA BatchKept ==
  ASSUME BatchInv, RenamesLoseNothing, [TransactionNext]_transactionVars
  PROVE  BatchInv'
<1>1. CASE UserNext
  BY <1>1, UserKeepsBatch
<1>2. CASE RenameNext
  BY <1>2, PreflightKeepsBatch, StageKeepsBatch, CommitKeepsBatch, UnrenameKeepsBatch, UnstageKeepsBatch,
     LoopStepsKeepBatch, SingleKeepsBatch DEF RenameNext
<1>3. CASE ChmodNext
  BY <1>3, ChmodKeepsBatch
<1>4. CASE IntruderNext
  BY <1>4, IntruderKeepsBatch, FolderKept DEF BatchInv
<1>5. CASE UNCHANGED transactionVars
  <2>1. UNCHANGED <<dir, touched, pairs, before, errors, alive, pc, k, result, op, completed>>
    BY <1>5 DEF transactionVars, folderVars, batchVars, loopVars, ghostVars
  <2>2. FolderTypeOK' /\ LoopOK' /\ \A i : (Staged(i)' <=> Staged(i)) /\ (Committed(i)' <=> Committed(i))
    BY <2>1 DEF BatchInv, FolderTypeOK, LoopOK, Staged, Committed, To
  <2>3. TempsOwned' /\ NamesOwned'
    BY <2>1, <2>2, Quiet
  <2> QED
    BY <2>2, <2>3 DEF BatchInv
<1> QED
  BY <1>1, <1>2, <1>3, <1>4, <1>5 DEF TransactionNext

\* bulk_rename, rollback_bulk_rename and rollback_staged: a batch that gives
\* up leaves every file that no other process touched where it was, and no
\* temporary name.
THEOREM BatchIsAllOrNothing == TransactionSpec => []FailedBatchIsUndone
<1>1. ASSUME BatchInv PROVE FailedBatchIsUndone
  <2> SUFFICES ASSUME pc = "ended", result \in {"failed", "cancelled", "refused"}, NEW p \in Places
               PROVE  /\ dir[p] \notin touched \cup {NoFile} => before.dir[p] = dir[p]
                      /\ p \in Temps => dir[p] = NoFile
    BY DEF FailedBatchIsUndone
  <2>1. errors = {}
    BY <1>1 DEF BatchInv, LoopOK
  <2>2. /\ \A i \in 1 .. MaxPairs : dir[Temp(i)] = NoFile
        /\ \A o \in Names : dir[o] \notin touched \cup {NoFile} => before.dir[o] = dir[o]
    BY <1>1, <2>1, Vacant
  <2>3. p \in Temps => dir[p] = NoFile
    BY <2>2, TempsDiffer
  <2> QED
    BY <2>2, <2>3 DEF Places
<1>2. BatchInv /\ RenamesLoseNothing /\ [TransactionNext]_transactionVars => BatchInv' /\ RenamesLoseNothing'
  BY BatchKept, FolderKept DEF BatchInv
<1>3. TransactionInit => BatchInv /\ RenamesLoseNothing
  BY BatchStarts, FolderStarts
<1> QED
  BY <1>1, <1>2, <1>3, PTL DEF TransactionSpec

-----------------------------------------------------------------------------
(* set_permissions: the modes that are changed at each point of its loops. *)
PermissionEntries ==
    [name : Names, file : Files \cup {NoFile}, before : SUBSET Bits, after : SUBSET Bits]

ModesTypeOK ==
    /\ mode \in [Files -> SUBSET Bits] /\ entries \in Seq(PermissionEntries)
    /\ pc \in {"idle", "preflight", "stage", "commit", "unrename", "unstage", "chmod", "unchmod", "ended"}

\* Which operation is in which loop.
ChmodLoopOK ==
    /\ pc \in {"stage", "commit", "unrename", "unstage"} => op = "rename"
    /\ pc \in {"chmod", "unchmod"} =>
          op = "chmod" /\ \A i \in 1 .. Len(entries) : entries[i].file \in Files
    /\ pc = "chmod" => k \in 1 .. Len(entries) + 1
    /\ pc = "unchmod" => k \in 0 .. Len(entries) /\ ~undoing

Applied(i) == (pc = "chmod" /\ i < k) \/ (pc = "unchmod" /\ i <= k)

\* A file that no other process changed has its mode, or one of the entries that
\* are applied changed it.
ModesOwned ==
    /\ op = "chmod" /\ errors = {}
    /\ pc \in {"preflight", "chmod", "unchmod"} \/ (pc = "ended" /\ result \in {"failed", "refused"})
    => \A f \in Files \ touched :
          mode[f] = before.mode[f] \/ \E i \in 1 .. Len(entries) : Applied(i) /\ entries[i].file = f

\* The entries know the modes that their files had.
ModesKnown ==
    pc \in {"chmod", "unchmod"} =>
       \A i \in 1 .. Len(entries) :
          entries[i].file \notin touched => entries[i].before = before.mode[entries[i].file]

ChmodInv == ModesTypeOK /\ ChmodLoopOK /\ ModesOwned /\ ModesKnown

\* Nothing in ChmodInv sees the steps of renames.
LEMMA ChmodUnseen ==
  ASSUME ChmodInv, UNCHANGED <<mode, entries, before, touched, undoing, op>>,
         op # "chmod",
         pc' \in {"preflight", "stage", "commit", "unrename", "unstage", "ended"},
         pc' \in {"stage", "commit", "unrename", "unstage"} => op = "rename"
  PROVE  ChmodInv'
<1>1. ModesTypeOK' /\ ChmodLoopOK'
  BY DEF ChmodInv, ModesTypeOK, ChmodLoopOK
<1>2. ModesOwned' /\ ModesKnown'
  BY DEF ChmodInv, ModesOwned, ModesKnown
<1> QED BY <1>1, <1>2 DEF ChmodInv

LEMMA RenameKeepsModes ==
  ASSUME BatchInv, ChmodInv, RenameNext
  PROVE  ChmodInv'
<1>1. CASE PreflightRename
  <2>1. UNCHANGED <<mode, entries, before, touched, undoing, op>> /\ op = "rename" /\ pc' \in {"stage", "ended"}
    BY <1>1 DEF PreflightRename, folderVars, ghostVars, End
  <2> QED BY <2>1, ChmodUnseen
<1>2. CASE StopForCancel
  <2>1. UNCHANGED <<mode, entries, before, touched, undoing, op>> /\ pc' \in {"unrename", "unstage"}
        /\ op = "rename"
    BY <1>2 DEF StopForCancel, RollBack, folderVars, batchVars, ghostVars, ChmodInv, ChmodLoopOK
  <2> QED BY <2>1, ChmodUnseen
<1>3. CASE StageOne
  <2>1. UNCHANGED <<mode, entries, before, touched, undoing, op>> /\ op = "rename"
    BY <1>3 DEF StageOne, Renames, Refuses, folderVars, batchVars, ghostVars, ChmodInv, ChmodLoopOK
  <2>2. pc' \in {"stage", "unstage", "unrename"}
    BY <1>3 DEF StageOne, RollBack
  <2> QED BY <2>1, <2>2, ChmodUnseen
<1>4. CASE CommitOne
  <2>1. UNCHANGED <<mode, entries, before, touched, undoing, op>> /\ op = "rename"
    BY <1>4 DEF CommitOne, Renames, Refuses, folderVars, batchVars, ghostVars, ChmodInv, ChmodLoopOK
  <2>2. pc' \in {"commit", "unstage", "unrename"}
    BY <1>4 DEF CommitOne, RollBack
  <2> QED BY <2>1, <2>2, ChmodUnseen
<1>5. CASE LoopEnds
  <2>1. UNCHANGED <<mode, entries, before, touched, undoing, op>> /\ op = "rename"
    BY <1>5 DEF LoopEnds, folderVars, batchVars, ghostVars, ChmodInv, ChmodLoopOK
  <2>2. pc' \in {"commit", "ended"}
    BY <1>5 DEF LoopEnds, End
  <2> QED BY <2>1, <2>2, ChmodUnseen
<1>6. CASE Unrename
  <2>1. UNCHANGED <<mode, entries, before, touched, undoing, op, pc>> /\ op = "rename" /\ pc = "unrename"
    BY <1>6 DEF Unrename, Renames, Refuses, folderVars, batchVars, ghostVars, ChmodInv, ChmodLoopOK
  <2> QED BY <2>1, ChmodUnseen
<1>7. CASE Unrenamed
  <2>1. UNCHANGED <<mode, entries, before, touched, undoing, op>> /\ op = "rename" /\ pc' = "unstage"
    BY <1>7 DEF Unrenamed, folderVars, batchVars, ghostVars, ChmodInv, ChmodLoopOK
  <2> QED BY <2>1, ChmodUnseen
<1>8. CASE Unstage
  <2>1. UNCHANGED <<mode, entries, before, touched, undoing, op, pc>> /\ op = "rename" /\ pc = "unstage"
    BY <1>8 DEF Unstage, Renames, Refuses, folderVars, batchVars, ghostVars, ChmodInv, ChmodLoopOK
  <2> QED BY <2>1, ChmodUnseen
<1>9. CASE RolledBack
  <2>1. UNCHANGED <<mode, entries, before, touched, undoing, op, errors>> /\ pc' = "ended"
        /\ pc \in {"unstage", "unchmod"} /\ k = 0
    BY <1>9 DEF RolledBack, folderVars, batchVars, ghostVars, End
  <2>2. CASE pc = "unstage"
    BY <2>1, <2>2, ChmodUnseen DEF ChmodInv, ChmodLoopOK
  <2>3. CASE pc = "unchmod"
    <3>1. \A i \in 1 .. Len(entries) : ~Applied(i)
      BY <2>1, <2>3 DEF Applied
    <3>2. ModesOwned'
      BY <2>1, <2>3, <3>1 DEF ChmodInv, ModesOwned
    <3> QED BY <2>1, <3>2 DEF ChmodInv, ModesTypeOK, ChmodLoopOK, ModesKnown
  <2> QED BY <2>1, <2>2, <2>3
<1>10. CASE SingleRename
  <2>1. UNCHANGED <<mode, entries, before, touched, undoing, op>> /\ op = "single" /\ pc' = "ended"
    BY <1>10 DEF SingleRename, Renames, Refuses, folderVars, batchVars, ghostVars, End
  <2> QED BY <2>1, ChmodUnseen
<1> QED BY <1>1, <1>2, <1>3, <1>4, <1>5, <1>6, <1>7, <1>8, <1>9, <1>10 DEF RenameNext

-----------------------------------------------------------------------------
(* The requests, and the steps of another process.                         *)
LEMMA BegunModes ==
  ASSUME ChmodInv, NEW o, NEW b, NEW e, Begin(o, b, e), e \in Seq(PermissionEntries)
  PROVE  ChmodInv'
<1>1. /\ mode' = mode /\ entries' = e /\ pc' = "preflight" /\ before'.mode = mode
  BY DEF Begin, folderVars
<1>2. ModesTypeOK' /\ ChmodLoopOK'
  BY <1>1 DEF ChmodInv, ModesTypeOK, ChmodLoopOK
<1>3. ModesOwned' /\ ModesKnown'
  BY <1>1 DEF ModesOwned, ModesKnown
<1> QED BY <1>2, <1>3 DEF ChmodInv

LEMMA RequestedEntries ==
  ASSUME NEW names \in Selections, NEW change \in Changes
  PROVE  [i \in DOMAIN names |-> [name |-> names[i], file |-> NoFile,
                                  before |-> change.keep, after |-> change.set]]
            \in Seq(PermissionEntries)
<1>1. PICK n \in 1 .. MaxPairs : names \in [1 .. n -> Names]
  BY DEF Selections
<1>2. DOMAIN names = 1 .. n /\ n \in Nat /\ \A i \in 1 .. n : names[i] \in Names
  BY <1>1, FolderAssumption
<1>3. change.keep \in SUBSET Bits /\ change.set \in SUBSET Bits
  BY DEF Changes
<1>4. \A i \in 1 .. n : [name |-> names[i], file |-> NoFile, before |-> change.keep, after |-> change.set]
                           \in PermissionEntries
  BY <1>2, <1>3 DEF PermissionEntries
<1>5. [i \in DOMAIN names |-> [name |-> names[i], file |-> NoFile, before |-> change.keep, after |-> change.set]]
         \in [1 .. n -> PermissionEntries]
  BY <1>2, <1>4
<1> QED BY <1>2, <1>5, SeqDef

LEMMA UserKeepsModes ==
  ASSUME ChmodInv, UserNext
  PROVE  ChmodInv'
<1>1. ASSUME NEW batch \in Batches, NEW kind \in {"rename", "single"}, RenameRequested(batch, kind)
      PROVE  ChmodInv'
  <2>1. << >> \in Seq(PermissionEntries)
    OBVIOUS
  <2> QED BY <1>1, <2>1, BegunModes DEF RenameRequested
<1>2. ASSUME NEW names \in Selections, NEW change \in Changes, ChmodRequested(names, change)
      PROVE  ChmodInv'
  <2> DEFINE e == [i \in DOMAIN names |-> [name |-> names[i], file |-> NoFile,
                                           before |-> change.keep, after |-> change.set]]
  <2>1. e \in Seq(PermissionEntries)
    BY RequestedEntries
  <2>2. Begin("chmod", << >>, e)
    BY <1>2 DEF ChmodRequested
  <2> HIDE DEF e
  <2> QED BY <2>1, <2>2, BegunModes
<1>3. CASE UndoBatch
  <2> DEFINE b == [i \in DOMAIN pairs |-> [from |-> pairs[i].to, to |-> pairs[i].from]]
  <2>1. Begin(op, b, entries)
    BY <1>3 DEF UndoBatch
  <2> HIDE DEF b
  <2> QED BY <2>1, BegunModes DEF ChmodInv, ModesTypeOK
<1>4. CASE CancelBatch
  <2>1. UNCHANGED <<mode, entries, before, touched, undoing, op, pc, k, result, errors>>
    BY <1>4 DEF CancelBatch, folderVars, batchVars, loopVars, ghostVars
  <2> QED BY <2>1 DEF ChmodInv, ModesTypeOK, ChmodLoopOK, ModesOwned, ModesKnown, Applied
<1> QED BY <1>1, <1>2, <1>3, <1>4 DEF UserNext

LEMMA IntruderKeepsModes ==
  ASSUME FolderTypeOK, ChmodInv, IntruderNext
  PROVE  ChmodInv'
<1>1. PICK p \in Names :
        \/ \E f \in Files : IntruderCreates(p, f)
        \/ IntruderRemoves(p)
        \/ \E bits \in SUBSET Bits : IntruderChmods(p, bits)
  BY DEF IntruderNext
<1>2. UNCHANGED <<entries, op, undoing, pc, result, k, errors, before>>
  BY <1>1 DEF IntruderCreates, IntruderRemoves, IntruderChmods, IntruderStep, batchVars, loopVars
<1>3. /\ touched \subseteq touched' /\ mode' \in [Files -> SUBSET Bits]
      /\ \A f \in Files \ touched' : mode'[f] = mode[f]
  <2>1. mode \in [Files -> SUBSET Bits]
    BY DEF ChmodInv, ModesTypeOK
  <2>2. CASE \E f \in Files : IntruderCreates(p, f)
    BY <2>1, <2>2 DEF IntruderCreates
  <2>3. CASE IntruderRemoves(p)
    BY <2>1, <2>3 DEF IntruderRemoves
  <2>4. ASSUME NEW bits \in SUBSET Bits, IntruderChmods(p, bits)
        PROVE  /\ touched \subseteq touched' /\ mode' \in [Files -> SUBSET Bits]
               /\ \A f \in Files \ touched' : mode'[f] = mode[f]
    <3>1. dir[p] \in Files /\ mode' = [mode EXCEPT ![dir[p]] = bits] /\ touched' = touched \cup {dir[p]}
      BY <2>4 DEF IntruderChmods, exists, FolderTypeOK
    <3> QED BY <2>1, <3>1
  <2> QED BY <1>1, <2>2, <2>3, <2>4
<1>4. \A i : Applied(i)' <=> Applied(i)
  BY <1>2 DEF Applied
<1>5. ModesTypeOK' /\ ChmodLoopOK'
  BY <1>2, <1>3 DEF ChmodInv, ModesTypeOK, ChmodLoopOK
<1>6. ModesOwned'
  BY <1>2, <1>3, <1>4 DEF ChmodInv, ModesOwned
<1>7. ModesKnown'
  BY <1>2, <1>3 DEF ChmodInv, ModesKnown
<1> QED BY <1>5, <1>6, <1>7 DEF ChmodInv

-----------------------------------------------------------------------------
(* The loops of set_permissions.                                           *)
LEMMA FilesOfEntries ==
  ASSUME FolderTypeOK, entries \in Seq(PermissionEntries), AllRegular, NEW i \in 1 .. Len(entries)
  PROVE  /\ entries[i] \in PermissionEntries /\ entries[i].name \in Names
         /\ entries[i].name \in Places /\ dir[entries[i].name] \in Files
<1>1. entries[i] \in PermissionEntries /\ i \in DOMAIN entries
  OBVIOUS
<1>2. exists(entries[i].name)
  BY <1>1 DEF AllRegular
<1>3. entries[i].name \in Names
  BY <1>1 DEF PermissionEntries
<1> QED BY <1>1, <1>2, <1>3 DEF exists, FolderTypeOK, Places

\* What PreflightChmod keeps of the entries.
LEMMA PreparedEntries ==
  ASSUME FolderTypeOK, ModesTypeOK, AllRegular, PreflightChmod
  PROVE  /\ entries' \in Seq(PermissionEntries)
         /\ \A j \in 1 .. Len(entries') : \E i \in 1 .. Len(entries) :
               entries'[j] = Prepared(i) /\ entries'[j].file = dir[entries[i].name]
               /\ entries'[j].file \in Files
               /\ entries'[j].before = mode[entries'[j].file] /\ entries'[j].name = entries[i].name
         /\ \A j \in 1 .. Len(entries') : entries'[j].file = dir[entries'[j].name]
<1> DEFINE s == [i \in DOMAIN entries |-> Prepared(i)]
           I == {i \in DOMAIN entries : Prepared(i).before # Prepared(i).after}
<1>1. entries \in Seq(PermissionEntries) /\ DOMAIN entries = 1 .. Len(entries) /\ Len(entries) \in Nat
  BY DEF ModesTypeOK
<1>2. ASSUME NEW i \in 1 .. Len(entries)
      PROVE  /\ Prepared(i) \in PermissionEntries /\ Prepared(i).file = dir[entries[i].name]
             /\ Prepared(i).file \in Files /\ Prepared(i).before = mode[Prepared(i).file]
             /\ Prepared(i).name = entries[i].name
  <2>1. /\ entries[i] \in PermissionEntries /\ entries[i].name \in Names /\ dir[entries[i].name] \in Files
    BY <1>1, FilesOfEntries
  <2>2. mode[dir[entries[i].name]] \in SUBSET Bits /\ entries[i].after \in SUBSET Bits
    BY <2>1 DEF ModesTypeOK, PermissionEntries
  <2> QED BY <2>1, <2>2 DEF Prepared, PermissionEntries
<1>3. s \in [1 .. Len(entries) -> PermissionEntries]
  BY <1>1, <1>2
<1>4. s \in Seq(PermissionEntries) /\ Len(s) = Len(entries)
  BY <1>1, <1>3, SeqDef, LenProperties
<1>5. \A i \in 1 .. Len(entries) : s[i] = Prepared(i)
  BY <1>1
<1>6. entries' = Filtered(s, I)
  BY DEF PreflightChmod
<1> HIDE DEF s, I
<1>7. /\ entries' \in Seq(PermissionEntries)
      /\ \A j \in 1 .. Len(entries') : \E i \in 1 .. Len(s) : i \in I /\ entries'[j] = s[i]
  <2>1. /\ Filtered(s, I) \in Seq(PermissionEntries)
        /\ \A j \in 1 .. Len(Filtered(s, I)) : \E i \in 1 .. Len(s) : i \in I /\ Filtered(s, I)[j] = s[i]
    BY <1>4, FilteredMembers
  <2> QED BY <2>1, <1>6
<1>8. ASSUME NEW j \in 1 .. Len(entries')
      PROVE  \E i \in 1 .. Len(entries) :
               entries'[j] = Prepared(i) /\ entries'[j].file = dir[entries[i].name]
               /\ entries'[j].file \in Files
               /\ entries'[j].before = mode[entries'[j].file] /\ entries'[j].name = entries[i].name
  <2>1. PICK i \in 1 .. Len(entries) : entries'[j] = s[i]
    BY <1>4, <1>7
  <2> QED BY <2>1, <1>2, <1>5
<1> QED BY <1>7, <1>8

LEMMA PreflightKeepsModes ==
  ASSUME FolderTypeOK, LoopOK, ChmodInv, PreflightChmod
  PROVE  ChmodInv'
<1>1. /\ pc = "preflight" /\ op = "chmod" /\ ~undoing
      /\ UNCHANGED <<dir, mode, op, undoing, k, errors, touched, before>>
  BY DEF PreflightChmod, folderVars, ghostVars
<1>2. errors = {} /\ k = 1 /\ \A i : ~Applied(i)
  BY <1>1 DEF LoopOK, Applied
<1>3. \A f \in Files \ touched : mode[f] = before.mode[f]
  BY <1>1, <1>2 DEF ChmodInv, ModesOwned
<1>4. CASE ~AllRegular
  <2>1. entries' = entries /\ pc' = "ended" /\ result' = "refused"
    BY <1>4 DEF PreflightChmod, End
  <2> QED BY <1>1, <1>3, <2>1 DEF ChmodInv, ModesTypeOK, ChmodLoopOK, ModesOwned, ModesKnown
<1>5. CASE AllRegular
  <2>1. /\ entries' \in Seq(PermissionEntries)
        /\ \A j \in 1 .. Len(entries') : entries'[j].file \in Files
                                          /\ entries'[j].before = mode[entries'[j].file]
    BY <1>5, PreparedEntries DEF ChmodInv
  <2>2. pc' \in {"chmod", "ended"} /\ (pc' = "ended" => result' = "nothing")
    BY <1>5 DEF PreflightChmod, End
  <2>3. Len(entries') \in Nat
    BY <2>1
  <2>4. ModesTypeOK' /\ ChmodLoopOK'
    BY <1>1, <1>2, <2>1, <2>2, <2>3 DEF ChmodInv, ModesTypeOK, ChmodLoopOK
  <2>5. ModesOwned'
    BY <1>1, <1>3, <2>2 DEF ModesOwned
  <2>6. ModesKnown'
    BY <1>1, <1>3, <2>1 DEF ModesKnown
  <2> QED BY <2>4, <2>5, <2>6 DEF ChmodInv
<1> QED BY <1>4, <1>5

\* What PreflightRestore makes of them.
Restored(i) ==
    [entries[i] EXCEPT !.file = dir[entries[i].name], !.before = entries[i].after,
                       !.after = entries[i].before]

LEMMA RestoredEntries ==
  ASSUME FolderTypeOK, ModesTypeOK, AllRegular, entries' = [i \in DOMAIN entries |-> Restored(i)]
  PROVE  /\ entries' \in Seq(PermissionEntries) /\ Len(entries') = Len(entries)
         /\ \A i \in 1 .. Len(entries) :
               /\ entries'[i].name = entries[i].name /\ entries'[i].file = dir[entries[i].name]
               /\ entries'[i].file \in Files
               /\ entries'[i].before = entries[i].after /\ entries'[i].after = entries[i].before
<1>1. entries \in Seq(PermissionEntries) /\ DOMAIN entries = 1 .. Len(entries) /\ Len(entries) \in Nat
  BY DEF ModesTypeOK
<1>2. ASSUME NEW i \in 1 .. Len(entries)
      PROVE  /\ Restored(i) \in PermissionEntries
             /\ Restored(i).name = entries[i].name /\ Restored(i).file = dir[entries[i].name]
             /\ Restored(i).file \in Files
             /\ Restored(i).before = entries[i].after /\ Restored(i).after = entries[i].before
  <2>1. entries[i] \in PermissionEntries /\ dir[entries[i].name] \in Files
    BY <1>1, FilesOfEntries
  <2> QED BY <2>1 DEF Restored, PermissionEntries
<1>3. \A i \in 1 .. Len(entries) : entries'[i] = Restored(i)
  BY <1>1
<1>4. entries' \in [1 .. Len(entries) -> PermissionEntries]
  BY <1>1, <1>2
<1>5. entries' \in Seq(PermissionEntries) /\ Len(entries') = Len(entries)
  BY <1>1, <1>4, SeqDef, LenProperties
<1> QED BY <1>2, <1>3, <1>5

LEMMA RestoreKeepsModes ==
  ASSUME FolderTypeOK, LoopOK, ChmodInv, PreflightRestore
  PROVE  ChmodInv'
<1>1. /\ pc = "preflight" /\ op = "chmod" /\ undoing
      /\ UNCHANGED <<dir, mode, op, undoing, k, errors, touched, before>>
  BY DEF PreflightRestore, folderVars, ghostVars
<1>2. errors = {} /\ k = 1 /\ \A i : ~Applied(i)
  BY <1>1 DEF LoopOK, Applied
<1>3. \A f \in Files \ touched : mode[f] = before.mode[f]
  BY <1>1, <1>2 DEF ChmodInv, ModesOwned
<1> DEFINE Same == AllRegular /\ \A i \in DOMAIN entries : mode[dir[entries[i].name]] = entries[i].after
<1>4. CASE ~Same
  <2>1. entries' = entries /\ pc' = "ended" /\ result' = "refused"
    BY <1>4 DEF PreflightRestore, End
  <2> QED BY <1>1, <1>3, <2>1 DEF ChmodInv, ModesTypeOK, ChmodLoopOK, ModesOwned, ModesKnown
<1>5. CASE Same
  <2>1. entries' = [i \in DOMAIN entries |-> Restored(i)] /\ pc' = "chmod"
    BY <1>5 DEF PreflightRestore, Restored
  <2>2. /\ entries' \in Seq(PermissionEntries) /\ Len(entries') = Len(entries)
        /\ \A i \in 1 .. Len(entries) :
              /\ entries'[i].file = dir[entries[i].name] /\ entries'[i].file \in Files
              /\ entries'[i].before = entries[i].after
    BY <1>5, <2>1, RestoredEntries DEF ChmodInv
  <2>3. Len(entries) \in Nat /\ DOMAIN entries = 1 .. Len(entries)
    BY DEF ChmodInv, ModesTypeOK
  <2>4. ModesTypeOK' /\ ChmodLoopOK'
    BY <1>1, <1>2, <2>1, <2>2, <2>3 DEF ChmodInv, ModesTypeOK, ChmodLoopOK
  <2>5. ModesOwned'
    BY <1>1, <1>3, <2>1 DEF ModesOwned
  <2>6. \A i \in 1 .. Len(entries) : mode[entries'[i].file] = entries'[i].before
    BY <1>5, <2>2, <2>3
  <2>7. ModesKnown'
    BY <1>1, <1>3, <2>2, <2>6 DEF ModesKnown
  <2> QED BY <2>4, <2>5, <2>7 DEF ChmodInv
<1> QED BY <1>4, <1>5

\* One mode changes, and it is the mode of the entry's file.
LEMMA Chmodded ==
  ASSUME ModesTypeOK, NEW e \in PermissionEntries, e.file \in Files, NEW bits \in SUBSET Bits, Chmods(e, bits)
  PROVE  /\ mode' \in [Files -> SUBSET Bits] /\ mode'[e.file] = bits
         /\ \A f \in Files : f # e.file => mode'[f] = mode[f]
         /\ dir' = dir
BY DEF ModesTypeOK, Chmods

LEMMA ChmodStepKeepsModes ==
  ASSUME FolderTypeOK, LoopOK, ChmodInv, ChmodOne \/ ChmodEnds
  PROVE  ChmodInv'
<1>1. /\ pc = "chmod" /\ op = "chmod" /\ errors = {} /\ k \in 1 .. Len(entries) + 1
      /\ UNCHANGED <<op, undoing, entries, errors, touched, before>>
  BY DEF ChmodOne, ChmodEnds, batchVars, ghostVars, ChmodInv, ChmodLoopOK, LoopOK
<1>2. /\ entries \in Seq(PermissionEntries) /\ Len(entries) \in Nat
      /\ \A i \in 1 .. Len(entries) : entries[i] \in PermissionEntries /\ entries[i].file \in Files
  BY <1>1 DEF ChmodInv, ModesTypeOK, ChmodLoopOK
<1>3. \A i : Applied(i) <=> i < k
  BY <1>1 DEF Applied
<1>4. CASE ChmodOne /\ Chmods(entries[k], entries[k].after) /\ k' = k + 1 /\ pc' = pc /\ result' = result
  <2>1. k \in 1 .. Len(entries)
    BY <1>1, <1>4 DEF ChmodOne
  <2>2. entries[k] \in PermissionEntries /\ entries[k].file \in Files /\ entries[k].after \in SUBSET Bits
    BY <1>2, <2>1 DEF PermissionEntries
  <2>3. /\ mode' \in [Files -> SUBSET Bits]
        /\ \A f \in Files : f # entries[k].file => mode'[f] = mode[f]
    BY <1>4, <2>2, Chmodded DEF ChmodInv
  <2>4. \A i \in 1 .. Len(entries) : Applied(i)' <=> i < k + 1
    BY <1>1, <1>4 DEF Applied
  <2>5. ModesTypeOK' /\ ChmodLoopOK'
    BY <1>1, <1>2, <1>4, <2>1, <2>3 DEF ChmodInv, ModesTypeOK, ChmodLoopOK
  <2>6. ASSUME NEW f \in Files \ touched
        PROVE  mode'[f] = before.mode[f] \/ \E i \in 1 .. Len(entries) : Applied(i)' /\ entries[i].file = f
    <3>1. CASE f = entries[k].file
      BY <2>1, <2>4, <3>1
    <3>2. CASE f # entries[k].file
      <4>1. mode'[f] = mode[f]
        BY <2>3, <3>2
      <4>2. mode[f] = before.mode[f] \/ \E i \in 1 .. Len(entries) : i < k /\ entries[i].file = f
        BY <1>1, <1>3 DEF ChmodInv, ModesOwned
      <4> QED BY <1>1, <2>4, <4>1, <4>2
    <3> QED BY <3>1, <3>2
  <2>7. ModesOwned'
    BY <1>1, <2>6 DEF ModesOwned
  <2>8. ModesKnown'
    BY <1>1, <1>4 DEF ChmodInv, ModesKnown
  <2> QED BY <2>5, <2>7, <2>8 DEF ChmodInv
<1>5. CASE /\ ChmodOne /\ k <= Len(entries) /\ mode' = mode /\ k' = k - 1
           /\ \/ undoing /\ pc' = "ended" /\ result' = "halfway"
              \/ ~undoing /\ pc' = "unchmod" /\ result' = result
  <2>1. k - 1 \in 0 .. Len(entries)
    BY <1>1, <1>2, <1>5
  <2>2. ModesTypeOK' /\ ChmodLoopOK'
    BY <1>1, <1>2, <1>5, <2>1 DEF ChmodInv, ModesTypeOK, ChmodLoopOK
  <2>3. pc' = "unchmod" => \A i \in 1 .. Len(entries) : Applied(i)' <=> Applied(i)
    BY <1>1, <1>3, <1>5 DEF Applied
  <2>4. ModesOwned'
    BY <1>1, <1>5, <2>3 DEF ChmodInv, ModesOwned
  <2>5. ModesKnown'
    BY <1>1, <1>5 DEF ChmodInv, ModesKnown
  <2> QED BY <2>2, <2>4, <2>5 DEF ChmodInv
<1>6. CASE ChmodEnds
  <2>1. mode' = mode /\ pc' = "ended" /\ result' = "done"
    BY <1>6 DEF ChmodEnds, folderVars, End
  <2> QED BY <1>1, <2>1 DEF ChmodInv, ModesTypeOK, ChmodLoopOK, ModesOwned, ModesKnown
<1>7. ChmodOne => \/ Chmods(entries[k], entries[k].after) /\ k' = k + 1 /\ pc' = pc /\ result' = result
                  \/ /\ k <= Len(entries) /\ mode' = mode /\ k' = k - 1
                     /\ \/ undoing /\ pc' = "ended" /\ result' = "halfway"
                        \/ ~undoing /\ pc' = "unchmod" /\ result' = result
  BY DEF ChmodOne, Refuses, folderVars, End
<1> QED BY <1>4, <1>5, <1>6, <1>7

LEMMA UnchmodKeepsModes ==
  ASSUME FolderTypeOK, LoopOK, ChmodInv, Unchmod
  PROVE  ChmodInv'
<1>1. /\ pc = "unchmod" /\ op = "chmod" /\ ~undoing /\ k \in 1 .. Len(entries) /\ k' = k - 1
      /\ UNCHANGED <<op, undoing, entries, touched, before, pc, result>>
  <2>1. k \in 0 .. Len(entries) /\ k > 0 /\ Len(entries) \in Nat
    BY DEF Unchmod, ChmodInv, ChmodLoopOK, ModesTypeOK
  <2> QED BY <2>1 DEF Unchmod, batchVars, ghostVars, ChmodInv, ChmodLoopOK
<1>2. /\ entries \in Seq(PermissionEntries) /\ Len(entries) \in Nat
      /\ \A i \in 1 .. Len(entries) : entries[i] \in PermissionEntries /\ entries[i].file \in Files
  BY <1>1 DEF ChmodInv, ModesTypeOK, ChmodLoopOK
<1>3. \A i \in 1 .. Len(entries) : (Applied(i) <=> i <= k) /\ (Applied(i)' <=> i < k)
  BY <1>1, <1>2 DEF Applied
<1>4. CASE Chmods(entries[k], entries[k].before) /\ errors' = errors
  <2>1. entries[k] \in PermissionEntries /\ entries[k].file \in Files /\ entries[k].before \in SUBSET Bits
    BY <1>1, <1>2 DEF PermissionEntries
  <2>2. /\ mode' \in [Files -> SUBSET Bits] /\ mode'[entries[k].file] = entries[k].before
        /\ \A f \in Files : f # entries[k].file => mode'[f] = mode[f]
    BY <1>4, <2>1, Chmodded DEF ChmodInv
  <2>3. ModesTypeOK' /\ ChmodLoopOK'
    BY <1>1, <1>2, <2>2 DEF ChmodInv, ModesTypeOK, ChmodLoopOK
  <2>4. ASSUME NEW f \in Files \ touched, errors = {}
        PROVE  mode'[f] = before.mode[f] \/ \E i \in 1 .. Len(entries) : Applied(i)' /\ entries[i].file = f
    <3>1. CASE f = entries[k].file
      BY <1>1, <2>2, <3>1 DEF ChmodInv, ModesKnown
    <3>2. CASE f # entries[k].file
      <4>1. mode'[f] = mode[f]
        BY <2>2, <3>2
      <4>2. mode[f] = before.mode[f] \/ \E i \in 1 .. Len(entries) : Applied(i) /\ entries[i].file = f
        BY <1>1, <2>4 DEF ChmodInv, ModesOwned
      <4>3. \A i \in 1 .. Len(entries) : Applied(i) /\ entries[i].file = f => Applied(i)'
        BY <1>1, <1>2, <1>3, <3>2
      <4> QED BY <4>1, <4>2, <4>3
    <3> QED BY <3>1, <3>2
  <2>5. ModesOwned'
    BY <1>1, <1>4, <2>4 DEF ModesOwned
  <2>6. ModesKnown'
    BY <1>1 DEF ChmodInv, ModesKnown
  <2> QED BY <2>3, <2>5, <2>6 DEF ChmodInv
<1>5. CASE mode' = mode /\ errors' = errors \cup {k}
  <2>1. ModesTypeOK' /\ ChmodLoopOK'
    BY <1>1, <1>2, <1>5 DEF ChmodInv, ModesTypeOK, ChmodLoopOK
  <2>2. ModesOwned'
    BY <1>5 DEF ModesOwned
  <2>3. ModesKnown'
    BY <1>1 DEF ChmodInv, ModesKnown
  <2> QED BY <2>1, <2>2, <2>3 DEF ChmodInv
<1> QED BY <1>4, <1>5 DEF Unchmod, Refuses, folderVars

LEMMA ModesStart ==
  ASSUME TransactionInit
  PROVE  ChmodInv
BY DEF TransactionInit, ChmodInv, ModesTypeOK, ChmodLoopOK, ModesOwned, ModesKnown

LEMMA ModesKept ==
  ASSUME BatchInv, ChmodInv, [TransactionNext]_transactionVars
  PROVE  ChmodInv'
<1>1. FolderTypeOK /\ LoopOK
  BY DEF BatchInv
<1>2. CASE UserNext
  BY <1>2, UserKeepsModes
<1>3. CASE RenameNext
  BY <1>3, RenameKeepsModes
<1>4. CASE ChmodNext
  BY <1>1, <1>4, PreflightKeepsModes, RestoreKeepsModes, ChmodStepKeepsModes, UnchmodKeepsModes DEF ChmodNext
<1>5. CASE IntruderNext
  BY <1>1, <1>5, IntruderKeepsModes
<1>6. CASE UNCHANGED transactionVars
  <2>1. UNCHANGED <<mode, entries, before, touched, undoing, op, pc, k, result, errors>>
    BY <1>6 DEF transactionVars, folderVars, batchVars, loopVars, ghostVars
  <2> QED BY <2>1 DEF ChmodInv, ModesTypeOK, ChmodLoopOK, ModesOwned, ModesKnown, Applied
<1> QED BY <1>2, <1>3, <1>4, <1>5, <1>6 DEF TransactionNext

\* set_permissions and rollback_permissions: when it fails and does not report
\* a failed rollback, each file that no other process touched has the mode it had.
THEOREM FailedChmodIsUndoneAlways == TransactionSpec => []FailedChmodIsUndone
<1>1. ASSUME BatchInv, ChmodInv PROVE FailedChmodIsUndone
  <2> SUFFICES ASSUME pc = "ended", op = "chmod", result \in {"failed", "refused"}, NEW f \in Files \ touched
               PROVE  mode[f] = before.mode[f]
    BY DEF FailedChmodIsUndone
  <2>1. errors = {} /\ \A i : ~Applied(i)
    BY <1>1 DEF BatchInv, LoopOK, Applied
  <2> QED BY <1>1, <2>1 DEF ChmodInv, ModesOwned
<1>2. BatchInv /\ RenamesLoseNothing /\ ChmodInv /\ [TransactionNext]_transactionVars
         => BatchInv' /\ RenamesLoseNothing' /\ ChmodInv'
  BY BatchKept, FolderKept, ModesKept DEF BatchInv
<1>3. TransactionInit => BatchInv /\ RenamesLoseNothing /\ ChmodInv
  BY BatchStarts, FolderStarts, ModesStart
<1> QED BY <1>1, <1>2, <1>3, PTL DEF TransactionSpec

-----------------------------------------------------------------------------
(* An undo that succeeds restores.  What follows goes the other way round  *)
(* than BatchInv: it says where each file has gone.                        *)
Finished == pc = "ended" /\ result = "done"

\* What is still as it was before the operation that is undone.
AtHome ==
    /\ cause # "done"
    /\ pc = "idle" => /\ ~undoing /\ op = "rename"
                      /\ \A p \in Names : dir[p] = Content[p]
                      /\ \A f \in Files : mode[f] = Bits
    /\ ~undoing => /\ \A p \in Names : before.dir[p] = Content[p]
                   /\ \A f \in Files : before.mode[f] = Bits
    /\ op # "chmod" => \A f \in Files \ touched : mode[f] = Bits
    /\ op = "chmod" => \A p \in Names : dir[p] \in Files \ touched \/ Content[p] \in Files \ touched
                                           => dir[p] = Content[p]

\* A file is under the temporary name of its rename, under its new name, or has
\* not moved, and then no rename has taken its place.
Renamed(i) == (pc = "commit" /\ i < k) \/ Finished

Placed ==
    op # "chmod" /\ (pc \in {"preflight", "stage", "commit"} \/ Finished) =>
       \A p \in Names : before.dir[p] \in Files \ touched =>
          /\ \A i \in 1 .. Len(pairs) : From(i) = p /\ Staged(i) => dir[Temp(i)] = before.dir[p]
          /\ \A i \in 1 .. Len(pairs) : From(i) = p /\ Renamed(i) => dir[To(i)] = before.dir[p]
          /\ (\A i \in 1 .. Len(pairs) : From(i) = p => ~Staged(i) /\ ~Renamed(i)) =>
                dir[p] = before.dir[p] /\ \A i \in 1 .. Len(pairs) : Renamed(i) => To(i) # p

Distinct ==
    /\ pc \in {"stage", "commit"} => \A i, j \in 1 .. Len(pairs) : From(i) = From(j) => i = j
    /\ op # "chmod" /\ (pc \in {"stage", "commit"} \/ Finished \/ undoing) =>
          \A i \in 1 .. Len(pairs) : From(i) # To(i)

\* The undo finds each file where the operation left it, and has a pair for each
\* file that moved.
Origins ==
    undoing /\ op # "chmod" /\ (pc \in {"preflight", "stage", "commit"} \/ Finished) =>
       \A p \in Names : Content[p] \in Files \ touched =>
          \/ \E i \in 1 .. Len(pairs) : To(i) = p /\ before.dir[From(i)] = Content[p]
          \/ before.dir[p] = Content[p] /\ \A i \in 1 .. Len(pairs) : From(i) # p

PlacesInv == Placed /\ Distinct /\ Origins

\* Another process leaves what it does not touch.
LEMMA Untouched ==
  ASSUME FolderTypeOK, ModesTypeOK, IntruderNext
  PROVE  /\ UNCHANGED <<pairs, entries, op, undoing, pc, result, k, cause, errors, before>>
         /\ pc # "idle" /\ touched \subseteq touched'
         /\ \A o \in Places : dir[o] \in Files \ touched' => dir'[o] = dir[o]
         /\ \A o \in Places : dir'[o] \in Files \ touched' => dir'[o] = dir[o]
         /\ \A f \in Files \ touched' : mode'[f] = mode[f]
<1>1. PICK p \in Names :
        \/ \E f \in Files : IntruderCreates(p, f)
        \/ IntruderRemoves(p)
        \/ \E bits \in SUBSET Bits : IntruderChmods(p, bits)
  BY DEF IntruderNext
<1>2. UNCHANGED <<pairs, entries, op, undoing, pc, result, k, cause, errors, before>> /\ pc # "idle"
  BY <1>1 DEF IntruderCreates, IntruderRemoves, IntruderChmods, IntruderStep, batchVars, loopVars
<1>3. p \in Places /\ dir \in [Places -> Files \cup {NoFile}] /\ mode \in [Files -> SUBSET Bits]
      /\ NoFile \notin Files
  BY FolderAssumption DEF FolderTypeOK, ModesTypeOK, Places
<1>4. CASE \E f \in Files : IntruderCreates(p, f)
  <2>1. PICK f \in Files : IntruderCreates(p, f)
    BY <1>4
  <2>2. dir[p] = NoFile /\ dir' = [dir EXCEPT ![p] = f] /\ touched' = touched \cup {f} /\ mode' = mode
    BY <1>3, <2>1 DEF IntruderCreates, exists
  <2> QED BY <1>2, <1>3, <2>2
<1>5. CASE IntruderRemoves(p)
  <2>1. dir' = [dir EXCEPT ![p] = NoFile] /\ touched' = touched \cup {dir[p]} /\ mode' = mode
    BY <1>5 DEF IntruderRemoves
  <2> QED BY <1>2, <1>3, <2>1
<1>6. CASE \E bits \in SUBSET Bits : IntruderChmods(p, bits)
  <2>1. PICK bits \in SUBSET Bits : IntruderChmods(p, bits)
    BY <1>6
  <2>2. /\ dir' = dir /\ mode' = [mode EXCEPT ![dir[p]] = bits] /\ touched' = touched \cup {dir[p]}
    BY <2>1 DEF IntruderChmods
  <2> QED BY <1>2, <1>3, <2>2
<1> QED BY <1>1, <1>4, <1>5, <1>6

LEMMA IntruderKeepsPlaces ==
  ASSUME BatchInv, ModesTypeOK, PlacesInv, IntruderNext
  PROVE  PlacesInv'
<1>1. /\ UNCHANGED <<pairs, op, undoing, pc, result, k, before>> /\ touched \subseteq touched'
      /\ \A o \in Places : dir[o] \in Files \ touched' => dir'[o] = dir[o]
  BY Untouched DEF BatchInv
<1>2. \A i : /\ Staged(i)' <=> Staged(i)
             /\ From(i)' = From(i)
             /\ Renamed(i)' <=> Renamed(i)
             /\ To(i)' = To(i)
  BY <1>1 DEF Staged, Renamed, Finished, From, To
<1>3. Distinct'
  BY <1>1, <1>2 DEF PlacesInv, Distinct, Finished
<1>4. Origins'
  BY <1>1, <1>2 DEF PlacesInv, Origins, Finished
<1>5. Placed'
  <2> SUFFICES ASSUME op # "chmod", pc \in {"preflight", "stage", "commit"} \/ Finished,
                      NEW p \in Names, before.dir[p] \in Files \ touched'
               PROVE  /\ \A i \in 1 .. Len(pairs) : From(i) = p /\ Staged(i) => dir'[Temp(i)] = before.dir[p]
                      /\ \A i \in 1 .. Len(pairs) : From(i) = p /\ Renamed(i) => dir'[To(i)] = before.dir[p]
                      /\ (\A i \in 1 .. Len(pairs) : From(i) = p => ~Staged(i) /\ ~Renamed(i)) =>
                            dir'[p] = before.dir[p] /\ \A i \in 1 .. Len(pairs) : Renamed(i) => To(i) # p
    BY <1>1, <1>2 DEF Placed, Finished, Temp
  <2>1. before.dir[p] \in Files \ touched /\ p \in Places
    BY <1>1 DEF Places
  <2>2. \A i \in 1 .. Len(pairs) : To(i) \in Places /\ Temp(i) \in Places
    BY PairNames, TempsDiffer DEF BatchInv, LoopOK
  <2>3. /\ \A i \in 1 .. Len(pairs) : From(i) = p /\ Staged(i) => dir[Temp(i)] = before.dir[p]
        /\ \A i \in 1 .. Len(pairs) : From(i) = p /\ Renamed(i) => dir[To(i)] = before.dir[p]
        /\ (\A i \in 1 .. Len(pairs) : From(i) = p => ~Staged(i) /\ ~Renamed(i)) =>
              dir[p] = before.dir[p] /\ \A i \in 1 .. Len(pairs) : Renamed(i) => To(i) # p
    BY <2>1 DEF PlacesInv, Placed
  <2> QED BY <1>1, <2>1, <2>2, <2>3
<1> QED BY <1>3, <1>4, <1>5 DEF PlacesInv

\* A request begins with the folder as it is.
LEMMA BegunPlaces ==
  ASSUME NEW o, NEW b, NEW e, Begin(o, b, e)
  PROVE  Placed' /\ pc' = "preflight" /\ before'.dir = dir /\ touched' = touched /\ op' = o /\ pairs' = b
<1>1. pc' = "preflight" /\ before'.dir = dir /\ dir' = dir /\ touched' = touched /\ op' = o /\ pairs' = b
  BY DEF Begin, folderVars
<1>2. \A i : ~Staged(i)' /\ ~Renamed(i)'
  BY <1>1 DEF Staged, Renamed, Finished
<1> QED BY <1>1, <1>2 DEF Placed

LEMMA UndoFinds ==
  ASSUME BatchInv, PlacesInv, AtHome, UndoBatch
  PROVE  PlacesInv'
<1> DEFINE b == [i \in DOMAIN pairs |-> [from |-> pairs[i].to, to |-> pairs[i].from]]
<1>1. Finished /\ ~undoing /\ undoing' = TRUE /\ Begin(op, b, entries)
  BY DEF UndoBatch, Finished
<1>2. pairs \in Seq(Pairs) /\ Len(pairs) \in Nat /\ DOMAIN pairs = 1 .. Len(pairs)
  BY DEF BatchInv, LoopOK
<1>3. /\ DOMAIN b = 1 .. Len(pairs) /\ Len(b) = Len(pairs)
      /\ \A i \in 1 .. Len(pairs) : b[i].from = To(i) /\ b[i].to = From(i)
  <2>1. b \in [1 .. Len(pairs) -> Pairs]
    <3>1. \A i \in 1 .. Len(pairs) : [from |-> pairs[i].to, to |-> pairs[i].from] \in Pairs
      BY <1>2, ElementOfSeq DEF Pairs
    <3> QED BY <1>2, <3>1
  <2>2. Len(b) = Len(pairs)
    BY <1>2, <2>1, SeqDef, LenProperties
  <2> QED BY <1>2, <2>2 DEF From, To
<1> HIDE DEF b
<1>4. /\ Placed' /\ pc' = "preflight" /\ before'.dir = dir /\ touched' = touched
      /\ op' = op /\ pairs' = b
  BY <1>1, BegunPlaces
<1>5. \A i \in 1 .. Len(pairs) : From(i)' = To(i) /\ To(i)' = From(i)
  BY <1>3, <1>4 DEF From, To
<1>6. Distinct'
  BY <1>1, <1>3, <1>4, <1>5 DEF PlacesInv, Distinct
<1>7. Origins'
  <2> SUFFICES ASSUME op # "chmod", NEW p \in Names, Content[p] \in Files \ touched
               PROVE  \/ \E i \in 1 .. Len(pairs) : From(i) = p /\ dir[To(i)] = Content[p]
                      \/ dir[p] = Content[p] /\ \A i \in 1 .. Len(pairs) : To(i) # p
    BY <1>3, <1>4, <1>5 DEF Origins
  <2>1. before.dir[p] = Content[p]
    BY <1>1 DEF AtHome
  <2>2. \A i : Renamed(i)
    BY <1>1 DEF Renamed
  <2> QED BY <1>1, <2>1, <2>2 DEF PlacesInv, Placed
<1> QED BY <1>4, <1>6, <1>7 DEF PlacesInv

LEMMA UserKeepsPlaces ==
  ASSUME BatchInv, PlacesInv, AtHome, UserNext
  PROVE  PlacesInv'
<1>1. ASSUME NEW batch \in Batches, NEW kind \in {"rename", "single"}, RenameRequested(batch, kind)
      PROVE  PlacesInv'
  <2>1. Placed' /\ pc' = "preflight"
    BY <1>1, BegunPlaces DEF RenameRequested
  <2>2. ~undoing'
    BY <1>1 DEF RenameRequested, AtHome
  <2> QED BY <2>1, <2>2 DEF PlacesInv, Distinct, Origins, Finished
<1>2. ASSUME NEW names \in Selections, NEW change \in Changes, ChmodRequested(names, change)
      PROVE  PlacesInv'
  <2>1. pc' = "preflight" /\ op' = "chmod"
    BY <1>2 DEF ChmodRequested, Begin
  <2> QED BY <2>1 DEF PlacesInv, Placed, Distinct, Origins
<1>3. CASE UndoBatch
  BY <1>3, UndoFinds
<1>4. CASE CancelBatch
  <2>1. UNCHANGED <<dir, pairs, op, undoing, pc, result, k, before, touched>>
    BY <1>4 DEF CancelBatch, folderVars, batchVars, loopVars, ghostVars
  <2> QED BY <2>1 DEF PlacesInv, Placed, Distinct, Origins, Staged, Renamed, Finished, From, To, Temp
<1> QED BY <1>1, <1>2, <1>3, <1>4 DEF UserNext

-----------------------------------------------------------------------------
(* The loops that go forward.                                              *)

\* A batch that goes back, or gives up, is not the undo that succeeds.
LEMMA GivesUp ==
  ASSUME PlacesInv, UNCHANGED <<pairs, op, undoing>>, pc' \notin {"preflight", "stage", "commit"}, ~Finished'
  PROVE  PlacesInv'
BY DEF PlacesInv, Placed, Distinct, Origins, From, To

LEMMA PreflightKeepsPlaces ==
  ASSUME BatchInv, PlacesInv, PreflightRename
  PROVE  PlacesInv'
<1> DEFINE I == {i \in DOMAIN pairs : From(i) # To(i)}
<1>1. /\ pc = "preflight" /\ op = "rename" /\ pairs' = Filtered(pairs, I)
      /\ UNCHANGED <<dir, op, undoing, before, touched, k>>
  BY DEF PreflightRename, folderVars, ghostVars
<1>2. \/ pc' = "ended" /\ result' \in {"refused", "nothing"}
      \/ pc' = "stage" /\ Valid(pairs')
  BY DEF PreflightRename, End
<1>3. pairs \in Seq(Pairs) /\ Len(pairs) \in Nat /\ DOMAIN pairs = 1 .. Len(pairs) /\ k = 1
  BY <1>1 DEF BatchInv, LoopOK
<1>4. \A i \in 1 .. Len(pairs) : i \in I <=> pairs[i].from # pairs[i].to
  BY <1>3 DEF From, To
<1> HIDE DEF I
<1>5. /\ pairs' \in Seq(Pairs) /\ Len(pairs') \in Nat
      /\ \A j \in 1 .. Len(pairs') : \E i \in 1 .. Len(pairs) : i \in I /\ pairs'[j] = pairs[i]
      /\ \A i \in 1 .. Len(pairs) : i \in I => \E j \in 1 .. Len(pairs') : pairs'[j] = pairs[i]
  <2>0. pairs \in Seq(Pairs)
    BY <1>3
  <2>1. Filtered(pairs, I) \in Seq(Pairs) /\ Len(Filtered(pairs, I)) \in Nat
    BY <2>0, FilteredMembers
  <2>2. \A j \in 1 .. Len(Filtered(pairs, I)) : \E i \in 1 .. Len(pairs) :
           i \in I /\ Filtered(pairs, I)[j] = pairs[i]
    BY <2>0, FilteredMembers
  <2>3. \A i \in 1 .. Len(pairs) : i \in I =>
           \E j \in 1 .. Len(Filtered(pairs, I)) : Filtered(pairs, I)[j] = pairs[i]
    BY <2>0, FilteredMembers
  <2> QED BY <2>1, <2>2, <2>3, <1>1
<1>6. \A p \in Names : before.dir[p] \in Files \ touched => dir[p] = before.dir[p]
  <2>1. \A i : ~Staged(i) /\ ~Renamed(i)
    BY <1>1 DEF Staged, Renamed, Finished
  <2> QED BY <1>1, <2>1 DEF PlacesInv, Placed
<1>7. Placed'
  <2>1. \A i \in 1 .. Len(pairs') : ~Staged(i)' /\ (~Finished' => ~Renamed(i)')
    BY <1>1, <1>2, <1>3, <1>5 DEF Staged, Renamed
  <2>2. ~Finished'
    BY <1>2 DEF Finished
  <2> QED BY <1>1, <1>6, <2>1, <2>2 DEF Placed
<1>8. Distinct'
  <2>1. pc' = "stage" => \A i, j \in 1 .. Len(pairs') : pairs'[i].from = pairs'[j].from => i = j
    <3>1. DOMAIN pairs' = 1 .. Len(pairs')
      BY <1>5, LenProperties
    <3> QED BY <1>2, <3>1 DEF Valid
  <2>2. \A j \in 1 .. Len(pairs') : pairs'[j].from # pairs'[j].to
    BY SMTT(30), <1>4, <1>5
  <2> QED BY <1>2, <2>1, <2>2 DEF Distinct, From, To
<1>9. Origins'
  <2> SUFFICES ASSUME undoing, NEW p \in Names, Content[p] \in Files \ touched
               PROVE  \/ \E j \in 1 .. Len(pairs') : pairs'[j].to = p /\ before.dir[pairs'[j].from] = Content[p]
                      \/ before.dir[p] = Content[p] /\ \A j \in 1 .. Len(pairs') : pairs'[j].from # p
    BY <1>1 DEF Origins, From, To
  <2>1. \A i \in 1 .. Len(pairs) : i \in I
    BY <1>1, <1>4 DEF PlacesInv, Distinct, From, To
  <2>2. CASE \E i \in 1 .. Len(pairs) : To(i) = p /\ before.dir[From(i)] = Content[p]
    <3>1. PICK i \in 1 .. Len(pairs) : pairs[i].to = p /\ before.dir[pairs[i].from] = Content[p]
      BY <2>2 DEF From, To
    <3>2. PICK j \in 1 .. Len(pairs') : pairs'[j] = pairs[i]
      BY <1>5, <2>1
    <3> QED BY <3>1, <3>2
  <2>3. CASE before.dir[p] = Content[p] /\ \A i \in 1 .. Len(pairs) : From(i) # p
    BY <1>5, <2>3 DEF From
  <2> QED BY <1>1, <2>2, <2>3 DEF PlacesInv, Origins
<1> QED BY <1>7, <1>8, <1>9 DEF PlacesInv

LEMMA StageKeepsPlaces ==
  ASSUME BatchInv, PlacesInv, StageOne
  PROVE  PlacesInv'
<1>1. pc = "stage" /\ k <= Len(pairs) /\ UNCHANGED <<pairs, op, undoing, before, touched>>
  BY DEF StageOne, batchVars, ghostVars
<1>2. /\ pairs \in Seq(Pairs) /\ Len(pairs) \in Nat /\ Len(pairs) <= MaxPairs /\ k \in 1 .. Len(pairs)
  BY <1>1 DEF BatchInv, LoopOK
<1>3. CASE Renames(From(k), Temp(k)) /\ k' = k + 1 /\ pc' = pc /\ result' = result
  <2>1. From(k) \in Names /\ k \in 1 .. MaxPairs
    BY <1>2, PairNames DEF BatchInv
  <2>2. /\ dir[Temp(k)] = NoFile /\ dir'[Temp(k)] = dir[From(k)]
        /\ \A o \in Places : o # From(k) /\ o # Temp(k) => dir'[o] = dir[o]
    BY <1>3, Moved DEF BatchInv
  <2>3. \A i : From(i)' = From(i) /\ To(i)' = To(i)
    BY <1>1 DEF From, To
  <2>4. \A i \in 1 .. Len(pairs) : /\ Staged(i) <=> i < k
                                   /\ Staged(i)' <=> i < k + 1
                                   /\ ~Renamed(i) /\ ~Renamed(i)'
    BY <1>1, <1>3 DEF Staged, Renamed, Finished
  <2>5. Placed'
    <3> SUFFICES ASSUME op # "chmod", NEW p \in Names, before.dir[p] \in Files \ touched
                 PROVE  /\ \A i \in 1 .. Len(pairs) : From(i) = p /\ i < k + 1 => dir'[Temp(i)] = before.dir[p]
                        /\ (\A i \in 1 .. Len(pairs) : From(i) = p => ~(i < k + 1)) => dir'[p] = before.dir[p]
      BY <1>1, <2>3, <2>4 DEF Placed, Temp
    <3>1. /\ \A i \in 1 .. Len(pairs) : From(i) = p /\ i < k => dir[Temp(i)] = before.dir[p]
          /\ (\A i \in 1 .. Len(pairs) : From(i) = p => ~(i < k)) => dir[p] = before.dir[p]
      BY <1>1, <2>4 DEF PlacesInv, Placed
    <3>2. p \in Places /\ \A i \in 1 .. Len(pairs) : p # Temp(i) /\ From(k) # Temp(i) /\ Temp(i) \in Places
      <4>1. \A i \in 1 .. Len(pairs) : i \in 1 .. MaxPairs
        BY <1>2, FolderAssumption
      <4> QED BY <2>1, <4>1, TempsDiffer DEF Places
    <3>3. ASSUME NEW i \in 1 .. Len(pairs), From(i) = p, i < k + 1
          PROVE  dir'[Temp(i)] = before.dir[p]
      <4>1. CASE i = k
        <5>1. \A j \in 1 .. Len(pairs) : From(j) = p => ~(j < k)
          BY <1>1, <1>2, <3>3, <4>1 DEF PlacesInv, Distinct
        <5> QED BY <2>2, <3>1, <3>3, <4>1, <5>1
      <4>2. CASE i # k
        <5>1. i < k /\ i \in 1 .. MaxPairs
          BY <1>2, <3>3, <4>2, FolderAssumption
        <5>2. Temp(i) # Temp(k)
          BY <2>1, <4>2, <5>1, TempsDiffer
        <5> QED BY <2>2, <3>1, <3>2, <3>3, <5>1, <5>2
      <4> QED BY <4>1, <4>2
    <3>4. (\A i \in 1 .. Len(pairs) : From(i) = p => ~(i < k + 1)) => dir'[p] = before.dir[p]
      BY <1>2, <2>2, <3>1, <3>2
    <3> QED BY <3>3, <3>4
  <2>6. Distinct' /\ Origins'
    BY <1>1, <1>3, <2>3 DEF PlacesInv, Distinct, Origins, Finished
  <2> QED BY <2>5, <2>6 DEF PlacesInv
<1>4. CASE RollBack("failed", 0)
  BY <1>1, <1>4, GivesUp DEF RollBack, Finished
<1> QED BY <1>3, <1>4 DEF StageOne

LEMMA CommitKeepsPlaces ==
  ASSUME BatchInv, PlacesInv, CommitOne
  PROVE  PlacesInv'
<1>1. pc = "commit" /\ k <= Len(pairs) /\ UNCHANGED <<pairs, op, undoing, before, touched>>
  BY DEF CommitOne, batchVars, ghostVars
<1>2. /\ pairs \in Seq(Pairs) /\ Len(pairs) \in Nat /\ Len(pairs) <= MaxPairs /\ k \in 1 .. Len(pairs)
  BY <1>1 DEF BatchInv, LoopOK
<1>3. CASE Renames(Temp(k), To(k)) /\ k' = k + 1 /\ pc' = pc /\ result' = result
  <2>1. To(k) \in Names /\ k \in 1 .. MaxPairs
    BY <1>2, PairNames DEF BatchInv
  <2>2. /\ dir[To(k)] = NoFile /\ dir'[To(k)] = dir[Temp(k)]
        /\ \A o \in Places : o # To(k) /\ o # Temp(k) => dir'[o] = dir[o]
    BY <1>3, Moved DEF BatchInv
  <2>3. \A i : From(i)' = From(i) /\ To(i)' = To(i)
    BY <1>1 DEF From, To
  <2>4. \A i \in 1 .. Len(pairs) : /\ Staged(i) <=> i >= k
                                   /\ Staged(i)' <=> i >= k + 1
                                   /\ Renamed(i) <=> i < k
                                   /\ Renamed(i)' <=> i < k + 1
    BY <1>1, <1>3 DEF Staged, Renamed, Finished
  <2>5. Placed'
    <3> SUFFICES ASSUME op # "chmod", NEW p \in Names, before.dir[p] \in Files \ touched
                 PROVE  /\ \A i \in 1 .. Len(pairs) : From(i) = p /\ i >= k + 1 => dir'[Temp(i)] = before.dir[p]
                        /\ \A i \in 1 .. Len(pairs) : From(i) = p /\ i < k + 1 => dir'[To(i)] = before.dir[p]
                        /\ (\A i \in 1 .. Len(pairs) : From(i) = p => ~(i >= k + 1) /\ ~(i < k + 1)) =>
                              dir'[p] = before.dir[p] /\ \A i \in 1 .. Len(pairs) : i < k + 1 => To(i) # p
      BY <1>1, <2>3, <2>4 DEF Placed, Temp
    <3>1. /\ \A i \in 1 .. Len(pairs) : From(i) = p /\ i >= k => dir[Temp(i)] = before.dir[p]
          /\ \A i \in 1 .. Len(pairs) : From(i) = p /\ i < k => dir[To(i)] = before.dir[p]
          /\ (\A i \in 1 .. Len(pairs) : From(i) = p => ~(i >= k) /\ ~(i < k)) =>
                dir[p] = before.dir[p] /\ \A i \in 1 .. Len(pairs) : i < k => To(i) # p
      BY <1>1, <2>4 DEF PlacesInv, Placed
    <3>2. /\ p \in Places /\ before.dir[p] # NoFile
          /\ \A i \in 1 .. Len(pairs) : p # Temp(i) /\ To(k) # Temp(i) /\ Temp(i) \in Places
                                         /\ To(i) \in Places /\ To(i) # Temp(k)
      BY <1>2, <2>1, TempsDiffer, PairNames, FolderAssumption DEF Places
    <3>3. ASSUME NEW i \in 1 .. Len(pairs), From(i) = p, i >= k + 1
          PROVE  dir'[Temp(i)] = before.dir[p]
      <4>1. i >= k /\ i # k /\ i \in 1 .. MaxPairs
        BY <1>2, <3>3, FolderAssumption
      <4>2. Temp(i) # Temp(k)
        BY <2>1, <4>1, TempsDiffer
      <4> QED BY <2>2, <3>1, <3>2, <3>3, <4>1, <4>2
    <3>4. ASSUME NEW i \in 1 .. Len(pairs), From(i) = p, i < k + 1
          PROVE  dir'[To(i)] = before.dir[p]
      <4>1. CASE i = k
        <5>1. k >= k
          BY <1>2
        <5> QED BY <2>2, <3>1, <3>4, <4>1, <5>1
      <4>2. CASE i # k
        <5>1. i < k
          BY <1>2, <3>4, <4>2
        <5>2. dir[To(i)] = before.dir[p]
          BY <3>1, <3>4, <5>1
        <5> QED BY <2>2, <3>2, <5>2
      <4> QED BY <4>1, <4>2
    <3>5. ASSUME \A i \in 1 .. Len(pairs) : From(i) = p => ~(i >= k + 1) /\ ~(i < k + 1)
          PROVE  dir'[p] = before.dir[p] /\ \A i \in 1 .. Len(pairs) : i < k + 1 => To(i) # p
      <4>1. \A i \in 1 .. Len(pairs) : From(i) # p
        BY <1>2, <3>5
      <4>2. dir[p] = before.dir[p] /\ \A i \in 1 .. Len(pairs) : i < k => To(i) # p
        BY <3>1, <4>1
      <4>3. p # To(k)
        BY <2>2, <3>2, <4>2
      <4>4. \A i \in 1 .. Len(pairs) : i < k + 1 => i < k \/ i = k
        BY <1>2
      <4> QED BY <1>2, <2>2, <3>2, <4>2, <4>3, <4>4
    <3> QED BY <3>3, <3>4, <3>5
  <2>6. Distinct' /\ Origins'
    BY <1>1, <1>3, <2>3 DEF PlacesInv, Distinct, Origins, Finished
  <2> QED BY <2>5, <2>6 DEF PlacesInv
<1>4. CASE RollBack("failed", completed)
  BY <1>1, <1>4, GivesUp DEF RollBack, Finished
<1> QED BY <1>3, <1>4 DEF CommitOne

LEMMA LoopEndKeepsPlaces ==
  ASSUME BatchInv, PlacesInv, LoopEnds
  PROVE  PlacesInv'
<1>1. UNCHANGED <<dir, pairs, op, undoing, before, touched>> /\ pc \in {"stage", "commit"} /\ k > Len(pairs)
  BY DEF LoopEnds, folderVars, batchVars, ghostVars
<1>2. pairs \in Seq(Pairs) /\ Len(pairs) \in Nat /\ k = Len(pairs) + 1
  BY <1>1 DEF BatchInv, LoopOK
<1>3. \/ pc = "stage" /\ pc' = "commit" /\ k' = 1
      \/ pc = "commit" /\ pc' = "ended" /\ result' = "done"
  BY <1>1 DEF LoopEnds, End
<1>4. \A i \in 1 .. Len(pairs) : (Staged(i)' <=> Staged(i)) /\ (Renamed(i)' <=> Renamed(i))
  BY <1>2, <1>3 DEF Staged, Renamed, Finished
<1>5. \A i : From(i)' = From(i) /\ To(i)' = To(i)
  BY <1>1 DEF From, To
<1>6. Placed'
  BY <1>1, <1>4, <1>5 DEF PlacesInv, Placed, Temp
<1>7. Distinct' /\ Origins'
  BY <1>1, <1>3, <1>5 DEF PlacesInv, Distinct, Origins
<1> QED BY <1>6, <1>7 DEF PlacesInv

LEMMA SingleKeepsPlaces ==
  ASSUME BatchInv, PlacesInv, SingleRename
  PROVE  PlacesInv'
<1>1. pc = "preflight" /\ op = "single" /\ pc' = "ended" /\ UNCHANGED <<pairs, op, undoing, before, touched>>
  BY DEF SingleRename, batchVars, ghostVars, End
<1>2. pairs \in Seq(Pairs) /\ Len(pairs) = 1 /\ Len(pairs) <= MaxPairs /\ 1 \in 1 .. Len(pairs)
  BY <1>1 DEF BatchInv, LoopOK
<1>3. CASE Renames(From(1), To(1)) /\ result' = "done"
  <2>1. From(1) \in Names /\ To(1) \in Names /\ 1 .. Len(pairs) = {1}
    BY <1>2, PairNames
  <2>2. /\ dir[To(1)] = NoFile /\ dir'[To(1)] = dir[From(1)] /\ From(1) # To(1)
        /\ \A o \in Places : o # From(1) /\ o # To(1) => dir'[o] = dir[o]
    BY <1>3, Moved DEF BatchInv
  <2>3. \A i : From(i)' = From(i) /\ To(i)' = To(i)
    BY <1>1 DEF From, To
  <2>4. \A p \in Names : before.dir[p] \in Files \ touched => dir[p] = before.dir[p]
    <3>1. \A i : ~Staged(i) /\ ~Renamed(i)
      BY <1>1 DEF Staged, Renamed, Finished
    <3> QED BY <1>1, <3>1 DEF PlacesInv, Placed
  <2>5. \A i : ~Staged(i)' /\ Renamed(i)'
    BY <1>1, <1>3 DEF Staged, Renamed, Finished
  <2>6. Placed'
    <3> SUFFICES ASSUME NEW p \in Names, before.dir[p] \in Files \ touched
                 PROVE  /\ From(1) = p => dir'[To(1)] = before.dir[p]
                        /\ From(1) # p => dir'[p] = before.dir[p] /\ To(1) # p
      BY <1>1, <2>1, <2>3, <2>5 DEF Placed
    <3>1. dir[p] = before.dir[p] /\ dir[p] # NoFile /\ p \in Places
      BY <2>4, FolderAssumption DEF Places
    <3> QED BY <2>2, <3>1
  <2>7. Distinct' /\ Origins'
    BY <1>1, <2>1, <2>2, <2>3 DEF PlacesInv, Distinct, Origins
  <2> QED BY <2>6, <2>7 DEF PlacesInv
<1>4. CASE result' = "failed"
  BY <1>1, <1>4, GivesUp DEF Finished
<1> QED BY <1>3, <1>4 DEF SingleRename, End

LEMMA RenameKeepsPlaces ==
  ASSUME BatchInv, PlacesInv, AtHome, RenameNext
  PROVE  PlacesInv'
<1>1. CASE StopForCancel
  <2>1. pc' \in {"unrename", "unstage"} /\ UNCHANGED <<pairs, op, undoing>>
    BY <1>1 DEF StopForCancel, RollBack, batchVars
  <2> QED BY <2>1, GivesUp DEF Finished
<1>2. CASE Unrename
  <2>1. pc' = "unrename" /\ UNCHANGED <<pairs, op, undoing>>
    BY <1>2 DEF Unrename, batchVars
  <2> QED BY <2>1, GivesUp DEF Finished
<1>3. CASE Unrenamed
  <2>1. pc' = "unstage" /\ UNCHANGED <<pairs, op, undoing>>
    BY <1>3 DEF Unrenamed, batchVars
  <2> QED BY <2>1, GivesUp DEF Finished
<1>4. CASE Unstage
  <2>1. pc' = "unstage" /\ UNCHANGED <<pairs, op, undoing>>
    BY <1>4 DEF Unstage, batchVars
  <2> QED BY <2>1, GivesUp DEF Finished
<1>5. CASE RolledBack
  <2>1. pc' = "ended" /\ result' # "done" /\ UNCHANGED <<pairs, op, undoing>>
    BY <1>5 DEF RolledBack, batchVars, End, AtHome
  <2> QED BY <2>1, GivesUp DEF Finished
<1> QED BY <1>1, <1>2, <1>3, <1>4, <1>5, PreflightKeepsPlaces, StageKeepsPlaces, CommitKeepsPlaces,
           LoopEndKeepsPlaces, SingleKeepsPlaces DEF RenameNext

LEMMA ChmodKeepsPlaces ==
  ASSUME ChmodInv, PlacesInv, ChmodNext
  PROVE  PlacesInv'
<1>1. op' = "chmod" /\ pc' \in {"chmod", "unchmod", "ended"}
  <2>1. CASE PreflightChmod \/ PreflightRestore
    BY <2>1 DEF PreflightChmod, PreflightRestore, End
  <2>2. CASE ChmodOne
    BY <2>2 DEF ChmodOne, batchVars, End, ChmodInv, ChmodLoopOK
  <2>3. CASE ChmodEnds
    BY <2>3 DEF ChmodEnds, batchVars, End, ChmodInv, ChmodLoopOK
  <2>4. CASE Unchmod
    BY <2>4 DEF Unchmod, batchVars, ChmodInv, ChmodLoopOK
  <2> QED BY <2>1, <2>2, <2>3, <2>4 DEF ChmodNext
<1> QED BY <1>1 DEF PlacesInv, Placed, Distinct, Origins

-----------------------------------------------------------------------------
(* Modes and places that an undo relies on.                                *)
LEMMA HomeStarts ==
  ASSUME TransactionInit
  PROVE  AtHome
<1>1. /\ pc = "idle" /\ ~undoing /\ op = "rename" /\ cause = "none" /\ touched = {}
      /\ dir = [p \in Places |-> IF p \in Names THEN Content[p] ELSE NoFile]
      /\ mode = [f \in Files |-> Bits] /\ before.dir = dir /\ before.mode = mode
  BY DEF TransactionInit
<1>2. \A p \in Names : dir[p] = Content[p]
  BY <1>1 DEF Places
<1> QED BY <1>1, <1>2 DEF AtHome

LEMMA UserKeepsHome ==
  ASSUME AtHome, UserNext
  PROVE  AtHome'
<1>1. ASSUME NEW batch \in Batches, NEW kind \in {"rename", "single"}, RenameRequested(batch, kind)
      PROVE  AtHome'
  <2>1. /\ pc = "idle" /\ op' = kind /\ pc' = "preflight" /\ cause' = "none" /\ before'.dir = dir /\ before'.mode = mode
        /\ UNCHANGED <<dir, mode, touched, undoing>>
    BY <1>1 DEF RenameRequested, Begin, folderVars
  <2> QED BY <2>1 DEF AtHome
<1>2. ASSUME NEW names \in Selections, NEW change \in Changes, ChmodRequested(names, change)
      PROVE  AtHome'
  <2>1. /\ pc = "idle" /\ op' = "chmod" /\ pc' = "preflight" /\ cause' = "none" /\ before'.dir = dir
        /\ before'.mode = mode /\ UNCHANGED <<dir, mode, touched, undoing>>
    BY <1>2 DEF ChmodRequested, Begin, folderVars
  <2> QED BY <2>1 DEF AtHome
<1>3. CASE UndoBatch
  <2>1. /\ undoing' = TRUE /\ op' = op /\ pc' = "preflight" /\ cause' = "none"
        /\ UNCHANGED <<dir, mode, touched>>
    BY <1>3 DEF UndoBatch, Begin, folderVars
  <2> QED BY <2>1 DEF AtHome
<1>4. CASE CancelBatch
  <2>1. UNCHANGED <<dir, mode, touched, undoing, op, pc, cause, before>>
    BY <1>4 DEF CancelBatch, folderVars, batchVars, loopVars, ghostVars
  <2> QED BY <2>1 DEF AtHome
<1> QED BY <1>1, <1>2, <1>3, <1>4 DEF UserNext

LEMMA HomeUnseen ==
  ASSUME AtHome, UNCHANGED <<mode, undoing, op, before, touched>>, op # "chmod" \/ dir' = dir,
         pc' # "idle", cause' # "done"
  PROVE  AtHome'
BY DEF AtHome

LEMMA RenameKeepsHome ==
  ASSUME AtHome, ChmodInv, RenameNext
  PROVE  AtHome'
<1>1. CASE PreflightRename
  <2>1. UNCHANGED <<dir, mode, undoing, op, before, touched, cause>> /\ pc' \in {"stage", "ended"}
    BY <1>1 DEF PreflightRename, folderVars, ghostVars, End
  <2> QED BY <2>1, HomeUnseen DEF AtHome
<1>2. CASE StopForCancel
  <2>1. UNCHANGED <<dir, mode, undoing, op, before, touched>> /\ cause' = "cancelled" /\ pc' # "idle"
    BY <1>2 DEF StopForCancel, RollBack, folderVars, batchVars, ghostVars
  <2> QED BY <2>1, HomeUnseen
<1>3. CASE StageOne \/ CommitOne
  <2>1. UNCHANGED <<mode, undoing, op, before, touched>> /\ op = "rename" /\ pc \in {"stage", "commit"}
    BY <1>3 DEF StageOne, CommitOne, Renames, Refuses, folderVars, batchVars, ghostVars, ChmodInv, ChmodLoopOK
  <2>2. (cause' = cause \/ cause' = "failed") /\ pc' # "idle"
    BY <1>3, <2>1 DEF StageOne, CommitOne, RollBack
  <2> QED BY <2>1, <2>2, HomeUnseen DEF AtHome
<1>4. CASE LoopEnds \/ Unrenamed \/ RolledBack
  <2>1. UNCHANGED <<dir, mode, undoing, op, before, touched, cause>> /\ pc' # "idle"
    BY <1>4 DEF LoopEnds, Unrenamed, RolledBack, folderVars, batchVars, ghostVars, End
  <2> QED BY <2>1, HomeUnseen DEF AtHome
<1>5. CASE Unrename \/ Unstage
  <2>1. UNCHANGED <<mode, undoing, op, before, touched, cause, pc>> /\ op = "rename" /\ pc # "idle"
    BY <1>5 DEF Unrename, Unstage, Renames, Refuses, folderVars, batchVars, ghostVars, ChmodInv, ChmodLoopOK
  <2> QED BY <2>1, HomeUnseen DEF AtHome
<1>6. CASE SingleRename
  <2>1. UNCHANGED <<mode, undoing, op, before, touched, cause>> /\ op = "single" /\ pc' = "ended"
    BY <1>6 DEF SingleRename, Renames, Refuses, folderVars, batchVars, ghostVars, End
  <2> QED BY <2>1, HomeUnseen DEF AtHome
<1> QED BY <1>1, <1>2, <1>3, <1>4, <1>5, <1>6 DEF RenameNext

LEMMA ChmodKeepsHome ==
  ASSUME AtHome, ChmodInv, ChmodNext
  PROVE  AtHome'
<1>1. UNCHANGED <<dir, undoing, op, before, touched>> /\ op = "chmod" /\ pc' # "idle" /\ cause' # "done"
  <2>1. CASE PreflightChmod \/ PreflightRestore
    BY <2>1 DEF PreflightChmod, PreflightRestore, folderVars, ghostVars, End, AtHome
  <2>2. CASE ChmodOne
    BY <2>2 DEF ChmodOne, Chmods, Refuses, folderVars, batchVars, ghostVars, End, ChmodInv, ChmodLoopOK, AtHome
  <2>3. CASE ChmodEnds
    BY <2>3 DEF ChmodEnds, folderVars, batchVars, ghostVars, End, ChmodInv, ChmodLoopOK, AtHome
  <2>4. CASE Unchmod
    BY <2>4 DEF Unchmod, Chmods, Refuses, folderVars, batchVars, ghostVars, ChmodInv, ChmodLoopOK, AtHome
  <2> QED BY <2>1, <2>2, <2>3, <2>4 DEF ChmodNext
<1> QED BY <1>1 DEF AtHome

LEMMA HomeKept ==
  ASSUME FolderTypeOK, ChmodInv, AtHome, [TransactionNext]_transactionVars
  PROVE  AtHome'
<1>1. CASE IntruderNext
  <2>1. /\ UNCHANGED <<op, undoing, pc, cause, before>> /\ pc # "idle" /\ touched \subseteq touched'
        /\ \A o \in Places : dir[o] \in Files \ touched' => dir'[o] = dir[o]
        /\ \A o \in Places : dir'[o] \in Files \ touched' => dir'[o] = dir[o]
        /\ \A f \in Files \ touched' : mode'[f] = mode[f]
    BY <1>1, Untouched DEF ChmodInv
  <2>2. op # "chmod" => \A f \in Files \ touched' : mode'[f] = Bits
    BY <2>1 DEF AtHome
  <2>3. ASSUME op = "chmod", NEW p \in Names, dir'[p] \in Files \ touched' \/ Content[p] \in Files \ touched'
        PROVE  dir'[p] = Content[p]
    BY <2>1, <2>3 DEF AtHome, Places
  <2> QED BY <2>1, <2>2, <2>3 DEF AtHome
<1>2. CASE UNCHANGED transactionVars
  <2>1. UNCHANGED <<dir, mode, touched, undoing, op, pc, cause, before>>
    BY <1>2 DEF transactionVars, folderVars, batchVars, loopVars, ghostVars
  <2> QED BY <2>1 DEF AtHome
<1> QED BY <1>1, <1>2, UserKeepsHome, RenameKeepsHome, ChmodKeepsHome DEF TransactionNext

-----------------------------------------------------------------------------
(* The undo of set_permissions.                                            *)

\* The entries are those of files that were found, and tell their first modes.
Recorded ==
    op = "chmod" /\ (pc \in {"chmod", "unchmod"} \/ Finished \/ (undoing /\ pc = "preflight"))
FirstMode(e) == IF undoing /\ pc # "preflight" THEN e.after ELSE e.before
ToRestore(i) == undoing => pc = "preflight" \/ (pc = "chmod" /\ i >= k)

EntriesKnow ==
    Recorded => \A i \in 1 .. Len(entries) :
       entries[i].file \notin touched \/ Content[entries[i].name] \in Files \ touched =>
          entries[i].file = Content[entries[i].name] /\ FirstMode(entries[i]) = Bits
OthersHaveModes ==
    Recorded => \A f \in Files \ touched :
       mode[f] = Bits \/ \E i \in 1 .. Len(entries) : ToRestore(i) /\ entries[i].file = f

RecordInv == EntriesKnow /\ OthersHaveModes

LEMMA RecordUnseen ==
  ASSUME RecordInv, UNCHANGED <<entries, mode, undoing, op, pc, result, k>>, touched \subseteq touched'
  PROVE  RecordInv'
BY DEF RecordInv, EntriesKnow, OthersHaveModes, Recorded, FirstMode, ToRestore, Finished

LEMMA UserKeepsRecord ==
  ASSUME RecordInv, AtHome, UserNext
  PROVE  RecordInv'
<1>1. ASSUME NEW batch \in Batches, NEW kind \in {"rename", "single"}, RenameRequested(batch, kind)
      PROVE  RecordInv'
  <2>1. op' # "chmod"
    BY <1>1 DEF RenameRequested, Begin
  <2> QED BY <2>1 DEF RecordInv, EntriesKnow, OthersHaveModes, Recorded
<1>2. ASSUME NEW names \in Selections, NEW change \in Changes, ChmodRequested(names, change)
      PROVE  RecordInv'
  <2>1. pc' = "preflight" /\ ~undoing'
    BY <1>2 DEF ChmodRequested, Begin, AtHome
  <2> QED BY <2>1 DEF RecordInv, EntriesKnow, OthersHaveModes, Recorded, Finished
<1>3. CASE UndoBatch
  <2>1. /\ Finished /\ ~undoing /\ undoing' = TRUE /\ pc' = "preflight"
        /\ UNCHANGED <<entries, mode, op, touched>>
    BY <1>3 DEF UndoBatch, Finished, Begin, folderVars
  <2>2. EntriesKnow'
    BY <2>1 DEF RecordInv, EntriesKnow, Recorded, FirstMode
  <2>3. OthersHaveModes'
    BY <2>1 DEF RecordInv, OthersHaveModes, Recorded, ToRestore
  <2> QED BY <2>2, <2>3 DEF RecordInv
<1>4. CASE CancelBatch
  <2>1. UNCHANGED <<entries, mode, undoing, op, pc, result, k, touched>>
    BY <1>4 DEF CancelBatch, folderVars, batchVars, loopVars, ghostVars
  <2> QED BY <2>1, RecordUnseen
<1> QED BY <1>1, <1>2, <1>3, <1>4 DEF UserNext

LEMMA RenameKeepsRecord ==
  ASSUME AtHome, ChmodInv, RenameNext
  PROVE  RecordInv'
<1>1. ~Recorded'
  <2>1. CASE RolledBack
    BY <2>1 DEF RolledBack, End, AtHome, Recorded, Finished
  <2>2. CASE PreflightRename \/ SingleRename
    BY <2>2 DEF PreflightRename, SingleRename, batchVars, Recorded
  <2>3. CASE StopForCancel \/ StageOne \/ CommitOne \/ LoopEnds \/ Unrename \/ Unrenamed \/ Unstage
    <3>1. op' = op /\ pc \in {"stage", "commit", "unrename", "unstage"}
      BY <2>3 DEF StopForCancel, StageOne, CommitOne, LoopEnds, Unrename, Unrenamed, Unstage, batchVars
    <3> QED BY <3>1 DEF ChmodInv, ChmodLoopOK, Recorded
  <2> QED BY <2>1, <2>2, <2>3 DEF RenameNext
<1> QED BY <1>1 DEF RecordInv, EntriesKnow, OthersHaveModes

LEMMA PreflightKeepsRecord ==
  ASSUME FolderTypeOK, LoopOK, ChmodInv, AtHome, PreflightChmod
  PROVE  RecordInv'
<1>1. /\ pc = "preflight" /\ op = "chmod" /\ ~undoing /\ pc' \in {"ended", "chmod"}
      /\ pc' = "ended" => result' \in {"refused", "nothing"}
      /\ pc' = "chmod" => AllRegular
      /\ UNCHANGED <<dir, mode, op, undoing, errors, touched, before>>
  BY DEF PreflightChmod, folderVars, ghostVars, End
<1>2. CASE pc' = "ended"
  BY <1>1, <1>2 DEF RecordInv, EntriesKnow, OthersHaveModes, Recorded, Finished
<1>3. CASE pc' = "chmod"
  <2>1. errors = {} /\ \A i : ~Applied(i)
    BY <1>1 DEF LoopOK, Applied
  <2>2. \A f \in Files \ touched : mode[f] = Bits
    BY <1>1, <2>1 DEF ChmodInv, ModesOwned, AtHome
  <2>3. /\ entries' \in Seq(PermissionEntries)
        /\ \A j \in 1 .. Len(entries') : /\ entries'[j].file = dir[entries'[j].name]
                                          /\ entries'[j].file \in Files
                                          /\ entries'[j].before = mode[entries'[j].file]
    BY <1>1, <1>3, PreparedEntries DEF ChmodInv
  <2>4. ASSUME NEW j \in 1 .. Len(entries'),
               entries'[j].file \notin touched \/ Content[entries'[j].name] \in Files \ touched
        PROVE  entries'[j].file = Content[entries'[j].name] /\ entries'[j].before = Bits
    <3>0. entries'[j] \in PermissionEntries
      BY <2>3
    <3>1. entries'[j].name \in Names
      BY <3>0 DEF PermissionEntries
    <3> QED BY <1>1, <2>2, <2>3, <2>4, <3>1 DEF AtHome
  <2>5. EntriesKnow'
    BY <1>1, <2>4 DEF EntriesKnow, FirstMode
  <2>6. OthersHaveModes'
    BY <1>1, <2>2 DEF OthersHaveModes
  <2> QED BY <2>5, <2>6 DEF RecordInv
<1> QED BY <1>1, <1>2, <1>3

LEMMA RestoreKeepsRecord ==
  ASSUME FolderTypeOK, LoopOK, ChmodInv, AtHome, RecordInv, PreflightRestore
  PROVE  RecordInv'
<1>1. /\ pc = "preflight" /\ op = "chmod" /\ undoing
      /\ UNCHANGED <<dir, mode, op, undoing, k, touched>>
  BY DEF PreflightRestore, folderVars, ghostVars
<1>2. k = 1 /\ Recorded
  BY <1>1 DEF LoopOK, Recorded
<1> DEFINE Same == AllRegular /\ \A i \in DOMAIN entries : mode[dir[entries[i].name]] = entries[i].after
<1>3. CASE ~Same
  <2>1. pc' = "ended" /\ result' = "refused"
    BY <1>3 DEF PreflightRestore, End
  <2> QED BY <2>1 DEF RecordInv, EntriesKnow, OthersHaveModes, Recorded, Finished
<1>4. CASE Same
  <2>1. entries' = [i \in DOMAIN entries |-> Restored(i)] /\ pc' = "chmod"
    BY <1>4 DEF PreflightRestore, Restored
  <2>2. /\ entries' \in Seq(PermissionEntries) /\ Len(entries') = Len(entries)
        /\ \A i \in 1 .. Len(entries) :
              /\ entries'[i].name = entries[i].name /\ entries'[i].file = dir[entries[i].name]
              /\ entries'[i].file \in Files /\ entries'[i].after = entries[i].before
    BY <1>4, <2>1, RestoredEntries DEF ChmodInv
  <2>3. \A i \in 1 .. Len(entries) : entries[i].name \in Names
    <3>1. \A i \in 1 .. Len(entries) : entries[i] \in PermissionEntries
      BY DEF ChmodInv, ModesTypeOK
    <3> QED BY <3>1 DEF PermissionEntries
  <2>4. \A i \in 1 .. Len(entries) :
           entries[i].file \notin touched \/ Content[entries[i].name] \in Files \ touched =>
              entries[i].file = Content[entries[i].name] /\ entries[i].before = Bits
    BY <1>1, <1>2 DEF RecordInv, EntriesKnow, FirstMode
  <2>5. ASSUME NEW i \in 1 .. Len(entries),
               entries'[i].file \notin touched \/ Content[entries'[i].name] \in Files \ touched
        PROVE  entries'[i].file = Content[entries'[i].name] /\ entries'[i].after = Bits
    <3>1. dir[entries[i].name] = Content[entries[i].name] /\ Content[entries[i].name] \in Files \ touched
      BY <1>1, <2>2, <2>3, <2>5 DEF AtHome
    <3> QED BY <2>2, <2>4, <3>1
  <2>6. EntriesKnow'
    BY <1>1, <2>1, <2>2, <2>5 DEF EntriesKnow, FirstMode
  <2>7. ASSUME NEW f \in Files \ touched
        PROVE  mode[f] = Bits \/ \E i \in 1 .. Len(entries) : entries'[i].file = f
    <3>1. CASE mode[f] # Bits
      <4>1. PICK i \in 1 .. Len(entries) : entries[i].file = f
        BY <1>2, <3>1 DEF RecordInv, OthersHaveModes
      <4>2. Content[entries[i].name] = f
        BY <2>4, <4>1
      <4>3. entries'[i].file = f
        BY <1>1, <2>2, <2>3, <4>2 DEF AtHome
      <4> QED BY <4>3
    <3> QED BY <3>1
  <2>8. \A i \in 1 .. Len(entries) : ToRestore(i)'
    <3>1. Len(entries) \in Nat
      BY DEF ChmodInv, ModesTypeOK
    <3> QED BY <1>1, <1>2, <2>1, <3>1 DEF ToRestore
  <2>9. OthersHaveModes'
    BY <1>1, <2>2, <2>7, <2>8 DEF OthersHaveModes
  <2> QED BY <2>6, <2>9 DEF RecordInv
<1> QED BY <1>3, <1>4

LEMMA ChmodStepKeepsRecord ==
  ASSUME FolderTypeOK, ChmodInv, RecordInv, ChmodOne \/ ChmodEnds
  PROVE  RecordInv'
<1>1. /\ pc = "chmod" /\ op = "chmod" /\ k \in 1 .. Len(entries) + 1
      /\ UNCHANGED <<op, undoing, entries, touched>>
  BY DEF ChmodOne, ChmodEnds, batchVars, ghostVars, ChmodInv, ChmodLoopOK
<1>2. /\ entries \in Seq(PermissionEntries) /\ Len(entries) \in Nat
      /\ \A i \in 1 .. Len(entries) : entries[i] \in PermissionEntries /\ entries[i].file \in Files
  BY <1>1 DEF ChmodInv, ModesTypeOK, ChmodLoopOK
<1>3. /\ Recorded
      /\ \A i \in 1 .. Len(entries) : ToRestore(i) <=> (undoing => i >= k)
  BY <1>1 DEF Recorded, ToRestore
<1>4. CASE ChmodOne /\ Chmods(entries[k], entries[k].after) /\ k' = k + 1 /\ pc' = pc /\ result' = result
  <2>1. k \in 1 .. Len(entries)
    BY <1>1, <1>4 DEF ChmodOne
  <2>2. entries[k] \in PermissionEntries /\ entries[k].file \in Files /\ entries[k].after \in SUBSET Bits
    BY <1>2, <2>1 DEF PermissionEntries
  <2>3. /\ mode'[entries[k].file] = entries[k].after
        /\ \A f \in Files : f # entries[k].file => mode'[f] = mode[f]
    BY <1>4, <2>2, Chmodded DEF ChmodInv
  <2>4. \A i \in 1 .. Len(entries) : ToRestore(i)' <=> (undoing => i >= k + 1)
    BY <1>1, <1>4 DEF ToRestore
  <2>5. EntriesKnow'
    BY <1>1, <1>3, <1>4 DEF RecordInv, EntriesKnow, FirstMode
  <2>6. ASSUME NEW f \in Files \ touched
        PROVE  mode'[f] = Bits \/ \E i \in 1 .. Len(entries) : ToRestore(i)' /\ entries[i].file = f
    <3>1. CASE f = entries[k].file /\ undoing
      <4>1. entries[k].after = Bits
        BY <1>1, <1>3, <2>1, <3>1 DEF RecordInv, EntriesKnow, FirstMode
      <4> QED BY <2>3, <3>1, <4>1
    <3>2. CASE f = entries[k].file /\ ~undoing
      BY <2>1, <2>4, <3>2
    <3>3. CASE f # entries[k].file
      <4>1. mode'[f] = mode[f]
        BY <2>3, <3>3
      <4>2. mode[f] = Bits \/ \E i \in 1 .. Len(entries) : ToRestore(i) /\ entries[i].file = f
        BY <1>3 DEF RecordInv, OthersHaveModes
      <4>3. \A i \in 1 .. Len(entries) : ToRestore(i) /\ entries[i].file = f => ToRestore(i)'
        BY <1>1, <1>2, <1>3, <2>4, <3>3
      <4> QED BY <4>1, <4>2, <4>3
    <3> QED BY <3>1, <3>2, <3>3
  <2>7. OthersHaveModes'
    BY <1>1, <2>6 DEF OthersHaveModes
  <2> QED BY <2>5, <2>7 DEF RecordInv
<1>5. CASE /\ ChmodOne /\ mode' = mode
           /\ \/ undoing /\ pc' = "ended" /\ result' = "halfway"
              \/ ~undoing /\ pc' = "unchmod" /\ result' = result
  <2>1. CASE undoing
    BY <1>1, <1>5, <2>1 DEF RecordInv, EntriesKnow, OthersHaveModes, Recorded, Finished
  <2>2. CASE ~undoing
    BY <1>1, <1>3, <1>5, <2>2 DEF RecordInv, EntriesKnow, OthersHaveModes, FirstMode, ToRestore
  <2> QED BY <2>1, <2>2
<1>6. CASE ChmodEnds
  <2>1. mode' = mode /\ pc' = "ended" /\ result' = "done" /\ k' = k /\ k > Len(entries)
    BY <1>6 DEF ChmodEnds, folderVars, End
  <2>2. EntriesKnow'
    BY <1>1, <1>3, <2>1 DEF RecordInv, EntriesKnow, FirstMode
  <2>3. OthersHaveModes'
    <3>1. undoing => \A i \in 1 .. Len(entries) : ~ToRestore(i)
      BY <1>1, <1>2, <1>3, <2>1
    <3>2. ~undoing => \A i : ToRestore(i)'
      BY <1>1 DEF ToRestore
    <3> QED BY <1>1, <1>3, <2>1, <3>1, <3>2 DEF RecordInv, OthersHaveModes
  <2> QED BY <2>2, <2>3 DEF RecordInv
<1>7. ChmodOne => \/ Chmods(entries[k], entries[k].after) /\ k' = k + 1 /\ pc' = pc /\ result' = result
                  \/ /\ mode' = mode
                     /\ \/ undoing /\ pc' = "ended" /\ result' = "halfway"
                        \/ ~undoing /\ pc' = "unchmod" /\ result' = result
  BY DEF ChmodOne, Refuses, folderVars, End
<1> QED BY <1>4, <1>5, <1>6, <1>7

LEMMA UnchmodKeepsRecord ==
  ASSUME FolderTypeOK, ChmodInv, RecordInv, Unchmod
  PROVE  RecordInv'
<1>1. /\ pc = "unchmod" /\ op = "chmod" /\ ~undoing /\ k \in 1 .. Len(entries) /\ k' = k - 1
      /\ UNCHANGED <<op, undoing, entries, touched, pc, result>>
  <2>1. k \in 0 .. Len(entries) /\ k > 0 /\ Len(entries) \in Nat
    BY DEF Unchmod, ChmodInv, ChmodLoopOK, ModesTypeOK
  <2> QED BY <2>1 DEF Unchmod, batchVars, ghostVars, ChmodInv, ChmodLoopOK
<1>2. Recorded /\ \A i : ToRestore(i) /\ ToRestore(i)'
  BY <1>1 DEF Recorded, ToRestore
<1>3. EntriesKnow'
  BY <1>1, <1>2 DEF RecordInv, EntriesKnow, FirstMode
<1>4. OthersHaveModes'
  <2>1. CASE mode' = mode
    BY <1>1, <1>2, <2>1 DEF RecordInv, OthersHaveModes
  <2>2. CASE Chmods(entries[k], entries[k].before)
    <3>1. entries[k] \in PermissionEntries /\ entries[k].file \in Files /\ entries[k].before \in SUBSET Bits
      <4>1. entries[k] \in PermissionEntries /\ entries[k].file \in Files
        BY <1>1 DEF ChmodInv, ModesTypeOK, ChmodLoopOK
      <4> QED BY <4>1 DEF PermissionEntries
    <3>2. \A f \in Files : f # entries[k].file => mode'[f] = mode[f]
      BY <2>2, <3>1, Chmodded DEF ChmodInv
    <3> QED BY <1>1, <1>2, <3>2 DEF RecordInv, OthersHaveModes
  <2> QED BY <2>1, <2>2 DEF Unchmod, Refuses, folderVars
<1> QED BY <1>3, <1>4 DEF RecordInv

LEMMA RecordKept ==
  ASSUME BatchInv, ChmodInv, AtHome, RecordInv, [TransactionNext]_transactionVars
  PROVE  RecordInv'
<1>1. FolderTypeOK /\ LoopOK
  BY DEF BatchInv
<1>2. CASE UserNext
  BY <1>2, UserKeepsRecord
<1>3. CASE RenameNext
  BY <1>3, RenameKeepsRecord
<1>4. CASE ChmodNext
  BY <1>1, <1>4, PreflightKeepsRecord, RestoreKeepsRecord, ChmodStepKeepsRecord, UnchmodKeepsRecord DEF ChmodNext
<1>5. CASE IntruderNext
  <2>1. /\ UNCHANGED <<entries, op, undoing, pc, result, k>> /\ touched \subseteq touched'
        /\ \A f \in Files \ touched' : mode'[f] = mode[f]
    BY <1>1, <1>5, Untouched DEF ChmodInv
  <2>2. (Recorded' <=> Recorded) /\ (\A i : ToRestore(i)' <=> ToRestore(i))
        /\ \A i : FirstMode(entries[i])' = FirstMode(entries[i])
    BY <2>1 DEF Recorded, ToRestore, FirstMode, Finished
  <2>3. EntriesKnow'
    BY <2>1, <2>2 DEF RecordInv, EntriesKnow
  <2>4. OthersHaveModes'
    BY <2>1, <2>2 DEF RecordInv, OthersHaveModes
  <2> QED BY <2>3, <2>4 DEF RecordInv
<1>6. CASE UNCHANGED transactionVars
  <2>1. UNCHANGED <<entries, mode, undoing, op, pc, result, k, touched>>
    BY <1>6 DEF transactionVars, folderVars, batchVars, loopVars, ghostVars
  <2> QED BY <2>1, RecordUnseen
<1> QED BY <1>2, <1>3, <1>4, <1>5, <1>6 DEF TransactionNext

-----------------------------------------------------------------------------
RestoreInv == AtHome /\ PlacesInv /\ RecordInv

LEMMA RestoreStarts ==
  ASSUME TransactionInit
  PROVE  RestoreInv
<1>1. pc = "idle" /\ op = "rename" /\ ~undoing
  BY DEF TransactionInit
<1>2. PlacesInv /\ RecordInv
  BY <1>1 DEF PlacesInv, Placed, Distinct, Origins, RecordInv, EntriesKnow, OthersHaveModes, Recorded, Finished
<1> QED BY <1>2, HomeStarts DEF RestoreInv

LEMMA RestoreKept ==
  ASSUME BatchInv, ChmodInv, RestoreInv, [TransactionNext]_transactionVars
  PROVE  RestoreInv'
<1>1. AtHome /\ PlacesInv /\ RecordInv
  BY DEF RestoreInv
<1>2. PlacesInv'
  <2>1. CASE IntruderNext
    BY <1>1, <2>1, IntruderKeepsPlaces DEF ChmodInv
  <2>2. CASE UNCHANGED transactionVars
    <3>1. UNCHANGED <<dir, pairs, op, undoing, pc, result, k, before, touched>>
      BY <2>2 DEF transactionVars, folderVars, batchVars, loopVars, ghostVars
    <3> QED BY <1>1, <3>1 DEF PlacesInv, Placed, Distinct, Origins, Staged, Renamed, Finished, From, To, Temp
  <2> QED BY <1>1, <2>1, <2>2, UserKeepsPlaces, RenameKeepsPlaces, ChmodKeepsPlaces DEF TransactionNext
<1>3. AtHome'
  BY <1>1, HomeKept DEF BatchInv
<1>4. RecordInv'
  BY <1>1, RecordKept
<1> QED BY <1>2, <1>3, <1>4 DEF RestoreInv

LEMMA UndoneIsRestored ==
  ASSUME BatchInv, RestoreInv
  PROVE  UndoneMeansRestored
<1> SUFFICES ASSUME pc = "ended", undoing, result = "done"
             PROVE  /\ \A f \in Files \ touched :
                          /\ mode[f] = Bits
                          /\ \A p \in Names : Content[p] = f => dir[p] = f
                    /\ \A p \in Temps : dir[p] = NoFile
  BY DEF UndoneMeansRestored
<1>1. errors = {} /\ Finished /\ AtHome /\ PlacesInv /\ RecordInv
  BY DEF BatchInv, LoopOK, Finished, RestoreInv
<1>2. \A p \in Temps : dir[p] = NoFile
  BY <1>1, Vacant, TempsDiffer
<1>3. ASSUME NEW f \in Files \ touched PROVE mode[f] = Bits
  <2>1. CASE op = "chmod"
    <3>1. Recorded /\ \A i : ~ToRestore(i)
      BY <1>1, <2>1 DEF Recorded, ToRestore
    <3> QED BY <1>1, <3>1 DEF RecordInv, OthersHaveModes
  <2>2. CASE op # "chmod"
    BY <1>1, <2>2 DEF AtHome
  <2> QED BY <2>1, <2>2
<1>4. ASSUME NEW f \in Files \ touched, NEW p \in Names, Content[p] = f PROVE dir[p] = f
  <2>1. CASE op = "chmod"
    BY <1>1, <1>4, <2>1 DEF AtHome
  <2>2. CASE op # "chmod"
    <3>1. \A i : Renamed(i)
      BY <1>1 DEF Renamed
    <3>2. CASE \E i \in 1 .. Len(pairs) : To(i) = p /\ before.dir[From(i)] = Content[p]
      <4>1. PICK i \in 1 .. Len(pairs) : To(i) = p /\ before.dir[From(i)] = Content[p]
        BY <3>2
      <4>2. From(i) \in Names
        BY <4>1, PairNames DEF BatchInv, LoopOK
      <4> QED BY <1>1, <1>4, <2>2, <3>1, <4>1, <4>2 DEF PlacesInv, Placed
    <3>3. CASE before.dir[p] = Content[p] /\ \A i \in 1 .. Len(pairs) : From(i) # p
      BY <1>1, <1>4, <2>2, <3>3 DEF PlacesInv, Placed
    <3> QED BY <1>1, <1>4, <2>2, <3>2, <3>3 DEF PlacesInv, Origins
  <2> QED BY <2>1, <2>2
<1> QED BY <1>2, <1>3, <1>4

\* undo of renames and of set_permissions: when it succeeds, each file that no
\* other process touched has its first name and its first mode again.
THEOREM UndoneMeansRestoredAlways == TransactionSpec => []UndoneMeansRestored
<1>1. BatchInv /\ RestoreInv => UndoneMeansRestored
  BY UndoneIsRestored
<1>2. BatchInv /\ RenamesLoseNothing /\ ChmodInv /\ RestoreInv /\ [TransactionNext]_transactionVars
         => BatchInv' /\ RenamesLoseNothing' /\ ChmodInv' /\ RestoreInv'
  BY BatchKept, FolderKept, ModesKept, RestoreKept DEF BatchInv
<1>3. TransactionInit => BatchInv /\ RenamesLoseNothing /\ ChmodInv /\ RestoreInv
  BY BatchStarts, FolderStarts, ModesStart, RestoreStarts
<1> QED BY <1>1, <1>2, <1>3, PTL DEF TransactionSpec
=============================================================================
