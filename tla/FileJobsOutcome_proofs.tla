----------------------- MODULE FileJobsOutcome_proofs -----------------------
(***************************************************************************)
(* What FileJobs promises of a job that no other process disturbs, for     *)
(* every job, number of sources and of faults: the outcome is true, a      *)
(* source that it does not name is whole, and an undo that succeeds gives  *)
(* back what was there.                                                    *)
(*                                                                         *)
(* The argument is two invariants over that of FileJobs_proofs.  JobsTold: *)
(* the sources before the present one are skipped or done, the targets of  *)
(* those done are whole, the other sources are whole, and of the present   *)
(* one it says how far its copy, or its removal, is.  JobsReversible: the  *)
(* folders are as they were at first but for the copies that stand and the *)
(* moves that were not moved back.                                         *)
(***************************************************************************)
EXTENDS FileJobs_proofs

-----------------------------------------------------------------------------
(* The invariant.                                                          *)
ChildOf(p, c) == <<p[1], p[2], c>>

\* What was at q at first is at r.
CameTo(t, q, r) == q \in DOMAIN first => r \in DOMAIN t /\ t[r].data = first[q].data

\* All that was at the root s at first is at the root p.
Holds(t, s, p) == CameTo(t, s, p) /\ \A c \in VisibleNames : CameTo(t, ChildOf(s, c), ChildOf(p, c))

Origin(s) == <<"src", Plain(Base(s))>>
Done(j)   == {j.affected[n].source : n \in DOMAIN j.affected}

\* ReplacedAgain and OnePlace of a job.
Forgiven(j, f) == j.op = "restore" /\ j.replace /\ f > 0
OneOver(j, s) ==
    \/ j.op = "restore" /\ j.replace /\ \E r \in ToSet(j.sources) \ {s} : Base(r) = Base(s)
    \/ /\ j.op = "move" /\ s \in j.issues
       /\ \E m, n \in DOMAIN j.sources : m # n /\ j.sources[m] = s /\ j.sources[n] = s

\* Where the job works on its sources, knows a target, and may have removed a
\* part of the source.
Working(j)   == j.pc \notin AsidePCs \cup BackPCs \cup {"ended"}
HasTarget(j) == \/ j.pc \in {"transfer", "copy", "restore", "info"} \cup StagePCs
                \/ Removing(j) /\ j.op \notin Deletions
TakenApart(j) == \/ j.pc \in {"removing", "info"}
                 \/ j.pc = "error" /\ j.stage = "remove"
                 \/ j.pc \in {"remove", "unlink"} /\ j.op # "restore"

\* The sources before the present one are skipped or done.
Booked(j) ==
    /\ j.op \notin {"restore", "purge"} => \A m \in DOMAIN j.sources : j.sources[m][2][2] = 0
    /\ j.pc \in {"prepare", "validate"} => j.affected = << >> /\ j.skipped = {} /\ j.issues = {}
    /\ j.pc = "validate" => j.i = 1
    /\ j.pc \notin {"prepare", "validate"} =>
          {j.sources[m] : m \in {k \in DOMAIN j.sources : k < j.i}} = j.skipped \cup Done(j)

\* A target has the name of its source.
Named(j) ==
    /\ j.op \notin Deletions =>
          \A n \in DOMAIN j.affected : Base(j.affected[n].target) = Base(j.affected[n].source)
    /\ HasTarget(j) => Base(j.target) = Base(SourceOf(j))
    /\ j.op = "restore" /\ HasTarget(j) => j.target = Origin(SourceOf(j)) /\ SourceOf(j) \notin Done(j)
    /\ j.op = "restore" /\ j.how = "replace" => j.replace
    /\ j.pc = "transfer" => j.op # "restore"
    /\ j.op \in Deletions /\ j.pc = "error" => j.error = "io"

\* What is done is gone, and what is copied is there.
Gone(t, j, x) ==
    /\ \A s \in Done(j) : j.op # "copy" /\ (j.op = "move" => s \notin j.issues) => s \notin DOMAIN t
    /\ \A p \in x : p[1] = "trash"
    /\ j.op = "restore" => Done(j) \cap x = {}
    /\ j.pc = "info" => SourceOf(j) \notin DOMAIN t
    /\ j.pc \in CopyPCs \cup {"discard"} => SourceOf(j) \in DOMAIN t
    /\ j.op = "restore" /\ j.pc \in {"remove", "unlink", "removing"} => SourceOf(j) \in DOMAIN t

\* The targets of what is done are whole, and so are the sources that are not,
\* but for the one that is being removed.
TargetsWhole(t, j) ==
    j.op \notin Deletions =>
       \A n \in DOMAIN j.affected :
          OneOver(j, j.affected[n].source) \/ Holds(t, j.affected[n].source, j.affected[n].target)
Fine(t, j, s) ==
    \/ j.op # "copy" /\ s \in Done(j)
    \/ Holds(t, s, s)
    \/ j.op = "restore" /\ ~j.replace /\ Holds(t, s, Origin(s))
SourcesFine(t, j) ==
    \A s \in ToSet(j.sources) : Fine(t, j, s) \/ (TakenApart(j) /\ s = SourceOf(j))

\* How far the copy of the present source is, unless this source is done already.
Due(j) == j.op = "copy" \/ SourceOf(j) \notin Done(j)
CopiedBut(t, j, W) ==
    /\ CameTo(t, SourceOf(j), WorkOf(j))
    /\ \A c \in VisibleNames \ W : CameTo(t, ChildOf(SourceOf(j), c), ChildOf(WorkOf(j), c))
Progress(t, j) ==
    /\ j.op = "restore" /\ j.pc \in {"restore", "copy", "remove", "unlink"} \cup StagePCs =>
          Holds(t, SourceOf(j), SourceOf(j))
    /\ j.op = "restore" /\ j.pc = "removing" =>
          \A c \in VisibleNames : ChildOf(SourceOf(j), c) \in DOMAIN t <=> c \in j.walk
    /\ j.pc = "walk" => CopiedBut(t, j, j.walk)
    /\ j.pc = "leaf" =>
          /\ CameTo(t, ItemOf(j), LeafOf(j))
          /\ IF j.item = << >> THEN \A c \in VisibleNames : ChildOf(SourceOf(j), c) \notin DOMAIN first
                               ELSE CopiedBut(t, j, j.walk)
    /\ j.pc \in {"commit", "exchange", "place"} => Holds(t, SourceOf(j), WorkOf(j))
    /\ j.pc \in {"discard", "info"} \/ (Removing(j) /\ j.op \notin Deletions) =>
          Holds(t, SourceOf(j), j.target)

Told(t, j, x, f) ==
    /\ Booked(j) /\ Named(j) /\ Gone(t, j, x)
    /\ ~Forgiven(j, f) => /\ TargetsWhole(t, j) /\ SourcesFine(t, j)
                          /\ Due(j) => Progress(t, j)

\* What the outcome says.
Ended(t, j, x, f) ==
    /\ \A n \in DOMAIN j.affected :
          LET a == j.affected[n] IN
          /\ j.op \notin Deletions /\ ~Forgiven(j, f) /\ ~OneOver(j, a.source) => Holds(t, a.source, a.target)
          /\ j.op # "copy" /\ a.source \notin j.issues => a.source \notin DOMAIN t
          /\ a.source \notin j.issues /\ j.op # "trash" /\ j.result = "Completed" => a.source \notin x
    /\ j.result = "Completed" => ToSet(j.sources) = j.skipped \cup Done(j)
    /\ ~(j.op \in Deletions /\ j.error = "io") /\ ~Forgiven(j, f) =>
          \A s \in ToSet(j.sources) :
             \/ s \in j.issues \cup Done(j)
             \/ Holds(t, s, s)
             \/ j.op = "restore" /\ Holds(t, s, Origin(s))

FirstOK == FileTree(first) /\ DOMAIN first \subseteq VisiblePaths

Says(t, j, x, f) ==
    /\ Working(j) => Told(t, j, x, f)
    /\ j.pc = "ended" /\ j.undo \in {"none", "offered"} => Ended(t, j, x, f)
JobsTold ==
    /\ FirstOK /\ faults \in Nat
    /\ foreign = 0 => Says(tree, job, info, faults)

-----------------------------------------------------------------------------
(* Roots, their children, and what is whole.                               *)
LEMMA ChildPaths ==
  ASSUME NEW p \in Roots, NEW c \in AllNames
  PROVE  /\ ChildOf(p, c) \in Children /\ ChildOf(p, c) \in Paths /\ RootOf(ChildOf(p, c)) = p
         /\ ChildOf(p, c)[3] = c /\ ChildOf(p, c) \in TreeOf(p)
         /\ c \in VisibleNames => ChildOf(p, c) \in CleanTree(p)
         /\ \A r \in Roots : To(ChildOf(p, c), r) = ChildOf(r, c)
<1>1. p = <<p[1], p[2]>> /\ p[1] \in Folders /\ p[2] \in AllNames
  BY PathShapes
<1>2. ChildOf(p, c) \in Children
  BY <1>1 DEF ChildOf, Children
<1>3. ChildOf(p, c)[1] = p[1] /\ ChildOf(p, c)[2] = p[2] /\ ChildOf(p, c)[3] = c
  BY DEF ChildOf
<1>4. ChildOf(p, c) \in Paths /\ ChildOf(p, c) \notin Roots
  BY <1>2, RootsAndChildren DEF Paths
<1>5. RootOf(ChildOf(p, c)) = p
  BY <1>1, <1>3 DEF RootOf
<1>6. ChildOf(p, c) \in TreeOf(p)
  BY <1>4, <1>5 DEF TreeOf
<1>7. c \in VisibleNames => ChildOf(p, c) \in CleanTree(p)
  BY <1>3, <1>6 DEF CleanTree, NothingHiddenIn
<1>8. \A r \in Roots : To(ChildOf(p, c), r) = ChildOf(r, c)
  BY <1>3, <1>4 DEF To, ChildOf
<1> QED BY <1>2, <1>3, <1>4, <1>5, <1>6, <1>7, <1>8

LEMMA RootPaths ==
  ASSUME NEW p \in Roots
  PROVE  /\ p \in Paths /\ RootOf(p) = p /\ p \in TreeOf(p) /\ p \in CleanTree(p) /\ p \notin Children
         /\ \A r \in Roots : To(p, r) = r
<1>1. p \in Paths /\ RootOf(p) = p /\ p \notin Children
  BY Rooted, RootsAndChildren DEF Paths
<1> QED BY <1>1 DEF TreeOf, CleanTree, NothingHiddenIn, To

\* A path is its root or a child of its root.
LEMMA PathIs ==
  ASSUME NEW q \in Paths
  PROVE  \/ q \in Roots /\ q = RootOf(q)
         \/ q \in Children /\ q = ChildOf(RootOf(q), q[3]) /\ q[3] \in AllNames
<1>1. CASE q \in Roots
  BY <1>1, Rooted
<1>2. CASE q \in Children
  BY <1>2, PathShapes DEF ChildOf, RootOf
<1> QED BY <1>1, <1>2 DEF Paths

\* Holds is what Whole says.
LEMMA WholeIs ==
  ASSUME FirstOK, NEW s \in Roots, NEW p \in Roots
  PROVE  Whole(s, p) <=> Holds(tree, s, p)
<1>1. ASSUME NEW q \in DOMAIN first
      PROVE  /\ q \in Paths /\ (IsPrefix(s, q) <=> RootOf(q) = s)
             /\ RootOf(q) = s => Rebase(q, s, p) = To(q, p)
             /\ q \in Children => q[3] \in VisibleNames
  <2>1. q \in Paths /\ (q \in Children => q[3] \in VisibleNames)
    BY VisibleFacts DEF FirstOK, NothingHiddenIn
  <2> QED BY <2>1, UnderRoot, RebasedRoot
<1>2. ASSUME Whole(s, p) PROVE Holds(tree, s, p)
  <2>1. ASSUME NEW q \in DOMAIN first, RootOf(q) = s
        PROVE  To(q, p) \in DOMAIN tree /\ tree[To(q, p)].data = first[q].data
    BY <1>1, <1>2, <2>1 DEF Whole, path_lexists
  <2>2. CameTo(tree, s, p)
    BY <2>1, RootPaths DEF CameTo
  <2>3. ASSUME NEW c \in VisibleNames PROVE CameTo(tree, ChildOf(s, c), ChildOf(p, c))
    <3>1. RootOf(ChildOf(s, c)) = s /\ To(ChildOf(s, c), p) = ChildOf(p, c)
      BY ChildPaths, NameFacts
    <3> QED BY <2>1, <3>1 DEF CameTo
  <2> QED BY <2>2, <2>3 DEF Holds
<1>3. ASSUME Holds(tree, s, p) PROVE Whole(s, p)
  <2> SUFFICES ASSUME NEW q \in DOMAIN first, RootOf(q) = s
               PROVE  To(q, p) \in DOMAIN tree /\ tree[To(q, p)].data = first[q].data
    BY <1>1 DEF Whole, path_lexists
  <2>1. q \in Paths
    BY <1>1
  <2>2. CASE q \in Roots
    <3>1. q = s /\ To(q, p) = p
      BY <2>2, RootPaths
    <3> QED BY <1>3, <3>1 DEF Holds, CameTo
  <2>3. CASE q \in Children
    <3>1. q = ChildOf(s, q[3]) /\ q[3] \in VisibleNames /\ q[3] \in AllNames
      BY <1>1, <2>1, <2>3, PathIs, RootsAndChildren
    <3>2. To(q, p) = ChildOf(p, q[3])
      BY <3>1, ChildPaths
    <3>3. CameTo(tree, ChildOf(s, q[3]), ChildOf(p, q[3]))
      BY <1>3, <3>1 DEF Holds
    <3> QED BY <3>1, <3>2, <3>3 DEF CameTo
  <2> QED BY <2>1, <2>2, <2>3 DEF Paths
<1> QED BY <1>2, <1>3

-----------------------------------------------------------------------------
(* What a call of the file system leaves as it is.                         *)

\* What is in the places P of the tree t is in the tree u.
Stays(t, u, P) == \A q \in DOMAIN t \cap P : q \in DOMAIN u /\ u[q].data = t[q].data

LEMMA StaysLess ==
  ASSUME NEW t, NEW u, NEW P, NEW Q, Stays(t, u, P), DOMAIN t \cap Q \subseteq P
  PROVE  Stays(t, u, Q)
BY DEF Stays

LEMMA CameToStays ==
  ASSUME NEW t, NEW u, NEW P, NEW q, NEW r, CameTo(t, q, r), Stays(t, u, P), r \in P
  PROVE  CameTo(u, q, r)
BY DEF CameTo, Stays

LEMMA HoldsStays ==
  ASSUME NEW t, NEW u, NEW P, NEW s, NEW p \in Roots, Holds(t, s, p), Stays(t, u, P), CleanTree(p) \subseteq P
  PROVE  Holds(u, s, p)
<1>1. CameTo(u, s, p)
  BY RootPaths, CameToStays DEF Holds
<1>2. ASSUME NEW c \in VisibleNames PROVE CameTo(u, ChildOf(s, c), ChildOf(p, c))
  <2>1. ChildOf(p, c) \in P
    BY ChildPaths, NameFacts
  <2> QED BY <2>1, CameToStays DEF Holds
<1> QED BY <1>1, <1>2 DEF Holds

\* What is at the root p goes to the root r.
Goes(t, u, p, r) ==
    \A q \in DOMAIN t : q \in CleanTree(p) => To(q, r) \in DOMAIN u /\ u[To(q, r)].data = t[q].data

LEMMA HoldsGoes ==
  ASSUME NEW t, NEW u, NEW s, NEW p \in Roots, NEW r \in Roots, Holds(t, s, p), Goes(t, u, p, r)
  PROVE  Holds(u, s, r)
<1>1. CameTo(u, s, r)
  BY RootPaths DEF Holds, CameTo, Goes
<1>2. ASSUME NEW c \in VisibleNames PROVE CameTo(u, ChildOf(s, c), ChildOf(r, c))
  <2>1. ChildOf(p, c) \in CleanTree(p) /\ To(ChildOf(p, c), r) = ChildOf(r, c)
    BY ChildPaths, NameFacts
  <2> QED BY <2>1 DEF Holds, CameTo, Goes
<1> QED BY <1>1, <1>2 DEF Holds

\* No root of P comes to be.
NoneComes(t, u, P) == DOMAIN u \cap P \subseteq DOMAIN t

LEMMA WithStays ==
  ASSUME NEW p \in Paths, NEW n
  PROVE  /\ Stays(tree, With(p, n), Paths \ {p}) /\ p \in DOMAIN With(p, n) /\ With(p, n)[p] = n
         /\ \A P : p \notin P => NoneComes(tree, With(p, n), P)
<1>1. DOMAIN With(p, n) = DOMAIN tree \cup {p} /\ With(p, n)[p] = n
      /\ \A q \in DOMAIN tree \ {p} : With(p, n)[q] = tree[q]
  BY DEF With
<1> HIDE DEF With
<1> QED BY <1>1 DEF Stays, NoneComes

LEMMA WithoutStays ==
  ASSUME FileTree(tree), NEW p \in Paths
  PROVE  /\ p \in Roots => Stays(tree, Without(p), Paths \ TreeOf(p)) /\ p \notin DOMAIN Without(p)
         /\ p \in Children => /\ Stays(tree, Without(p), Paths \ {p})
                              /\ DOMAIN Without(p) = DOMAIN tree \ {p}
         /\ \A P : NoneComes(tree, Without(p), P)
<1>1. /\ DOMAIN Without(p) = DOMAIN tree \ Under(p)
      /\ \A q \in DOMAIN Without(p) : Without(p)[q] = tree[q]
  BY WithoutTree
<1>2. p \in Roots => Under(p) = DOMAIN tree \cap TreeOf(p) /\ p \in TreeOf(p)
  BY UnderRootIs, RootPaths
<1>3. p \in Children => Under(p) = DOMAIN tree \cap {p}
  BY UnderChildIs
<1>4. p \in Roots => Stays(tree, Without(p), Paths \ TreeOf(p)) /\ p \notin DOMAIN Without(p)
  BY <1>1, <1>2 DEF Stays
<1>5. p \in Children => Stays(tree, Without(p), Paths \ {p}) /\ DOMAIN Without(p) = DOMAIN tree \ {p}
  BY <1>1, <1>3 DEF Stays
<1>6. \A P : NoneComes(tree, Without(p), P)
  BY <1>1 DEF NoneComes
<1> QED BY <1>4, <1>5, <1>6

LEMMA MovedStays ==
  ASSUME FileTree(tree), NEW p \in Roots, NEW r \in Roots, p # r, r \notin DOMAIN tree
  PROVE  /\ Stays(tree, Moved(p, r), Paths \ TreeOf(p)) /\ Goes(tree, Moved(p, r), p, r)
         /\ p \notin DOMAIN Moved(p, r)
         /\ \A P : P \subseteq Roots /\ r \notin P => NoneComes(tree, Moved(p, r), P)
<1> DEFINE M == Moved(p, r)
<1>1. /\ \A q \in DOMAIN tree : RootOf(q) # p => q \in DOMAIN M /\ M[q] = tree[q]
      /\ \A q \in DOMAIN tree : RootOf(q) = p => To(q, r) \in DOMAIN M /\ M[To(q, r)] = tree[q]
      /\ \A q \in DOMAIN M : \/ RootOf(q) # p /\ RootOf(q) # r /\ q \in DOMAIN tree
                             \/ RootOf(q) = r
  BY MovedTree
<1> HIDE DEF M
<1>2. DOMAIN tree \subseteq Paths
  BY DEF FileTree
<1>3. Stays(tree, M, Paths \ TreeOf(p))
  BY <1>1, <1>2 DEF Stays, TreeOf
<1>4. Goes(tree, M, p, r)
  BY <1>1 DEF Goes, CleanTree, TreeOf
<1>5. p \notin DOMAIN M
  BY <1>1, RootPaths
<1>6. \A P : P \subseteq Roots /\ r \notin P => NoneComes(tree, M, P)
  <2> SUFFICES ASSUME NEW P, P \subseteq Roots, r \notin P, NEW q \in DOMAIN M, q \in P PROVE q \in DOMAIN tree
    BY DEF NoneComes
  <2>1. RootOf(q) = q
    BY RootPaths
  <2> QED BY <1>1, <2>1
<1> QED BY <1>3, <1>4, <1>5, <1>6 DEF M

LEMMA ExchangedStays ==
  ASSUME FileTree(tree), NEW p \in Roots, NEW r \in Roots, p # r
  PROVE  /\ Stays(tree, Exchanged(p, r), Paths \ (TreeOf(p) \cup TreeOf(r)))
         /\ Goes(tree, Exchanged(p, r), p, r)
         /\ \A P : P \subseteq Roots /\ p \notin P /\ r \notin P => NoneComes(tree, Exchanged(p, r), P)
<1> DEFINE E == Exchanged(p, r)
<1>1. /\ \A q \in DOMAIN tree : Swap(q, p, r) \in DOMAIN E /\ E[Swap(q, p, r)] = tree[q]
      /\ \A q \in DOMAIN E : Swap(q, p, r) \in DOMAIN tree /\ q \in Paths
  BY ExchangedTree
<1> HIDE DEF E
<1>2. DOMAIN tree \subseteq Paths
  BY DEF FileTree
<1>3. Stays(tree, E, Paths \ (TreeOf(p) \cup TreeOf(r)))
  <2> SUFFICES ASSUME NEW q \in DOMAIN tree, q \in Paths, q \notin TreeOf(p), q \notin TreeOf(r)
               PROVE  q \in DOMAIN E /\ E[q].data = tree[q].data
    BY DEF Stays
  <2>1. Swap(q, p, r) = q
    BY DEF Swap, TreeOf
  <2> QED BY <1>1, <2>1
<1>4. Goes(tree, E, p, r)
  <2> SUFFICES ASSUME NEW q \in DOMAIN tree, q \in CleanTree(p)
               PROVE  To(q, r) \in DOMAIN E /\ E[To(q, r)].data = tree[q].data
    BY DEF Goes
  <2>1. Swap(q, p, r) = To(q, r)
    BY DEF Swap, CleanTree, TreeOf
  <2> QED BY <1>1, <2>1
<1>5. \A P : P \subseteq Roots /\ p \notin P /\ r \notin P => NoneComes(tree, E, P)
  <2> SUFFICES ASSUME NEW P, P \subseteq Roots, p \notin P, r \notin P, NEW q \in DOMAIN E, q \in P
               PROVE  q \in DOMAIN tree
    BY DEF NoneComes
  <2>1. RootOf(q) = q
    BY RootPaths
  <2>2. Swap(q, p, r) = q
    BY <2>1 DEF Swap
  <2> QED BY <1>1, <2>2
<1> QED BY <1>3, <1>4, <1>5 DEF E

-----------------------------------------------------------------------------
(* Steps that go on with the present source.                               *)

\* What a job has written down of its sources.
SameBook(j, k) ==
    /\ k.op = j.op /\ k.sources = j.sources /\ k.replace = j.replace /\ k.i = j.i
    /\ k.affected = j.affected /\ k.skipped = j.skipped /\ k.issues = j.issues

LEMMA BookSame ==
  ASSUME NEW j, NEW k, SameBook(j, k)
  PROVE  /\ Done(k) = Done(j) /\ SourceOf(k) = SourceOf(j) /\ (Due(k) <=> Due(j))
         /\ \A f : Forgiven(k, f) <=> Forgiven(j, f)
         /\ \A s : OneOver(k, s) <=> OneOver(j, s)
<1>1. Done(k) = Done(j)
  BY DEF Done, SameBook
<1>2. SourceOf(k) = SourceOf(j)
  BY DEF SourceOf, SameBook
<1>3. \A f : Forgiven(k, f) <=> Forgiven(j, f)
  BY DEF Forgiven, SameBook
<1>4. \A s : OneOver(k, s) <=> OneOver(j, s)
  BY DEF OneOver, SameBook
<1>5. Due(k) <=> Due(j)
  BY <1>1, <1>2 DEF Due, SameBook
<1> QED BY <1>1, <1>2, <1>3, <1>4, <1>5

\* The places that no step but an exchange touches, beside the present source.
Region(j) == VisiblePaths \ TreeOf(SourceOf(j))

LEMMA CleanIsVisible ==
  ASSUME NEW p \in Roots, p[2] \in VisibleNames
  PROVE  CleanTree(p) \subseteq VisiblePaths /\ p \in VisiblePaths
<1>1. ASSUME NEW q \in CleanTree(p) PROVE q \in VisiblePaths
  <2>1. q \in Paths
    BY DEF CleanTree, TreeOf
  <2> QED BY <2>1, TreesApart
<1> QED BY <1>1, RootPaths

\* Of the sources and targets of a job.
LEMMA BookPaths ==
  ASSUME NEW j, JobFits(j)
  PROVE  /\ j.op \in Ops
         /\ \A s \in SourcesOf(j.op) \cup TargetsOf(j.op) : s \in Roots /\ CleanTree(s) \subseteq VisiblePaths
         /\ \A m \in DOMAIN j.sources : j.sources[m] \in SourcesOf(j.op)
         /\ \A s \in ToSet(j.sources) : s \in SourcesOf(j.op)
         /\ \A n \in DOMAIN j.affected : /\ j.affected[n].source \in SourcesOf(j.op)
                                         /\ j.affected[n].target \in TargetsOf(j.op)
         /\ j.op \notin Deletions => SourcesOf(j.op) \cap TargetsOf(j.op) = {}
         /\ j.op = "restore" => \A s \in SourcesOf(j.op) : Origin(s) \in TargetsOf(j.op)
<1>1. j.op \in Ops /\ j.sources \in Seq(SourcesOf(j.op)) /\ j.affected \in Seq(Pairs(j.op))
  BY DEF JobFits
<1>2. /\ SourcesOf(j.op) \subseteq Roots /\ TargetsOf(j.op) \subseteq Roots
      /\ \A p \in SourcesOf(j.op) : p[1] = HomeFolder(j.op) /\ p[2] \in VisibleNames
      /\ \A p \in TargetsOf(j.op) : p[1] = TargetFolder(j.op) /\ p[2] \in VisibleNames
      /\ j.op \notin Deletions => HomeFolder(j.op) # TargetFolder(j.op)
  BY <1>1, JobPlaces
<1>3. \A s \in SourcesOf(j.op) \cup TargetsOf(j.op) : s \in Roots /\ CleanTree(s) \subseteq VisiblePaths
  BY <1>2, CleanIsVisible
<1>4. \A m \in DOMAIN j.sources : j.sources[m] \in SourcesOf(j.op)
  BY <1>1
<1>5. \A s \in ToSet(j.sources) : s \in SourcesOf(j.op)
  BY <1>4 DEF ToSet
<1>6. \A n \in DOMAIN j.affected : /\ j.affected[n].source \in SourcesOf(j.op)
                                   /\ j.affected[n].target \in TargetsOf(j.op)
  <2> SUFFICES ASSUME NEW n \in DOMAIN j.affected
               PROVE  j.affected[n].source \in SourcesOf(j.op) /\ j.affected[n].target \in TargetsOf(j.op)
    OBVIOUS
  <2>1. j.affected[n] \in Pairs(j.op)
    BY <1>1
  <2> QED BY <2>1 DEF Pairs
<1>7. j.op \notin Deletions => SourcesOf(j.op) \cap TargetsOf(j.op) = {}
  BY <1>2
<1>8. j.op = "restore" => \A s \in SourcesOf(j.op) : Origin(s) \in TargetsOf(j.op)
  <2> SUFFICES ASSUME j.op = "restore", NEW s \in SourcesOf(j.op) PROVE Origin(s) \in TargetsOf(j.op)
    OBVIOUS
  <2>1. s[2] \in VisibleNames
    BY <1>2
  <2>2. Plain(Base(s)) \in VisibleNames
    BY <2>1, NameFacts DEF Plain, Base
  <2>3. TargetFolder(j.op) = "src"
    BY DEF TargetFolder
  <2> QED BY <2>2, <2>3 DEF TargetsOf, Origin
<1> QED BY <1>1, <1>3, <1>4, <1>5, <1>6, <1>7, <1>8

\* Trees of other roots than the present source are in the region.
LEMMA InRegion ==
  ASSUME NEW j, JobFits(j), j.i \in DOMAIN j.sources
  PROVE  /\ SourceOf(j) \in SourcesOf(j.op) /\ SourceOf(j) \in Roots /\ SourceOf(j) \in ToSet(j.sources)
         /\ \A s \in SourcesOf(j.op) : s # SourceOf(j) => CleanTree(s) \subseteq Region(j)
         /\ j.op \notin Deletions => \A p \in TargetsOf(j.op) : CleanTree(p) \subseteq Region(j)
<1>1. SourceOf(j) \in SourcesOf(j.op) /\ SourceOf(j) \in Roots /\ SourceOf(j) \in ToSet(j.sources)
  BY BookPaths DEF SourceOf, ToSet
<1>2. ASSUME NEW s \in SourcesOf(j.op) \cup TargetsOf(j.op), s # SourceOf(j)
      PROVE  CleanTree(s) \subseteq Region(j)
  <2>1. CleanTree(s) \subseteq VisiblePaths
    BY BookPaths
  <2>2. CleanTree(s) \cap TreeOf(SourceOf(j)) = {}
    BY <1>2 DEF CleanTree, TreeOf
  <2> QED BY <2>1, <2>2 DEF Region
<1>3. j.op \notin Deletions => \A p \in TargetsOf(j.op) : p # SourceOf(j)
  BY <1>1, BookPaths
<1> QED BY <1>1, <1>2, <1>3

LEMMA TargetsStay ==
  ASSUME NEW t, NEW u, NEW j, NEW k, JobFits(j), j.i \in DOMAIN j.sources, TargetsWhole(t, j),
         Stays(t, u, Region(j)), SameBook(j, k)
  PROVE  TargetsWhole(u, k)
<1> SUFFICES ASSUME j.op \notin Deletions, NEW n \in DOMAIN j.affected, ~OneOver(j, j.affected[n].source)
             PROVE  Holds(u, j.affected[n].source, j.affected[n].target)
  BY BookSame DEF TargetsWhole, SameBook
<1>1. j.affected[n].target \in Roots /\ CleanTree(j.affected[n].target) \subseteq Region(j)
  BY BookPaths, InRegion
<1>2. Holds(t, j.affected[n].source, j.affected[n].target)
  BY DEF TargetsWhole
<1> QED BY <1>1, <1>2, HoldsStays

LEMMA FineStays ==
  ASSUME NEW t, NEW u, NEW j, NEW k, JobFits(j), NEW s \in SourcesOf(j.op), Fine(t, j, s),
         NEW P, Stays(t, u, P), CleanTree(s) \subseteq P,
         j.op = "restore" => CleanTree(Origin(s)) \subseteq P,
         k.op = j.op, k.replace = j.replace, Done(j) \subseteq Done(k)
  PROVE  Fine(u, k, s)
<1>1. s \in Roots /\ (j.op = "restore" => Origin(s) \in Roots)
  BY BookPaths
<1> QED BY <1>1, HoldsStays DEF Fine

\* The sources but the present one.
LEMMA OthersFine ==
  ASSUME NEW t, NEW u, NEW j, NEW k, JobFits(j), j.i \in DOMAIN j.sources, SourcesFine(t, j),
         Stays(t, u, Region(j)), k.op = j.op, k.replace = j.replace, k.sources = j.sources, Done(j) \subseteq Done(k),
         NEW s \in ToSet(j.sources), s # SourceOf(j)
  PROVE  Fine(u, k, s)
<1>1. Fine(t, j, s)
  BY DEF SourcesFine
<1>2. s \in SourcesOf(j.op)
  BY BookPaths
<1>3. CleanTree(s) \subseteq Region(j)
  BY <1>2, InRegion
<1>4. j.op = "restore" => CleanTree(Origin(s)) \subseteq Region(j)
  <2> SUFFICES ASSUME j.op = "restore" PROVE CleanTree(Origin(s)) \subseteq Region(j)
    OBVIOUS
  <2>1. j.op \notin Deletions
    BY DEF Deletions
  <2> QED BY <1>2, <2>1, BookPaths, InRegion
<1> QED BY <1>1, <1>2, <1>3, <1>4, FineStays

\* What is gone stays away.
LEMMA StaysGone ==
  ASSUME NEW t, NEW u, NEW j, JobFits(j), NoneComes(t, u, SourcesOf(j.op)), NEW s \in Done(j), s \notin DOMAIN t
  PROVE  s \notin DOMAIN u
<1>1. s \in SourcesOf(j.op)
  BY BookPaths DEF Done
<1> QED BY <1>1 DEF NoneComes

LEMMA GoesOn ==
  ASSUME NEW t, NEW u, NEW x, NEW y, NEW f \in Nat, NEW g \in Nat, NEW j, NEW k,
         Told(t, j, x, f), JobFits(j), SameBook(j, k), f <= g, j.i \in DOMAIN j.sources,
         j.pc \notin {"prepare", "validate"}, k.pc \notin {"prepare", "validate"},
         Stays(t, u, Region(j)), NoneComes(t, u, SourcesOf(j.op)), y \subseteq x, Named(k),
         k.pc = "info" => SourceOf(j) \notin DOMAIN u,
         k.pc \in CopyPCs \cup {"discard"} \/ (j.op = "restore" /\ k.pc \in {"remove", "unlink", "removing"}) =>
            SourceOf(j) \in DOMAIN u,
         ~Forgiven(j, g) => Fine(u, k, SourceOf(j)) \/ TakenApart(k),
         ~Forgiven(j, g) /\ Due(j) => Progress(u, k)
  PROVE  Told(u, k, y, g)
<1>1. /\ Done(k) = Done(j) /\ SourceOf(k) = SourceOf(j) /\ (Due(k) <=> Due(j))
      /\ \A h : Forgiven(k, h) <=> Forgiven(j, h)
  BY BookSame
<1>2. k.op = j.op /\ k.sources = j.sources /\ k.replace = j.replace /\ k.i = j.i
      /\ k.affected = j.affected /\ k.skipped = j.skipped /\ k.issues = j.issues
  BY DEF SameBook
<1>3. ~Forgiven(j, g) => ~Forgiven(j, f)
  BY DEF Forgiven
<1>4. Booked(k)
  BY <1>1, <1>2 DEF Told, Booked
<1>5. Gone(u, k, y)
  <2>1. \A s \in Done(k) : k.op # "copy" /\ (k.op = "move" => s \notin k.issues) => s \notin DOMAIN u
    BY <1>1, <1>2, StaysGone DEF Told, Gone
  <2>2. (\A p \in y : p[1] = "trash") /\ (k.op = "restore" => Done(k) \cap y = {})
    BY <1>1, <1>2 DEF Told, Gone
  <2> QED BY <1>1, <1>2, <2>1, <2>2 DEF Gone
<1>6. ASSUME ~Forgiven(k, g) PROVE TargetsWhole(u, k) /\ SourcesFine(u, k) /\ (Due(k) => Progress(u, k))
  <2>1. TargetsWhole(t, j) /\ SourcesFine(t, j)
    BY <1>1, <1>3, <1>6 DEF Told
  <2>2. TargetsWhole(u, k)
    BY <2>1, TargetsStay
  <2>3. ASSUME NEW s \in ToSet(k.sources) PROVE Fine(u, k, s) \/ (TakenApart(k) /\ s = SourceOf(k))
    BY <1>1, <1>2, <1>6, <2>1, OthersFine
  <2> QED BY <1>1, <1>6, <2>2, <2>3 DEF SourcesFine
<1> QED BY <1>4, <1>5, <1>6 DEF Told

-----------------------------------------------------------------------------
(* Steps to the next source, and to the end.                               *)

\* What is done with the present source is done with all before the next.
LEMMA BookedNext ==
  ASSUME NEW j, NEW k, Booked(j), j.i \in Nat, j.i \in DOMAIN j.sources, j.sources \in Seq(SourcesOf(j.op)),
         j.pc \notin {"prepare", "validate"}, k.pc = "next", k.i = j.i + 1, k.op = j.op, k.sources = j.sources,
         k.skipped \cup Done(k) = j.skipped \cup Done(j) \cup {SourceOf(j)}
  PROVE  Booked(k)
<1>1. {j.sources[m] : m \in {l \in DOMAIN j.sources : l < j.i + 1}} =
      {j.sources[m] : m \in {l \in DOMAIN j.sources : l < j.i}} \cup {SourceOf(j)}
  <2>1. {l \in DOMAIN j.sources : l < j.i + 1} = {l \in DOMAIN j.sources : l < j.i} \cup {j.i}
    <3>1. DOMAIN j.sources \subseteq Nat
      OBVIOUS
    <3> QED BY <3>1
  <2> QED BY <2>1 DEF SourceOf
<1>2. {j.sources[m] : m \in {l \in DOMAIN j.sources : l < j.i}} = j.skipped \cup Done(j)
  BY DEF Booked
<1>3. {k.sources[m] : m \in {l \in DOMAIN k.sources : l < k.i}} =
      {j.sources[m] : m \in {l \in DOMAIN j.sources : l < j.i + 1}}
  OBVIOUS
<1>4. {k.sources[m] : m \in {l \in DOMAIN k.sources : l < k.i}} = k.skipped \cup Done(k)
  BY <1>1, <1>2, <1>3, Zenon
<1>5. k.op \notin {"restore", "purge"} => \A m \in DOMAIN k.sources : k.sources[m][2][2] = 0
  BY DEF Booked
<1>6. k.pc \notin {"prepare", "validate"} /\ k.pc # "validate"
  OBVIOUS
<1> HIDE DEF Done
<1> QED BY <1>4, <1>5, <1>6, Zenon DEF Booked

LEMMA NextIsCalm ==
  ASSUME NEW k, k.pc = "next"
  PROVE  /\ ~HasTarget(k) /\ ~TakenApart(k) /\ ~Removing(k) /\ Working(k) /\ k.pc # "transfer"
         /\ \A t : Progress(t, k)
BY DEF HasTarget, TakenApart, Removing, Working, Progress, StagePCs, CopyPCs, RemovePCs, AsidePCs, BackPCs

\* A source is skipped.
LEMMA SkipsOn ==
  ASSUME NEW t, NEW x, NEW f \in Nat, NEW j, NEW k, Told(t, j, x, f), JobFits(j), j.i \in DOMAIN j.sources,
         j.pc \notin {"prepare", "validate"}, k.pc = "next", k.i = j.i + 1,
         k.op = j.op, k.sources = j.sources, k.replace = j.replace, k.how = j.how, k.affected = j.affected,
         k.skipped = j.skipped \cup {SourceOf(j)}, j.issues \subseteq k.issues,
         ~Forgiven(j, f) => Fine(t, j, SourceOf(j))
  PROVE  Told(t, k, x, f)
<1>0. Done(k) = Done(j) /\ (Forgiven(k, f) <=> Forgiven(j, f))
  BY DEF Done, Forgiven
<1>1. Booked(k)
  <2>1. j.i \in Nat /\ j.sources \in Seq(SourcesOf(j.op))
    BY DEF JobFits
  <2>2. k.skipped \cup Done(k) = j.skipped \cup Done(j) \cup {SourceOf(j)}
    BY <1>0
  <2> QED BY <2>1, <2>2, BookedNext DEF Told
<1>2. Named(k)
  BY NextIsCalm DEF Told, Named
<1>3. Gone(t, k, x)
  BY <1>0 DEF Told, Gone, CopyPCs
<1>4. ASSUME ~Forgiven(k, f) PROVE TargetsWhole(t, k) /\ SourcesFine(t, k) /\ Progress(t, k)
  <2>1. TargetsWhole(t, j) /\ SourcesFine(t, j)
    BY <1>0, <1>4 DEF Told
  <2>2. \A s : OneOver(j, s) => OneOver(k, s)
    BY DEF OneOver
  <2>3. TargetsWhole(t, k)
    BY <2>1, <2>2 DEF TargetsWhole
  <2>4. \A s \in ToSet(j.sources) : Fine(t, j, s)
    BY <1>0, <1>4, <2>1 DEF SourcesFine
  <2>5. SourcesFine(t, k)
    BY <1>0, <2>4 DEF SourcesFine, Fine
  <2> QED BY <2>3, <2>5, NextIsCalm
<1> QED BY <1>1, <1>2, <1>3, <1>4 DEF Told

\* A source is done, its target is z.
LEMMA DoesOn ==
  ASSUME NEW t, NEW u, NEW x, NEW y, NEW f \in Nat, NEW j, NEW k, NEW z, Told(t, j, x, f), JobFits(j),
         j.i \in DOMAIN j.sources, j.pc \notin {"prepare", "validate"}, k.pc = "next", k.i = j.i + 1,
         k.op = j.op, k.sources = j.sources, k.replace = j.replace, k.how = j.how,
         k.affected = Append(j.affected, [source |-> SourceOf(j), target |-> z]),
         k.skipped \in {j.skipped, j.skipped \cup {SourceOf(j)}}, j.issues \subseteq k.issues,
         Stays(t, u, Region(j)), NoneComes(t, u, SourcesOf(j.op)),
         \A p \in y : p[1] = "trash", j.op = "restore" => y \subseteq x \ {SourceOf(j)},
         j.op # "copy" /\ (j.op = "move" => SourceOf(j) \notin k.issues) => SourceOf(j) \notin DOMAIN u,
         j.op \notin Deletions => Base(z) = Base(SourceOf(j)),
         ~Forgiven(j, f) /\ j.op \notin Deletions => OneOver(k, SourceOf(j)) \/ Holds(u, SourceOf(j), z),
         j.op = "copy" => Holds(u, SourceOf(j), SourceOf(j))
  PROVE  Told(u, k, y, f)
<1>0. /\ j.affected \in Seq(Pairs(j.op)) /\ DOMAIN j.affected = 1..Len(j.affected) /\ Len(j.affected) \in Nat
      /\ DOMAIN k.affected = 1..(Len(j.affected) + 1)
      /\ \A n \in DOMAIN j.affected : k.affected[n] = j.affected[n]
      /\ k.affected[Len(j.affected) + 1] = [source |-> SourceOf(j), target |-> z]
  <2>1. j.affected \in Seq(Pairs(j.op))
    BY DEF JobFits
  <2>2. DOMAIN j.affected = 1..Len(j.affected) /\ Len(j.affected) \in Nat
    BY <2>1
  <2>3. /\ Len(k.affected) = Len(j.affected) + 1 /\ DOMAIN k.affected = 1..Len(k.affected)
        /\ \A n \in 1..Len(j.affected) : k.affected[n] = j.affected[n]
        /\ k.affected[Len(j.affected) + 1] = [source |-> SourceOf(j), target |-> z]
    BY <2>1
  <2> QED BY <2>1, <2>2, <2>3
<1>1. /\ \A n \in DOMAIN k.affected : n \in DOMAIN j.affected \/ n = Len(j.affected) + 1
      /\ \A n \in DOMAIN j.affected : n \in DOMAIN k.affected
      /\ Len(j.affected) + 1 \in DOMAIN k.affected
  BY <1>0
<1>2. Done(k) = Done(j) \cup {SourceOf(j)}
  <2>1. \A n \in DOMAIN k.affected : k.affected[n].source \in Done(j) \cup {SourceOf(j)}
    BY <1>0, <1>1 DEF Done
  <2>2. SourceOf(j) \in Done(k)
    BY <1>0, <1>1 DEF Done
  <2>3. \A n \in DOMAIN j.affected : j.affected[n].source \in Done(k)
    BY <1>0, <1>1 DEF Done
  <2>4. Done(j) \subseteq Done(k)
    BY <2>3 DEF Done
  <2>5. Done(k) \subseteq Done(j) \cup {SourceOf(j)}
    BY <2>1 DEF Done
  <2> QED BY <2>2, <2>4, <2>5
<1>3. Forgiven(k, f) <=> Forgiven(j, f)
  BY DEF Forgiven
<1>4. Booked(k)
  <2>1. j.i \in Nat /\ j.sources \in Seq(SourcesOf(j.op))
    BY DEF JobFits
  <2>2. k.skipped \cup Done(k) = j.skipped \cup Done(j) \cup {SourceOf(j)}
    BY <1>2
  <2> QED BY <2>1, <2>2, BookedNext DEF Told
<1>5. Named(k)
  <2>1. ~HasTarget(k) /\ k.pc # "error" /\ k.pc # "transfer"
    BY NextIsCalm
  <2>2. Named(j)
    BY DEF Told
  <2>3. ASSUME k.op \notin Deletions, NEW n \in DOMAIN k.affected
        PROVE  Base(k.affected[n].target) = Base(k.affected[n].source)
    <3>1. CASE n \in DOMAIN j.affected
      BY <1>0, <2>2, <2>3, <3>1 DEF Named
    <3>2. CASE n = Len(j.affected) + 1
      BY <1>0, <2>3, <3>2
    <3> QED BY <1>1, <3>1, <3>2
  <2> QED BY <2>1, <2>2, <2>3 DEF Named
<1>6. Gone(u, k, y)
  <2>1. ASSUME NEW s \in Done(k), k.op # "copy", k.op = "move" => s \notin k.issues PROVE s \notin DOMAIN u
    <3>1. CASE s = SourceOf(j)
      BY <2>1, <3>1
    <3>2. CASE s \in Done(j)
      <4>1. s \notin DOMAIN t
        BY <2>1, <3>2 DEF Told, Gone
      <4> QED BY <3>2, <4>1, StaysGone
    <3> QED BY <1>2, <3>1, <3>2
  <2>2. k.op = "restore" => Done(k) \cap y = {}
    BY <1>2 DEF Told, Gone
  <2> QED BY <2>1, <2>2 DEF Gone, CopyPCs
<1>7. ASSUME ~Forgiven(k, f) PROVE TargetsWhole(u, k) /\ SourcesFine(u, k) /\ Progress(u, k)
  <2>1. TargetsWhole(t, j) /\ SourcesFine(t, j)
    BY <1>3, <1>7 DEF Told
  <2>2. \A s : OneOver(j, s) => OneOver(k, s)
    BY DEF OneOver
  <2>3. TargetsWhole(u, j)
    <3>1. SameBook(j, j)
      BY DEF SameBook
    <3> QED BY <2>1, <3>1, TargetsStay
  <2>4. ASSUME k.op \notin Deletions, NEW n \in DOMAIN k.affected
        PROVE  OneOver(k, k.affected[n].source) \/ Holds(u, k.affected[n].source, k.affected[n].target)
    <3>1. CASE n \in DOMAIN j.affected
      BY <1>0, <2>2, <2>3, <2>4, <3>1 DEF TargetsWhole
    <3>2. CASE n = Len(j.affected) + 1
      BY <1>0, <1>3, <1>7, <2>4, <3>2
    <3> QED BY <1>1, <3>1, <3>2
  <2>5. TargetsWhole(u, k)
    BY <2>4 DEF TargetsWhole
  <2>6. ASSUME NEW s \in ToSet(k.sources) PROVE Fine(u, k, s)
    <3>1. CASE s = SourceOf(j)
      BY <1>2, <3>1 DEF Fine
    <3>2. CASE s # SourceOf(j)
      BY <1>2, <2>1, <3>2, OthersFine
    <3> QED BY <3>1, <3>2
  <2> QED BY <2>5, <2>6, NextIsCalm DEF SourcesFine
<1> QED BY <1>4, <1>5, <1>6, <1>7 DEF Told

\* A job that has not begun has done nothing.
LEMMA BeginsOn ==
  ASSUME NEW t, NEW x, NEW f \in Nat, NEW j, NEW k, Told(t, j, x, f),
         j.pc \in {"prepare", "validate"}, k.pc \in {"prepare", "validate", "next"}, k.pc # "prepare" => k.i = 1,
         k.op = j.op, k.sources = j.sources, k.replace = j.replace, k.how = j.how,
         k.affected = j.affected, k.skipped = j.skipped, k.issues = j.issues,
         j.sources \in Seq(SourcesOf(j.op))
  PROVE  Told(t, k, x, f)
<1>0. j.affected = << >> /\ j.skipped = {} /\ j.issues = {} /\ Done(k) = Done(j) /\ (Forgiven(k, f) <=> Forgiven(j, f))
  BY DEF Told, Booked, Done, Forgiven
<1>1. Done(k) = {}
  BY <1>0 DEF Done
<1>2. ~HasTarget(k) /\ ~TakenApart(k) /\ ~TakenApart(j) /\ ~Removing(k) /\ Progress(t, k) /\ k.pc # "transfer"
  BY DEF HasTarget, TakenApart, Removing, Progress, StagePCs, CopyPCs, RemovePCs
<1>3. Booked(k)
  <2>1. k.pc # "prepare" => {m \in DOMAIN k.sources : m < k.i} = {}
    BY DEF Told
  <2>2. k.pc # "prepare" => {k.sources[m] : m \in {l \in DOMAIN k.sources : l < k.i}} = {}
    BY <2>1
  <2> QED BY <1>0, <1>1, <2>2 DEF Told, Booked
<1>4. Named(k)
  BY <1>2 DEF Told, Named
<1>5. Gone(t, k, x)
  BY <1>0 DEF Told, Gone, CopyPCs
<1>6. ASSUME ~Forgiven(k, f) PROVE TargetsWhole(t, k) /\ SourcesFine(t, k)
  <2>1. TargetsWhole(t, j) /\ SourcesFine(t, j)
    BY <1>0, <1>6 DEF Told
  <2>2. TargetsWhole(t, k)
    BY <1>0 DEF TargetsWhole
  <2>3. SourcesFine(t, k)
    BY <1>0, <1>2, <2>1 DEF SourcesFine, Fine
  <2> QED BY <2>2, <2>3
<1> QED BY <1>2, <1>3, <1>4, <1>5, <1>6 DEF Told

\* What the outcome is made from.
SameList(j, k) ==
    /\ k.op = j.op /\ k.sources = j.sources /\ k.replace = j.replace
    /\ k.affected = j.affected /\ k.skipped = j.skipped /\ k.issues = j.issues

LEMMA OutcomeBook ==
  ASSUME NEW j, DOMAIN j = JobFields, NEW r
  PROVE  /\ SameList(j, Outcome(j, r)) /\ Outcome(j, r).pc = "ended" /\ Outcome(j, r).error = j.error
         /\ Outcome(j, r).result = r
BY DEF Outcome, SameList, JobFields

LEMMA EndsAs ==
  ASSUME NEW t, NEW x, NEW f \in Nat, NEW j, NEW k, NEW r, SameList(j, k), k.result = r,
         ~Forgiven(j, f) => TargetsWhole(t, j),
         \A s \in Done(j) : j.op # "copy" /\ s \notin j.issues => s \notin DOMAIN t,
         r = "Completed" => /\ ToSet(j.sources) = j.skipped \cup Done(j)
                            /\ \A s \in Done(j) : s \notin j.issues /\ j.op # "trash" => s \notin x,
         ~(k.op \in Deletions /\ k.error = "io") /\ ~Forgiven(j, f) =>
            \A s \in ToSet(j.sources) : s \in j.issues \/ Fine(t, j, s)
  PROVE  Ended(t, k, x, f)
<1>0. Done(k) = Done(j) /\ (Forgiven(k, f) <=> Forgiven(j, f)) /\ \A s : OneOver(k, s) <=> OneOver(j, s)
  BY DEF SameList, Done, Forgiven, OneOver
<1>1. ASSUME NEW n \in DOMAIN k.affected
      PROVE  /\ k.op \notin Deletions /\ ~Forgiven(k, f) /\ ~OneOver(k, k.affected[n].source) =>
                   Holds(t, k.affected[n].source, k.affected[n].target)
             /\ k.op # "copy" /\ k.affected[n].source \notin k.issues => k.affected[n].source \notin DOMAIN t
             /\ k.affected[n].source \notin k.issues /\ k.op # "trash" /\ k.result = "Completed" =>
                   k.affected[n].source \notin x
  <2>1. k.affected[n].source \in Done(j)
    BY <1>0, <1>1 DEF Done
  <2>2. n \in DOMAIN j.affected /\ k.affected[n] = j.affected[n]
    BY DEF SameList
  <2> QED BY <1>0, <2>1, <2>2 DEF TargetsWhole, SameList
<1>2. k.result = "Completed" => ToSet(k.sources) = k.skipped \cup Done(k)
  BY <1>0 DEF SameList
<1>3. ~(k.op \in Deletions /\ k.error = "io") /\ ~Forgiven(k, f) =>
         \A s \in ToSet(k.sources) : \/ s \in k.issues \cup Done(k)
                                     \/ Holds(t, s, s)
                                     \/ k.op = "restore" /\ Holds(t, s, Origin(s))
  BY <1>0 DEF SameList, Fine
<1> QED BY <1>1, <1>2, <1>3 DEF Ended

\* A job ends before all is done.
LEMMA EndsEarly ==
  ASSUME NEW t, NEW x, NEW f \in Nat, NEW j, DOMAIN j = JobFields, Told(t, j, x, f), NEW r, r # "Completed",
         ~TakenApart(j) \/ (j.op \in Deletions /\ j.error = "io")
  PROVE  Ended(t, Outcome(j, r), x, f)
<1>1. SameList(j, Outcome(j, r)) /\ Outcome(j, r).op = j.op /\ Outcome(j, r).error = j.error /\ Outcome(j, r).result = r
  BY OutcomeBook DEF SameList
<1>2. ~Forgiven(j, f) => TargetsWhole(t, j) /\ SourcesFine(t, j)
  BY DEF Told
<1>3. \A s \in Done(j) : j.op # "copy" /\ s \notin j.issues => s \notin DOMAIN t
  BY DEF Told, Gone
<1>4. ~(j.op \in Deletions /\ j.error = "io") /\ ~Forgiven(j, f) => \A s \in ToSet(j.sources) : Fine(t, j, s)
  BY <1>2 DEF SourcesFine
<1> QED BY <1>1, <1>2, <1>3, <1>4, EndsAs

-----------------------------------------------------------------------------
(* The job of a step.                                                      *)

\* A step that leaves tree, entries and faults.
Idle == UNCHANGED <<tree, info, faults>>

LEMMA ToldSays ==
  ASSUME NEW t, NEW x, NEW f, NEW j, Told(t, j, x, f), j.pc # "ended"
  PROVE  Says(t, j, x, f)
BY DEF Says

LEMMA EndedSays ==
  ASSUME NEW t, NEW x, NEW f, NEW j, Ended(t, j, x, f), j.pc = "ended"
  PROVE  Says(t, j, x, f)
BY DEF Says, Working

LEMMA InWork ==
  ASSUME JobsInv, JobsTold, foreign = 0, Working(job)
  PROVE  /\ Told(tree, job, info, faults) /\ faults \in Nat /\ FirstOK
         /\ JobFits(job) /\ JobStands(job) /\ JobOK(job) /\ DOMAIN job = JobFields /\ FileTree(tree)
         /\ job.op \in Ops /\ job.sources \in Seq(SourcesOf(job.op)) /\ job.i \in Nat \ {0}
         /\ SourceOf(job) = Source
         /\ job.i <= Len(job.sources) => /\ job.i \in DOMAIN job.sources /\ Source \in SourcesOf(job.op)
                                         /\ Source \in Roots
<1>1. Told(tree, job, info, faults) /\ faults \in Nat /\ FirstOK
  BY DEF JobsTold, Says
<1>2. JobFits(job) /\ JobStands(job) /\ JobOK(job) /\ FileTree(tree)
  BY DEF JobsInv, Inv, JobOK
<1>3. DOMAIN job = JobFields /\ job.op \in Ops /\ job.sources \in Seq(SourcesOf(job.op)) /\ job.i \in Nat \ {0}
  BY <1>2 DEF JobFits
<1>4. SourceOf(job) = Source
  BY DEF SourceOf, Source
<1>5. job.i <= Len(job.sources) => /\ job.i \in DOMAIN job.sources /\ Source \in SourcesOf(job.op)
                                   /\ Source \in Roots
  <2> SUFFICES ASSUME job.i <= Len(job.sources)
               PROVE  job.i \in DOMAIN job.sources /\ Source \in SourcesOf(job.op) /\ Source \in Roots
    OBVIOUS
  <2>1. job.i \in DOMAIN job.sources
    BY <1>3
  <2> QED BY <1>2, <1>4, <2>1, InRegion
<1> QED BY <1>1, <1>2, <1>3, <1>4, <1>5

\* The fields of the work in hand.
SameWork(j, k) == k.target = j.target /\ k.how = j.how /\ k.item = j.item /\ k.walk = j.walk

LEMMA GotoBook ==
  ASSUME DOMAIN job = JobFields, NEW l
  PROVE  /\ SameBook(job, Goto(l)) /\ SameWork(job, Goto(l)) /\ Goto(l).pc = l
         /\ Goto(l).error = job.error /\ Goto(l).stage = job.stage
BY DEF Goto, SameBook, SameWork, JobFields

LEMMA PromptBook ==
  ASSUME DOMAIN job = JobFields, NEW e, NEW s
  PROVE  /\ SameBook(job, Prompt(e, s)) /\ SameWork(job, Prompt(e, s)) /\ Prompt(e, s).pc = "error"
         /\ Prompt(e, s).error = e /\ Prompt(e, s).stage = s
BY DEF Prompt, SameBook, SameWork, JobFields

LEMMA CopyFailsBook ==
  ASSUME DOMAIN job = JobFields, NEW e
  PROVE  SameBook(job, CopyFails(e)) /\ SameWork(job, CopyFails(e)) /\ CopyFails(e).pc = "cleanup"
BY DEF CopyFails, SameBook, SameWork, JobFields

LEMMA SkippedBook ==
  ASSUME NEW j, DOMAIN j = JobFields
  PROVE  LET k == NextSource(Skipped(j))
             l == NextSource(Issue(Skipped(j)))
         IN  /\ k.pc = "next" /\ k.i = j.i + 1 /\ k.op = j.op /\ k.sources = j.sources /\ k.replace = j.replace
             /\ k.how = j.how /\ k.affected = j.affected /\ k.skipped = j.skipped \cup {Source} /\ k.issues = j.issues
             /\ l.pc = "next" /\ l.i = j.i + 1 /\ l.op = j.op /\ l.sources = j.sources /\ l.replace = j.replace
             /\ l.how = j.how /\ l.affected = j.affected /\ l.skipped = j.skipped \cup {Source}
             /\ l.issues = j.issues \cup {Source}
BY DEF NextSource, Skipped, Issue, JobFields

\* k is j after its present source was done, with the target z.
DoneWith(j, k, z) ==
    /\ k.pc = "next" /\ k.i = j.i + 1 /\ k.op = j.op /\ k.sources = j.sources /\ k.replace = j.replace
    /\ k.how = j.how /\ k.affected = Append(j.affected, [source |-> SourceOf(j), target |-> z])
    /\ k.skipped \in {j.skipped, j.skipped \cup {SourceOf(j)}} /\ k.issues \in {j.issues, j.issues \cup {SourceOf(j)}}

LEMMA DoneBook ==
  ASSUME DOMAIN job = JobFields, NEW z
  PROVE  /\ DoneWith(job, NextSource(Affect(job, z)), z) /\ NextSource(Affect(job, z)).issues = job.issues
         /\ DoneWith(job, NextSource(MovedTo(job, z)), z) /\ NextSource(MovedTo(job, z)).issues = job.issues
         /\ DoneWith(job, NextSource(Issue(Skipped(Affect(job, z)))), z)
         /\ NextSource(Issue(Skipped(Affect(job, z)))).issues = job.issues \cup {Source}
<1>1. SourceOf(job) = Source
  BY DEF SourceOf, Source
<1> QED BY <1>1 DEF DoneWith, NextSource, Affect, MovedTo, Issue, Skipped, JobFields

\* Nothing is being copied or removed.
Calm(k) ==
    /\ k.pc \in {"next", "conflict", "transfer", "copy", "trash", "restore", "error", "cleanup", "remove", "unlink"}
    /\ k.pc \in {"remove", "unlink"} => k.op # "restore"

LEMMA GoesIdle ==
  ASSUME NEW t, NEW x, NEW f \in Nat, NEW g \in Nat, NEW j, NEW k, f <= g,
         Told(t, j, x, f), JobFits(j), SameBook(j, k), j.i \in DOMAIN j.sources,
         j.pc \notin {"prepare", "validate"}, Calm(k), Named(k), ~TakenApart(j) \/ TakenApart(k),
         ~Forgiven(j, g) /\ Due(j) => Progress(t, k)
  PROVE  Told(t, k, x, g)
<1>1. Stays(t, t, Region(j)) /\ NoneComes(t, t, SourcesOf(j.op)) /\ x \subseteq x
  BY DEF Stays, NoneComes
<1>2. k.pc \notin {"prepare", "validate", "info", "discard", "removing"} /\ k.pc \notin CopyPCs
      /\ (k.pc \in {"remove", "unlink"} => j.op # "restore")
  BY DEF Calm, CopyPCs, SameBook
<1>3. ~Forgiven(j, g) => Fine(t, k, SourceOf(j)) \/ TakenApart(k)
  <2> SUFFICES ASSUME ~Forgiven(j, g), ~TakenApart(j) PROVE Fine(t, k, SourceOf(j))
    OBVIOUS
  <2>1. ~Forgiven(j, f)
    BY DEF Forgiven
  <2>2. SourceOf(j) \in ToSet(j.sources)
    BY InRegion
  <2>3. Fine(t, j, SourceOf(j))
    BY <2>1, <2>2 DEF Told, SourcesFine
  <2> QED BY <2>3, BookSame DEF Fine, SameBook
<1> QED BY <1>1, <1>2, <1>3, GoesOn

\* Where there is no progress to tell of.
LEMMA CalmProgress ==
  ASSUME NEW k, Calm(k), ~Removing(k) \/ k.op \in Deletions, k.op = "restore" => k.pc \in {"next", "conflict", "transfer", "error"}
  PROVE  \A t : Progress(t, k)
BY DEF Calm, Progress, Removing, CopyPCs, StagePCs, RemovePCs, Deletions

\* The source of a move that is done already is listed twice.
LEMMA ListedTwice ==
  ASSUME NEW t, NEW x, NEW f, NEW j, Told(t, j, x, f), JobFits(j), j.i \in DOMAIN j.sources,
         j.pc \notin {"prepare", "validate"}, j.op = "move", SourceOf(j) \in Done(j),
         NEW k, k.op = j.op, k.sources = j.sources, j.issues \subseteq k.issues,
         SourceOf(j) \in DOMAIN t \/ SourceOf(j) \in k.issues
  PROVE  OneOver(k, SourceOf(j))
<1>1. SourceOf(j) \in k.issues
  BY DEF Told, Gone
<1>2. SourceOf(j) \in {j.sources[m] : m \in {l \in DOMAIN j.sources : l < j.i}}
  <2>1. {j.sources[m] : m \in {l \in DOMAIN j.sources : l < j.i}} = j.skipped \cup Done(j)
    BY DEF Told, Booked
  <2> QED BY <2>1
<1>3. PICK m \in DOMAIN j.sources : m < j.i /\ j.sources[m] = SourceOf(j)
  BY <1>2
<1>4. m # j.i /\ j.sources[j.i] = SourceOf(j)
  BY <1>3 DEF SourceOf, JobFits
<1> QED BY <1>1, <1>3, <1>4 DEF OneOver

-----------------------------------------------------------------------------
(* The steps that neither copy nor remove.                                 *)

\* A job ends before all is done.
LEMMA EndTells ==
  ASSUME JobsInv, JobsTold, foreign = 0, Working(job), Idle, NEW r, r # "Completed", job' = Outcome(job, r),
         ~TakenApart(job) \/ (job.op \in Deletions /\ job.error = "io")
  PROVE  Says(tree', job', info', faults')
<1>1. Told(tree, job, info, faults) /\ faults \in Nat /\ DOMAIN job = JobFields
  BY InWork
<1>2. Ended(tree, job', info, faults) /\ job'.pc = "ended"
  BY <1>1, EndsEarly, OutcomeBook
<1> QED BY <1>2, EndedSays DEF Idle

LEMMA PrepareTells ==
  ASSUME JobsInv, JobsTold, foreign = 0, Prepare
  PROVE  Says(tree', job', info', faults')
<1>1. job.pc = "prepare" /\ Working(job) /\ ~TakenApart(job) /\ Idle
  BY DEF Prepare, AtPC, Working, TakenApart, AsidePCs, BackPCs, Keep, Quiet, fsVars, envVars, Idle
<1>2. Told(tree, job, info, faults) /\ faults \in Nat /\ DOMAIN job = JobFields /\ job.sources \in Seq(SourcesOf(job.op))
  BY <1>1, InWork
<1>3. CASE job' = Outcome(job, "Cancelled")
  BY <1>1, <1>3, EndTells
<1>4. CASE job' # Outcome(job, "Cancelled")
  <2>1. \/ job' = [job EXCEPT !.i = 1, !.pc = IF job.op \in {"copy", "move"} THEN "validate" ELSE "next"]
        \/ job' = [job EXCEPT !.i = @ + 1, !.ident = @ @@ [q \in Under(Source) |-> tree[q]]]
    BY <1>4, Zenon DEF Prepare
  <2>2. /\ job'.op = job.op /\ job'.sources = job.sources /\ job'.replace = job.replace /\ job'.how = job.how
        /\ job'.affected = job.affected /\ job'.skipped = job.skipped /\ job'.issues = job.issues
        /\ job'.pc \in {"prepare", "validate", "next"} /\ (job'.pc # "prepare" => job'.i = 1)
    <3>1. CASE job' = [job EXCEPT !.i = 1, !.pc = IF job.op \in {"copy", "move"} THEN "validate" ELSE "next"]
      BY <1>2, <3>1 DEF JobFields
    <3>2. CASE job' = [job EXCEPT !.i = @ + 1, !.ident = @ @@ [q \in Under(Source) |-> tree[q]]]
      BY <1>1, <1>2, <3>2 DEF JobFields
    <3> QED BY <2>1, <3>1, <3>2
  <2>3. Told(tree, job', info, faults)
    BY <1>1, <1>2, <2>2, BeginsOn
  <2> QED BY <1>1, <2>2, <2>3, ToldSays DEF Idle
<1> QED BY <1>3, <1>4

LEMMA ValidateTransferTells ==
  ASSUME JobsInv, JobsTold, foreign = 0, ValidateTransfer
  PROVE  Says(tree', job', info', faults')
<1>1. job.pc = "validate" /\ Working(job) /\ ~TakenApart(job) /\ Idle
  BY DEF ValidateTransfer, AtPC, Working, TakenApart, AsidePCs, BackPCs, Keep, Quiet, fsVars, envVars, Idle
<1>2. Told(tree, job, info, faults) /\ faults \in Nat /\ DOMAIN job = JobFields /\ job.sources \in Seq(SourcesOf(job.op))
  BY <1>1, InWork
<1>3. CASE job' = Outcome(job, "Failed")
  BY <1>1, <1>3, EndTells
<1>4. CASE job' = Goto("next")
  <2>1. job.i = 1
    BY <1>1, <1>2 DEF Told, Booked
  <2>2. /\ job'.op = job.op /\ job'.sources = job.sources /\ job'.replace = job.replace /\ job'.how = job.how
        /\ job'.affected = job.affected /\ job'.skipped = job.skipped /\ job'.issues = job.issues
        /\ job'.pc = "next" /\ job'.i = 1
    BY <1>2, <1>4, <2>1 DEF JobFields, Goto
  <2>3. Told(tree, job', info, faults)
    BY <1>1, <1>2, <2>2, BeginsOn
  <2> QED BY <1>1, <2>2, <2>3, ToldSays DEF Idle
<1> QED BY <1>3, <1>4, Zenon DEF ValidateTransfer

\* All the sources were handled.
LEMMA AllDoneTells ==
  ASSUME JobsInv, JobsTold, foreign = 0, AllDone
  PROVE  Says(tree', job', info', faults')
<1>1. /\ job.pc = "next" /\ job.i > Len(job.sources) /\ tree' = tree /\ faults' = faults
      /\ job' = Outcome(job, "Completed") /\ info' = IF job.op = "purge" THEN info \ ToSet(job.sources) ELSE info
  BY DEF AllDone, AtPC, Quiet, envVars
<1>2. Working(job) /\ ~TakenApart(job)
  BY <1>1, NextIsCalm
<1>3. /\ Told(tree, job, info, faults) /\ faults \in Nat /\ DOMAIN job = JobFields /\ job.sources \in Seq(SourcesOf(job.op))
      /\ JobFits(job) /\ job.i \in Nat /\ job.op \in Ops
  BY <1>2, InWork
<1>4. SameList(job, job') /\ job'.result = "Completed" /\ job'.pc = "ended"
  BY <1>1, <1>3, OutcomeBook
<1>5. ToSet(job.sources) = job.skipped \cup Done(job)
  <2>1. {m \in DOMAIN job.sources : m < job.i} = DOMAIN job.sources
    BY <1>1, <1>3
  <2>2. {job.sources[m] : m \in {k \in DOMAIN job.sources : k < job.i}} = job.skipped \cup Done(job)
    BY <1>1, <1>3 DEF Told, Booked
  <2>3. {job.sources[m] : m \in DOMAIN job.sources} = job.skipped \cup Done(job)
    BY <2>1, <2>2, Zenon
  <2> QED BY <2>3, Zenon DEF ToSet
<1>6. ASSUME NEW s \in Done(job), job.op # "trash" PROVE s \notin info'
  <2>1. s \in SourcesOf(job.op)
    BY <1>3, BookPaths DEF Done
  <2>2. CASE job.op = "purge"
    BY <1>1, <1>5, <1>6, <2>2
  <2>3. CASE job.op = "restore"
    BY <1>1, <1>3, <1>6, <2>3 DEF Told, Gone
  <2>4. CASE job.op \notin {"purge", "restore"}
    <3>1. s[1] = "src"
      BY <1>3, <2>1, <2>4, JobPlaces DEF HomeFolder
    <3>2. info' = info /\ \A p \in info : p[1] = "trash"
      BY <1>1, <1>3, <2>4 DEF Told, Gone
    <3> QED BY <3>1, <3>2
  <2> QED BY <2>2, <2>3, <2>4
<1>7. ~Forgiven(job, faults) => TargetsWhole(tree, job) /\ \A s \in ToSet(job.sources) : Fine(tree, job, s)
  BY <1>2, <1>3 DEF Told, SourcesFine
<1>8. \A s \in Done(job) : job.op # "copy" /\ s \notin job.issues => s \notin DOMAIN tree
  BY <1>3 DEF Told, Gone
<1>9. Ended(tree, job', info', faults)
  BY <1>3, <1>4, <1>5, <1>6, <1>7, <1>8, EndsAs
<1> QED BY <1>1, <1>4, <1>9, EndedSays

LEMMA StopAtSourceTells ==
  ASSUME JobsInv, JobsTold, foreign = 0, StopAtSource
  PROVE  Says(tree', job', info', faults')
<1>1. job.pc = "next" /\ Idle /\ job' = Outcome(job, "Cancelled")
  BY DEF StopAtSource, AtSource, AtPC, Keep, Quiet, fsVars, envVars, Idle
<1>2. Working(job) /\ ~TakenApart(job)
  BY <1>1, NextIsCalm
<1> QED BY <1>1, <1>2, EndTells

LEMMA DecideCancelTells ==
  ASSUME JobsInv, JobsTold, foreign = 0, DecideCancel
  PROVE  Says(tree', job', info', faults')
<1>1. job.pc = "conflict" /\ Idle /\ job' = Outcome(job, "Cancelled") /\ Working(job) /\ ~TakenApart(job)
  BY DEF DecideCancel, AtPC, Keep, Quiet, fsVars, envVars, Idle, Working, TakenApart, AsidePCs, BackPCs
<1> QED BY <1>1, EndTells

\* Where a job waits, or goes on without a call.
LEMMA CalmTells ==
  ASSUME JobsInv, JobsTold, foreign = 0, Working(job), Idle, job.i <= Len(job.sources),
         job.pc \notin {"prepare", "validate"}, SameBook(job, job'), Calm(job'), Named(job'),
         ~TakenApart(job) \/ TakenApart(job'),
         ~Forgiven(job, faults) /\ Due(job) => Progress(tree, job')
  PROVE  Says(tree', job', info', faults')
<1>1. Told(tree, job, info, faults) /\ faults \in Nat /\ JobFits(job) /\ job.i \in DOMAIN job.sources
  BY InWork
<1>2. faults <= faults
  BY <1>1
<1>3. Told(tree, job', info, faults)
  BY <1>1, <1>2, GoesIdle
<1>4. job'.pc # "ended"
  BY DEF Calm
<1> QED BY <1>3, <1>4, ToldSays DEF Idle

LEMMA SkipTells ==
  ASSUME JobsInv, JobsTold, foreign = 0, Working(job), Idle, job.i <= Len(job.sources),
         job.pc \notin {"prepare", "validate"}, ~TakenApart(job),
         job'.pc = "next", job'.i = job.i + 1, job'.op = job.op, job'.sources = job.sources,
         job'.replace = job.replace, job'.how = job.how, job'.affected = job.affected,
         job'.skipped = job.skipped \cup {Source}, job.issues \subseteq job'.issues
  PROVE  Says(tree', job', info', faults')
<1>1. Told(tree, job, info, faults) /\ faults \in Nat /\ JobFits(job) /\ job.i \in DOMAIN job.sources /\ SourceOf(job) = Source
  BY InWork
<1>2. ~Forgiven(job, faults) => Fine(tree, job, SourceOf(job))
  BY <1>1, InRegion DEF Told, SourcesFine
<1>3. Told(tree, job', info, faults)
  BY <1>1, <1>2, SkipsOn
<1> QED BY <1>3, ToldSays DEF Idle

\* The names of the targets.
LEMMA NewNames ==
  ASSUME JobFits(job), job.i <= Len(job.sources)
  PROVE  /\ Base(Requested) = Base(Source) /\ Base(Original) = Base(Source) /\ Original = Origin(Source)
         /\ HasFree(Requested) => Base(FirstFree(Requested)) = Base(Source)
         /\ HasFree(<<"trash", Plain(Base(Source))>>) =>
               Base(FirstFree(<<"trash", Plain(Base(Source))>>)) = Base(Source)
<1>1. \A f, b : Base(<<f, Plain(b)>>) = b
  BY DEF Base, Plain, Name
<1>2. \A p, n : Base(CopyOf(p, n)) = Base(p)
  BY DEF Base, CopyOf, Name
<1>3. \A p : HasFree(p) => Base(FirstFree(p)) = Base(p)
  BY <1>2, FirstFreeIsFree
<1>4. Base(Requested) = Base(Source) /\ Base(Original) = Base(Source) /\ Original = Origin(Source)
  BY <1>1 DEF Requested, Original, Origin
<1> QED BY <1>1, <1>3, <1>4

LEMMA TransferNamed ==
  ASSUME NEW j, NEW k, Named(j), SameBook(j, k), j.op \in {"copy", "move"}, Base(k.target) = Base(SourceOf(j))
  PROVE  Named(k)
<1>1. k.op = j.op /\ k.affected = j.affected /\ SourceOf(k) = SourceOf(j) /\ k.op # "restore" /\ k.op \notin Deletions
  BY BookSame DEF SameBook, Deletions
<1> QED BY <1>1 DEF Named

LEMMA ChoiceTells ==
  ASSUME JobsInv, JobsTold, foreign = 0, job.pc \in {"next", "conflict"}, Idle, job.op \in {"copy", "move"},
         job.i <= Len(job.sources), HasFree(Requested), NEW j, SameBook(job, j), j.how = job.how, DOMAIN j = JobFields,
         NEW d \in Decisions, job' = Choice(j, d)
  PROVE  Says(tree', job', info', faults')
<1>1. Working(job) /\ ~TakenApart(job) /\ job.pc \notin {"prepare", "validate"}
  BY DEF Working, TakenApart, AsidePCs, BackPCs
<1>2. Told(tree, job, info, faults) /\ JobFits(job) /\ SourceOf(job) = Source
  BY <1>1, InWork
<1>3. CASE d = "Skip"
  <2>1. job' = NextSource(Skipped(j))
    BY <1>3 DEF Choice
  <2>2. /\ job'.pc = "next" /\ job'.i = j.i + 1 /\ job'.op = j.op /\ job'.sources = j.sources /\ job'.replace = j.replace
        /\ job'.how = j.how /\ job'.affected = j.affected /\ job'.skipped = j.skipped \cup {Source} /\ job'.issues = j.issues
    BY <2>1, SkippedBook
  <2> QED BY <1>1, <2>2, SkipTells DEF SameBook
<1>4. CASE d # "Skip"
  <2>1. \/ job' = [j EXCEPT !.target = FirstFree(Requested), !.how = "plain", !.pc = "transfer"]
        \/ job' = [j EXCEPT !.target = Requested, !.how = "replace", !.replaced = TRUE, !.pc = "transfer"]
        \/ job' = [j EXCEPT !.target = Requested, !.how = "merge", !.merged = TRUE,
                            !.replaced = TRUE, !.pc = "transfer"]
    BY <1>4 DEF Choice, Decisions
  <2>2. /\ job'.op = j.op /\ job'.sources = j.sources /\ job'.replace = j.replace /\ job'.i = j.i
        /\ job'.affected = j.affected /\ job'.skipped = j.skipped /\ job'.issues = j.issues
        /\ job'.pc = "transfer" /\ (job'.target = Requested \/ job'.target = FirstFree(Requested))
    <3>1. CASE job' = [j EXCEPT !.target = FirstFree(Requested), !.how = "plain", !.pc = "transfer"]
      BY <3>1 DEF JobFields
    <3>2. CASE job' = [j EXCEPT !.target = Requested, !.how = "replace", !.replaced = TRUE, !.pc = "transfer"]
      BY <3>2 DEF JobFields
    <3>3. CASE job' = [j EXCEPT !.target = Requested, !.how = "merge", !.merged = TRUE,
                               !.replaced = TRUE, !.pc = "transfer"]
      BY <3>3 DEF JobFields
    <3> QED BY <2>1, <3>1, <3>2, <3>3
  <2>3. SameBook(job, job')
    BY <2>2 DEF SameBook
  <2>4. Calm(job') /\ ~Removing(job') /\ job'.op # "restore"
    BY <2>2, <2>3 DEF Calm, Removing, RemovePCs, SameBook
  <2>5. Named(job')
    <3>1. Base(job'.target) = Base(SourceOf(job))
      BY <1>2, <2>2, NewNames
    <3> QED BY <1>2, <2>3, <3>1, TransferNamed DEF Told
  <2>6. Progress(tree, job')
    BY <2>4, CalmProgress
  <2> QED BY <1>1, <2>3, <2>4, <2>5, <2>6, CalmTells
<1> QED BY <1>3, <1>4

LEMMA ChooseDestinationTells ==
  ASSUME JobsInv, JobsTold, foreign = 0, ChooseDestination
  PROVE  Says(tree', job', info', faults')
<1>1. /\ job.pc = "next" /\ job.i <= Len(job.sources) /\ job.op \in {"copy", "move"} /\ HasFree(Requested) /\ Idle
  BY DEF ChooseDestination, AtSource, AtPC, Keep, Quiet, fsVars, envVars, Idle
<1>2. Working(job) /\ ~TakenApart(job)
  BY <1>1, NextIsCalm
<1>3. Told(tree, job, info, faults) /\ JobFits(job) /\ SourceOf(job) = Source /\ DOMAIN job = JobFields
  BY <1>2, InWork
<1>4. CASE job' = [job EXCEPT !.target = Requested, !.how = "plain", !.pc = "transfer"]
  <2>1. SameBook(job, job') /\ job'.pc = "transfer" /\ job'.target = Requested
    BY <1>3, <1>4 DEF SameBook, JobFields
  <2>2. Calm(job') /\ ~Removing(job') /\ job'.op # "restore"
    BY <1>1, <2>1 DEF Calm, Removing, RemovePCs, SameBook
  <2>3. Named(job')
    <3>1. Base(job'.target) = Base(SourceOf(job))
      BY <1>1, <1>3, <2>1, NewNames
    <3> QED BY <1>1, <1>3, <2>1, <3>1, TransferNamed DEF Told
  <2>4. Progress(tree, job')
    BY <2>2, CalmProgress
  <2> QED BY <1>1, <1>2, <2>1, <2>2, <2>3, <2>4, CalmTells
<1>5. CASE job.all # "Ask" /\ job' = Choice(job, job.all)
  <2>1. job.all \in Decisions
    BY <1>3, <1>5 DEF JobFits
  <2>2. SameBook(job, job)
    BY DEF SameBook
  <2> QED BY <1>1, <1>3, <1>5, <2>1, <2>2, ChoiceTells
<1>6. CASE job' = [job EXCEPT !.pc = "conflict", !.canMerge = is_dir(Source) /\ is_dir(Requested)]
  <2>1. SameBook(job, job') /\ job'.pc = "conflict"
    BY <1>3, <1>6 DEF SameBook, JobFields
  <2>2. Calm(job') /\ ~Removing(job') /\ job'.op # "restore" /\ job'.op \notin Deletions /\ ~HasTarget(job')
    BY <1>1, <2>1 DEF Calm, Removing, RemovePCs, SameBook, Deletions, HasTarget, StagePCs, CopyPCs
  <2>3. Named(job')
    <3>1. job'.affected = job.affected /\ job'.op = job.op
      BY <2>1 DEF SameBook
    <3> QED BY <1>3, <2>2, <3>1 DEF Named, Told
  <2>4. Progress(tree, job')
    BY <2>2, CalmProgress
  <2> QED BY <1>1, <1>2, <2>1, <2>2, <2>3, <2>4, CalmTells
<1>7. CASE job' = Outcome(job, "Failed")
  BY <1>1, <1>2, <1>7, EndTells
<1>8. \/ job' = [job EXCEPT !.target = Requested, !.how = "plain", !.pc = "transfer"]
      \/ job.all # "Ask" /\ job' = Choice(job, job.all)
      \/ job' = [job EXCEPT !.pc = "conflict", !.canMerge = is_dir(Source) /\ is_dir(Requested)]
      \/ job' = Outcome(job, "Failed")
  BY Zenon DEF ChooseDestination
<1> QED BY <1>4, <1>5, <1>6, <1>7, <1>8

LEMMA DecideTells ==
  ASSUME JobsInv, JobsTold, foreign = 0, NEW d \in {"Skip", "KeepBoth", "Replace", "MergeDirectory"}, NEW all \in BOOLEAN,
         Decide(d, all)
  PROVE  Says(tree', job', info', faults')
<1>1. job.pc = "conflict" /\ HasFree(Requested) /\ Idle /\ d \in Decisions
  BY DEF Decide, AtPC, Keep, Quiet, fsVars, envVars, Idle, Decisions
<1>2. Working(job)
  BY <1>1 DEF Working, AsidePCs, BackPCs
<1>3. JobStands(job) /\ DOMAIN job = JobFields
  BY <1>2, InWork
<1>4. job.op \in {"copy", "move"} /\ job.i <= Len(job.sources)
  BY <1>1, <1>3 DEF JobStands, IdlePCs
<1>5. PICK j : j \in {job, [job EXCEPT !.all = d]} /\ job' = Choice(j, d)
  BY DEF Decide
<1>6. SameBook(job, j) /\ j.how = job.how /\ DOMAIN j = JobFields
  BY <1>3, <1>5 DEF SameBook, JobFields
<1> QED BY <1>1, <1>4, <1>5, <1>6, ChoiceTells

\* The whole tree of a path is at another place when the path was moved.
LEMMA MovedHolds ==
  ASSUME JobsInv, JobsTold, foreign = 0, Working(job), job.i <= Len(job.sources), job.op \notin Deletions,
         NEW z \in TargetsOf(job.op), z \notin DOMAIN tree
  PROVE  LET u == Moved(Source, z) IN
         /\ Stays(tree, u, Region(job)) /\ NoneComes(tree, u, SourcesOf(job.op)) /\ Source \notin DOMAIN u
         /\ Holds(tree, Source, Source) => Holds(u, Source, z)
<1>1. /\ JobFits(job) /\ FileTree(tree) /\ Source \in SourcesOf(job.op) /\ Source \in Roots /\ SourceOf(job) = Source
      /\ job.i \in DOMAIN job.sources
  BY InWork
<1>2. z \in Roots /\ z # Source /\ z \notin SourcesOf(job.op) /\ SourcesOf(job.op) \subseteq Roots
  BY <1>1, BookPaths
<1> DEFINE u == Moved(Source, z)
<1>3. /\ Stays(tree, u, Paths \ TreeOf(Source)) /\ Goes(tree, u, Source, z) /\ Source \notin DOMAIN u
      /\ \A P : P \subseteq Roots /\ z \notin P => NoneComes(tree, u, P)
  BY <1>1, <1>2, MovedStays
<1> HIDE DEF u
<1>4. Stays(tree, u, Region(job))
  BY <1>1, <1>3, VisibleFacts, StaysLess DEF Region
<1>5. Holds(tree, Source, Source) => Holds(u, Source, z)
  BY <1>1, <1>2, <1>3, HoldsGoes
<1> QED BY <1>2, <1>3, <1>4, <1>5 DEF u

\* The rename of a move, and of the trash library.
LEMMA MovedTells ==
  ASSUME JobsInv, JobsTold, foreign = 0, job.op \in {"move", "trash"}, job.pc \in {"transfer", "trash"},
         job.i <= Len(job.sources), NEW z \in TargetsOf(job.op), z \notin DOMAIN tree, path_lexists(Source),
         tree' = Moved(Source, z), DoneWith(job, job', z), job'.issues = job.issues,
         \A p \in info' : p[1] = "trash", UNCHANGED faults, Base(z) = Base(Source)
  PROVE  Says(tree', job', info', faults')
<1>1. Working(job) /\ job.op \notin Deletions /\ ~TakenApart(job) /\ job.pc \notin {"prepare", "validate"}
  BY DEF Working, AsidePCs, BackPCs, Deletions, TakenApart
<1>2. /\ Told(tree, job, info, faults) /\ faults \in Nat /\ JobFits(job) /\ job.i \in DOMAIN job.sources
      /\ SourceOf(job) = Source
  BY <1>1, InWork
<1>3. /\ Stays(tree, tree', Region(job)) /\ NoneComes(tree, tree', SourcesOf(job.op)) /\ Source \notin DOMAIN tree'
      /\ Holds(tree, Source, Source) => Holds(tree', Source, z)
  BY <1>1, MovedHolds
<1>4. ~Forgiven(job, faults) => OneOver(job', Source) \/ Holds(tree', Source, z)
  <2>1. CASE Source \in Done(job) /\ job.op = "move"
    <3>1. Source \in DOMAIN tree /\ job'.op = job.op /\ job'.sources = job.sources /\ job.issues \subseteq job'.issues
      BY DEF path_lexists, DoneWith
    <3> QED BY <1>1, <1>2, <2>1, <3>1, ListedTwice
  <2>2. CASE Source \notin Done(job)
    <3>1. ~Forgiven(job, faults) => Fine(tree, job, Source)
      BY <1>1, <1>2, InRegion DEF Told, SourcesFine
    <3> QED BY <1>3, <2>2, <3>1 DEF Fine
  <2>3. CASE Source \in Done(job) /\ job.op = "trash"
    BY <1>2, <2>3 DEF Told, Gone, path_lexists
  <2> QED BY <2>1, <2>2, <2>3
<1>5. Told(tree', job', info', faults)
  BY <1>1, <1>2, <1>3, <1>4, DoesOn DEF DoneWith
<1>6. job'.pc # "ended"
  BY DEF DoneWith
<1> QED BY <1>5, <1>6, ToldSays

LEMMA GotoNamed ==
  ASSUME DOMAIN job = JobFields, Named(job), NEW l, HasTarget(Goto(l)) => HasTarget(job),
         l = "transfer" => job.op # "restore", l = "error" => job.op \notin Deletions
  PROVE  Named(Goto(l))
<1>1. /\ SameBook(job, Goto(l)) /\ SameWork(job, Goto(l)) /\ Goto(l).pc = l
  BY GotoBook
<1>2. SourceOf(Goto(l)) = SourceOf(job) /\ Done(Goto(l)) = Done(job)
  BY <1>1, BookSame
<1> QED BY <1>1, <1>2 DEF Named, SameBook, SameWork

LEMMA PromptNamed ==
  ASSUME DOMAIN job = JobFields, Named(job), NEW e, NEW s, HasTarget(Prompt(e, s)) => HasTarget(job),
         job.op \in Deletions => e = "io"
  PROVE  Named(Prompt(e, s))
<1>1. /\ SameBook(job, Prompt(e, s)) /\ SameWork(job, Prompt(e, s)) /\ Prompt(e, s).pc = "error" /\ Prompt(e, s).error = e
  BY PromptBook
<1>2. SourceOf(Prompt(e, s)) = SourceOf(job) /\ Done(Prompt(e, s)) = Done(job)
  BY <1>1, BookSame
<1> QED BY <1>1, <1>2 DEF Named, SameBook, SameWork

\* An error that leaves the source as it is.
LEMMA PromptTells ==
  ASSUME JobsInv, JobsTold, foreign = 0, Working(job), Idle, job.i <= Len(job.sources),
         job.pc \notin {"prepare", "validate"}, ~TakenApart(job), job.op \notin Deletions,
         NEW e, NEW s, s # "remove", job' = Prompt(e, s)
  PROVE  Says(tree', job', info', faults')
<1>1. Told(tree, job, info, faults) /\ DOMAIN job = JobFields
  BY InWork
<1>2. SameBook(job, job') /\ job'.pc = "error" /\ job'.stage = s
  BY <1>1, PromptBook
<1>3. Calm(job') /\ ~Removing(job') /\ ~HasTarget(job')
  BY <1>2 DEF Calm, Removing, RemovePCs, HasTarget, StagePCs, CopyPCs
<1>4. Named(job')
  BY <1>1, <1>3, PromptNamed DEF Told
<1>5. Progress(tree, job')
  BY <1>2, <1>3, CalmProgress
<1> QED BY <1>2, <1>3, <1>4, <1>5, CalmTells

LEMMA TransferTells ==
  ASSUME JobsInv, JobsTold, foreign = 0, Transfer
  PROVE  Says(tree', job', info', faults')
<1>1. job.pc = "transfer" /\ Working(job) /\ ~TakenApart(job) /\ info' = info /\ faults' = faults /\ HasTarget(job)
  BY DEF Transfer, AtPC, Working, TakenApart, AsidePCs, BackPCs, Quiet, envVars, HasTarget
<1>2. /\ Told(tree, job, info, faults) /\ JobFits(job) /\ SourceOf(job) = Source /\ DOMAIN job = JobFields
      /\ JobStands(job)
  BY <1>1, InWork
<1>3. job.i <= Len(job.sources) /\ job.op \in {"copy", "move"} /\ job.target \in TargetsOf(job.op) /\ job.op \notin Deletions
  <2>1. job.i <= Len(job.sources) /\ job.op \in {"copy", "move", "restore"} /\ job.target \in TargetsOf(job.op)
    BY <1>1, <1>2 DEF JobStands, IdlePCs
  <2> QED BY <1>1, <1>2, <2>1 DEF Told, Named, Deletions
<1>4. CASE job' = Goto("copy") /\ UNCHANGED tree
  <2>1. SameBook(job, job') /\ job'.pc = "copy"
    BY <1>2, <1>4, GotoBook
  <2>2. Calm(job') /\ ~Removing(job') /\ job'.op # "restore"
    BY <1>3, <2>1 DEF Calm, Removing, RemovePCs, SameBook
  <2>3. Named(job')
    BY <1>1, <1>2, <1>4, GotoNamed DEF Told
  <2>4. Progress(tree, job')
    BY <2>2, CalmProgress
  <2> QED BY <1>1, <1>3, <1>4, <2>1, <2>2, <2>3, <2>4, CalmTells DEF Idle
<1>5. CASE job' = NextSource(Skipped(job)) /\ UNCHANGED tree
  <2>1. /\ job'.pc = "next" /\ job'.i = job.i + 1 /\ job'.op = job.op /\ job'.sources = job.sources /\ job'.replace = job.replace
        /\ job'.how = job.how /\ job'.affected = job.affected /\ job'.skipped = job.skipped \cup {Source} /\ job'.issues = job.issues
    BY <1>2, <1>5, SkippedBook
  <2> QED BY <1>1, <1>3, <1>5, <2>1, SkipTells DEF Idle
<1>6. CASE (job' = Prompt("io", "transfer") \/ job' = Prompt("exists", "transfer")) /\ UNCHANGED tree
  BY <1>1, <1>3, <1>6, PromptTells DEF Idle
<1>7. CASE /\ job.op = "move" /\ path_lexists(Source) /\ ~path_lexists(job.target)
           /\ tree' = Moved(Source, job.target) /\ job' = NextSource(MovedTo(job, job.target))
  <2>1. job.target \notin DOMAIN tree
    BY <1>7 DEF path_lexists
  <2>2. DoneWith(job, job', job.target) /\ job'.issues = job.issues
    BY <1>2, <1>7, DoneBook
  <2>3. \A p \in info' : p[1] = "trash"
    BY <1>1, <1>2 DEF Told, Gone
  <2>4. Base(job.target) = Base(Source)
    BY <1>1, <1>2 DEF Told, Named
  <2> QED BY <1>1, <1>3, <1>7, <2>1, <2>2, <2>3, <2>4, MovedTells
<1>8. \/ job' = Goto("copy") /\ UNCHANGED tree
      \/ job' = NextSource(Skipped(job)) /\ UNCHANGED tree
      \/ (job' = Prompt("io", "transfer") \/ job' = Prompt("exists", "transfer")) /\ UNCHANGED tree
      \/ /\ job.op = "move" /\ path_lexists(Source) /\ ~path_lexists(job.target)
         /\ tree' = Moved(Source, job.target) /\ job' = NextSource(MovedTo(job, job.target))
  BY <1>3 DEF Transfer, SameIdentity
<1> QED BY <1>4, <1>5, <1>6, <1>7, <1>8

LEMMA DeleteTells ==
  ASSUME JobsInv, JobsTold, foreign = 0, Delete
  PROVE  Says(tree', job', info', faults')
<1>1. job.pc = "next" /\ job.i <= Len(job.sources) /\ job.op \in Deletions /\ Idle /\ job' = Goto("remove")
  BY DEF Delete, AtSource, AtPC, Keep, Quiet, fsVars, envVars, Idle, Deletions
<1>2. Working(job) /\ ~TakenApart(job)
  BY <1>1, NextIsCalm
<1>3. Told(tree, job, info, faults) /\ DOMAIN job = JobFields
  BY <1>2, InWork
<1>4. SameBook(job, job') /\ job'.pc = "remove"
  BY <1>1, <1>3, GotoBook
<1>5. Calm(job') /\ job'.op \in Deletions /\ job'.op # "restore" /\ TakenApart(job') /\ ~HasTarget(job')
  BY <1>1, <1>4 DEF Calm, SameBook, Deletions, TakenApart, HasTarget, StagePCs, CopyPCs, Removing, RemovePCs
<1>6. Named(job')
  BY <1>1, <1>3, <1>5, GotoNamed DEF Told
<1>7. Progress(tree, job')
  BY <1>5, CalmProgress
<1> QED BY <1>1, <1>2, <1>4, <1>5, <1>6, <1>7, CalmTells

LEMMA CheckForTrashTells ==
  ASSUME JobsInv, JobsTold, foreign = 0, CheckForTrash
  PROVE  Says(tree', job', info', faults')
<1>1. job.pc = "next" /\ job.i <= Len(job.sources) /\ job.op = "trash" /\ Idle
  BY DEF CheckForTrash, AtSource, AtPC, Keep, Quiet, fsVars, envVars, Idle
<1>2. Working(job) /\ ~TakenApart(job) /\ job.op \notin Deletions
  BY <1>1, NextIsCalm DEF Deletions
<1>3. Told(tree, job, info, faults) /\ DOMAIN job = JobFields
  BY <1>2, InWork
<1>4. CASE job' = Goto("trash")
  <2>1. SameBook(job, job') /\ job'.pc = "trash"
    BY <1>3, <1>4, GotoBook
  <2>2. Calm(job') /\ ~Removing(job') /\ job'.op # "restore" /\ ~HasTarget(job')
    BY <1>1, <2>1 DEF Calm, Removing, RemovePCs, SameBook, HasTarget, StagePCs, CopyPCs
  <2>3. Named(job')
    BY <1>2, <1>3, <1>4, <2>2, GotoNamed DEF Told
  <2>4. Progress(tree, job')
    BY <2>2, CalmProgress
  <2> QED BY <1>1, <1>2, <2>1, <2>2, <2>3, <2>4, CalmTells
<1>5. CASE job' = Prompt("io", "identity")
  BY <1>1, <1>2, <1>5, PromptTells
<1> QED BY <1>4, <1>5 DEF CheckForTrash

LEMMA TrashOneTells ==
  ASSUME JobsInv, JobsTold, foreign = 0, TrashOne
  PROVE  Says(tree', job', info', faults')
<1> DEFINE place == FirstFree(<<"trash", Plain(Base(Source))>>)
<1>1. job.pc = "trash" /\ Working(job) /\ ~TakenApart(job) /\ faults' = faults /\ HasFree(<<"trash", Plain(Base(Source))>>)
  BY DEF TrashOne, AtPC, Working, TakenApart, AsidePCs, BackPCs, Quiet, envVars
<1>2. /\ Told(tree, job, info, faults) /\ JobFits(job) /\ SourceOf(job) = Source /\ DOMAIN job = JobFields
      /\ JobStands(job)
  BY <1>1, InWork
<1>3. job.i <= Len(job.sources) /\ job.op = "trash" /\ job.op \notin Deletions
  BY <1>1, <1>2 DEF JobStands, IdlePCs, Deletions
<1>4. place \in TargetsOf(job.op) /\ place \notin DOMAIN tree /\ Base(place) = Base(Source)
  BY <1>1, <1>2, <1>3, TargetPaths, NewNames
<1>5. place[1] = "trash"
  BY <1>2, <1>3, <1>4, JobPlaces DEF TargetFolder, JobFits
<1> HIDE DEF place
<1>6. CASE job' = Prompt("io", "transfer") /\ UNCHANGED fsVars
  BY <1>1, <1>3, <1>6, PromptTells DEF Idle, fsVars
<1>7. CASE /\ path_lexists(Source) /\ tree' = Moved(Source, place) /\ info' = info \cup {place}
           /\ job' = NextSource(Affect(job, place))
  <2>1. DoneWith(job, job', place) /\ job'.issues = job.issues
    BY <1>2, <1>7, DoneBook
  <2>2. \A p \in info' : p[1] = "trash"
    BY <1>2, <1>5, <1>7 DEF Told, Gone
  <2> QED BY <1>1, <1>3, <1>4, <1>7, <2>1, <2>2, MovedTells
<1>8. \/ job' = Prompt("io", "transfer") /\ UNCHANGED fsVars
      \/ /\ path_lexists(Source) /\ tree' = Moved(Source, place) /\ info' = info \cup {place}
         /\ job' = NextSource(Affect(job, place))
  BY Zenon DEF TrashOne, place
<1> QED BY <1>6, <1>7, <1>8

\* An entry that is to be restored, and whose origin is free, is whole.
LEMMA EntryIsWhole ==
  ASSUME JobsInv, JobsTold, foreign = 0, Working(job), job.op = "restore", job.i <= Len(job.sources),
         ~TakenApart(job), path_lexists(Source), job.replace \/ ~path_lexists(Original)
  PROVE  /\ Source \notin Done(job)
         /\ ~Forgiven(job, faults) => Holds(tree, Source, Source)
<1>1. /\ Told(tree, job, info, faults) /\ JobFits(job) /\ SourceOf(job) = Source /\ FirstOK /\ Source \in Roots
      /\ job.i \in DOMAIN job.sources
  BY InWork
<1>2. Source \notin Done(job)
  BY <1>1 DEF Told, Gone, path_lexists
<1>3. ASSUME ~Forgiven(job, faults) PROVE Holds(tree, Source, Source)
  <2>1. Fine(tree, job, Source)
    BY <1>1, <1>3, InRegion DEF Told, SourcesFine
  <2>2. CASE Holds(tree, Source, Origin(Source)) /\ ~job.replace
    <3>1. Origin(Source) \notin DOMAIN tree
      BY <1>1, <2>2, NewNames DEF path_lexists
    <3>2. Source \notin DOMAIN first
      BY <2>2, <3>1 DEF Holds, CameTo
    <3>3. ASSUME NEW c \in VisibleNames PROVE ChildOf(Source, c) \notin DOMAIN first
      <4>1. ChildOf(Source, c) \in Children /\ RootOf(ChildOf(Source, c)) = Source
        BY <1>1, ChildPaths, NameFacts
      <4> QED BY <1>1, <3>2, <4>1 DEF FirstOK, FileTree
    <3> QED BY <3>2, <3>3 DEF Holds, CameTo
  <2> QED BY <1>2, <2>1, <2>2 DEF Fine
<1> QED BY <1>2, <1>3

LEMMA CheckForRestoreTells ==
  ASSUME JobsInv, JobsTold, foreign = 0, CheckForRestore
  PROVE  Says(tree', job', info', faults')
<1>1. job.pc = "next" /\ job.i <= Len(job.sources) /\ job.op = "restore" /\ Idle
  BY DEF CheckForRestore, AtSource, AtPC, Keep, Quiet, fsVars, envVars, Idle
<1>2. Working(job) /\ ~TakenApart(job) /\ job.op \notin Deletions
  BY <1>1, NextIsCalm DEF Deletions
<1>3. Told(tree, job, info, faults) /\ DOMAIN job = JobFields /\ JobFits(job) /\ SourceOf(job) = Source
  BY <1>2, InWork
<1>4. CASE job' = Prompt("io", "transfer") \/ job' = Prompt("exists", "transfer")
  BY <1>1, <1>2, <1>4, PromptTells
<1>5. CASE /\ path_lexists(Source) /\ (job.replace \/ ~path_lexists(Original))
           /\ job' = [job EXCEPT !.target = Original, !.pc = "restore"]
  <2>1. SameBook(job, job') /\ job'.pc = "restore" /\ job'.target = Original /\ job'.how = job.how
    BY <1>3, <1>5 DEF SameBook, JobFields
  <2>2. Source \notin Done(job) /\ (~Forgiven(job, faults) => Holds(tree, Source, Source))
    BY <1>1, <1>2, <1>5, EntryIsWhole
  <2>3. Calm(job') /\ SourceOf(job') = SourceOf(job) /\ Done(job') = Done(job)
    BY <2>1, BookSame DEF Calm
  <2>4. Named(job')
    <3>1. Base(Original) = Base(Source) /\ Original = Origin(Source)
      BY <1>1, <1>3, NewNames
    <3>2. job'.op = job.op /\ job'.affected = job.affected /\ job'.replace = job.replace
      BY <2>1 DEF SameBook
    <3> QED BY <1>1, <1>2, <1>3, <2>1, <2>2, <2>3, <3>1, <3>2 DEF Named, Told
  <2>5. ~Forgiven(job, faults) => Progress(tree, job')
    <3>1. job'.pc \notin {"walk", "leaf", "commit", "exchange", "place", "discard", "info", "removing"} /\ ~Removing(job')
      BY <2>1 DEF Removing, RemovePCs
    <3>2. SourceOf(job') = Source
      BY <1>3, <2>3
    <3> QED BY <2>2, <3>1, <3>2 DEF Progress
  <2> QED BY <1>1, <1>2, <2>1, <2>3, <2>4, <2>5, CalmTells
<1> QED BY <1>4, <1>5 DEF CheckForRestore

LEMMA RestoreOneTells ==
  ASSUME JobsInv, JobsTold, foreign = 0, RestoreOne
  PROVE  Says(tree', job', info', faults')
<1>1. job.pc = "restore" /\ Working(job) /\ ~TakenApart(job) /\ info' = info /\ faults' = faults /\ HasTarget(job)
  BY DEF RestoreOne, AtPC, Working, TakenApart, AsidePCs, BackPCs, Quiet, envVars, HasTarget
<1>2. /\ Told(tree, job, info, faults) /\ JobFits(job) /\ SourceOf(job) = Source /\ DOMAIN job = JobFields
      /\ JobStands(job) /\ faults \in Nat /\ faults <= faults
  BY <1>1, InWork
<1>3. /\ job.i <= Len(job.sources) /\ job.op = "restore" /\ job.target \in TargetsOf(job.op) /\ job.op \notin Deletions
      /\ job.i \in DOMAIN job.sources
  BY <1>1, <1>2, InWork DEF JobStands, IdlePCs, Deletions
<1>4. /\ Source \notin Done(job) /\ Due(job) /\ job.target = Original
      /\ ~Forgiven(job, faults) => Holds(tree, Source, Source)
  <2>1. Source \notin Done(job) /\ job.target = Origin(Source)
    BY <1>1, <1>2, <1>3 DEF Told, Named
  <2>2. Due(job)
    BY <1>2, <2>1 DEF Due
  <2>3. Original = Origin(Source)
    BY <1>2, <1>3, NewNames
  <2>4. ~Forgiven(job, faults) => Holds(tree, Source, Source)
    BY <1>1, <1>2, <1>3, <2>2 DEF Told, Progress
  <2> QED BY <2>1, <2>2, <2>3, <2>4
<1>5. CASE job' = Outcome(job, "Cancelled") /\ UNCHANGED tree
  BY <1>1, <1>5, EndTells DEF Idle
<1>6. CASE (job' = Prompt("io", "transfer") \/ job' = Prompt("exists", "transfer")) /\ UNCHANGED tree
  BY <1>1, <1>3, <1>6, PromptTells DEF Idle
<1>7. CASE /\ UNCHANGED tree
           /\ \/ job.replace /\ job' = [job EXCEPT !.how = "replace", !.replaced = TRUE, !.pc = "copy"]
              \/ job' = [job EXCEPT !.how = "merge", !.pc = "copy"]
  <2>1. SameBook(job, job') /\ job'.pc = "copy" /\ job'.target = job.target /\ (job'.how = "replace" => job.replace)
    <3>1. CASE job.replace /\ job' = [job EXCEPT !.how = "replace", !.replaced = TRUE, !.pc = "copy"]
      BY <1>2, <3>1 DEF SameBook, JobFields
    <3>2. CASE job' = [job EXCEPT !.how = "merge", !.pc = "copy"]
      BY <1>2, <3>2 DEF SameBook, JobFields
    <3> QED BY <1>7, <3>1, <3>2
  <2>2. Calm(job') /\ SourceOf(job') = SourceOf(job) /\ Done(job') = Done(job)
    BY <2>1, BookSame DEF Calm
  <2>3. Named(job')
    <3>1. job'.op = job.op /\ job'.affected = job.affected /\ job'.replace = job.replace
      BY <2>1 DEF SameBook
    <3> QED BY <1>1, <1>2, <1>3, <2>1, <2>2, <3>1 DEF Named, Told
  <2>4. ~Forgiven(job, faults) => Progress(tree, job')
    <3>1. job'.pc \notin {"walk", "leaf", "commit", "exchange", "place", "discard", "info", "removing"} /\ ~Removing(job')
      BY <2>1 DEF Removing, RemovePCs
    <3>2. SourceOf(job') = Source
      BY <1>2, <2>2
    <3> QED BY <1>4, <3>1, <3>2 DEF Progress
  <2> QED BY <1>1, <1>3, <1>7, <2>1, <2>2, <2>3, <2>4, CalmTells DEF Idle
<1>8. CASE ~path_lexists(Original) /\ tree' = Moved(Source, Original) /\ job' = Goto("info")
  <2>1. /\ Stays(tree, tree', Region(job)) /\ NoneComes(tree, tree', SourcesOf(job.op)) /\ Source \notin DOMAIN tree'
        /\ Holds(tree, Source, Source) => Holds(tree', Source, Original)
    BY <1>1, <1>3, <1>4, <1>8, MovedHolds DEF path_lexists
  <2>2. SameBook(job, job') /\ SameWork(job, job') /\ job'.pc = "info"
    BY <1>2, <1>8, GotoBook
  <2>3. Named(job')
    BY <1>1, <1>2, <1>8, GotoNamed DEF Told
  <2>4. TakenApart(job') /\ job'.pc \notin CopyPCs \cup {"discard"} /\ job'.pc \notin {"remove", "unlink", "removing"}
        /\ job'.pc \notin {"prepare", "validate"}
    BY <2>2 DEF TakenApart, CopyPCs
  <2>5. ~Forgiven(job, faults) => Progress(tree', job')
    <3>1. job'.pc \notin {"restore", "copy", "remove", "unlink", "removing"} \cup StagePCs /\ job'.pc \notin {"walk", "leaf", "commit", "exchange", "place"}
      BY <2>2 DEF StagePCs, CopyPCs
    <3>2. SourceOf(job') = Source /\ job'.target = Original
      BY <1>2, <1>4, <2>2, BookSame DEF SameWork
    <3> QED BY <1>4, <2>1, <3>1, <3>2 DEF Progress
  <2>6. Told(tree', job', info', faults)
    BY <1>1, <1>2, <1>3, <2>1, <2>2, <2>3, <2>4, <2>5, GoesOn
  <2> QED BY <1>1, <2>2, <2>6, ToldSays
<1>9. \/ job' = Outcome(job, "Cancelled") /\ UNCHANGED tree
      \/ (job' = Prompt("io", "transfer") \/ job' = Prompt("exists", "transfer")) /\ UNCHANGED tree
      \/ /\ UNCHANGED tree
         /\ \/ job.replace /\ job' = [job EXCEPT !.how = "replace", !.replaced = TRUE, !.pc = "copy"]
            \/ job' = [job EXCEPT !.how = "merge", !.pc = "copy"]
      \/ ~path_lexists(Original) /\ tree' = Moved(Source, Original) /\ job' = Goto("info")
  BY Zenon DEF RestoreOne
<1> QED BY <1>5, <1>6, <1>7, <1>8, <1>9

LEMMA RemoveInfoTells ==
  ASSUME JobsInv, JobsTold, foreign = 0, RemoveInfo
  PROVE  Says(tree', job', info', faults')
<1>1. /\ job.pc = "info" /\ Working(job) /\ tree' = tree /\ faults' = faults /\ HasTarget(job)
      /\ info' = info \ {Source} /\ job' = NextSource(Affect(job, Original))
  BY DEF RemoveInfo, AtPC, Working, AsidePCs, BackPCs, Quiet, envVars, HasTarget
<1>2. /\ Told(tree, job, info, faults) /\ JobFits(job) /\ SourceOf(job) = Source /\ DOMAIN job = JobFields
      /\ JobStands(job) /\ faults \in Nat
  BY <1>1, InWork
<1>3. /\ job.i <= Len(job.sources) /\ job.op = "restore" /\ job.op \notin Deletions /\ job.i \in DOMAIN job.sources
      /\ job.pc \notin {"prepare", "validate"}
  BY <1>1, <1>2, InWork DEF JobStands, IdlePCs, Deletions
<1>4. /\ DoneWith(job, job', Original) /\ job'.issues = job.issues
  BY <1>1, <1>2, DoneBook
<1>5. Base(Original) = Base(Source) /\ job.target = Original
  BY <1>1, <1>2, <1>3, NewNames DEF Told, Named
<1>6. ~Forgiven(job, faults) => Holds(tree', Source, Original)
  <2>1. Due(job)
    BY <1>1, <1>2, <1>3 DEF Told, Named, Due
  <2> QED BY <1>1, <1>2, <1>5, <2>1 DEF Told, Progress
<1>7. Stays(tree, tree', Region(job)) /\ NoneComes(tree, tree', SourcesOf(job.op)) /\ Source \notin DOMAIN tree'
  BY <1>1, <1>2 DEF Stays, NoneComes, Told, Gone
<1>8. (\A p \in info' : p[1] = "trash") /\ info' \subseteq info \ {Source}
  BY <1>1, <1>2 DEF Told, Gone
<1>9. Told(tree', job', info', faults) /\ job'.pc = "next"
  BY <1>2, <1>3, <1>4, <1>5, <1>6, <1>7, <1>8, DoesOn DEF DoneWith
<1> QED BY <1>1, <1>9, ToldSays

LEMMA RetryTells ==
  ASSUME JobsInv, JobsTold, foreign = 0, Retry
  PROVE  Says(tree', job', info', faults')
<1>1. job.pc = "error" /\ Working(job) /\ Idle
  BY DEF Retry, AtPC, Working, AsidePCs, BackPCs, Keep, Quiet, fsVars, envVars, Idle
<1>2. /\ Told(tree, job, info, faults) /\ JobFits(job) /\ SourceOf(job) = Source /\ DOMAIN job = JobFields
      /\ JobStands(job) /\ job.i <= Len(job.sources) /\ job.pc \notin {"prepare", "validate"}
  BY <1>1, InWork DEF JobStands, IdlePCs
<1>3. CASE job.stage = "remove"
  <2>1. job' = Goto("remove")
    BY <1>3 DEF Retry
  <2>2. SameBook(job, job') /\ SameWork(job, job') /\ job'.pc = "remove"
    BY <1>2, <2>1, GotoBook
  <2>3. job.op # "restore" /\ Removing(job) /\ TakenApart(job')
    BY <1>1, <1>2, <1>3, <2>2 DEF JobStands, Removing, TakenApart, SameBook
  <2>4. Calm(job') /\ (HasTarget(job') => HasTarget(job)) /\ SourceOf(job') = SourceOf(job)
        /\ job'.op = job.op /\ job'.target = job.target
    BY <2>2, <2>3, BookSame DEF Calm, SameBook, SameWork, HasTarget, StagePCs, CopyPCs
  <2>5. Named(job')
    BY <1>2, <2>1, <2>4, GotoNamed DEF Told
  <2>6. ~Forgiven(job, faults) /\ Due(job) => Progress(tree, job')
    <3>1. ~Forgiven(job, faults) /\ Due(job) /\ job.op \notin Deletions => Holds(tree, SourceOf(job), job.target)
      BY <1>2, <2>3 DEF Told, Progress
    <3> QED BY <2>2, <2>3, <2>4, <3>1 DEF Progress
  <2> QED BY <1>1, <1>2, <2>2, <2>3, <2>4, <2>5, <2>6, CalmTells
<1>4. CASE job.stage # "remove"
  <2>1. job' = Goto("trash") \/ job' = Goto("next")
    BY <1>4, Zenon DEF Retry
  <2>2. SameBook(job, job') /\ job'.pc \in {"next", "trash"}
    BY <1>2, <2>1, GotoBook
  <2>3. Calm(job') /\ ~Removing(job') /\ ~HasTarget(job') /\ ~TakenApart(job)
    BY <1>1, <1>4, <2>2 DEF Calm, Removing, RemovePCs, HasTarget, StagePCs, CopyPCs, TakenApart
  <2>4. Named(job')
    BY <1>2, <2>1, <2>3, GotoNamed DEF Told
  <2>5. Progress(tree, job')
    <3>1. job'.pc = "trash" => job'.op # "restore"
      <4>1. job' = Goto("trash") => job.stage = "identity"
        <5> SUFFICES ASSUME job.stage # "identity" PROVE job' # Goto("trash")
          OBVIOUS
        <5>1. job' = Goto("next")
          BY <1>4 DEF Retry
        <5>2. Goto("trash").pc = "trash" /\ Goto("next").pc = "next"
          BY <1>2, GotoBook
        <5> QED BY <5>1, <5>2
      <4>2. job' = Goto("next") => job'.pc = "next"
        BY <1>2, GotoBook
      <4> QED BY <1>1, <1>2, <2>1, <2>2, <4>1, <4>2 DEF JobStands, SameBook
    <3> QED BY <2>2, <2>3, <3>1, CalmProgress
  <2> QED BY <1>1, <1>2, <2>2, <2>3, <2>4, <2>5, CalmTells
<1> QED BY <1>3, <1>4

\* A source of a move whose removal is given up is done, with an issue.
LEMMA GivesUp ==
  ASSUME JobsInv, JobsTold, foreign = 0, Working(job), job.op = "move", Removing(job), job.pc # "discard",
         job.i <= Len(job.sources), NEW k, DoneWith(job, k, job.target), k.issues = job.issues \cup {Source}
  PROVE  Told(tree, k, info, faults)
<1>1. /\ Told(tree, job, info, faults) /\ JobFits(job) /\ SourceOf(job) = Source /\ faults \in Nat /\ job.i \in DOMAIN job.sources
  BY InWork
<1>2. job.pc \notin {"prepare", "validate"} /\ HasTarget(job) /\ job.op \notin Deletions
  BY DEF Removing, RemovePCs, HasTarget, Deletions
<1>3. ~Forgiven(job, faults) => OneOver(k, Source) \/ Holds(tree, Source, job.target)
  <2>1. CASE Source \in Done(job)
    BY <1>1, <1>2, <2>1, ListedTwice DEF DoneWith
  <2>2. CASE Source \notin Done(job)
    <3>1. Due(job)
      BY <1>1, <2>2 DEF Due
    <3> QED BY <1>1, <1>2, <3>1 DEF Told, Progress
  <2> QED BY <2>1, <2>2
<1>4. Stays(tree, tree, Region(job)) /\ NoneComes(tree, tree, SourcesOf(job.op))
  BY DEF Stays, NoneComes
<1>5. (\A p \in info : p[1] = "trash") /\ Base(job.target) = Base(Source)
  BY <1>1, <1>2 DEF Told, Gone, Named
<1> QED BY <1>1, <1>2, <1>3, <1>4, <1>5, DoesOn DEF DoneWith

\* And if the job ends there the outcome says so.
LEMMA GivesUpAll ==
  ASSUME JobsInv, JobsTold, foreign = 0, Working(job), job.op = "move", Removing(job), job.pc # "discard",
         job.i <= Len(job.sources), NEW r, r # "Completed",
         NEW k, SameList(Issue(Affect(job, job.target)), k), k.result = r
  PROVE  Ended(tree, k, info, faults)
<1> DEFINE j == NextSource(Issue(Affect(job, job.target)))
<1>1. DOMAIN job = JobFields /\ faults \in Nat /\ SourceOf(job) = Source
  BY InWork
<1>2. DoneWith(job, j, job.target) /\ j.issues = job.issues \cup {Source} /\ SameList(j, k) /\ j.op = job.op
  BY <1>1 DEF DoneWith, NextSource, Affect, Issue, JobFields, SameList
<1> HIDE DEF j
<1>3. Told(tree, j, info, faults) /\ j.pc = "next"
  BY <1>2, GivesUp DEF DoneWith
<1>4. ~Forgiven(j, faults) => TargetsWhole(tree, j) /\ \A s \in ToSet(j.sources) : Fine(tree, j, s)
  BY <1>3, NextIsCalm DEF Told, SourcesFine
<1>5. \A s \in Done(j) : j.op # "copy" /\ s \notin j.issues => s \notin DOMAIN tree
  BY <1>3 DEF Told, Gone
<1> QED BY <1>1, <1>2, <1>4, <1>5, EndsAs

LEMMA SkipErrorTells ==
  ASSUME JobsInv, JobsTold, foreign = 0, SkipError
  PROVE  Says(tree', job', info', faults')
<1>1. job.pc = "error" /\ Working(job) /\ Idle /\ job.op \notin Deletions
  BY DEF SkipError, AtPC, Working, AsidePCs, BackPCs, Keep, Quiet, fsVars, envVars, Idle, Deletions
<1>2. /\ Told(tree, job, info, faults) /\ JobFits(job) /\ SourceOf(job) = Source /\ DOMAIN job = JobFields
      /\ JobStands(job) /\ job.i <= Len(job.sources) /\ job.pc \notin {"prepare", "validate"}
  BY <1>1, InWork DEF JobStands, IdlePCs
<1>3. CASE job.stage = "remove"
  <2>1. Removing(job) /\ job.pc # "discard"
    BY <1>1, <1>3 DEF Removing
  <2>2. job.op = "move"
    BY <1>1, <1>2, <1>3, <2>1 DEF JobStands, Transfers
  <2>3. job' = NextSource(Issue(Skipped(Affect(job, job.target))))
    <3>1. (CASE job.stage = "remove" -> Issue(Skipped(Affect(job, job.target)))
             [] job.op = "restore"   -> Skipped(job)
             [] OTHER                -> Issue(Skipped(job))) = Issue(Skipped(Affect(job, job.target)))
      BY <1>3, <2>2, Zenon
    <3> QED BY <3>1, Zenon DEF SkipError
  <2>4. DoneWith(job, job', job.target) /\ job'.issues = job.issues \cup {Source}
    BY <1>2, <2>3, DoneBook
  <2>5. Told(tree, job', info, faults) /\ job'.pc = "next"
    BY <1>1, <1>2, <2>1, <2>2, <2>4, GivesUp DEF DoneWith
  <2> QED BY <1>1, <2>5, ToldSays DEF Idle
<1>4. CASE job.stage # "remove"
  <2>1. job' = NextSource(Skipped(job)) \/ job' = NextSource(Issue(Skipped(job)))
    BY <1>4, Zenon DEF SkipError
  <2>2. /\ job'.pc = "next" /\ job'.i = job.i + 1 /\ job'.op = job.op /\ job'.sources = job.sources /\ job'.replace = job.replace
        /\ job'.how = job.how /\ job'.affected = job.affected /\ job'.skipped = job.skipped \cup {Source}
        /\ job.issues \subseteq job'.issues
    <3>1. CASE job' = NextSource(Skipped(job))
      BY <1>2, <3>1, SkippedBook
    <3>2. CASE job' = NextSource(Issue(Skipped(job)))
      BY <1>2, <3>2, SkippedBook
    <3> QED BY <2>1, <3>1, <3>2
  <2>3. ~TakenApart(job)
    BY <1>1, <1>4 DEF TakenApart
  <2> QED BY <1>1, <1>2, <2>2, <2>3, SkipTells
<1> QED BY <1>3, <1>4

LEMMA CancelErrorTells ==
  ASSUME JobsInv, JobsTold, foreign = 0, CancelError
  PROVE  Says(tree', job', info', faults')
<1>1. job.pc = "error" /\ Working(job) /\ Idle
  BY DEF CancelError, AtPC, Working, AsidePCs, BackPCs, Keep, Quiet, fsVars, envVars, Idle
<1>2. /\ Told(tree, job, info, faults) /\ JobFits(job) /\ SourceOf(job) = Source /\ DOMAIN job = JobFields
      /\ JobStands(job) /\ job.i <= Len(job.sources) /\ faults \in Nat
  BY <1>1, InWork DEF JobStands, IdlePCs
<1>3. CASE job.stage = "remove" /\ job.op = "move"
  <2>1. Removing(job) /\ job.pc # "discard"
    BY <1>1, <1>3 DEF Removing
  <2>2. job' = Outcome(Issue(Affect(job, job.target)), "Cancelled")
    BY <1>3 DEF CancelError
  <2>3. DOMAIN Issue(Affect(job, job.target)) = JobFields
    BY <1>2 DEF Issue, Affect
  <2>4. SameList(Issue(Affect(job, job.target)), job') /\ job'.result = "Cancelled" /\ job'.pc = "ended"
    BY <2>2, <2>3, OutcomeBook
  <2>5. Ended(tree, job', info, faults)
    BY <1>1, <1>2, <1>3, <2>1, <2>4, GivesUpAll
  <2> QED BY <1>1, <2>4, <2>5, EndedSays DEF Idle
<1>4. CASE ~(job.stage = "remove" /\ job.op = "move")
  <2>1. job' = Outcome(job, "Cancelled")
    BY <1>4 DEF CancelError
  <2>2. ~TakenApart(job) \/ (job.op \in Deletions /\ job.error = "io")
    <3>1. CASE job.stage # "remove"
      BY <1>1, <3>1 DEF TakenApart
    <3>2. CASE job.stage = "remove"
      <4>1. Removing(job)
        BY <1>1, <3>2 DEF Removing
      <4>2. job.op \in Deletions
        BY <1>1, <1>2, <1>4, <3>2, <4>1 DEF JobStands, Transfers
      <4> QED BY <1>1, <1>2, <4>2 DEF Told, Named
    <3> QED BY <3>1, <3>2
  <2> QED BY <1>1, <2>1, <2>2, EndTells
<1> QED BY <1>3, <1>4

-----------------------------------------------------------------------------
(* The copy of a source.                                                   *)

\* How far the copy is, at each of its steps.
CopyTold(t, j) ==
    /\ j.pc = "walk" => CopiedBut(t, j, j.walk)
    /\ j.pc = "leaf" =>
          /\ CameTo(t, ItemOf(j), LeafOf(j))
          /\ IF j.item = << >> THEN \A c \in VisibleNames : ChildOf(SourceOf(j), c) \notin DOMAIN first
                               ELSE CopiedBut(t, j, j.walk)
    /\ j.pc \in {"commit", "exchange", "place"} => Holds(t, SourceOf(j), WorkOf(j))
    /\ j.pc = "discard" => Holds(t, SourceOf(j), j.target)

LEMMA InTheCopy ==
  ASSUME JobsInv, JobsTold, foreign = 0, job.pc \in {"copy"} \cup StagePCs
  PROVE  /\ Told(tree, job, info, faults) /\ faults \in Nat /\ JobFits(job) /\ JobStands(job) /\ FileTree(tree)
         /\ DOMAIN job = JobFields /\ job.i <= Len(job.sources) /\ job.i \in DOMAIN job.sources
         /\ job.op \in {"copy", "move", "restore"} /\ job.op \notin Deletions
         /\ job.pc \notin {"prepare", "validate"} /\ Working(job) /\ ~TakenApart(job) /\ HasTarget(job)
         /\ Source = SourceOf(job) /\ Source \in SourcesOf(job.op) /\ Source \in Roots
         /\ CleanTree(Source) \subseteq VisiblePaths /\ Source \in CleanTree(Source)
         /\ job.target \in TargetsOf(job.op) /\ job.target \in Roots /\ CleanTree(job.target) \subseteq VisiblePaths
         /\ Work = WorkOf(job) /\ Work \in Roots /\ Work \notin SourcesOf(job.op)
<1>1. Working(job) /\ ~TakenApart(job) /\ HasTarget(job) /\ job.pc \notin {"prepare", "validate"}
  BY DEF Working, TakenApart, HasTarget, StagePCs, CopyPCs, AsidePCs, BackPCs
<1>2. /\ job.op \in {"copy", "move", "restore"} /\ job.op \notin Deletions /\ job.i <= Len(job.sources)
      /\ Source = SourceOf(job) /\ Source \in SourcesOf(job.op) /\ Source \in Roots
      /\ job.target \in TargetsOf(job.op) /\ job.target \in Roots
      /\ Work = WorkOf(job) /\ Work \in Roots /\ Work \notin SourcesOf(job.op) /\ JobFits(job)
  BY InCopy
<1>3. /\ Told(tree, job, info, faults) /\ faults \in Nat /\ JobStands(job) /\ FileTree(tree)
      /\ DOMAIN job = JobFields /\ job.i \in DOMAIN job.sources
  BY <1>1, <1>2, InWork
<1>4. CleanTree(Source) \subseteq VisiblePaths /\ CleanTree(job.target) \subseteq VisiblePaths
  BY <1>2, BookPaths
<1>5. Source \in CleanTree(Source)
  BY <1>2, RootPaths
<1> QED BY <1>1, <1>2, <1>3, <1>4, <1>5

\* The source is as it was.
LEMMA SourceHolds ==
  ASSUME JobsInv, JobsTold, foreign = 0, job.pc \in {"copy"} \cup StagePCs, ~Forgiven(job, faults), Due(job)
  PROVE  Holds(tree, Source, Source)
<1>1. /\ Told(tree, job, info, faults) /\ Source = SourceOf(job) /\ ~TakenApart(job) /\ Source \in ToSet(job.sources)
  BY InTheCopy, InRegion
<1>2. Fine(tree, job, Source)
  BY <1>1 DEF Told, SourcesFine
<1>3. CASE job.op = "restore"
  BY <1>1, <1>3 DEF Told, Progress
<1>4. CASE job.op # "restore"
  BY <1>1, <1>2, <1>4 DEF Fine, Due
<1> QED BY <1>3, <1>4

\* A step within the copy that leaves what is visible.
LEMMA CopyGoesOn ==
  ASSUME JobsInv, JobsTold, foreign = 0, job.pc \in {"copy"} \cup StagePCs, NEW u, NEW k, NEW g \in Nat, faults <= g,
         SameBook(job, k), k.target = job.target, k.how = job.how, k.pc \in StagePCs,
         Stays(tree, u, VisiblePaths), NoneComes(tree, u, SourcesOf(job.op)),
         k.pc \in CopyPCs \cup {"discard"} => Source \in DOMAIN tree,
         ~Forgiven(job, g) /\ Due(job) => CopyTold(u, k)
  PROVE  Told(u, k, info, g)
<1>1. /\ Told(tree, job, info, faults) /\ faults \in Nat /\ JobFits(job) /\ job.i \in DOMAIN job.sources
      /\ job.op \notin Deletions /\ job.pc \notin {"prepare", "validate"} /\ ~TakenApart(job) /\ HasTarget(job)
      /\ Source = SourceOf(job) /\ Source \in SourcesOf(job.op) /\ Source \in Roots
      /\ CleanTree(Source) \subseteq VisiblePaths /\ Source \in CleanTree(Source)
  BY InTheCopy
<1>2. k.pc \notin {"prepare", "validate", "info", "remove", "unlink", "removing", "transfer", "error", "restore", "copy"}
  BY DEF StagePCs, CopyPCs
<1>3. SourceOf(k) = SourceOf(job) /\ Done(k) = Done(job) /\ k.op = job.op /\ k.replace = job.replace
      /\ k.affected = job.affected
  BY BookSame DEF SameBook
<1>4. Stays(tree, u, Region(job))
  BY StaysLess DEF Region
<1>5. Named(k)
  BY <1>1, <1>2, <1>3 DEF Told, Named
<1>6. k.pc \in CopyPCs \cup {"discard"} => Source \in DOMAIN u
  BY <1>1 DEF Stays
<1>7. ASSUME ~Forgiven(job, g) PROVE Fine(u, k, Source)
  <2>1. ~Forgiven(job, faults)
    BY <1>1, <1>7 DEF Forgiven
  <2>2. Fine(tree, job, Source)
    BY <1>1, <2>1, InRegion DEF Told, SourcesFine
  <2>3. job.op = "restore" => CleanTree(Origin(Source)) \subseteq VisiblePaths
    BY <1>1, BookPaths
  <2> QED BY <1>1, <1>3, <2>2, <2>3, FineStays
<1>8. ASSUME ~Forgiven(job, g), Due(job) PROVE Progress(u, k)
  <2>1. ~Forgiven(job, faults)
    BY <1>1, <1>8 DEF Forgiven
  <2>2. Holds(u, Source, Source)
    BY <1>1, <1>8, <2>1, SourceHolds, HoldsStays
  <2>3. Removing(k) => k.pc = "discard"
    BY <1>2 DEF Removing, RemovePCs
  <2> QED BY <1>1, <1>2, <1>3, <1>8, <2>2, <2>3 DEF Progress, CopyTold
<1> QED BY <1>1, <1>2, <1>3, <1>4, <1>5, <1>6, <1>7, <1>8, GoesOn

\* The copy fails.
LEMMA CopyFailTells ==
  ASSUME JobsInv, JobsTold, foreign = 0, job.pc \in {"copy"} \cup StagePCs, NEW e, job' = CopyFails(e),
         info' = info, faults' \in Nat, faults <= faults',
         Stays(tree, tree', VisiblePaths), NoneComes(tree, tree', SourcesOf(job.op))
  PROVE  Says(tree', job', info', faults')
<1>1. SameBook(job, job') /\ SameWork(job, job') /\ job'.pc = "cleanup"
  BY InTheCopy, CopyFailsBook
<1>2. job'.pc \in StagePCs /\ job'.pc \notin CopyPCs \cup {"discard"} /\ CopyTold(tree', job')
  BY <1>1 DEF StagePCs, CopyPCs, CopyTold
<1>3. Told(tree', job', info, faults')
  BY <1>1, <1>2, CopyGoesOn DEF SameWork
<1> QED BY <1>1, <1>3, ToldSays

LEMMA FailsAsIs ==
  ASSUME JobsInv, JobsTold, foreign = 0, job.pc \in {"copy"} \cup StagePCs, NEW e, job' = CopyFails(e), Idle
  PROVE  Says(tree', job', info', faults')
<1>1. tree' = tree /\ info' = info /\ faults' = faults /\ faults \in Nat
  BY InTheCopy DEF Idle
<1>2. Stays(tree, tree', VisiblePaths) /\ NoneComes(tree, tree', SourcesOf(job.op)) /\ faults <= faults' /\ faults' \in Nat
  BY <1>1 DEF Stays, NoneComes
<1> QED BY <1>1, <1>2, CopyFailTells

\* A step of the copy of which CopyTold holds.
LEMMA CopyTells ==
  ASSUME JobsInv, JobsTold, foreign = 0, job.pc \in {"copy"} \cup StagePCs, UNCHANGED <<info, faults>>,
         SameBook(job, job'), job'.target = job.target, job'.how = job.how, job'.pc \in CopyPCs,
         Stays(tree, tree', VisiblePaths), NoneComes(tree, tree', SourcesOf(job.op)), Source \in DOMAIN tree,
         ~Forgiven(job, faults) /\ Due(job) => CopyTold(tree', job')
  PROVE  Says(tree', job', info', faults')
<1>1. faults \in Nat /\ faults <= faults /\ job'.pc \in StagePCs /\ job'.pc # "ended"
  BY InTheCopy DEF StagePCs, CopyPCs
<1>2. Told(tree', job', info, faults)
  BY <1>1, CopyGoesOn
<1> QED BY <1>1, <1>2, ToldSays

\* What is read to the leaf.
LEMMA ReadTells ==
  ASSUME JobsInv, JobsTold, foreign = 0, job.pc \in {"copy", "walk"}, UNCHANGED <<info, faults>>, Source \in DOMAIN tree,
         NEW leaf \in Paths, leaf = LeafOf(job'), leaf \notin VisiblePaths, leaf \notin SourcesOf(job.op),
         NEW from, from = ItemOf(job'), from \in CleanTree(Source),
         from = Source \/ \E c \in VisibleNames : from = ChildOf(Source, c),
         tree' = With(leaf, NewNode(tree[from].data)),
         SameBook(job, job'), job'.target = job.target, job'.how = job.how, job'.pc = "leaf",
         ~Forgiven(job, faults) /\ Due(job) =>
            IF job'.item = << >> THEN \A c \in VisibleNames : ChildOf(SourceOf(job'), c) \notin DOMAIN first
                                 ELSE CopiedBut(tree', job', job'.walk)
  PROVE  Says(tree', job', info', faults')
<1>1. job.pc \in {"copy"} \cup StagePCs /\ job'.pc \in CopyPCs
  BY DEF StagePCs, CopyPCs
<1>2. Source \in Roots /\ CleanTree(Source) \subseteq VisiblePaths
  BY <1>1, InTheCopy
<1>3. Stays(tree, tree', Paths \ {leaf}) /\ leaf \in DOMAIN tree' /\ tree'[leaf] = NewNode(tree[from].data)
      /\ NoneComes(tree, tree', SourcesOf(job.op))
  BY WithStays
<1>4. Stays(tree, tree', VisiblePaths)
  BY <1>3, VisibleFacts, StaysLess
<1>5. ASSUME ~Forgiven(job, faults), Due(job) PROVE CameTo(tree', from, leaf)
  <2>1. CameTo(tree, from, from)
    BY <1>1, <1>5, SourceHolds DEF Holds
  <2>2. tree'[leaf].data = tree[from].data
    BY <1>3, NodeData
  <2> QED BY <1>3, <2>1, <2>2 DEF CameTo
<1>6. ~Forgiven(job, faults) /\ Due(job) => CopyTold(tree', job')
  BY <1>5 DEF CopyTold
<1> QED BY <1>1, <1>3, <1>4, <1>6, CopyTells

LEMMA LeafOutside ==
  ASSUME NEW w \in Roots
  PROVE  /\ <<w[1], Hidden(".leaf", 0)>> \in Roots /\ <<w[1], Hidden(".leaf", 0)>> \notin VisiblePaths
         /\ <<w[1], w[2], Hidden(".leaf", 0)>> \in Children /\ <<w[1], w[2], Hidden(".leaf", 0)>> \notin VisiblePaths
         /\ \A o \in Ops : /\ <<w[1], Hidden(".leaf", 0)>> \notin SourcesOf(o)
                           /\ <<w[1], w[2], Hidden(".leaf", 0)>> \notin SourcesOf(o)
<1> DEFINE l == <<w[1], Hidden(".leaf", 0)>>
           m == <<w[1], w[2], Hidden(".leaf", 0)>>
<1>1. l \in Roots /\ m \in Children
  BY PathShapes, HiddenRoots DEF HiddenTags
<1>2. Hidden(".leaf", 0) \notin VisibleNames /\ l[2] = Hidden(".leaf", 0) /\ m[3] = Hidden(".leaf", 0)
  BY NameFacts DEF HiddenTags
<1> HIDE DEF l, m
<1>3. l \in Paths /\ m \in Paths /\ m \notin Roots
  BY <1>1, RootsAndChildren DEF Paths
<1>4. l \notin VisiblePaths /\ m \notin VisiblePaths
  BY <1>1, <1>2, <1>3, VisibleFacts DEF NothingHiddenIn
<1>5. \A o \in Ops : l \notin SourcesOf(o) /\ m \notin SourcesOf(o)
  BY <1>1, <1>2, <1>3, JobPlaces
<1> QED BY <1>1, <1>4, <1>5 DEF l, m

LEMMA CopyRootTells ==
  ASSUME JobsInv, JobsTold, foreign = 0, CopyRoot
  PROVE  Says(tree', job', info', faults')
<1>0. job.pc = "copy" /\ UNCHANGED <<info, faults>> /\ job.pc \in {"copy"} \cup StagePCs
  BY DEF CopyRoot, AtPC, Quiet, envVars
<1>1. /\ DOMAIN job = JobFields /\ Source = SourceOf(job) /\ Source \in Roots /\ Source \in CleanTree(Source)
      /\ Work = WorkOf(job) /\ Work \in Roots /\ Work \notin SourcesOf(job.op) /\ FileTree(tree) /\ JobFits(job)
  BY <1>0, InTheCopy
<1>2. CASE \E e \in {"cancelled", "io", "exists"} : CopyFail(e)
  <2>1. PICK e : job' = CopyFails(e) /\ UNCHANGED tree
    BY <1>2 DEF CopyFail
  <2> QED BY <1>0, <2>1, FailsAsIs DEF Idle
<1>3. CASE Opens(Source) /\ ~is_dir(Source) /\ ReadToLeaf(<< >>)
  <2> DEFINE leaf == <<Work[1], Hidden(".leaf", 0)>>
  <2>1. Source \in DOMAIN tree /\ tree[Source].data # Folder
    BY <1>3 DEF Opens, SameIdentity, path_lexists, is_dir
  <2>2. /\ job' = [job EXCEPT !.item = << >>, !.pc = "leaf"] /\ tree' = With(leaf, NewNode(tree[Source].data))
    <3>1. /\ job' = [job EXCEPT !.item = << >>, !.pc = "leaf"]
          /\ tree' = With(Append(Front(Work \o << >>), Hidden(".leaf", 0)), NewNode(tree[Source \o << >>].data))
      BY <1>3 DEF ReadToLeaf
    <3>2. Work \o << >> = Work /\ Append(Front(Work), Hidden(".leaf", 0)) = leaf /\ Source \o << >> = Source
      BY <1>0, <1>1, NewLeaf, FrontOfPath, NameFacts DEF HiddenTags
    <3> HIDE DEF leaf
    <3> QED BY <3>1, <3>2
  <2>3. leaf \in Paths /\ leaf \notin VisiblePaths /\ leaf \notin SourcesOf(job.op)
    BY <1>1, LeafOutside DEF Paths, JobFits
  <2>4. /\ SameBook(job, job') /\ job'.pc = "leaf" /\ job'.item = << >> /\ job'.target = job.target
        /\ job'.how = job.how
    BY <1>1, <2>2 DEF SameBook, JobFields
  <2>5. SourceOf(job') = Source /\ ItemOf(job') = Source
    BY <1>1, <2>4, BookSame DEF ItemOf
  <2>6. LeafOf(job') = leaf
    <3>1. WorkOf(job') = WorkOf(job)
      BY <2>4 DEF WorkOf, StagingOf, SameBook
    <3> QED BY <1>1, <2>4, <3>1 DEF LeafOf
  <2> HIDE DEF leaf
  <2>7. ASSUME ~Forgiven(job, faults), Due(job), NEW c \in VisibleNames PROVE ChildOf(Source, c) \notin DOMAIN first
    <3>1. CameTo(tree, ChildOf(Source, c), ChildOf(Source, c))
      BY <1>0, <2>7, SourceHolds DEF Holds
    <3>2. ChildOf(Source, c) \in Children /\ RootOf(ChildOf(Source, c)) = Source
      BY <1>1, ChildPaths, NameFacts
    <3>3. ChildOf(Source, c) \notin DOMAIN tree
      BY <1>1, <2>1, <3>2 DEF FileTree
    <3> QED BY <3>1, <3>3 DEF CameTo
  <2> QED BY <1>0, <1>1, <2>1, <2>2, <2>3, <2>4, <2>5, <2>6, <2>7, ReadTells
<1>4. CASE /\ is_dir(Source) /\ job' = [job EXCEPT !.walk = {q[3] : q \in Below(Source)}, !.pc = "walk"]
           /\ path_lexists(Work) => is_dir(Work)
           /\ tree' = IF path_lexists(Work) THEN tree ELSE With(Work, NewNode(Folder))
  <2>1. Source \in DOMAIN tree /\ tree[Source].data = Folder
    BY <1>4 DEF is_dir, path_lexists
  <2>2. SameBook(job, job') /\ job'.pc = "walk" /\ job'.target = job.target /\ job'.how = job.how
    BY <1>1, <1>4 DEF SameBook, JobFields
  <2>3. job'.walk = {q[3] : q \in Below(Source)}
    BY <1>1, <1>4 DEF JobFields
  <2>4. SourceOf(job') = Source /\ WorkOf(job') = Work
    <3>1. WorkOf(job') = WorkOf(job)
      BY <2>2 DEF WorkOf, StagingOf, SameBook
    <3> QED BY <1>1, <2>2, <3>1, BookSame
  <2>5. /\ Stays(tree, tree', Paths) /\ NoneComes(tree, tree', SourcesOf(job.op))
        /\ Work \in DOMAIN tree' /\ tree'[Work].data = Folder
    <3>1. CASE path_lexists(Work)
      BY <1>4, <3>1 DEF Stays, NoneComes, is_dir, path_lexists
    <3>2. CASE ~path_lexists(Work)
      <4>1. tree' = With(Work, NewNode(Folder)) /\ Work \notin DOMAIN tree /\ Work \in Paths
        BY <1>1, <1>4, <3>2 DEF path_lexists, Paths
      <4>2. /\ Stays(tree, tree', Paths \ {Work}) /\ NoneComes(tree, tree', SourcesOf(job.op))
            /\ Work \in DOMAIN tree' /\ tree'[Work] = NewNode(Folder)
        BY <1>1, <4>1, WithStays
      <4>3. Stays(tree, tree', Paths)
        BY <4>1, <4>2 DEF Stays
      <4> QED BY <4>2, <4>3, NodeData
    <3> QED BY <3>1, <3>2
  <2>6. Stays(tree, tree', VisiblePaths)
    BY <2>5, VisibleFacts, StaysLess
  <2>7. ASSUME ~Forgiven(job, faults), Due(job) PROVE CopiedBut(tree', job', job'.walk)
    <3>1. Holds(tree, Source, Source)
      BY <1>0, <2>7, SourceHolds
    <3>2. CameTo(tree', Source, Work)
      BY <2>1, <2>5, <3>1 DEF Holds, CameTo
    <3>3. ASSUME NEW c \in VisibleNames, c \notin job'.walk PROVE ChildOf(Source, c) \notin DOMAIN first
      <4>1. ChildOf(Source, c) \in Children /\ ChildOf(Source, c)[3] = c /\ ChildOf(Source, c) \in TreeOf(Source)
        BY <1>1, ChildPaths, NameFacts
      <4>2. ChildOf(Source, c) \in DOMAIN tree => ChildOf(Source, c) \in Below(Source)
        BY <1>1, <4>1, UnderRootIs, RootsAndChildren DEF Below
      <4>3. ChildOf(Source, c) \notin DOMAIN tree
        BY <2>3, <3>3, <4>1, <4>2
      <4> QED BY <3>1, <4>3 DEF Holds, CameTo
    <3> QED BY <2>4, <3>2, <3>3 DEF CopiedBut, CameTo
  <2>8. ~Forgiven(job, faults) /\ Due(job) => CopyTold(tree', job')
    BY <2>2, <2>7 DEF CopyTold
  <2>9. job'.pc \in CopyPCs
    BY <2>2 DEF CopyPCs
  <2> QED BY <1>0, <2>1, <2>2, <2>5, <2>6, <2>8, <2>9, CopyTells
<1> QED BY <1>2, <1>3, <1>4, Zenon DEF CopyRoot

LEMMA CopyChildTells ==
  ASSUME JobsInv, JobsTold, foreign = 0, NEW c, CopyChild(c)
  PROVE  Says(tree', job', info', faults')
<1>0. job.pc = "walk" /\ UNCHANGED <<info, faults>> /\ job.pc \in {"copy"} \cup StagePCs /\ c \in job.walk
  BY DEF CopyChild, AtPC, Quiet, envVars, StagePCs, CopyPCs
<1>1. /\ DOMAIN job = JobFields /\ Source = SourceOf(job) /\ Source \in Roots /\ Source \in CleanTree(Source)
      /\ Work = WorkOf(job) /\ Work \in Roots /\ Work \notin SourcesOf(job.op) /\ FileTree(tree) /\ JobFits(job)
      /\ JobStands(job) /\ Told(tree, job, info, faults)
  BY <1>0, InTheCopy
<1>2. c \in VisibleNames /\ c \in AllNames
  BY <1>0, <1>1, NameFacts DEF JobStands
<1>3. CASE \E e \in {"cancelled", "io", "exists"} : CopyFail(e)
  <2>1. PICK e : job' = CopyFails(e) /\ UNCHANGED tree
    BY <1>3 DEF CopyFail
  <2> QED BY <1>0, <2>1, FailsAsIs DEF Idle
<1>4. CASE ReadToLeaf(<<c>>)
  <2> DEFINE leaf == <<Work[1], Work[2], Hidden(".leaf", 0)>>
             from == <<Source[1], Source[2], c>>
  <2>1. job' = [job EXCEPT !.item = <<c>>, !.pc = "leaf"] /\ tree' = With(leaf, NewNode(tree[from].data))
    <3>1. /\ job' = [job EXCEPT !.item = <<c>>, !.pc = "leaf"]
          /\ tree' = With(Append(Front(Work \o <<c>>), Hidden(".leaf", 0)), NewNode(tree[Source \o <<c>>].data))
      BY <1>4 DEF ReadToLeaf
    <3>2. Append(Front(Work \o <<c>>), Hidden(".leaf", 0)) = leaf
      BY <1>0, <1>2, NewLeaf
    <3>3. Source \o <<c>> = from
      BY <1>1, <1>2, FrontOfPath
    <3> HIDE DEF leaf, from
    <3> QED BY <3>1, <3>2, <3>3
  <2>2. leaf \in Paths /\ leaf \notin VisiblePaths /\ leaf \notin SourcesOf(job.op)
    BY <1>1, LeafOutside DEF Paths, JobFits
  <2>3. /\ SameBook(job, job') /\ job'.pc = "leaf" /\ job'.item = <<c>> /\ job'.target = job.target
        /\ job'.how = job.how /\ job'.walk = job.walk
    BY <1>1, <2>1 DEF SameBook, JobFields
  <2>4. job'.item # << >> /\ job'.item[1] = c
    BY <2>3
  <2>5. WorkOf(job') = WorkOf(job) /\ SourceOf(job') = Source
    <3>1. WorkOf(job') = WorkOf(job)
      BY <2>3 DEF WorkOf, StagingOf, SameBook
    <3> QED BY <1>1, <2>3, <3>1, BookSame
  <2>6. LeafOf(job') = leaf /\ ItemOf(job') = from
    BY <1>1, <2>4, <2>5 DEF LeafOf, ItemOf
  <2>7. from = ChildOf(Source, c) /\ from \in CleanTree(Source)
    BY <1>1, <1>2, ChildPaths DEF ChildOf
  <2>8. Source \in DOMAIN tree
    BY <1>0, <1>1 DEF Told, Gone, CopyPCs
  <2> HIDE DEF leaf, from
  <2>9. ASSUME ~Forgiven(job, faults), Due(job) PROVE CopiedBut(tree', job', job'.walk)
    <3>1. CopiedBut(tree, job, job.walk)
      BY <1>0, <1>1, <2>9 DEF Told, Progress
    <3>2. Stays(tree, tree', Paths \ {leaf})
      BY <2>1, <2>2, WithStays
    <3>3. Work \in Paths \ {leaf}
      <4>1. leaf \in Children
        BY <1>1, LeafOutside DEF leaf
      <4> QED BY <1>1, <4>1, RootPaths
    <3>4. CameTo(tree', Source, Work)
      BY <1>1, <3>1, <3>2, <3>3, CameToStays DEF CopiedBut
    <3>5. ASSUME NEW d \in VisibleNames, d \notin job.walk PROVE CameTo(tree', ChildOf(Source, d), ChildOf(Work, d))
      <4>1. ChildOf(Work, d) \in Paths /\ ChildOf(Work, d)[3] = d
        BY <1>1, ChildPaths, NameFacts
      <4>2. leaf[3] = Hidden(".leaf", 0) /\ Hidden(".leaf", 0) \notin VisibleNames
        BY NameFacts DEF leaf, HiddenTags
      <4>3. ChildOf(Work, d) \in Paths \ {leaf}
        BY <4>1, <4>2
      <4>4. CameTo(tree, ChildOf(Source, d), ChildOf(Work, d))
        BY <1>1, <3>1, <3>5 DEF CopiedBut
      <4> QED BY <3>2, <4>3, <4>4, CameToStays
    <3> QED BY <1>1, <2>3, <2>5, <3>4, <3>5 DEF CopiedBut
  <2> QED BY <1>0, <1>2, <2>1, <2>2, <2>3, <2>4, <2>6, <2>7, <2>8, <2>9, ReadTells
<1> QED BY <1>3, <1>4, Zenon DEF CopyChild

\* Nothing of the leaf is visible.
LEMMA LeafAside ==
  ASSUME JobsInv, JobsTold, foreign = 0, job.pc = "leaf"
  PROVE  /\ Leaf \in Paths /\ Leaf \notin VisiblePaths /\ (Leaf \in Roots => TreeOf(Leaf) \cap VisiblePaths = {})
         /\ Stays(tree, Without(Leaf), VisiblePaths) /\ NoneComes(tree, Without(Leaf), SourcesOf(job.op))
<1>0. job.pc \in {"copy"} \cup StagePCs
  BY DEF StagePCs, CopyPCs
<1>1. FileTree(tree) /\ JobOK(job) /\ Work \in Roots
  BY <1>0, InTheCopy DEF JobOK
<1>2. Leaf \in Roots => Leaf = <<Work[1], Hidden(".leaf", 0)>>
  BY <1>1, LeafPaths, RootsAndChildren
<1>3. Leaf \in Paths /\ Leaf \notin VisiblePaths
  <2>1. Leaf \in Paths /\ Leaf \notin Secures
    BY LeafApart
  <2> QED BY <2>1, TreesApart
<1>4. ASSUME Leaf \in Roots, NEW q \in TreeOf(Leaf), q \in VisiblePaths PROVE FALSE
  <2>1. q \in Paths /\ q[2] \in VisibleNames
    BY <1>4, VisibleFacts
  <2>2. q[2] = Leaf[2]
    BY <1>4, <2>1, TreesApart
  <2>3. Leaf[2] = Hidden(".leaf", 0)
    BY <1>2, <1>4
  <2>4. Hidden(".leaf", 0) \notin VisibleNames
    BY NameFacts DEF HiddenTags
  <2> QED BY <2>1, <2>2, <2>3, <2>4
<1>5. NoneComes(tree, Without(Leaf), SourcesOf(job.op))
  BY <1>1, <1>3, WithoutStays
<1>6. CASE Leaf \in Roots
  <2>1. Stays(tree, Without(Leaf), Paths \ TreeOf(Leaf))
    BY <1>1, <1>3, <1>6, WithoutStays
  <2>2. VisiblePaths \subseteq Paths \ TreeOf(Leaf)
    BY <1>4, <1>6, VisibleFacts
  <2> QED BY <1>3, <1>4, <1>5, <2>1, <2>2, StaysLess
<1>7. CASE Leaf \in Children
  <2>1. Stays(tree, Without(Leaf), Paths \ {Leaf})
    BY <1>1, <1>3, <1>7, WithoutStays
  <2>2. VisiblePaths \subseteq Paths \ {Leaf}
    BY <1>3, VisibleFacts
  <2> QED BY <1>3, <1>5, <1>7, <2>1, <2>2, RootsAndChildren, StaysLess
<1> QED BY <1>3, <1>6, <1>7 DEF Paths

\* The removal of something hidden that fails counts as one more fault at most.
LEMMA ClearedFaults ==
  ASSUME NEW p, Cleared(p)
  PROVE  tree' = Without(p) /\ first' = first /\ split' = split /\ foreign' = foreign
         /\ (faults' = faults \/ faults' = faults + 1)
         /\ (faults \in Nat => faults' \in Nat /\ faults <= faults')
BY DEF Cleared, LastingFault

LEMMA PlaceLeafTells ==
  ASSUME JobsInv, JobsTold, foreign = 0, PlaceLeaf
  PROVE  Says(tree', job', info', faults')
<1>0. job.pc = "leaf" /\ info' = info /\ job.pc \in {"copy"} \cup StagePCs
  BY DEF PlaceLeaf, AtPC, StagePCs, CopyPCs
<1>1. /\ DOMAIN job = JobFields /\ Source = SourceOf(job) /\ Source \in Roots /\ Source \in DOMAIN tree
      /\ Work = WorkOf(job) /\ Work \in Roots /\ Work \notin SourcesOf(job.op) /\ FileTree(tree) /\ JobFits(job)
      /\ JobStands(job) /\ Told(tree, job, info, faults) /\ JobOK(job) /\ faults \in Nat /\ job.op \in Ops
  BY <1>0, InTheCopy DEF JobOK, Told, Gone, CopyPCs, JobFits
<1>2. /\ Leaf = LeafOf(job)
      /\ \/ /\ job.item = << >> /\ Leaf \in Roots /\ ItemTo \in Roots /\ Leaf # ItemTo /\ ItemTo = Work
            /\ Leaf = <<Work[1], Hidden(".leaf", 0)>>
         \/ /\ job.item # << >> /\ Leaf \in Children /\ ItemTo \in Children /\ RootOf(Leaf) = Work /\ RootOf(ItemTo) = Work
            /\ ItemTo[3] = job.item[1] /\ job.item[1] \in VisibleNames /\ Leaf[3] = Hidden(".leaf", 0)
  BY <1>0, <1>1, LeafPaths
<1>3. Leaf \in Paths /\ Leaf \notin VisiblePaths /\ (Leaf \in Roots => TreeOf(Leaf) \cap VisiblePaths = {})
  BY <1>0, LeafAside
<1>4. CASE Cleared(Leaf) /\ \E e : job' = CopyFails(e)
  <2>1. tree' = Without(Leaf) /\ faults' \in Nat /\ faults <= faults'
    BY <1>1, <1>4, ClearedFaults
  <2>2. Stays(tree, tree', VisiblePaths) /\ NoneComes(tree, tree', SourcesOf(job.op))
    BY <1>0, <2>1, LeafAside
  <2> QED BY <1>0, <1>4, <2>1, <2>2, CopyFailTells
<1>5. CASE /\ job.item = << >> /\ ~path_lexists(ItemTo) /\ tree' = Moved(Leaf, ItemTo) /\ job' = Goto("commit")
           /\ Quiet
  <2>1. Leaf \in Roots /\ ItemTo = Work /\ Leaf # Work /\ Work \notin DOMAIN tree
    BY <1>2, <1>5 DEF path_lexists
  <2>2. /\ Stays(tree, tree', Paths \ TreeOf(Leaf)) /\ Goes(tree, tree', Leaf, Work)
        /\ \A P : P \subseteq Roots /\ Work \notin P => NoneComes(tree, tree', P)
    BY <1>1, <1>5, <2>1, MovedStays
  <2>3. Stays(tree, tree', VisiblePaths) /\ NoneComes(tree, tree', SourcesOf(job.op))
    BY <1>1, <1>3, <2>1, <2>2, VisibleFacts, StaysLess, JobPlaces
  <2>4. SameBook(job, job') /\ SameWork(job, job') /\ job'.pc = "commit" /\ job'.pc \in CopyPCs
    BY <1>1, <1>5, GotoBook DEF CopyPCs
  <2>5. SourceOf(job') = Source /\ WorkOf(job') = Work
    <3>1. WorkOf(job') = WorkOf(job)
      BY <2>4 DEF WorkOf, StagingOf, SameBook, SameWork
    <3> QED BY <1>1, <2>4, <3>1, BookSame
  <2>6. ASSUME ~Forgiven(job, faults), Due(job) PROVE Holds(tree', Source, Work)
    <3>1. CameTo(tree, Source, Leaf) /\ \A c \in VisibleNames : ChildOf(Source, c) \notin DOMAIN first
      BY <1>0, <1>1, <1>2, <1>5, <2>6 DEF Told, Progress, ItemOf
    <3>2. Leaf \in CleanTree(Leaf) /\ To(Leaf, Work) = Work
      BY <1>1, <2>1, RootPaths
    <3>3. CameTo(tree', Source, Work)
      BY <2>2, <3>1, <3>2 DEF CameTo, Goes
    <3> QED BY <3>1, <3>3 DEF Holds, CameTo
  <2>7. ~Forgiven(job, faults) /\ Due(job) => CopyTold(tree', job')
    BY <2>4, <2>5, <2>6 DEF CopyTold
  <2>8. UNCHANGED <<info, faults>>
    BY <1>0, <1>5 DEF Quiet, envVars
  <2> QED BY <1>0, <1>1, <2>3, <2>4, <2>7, <2>8, CopyTells DEF SameWork
<1>6. CASE /\ job.item # << >> /\ ~path_lexists(ItemTo) /\ path_lexists(Leaf) /\ tree' = Moved(Leaf, ItemTo)
           /\ job' = [job EXCEPT !.walk = @ \ {job.item[1]}, !.item = << >>, !.pc = "walk"] /\ Quiet
  <2> DEFINE c == job.item[1]
  <2>1. /\ Leaf \in Children /\ ItemTo \in Children /\ RootOf(Leaf) = Work /\ RootOf(ItemTo) = Work
        /\ ItemTo[3] = c /\ c \in VisibleNames /\ Leaf[3] = Hidden(".leaf", 0) /\ ItemTo \notin DOMAIN tree
        /\ Leaf \in DOMAIN tree
    BY <1>2, <1>6 DEF path_lexists
  <2>2. ItemTo = ChildOf(Work, c)
    <3>1. ItemTo \in Paths /\ ItemTo \notin Roots
      BY <2>1, RootsAndChildren DEF Paths
    <3>2. ItemTo = ChildOf(RootOf(ItemTo), ItemTo[3])
      BY <3>1, PathIs
    <3> HIDE DEF c
    <3> QED BY <2>1, <3>2
  <2>3. /\ DOMAIN tree' = (DOMAIN tree \ {Leaf}) \cup {ItemTo} /\ tree'[ItemTo] = tree[Leaf]
        /\ \A q \in DOMAIN tree \ {Leaf} : tree'[q] = tree[q]
    <3>1. tree' = Moved(Leaf, ItemTo) /\ FileTree(tree) /\ RootOf(Leaf) = RootOf(ItemTo)
      BY <1>1, <1>6, <2>1
    <3>2. /\ DOMAIN Moved(Leaf, ItemTo) = (DOMAIN tree \ {Leaf}) \cup {ItemTo}
          /\ Moved(Leaf, ItemTo)[ItemTo] = tree[Leaf]
          /\ \A q \in DOMAIN tree \ {Leaf} : Moved(Leaf, ItemTo)[q] = tree[q]
      BY <2>1, <3>1, MovedChild
    <3> QED BY <3>1, <3>2, Zenon
  <2>4. Stays(tree, tree', Paths \ {Leaf}) /\ NoneComes(tree, tree', SourcesOf(job.op))
    <3>1. ItemTo \notin SourcesOf(job.op)
      BY <1>1, <2>1, JobPlaces, RootsAndChildren
    <3> QED BY <2>3, <3>1 DEF Stays, NoneComes
  <2>5. Stays(tree, tree', VisiblePaths)
    BY <1>3, <2>4, VisibleFacts, StaysLess
  <2>6. /\ SameBook(job, job') /\ job'.pc = "walk" /\ job'.target = job.target /\ job'.how = job.how
        /\ job'.walk = job.walk \ {c}
    BY <1>1, <1>6 DEF SameBook, JobFields
  <2>7. SourceOf(job') = Source /\ WorkOf(job') = Work
    <3>1. WorkOf(job') = WorkOf(job)
      BY <2>6 DEF WorkOf, StagingOf, SameBook
    <3> QED BY <1>1, <2>6, <3>1, BookSame
  <2>8. ItemOf(job) = ChildOf(Source, c)
    BY <1>1, <1>6 DEF ItemOf, ChildOf
  <2> HIDE DEF c
  <2>9. ASSUME ~Forgiven(job, faults), Due(job) PROVE CopiedBut(tree', job', job'.walk)
    <3>1. CameTo(tree, ChildOf(Source, c), Leaf) /\ CopiedBut(tree, job, job.walk)
      BY <1>0, <1>1, <1>2, <1>6, <2>8, <2>9 DEF Told, Progress
    <3>2. CameTo(tree', ChildOf(Source, c), ChildOf(Work, c))
      BY <2>2, <2>3, <3>1 DEF CameTo
    <3>3. CameTo(tree', Source, Work)
      <4>1. Work \in Paths \ {Leaf}
        BY <1>1, <2>1, RootPaths
      <4> QED BY <1>1, <2>4, <3>1, <4>1, CameToStays DEF CopiedBut
    <3>4. ASSUME NEW d \in VisibleNames, d \notin job.walk PROVE CameTo(tree', ChildOf(Source, d), ChildOf(Work, d))
      <4>1. ChildOf(Work, d) \in Paths /\ ChildOf(Work, d)[3] = d
        BY <1>1, ChildPaths, NameFacts
      <4>2. Hidden(".leaf", 0) \notin VisibleNames
        BY NameFacts DEF HiddenTags
      <4>3. ChildOf(Work, d) \in Paths \ {Leaf}
        BY <2>1, <4>1, <4>2
      <4>4. CameTo(tree, ChildOf(Source, d), ChildOf(Work, d))
        BY <1>1, <3>1, <3>4 DEF CopiedBut
      <4> QED BY <2>4, <4>3, <4>4, CameToStays
    <3> QED BY <2>6, <2>7, <3>2, <3>3, <3>4 DEF CopiedBut
  <2>10. ~Forgiven(job, faults) /\ Due(job) => CopyTold(tree', job')
    BY <2>6, <2>9 DEF CopyTold
  <2>11. job'.pc \in CopyPCs
    BY <2>6 DEF CopyPCs
  <2>12. UNCHANGED <<info, faults>>
    BY <1>0, <1>6 DEF Quiet, envVars
  <2> QED BY <1>0, <1>1, <2>4, <2>5, <2>6, <2>10, <2>11, <2>12, CopyTells
<1>7. \/ Cleared(Leaf) /\ \E e : job' = CopyFails(e)
      \/ /\ job.item = << >> /\ ~path_lexists(ItemTo) /\ tree' = Moved(Leaf, ItemTo) /\ job' = Goto("commit")
         /\ Quiet
      \/ /\ job.item # << >> /\ ~path_lexists(ItemTo) /\ path_lexists(Leaf) /\ tree' = Moved(Leaf, ItemTo)
         /\ job' = [job EXCEPT !.walk = @ \ {job.item[1]}, !.item = << >>, !.pc = "walk"] /\ Quiet
  BY Zenon DEF PlaceLeaf
<1> QED BY <1>4, <1>5, <1>6, <1>7

LEMMA SealTells ==
  ASSUME JobsInv, JobsTold, foreign = 0, Seal
  PROVE  Says(tree', job', info', faults')
<1>0. job.pc = "walk" /\ job.walk = {} /\ Idle /\ UNCHANGED <<info, faults>> /\ job.pc \in {"copy"} \cup StagePCs
  BY DEF Seal, AtPC, Keep, Quiet, fsVars, envVars, StagePCs, CopyPCs, Idle
<1>1. /\ DOMAIN job = JobFields /\ Source = SourceOf(job) /\ Source \in DOMAIN tree
      /\ Told(tree, job, info, faults)
  BY <1>0, InTheCopy DEF Told, Gone, CopyPCs
<1>2. CASE job' = CopyFails("io")
  BY <1>0, <1>2, FailsAsIs
<1>3. CASE job' = Goto("commit")
  <2>1. SameBook(job, job') /\ SameWork(job, job') /\ job'.pc = "commit" /\ job'.pc \in CopyPCs
    BY <1>1, <1>3, GotoBook DEF CopyPCs
  <2>2. SourceOf(job') = SourceOf(job) /\ WorkOf(job') = WorkOf(job)
    BY <2>1, BookSame DEF WorkOf, StagingOf, SameBook, SameWork
  <2>3. ~Forgiven(job, faults) /\ Due(job) => CopyTold(tree', job')
    <3>1. ~Forgiven(job, faults) /\ Due(job) => CopiedBut(tree, job, {})
      BY <1>0, <1>1 DEF Told, Progress
    <3> QED BY <1>0, <2>1, <2>2, <3>1 DEF CopyTold, CopiedBut, Holds, Idle
  <2>4. Stays(tree, tree', VisiblePaths) /\ NoneComes(tree, tree', SourcesOf(job.op))
    BY <1>0 DEF Stays, NoneComes, Idle
  <2> QED BY <1>0, <1>1, <2>1, <2>3, <2>4, CopyTells DEF SameWork
<1> QED BY <1>2, <1>3 DEF Seal

\* Nothing of the staging tree is visible.
LEMMA StagingApart ==
  ASSUME JobsInv, job.pc \in {"copy"} \cup StagePCs
  PROVE  /\ VisiblePaths \subseteq Paths \ TreeOf(Staging)
         /\ Staging \in Roots /\ Staging # job.target /\ job.target \in Roots /\ job.target \notin SourcesOf(job.op)
         /\ SourcesOf(job.op) \subseteq Roots /\ Staging \notin SourcesOf(job.op)
         /\ job.how # "merge" => Work = Staging
         /\ job.how = "merge" => Work = job.target
<1>1. /\ Staging = StagingOf(job) /\ Staging \in Roots /\ Staging # job.target /\ job.target \in Roots
      /\ job.target \notin SourcesOf(job.op) /\ Staging \notin SourcesOf(job.op) /\ Work = WorkOf(job) /\ job.op \in Ops
  BY InCopy
<1>2. Staging[2] \notin VisibleNames
  BY <1>1, HiddenRoots
<1>3. ASSUME NEW q \in VisiblePaths PROVE q \in Paths \ TreeOf(Staging)
  <2>1. q \in Paths /\ q[2] \in VisibleNames
    BY VisibleFacts
  <2> QED BY <1>1, <1>2, <2>1, TreesApart
<1>4. SourcesOf(job.op) \subseteq Roots
  BY <1>1, JobPlaces
<1> QED BY <1>1, <1>3, <1>4 DEF WorkOf

\* The staging tree is renamed to its place.
LEMMA StagingMoves ==
  ASSUME JobsInv, job.pc \in StagePCs, job.how # "merge", job.target \notin DOMAIN tree, FileTree(tree),
         Source \in Roots
  PROVE  LET u == Moved(Staging, job.target) IN
         /\ Stays(tree, u, VisiblePaths) /\ NoneComes(tree, u, SourcesOf(job.op))
         /\ Holds(tree, Source, Work) => Holds(u, Source, job.target)
<1> DEFINE u == Moved(Staging, job.target)
<1>1. /\ VisiblePaths \subseteq Paths \ TreeOf(Staging) /\ SourcesOf(job.op) \subseteq Roots
      /\ Staging \in Roots /\ Staging # job.target /\ job.target \in Roots /\ job.target \notin SourcesOf(job.op)
      /\ Work = Staging
  BY StagingApart
<1>2. /\ Stays(tree, u, Paths \ TreeOf(Staging)) /\ Goes(tree, u, Staging, job.target)
      /\ \A P : P \subseteq Roots /\ job.target \notin P => NoneComes(tree, u, P)
  BY <1>1, MovedStays
<1> HIDE DEF u
<1>3. Stays(tree, u, VisiblePaths)
  BY <1>1, <1>2, StaysLess
<1>4. NoneComes(tree, u, SourcesOf(job.op))
  BY <1>1, <1>2
<1>5. Holds(tree, Source, Work) => Holds(u, Source, job.target)
  BY <1>1, <1>2, HoldsGoes
<1> QED BY <1>3, <1>4, <1>5 DEF u

\* It is removed.
LEMMA StagingLeaves ==
  ASSUME JobsInv, job.pc \in StagePCs, FileTree(tree)
  PROVE  LET u == Without(Staging) IN Stays(tree, u, VisiblePaths) /\ NoneComes(tree, u, SourcesOf(job.op))
<1> DEFINE u == Without(Staging)
<1>1. VisiblePaths \subseteq Paths \ TreeOf(Staging) /\ Staging \in Roots /\ Staging \in Paths
  BY StagingApart, RootPaths
<1>2. Stays(tree, u, Paths \ TreeOf(Staging)) /\ NoneComes(tree, u, SourcesOf(job.op))
  BY <1>1, WithoutStays
<1> HIDE DEF u
<1>3. Stays(tree, u, VisiblePaths)
  BY <1>1, <1>2, StaysLess
<1> QED BY <1>2, <1>3 DEF u

\* The copy is complete: what was copied is done, what was moved or restored is removed.
LEMMA CopiedTells ==
  ASSUME JobsInv, JobsTold, foreign = 0, job.pc \in {"commit", "place", "discard"}, UNCHANGED <<info, faults>>,
         job' = Copied(job), Stays(tree, tree', VisiblePaths), NoneComes(tree, tree', SourcesOf(job.op)),
         ~Forgiven(job, faults) /\ Due(job) => Holds(tree', Source, job.target)
  PROVE  Says(tree', job', info', faults')
<1>0. job.pc \in {"copy"} \cup StagePCs
  BY DEF StagePCs, CopyPCs
<1>1. /\ Told(tree, job, info, faults) /\ faults \in Nat /\ faults <= faults /\ JobFits(job) /\ DOMAIN job = JobFields
      /\ job.i \in DOMAIN job.sources /\ job.op \in {"copy", "move", "restore"} /\ job.op \notin Deletions
      /\ job.pc \notin {"prepare", "validate"} /\ ~TakenApart(job) /\ HasTarget(job)
      /\ Source = SourceOf(job) /\ Source \in SourcesOf(job.op) /\ Source \in Roots
      /\ CleanTree(Source) \subseteq VisiblePaths /\ Source \in CleanTree(Source)
  BY <1>0, InTheCopy
<1>2. Source \in DOMAIN tree' /\ Stays(tree, tree', Region(job))
  <2>1. Source \in DOMAIN tree
    BY <1>1 DEF Told, Gone, CopyPCs
  <2>2. Stays(tree, tree', Region(job))
    BY StaysLess DEF Region
  <2> QED BY <1>1, <2>1, <2>2 DEF Stays
<1>3. Base(job.target) = Base(Source) /\ \A p \in info' : p[1] = "trash"
  BY <1>1 DEF Told, Named, Gone
<1>4. ~Forgiven(job, faults) /\ Due(job) => Holds(tree', Source, Source)
  BY <1>0, <1>1, SourceHolds, HoldsStays
<1>5. CASE job.op = "copy"
  <2>1. job' = NextSource(Affect(job, job.target))
    BY <1>5 DEF Copied
  <2>2. DoneWith(job, job', job.target) /\ job'.issues = job.issues
    BY <1>1, <2>1, DoneBook
  <2>3. Due(job) /\ ~Forgiven(job, faults)
    BY <1>5 DEF Due, Forgiven
  <2>4. Told(tree', job', info', faults)
    BY <1>1, <1>2, <1>3, <1>4, <1>5, <2>2, <2>3, DoesOn DEF DoneWith
  <2> QED BY <2>2, <2>4, ToldSays DEF DoneWith
<1>6. CASE job.op # "copy"
  <2>1. job' = Goto("remove")
    BY <1>6 DEF Copied, Goto
  <2>2. SameBook(job, job') /\ SameWork(job, job') /\ job'.pc = "remove"
    BY <1>1, <2>1, GotoBook
  <2>3. SourceOf(job') = Source /\ job'.op = job.op /\ job'.target = job.target /\ job'.replace = job.replace
        /\ Done(job') = Done(job)
    BY <1>1, <2>2, BookSame DEF SameBook, SameWork
  <2>4. Named(job')
    BY <1>1, <2>1, GotoNamed DEF Told
  <2>5. ASSUME ~Forgiven(job, faults) PROVE Fine(tree', job', Source) \/ TakenApart(job')
    <3>1. CASE job.op = "restore"
      <4>1. Fine(tree, job, Source)
        BY <1>1, <2>5, InRegion DEF Told, SourcesFine
      <4>2. CleanTree(Origin(Source)) \subseteq VisiblePaths
        BY <1>1, <3>1, BookPaths
      <4> QED BY <1>1, <2>3, <4>1, <4>2, FineStays
    <3>2. CASE job.op # "restore"
      BY <2>2, <2>3, <3>2 DEF TakenApart
    <3> QED BY <3>1, <3>2
  <2>6. ~Forgiven(job, faults) /\ Due(job) => Progress(tree', job')
    BY <1>4, <2>2, <2>3 DEF Progress
  <2>7. Told(tree', job', info, faults)
    BY <1>1, <1>2, <2>2, <2>4, <2>5, <2>6, GoesOn DEF CopyPCs
  <2> QED BY <2>2, <2>7, ToldSays
<1> QED BY <1>5, <1>6

\* From one place of the commit to another.
LEMMA CommitGoesOn ==
  ASSUME JobsInv, JobsTold, foreign = 0, job.pc \in {"commit", "exchange", "place"}, Idle,
         NEW l \in {"commit", "exchange", "place"}, job' = Goto(l)
  PROVE  Says(tree', job', info', faults')
<1>0. job.pc \in {"copy"} \cup StagePCs /\ job.pc \in CopyPCs /\ l \in CopyPCs
  BY DEF StagePCs, CopyPCs
<1>1. Told(tree, job, info, faults) /\ DOMAIN job = JobFields /\ Source = SourceOf(job)
  BY <1>0, InTheCopy
<1>2. SameBook(job, job') /\ SameWork(job, job') /\ job'.pc = l
  BY <1>1, GotoBook
<1>3. SourceOf(job') = Source /\ WorkOf(job') = WorkOf(job)
  <2>1. WorkOf(job') = WorkOf(job)
    BY <1>2 DEF WorkOf, StagingOf, SameBook, SameWork
  <2> QED BY <1>1, <1>2, <2>1, BookSame
<1>4. Source \in DOMAIN tree
  BY <1>0, <1>1 DEF Told, Gone
<1>5. tree' = tree /\ UNCHANGED <<info, faults>>
  BY DEF Idle
<1>6. Stays(tree, tree', VisiblePaths) /\ NoneComes(tree, tree', SourcesOf(job.op))
  BY <1>5 DEF Stays, NoneComes
<1>7. ~Forgiven(job, faults) /\ Due(job) => Holds(tree, Source, WorkOf(job))
  BY <1>1 DEF Told, Progress
<1>8. ~Forgiven(job, faults) /\ Due(job) => CopyTold(tree', job')
  BY <1>2, <1>3, <1>5, <1>7 DEF CopyTold
<1> QED BY <1>0, <1>2, <1>4, <1>5, <1>6, <1>8, CopyTells DEF SameWork

LEMMA CommitTells ==
  ASSUME JobsInv, JobsTold, foreign = 0, Commit
  PROVE  Says(tree', job', info', faults')
<1>0. job.pc = "commit" /\ UNCHANGED <<info, faults>> /\ job.pc \in {"copy"} \cup StagePCs /\ job.pc \in StagePCs
  BY DEF Commit, AtPC, Quiet, envVars, StagePCs, CopyPCs
<1>1. Told(tree, job, info, faults) /\ Source = SourceOf(job) /\ Source \in Roots /\ Work = WorkOf(job) /\ FileTree(tree)
  BY <1>0, InTheCopy
<1>2. ~Forgiven(job, faults) /\ Due(job) => Holds(tree, Source, Work)
  BY <1>0, <1>1 DEF Told, Progress
<1>3. CASE job.how = "merge" /\ job' = Copied(job) /\ UNCHANGED tree
  <2>1. Work = job.target
    BY <1>0, <1>3, StagingApart
  <2>2. Stays(tree, tree', VisiblePaths) /\ NoneComes(tree, tree', SourcesOf(job.op))
    BY <1>3 DEF Stays, NoneComes
  <2>3. ~Forgiven(job, faults) /\ Due(job) => Holds(tree', Source, job.target)
    BY <1>2, <1>3, <2>1
  <2> QED BY <1>0, <1>3, <2>2, <2>3, CopiedTells
<1>4. CASE CopyFail("exists")
  BY <1>0, <1>4, FailsAsIs DEF CopyFail, Idle
<1>5. CASE /\ job.how = "plain" /\ ~path_lexists(job.target) /\ tree' = Moved(Staging, job.target) /\ job' = Copied(job)
  <2>1. job.target \notin DOMAIN tree /\ job.how # "merge"
    BY <1>5 DEF path_lexists
  <2>2. /\ Stays(tree, tree', VisiblePaths) /\ NoneComes(tree, tree', SourcesOf(job.op))
        /\ Holds(tree, Source, Work) => Holds(tree', Source, job.target)
    BY <1>0, <1>1, <1>5, <2>1, StagingMoves
  <2> QED BY <1>0, <1>2, <1>5, <2>2, CopiedTells
<1>6. CASE (job' = Goto("exchange") \/ job' = Goto("place")) /\ UNCHANGED tree
  BY <1>0, <1>6, CommitGoesOn DEF Idle
<1> QED BY <1>3, <1>4, <1>5, <1>6, Zenon DEF Commit

LEMMA PlaceTells ==
  ASSUME JobsInv, JobsTold, foreign = 0, Place
  PROVE  Says(tree', job', info', faults')
<1>0. job.pc = "place" /\ UNCHANGED <<info, faults>> /\ job.pc \in {"copy"} \cup StagePCs /\ job.pc \in StagePCs
  BY DEF Place, AtPC, Quiet, envVars, StagePCs, CopyPCs
<1>1. Told(tree, job, info, faults) /\ Source = SourceOf(job) /\ Source \in Roots /\ Work = WorkOf(job) /\ FileTree(tree)
      /\ JobStands(job)
  BY <1>0, InTheCopy
<1>2. ~Forgiven(job, faults) /\ Due(job) => Holds(tree, Source, Work)
  BY <1>0, <1>1 DEF Told, Progress
<1>3. CASE job' = Goto("commit") /\ UNCHANGED tree
  BY <1>0, <1>3, CommitGoesOn DEF Idle
<1>4. CASE ~path_lexists(job.target) /\ tree' = Moved(Staging, job.target) /\ job' = Copied(job)
  <2>1. job.target \notin DOMAIN tree /\ job.how # "merge"
    BY <1>0, <1>1, <1>4 DEF path_lexists, JobStands
  <2>2. /\ Stays(tree, tree', VisiblePaths) /\ NoneComes(tree, tree', SourcesOf(job.op))
        /\ Holds(tree, Source, Work) => Holds(tree', Source, job.target)
    BY <1>0, <1>1, <1>4, <2>1, StagingMoves
  <2> QED BY <1>0, <1>2, <1>4, <2>2, CopiedTells
<1> QED BY <1>3, <1>4, Zenon DEF Place

LEMMA DiscardTells ==
  ASSUME JobsInv, JobsTold, foreign = 0, Discard
  PROVE  Says(tree', job', info', faults')
<1>0. /\ job.pc = "discard" /\ UNCHANGED <<info, faults>> /\ job.pc \in {"copy"} \cup StagePCs /\ job.pc \in StagePCs
      /\ tree' = Without(Staging) /\ job' = Copied(job)
  BY DEF Discard, AtPC, Quiet, envVars, StagePCs, CopyPCs
<1>1. /\ Told(tree, job, info, faults) /\ Source = SourceOf(job) /\ job.target \in Roots /\ FileTree(tree)
      /\ CleanTree(job.target) \subseteq VisiblePaths
  BY <1>0, InTheCopy
<1>2. Stays(tree, tree', VisiblePaths) /\ NoneComes(tree, tree', SourcesOf(job.op))
  BY <1>0, <1>1, StagingLeaves
<1>3. ~Forgiven(job, faults) /\ Due(job) => Holds(tree, Source, job.target)
  BY <1>0, <1>1 DEF Told, Progress
<1>4. ~Forgiven(job, faults) /\ Due(job) => Holds(tree', Source, job.target)
  BY <1>1, <1>2, <1>3, HoldsStays
<1> QED BY <1>0, <1>2, <1>4, CopiedTells

LEMMA CleanUpTells ==
  ASSUME JobsInv, JobsTold, foreign = 0, CleanUp
  PROVE  Says(tree', job', info', faults')
<1>0. job.pc = "cleanup" /\ info' = info /\ job.pc \in {"copy"} \cup StagePCs /\ job.pc \in StagePCs
  BY DEF CleanUp, AtPC, StagePCs
<1>1. /\ faults \in Nat /\ FileTree(tree) /\ DOMAIN job = JobFields /\ ~TakenApart(job) /\ HasTarget(job)
      /\ JobFits(job) /\ job.i \in DOMAIN job.sources /\ job.pc \notin {"prepare", "validate"} /\ job.op \notin Deletions
  BY <1>0, InTheCopy
<1>2. /\ Stays(tree, tree', VisiblePaths) /\ NoneComes(tree, tree', SourcesOf(job.op))
      /\ faults' \in Nat /\ faults <= faults'
  <2>1. (UNCHANGED tree /\ Quiet) \/ Cleared(Staging)
    BY Zenon DEF CleanUp
  <2>2. CASE UNCHANGED tree /\ Quiet
    BY <1>1, <2>2 DEF Stays, NoneComes, Quiet, envVars
  <2>3. CASE Cleared(Staging)
    <3>1. tree' = Without(Staging) /\ faults' \in Nat /\ faults <= faults'
      BY <1>1, <2>3, ClearedFaults
    <3> QED BY <1>0, <1>1, <3>1, StagingLeaves
  <2> QED BY <2>1, <2>2, <2>3
<1>3. Told(tree', job, info, faults')
  <2>1. SameBook(job, job) /\ CopyTold(tree', job) /\ job.pc \notin CopyPCs \cup {"discard"}
    BY <1>0 DEF SameBook, CopyTold, CopyPCs
  <2> QED BY <1>0, <1>1, <1>2, <2>1, CopyGoesOn
<1>4. CASE job' = Outcome(job, "Cancelled")
  <2>1. Ended(tree', job', info, faults') /\ job'.pc = "ended"
    BY <1>1, <1>2, <1>3, <1>4, EndsEarly, OutcomeBook
  <2> QED BY <1>0, <2>1, EndedSays
<1>5. CASE job' = Prompt(job.error, "transfer")
  <2>1. SameBook(job, job') /\ job'.pc = "error" /\ job'.stage = "transfer"
    BY <1>1, <1>5, PromptBook
  <2>2. Calm(job') /\ ~Removing(job') /\ ~HasTarget(job')
    BY <2>1 DEF Calm, Removing, RemovePCs, HasTarget, StagePCs, CopyPCs
  <2>3. Named(job')
    BY <1>1, <1>3, <1>5, <2>2, PromptNamed DEF Told
  <2>4. Progress(tree', job')
    BY <2>1, <2>2, CalmProgress
  <2>5. Told(tree', job', info, faults')
    BY <1>1, <1>2, <1>3, <2>1, <2>2, <2>3, <2>4, GoesIdle
  <2> QED BY <1>0, <2>1, <2>5, ToldSays
<1> QED BY <1>4, <1>5, Zenon DEF CleanUp

\* After the exchange: what was kept for the sources that had the same target.
LEMMA ExchangeTells ==
  ASSUME JobsInv, JobsTold, foreign = 0, Exchange
  PROVE  Says(tree', job', info', faults')
<1>0. job.pc = "exchange" /\ UNCHANGED <<info, faults>> /\ job.pc \in {"copy"} \cup StagePCs /\ job.pc \in StagePCs
  BY DEF Exchange, AtPC, envVars, StagePCs, CopyPCs
<1>1. CASE job' = Goto("place") /\ UNCHANGED tree
  BY <1>0, <1>1, CommitGoesOn DEF Idle
<1>2. CASE tree' = Exchanged(Staging, job.target) /\ job' = Goto("discard")
  <2>1. /\ Told(tree, job, info, faults) /\ faults \in Nat /\ JobFits(job) /\ FileTree(tree) /\ DOMAIN job = JobFields
        /\ job.i \in DOMAIN job.sources /\ job.op \in {"copy", "move", "restore"} /\ job.op \notin Deletions
        /\ ~TakenApart(job) /\ HasTarget(job) /\ job.pc \notin {"prepare", "validate"}
        /\ Source = SourceOf(job) /\ Source \in SourcesOf(job.op) /\ Source \in Roots /\ Source \in CleanTree(Source)
        /\ job.target \in TargetsOf(job.op) /\ job.target \in Roots /\ Work = WorkOf(job) /\ JobStands(job)
    BY <1>0, InTheCopy
  <2>2. job.how = "replace" /\ job.how # "merge" /\ (job.op = "restore" => job.replace)
    BY <1>0, <2>1 DEF JobStands, Told, Named
  <2>3. /\ VisiblePaths \subseteq Paths \ TreeOf(Staging) /\ Staging \in Roots /\ Staging # job.target
        /\ job.target \notin SourcesOf(job.op) /\ SourcesOf(job.op) \subseteq Roots /\ Work = Staging
        /\ Staging \notin SourcesOf(job.op)
    BY <1>0, <2>2, StagingApart
  <2> DEFINE V == VisiblePaths \ TreeOf(job.target)
  <2>4. Stays(tree, tree', V) /\ NoneComes(tree, tree', SourcesOf(job.op)) /\ Goes(tree, tree', Staging, job.target)
    <3>1. /\ Stays(tree, tree', Paths \ (TreeOf(Staging) \cup TreeOf(job.target))) /\ Goes(tree, tree', Staging, job.target)
          /\ NoneComes(tree, tree', SourcesOf(job.op))
      BY <1>2, <2>1, <2>3, ExchangedStays
    <3>2. V \subseteq Paths \ (TreeOf(Staging) \cup TreeOf(job.target))
      BY <2>3
    <3> HIDE DEF V
    <3> QED BY <3>1, <3>2, StaysLess
  <2>5. \A p \in SourcesOf(job.op) \cup TargetsOf(job.op) : p # job.target => p \in Roots /\ CleanTree(p) \subseteq V
    <3> SUFFICES ASSUME NEW p \in SourcesOf(job.op) \cup TargetsOf(job.op), p # job.target
                 PROVE  p \in Roots /\ CleanTree(p) \subseteq V
      OBVIOUS
    <3>1. p \in Roots /\ CleanTree(p) \subseteq VisiblePaths
      BY <2>1, BookPaths
    <3>2. CleanTree(p) \cap TreeOf(job.target) = {}
      BY DEF CleanTree, TreeOf
    <3> QED BY <3>1, <3>2
  <2> HIDE DEF V
  <2>6. /\ SameBook(job, job') /\ SameWork(job, job') /\ job'.pc = "discard"
    BY <1>2, <2>1, GotoBook
  <2>7. /\ SourceOf(job') = Source /\ Done(job') = Done(job) /\ job'.target = job.target /\ (Due(job') <=> Due(job))
        /\ (\A h : Forgiven(job', h) <=> Forgiven(job, h)) /\ \A s : OneOver(job', s) <=> OneOver(job, s)
    BY <2>1, <2>6, BookSame DEF SameWork
  <2>8. /\ job'.op = job.op /\ job'.sources = job.sources /\ job'.replace = job.replace /\ job'.i = job.i
        /\ job'.affected = job.affected /\ job'.skipped = job.skipped /\ job'.issues = job.issues
    BY <2>6 DEF SameBook
  <2>9. Source # job.target /\ Source \in DOMAIN tree /\ Source \in DOMAIN tree'
    <3>1. Source # job.target /\ Source \in V
      BY <2>1, <2>3, <2>5
    <3>2. Source \in DOMAIN tree
      BY <1>0, <2>1 DEF Told, Gone, CopyPCs
    <3> QED BY <2>4, <3>1, <3>2 DEF Stays
  <2>10. Booked(job')
    BY <1>0, <2>1, <2>6, <2>7, <2>8 DEF Told, Booked
  <2>11. Named(job')
    BY <1>2, <2>1, GotoNamed DEF Told
  <2>12. Gone(tree', job', info)
    <3>1. \A s \in Done(job') : job'.op # "copy" /\ (job'.op = "move" => s \notin job'.issues) => s \notin DOMAIN tree'
      BY <2>1, <2>4, <2>7, <2>8, StaysGone DEF Told, Gone
    <3>2. (\A p \in info : p[1] = "trash") /\ (job'.op = "restore" => Done(job') \cap info = {})
      BY <2>1, <2>7, <2>8 DEF Told, Gone
    <3> QED BY <2>6, <2>7, <2>9, <3>1, <3>2 DEF Gone
  <2>13. ASSUME ~Forgiven(job, faults) PROVE SourcesFine(tree', job')
    <3> SUFFICES ASSUME NEW s \in ToSet(job.sources) PROVE Fine(tree', job', s)
      BY <2>8 DEF SourcesFine
    <3>1. Fine(tree, job, s) /\ s \in SourcesOf(job.op)
      BY <2>1, <2>13, BookPaths DEF Told, SourcesFine
    <3>2. s # job.target /\ s \in Roots /\ CleanTree(s) \subseteq V
      BY <2>3, <2>5, <3>1
    <3>3. Holds(tree, s, s) => Holds(tree', s, s)
      BY <2>4, <3>2, HoldsStays
    <3> QED BY <2>2, <2>7, <2>8, <3>1, <3>3 DEF Fine
  <2>14. ASSUME ~Forgiven(job, faults), Due(job)
         PROVE  Holds(tree', Source, job.target) /\ Holds(tree', Source, Source)
    <3>1. Holds(tree, Source, Staging)
      BY <1>0, <2>1, <2>3, <2>14 DEF Told, Progress
    <3>2. Holds(tree, Source, Source)
      BY <1>0, <2>14, SourceHolds
    <3>3. CleanTree(Source) \subseteq V
      BY <2>1, <2>5, <2>9
    <3> QED BY <2>1, <2>3, <2>4, <3>1, <3>2, <3>3, HoldsGoes, HoldsStays
  <2>15. ASSUME ~Forgiven(job, faults) PROVE TargetsWhole(tree', job')
    <3> SUFFICES ASSUME NEW n \in DOMAIN job.affected, ~OneOver(job, job.affected[n].source)
                 PROVE  Holds(tree', job.affected[n].source, job.affected[n].target)
      BY <2>7, <2>8 DEF TargetsWhole
    <3> DEFINE a == job.affected[n]
    <3>1. /\ a.source \in SourcesOf(job.op) /\ a.target \in TargetsOf(job.op) /\ a.source \in Done(job)
          /\ Base(a.target) = Base(a.source)
      <4>1. a.source \in Done(job)
        BY DEF Done
      <4> QED BY <2>1, <4>1, BookPaths DEF Told, Named
    <3>2. CASE a.target # job.target
      <4>1. Holds(tree, a.source, a.target)
        BY <2>1, <2>15 DEF Told, TargetsWhole
      <4> QED BY <2>4, <2>5, <3>1, <3>2, <4>1, HoldsStays
    <3>3. CASE a.target = job.target
      <4>1. Base(a.source) = Base(Source)
        BY <2>1, <3>1, <3>3 DEF Told, Named
      <4>2. PICK m \in DOMAIN job.sources : job.sources[m] = a.source
        <5>1. {job.sources[m] : m \in {k \in DOMAIN job.sources : k < job.i}} = job.skipped \cup Done(job)
          BY <1>0, <2>1 DEF Told, Booked
        <5> QED BY <3>1, <5>1
      <4>3. CASE job.op = "restore"
        <5>1. Source \notin Done(job)
          BY <2>1, <4>3 DEF Told, Named
        <5>2. Source # a.source /\ Source \in ToSet(job.sources)
          BY <2>1, <3>1, <5>1, InRegion
        <5> QED BY <2>2, <4>1, <4>3, <5>2 DEF OneOver
      <4>4. CASE job.op # "restore"
        <5>1. job.op \notin {"restore", "purge"}
          BY <2>1, <4>4
        <5>2. a.source[2][2] = 0 /\ Source[2][2] = 0
          BY <2>1, <4>2, <5>1 DEF Told, Booked, Source
        <5>3. a.source = Source
          <6>1. /\ a.source[1] = Source[1] /\ a.source[2] \in VisibleNames /\ Source[2] \in VisibleNames
                /\ a.source = <<a.source[1], a.source[2]>> /\ Source = <<Source[1], Source[2]>>
            BY <2>1, <3>1, JobPlaces DEF JobFits
          <6>2. a.source[2] = <<a.source[2][1], a.source[2][2]>> /\ Source[2] = <<Source[2][1], Source[2][2]>>
            BY <6>1 DEF VisibleNames, Name
          <6>3. a.source[2][1] = Source[2][1]
            BY <4>1 DEF Base
          <6> HIDE DEF a
          <6> QED BY <5>2, <6>1, <6>2, <6>3
        <5>4. job.op # "move"
          BY <2>1, <2>9, <3>1, <5>3, ListedTwice
        <5>5. Due(job)
          BY <2>1, <4>4, <5>4 DEF Due
        <5> QED BY <2>14, <2>15, <3>3, <5>3, <5>5
      <4> QED BY <4>3, <4>4
    <3> QED BY <3>2, <3>3
  <2>16. ~Forgiven(job, faults) /\ Due(job) => Progress(tree', job')
    BY <2>6, <2>7, <2>8, <2>14 DEF Progress
  <2>17. Told(tree', job', info, faults)
    BY <2>7, <2>10, <2>11, <2>12, <2>13, <2>15, <2>16 DEF Told
  <2> QED BY <1>0, <2>6, <2>17, ToldSays
<1> QED BY <1>1, <1>2, Zenon DEF Exchange

-----------------------------------------------------------------------------
(* The removal of a source.                                                *)
LEMMA InTheRemoval ==
  ASSUME JobsInv, JobsTold, foreign = 0, job.pc \in {"remove", "unlink", "removing"}
  PROVE  /\ Told(tree, job, info, faults) /\ faults \in Nat /\ JobFits(job) /\ JobStands(job) /\ FileTree(tree)
         /\ DOMAIN job = JobFields /\ job.i <= Len(job.sources) /\ job.i \in DOMAIN job.sources
         /\ job.op \in {"move", "restore"} \cup Deletions /\ job.op # "copy" /\ Removing(job)
         /\ job.pc \notin {"prepare", "validate"} /\ Working(job) /\ (job.op \notin Deletions => HasTarget(job))
         /\ Source = SourceOf(job) /\ Source \in SourcesOf(job.op) /\ Source \in Roots
         /\ Source \in CleanTree(Source) /\ DOMAIN tree \subseteq VisiblePaths
         /\ job.op \notin Deletions =>
               /\ job.target \in TargetsOf(job.op) /\ job.target \in Roots
               /\ CleanTree(job.target) \subseteq Region(job)
<1>1. /\ Removing(job) /\ job.op \in Deletions \cup Transfers /\ job.op # "copy" /\ JobFits(job)
      /\ job.i <= Len(job.sources) /\ Source = SourceOf(job) /\ Source \in SourcesOf(job.op) /\ Source \in Roots
      /\ (job.op \notin Deletions => job.target \in TargetsOf(job.op)) /\ Resting(tree, job, Held, foreign)
  BY InRemoval
<1>2. Working(job) /\ job.pc \notin {"prepare", "validate"} /\ (job.op \notin Deletions => HasTarget(job))
  <2>1. job.pc = "remove" \/ job.pc = "unlink" \/ job.pc = "removing"
    OBVIOUS
  <2>2. job.pc \notin AsidePCs \cup BackPCs \cup {"ended"} /\ job.pc \notin {"prepare", "validate"}
    BY <2>1 DEF AsidePCs, BackPCs
  <2> QED BY <1>1, <2>2 DEF HasTarget, Working
<1>3. /\ Told(tree, job, info, faults) /\ faults \in Nat /\ JobStands(job) /\ FileTree(tree)
      /\ DOMAIN job = JobFields /\ job.i \in DOMAIN job.sources
  BY <1>1, <1>2, InWork
<1>4. job.op \notin Deletions => job.target \in Roots /\ CleanTree(job.target) \subseteq Region(job)
  BY <1>1, <1>3, BookPaths, InRegion
<1>5. Source \in CleanTree(Source) /\ DOMAIN tree \subseteq VisiblePaths
  BY <1>1, RootPaths DEF Resting
<1> QED BY <1>1, <1>2, <1>3, <1>4, <1>5 DEF Transfers

\* The target of what is being removed is whole.
LEMMA TargetHolds ==
  ASSUME JobsInv, JobsTold, foreign = 0, job.pc \in {"remove", "unlink", "removing"}, job.op \notin Deletions,
         ~Forgiven(job, faults), Due(job)
  PROVE  Holds(tree, Source, job.target)
BY InTheRemoval DEF Told, Progress

\* The removal fails: what is left of the source of a restore that replaces is not
\* told of after a fault.
LEMMA RemoveFailsTells ==
  ASSUME JobsInv, JobsTold, foreign = 0, job.pc \in {"remove", "unlink", "removing"}, RemoveFails,
         UNCHANGED <<tree, info>>, faults' \in Nat, faults <= faults',
         job.op = "restore" /\ job.replace /\ job.pc = "removing" => faults' > 0
  PROVE  Says(tree', job', info', faults')
<1>1. /\ Told(tree, job, info, faults) /\ faults \in Nat /\ JobFits(job) /\ DOMAIN job = JobFields
      /\ job.i \in DOMAIN job.sources /\ job.pc \notin {"prepare", "validate"} /\ Removing(job)
      /\ (job.op \notin Deletions => HasTarget(job)) /\ Source = SourceOf(job)
  BY InTheRemoval
<1> DEFINE l == IF job.op = "restore" THEN "transfer" ELSE "remove"
<1>2. job' = Prompt("io", l)
  BY DEF RemoveFails
<1>3. (job.op = "restore" => l = "transfer") /\ (job.op # "restore" => l = "remove")
  OBVIOUS
<1> HIDE DEF l
<1>4. SameBook(job, job') /\ SameWork(job, job') /\ job'.pc = "error" /\ job'.stage = l
  BY <1>1, <1>2, PromptBook
<1>5. SourceOf(job') = Source /\ job'.op = job.op /\ job'.target = job.target /\ job'.replace = job.replace
      /\ Done(job') = Done(job)
  BY <1>1, <1>4, BookSame DEF SameBook, SameWork
<1>6. HasTarget(job') => HasTarget(job)
  BY <1>1, <1>4, <1>5 DEF HasTarget, StagePCs, CopyPCs
<1>7. Named(job')
  BY <1>1, <1>2, <1>6, PromptNamed DEF Told
<1>8. ~Forgiven(job, faults') => ~Forgiven(job, faults)
  BY <1>1 DEF Forgiven
<1>9. ASSUME ~Forgiven(job, faults') PROVE Fine(tree, job', Source) \/ TakenApart(job')
  <2>1. CASE job.op # "restore"
    BY <1>3, <1>4, <2>1 DEF TakenApart
  <2>2. CASE job.op = "restore"
    <3>1. job.op \notin Deletions /\ Due(job) /\ job.target = Origin(Source)
      BY <1>1, <2>2 DEF Deletions, Told, Named, Due
    <3>2. Holds(tree, Source, Origin(Source))
      BY <1>8, <1>9, <3>1, TargetHolds
    <3>3. CASE ~job.replace
      BY <1>5, <2>2, <3>2, <3>3 DEF Fine
    <3>4. CASE job.replace
      <4>1. job.pc \in {"remove", "unlink"}
        BY <1>9, <2>2, <3>4 DEF Forgiven
      <4>2. Holds(tree, Source, Source)
        BY <1>1, <1>8, <1>9, <2>2, <3>1, <4>1 DEF Told, Progress
      <4> QED BY <4>2 DEF Fine
    <3> QED BY <3>3, <3>4
  <2> QED BY <2>1, <2>2
<1>10. ASSUME ~Forgiven(job, faults'), Due(job) PROVE Progress(tree, job')
  <2>1. job.op \notin Deletions => Holds(tree, Source, job.target)
    BY <1>8, <1>10, TargetHolds
  <2> QED BY <1>4, <1>5, <2>1 DEF Progress, StagePCs, CopyPCs
<1>11. Stays(tree, tree, Region(job)) /\ NoneComes(tree, tree, SourcesOf(job.op))
  BY DEF Stays, NoneComes
<1>12. Told(tree, job', info, faults')
  BY <1>1, <1>4, <1>7, <1>9, <1>10, <1>11, GoesOn DEF CopyPCs
<1> QED BY <1>4, <1>12, ToldSays

\* Without a fault only what another job has done makes the removal of a restore fail.
LEMMA FailsToRemove ==
  ASSUME JobsInv, JobsTold, foreign = 0, job.pc \in {"remove", "unlink", "removing"}, RemoveFails, Idle,
         job.op = "restore" /\ job.pc = "removing" /\ ~Forgiven(job, faults) =>
            \E c \in VisibleNames : (ChildOf(Source, c) \in DOMAIN tree) # (c \in job.walk)
  PROVE  Says(tree', job', info', faults')
<1>1. Told(tree, job, info, faults) /\ faults \in Nat /\ Source = SourceOf(job) /\ (job.op \notin Deletions => HasTarget(job))
  BY InTheRemoval
<1>2. ASSUME job.op = "restore", job.replace, job.pc = "removing" PROVE faults > 0
  <2> SUFFICES ASSUME ~Forgiven(job, faults) PROVE FALSE
    BY <1>1 DEF Forgiven
  <2>1. Due(job)
    BY <1>1, <1>2 DEF Told, Named, Due, Deletions
  <2>2. \A c \in VisibleNames : ChildOf(Source, c) \in DOMAIN tree <=> c \in job.walk
    BY <1>1, <1>2, <2>1 DEF Told, Progress
  <2> QED BY <1>2, <2>2
<1>3. UNCHANGED <<tree, info>> /\ faults' = faults /\ faults <= faults
  BY <1>1 DEF Idle
<1> QED BY <1>1, <1>2, <1>3, RemoveFailsTells

\* The user cancels the removal.
LEMMA RemoveStoppedTells ==
  ASSUME JobsInv, JobsTold, foreign = 0, job.pc \in {"remove", "unlink", "removing"}, RemoveStopped, Idle,
         job.op # "restore"
  PROVE  Says(tree', job', info', faults')
<1>1. /\ Told(tree, job, info, faults) /\ faults \in Nat /\ DOMAIN job = JobFields /\ Source = SourceOf(job)
      /\ job.op \in {"move", "restore"} \cup Deletions /\ Removing(job) /\ Working(job) /\ job.i <= Len(job.sources)
  BY InTheRemoval
<1> DEFINE j == IF job.op = "move" THEN Issue(Affect(job, job.target)) ELSE Issue(job)
<1>2. job' = [Outcome(j, "Cancelled") EXCEPT !.error = "cancelled"]
  BY DEF RemoveStopped
<1>3. DOMAIN j = JobFields
  BY <1>1 DEF Issue, Affect
<1>4. (job.op = "move" => j = Issue(Affect(job, job.target))) /\ (job.op # "move" => j = Issue(job))
  OBVIOUS
<1> HIDE DEF j
<1>5. SameList(j, job') /\ job'.result = "Cancelled" /\ job'.pc = "ended" /\ job'.error = "cancelled"
  <2>1. SameList(j, Outcome(j, "Cancelled")) /\ Outcome(j, "Cancelled").pc = "ended"
        /\ Outcome(j, "Cancelled").result = "Cancelled"
    BY <1>3, OutcomeBook
  <2>2. DOMAIN Outcome(j, "Cancelled") = JobFields
    BY <1>3 DEF Outcome
  <2> HIDE DEF Outcome
  <2> QED BY <1>2, <2>1, <2>2 DEF SameList, JobFields
<1>6. CASE job.op = "move"
  <2>1. Ended(tree, job', info, faults)
    BY <1>1, <1>4, <1>5, <1>6, GivesUpAll
  <2> QED BY <1>5, <2>1, EndedSays DEF Idle
<1>7. CASE job.op \in Deletions
  <2>1. /\ j.op = job.op /\ j.sources = job.sources /\ j.affected = job.affected /\ j.replace = job.replace
        /\ j.issues = job.issues \cup {Source}
    BY <1>1, <1>4, <1>7 DEF Issue, JobFields, Deletions
  <2>2. Done(j) = Done(job) /\ (Forgiven(j, faults) <=> Forgiven(job, faults))
    BY <2>1 DEF Done, Forgiven
  <2>3. TargetsWhole(tree, j)
    BY <1>7, <2>1 DEF TargetsWhole
  <2>4. \A s \in Done(j) : j.op # "copy" /\ s \notin j.issues => s \notin DOMAIN tree
    BY <1>1, <2>1, <2>2 DEF Told, Gone
  <2>5. ~Forgiven(j, faults) => \A s \in ToSet(j.sources) : s \in j.issues \/ Fine(tree, j, s)
    BY <1>1, <2>1, <2>2 DEF Told, SourcesFine, Fine
  <2>6. Ended(tree, job', info, faults)
    BY <1>1, <1>5, <2>3, <2>4, <2>5, EndsAs
  <2> QED BY <1>5, <2>6, EndedSays DEF Idle
<1> QED BY <1>1, <1>6, <1>7

\* The source is removed.
LEMMA RemovedTells ==
  ASSUME JobsInv, JobsTold, foreign = 0, job.pc \in {"remove", "unlink", "removing"}, Removed,
         tree' = Without(Source), UNCHANGED <<info, faults>>, path_lexists(Source)
  PROVE  Says(tree', job', info', faults')
<1>1. /\ Told(tree, job, info, faults) /\ faults \in Nat /\ faults <= faults /\ JobFits(job) /\ FileTree(tree)
      /\ DOMAIN job = JobFields
      /\ job.i \in DOMAIN job.sources /\ job.op \in {"move", "restore"} \cup Deletions /\ job.op # "copy"
      /\ job.pc \notin {"prepare", "validate"} /\ (job.op \notin Deletions => HasTarget(job))
      /\ Source = SourceOf(job) /\ Source \in Roots
      /\ job.op \notin Deletions => job.target \in Roots /\ CleanTree(job.target) \subseteq Region(job)
  BY InTheRemoval
<1>2. Stays(tree, tree', Region(job)) /\ NoneComes(tree, tree', SourcesOf(job.op)) /\ Source \notin DOMAIN tree'
  <2>1. /\ Stays(tree, tree', Paths \ TreeOf(Source)) /\ Source \notin DOMAIN tree'
        /\ NoneComes(tree, tree', SourcesOf(job.op))
    BY <1>1, RootPaths, WithoutStays
  <2>2. Region(job) \subseteq Paths \ TreeOf(Source)
    BY <1>1, VisibleFacts DEF Region
  <2> QED BY <2>1, <2>2, StaysLess
<1>3. job.op \notin Deletions /\ ~Forgiven(job, faults) /\ Due(job) => Holds(tree', Source, job.target)
  BY <1>1, <1>2, TargetHolds, HoldsStays
<1>4. \A p \in info' : p[1] = "trash"
  BY <1>1 DEF Told, Gone
<1>5. CASE job.op = "move"
  <2>1. job' = NextSource(MovedTo(job, job.target)) /\ job.op \notin Deletions
    <3>1. (CASE job.op = "move"    -> NextSource(MovedTo(job, job.target))
             [] job.op = "restore" -> Goto("info")
             [] OTHER              -> NextSource(Affect(job, Source))) = NextSource(MovedTo(job, job.target))
      BY <1>5, Zenon
    <3>2. job.op \notin Deletions
      BY <1>5 DEF Deletions
    <3> QED BY <3>1, <3>2, Zenon DEF Removed
  <2>2. DoneWith(job, job', job.target) /\ job'.issues = job.issues
    BY <1>1, <2>1, DoneBook
  <2>3. ~Forgiven(job, faults) => OneOver(job', Source) \/ Holds(tree', Source, job.target)
    <3>1. CASE Source \in Done(job)
      <4>1. Source \in DOMAIN tree
        BY DEF path_lexists
      <4> QED BY <1>1, <1>5, <2>2, <3>1, <4>1, ListedTwice DEF DoneWith
    <3>2. CASE Source \notin Done(job)
      BY <1>1, <1>3, <2>1, <3>2 DEF Due
    <3> QED BY <3>1, <3>2
  <2>4. Base(job.target) = Base(Source)
    BY <1>1, <2>1 DEF Told, Named
  <2>5. Told(tree', job', info', faults)
    BY <1>1, <1>2, <1>4, <1>5, <2>1, <2>2, <2>3, <2>4, DoesOn DEF DoneWith
  <2> QED BY <2>2, <2>5, ToldSays DEF DoneWith
<1>6. CASE job.op = "restore"
  <2>1. job' = Goto("info") /\ job.op \notin Deletions
    <3>1. (CASE job.op = "move"    -> NextSource(MovedTo(job, job.target))
             [] job.op = "restore" -> Goto("info")
             [] OTHER              -> NextSource(Affect(job, Source))) = Goto("info")
      BY <1>6, Zenon
    <3>2. job.op \notin Deletions
      BY <1>6 DEF Deletions
    <3> QED BY <3>1, <3>2, Zenon DEF Removed
  <2>2. SameBook(job, job') /\ SameWork(job, job') /\ job'.pc = "info"
    BY <1>1, <2>1, GotoBook
  <2>3. SourceOf(job') = Source /\ job'.target = job.target
    BY <1>1, <2>2, BookSame DEF SameWork
  <2>4. Named(job')
    BY <1>1, <2>1, GotoNamed DEF Told
  <2>5. TakenApart(job')
    BY <2>2 DEF TakenApart
  <2>6. ~Forgiven(job, faults) /\ Due(job) => Progress(tree', job')
    BY <1>3, <2>1, <2>2, <2>3 DEF Progress, StagePCs, CopyPCs
  <2>7. Told(tree', job', info, faults)
    BY <1>1, <1>2, <2>2, <2>4, <2>5, <2>6, GoesOn DEF CopyPCs
  <2> QED BY <2>2, <2>7, ToldSays
<1>7. CASE job.op \in Deletions
  <2>1. job' = NextSource(Affect(job, Source)) /\ job.op # "restore" /\ job.op # "move"
    <3>1. job.op # "restore" /\ job.op # "move"
      BY <1>7 DEF Deletions
    <3>2. (CASE job.op = "move"    -> NextSource(MovedTo(job, job.target))
             [] job.op = "restore" -> Goto("info")
             [] OTHER              -> NextSource(Affect(job, Source))) = NextSource(Affect(job, Source))
      BY <3>1, Zenon
    <3> QED BY <3>1, <3>2, Zenon DEF Removed
  <2>2. DoneWith(job, job', Source) /\ job'.issues = job.issues
    BY <1>1, <2>1, DoneBook
  <2>3. Told(tree', job', info', faults)
    BY <1>1, <1>2, <1>4, <1>7, <2>1, <2>2, DoesOn DEF DoneWith
  <2> QED BY <2>2, <2>3, ToldSays DEF DoneWith
<1> QED BY <1>1, <1>5, <1>6, <1>7

LEMMA WalkIsBelow ==
  ASSUME FileTree(tree), NEW p \in Roots, NEW c \in AllNames
  PROVE  c \in {q[3] : q \in Below(p)} <=> ChildOf(p, c) \in DOMAIN tree
<1>1. ASSUME NEW q \in Below(p) PROVE q \in DOMAIN tree /\ q = ChildOf(p, q[3]) /\ q[3] \in AllNames
  <2>1. q \in DOMAIN tree /\ q \in TreeOf(p) /\ q # p
    BY UnderRootIs DEF Below
  <2>2. q \in Paths /\ RootOf(q) = p
    BY <2>1 DEF TreeOf
  <2>3. CASE q \in Roots /\ q = RootOf(q)
    BY <2>1, <2>2, <2>3
  <2>4. CASE q \in Children /\ q = ChildOf(RootOf(q), q[3]) /\ q[3] \in AllNames
    BY <2>1, <2>2, <2>4
  <2> QED BY <2>2, <2>3, <2>4, PathIs
<1>2. ASSUME ChildOf(p, c) \in DOMAIN tree PROVE ChildOf(p, c) \in Below(p) /\ ChildOf(p, c)[3] = c
  <2>1. ChildOf(p, c) \in Children /\ ChildOf(p, c) \in TreeOf(p) /\ ChildOf(p, c)[3] = c
    BY ChildPaths
  <2>2. ChildOf(p, c) # p
    BY <2>1, RootsAndChildren
  <2> QED BY <1>2, <2>1, <2>2, UnderRootIs DEF Below
<1> QED BY <1>1, <1>2

\* A step of the removal that leaves the target.
LEMMA RemovalGoesOn ==
  ASSUME JobsInv, JobsTold, foreign = 0, job.pc \in {"remove", "unlink", "removing"}, UNCHANGED <<info, faults>>,
         SameBook(job, job'), job'.target = job.target, job'.how = job.how, job'.pc \in {"unlink", "removing"},
         job'.pc = "unlink" => job.pc = "remove",
         Stays(tree, tree', Region(job)), NoneComes(tree, tree', SourcesOf(job.op)),
         Source \in DOMAIN tree => Source \in DOMAIN tree',
         job'.pc = "unlink" => tree' = tree,
         job.op = "restore" /\ job'.pc = "removing" /\ ~Forgiven(job, faults) =>
            \A c \in VisibleNames : ChildOf(Source, c) \in DOMAIN tree' <=> c \in job'.walk
  PROVE  Says(tree', job', info', faults')
<1>1. /\ Told(tree, job, info, faults) /\ faults \in Nat /\ faults <= faults /\ JobFits(job)
      /\ job.i \in DOMAIN job.sources /\ job.pc \notin {"prepare", "validate"}
      /\ (job.op \notin Deletions => HasTarget(job)) /\ Source = SourceOf(job) /\ Source \in Roots
      /\ job.op \notin Deletions => job.target \in Roots /\ CleanTree(job.target) \subseteq Region(job)
  BY InTheRemoval
<1>2. SourceOf(job') = Source /\ job'.op = job.op /\ job'.replace = job.replace /\ job'.affected = job.affected
      /\ Done(job') = Done(job)
  BY <1>1, BookSame DEF SameBook
<1>3. job'.pc \notin {"prepare", "validate", "info", "discard", "transfer", "error", "restore", "copy"}
      /\ job'.pc \notin StagePCs /\ job'.pc # "ended"
  BY DEF StagePCs, CopyPCs
<1>4. Named(job')
  <2>1. HasTarget(job') => job.op \notin Deletions
    BY <1>2, <1>3 DEF HasTarget
  <2>2. Named(job)
    BY <1>1 DEF Told
  <2> QED BY <1>1, <1>2, <1>3, <2>1, <2>2 DEF Named
<1>5. ASSUME ~Forgiven(job, faults) PROVE Fine(tree', job', Source) \/ TakenApart(job')
  <2>1. CASE job'.pc = "removing" \/ job.op # "restore"
    BY <1>2, <2>1 DEF TakenApart
  <2>2. CASE job'.pc = "unlink" /\ job.op = "restore"
    <3>1. job.pc = "remove" /\ ~TakenApart(job) /\ tree' = tree
      BY <2>2 DEF TakenApart
    <3>2. Fine(tree, job, Source)
      BY <1>1, <1>5, <3>1, InRegion DEF Told, SourcesFine
    <3> QED BY <1>2, <3>1, <3>2 DEF Fine
  <2> QED BY <2>1, <2>2
<1>6. ASSUME ~Forgiven(job, faults), Due(job) PROVE Progress(tree', job')
  <2>1. job.op \notin Deletions => Holds(tree', Source, job.target)
    BY <1>1, <1>6, TargetHolds, HoldsStays
  <2>2. job.op = "restore" /\ job'.pc = "unlink" => Holds(tree', Source, Source)
    BY <1>1, <1>6 DEF Told, Progress
  <2> QED BY <1>2, <1>3, <1>6, <2>1, <2>2 DEF Progress, StagePCs, CopyPCs
<1>7. job.op = "restore" => Source \in DOMAIN tree'
  BY <1>1 DEF Told, Gone
<1>8. Told(tree', job', info, faults)
  BY <1>1, <1>3, <1>4, <1>5, <1>6, <1>7, GoesOn DEF StagePCs
<1> QED BY <1>3, <1>8, ToldSays

LEMMA RemoveRootTells ==
  ASSUME JobsInv, JobsTold, foreign = 0, RemoveRoot
  PROVE  Says(tree', job', info', faults')
<1>1. job.pc = "remove" /\ Idle /\ DOMAIN job = JobFields
  <2>1. job.pc = "remove" /\ Idle
    BY DEF RemoveRoot, AtPC, Quiet, envVars, Idle
  <2> QED BY <2>1, InTheRemoval
<1>2. CASE RemoveFails
  BY <1>1, <1>2, FailsToRemove
<1>3. CASE job' = Goto("unlink")
  <2>1. SameBook(job, job') /\ SameWork(job, job') /\ job'.pc = "unlink"
    BY <1>1, <1>3, GotoBook
  <2>2. Stays(tree, tree', Region(job)) /\ NoneComes(tree, tree', SourcesOf(job.op)) /\ tree' = tree
    BY <1>1 DEF Stays, NoneComes, Idle
  <2> QED BY <1>1, <2>1, <2>2, RemovalGoesOn DEF SameWork, Idle
<1> QED BY <1>2, <1>3, Zenon DEF RemoveRoot

LEMMA UnlinkRootTells ==
  ASSUME JobsInv, JobsTold, foreign = 0, UnlinkRoot
  PROVE  Says(tree', job', info', faults')
<1>1. job.pc = "unlink" /\ UNCHANGED <<info, faults>>
  BY DEF UnlinkRoot, AtPC, Quiet, envVars
<1>2. DOMAIN job = JobFields /\ FileTree(tree) /\ Source \in Roots
  BY <1>1, InTheRemoval
<1>3. CASE job.op # "restore" /\ RemoveStopped /\ UNCHANGED tree
  BY <1>1, <1>3, RemoveStoppedTells DEF Idle
<1>4. CASE RemoveFails /\ UNCHANGED tree
  BY <1>1, <1>4, FailsToRemove DEF Idle
<1>5. CASE /\ job' = [job EXCEPT !.walk = {q[3] : q \in Below(Source)}, !.pc = "removing"] /\ UNCHANGED tree
  <2>1. /\ SameBook(job, job') /\ job'.pc = "removing" /\ job'.target = job.target /\ job'.how = job.how
        /\ job'.walk = {q[3] : q \in Below(Source)}
    BY <1>2, <1>5 DEF SameBook, JobFields
  <2>2. Stays(tree, tree', Region(job)) /\ NoneComes(tree, tree', SourcesOf(job.op)) /\ tree' = tree
    BY <1>5 DEF Stays, NoneComes
  <2>3. \A c \in VisibleNames : ChildOf(Source, c) \in DOMAIN tree' <=> c \in job'.walk
    BY <1>2, <2>1, <2>2, WalkIsBelow, NameFacts
  <2> QED BY <1>1, <2>1, <2>2, <2>3, RemovalGoesOn
<1>6. CASE path_lexists(Source) /\ Removed /\ tree' = Without(Source)
  BY <1>1, <1>6, RemovedTells
<1> QED BY <1>3, <1>4, <1>5, <1>6, Zenon DEF UnlinkRoot

LEMMA RemoveChildTells ==
  ASSUME JobsInv, JobsTold, foreign = 0, NEW c, RemoveChild(c)
  PROVE  Says(tree', job', info', faults')
<1>1. job.pc = "removing" /\ c \in job.walk /\ UNCHANGED <<info, faults>>
  BY DEF RemoveChild, AtPC, Quiet, envVars
<1>2. /\ Told(tree, job, info, faults) /\ DOMAIN job = JobFields /\ FileTree(tree) /\ Source \in Roots /\ JobStands(job)
      /\ Source = SourceOf(job) /\ (job.op \notin Deletions => HasTarget(job))
  BY <1>1, InTheRemoval
<1>3. c \in VisibleNames /\ c \in AllNames
  BY <1>1, <1>2, NameFacts DEF JobStands
<1> DEFINE p == ChildOf(Source, c)
<1>4. Append(Source, c) = p
  BY <1>2, <1>3, FrontOfPath DEF ChildOf
<1>5. p \in Children /\ p \in Paths /\ p \in TreeOf(Source) /\ p # Source
  BY <1>2, <1>3, ChildPaths, RootsAndChildren
<1> HIDE DEF p
<1>6. CASE job.op # "restore" /\ RemoveStopped /\ UNCHANGED tree
  BY <1>1, <1>6, RemoveStoppedTells DEF Idle
<1>7. CASE ~path_lexists(p) /\ RemoveFails /\ UNCHANGED tree
  <2>1. (ChildOf(Source, c) \in DOMAIN tree) # (c \in job.walk)
    BY <1>1, <1>7 DEF p, path_lexists
  <2> QED BY <1>1, <1>3, <1>7, <2>1, FailsToRemove DEF Idle
<1>8. CASE job' = [job EXCEPT !.walk = @ \ {c}] /\ tree' = Without(p)
  <2>1. /\ SameBook(job, job') /\ job'.pc = "removing" /\ job'.target = job.target /\ job'.how = job.how
        /\ job'.walk = job.walk \ {c}
    BY <1>1, <1>2, <1>8 DEF SameBook, JobFields
  <2>2. /\ Stays(tree, tree', Paths \ {p}) /\ DOMAIN tree' = DOMAIN tree \ {p}
        /\ NoneComes(tree, tree', SourcesOf(job.op))
    BY <1>2, <1>5, <1>8, WithoutStays
  <2>3. Stays(tree, tree', Region(job))
    <3>1. Region(job) \subseteq Paths \ {p}
      BY <1>2, <1>5, VisibleFacts DEF Region
    <3> QED BY <2>2, <3>1, StaysLess
  <2>4. ASSUME job.op = "restore", ~Forgiven(job, faults), NEW d \in VisibleNames
        PROVE  ChildOf(Source, d) \in DOMAIN tree' <=> d \in job'.walk
    <3>1. Due(job)
      BY <1>2, <2>4 DEF Told, Named, Due, Deletions
    <3>2. ChildOf(Source, d) \in DOMAIN tree <=> d \in job.walk
      BY <1>1, <1>2, <2>4, <3>1 DEF Told, Progress
    <3>3. ChildOf(Source, d) = p <=> d = c
      <4>1. ChildOf(Source, d)[3] = d /\ p[3] = c
        BY <1>2, <1>3, ChildPaths, NameFacts DEF p
      <4> QED BY <4>1 DEF p
    <3> QED BY <2>1, <2>2, <3>2, <3>3
  <2>5. Source \in DOMAIN tree => Source \in DOMAIN tree'
    BY <1>5, <2>2
  <2> QED BY <1>1, <2>1, <2>2, <2>3, <2>4, <2>5, RemovalGoesOn
<1>9. \/ job.op # "restore" /\ RemoveStopped /\ UNCHANGED tree
      \/ ~path_lexists(Append(Source, c)) /\ RemoveFails /\ UNCHANGED tree
      \/ job' = [job EXCEPT !.walk = @ \ {c}] /\ tree' = Without(Append(Source, c))
  BY Zenon DEF RemoveChild
<1> QED BY <1>4, <1>6, <1>7, <1>8, <1>9

LEMMA RemoveFolderTells ==
  ASSUME JobsInv, JobsTold, foreign = 0, RemoveFolder
  PROVE  Says(tree', job', info', faults')
<1>1. job.pc = "removing" /\ job.walk = {} /\ UNCHANGED <<info, faults>>
  BY DEF RemoveFolder, AtPC, Quiet, envVars
<1>2. /\ Told(tree, job, info, faults) /\ FileTree(tree) /\ Source \in Roots /\ Source = SourceOf(job)
      /\ DOMAIN tree \subseteq VisiblePaths
  BY <1>1, InTheRemoval
<1>3. CASE (~path_lexists(Source) \/ Below(Source) # {}) /\ RemoveFails /\ UNCHANGED tree
  <2>1. ASSUME job.op = "restore" PROVE \E c \in VisibleNames : (ChildOf(Source, c) \in DOMAIN tree) # (c \in job.walk)
    <3>1. path_lexists(Source)
      BY <1>1, <1>2, <2>1 DEF Told, Gone, path_lexists
    <3>2. PICK q : q \in Below(Source)
      BY <1>3, <3>1
    <3>3. q \in DOMAIN tree /\ q \in TreeOf(Source) /\ q # Source
      BY <1>2, <3>2, UnderRootIs DEF Below
    <3>4. q \in Paths /\ RootOf(q) = Source
      BY <3>3 DEF TreeOf
    <3>5. q \in Children /\ q = ChildOf(Source, q[3])
      BY <3>3, <3>4, PathIs
    <3>6. q[3] \in VisibleNames
      BY <1>2, <3>3, <3>5, VisibleFacts DEF NothingHiddenIn
    <3> QED BY <1>1, <3>3, <3>5, <3>6
  <2> QED BY <1>1, <1>3, <2>1, FailsToRemove DEF Idle
<1>4. CASE path_lexists(Source) /\ Removed /\ tree' = Without(Source)
  BY <1>1, <1>4, RemovedTells
<1> QED BY <1>3, <1>4, Zenon DEF RemoveFolder

-----------------------------------------------------------------------------
(* The other steps.                                                        *)

\* A call that fails at an error prompt.
LEMMA FaultTells ==
  ASSUME JobsInv, JobsTold, foreign = 0, job.pc \in {"trash", "restore", "info", "transfer"},
         job.op \in {"move", "trash", "restore"}, job' = Prompt("io", "transfer"), UNCHANGED <<tree, info>>,
         faults' = faults + 1
  PROVE  Says(tree', job', info', faults')
<1>1. Working(job) /\ job.pc \notin {"prepare", "validate"} /\ job.op \notin Deletions
  BY DEF Working, AsidePCs, BackPCs, Deletions
<1>2. /\ Told(tree, job, info, faults) /\ faults \in Nat /\ JobFits(job) /\ JobStands(job) /\ DOMAIN job = JobFields
      /\ SourceOf(job) = Source
  BY <1>1, InWork
<1>3. job.i <= Len(job.sources) /\ job.i \in DOMAIN job.sources
  <2>1. job.i <= Len(job.sources)
    BY <1>2 DEF JobStands, IdlePCs
  <2> QED BY <1>1, <2>1, InWork
<1>4. faults' \in Nat /\ faults <= faults' /\ faults' > 0
  BY <1>2
<1>5. SameBook(job, job') /\ job'.pc = "error" /\ job'.stage = "transfer"
  BY <1>2, PromptBook
<1>6. Calm(job') /\ ~Removing(job') /\ ~HasTarget(job') /\ ~TakenApart(job')
  BY <1>5 DEF Calm, Removing, RemovePCs, HasTarget, StagePCs, CopyPCs, TakenApart
<1>7. Named(job')
  BY <1>1, <1>2, <1>6, PromptNamed DEF Told
<1>8. \A t : Progress(t, job')
  BY <1>5, <1>6, CalmProgress
<1>9. CASE job.pc # "info"
  <2>1. ~TakenApart(job)
    BY <1>9 DEF TakenApart
  <2>2. Told(tree, job', info, faults')
    BY <1>1, <1>2, <1>3, <1>4, <1>5, <1>6, <1>7, <1>8, <2>1, GoesIdle
  <2> QED BY <1>5, <2>2, ToldSays
<1>10. CASE job.pc = "info"
  <2>1. job.op = "restore" /\ HasTarget(job)
    BY <1>2, <1>10 DEF JobStands, HasTarget
  <2>2. Due(job) /\ job.target = Origin(Source)
    BY <1>2, <2>1 DEF Told, Named, Due
  <2>3. ASSUME ~Forgiven(job, faults') PROVE Fine(tree, job', Source)
    <3>1. ~job.replace /\ ~Forgiven(job, faults)
      BY <1>4, <2>1, <2>3 DEF Forgiven
    <3>2. Holds(tree, Source, Origin(Source))
      BY <1>2, <1>10, <2>2, <3>1 DEF Told, Progress
    <3>3. job'.op = "restore" /\ ~job'.replace
      BY <1>5, <2>1, <3>1 DEF SameBook
    <3> QED BY <3>2, <3>3 DEF Fine
  <2>4. Stays(tree, tree, Region(job)) /\ NoneComes(tree, tree, SourcesOf(job.op))
    BY DEF Stays, NoneComes
  <2>5. Told(tree, job', info, faults')
    BY <1>1, <1>2, <1>3, <1>4, <1>5, <1>7, <1>8, <2>3, <2>4, GoesOn DEF CopyPCs
  <2> QED BY <1>5, <2>5, ToldSays
<1> QED BY <1>9, <1>10

LEMMA SystemFaultTells ==
  ASSUME JobsInv, JobsTold, foreign = 0, SystemFault
  PROVE  Says(tree', job', info', faults')
<1>1. faults \in Nat
  BY DEF JobsTold
<1>2. faults' = faults + 1 /\ info' = info /\ faults' \in Nat /\ faults <= faults' /\ faults' > 0
  <2>1. faults' = faults + 1 /\ info' = info
    BY DEF SystemFault, CallFails
  <2> QED BY <1>1, <2>1
<1>3. CASE job.pc \in {"copy", "walk", "commit", "exchange", "place", "discard"} /\ CopyFail("io")
  <2>1. job' = CopyFails("io") /\ tree' = tree /\ job.pc \in {"copy"} \cup StagePCs
    BY <1>3 DEF CopyFail, StagePCs, CopyPCs
  <2>2. Stays(tree, tree', VisiblePaths) /\ NoneComes(tree, tree', SourcesOf(job.op))
    BY <2>1 DEF Stays, NoneComes
  <2> QED BY <1>2, <2>1, <2>2, CopyFailTells
<1>4. CASE job.pc = "leaf" /\ job' = CopyFails("io") /\ tree' = Without(Leaf)
  <2>1. job.pc \in {"copy"} \cup StagePCs
    BY <1>4 DEF StagePCs, CopyPCs
  <2>2. Stays(tree, tree', VisiblePaths) /\ NoneComes(tree, tree', SourcesOf(job.op))
    BY <1>4, LeafAside
  <2> QED BY <1>2, <1>4, <2>1, <2>2, CopyFailTells
<1>5. CASE /\ job.pc \in {"trash", "restore", "info"} \/ (job.pc = "transfer" /\ job.op = "move")
           /\ job' = Prompt("io", "transfer") /\ UNCHANGED tree
  <2>1. JobStands(job)
    BY DEF JobsInv, Inv, JobOK
  <2>2. job.op \in {"move", "trash", "restore"} /\ job.pc \in {"trash", "restore", "info", "transfer"}
    BY <1>5, <2>1 DEF JobStands
  <2> QED BY <1>2, <1>5, <2>2, FaultTells
<1>6. CASE job.pc \in {"remove", "unlink", "removing"} /\ RemoveFails /\ UNCHANGED tree
  BY <1>2, <1>6, RemoveFailsTells
<1> QED BY <1>3, <1>4, <1>5, <1>6 DEF SystemFault, AtPC

\* Of an undo that runs, or has ended, nothing is told.
LEMMA UndoSays ==
  ASSUME JobsInv', job'.undo \notin {"none", "offered"}
  PROVE  Says(tree', job', info', faults')
<1>1. JobStands(job')
  BY DEF JobsInv, Inv, JobOK
<1>2. ~Working(job')
  BY <1>1 DEF Working, JobStands
<1> QED BY <1>2 DEF Says

LEMMA UndoTells ==
  ASSUME JobsInv, UndoNext, JobsInv'
  PROVE  Says(tree', job', info', faults')
<1>1. DOMAIN job = JobFields /\ JobStands(job)
  BY DEF JobsInv, Inv, JobOK, JobFits
<1>2. \A r : UndoEnds(r).undo = r
  BY <1>1 DEF UndoEnds, JobFields
<1>3. ASSUME job.pc \in {"quarantine", "verify", "destroy", "unquarantine", "move back", "untrash"}
      PROVE  job.undo = "running"
  <2>1. job.pc \in AsidePCs \cup BackPCs
    BY <1>3, Zenon DEF AsidePCs, BackPCs
  <2> QED BY <1>1, <2>1 DEF JobStands
<1>4. \A l, m, n, s : /\ Goto(l).undo = job.undo
                      /\ [job EXCEPT !.n = n].undo = job.undo
                      /\ [job EXCEPT !.pc = l, !.n = n].undo = job.undo
                      /\ [job EXCEPT !.n = n, !.stuck = s].undo = job.undo
  BY <1>1 DEF Goto, JobFields
<1>5. CASE Undo
  <2>1. job'.undo = "running"
    BY <1>1, <1>5 DEF Undo, JobFields
  <2> QED BY <2>1, UndoSays
<1>6. CASE MoveBack
  <2>1. job.undo = "running"
    BY <1>3, <1>6 DEF MoveBack, AtPC
  <2>2. job' = UndoEnds("done") \/ job' = UndoEnds("halfway") \/ job' = [job EXCEPT !.n = @ - 1]
    BY <1>6, Zenon DEF MoveBack, UndoStep
  <2>3. job'.undo \in {"running", "done", "halfway"}
    BY <1>2, <1>4, <2>1, <2>2
  <2> QED BY <2>3, UndoSays
<1>7. CASE Untrash
  <2>1. job.undo = "running"
    BY <1>3, <1>7 DEF Untrash, AtPC
  <2>2. job' = UndoEnds("done") \/ job' = UndoEnds("halfway") \/ job' = [job EXCEPT !.n = @ - 1]
    BY <1>7, Zenon DEF Untrash, UndoStep
  <2>3. job'.undo \in {"running", "done", "halfway"}
    BY <1>2, <1>4, <2>1, <2>2
  <2> QED BY <2>3, UndoSays
<1>8. CASE MoveAside
  <2>1. job.undo = "running"
    BY <1>3, <1>8 DEF MoveAside, AtPC
  <2>2. \/ job' = Goto("verify") \/ job' = [job EXCEPT !.n = @ + 1]
        \/ job' = [job EXCEPT !.pc = "unquarantine", !.n = @ - 1]
    BY <1>8, Zenon DEF MoveAside, UndoStep
  <2>3. job'.undo = job.undo
    <3>1. CASE job' = Goto("verify")
      BY <1>4, <3>1
    <3>2. CASE job' = [job EXCEPT !.n = @ + 1]
      BY <1>1, <3>2 DEF JobFields
    <3>3. CASE job' = [job EXCEPT !.pc = "unquarantine", !.n = @ - 1]
      BY <1>1, <3>3 DEF JobFields
    <3> QED BY <2>2, <3>1, <3>2, <3>3
  <2> QED BY <2>1, <2>3, UndoSays
<1>9. CASE Verify
  <2>1. job.undo = "running"
    BY <1>3, <1>9 DEF Verify, AtPC
  <2>2. PICK l, n : job' = [job EXCEPT !.pc = l, !.n = n]
    BY <1>9, Zenon DEF Verify, UndoStep
  <2>3. [job EXCEPT !.pc = l, !.n = n].undo = job.undo
    BY <1>1 DEF JobFields
  <2>4. job'.undo = "running"
    BY <2>1, <2>2, <2>3, Zenon
  <2> QED BY <2>4, UndoSays
<1>10. CASE Destroy
  <2>1. job.undo = "running"
    BY <1>3, <1>10 DEF Destroy, AtPC
  <2>2. job' = UndoEnds("done") \/ job' = [job EXCEPT !.n = @ - 1]
    BY <1>10, Zenon DEF Destroy, UndoStep
  <2>3. job'.undo \in {"running", "done"}
    BY <1>2, <1>4, <2>1, <2>2
  <2> QED BY <2>3, UndoSays
<1>11. CASE AsideFails \/ DestroyFails
  <2>1. job'.undo = "halfway"
    BY <1>2, <1>11 DEF AsideFails, DestroyFails
  <2> QED BY <2>1, UndoSays
<1>12. CASE PutBack
  <2>1. job.undo = "running"
    BY <1>3, <1>12 DEF PutBack, AtPC
  <2>2. \/ job' = UndoEnds("conflict") \/ job' = UndoEnds("recovery")
        \/ \E s : job' = [job EXCEPT !.n = @ - 1, !.stuck = s]
    BY <1>12, Zenon DEF PutBack, UndoStep
  <2>3. ASSUME NEW s, job' = [job EXCEPT !.n = @ - 1, !.stuck = s] PROVE job'.undo = "running"
    BY <1>1, <2>1, <2>3 DEF JobFields
  <2>4. job'.undo \in {"running", "conflict", "recovery"}
    BY <1>2, <2>2, <2>3
  <2> QED BY <2>4, UndoSays
<1> QED BY <1>5, <1>6, <1>7, <1>8, <1>9, <1>10, <1>11, <1>12 DEF UndoNext

-----------------------------------------------------------------------------
(* Every step.                                                             *)
LEMMA CopyTellings ==
  ASSUME JobsInv, JobsTold, foreign = 0, CopyNext
  PROVE  Says(tree', job', info', faults')
<1>1. CASE ChooseDestination \/ DecideCancel \/ Transfer \/ CopyRoot \/ PlaceLeaf \/ Seal
  BY <1>1, ChooseDestinationTells, DecideCancelTells, TransferTells, CopyRootTells, PlaceLeafTells, SealTells
<1>2. ASSUME NEW c \in job.walk, CopyChild(c) PROVE Says(tree', job', info', faults')
  BY <1>2, CopyChildTells
<1>3. ASSUME NEW d \in {"Skip", "KeepBoth", "Replace", "MergeDirectory"}, NEW all \in BOOLEAN, Decide(d, all)
      PROVE  Says(tree', job', info', faults')
  BY <1>3, DecideTells
<1>4. CASE Commit \/ Exchange \/ Place \/ Discard \/ CleanUp
  BY <1>4, CommitTells, ExchangeTells, PlaceTells, DiscardTells, CleanUpTells
<1> QED BY <1>1, <1>2, <1>3, <1>4 DEF CopyNext

LEMMA RemoveTellings ==
  ASSUME JobsInv, JobsTold, foreign = 0, RemoveNext
  PROVE  Says(tree', job', info', faults')
<1>1. ASSUME NEW c \in job.walk, RemoveChild(c) PROVE Says(tree', job', info', faults')
  BY <1>1, RemoveChildTells
<1> QED BY <1>1, RemoveRootTells, UnlinkRootTells, RemoveFolderTells, DeleteTells DEF RemoveNext

LEMMA TrashTellings ==
  ASSUME JobsInv, JobsTold, foreign = 0, TrashNext
  PROVE  Says(tree', job', info', faults')
BY CheckForTrashTells, TrashOneTells, CheckForRestoreTells, RestoreOneTells, RemoveInfoTells DEF TrashNext

LEMMA ErrorTellings ==
  ASSUME JobsInv, JobsTold, foreign = 0, ErrorNext
  PROVE  Says(tree', job', info', faults')
BY SystemFaultTells, RetryTells, SkipErrorTells, CancelErrorTells DEF ErrorNext

\* What no step of a job changes.
LEMMA SameFirst ==
  ASSUME [JobsNext]_jobsVars
  PROVE  /\ first' = first /\ split' = split /\ (faults' = faults \/ faults' = faults + 1)
         /\ foreign' = foreign \/ foreign' = foreign + 1
         /\ ForeignNext \/ foreign' = foreign
<1>1. CASE Prepare \/ ValidateTransfer \/ AllDone \/ StopAtSource
  BY <1>1 DEF Prepare, ValidateTransfer, AllDone, StopAtSource, Keep, Quiet, envVars
<1>2. CASE ChooseDestination \/ DecideCancel \/ Transfer \/ CopyRoot \/ Seal
  BY <1>2 DEF ChooseDestination, DecideCancel, Transfer, CopyRoot, Seal, Keep, Quiet, envVars
<1>3. CASE \E c \in job.walk : CopyChild(c)
  BY <1>3 DEF CopyChild, Quiet, envVars
<1>4. CASE \E d \in {"Skip", "KeepBoth", "Replace", "MergeDirectory"}, all \in BOOLEAN : Decide(d, all)
  BY <1>4 DEF Decide, Keep, Quiet, envVars
<1>5. CASE Commit \/ Exchange \/ Place \/ Discard
  BY <1>5 DEF Commit, Exchange, Place, Discard, Quiet, envVars
<1>6. CASE RemoveNext
  BY <1>6 DEF RemoveNext, RemoveRoot, UnlinkRoot, RemoveChild, RemoveFolder, Delete, Keep, Quiet, envVars
<1>7. CASE TrashNext
  BY <1>7 DEF TrashNext, CheckForTrash, TrashOne, CheckForRestore, RestoreOne, RemoveInfo, Keep, Quiet, envVars
<1>8. CASE ErrorNext
  BY <1>8 DEF ErrorNext, SystemFault, CallFails, Retry, SkipError, CancelError, Keep, Quiet, envVars
<1>9. CASE Undo \/ AsideFails \/ DestroyFails
  BY <1>9 DEF Undo, AsideFails, DestroyFails, CallFails, envVars
<1>10. CASE MoveBack \/ Untrash \/ MoveAside \/ Verify \/ Destroy \/ PutBack
  <2>1. UNCHANGED envVars
    BY <1>10, Zenon DEF MoveBack, Untrash, MoveAside, Verify, Destroy, PutBack, UndoStep, Quiet
  <2> QED BY <2>1 DEF envVars
<1>11. CASE Cancel \/ UNCHANGED jobsVars
  BY <1>11 DEF Cancel, jobsVars, envVars
<1>12. CASE ForeignNext
  BY <1>12 DEF ForeignNext, ForeignCreate, ForeignRemove
<1>15. CASE PlaceLeaf \/ CleanUp
  <2>1. Quiet \/ \E p : Cleared(p)
    BY <1>15, Zenon DEF PlaceLeaf, CleanUp
  <2>2. CASE Quiet
    BY <2>2 DEF Quiet, envVars
  <2> QED BY <2>1, <2>2, ClearedFaults
<1>13. CASE CopyNext
  BY <1>2, <1>3, <1>4, <1>5, <1>13, <1>15 DEF CopyNext
<1>14. CASE UndoNext
  BY <1>9, <1>10, <1>14 DEF UndoNext
<1> QED BY <1>1, <1>6, <1>7, <1>8, <1>11, <1>12, <1>13, <1>14 DEF JobsNext

\* What is told of the next state, of which the first tree is the same.
LEMMA SaysNext ==
  ASSUME first' = first
  PROVE  Says(tree', job', info', faults') => Says(tree, job, info, faults)'
<1>1. \A s, p : CameTo(tree, s, p)' <=> CameTo(tree', s, p)
  BY DEF CameTo
<1>2. \A s, p : Holds(tree, s, p)' <=> Holds(tree', s, p)
  BY <1>1 DEF Holds
<1>3. \A s : Fine(tree, job, s)' <=> Fine(tree', job', s)
  BY <1>2 DEF Fine
<1>4. SourcesFine(tree, job)' <=> SourcesFine(tree', job')
  BY <1>3 DEF SourcesFine
<1>5. TargetsWhole(tree, job)' <=> TargetsWhole(tree', job')
  BY <1>2 DEF TargetsWhole
<1>6. \A W : CopiedBut(tree, job, W)' <=> CopiedBut(tree', job', W)
  BY <1>1 DEF CopiedBut
<1>7. Progress(tree, job)' <=> Progress(tree', job')
  BY <1>1, <1>2, <1>6 DEF Progress
<1>8. Told(tree, job, info, faults)' <=> Told(tree', job', info', faults')
  BY <1>4, <1>5, <1>7 DEF Told
<1>9. Ended(tree, job, info, faults)' <=> Ended(tree', job', info', faults')
  BY <1>2 DEF Ended
<1> QED BY <1>8, <1>9 DEF Says

LEMMA StepTells ==
  ASSUME JobsInv, JobsTold, [JobsNext]_jobsVars
  PROVE  JobsTold'
<1>1. /\ first' = first /\ (faults' = faults \/ faults' = faults + 1)
      /\ foreign' = foreign \/ foreign' = foreign + 1
      /\ ForeignNext \/ foreign' = foreign
  BY SameFirst
<1>2. foreign \in Nat
  BY DEF JobsInv, Inv, Fresh
<1>3. FirstOK' /\ faults' \in Nat
  <2>1. FirstOK'
    BY <1>1 DEF JobsTold, FirstOK, FileTree
  <2> QED BY <1>1, <2>1 DEF JobsTold
<1>4. ASSUME foreign' = 0 PROVE Says(tree', job', info', faults')
  <2>1. foreign = 0
    BY <1>1, <1>2, <1>4
  <2>2. ~ForeignNext
    BY <1>2, <1>4 DEF ForeignNext, ForeignCreate, ForeignRemove
  <2>3. CASE Prepare \/ ValidateTransfer \/ AllDone \/ StopAtSource
    BY <2>1, <2>3, PrepareTells, ValidateTransferTells, AllDoneTells, StopAtSourceTells
  <2>4. CASE CopyNext \/ RemoveNext \/ TrashNext \/ ErrorNext
    BY <2>1, <2>4, CopyTellings, RemoveTellings, TrashTellings, ErrorTellings
  <2>5. CASE UndoNext
    <3>1. JobsInv'
      BY EveryStep
    <3> QED BY <2>5, <3>1, UndoTells
  <2>6. CASE Cancel \/ UNCHANGED jobsVars
    <3>1. tree' = tree /\ job' = job /\ info' = info /\ faults' = faults
      BY <2>6 DEF Cancel, jobsVars, fsVars, envVars
    <3>2. Says(tree, job, info, faults)
      BY <2>1 DEF JobsTold
    <3> QED BY <3>1, <3>2
  <2> QED BY <2>2, <2>3, <2>4, <2>5, <2>6 DEF JobsNext
<1>5. foreign' = 0 => Says(tree, job, info, faults)'
  BY <1>1, <1>4, SaysNext
<1> QED BY <1>3, <1>5 DEF JobsTold

LEMMA FirstTells == JobsInit => JobsTold
<1> SUFFICES ASSUME JobsInit PROVE JobsTold
  OBVIOUS
<1>1. PICK j \in Jobs :
         /\ tree = j.tree /\ first = j.tree /\ job = NewJob(j) /\ faults = 0
         /\ info = {p \in DOMAIN j.tree : p[1] = "trash" /\ Len(p) = 2}
  BY Zenon DEF JobsInit
<1>2. /\ j.op \notin {"restore", "purge"} => \A m \in DOMAIN j.sources : j.sources[m][2][2] = 0
      /\ DOMAIN tree \subseteq VisiblePaths
  BY <1>1, JobsAssumption
<1>3. /\ job.op = j.op /\ job.sources = j.sources /\ job.pc = "prepare" /\ job.i = 1 /\ job.how = "plain"
      /\ job.affected = << >> /\ job.skipped = {} /\ job.issues = {}
  BY <1>1 DEF NewJob
<1>4. JobsInv
  BY FirstState
<1>5. FileTree(tree) /\ JobFits(job)
  BY <1>4 DEF JobsInv, Inv, JobOK
<1>6. FirstOK
  BY <1>1, <1>2, <1>5
     DEF FirstOK, FileTree
<1>7. Done(job) = {}
  BY <1>3 DEF Done
<1>8. ~HasTarget(job) /\ ~TakenApart(job) /\ ~Removing(job) /\ Progress(tree, job)
  BY <1>3 DEF HasTarget, TakenApart, Removing, Progress, StagePCs, CopyPCs, RemovePCs
<1>9. Booked(job) /\ Named(job)
  BY <1>2, <1>3, <1>8 DEF Booked, Named
<1>10. Gone(tree, job, info)
  BY <1>1, <1>3, <1>7 DEF Gone, CopyPCs
<1>11. TargetsWhole(tree, job)
  BY <1>3 DEF TargetsWhole
<1>12. \A s : Holds(tree, s, s)
  BY <1>1 DEF Holds, CameTo
<1>13. Told(tree, job, info, faults)
  BY <1>8, <1>9, <1>10, <1>11, <1>12 DEF Told, SourcesFine, Fine
<1>14. Says(tree, job, info, faults)
  BY <1>3, <1>13, ToldSays
<1> QED BY <1>1, <1>6, <1>14 DEF JobsTold

-----------------------------------------------------------------------------
(* The theorems.                                                           *)

\* While no other process interferes the ledger of a job, what it has booked as
\* affected, skipped and issue, is the state of the file system.
THEOREM JobsToldAlways == JobsSpec => []JobsTold
<1>1. JobsInit => JobsTold
  BY FirstTells
<1>2. JobsInv /\ JobsTold /\ [JobsNext]_jobsVars => JobsTold'
  BY StepTells
<1> QED BY <1>1, <1>2, JobsInvariant, PTL DEF JobsSpec

\* An ended job and what its fields say.
LEMMA AtTheEnd ==
  ASSUME JobsInv, JobsTold, job.pc = "ended", foreign = 0, job.undo \in {"none", "offered"}
  PROVE  /\ Ended(tree, job, info, faults) /\ FirstOK /\ job.op \in Ops
         /\ ReplacedAgain <=> Forgiven(job, faults)
         /\ \A s : OnePlace(s) <=> OneOver(job, s)
         /\ \A n \in DOMAIN job.affected : job.affected[n].source \in Roots /\ job.affected[n].target \in Roots
         /\ \A s \in ToSet(job.sources) : s \in Roots
         /\ job.op = "restore" => \A s \in ToSet(job.sources) : Origin(s) \in Roots
<1>1. JobFits(job)
  BY DEF JobsInv, Inv, JobOK
<1>2. job.op \in Ops
  BY <1>1 DEF JobFits
<1>3. /\ \A s \in SourcesOf(job.op) \cup TargetsOf(job.op) : s \in Roots
      /\ \A s \in ToSet(job.sources) : s \in SourcesOf(job.op)
      /\ \A n \in DOMAIN job.affected : /\ job.affected[n].source \in SourcesOf(job.op)
                                        /\ job.affected[n].target \in TargetsOf(job.op)
      /\ job.op = "restore" => \A s \in SourcesOf(job.op) : Origin(s) \in TargetsOf(job.op)
  BY <1>1, BookPaths
<1>4. Ended(tree, job, info, faults) /\ FirstOK
  BY DEF JobsTold, Says
<1>5. ReplacedAgain <=> Forgiven(job, faults)
  BY DEF ReplacedAgain, Restored, Forgiven
<1>6. \A s : OnePlace(s) <=> OneOver(job, s)
  BY DEF OnePlace, OneOver, Restored
<1> QED BY <1>2, <1>3, <1>4, <1>5, <1>6

\* When no other process interferes the outcome is true.
THEOREM OutcomeIsTrueAlways == JobsSpec => []OutcomeIsTrue
<1>1. JobsInv /\ JobsTold => OutcomeIsTrue
  <2> SUFFICES ASSUME JobsInv, JobsTold, job.pc = "ended", foreign = 0, job.undo \in {"none", "offered"}
               PROVE  /\ \A n \in DOMAIN job.affected :
                            LET a == job.affected[n] IN
                            /\ job.op \in {"copy", "move", "trash", "restore"}
                               /\ ~ReplacedAgain /\ ~OnePlace(a.source) => Whole(a.source, a.target)
                            /\ job.op # "copy" /\ a.source \notin job.issues => ~path_lexists(a.source)
                            /\ a.source \notin job.issues /\ job.op # "trash" /\ job.result = "Completed"
                                  => a.source \notin info
                      /\ job.result = "Completed" =>
                            ToSet(job.sources) = job.skipped \cup {job.affected[n].source : n \in DOMAIN job.affected}
    BY Zenon DEF OutcomeIsTrue, AtPC
  <2>1. /\ Ended(tree, job, info, faults) /\ FirstOK
        /\ ReplacedAgain <=> Forgiven(job, faults)
        /\ \A s : OnePlace(s) <=> OneOver(job, s)
        /\ \A n \in DOMAIN job.affected : job.affected[n].source \in Roots /\ job.affected[n].target \in Roots
    BY AtTheEnd
  <2>2. ASSUME NEW n \in DOMAIN job.affected
        PROVE  /\ job.op \in {"copy", "move", "trash", "restore"} /\ ~ReplacedAgain /\ ~OnePlace(job.affected[n].source)
                     => Whole(job.affected[n].source, job.affected[n].target)
               /\ job.op # "copy" /\ job.affected[n].source \notin job.issues => ~path_lexists(job.affected[n].source)
               /\ job.affected[n].source \notin job.issues /\ job.op # "trash" /\ job.result = "Completed"
                     => job.affected[n].source \notin info
    <3>1. /\ job.op \notin Deletions /\ ~Forgiven(job, faults) /\ ~OneOver(job, job.affected[n].source)
                => Holds(tree, job.affected[n].source, job.affected[n].target)
          /\ job.op # "copy" /\ job.affected[n].source \notin job.issues => job.affected[n].source \notin DOMAIN tree
          /\ job.affected[n].source \notin job.issues /\ job.op # "trash" /\ job.result = "Completed"
                => job.affected[n].source \notin info
      BY <2>1 DEF Ended
    <3>2. Whole(job.affected[n].source, job.affected[n].target) <=> Holds(tree, job.affected[n].source, job.affected[n].target)
      BY <2>1, WholeIs
    <3>3. job.op \in {"copy", "move", "trash", "restore"} => job.op \notin Deletions
      BY DEF Deletions
    <3> QED BY <2>1, <3>1, <3>2, <3>3 DEF path_lexists
  <2>3. job.result = "Completed" =>
           ToSet(job.sources) = job.skipped \cup {job.affected[n].source : n \in DOMAIN job.affected}
    BY <2>1 DEF Ended, Done
  <2> QED BY <2>2, <2>3
<1> QED BY <1>1, JobsInvariant, JobsToldAlways, PTL

\* A source that the outcome does not name was not taken apart.
THEOREM UnlistedSourcesAreWholeAlways == JobsSpec => []UnlistedSourcesAreWhole
<1>1. JobsInv /\ JobsTold => UnlistedSourcesAreWhole
  <2> SUFFICES ASSUME JobsInv, JobsTold, job.pc = "ended", foreign = 0, job.undo \in {"none", "offered"},
                      ~(job.op \in {"delete", "purge"} /\ job.error = "io"), ~ReplacedAgain,
                      NEW s \in ToSet(job.sources)
               PROVE  \/ s \in job.issues \cup {job.affected[n].source : n \in DOMAIN job.affected}
                      \/ Whole(s, s)
                      \/ Restored /\ Whole(s, <<"src", Plain(Base(s))>>)
    BY Zenon DEF UnlistedSourcesAreWhole, AtPC
  <2>1. /\ Ended(tree, job, info, faults) /\ FirstOK /\ ~Forgiven(job, faults) /\ s \in Roots
        /\ job.op = "restore" => Origin(s) \in Roots
    BY AtTheEnd
  <2>2. \/ s \in job.issues \cup Done(job)
        \/ Holds(tree, s, s)
        \/ job.op = "restore" /\ Holds(tree, s, Origin(s))
    BY <2>1 DEF Ended, Deletions
  <2>3. Whole(s, s) <=> Holds(tree, s, s)
    BY <2>1, WholeIs
  <2>4. job.op = "restore" => (Whole(s, Origin(s)) <=> Holds(tree, s, Origin(s)))
    BY <2>1, WholeIs
  <2> QED BY <2>2, <2>3, <2>4 DEF Done, Origin, Restored
<1> QED BY <1>1, JobsInvariant, JobsToldAlways, PTL

-----------------------------------------------------------------------------
(* What an undo needs: the folders are those of before the job, but for    *)
(* what its records name.                                                  *)
VisibleRoots == Folders \X VisibleNames

\* What is at r is just what was at q at first; and all that is at the root p is
\* what was at the root s.
Same(f, t, q, r) ==
    /\ q \in DOMAIN f <=> r \in DOMAIN t
    /\ q \in DOMAIN f => t[r].data = f[q].data
Exactly(f, t, s, p) == Same(f, t, s, p) /\ \A c \in VisibleNames : Same(f, t, ChildOf(s, c), ChildOf(p, c))

\* The copies that stand, and the moves that were not moved back.
StillOut(j) == {n \in DOMAIN j.affected : /\ j.pc \notin {"verify", "destroy"} /\ j.undo # "done"
                                          /\ j.pc = "quarantine" => n >= j.n}
Out(j)      == {j.affected[n].target : n \in StillOut(j)}
Standing(j) == {n \in DOMAIN RecordsOf(j) : j.undo # "done" /\ (j.pc \in BackPCs => n <= j.n)}

\* A job whose undo gives back what was there, unless it has replaced something.
\* (d: dst and trash are on another device.)
Renames(d, j)  == j.op = "trash" \/ (j.op = "move" /\ ~d)
Undoing(j)     == j.undo \in {"none", "offered", "running", "done"}
CopyRule(f, t, j) ==
    j.op = "copy" /\ j.pc # "unquarantine" /\ Undoing(j) =>
       \A p \in VisibleRoots : IF p \in Out(j) THEN p \notin DOMAIN f ELSE Exactly(f, t, p, p)
MoveRule(f, d, t, j) ==
    Renames(d, j) /\ Undoing(j) =>
       /\ \A m \in Standing(j) :
             LET r == RecordsOf(j)[m] IN
             /\ r.source \in DOMAIN f /\ r.source \notin DOMAIN t /\ r.target \notin DOMAIN f
             /\ Exactly(f, t, r.source, r.target)
       /\ \A m, n \in Standing(j) :
             m # n => /\ RecordsOf(j)[m].source # RecordsOf(j)[n].source
                      /\ RecordsOf(j)[m].target # RecordsOf(j)[n].target
       /\ \A p \in VisibleRoots :
             (\A m \in Standing(j) : p # RecordsOf(j)[m].source /\ p # RecordsOf(j)[m].target) => Exactly(f, t, p, p)

\* A job that renames its sources never copies or removes one.
Tame(j) == j.pc \notin {"copy"} \cup StagePCs \cup RemovePCs /\ j.stage # "remove"
Reversible(f, d, t, j) ==
    ~j.replaced =>
       /\ j.op \in {"copy", "move"} => j.how = "plain"
       /\ Renames(d, j) => Tame(j)
       /\ j.op = "move" /\ d => /\ j.undo = "offered" => j.moves # << >>
                                /\ j.pc = "move back" => j.n # 0
                                /\ j.undo # "done"
       /\ j.undo = "done" => j.op \in {"copy", "move", "trash"} /\ j.pc = "ended"
       /\ CopyRule(f, t, j) /\ MoveRule(f, d, t, j)

JobsReversible == foreign = 0 => Reversible(first, split, tree, job)

-----------------------------------------------------------------------------
(* What is just as it was.                                                 *)
Shown(t, u) ==
    \A q \in VisiblePaths : /\ q \in DOMAIN t <=> q \in DOMAIN u
                            /\ q \in DOMAIN t => u[q].data = t[q].data

LEMMA RootsShown ==
  ASSUME NEW p \in VisibleRoots
  PROVE  /\ p \in Roots /\ p[2] \in VisibleNames /\ p \in VisiblePaths
         /\ \A c \in VisibleNames : ChildOf(p, c) \in VisiblePaths /\ ChildOf(p, c) \in Paths
<1>1. p \in Folders \X AllNames /\ p[1] \in Folders /\ p[2] \in VisibleNames
  BY DEF VisibleRoots, AllNames
<1>2. p \in VisiblePaths
  BY DEF VisibleRoots, VisiblePaths
<1>3. ASSUME NEW c \in VisibleNames PROVE ChildOf(p, c) \in VisiblePaths /\ ChildOf(p, c) \in Paths
  <2>1. ChildOf(p, c) \in Folders \X VisibleNames \X VisibleNames
    BY <1>1 DEF ChildOf
  <2> QED BY <2>1, VisibleFacts DEF VisiblePaths
<1> QED BY <1>1, <1>2, <1>3 DEF Roots

LEMMA ExactlyShown ==
  ASSUME NEW f, NEW t, NEW u, NEW s, NEW p \in VisibleRoots, Exactly(f, t, s, p), Shown(t, u)
  PROVE  Exactly(f, u, s, p)
<1>1. ASSUME NEW q, NEW r \in VisiblePaths, Same(f, t, q, r) PROVE Same(f, u, q, r)
  BY <1>1 DEF Same, Shown
<1>2. p \in VisiblePaths /\ \A c \in VisibleNames : ChildOf(p, c) \in VisiblePaths
  BY RootsShown
<1> QED BY <1>1, <1>2 DEF Exactly

\* Nothing is there, nor was.
LEMMA ExactlyAbsent ==
  ASSUME NEW f, NEW t, FileTree(f), FileTree(t), NEW p \in Roots, p \notin DOMAIN f, p \notin DOMAIN t
  PROVE  Exactly(f, t, p, p)
<1>1. ASSUME NEW c \in VisibleNames
      PROVE  ChildOf(p, c) \notin DOMAIN f /\ ChildOf(p, c) \notin DOMAIN t
  <2>1. ChildOf(p, c) \in Children /\ RootOf(ChildOf(p, c)) = p
    BY ChildPaths DEF AllNames
  <2> QED BY <2>1 DEF FileTree
<1> QED BY <1>1 DEF Exactly, Same

\* A root that is moved, and all others.
LEMMA MovedIs ==
  ASSUME FileTree(tree), NEW p \in Roots, NEW r \in Roots, p # r, r \notin DOMAIN tree
  PROVE  LET u == Moved(p, r) IN
         /\ \A q \in TreeOf(p) : /\ q \in DOMAIN tree <=> To(q, r) \in DOMAIN u
                                 /\ q \in DOMAIN tree => u[To(q, r)] = tree[q]
         /\ \A q \in Paths : RootOf(q) # p /\ RootOf(q) # r =>
               /\ q \in DOMAIN tree <=> q \in DOMAIN u
               /\ q \in DOMAIN tree => u[q] = tree[q]
         /\ p \notin DOMAIN u /\ FileTree(u)
<1> DEFINE u == Moved(p, r)
<1>1. /\ FileTree(u)
      /\ \A q \in DOMAIN tree : RootOf(q) # p => RootOf(q) # r /\ q \in DOMAIN u /\ u[q] = tree[q]
      /\ \A q \in DOMAIN tree : RootOf(q) = p => To(q, r) \in DOMAIN u /\ u[To(q, r)] = tree[q]
      /\ \A q \in DOMAIN u :
            \/ RootOf(q) # p /\ RootOf(q) # r /\ q \in DOMAIN tree /\ u[q] = tree[q]
            \/ /\ RootOf(q) = r /\ To(q, p) \in DOMAIN tree /\ RootOf(To(q, p)) = p
               /\ u[q] = tree[To(q, p)] /\ To(To(q, p), r) = q
  BY MovedTree
<1> HIDE DEF u
<1>2. ASSUME NEW q \in TreeOf(p)
      PROVE  (q \in DOMAIN tree <=> To(q, r) \in DOMAIN u) /\ (q \in DOMAIN tree => u[To(q, r)] = tree[q])
  <2>1. q \in Paths /\ RootOf(q) = p
    BY DEF TreeOf
  <2>2. RootOf(To(q, r)) = r /\ To(To(q, r), p) = q
    BY <2>1, RebasedRoot
  <2> QED BY <1>1, <2>1, <2>2
<1>3. ASSUME NEW q \in Paths, RootOf(q) # p, RootOf(q) # r
      PROVE  (q \in DOMAIN tree <=> q \in DOMAIN u) /\ (q \in DOMAIN tree => u[q] = tree[q])
  BY <1>1, <1>3
<1>4. p \notin DOMAIN u
  BY <1>1, RootPaths
<1> QED BY <1>1, <1>2, <1>3, <1>4 DEF u

LEMMA ExactlyMoves ==
  ASSUME FileTree(tree), NEW p \in Roots, NEW r \in Roots, p # r, r \notin DOMAIN tree,
         NEW f, NEW s, Exactly(f, tree, s, p)
  PROVE  Exactly(f, Moved(p, r), s, r)
<1> DEFINE u == Moved(p, r)
<1>1. \A q \in TreeOf(p) : /\ q \in DOMAIN tree <=> To(q, r) \in DOMAIN u
                           /\ q \in DOMAIN tree => u[To(q, r)] = tree[q]
  BY MovedIs
<1> HIDE DEF u
<1>2. ASSUME NEW z, NEW q \in TreeOf(p), Same(f, tree, z, q) PROVE Same(f, u, z, To(q, r))
  BY <1>1, <1>2 DEF Same
<1>3. Same(f, u, s, r)
  <2>1. p \in TreeOf(p) /\ To(p, r) = r
    BY RootPaths
  <2> QED BY <1>2, <2>1 DEF Exactly
<1>4. ASSUME NEW c \in VisibleNames PROVE Same(f, u, ChildOf(s, c), ChildOf(r, c))
  <2>1. ChildOf(p, c) \in TreeOf(p) /\ To(ChildOf(p, c), r) = ChildOf(r, c)
    BY ChildPaths DEF AllNames
  <2>2. Same(f, tree, ChildOf(s, c), ChildOf(p, c))
    BY DEF Exactly
  <2> QED BY <1>2, <2>1, <2>2
<1> QED BY <1>3, <1>4 DEF Exactly, u

LEMMA ExactlyStays ==
  ASSUME FileTree(tree), NEW p \in Roots, NEW r \in Roots, p # r, r \notin DOMAIN tree,
         NEW f, NEW s, NEW z \in Roots, z # p, z # r, Exactly(f, tree, s, z)
  PROVE  Exactly(f, Moved(p, r), s, z)
<1> DEFINE u == Moved(p, r)
<1>1. \A q \in Paths : RootOf(q) # p /\ RootOf(q) # r =>
               /\ q \in DOMAIN tree <=> q \in DOMAIN u
               /\ q \in DOMAIN tree => u[q] = tree[q]
  BY MovedIs
<1> HIDE DEF u
<1>2. ASSUME NEW q, NEW y \in Paths, RootOf(y) = z, Same(f, tree, q, y) PROVE Same(f, u, q, y)
  BY <1>1, <1>2 DEF Same
<1>3. z \in Paths /\ RootOf(z) = z /\ \A c \in VisibleNames : ChildOf(z, c) \in Paths /\ RootOf(ChildOf(z, c)) = z
  BY RootPaths, ChildPaths DEF AllNames
<1> QED BY <1>2, <1>3 DEF Exactly, u

LEMMA HomesVisible ==
  ASSUME NEW o \in Ops
  PROVE  SourcesOf(o) \subseteq VisibleRoots /\ TargetsOf(o) \subseteq VisibleRoots
<1>1. HomeFolder(o) \in Folders /\ TargetFolder(o) \in Folders
  BY DEF HomeFolder, TargetFolder, Folders
<1> QED BY <1>1 DEF SourcesOf, TargetsOf, VisibleRoots

-----------------------------------------------------------------------------
(* The rules of a step.                                                    *)
Ledger(j, k) == k.affected = j.affected /\ k.moves = j.moves

\* What a step of the body does not change, nor a job that ends.
Kin(j, k) ==
    /\ DOMAIN k = JobFields /\ k.op = j.op /\ k.undo \in {"none", "offered"}
    /\ k.undo = "offered" /\ k.op = "move" => k.moves # << >>
    /\ ~k.replaced => ~j.replaced /\ (j.op \in {"copy", "move"} => k.how \in {j.how, "plain"})

\* The places of a record.
LEMMA RecordRoots ==
  ASSUME NEW j, JobFits(j), j.op \notin Deletions, NEW n \in DOMAIN RecordsOf(j)
  PROVE  /\ RecordsOf(j)[n].source \in SourcesOf(j.op) /\ RecordsOf(j)[n].target \in TargetsOf(j.op)
         /\ RecordsOf(j)[n].source \in VisibleRoots /\ RecordsOf(j)[n].target \in VisibleRoots
         /\ RecordsOf(j)[n].source \notin TargetsOf(j.op)
         /\ n \in 1..Len(RecordsOf(j)) /\ Len(RecordsOf(j)) \in Nat /\ RecordsOf(j) \in Seq(Pairs(j.op))
<1>1. RecordsOf(j) \in Seq(Pairs(j.op)) /\ j.op \in Ops
  BY DEF JobFits, RecordsOf
<1>2. RecordsOf(j)[n] \in Pairs(j.op) /\ n \in 1..Len(RecordsOf(j)) /\ Len(RecordsOf(j)) \in Nat
  BY <1>1
<1>3. RecordsOf(j)[n].source \in SourcesOf(j.op) /\ RecordsOf(j)[n].target \in TargetsOf(j.op)
  BY <1>2 DEF Pairs
<1>4. SourcesOf(j.op) \subseteq VisibleRoots /\ TargetsOf(j.op) \subseteq VisibleRoots
  BY <1>1, HomesVisible
<1>5. RecordsOf(j)[n].source \notin TargetsOf(j.op)
  BY <1>1, <1>3, JobPlaces
<1> QED BY <1>1, <1>2, <1>3, <1>4, <1>5

\* When nothing visible changes, and no record.
LEMMA CopyRuleShown ==
  ASSUME NEW f, NEW t, NEW u, NEW j, NEW k, CopyRule(f, t, j), Shown(t, u), j.op = k.op, Undoing(j),
         j.pc # "unquarantine", Out(k) = Out(j)
  PROVE  CopyRule(f, u, k)
<1> SUFFICES ASSUME k.op = "copy", NEW p \in VisibleRoots
             PROVE  IF p \in Out(k) THEN p \notin DOMAIN f ELSE Exactly(f, u, p, p)
  BY DEF CopyRule
<1>1. IF p \in Out(j) THEN p \notin DOMAIN f ELSE Exactly(f, t, p, p)
  BY DEF CopyRule
<1> QED BY <1>1, ExactlyShown

LEMMA MoveRuleShown ==
  ASSUME NEW f, NEW d, NEW t, NEW u, NEW j, NEW k, JobFits(j), MoveRule(f, d, t, j), Shown(t, u), j.op = k.op,
         Undoing(j), Standing(k) = Standing(j), RecordsOf(k) = RecordsOf(j)
  PROVE  MoveRule(f, d, u, k)
<1> SUFFICES ASSUME Renames(d, k), Undoing(k) PROVE MoveRule(f, d, u, k)
  BY DEF MoveRule
<1>1. Renames(d, j) /\ j.op \notin Deletions
  BY DEF Renames, Deletions
<1>2. ASSUME NEW m \in Standing(j)
      PROVE  LET r == RecordsOf(j)[m] IN
             /\ r.source \in DOMAIN f /\ r.source \notin DOMAIN u /\ r.target \notin DOMAIN f
             /\ Exactly(f, u, r.source, r.target)
  <2>1. RecordsOf(j)[m].source \in VisibleRoots /\ RecordsOf(j)[m].target \in VisibleRoots
    BY <1>1, <1>2, RecordRoots DEF Standing
  <2>2. /\ RecordsOf(j)[m].source \in DOMAIN f /\ RecordsOf(j)[m].source \notin DOMAIN t
        /\ RecordsOf(j)[m].target \notin DOMAIN f
        /\ Exactly(f, t, RecordsOf(j)[m].source, RecordsOf(j)[m].target)
    BY <1>1, <1>2 DEF MoveRule
  <2>3. Exactly(f, u, RecordsOf(j)[m].source, RecordsOf(j)[m].target)
    BY <2>1, <2>2, ExactlyShown
  <2>4. RecordsOf(j)[m].source \notin DOMAIN u
    BY <2>1, <2>2, RootsShown DEF Shown
  <2> QED BY <2>2, <2>3, <2>4
<1>3. \A m, n \in Standing(j) :
             m # n => /\ RecordsOf(j)[m].source # RecordsOf(j)[n].source
                      /\ RecordsOf(j)[m].target # RecordsOf(j)[n].target
  BY <1>1 DEF MoveRule
<1>4. ASSUME NEW p \in VisibleRoots,
             \A m \in Standing(j) : p # RecordsOf(j)[m].source /\ p # RecordsOf(j)[m].target
      PROVE  Exactly(f, u, p, p)
  <2>1. Exactly(f, t, p, p)
    BY <1>1, <1>4 DEF MoveRule
  <2> QED BY <2>1, ExactlyShown
<1> QED BY <1>2, <1>3, <1>4 DEF MoveRule

\* Of a job that works, or has ended and was not undone, all records stand.
LEMMA AllStand ==
  ASSUME NEW j, JobStands(j), j.undo \in {"none", "offered"}
  PROVE  /\ j.pc \notin AsidePCs \cup BackPCs /\ Undoing(j) /\ j.pc # "unquarantine"
         /\ Standing(j) = DOMAIN RecordsOf(j) /\ StillOut(j) = DOMAIN j.affected
<1>1. j.pc \notin AsidePCs \cup BackPCs
  BY DEF JobStands
<1>2. j.pc \notin {"verify", "destroy", "quarantine", "unquarantine"}
  BY <1>1 DEF AsidePCs
<1> QED BY <1>1, <1>2 DEF Undoing, Standing, StillOut

LEMMA KinReturns ==
  ASSUME JobsInv, JobsInv', foreign = 0, JobsReversible, Working(job), Kin(job, job'),
         job.op = "copy" /\ ~job'.replaced => Ledger(job, job') /\ Shown(tree, tree'),
         Renames(split, job) /\ ~job'.replaced /\ Tame(job) => Ledger(job, job') /\ Shown(tree, tree') /\ Tame(job')
  PROVE  Reversible(first, split, tree', job')
<1> SUFFICES ASSUME ~job'.replaced PROVE Reversible(first, split, tree', job')
  BY DEF Reversible
<1>1. /\ JobFits(job) /\ JobStands(job) /\ JobStands(job') /\ job.undo = "none"
  BY DEF JobsInv, Inv, JobOK, Working, JobStands
<1>2. /\ job'.op = job.op /\ job'.undo \in {"none", "offered"} /\ ~job.replaced
      /\ job.op \in {"copy", "move"} => job'.how \in {job.how, "plain"}
      /\ job'.undo = "offered" /\ job'.op = "move" => job'.moves # << >>
  BY DEF Kin
<1>3. /\ job.op \in {"copy", "move"} => job.how = "plain"
      /\ Renames(split, job) => Tame(job)
      /\ CopyRule(first, tree, job) /\ MoveRule(first, split, tree, job)
  BY <1>2 DEF JobsReversible, Reversible
<1>4. /\ Undoing(job) /\ job.pc # "unquarantine" /\ Undoing(job') /\ job'.pc \notin AsidePCs \cup BackPCs
      /\ Standing(job) = DOMAIN RecordsOf(job) /\ Standing(job') = DOMAIN RecordsOf(job')
      /\ StillOut(job) = DOMAIN job.affected /\ StillOut(job') = DOMAIN job'.affected
  BY <1>1, <1>2, AllStand
<1>5. CopyRule(first, tree', job')
  <2>1. CASE job.op = "copy"
    <3>1. Ledger(job, job') /\ Shown(tree, tree')
      BY <2>1
    <3>2. Out(job') = Out(job)
      BY <1>4, <3>1 DEF Out, Ledger
    <3> QED BY <1>2, <1>3, <1>4, <3>1, <3>2, CopyRuleShown
  <2>2. CASE job.op # "copy"
    BY <1>2, <2>2 DEF CopyRule
  <2> QED BY <2>1, <2>2
<1>6. Renames(split, job') <=> Renames(split, job)
  BY <1>2 DEF Renames
<1>7. MoveRule(first, split, tree', job')
  <2>1. CASE Renames(split, job)
    <3>1. Ledger(job, job') /\ Shown(tree, tree')
      BY <1>3, <2>1
    <3>2. RecordsOf(job') = RecordsOf(job)
      BY <1>2, <3>1 DEF RecordsOf, Ledger
    <3> QED BY <1>1, <1>2, <1>3, <1>4, <3>1, <3>2, MoveRuleShown
  <2>2. CASE ~Renames(split, job)
    BY <1>6, <2>2 DEF MoveRule
  <2> QED BY <2>1, <2>2
<1>8. job'.pc # "move back"
  BY <1>4 DEF BackPCs
<1> QED BY <1>2, <1>3, <1>5, <1>6, <1>7, <1>8 DEF Reversible

\* One more copy.
LEMMA CopyRuleGrows ==
  ASSUME NEW f, NEW j, NEW k, JobFits(j), j.op = "copy", CopyRule(f, tree, j), FileTree(tree),
         StillOut(j) = DOMAIN j.affected, StillOut(k) = DOMAIN k.affected, Undoing(j), j.pc # "unquarantine",
         NEW p \in Roots, p \notin VisibleRoots, NEW r \in TargetsOf(j.op), r \notin DOMAIN tree, NEW s,
         k.affected = Append(j.affected, [source |-> s, target |-> r])
  PROVE  CopyRule(f, Moved(p, r), k)
<1>1. r \in VisibleRoots /\ r \in Roots /\ r # p
  BY HomesVisible, RootsShown DEF Ops
<1>2. Out(k) = Out(j) \cup {r}
  <2>1. j.affected \in Seq(Pairs(j.op))
    BY DEF JobFits
  <2>2. /\ DOMAIN k.affected = DOMAIN j.affected \cup {Len(j.affected) + 1}
        /\ \A n \in DOMAIN j.affected : k.affected[n] = j.affected[n]
        /\ k.affected[Len(j.affected) + 1] = [source |-> s, target |-> r]
    BY <2>1
  <2>3. Out(j) = {j.affected[n].target : n \in DOMAIN j.affected} /\ Out(k) = {k.affected[n].target : n \in DOMAIN k.affected}
    BY DEF Out
  <2> QED BY <2>2, <2>3
<1>3. ASSUME NEW z \in VisibleRoots
      PROVE  IF z \in Out(k) THEN z \notin DOMAIN f ELSE Exactly(f, Moved(p, r), z, z)
  <2>1. IF z \in Out(j) THEN z \notin DOMAIN f ELSE Exactly(f, tree, z, z)
    BY DEF CopyRule
  <2>2. CASE z = r
    BY <1>2, <2>1, <2>2 DEF Exactly, Same
  <2>3. CASE z # r
    BY <1>1, <1>2, <2>1, <2>3, ExactlyStays, RootsShown
  <2> QED BY <2>2, <2>3
<1> QED BY <1>3 DEF CopyRule

\* One more move.
LEMMA MoveRuleGrows ==
  ASSUME NEW f, NEW d, NEW j, NEW k, JobFits(j), MoveRule(f, d, tree, j), FileTree(tree), Renames(d, j), Undoing(j),
         Standing(j) = DOMAIN RecordsOf(j), Standing(k) = DOMAIN RecordsOf(k), k.op = j.op,
         NEW p \in SourcesOf(j.op), p \in DOMAIN tree, NEW r \in TargetsOf(j.op), r \notin DOMAIN tree,
         RecordsOf(k) = Append(RecordsOf(j), [source |-> p, target |-> r])
  PROVE  MoveRule(f, d, Moved(p, r), k)
<1> DEFINE R == RecordsOf(j)
           S == RecordsOf(k)
           N == Len(R) + 1
           u == Moved(p, r)
<1>1. j.op \in Ops /\ j.op \notin Deletions /\ R \in Seq(Pairs(j.op))
  BY DEF JobFits, RecordsOf, Renames, Deletions
<1>2. /\ DOMAIN S = DOMAIN R \cup {N} /\ S[N] = [source |-> p, target |-> r]
      /\ \A m \in DOMAIN R : S[m] = R[m] /\ m # N
  BY <1>1
<1>3. /\ p \in VisibleRoots /\ r \in VisibleRoots /\ p \in Roots /\ r \in Roots /\ p # r
      /\ p \notin TargetsOf(j.op) /\ r \notin SourcesOf(j.op)
  <2>1. p \in VisibleRoots /\ r \in VisibleRoots
    BY <1>1, HomesVisible
  <2>2. p \notin TargetsOf(j.op) /\ r \notin SourcesOf(j.op)
    BY <1>1, JobPlaces
  <2> QED BY <2>1, <2>2, RootsShown
<1>4. ASSUME NEW m \in DOMAIN R
      PROVE  /\ R[m].source \in DOMAIN f /\ R[m].source \notin DOMAIN tree /\ R[m].target \notin DOMAIN f
             /\ Exactly(f, tree, R[m].source, R[m].target)
             /\ R[m].source \in SourcesOf(j.op) /\ R[m].target \in TargetsOf(j.op)
             /\ R[m].source \in Roots /\ R[m].target \in Roots
             /\ R[m].target \in DOMAIN tree
             /\ R[m].source # p /\ R[m].source # r /\ R[m].target # p /\ R[m].target # r
  <2>1. /\ R[m].source \in DOMAIN f /\ R[m].source \notin DOMAIN tree /\ R[m].target \notin DOMAIN f
        /\ Exactly(f, tree, R[m].source, R[m].target)
    BY DEF MoveRule
  <2>2. /\ R[m].source \in SourcesOf(j.op) /\ R[m].target \in TargetsOf(j.op)
        /\ R[m].source \in VisibleRoots /\ R[m].target \in VisibleRoots
    BY <1>1, RecordRoots
  <2>3. R[m].target \in DOMAIN tree
    BY <2>1 DEF Exactly, Same
  <2> QED BY <1>3, <2>1, <2>2, <2>3, RootsShown
<1>5. Exactly(f, tree, p, p) /\ Exactly(f, tree, r, r)
  <2>1. (\A m \in Standing(j) : p # R[m].source /\ p # R[m].target) /\ (\A m \in Standing(j) : r # R[m].source /\ r # R[m].target)
    BY <1>4
  <2> QED BY <1>3, <2>1 DEF MoveRule
<1>6. p \in DOMAIN f /\ r \notin DOMAIN f
  BY <1>5 DEF Exactly, Same
<1>7. p \notin DOMAIN u /\ (\A z \in Roots : z # p /\ z # r => (z \in DOMAIN tree <=> z \in DOMAIN u))
  BY <1>3, MovedIs, RootPaths
<1>8. Exactly(f, u, p, r)
  BY <1>3, <1>5, ExactlyMoves
<1>9. ASSUME NEW s, NEW z \in Roots, z # p, z # r, Exactly(f, tree, s, z) PROVE Exactly(f, u, s, z)
  BY <1>3, <1>9, ExactlyStays
<1> HIDE DEF R, S, N, u
<1>10. ASSUME NEW m \in DOMAIN S
       PROVE  /\ S[m].source \in DOMAIN f /\ S[m].source \notin DOMAIN u /\ S[m].target \notin DOMAIN f
              /\ Exactly(f, u, S[m].source, S[m].target)
  <2>1. CASE m = N
    BY <1>2, <1>6, <1>7, <1>8, <2>1
  <2>2. CASE m \in DOMAIN R
    BY <1>2, <1>4, <1>7, <1>9, <2>2
  <2> QED BY <1>2, <2>1, <2>2
<1>11. ASSUME NEW m \in DOMAIN S, NEW n \in DOMAIN S, m # n
       PROVE  S[m].source # S[n].source /\ S[m].target # S[n].target
  <2>1. \A x, y \in DOMAIN R : x # y => R[x].source # R[y].source /\ R[x].target # R[y].target
    BY DEF MoveRule, R
  <2> QED BY <1>2, <1>4, <1>11, <2>1
<1>12. ASSUME NEW z \in VisibleRoots, \A m \in DOMAIN S : z # S[m].source /\ z # S[m].target
       PROVE  Exactly(f, u, z, z)
  <2>1. z # p /\ z # r /\ \A m \in DOMAIN R : z # R[m].source /\ z # R[m].target
    BY <1>2, <1>12
  <2>2. Exactly(f, tree, z, z)
    BY <2>1 DEF MoveRule, R
  <2> QED BY <1>9, <2>1, <2>2, RootsShown
<1> QED BY <1>10, <1>11, <1>12 DEF MoveRule, S, u

\* One less.
LEMMA MoveRuleShrinks ==
  ASSUME NEW f, NEW d, NEW j, NEW k, JobFits(j), MoveRule(f, d, tree, j), FileTree(tree), FileTree(f),
         Renames(d, j), Undoing(j), k.op = j.op, RecordsOf(k) = RecordsOf(j),
         NEW n \in Standing(j), Standing(k) = Standing(j) \ {n},
         RecordsOf(j)[n].source \notin DOMAIN tree
  PROVE  MoveRule(f, d, Moved(RecordsOf(j)[n].target, RecordsOf(j)[n].source), k)
<1> DEFINE R == RecordsOf(j)
           p == R[n].target
           r == R[n].source
           u == Moved(p, r)
<1>1. j.op \notin Deletions /\ Standing(j) \subseteq DOMAIN R
  BY DEF Renames, Deletions, Standing
<1>2. ASSUME NEW m \in Standing(j)
      PROVE  /\ R[m].source \in DOMAIN f /\ R[m].source \notin DOMAIN tree /\ R[m].target \notin DOMAIN f
             /\ Exactly(f, tree, R[m].source, R[m].target)
             /\ R[m].source \in Roots /\ R[m].target \in Roots
             /\ R[m].source \in SourcesOf(j.op) /\ R[m].target \in TargetsOf(j.op)
             /\ R[m].source \notin TargetsOf(j.op)
             /\ m # n => R[m].source # R[n].source /\ R[m].target # R[n].target
  <2>1. /\ R[m].source \in DOMAIN f /\ R[m].source \notin DOMAIN tree /\ R[m].target \notin DOMAIN f
        /\ Exactly(f, tree, R[m].source, R[m].target)
    BY DEF MoveRule
  <2>2. m # n => R[m].source # R[n].source /\ R[m].target # R[n].target
    BY DEF MoveRule
  <2>3. /\ R[m].source \in SourcesOf(j.op) /\ R[m].target \in TargetsOf(j.op) /\ R[m].source \notin TargetsOf(j.op)
        /\ R[m].source \in VisibleRoots /\ R[m].target \in VisibleRoots
    BY <1>1, RecordRoots
  <2> QED BY <2>1, <2>2, <2>3, RootsShown
<1>3. /\ p \in Roots /\ r \in Roots /\ p # r /\ r \notin DOMAIN tree /\ p \notin DOMAIN f /\ r \in DOMAIN f
      /\ Exactly(f, tree, r, p)
  BY <1>2
<1>4. p \notin DOMAIN u /\ FileTree(u) /\ (\A z \in Roots : z # p /\ z # r => (z \in DOMAIN tree <=> z \in DOMAIN u))
  BY <1>3, MovedIs, RootPaths
<1>5. Exactly(f, u, r, r)
  BY <1>3, ExactlyMoves
<1>6. Exactly(f, u, p, p)
  BY <1>3, <1>4, ExactlyAbsent
<1>7. ASSUME NEW s, NEW z \in Roots, z # p, z # r, Exactly(f, tree, s, z) PROVE Exactly(f, u, s, z)
  BY <1>3, <1>7, ExactlyStays
<1> HIDE DEF u, p, r, R
<1>8. ASSUME NEW m \in Standing(j), m # n
      PROVE  R[m].source # p /\ R[m].source # r /\ R[m].target # p /\ R[m].target # r
  BY <1>2, <1>8 DEF p, r
<1>9. ASSUME NEW m \in Standing(k)
      PROVE  /\ R[m].source \in DOMAIN f /\ R[m].source \notin DOMAIN u /\ R[m].target \notin DOMAIN f
             /\ Exactly(f, u, R[m].source, R[m].target)
  <2>1. m \in Standing(j) /\ m # n
    OBVIOUS
  <2>2. R[m].source # p /\ R[m].source # r /\ R[m].target # p /\ R[m].target # r
    BY <1>8, <2>1
  <2> QED BY <1>2, <1>4, <1>7, <2>1, <2>2
<1>10. \A m, x \in Standing(k) : m # x => R[m].source # R[x].source /\ R[m].target # R[x].target
  BY DEF MoveRule, R
<1>11. ASSUME NEW z \in VisibleRoots, \A m \in Standing(k) : z # R[m].source /\ z # R[m].target
       PROVE  Exactly(f, u, z, z)
  <2>1. CASE z = p \/ z = r
    BY <1>5, <1>6, <2>1
  <2>2. CASE z # p /\ z # r
    <3>1. \A m \in Standing(j) : z # R[m].source /\ z # R[m].target
      BY <1>11, <2>2 DEF p, r
    <3>2. Exactly(f, tree, z, z)
      BY <3>1 DEF MoveRule, R
    <3> QED BY <1>7, <2>2, <3>2, RootsShown
  <2> QED BY <2>1, <2>2
<1> QED BY <1>9, <1>10, <1>11 DEF MoveRule, R, u, p, r

-----------------------------------------------------------------------------
(* The jobs of the helpers.                                                *)
LEMMA GotoKin ==
  ASSUME JobFits(job), job.undo = "none", NEW l
  PROVE  /\ Kin(job, Goto(l)) /\ Ledger(job, Goto(l))
         /\ l \notin {"copy"} \cup StagePCs \cup RemovePCs /\ Tame(job) => Tame(Goto(l))
<1>1. DOMAIN job = JobFields
  BY DEF JobFits
<1> QED BY <1>1 DEF Goto, Kin, Ledger, Tame, JobFields

LEMMA PromptKin ==
  ASSUME JobFits(job), job.undo = "none", NEW e, NEW s
  PROVE  Kin(job, Prompt(e, s)) /\ Ledger(job, Prompt(e, s)) /\ (s # "remove" => Tame(Prompt(e, s)))
<1>1. DOMAIN job = JobFields
  BY DEF JobFits
<1>2. Kin(job, Prompt(e, s)) /\ Ledger(job, Prompt(e, s))
  BY <1>1 DEF Prompt, Kin, Ledger, JobFields
<1>3. Prompt(e, s).pc = "error" /\ Prompt(e, s).stage = s
  BY <1>1, PromptSame
<1> QED BY <1>2, <1>3 DEF Tame, StagePCs, CopyPCs, RemovePCs

LEMMA CopyFailsKin ==
  ASSUME JobFits(job), job.undo = "none", NEW e
  PROVE  Kin(job, CopyFails(e)) /\ Ledger(job, CopyFails(e))
<1>1. DOMAIN job = JobFields
  BY DEF JobFits
<1> QED BY <1>1 DEF CopyFails, Kin, Ledger, JobFields

LEMMA SkippedKin ==
  ASSUME NEW j, JobFits(j), j.undo = "none", NEW k, k = NextSource(Skipped(j)) \/ k = NextSource(Issue(Skipped(j)))
  PROVE  Kin(j, k) /\ Ledger(j, k) /\ (Tame(j) => Tame(k))
<1>1. DOMAIN j = JobFields
  BY DEF JobFits
<1>2. /\ DOMAIN k = JobFields /\ k.op = j.op /\ k.undo = j.undo /\ k.replaced = j.replaced /\ k.how = j.how
      /\ k.affected = j.affected /\ k.moves = j.moves /\ k.stage = j.stage /\ k.pc = "next"
  <2>1. CASE k = NextSource(Skipped(j))
    BY <1>1, <2>1 DEF NextSource, Skipped, JobFields
  <2>2. CASE k = NextSource(Issue(Skipped(j)))
    BY <1>1, <2>2 DEF NextSource, Skipped, Issue, JobFields
  <2> QED BY <2>1, <2>2
<1> QED BY <1>2 DEF Kin, Ledger, Tame, StagePCs, CopyPCs, RemovePCs

LEMMA OutcomeKin ==
  ASSUME NEW j, DOMAIN j = JobFields, NEW r
  PROVE  Kin(j, Outcome(j, r)) /\ Ledger(j, Outcome(j, r)) /\ (Tame(j) => Tame(Outcome(j, r)))
<1> DEFINE targets == {j.affected[n].target : n \in DOMAIN j.affected}
           prints == IF j.op = "copy" /\ targets \subseteq DOMAIN tree
                     THEN [q \in UNION {Under(t) : t \in targets} |-> tree[q]] ELSE << >>
           undo == IF \/ j.pc \in {"prepare", "validate"}
                      \/ j.op \notin {"copy", "move", "trash"}
                      \/ j.op = "copy" /\ ~(targets \subseteq DOMAIN tree)
                      \/ j.op = "move" /\ j.moves = << >>
                      \/ j.op = "trash" /\ targets = {}
                   THEN "none" ELSE "offered"
<1>1. Outcome(j, r) = [j EXCEPT !.pc = "ended", !.result = r, !.prints = prints, !.undo = undo]
  BY DEF Outcome
<1>2. undo \in {"none", "offered"} /\ (undo = "offered" /\ j.op = "move" => j.moves # << >>)
  OBVIOUS
<1> HIDE DEF targets, prints, undo
<1>3. /\ DOMAIN Outcome(j, r) = JobFields /\ Outcome(j, r).op = j.op /\ Outcome(j, r).undo = undo
      /\ Outcome(j, r).replaced = j.replaced /\ Outcome(j, r).how = j.how /\ Outcome(j, r).stage = j.stage
      /\ Outcome(j, r).affected = j.affected /\ Outcome(j, r).moves = j.moves /\ Outcome(j, r).pc = "ended"
  BY <1>1 DEF JobFields
<1> QED BY <1>2, <1>3 DEF Kin, Ledger, Tame, StagePCs, CopyPCs, RemovePCs

\* A job that has written down a source before it ends.
LEMMA AfterKin ==
  ASSUME NEW j, NEW i, NEW k, i.op = j.op, i.replaced = j.replaced, i.how = j.how, Kin(i, k)
  PROVE  Kin(j, k)
BY DEF Kin

LEMMA ChoiceKin ==
  ASSUME NEW j, JobFits(j), j.undo = "none", NEW d \in Decisions
  PROVE  Kin(j, Choice(j, d)) /\ Ledger(j, Choice(j, d)) /\ (Tame(j) => Tame(Choice(j, d)))
<1> DEFINE k == Choice(j, d)
<1>1. DOMAIN j = JobFields
  BY DEF JobFits
<1>2. CASE d = "Skip"
  <2>1. k = NextSource(Skipped(j))
    BY <1>2 DEF Choice
  <2> QED BY <2>1, SkippedKin
<1>3. CASE d # "Skip"
  <2>1. \/ k = [j EXCEPT !.target = FirstFree(Requested), !.how = "plain", !.pc = "transfer"]
        \/ k = [j EXCEPT !.target = Requested, !.how = "replace", !.replaced = TRUE, !.pc = "transfer"]
        \/ k = [j EXCEPT !.target = Requested, !.how = "merge", !.merged = TRUE,
                         !.replaced = TRUE, !.pc = "transfer"]
    BY <1>3 DEF Choice, Decisions
  <2> HIDE DEF k
  <2>2. /\ DOMAIN k = JobFields /\ k.op = j.op /\ k.undo = j.undo /\ k.stage = j.stage /\ k.pc = "transfer"
        /\ k.affected = j.affected /\ k.moves = j.moves
        /\ ~k.replaced => ~j.replaced /\ k.how = "plain"
    <3>1. CASE k = [j EXCEPT !.target = FirstFree(Requested), !.how = "plain", !.pc = "transfer"]
      BY <1>1, <3>1 DEF JobFields
    <3>2. CASE k = [j EXCEPT !.target = Requested, !.how = "replace", !.replaced = TRUE, !.pc = "transfer"]
      BY <1>1, <3>2 DEF JobFields
    <3>3. CASE k = [j EXCEPT !.target = Requested, !.how = "merge", !.merged = TRUE,
                               !.replaced = TRUE, !.pc = "transfer"]
      BY <1>1, <3>3 DEF JobFields
    <3> QED BY <2>1, <3>1, <3>2, <3>3
  <2>3. Kin(j, k) /\ Ledger(j, k) /\ (Tame(j) => Tame(k))
    BY <2>2 DEF Kin, Ledger, Tame, StagePCs, CopyPCs, RemovePCs
  <2> QED BY <2>3 DEF k
<1> QED BY <1>2, <1>3

-----------------------------------------------------------------------------
(* What is returned after a step of the body.                              *)
LEMMA AtWork ==
  ASSUME JobsInv, Working(job)
  PROVE  JobFits(job) /\ JobStands(job) /\ JobOK(job) /\ DOMAIN job = JobFields /\ job.undo = "none" /\ FileTree(tree)
<1>1. JobFits(job) /\ JobStands(job) /\ JobOK(job) /\ FileTree(tree)
  BY DEF JobsInv, Inv, JobOK
<1> QED BY <1>1 DEF JobStands, Working, JobFits

\* A step that changes no file.
LEMMA CalmReturns ==
  ASSUME JobsInv, JobsInv', foreign = 0, JobsReversible, Working(job), tree' = tree, Kin(job, job'), Ledger(job, job'),
         Renames(split, job) /\ ~job'.replaced /\ Tame(job) => Tame(job')
  PROVE  Reversible(first, split, tree', job')
<1>1. Shown(tree, tree')
  BY DEF Shown
<1> QED BY <1>1, KinReturns

\* A step of a job that has no undo, or whose sources are on another device.
LEMMA OtherReturns ==
  ASSUME JobsInv, JobsInv', foreign = 0, JobsReversible, Working(job), Kin(job, job'), job.op # "copy",
         ~(Renames(split, job) /\ Tame(job))
  PROVE  Reversible(first, split, tree', job')
BY KinReturns

\* A step while a source is copied.
LEMMA StageReturns ==
  ASSUME JobsInv, JobsInv', foreign = 0, JobsReversible, job.pc \in {"copy"} \cup StagePCs, Kin(job, job'),
         job.op = "copy" /\ ~job'.replaced => Ledger(job, job') /\ Shown(tree, tree')
  PROVE  Reversible(first, split, tree', job')
<1>1. Working(job)
  BY DEF Working, StagePCs, CopyPCs, AsidePCs, BackPCs
<1>2. ~Tame(job)
  BY DEF Tame
<1> QED BY <1>1, <1>2, KinReturns

\* A source is written down.
LEMMA RuleReturns ==
  ASSUME JobsInv, JobsInv', foreign = 0, JobsReversible, Working(job), Kin(job, job'),
         job.op = "copy" /\ ~job'.replaced => CopyRule(first, tree', job'),
         Renames(split, job) /\ ~job'.replaced => MoveRule(first, split, tree', job') /\ Tame(job')
  PROVE  Reversible(first, split, tree', job')
<1> SUFFICES ASSUME ~job'.replaced PROVE Reversible(first, split, tree', job')
  BY DEF Reversible
<1>1. JobStands(job')
  BY DEF JobsInv, Inv, JobOK
<1>2. /\ job'.op = job.op /\ job'.undo \in {"none", "offered"} /\ ~job.replaced
      /\ job.op \in {"copy", "move"} => job'.how \in {job.how, "plain"}
      /\ job'.undo = "offered" /\ job'.op = "move" => job'.moves # << >>
  BY DEF Kin
<1>3. job.op \in {"copy", "move"} => job.how = "plain"
  BY <1>2 DEF JobsReversible, Reversible
<1>4. job'.pc # "move back"
  BY <1>1, <1>2, AllStand DEF BackPCs
<1>5. CopyRule(first, tree', job')
  BY <1>2 DEF CopyRule
<1>6. Renames(split, job') <=> Renames(split, job)
  BY <1>2 DEF Renames
<1>7. MoveRule(first, split, tree', job') /\ (Renames(split, job') => Tame(job'))
  BY <1>6 DEF MoveRule
<1> QED BY <1>2, <1>3, <1>4, <1>5, <1>7 DEF Reversible

\* A job that ends.
LEMMA EndReturns ==
  ASSUME JobsInv, JobsInv', foreign = 0, JobsReversible, Working(job), tree' = tree, NEW r, job' = Outcome(job, r)
  PROVE  Reversible(first, split, tree', job')
<1>1. DOMAIN job = JobFields
  BY AtWork
<1> QED BY <1>1, OutcomeKin, CalmReturns

\* What is not copied yet was not replaced.
LEMMA StillPlain ==
  ASSUME foreign = 0, JobsReversible, ~job.replaced
  PROVE  /\ job.op \in {"copy", "move"} => job.how = "plain"
         /\ CopyRule(first, tree, job) /\ MoveRule(first, split, tree, job)
         /\ Renames(split, job) => Tame(job)
BY DEF JobsReversible, Reversible

-----------------------------------------------------------------------------
(* The steps that neither copy nor remove.                                 *)
LEMMA FirstReturns ==
  ASSUME JobsInv, JobsInv', foreign = 0, JobsReversible, Prepare \/ ValidateTransfer \/ AllDone \/ StopAtSource \/ DecideCancel
  PROVE  Reversible(first, split, tree', job')
<1>1. tree' = tree /\ job.pc \in {"prepare", "validate", "next", "conflict"}
  BY DEF Prepare, ValidateTransfer, AllDone, StopAtSource, DecideCancel, AtSource, AtPC, Keep, fsVars
<1>2. Working(job)
  BY <1>1 DEF Working, AsidePCs, BackPCs
<1>3. JobFits(job) /\ DOMAIN job = JobFields /\ job.undo = "none"
  BY <1>2, AtWork
<1>4. \/ \E r : job' = Outcome(job, r)
      \/ job' = Goto("next")
      \/ job' = [job EXCEPT !.i = 1, !.pc = IF job.op \in {"copy", "move"} THEN "validate" ELSE "next"]
      \/ job' = [job EXCEPT !.i = @ + 1, !.ident = @ @@ [q \in Under(Source) |-> tree[q]]]
  BY Zenon DEF Prepare, ValidateTransfer, AllDone, StopAtSource, DecideCancel
<1>5. CASE \E r : job' = Outcome(job, r)
  BY <1>1, <1>2, <1>5, EndReturns
<1>6. CASE job' = Goto("next")
  <2>1. "next" \notin {"copy"} \cup StagePCs \cup RemovePCs
    BY DEF StagePCs, CopyPCs, RemovePCs
  <2> QED BY <1>1, <1>2, <1>3, <1>6, <2>1, GotoKin, CalmReturns
<1>7. CASE job' = [job EXCEPT !.i = 1, !.pc = IF job.op \in {"copy", "move"} THEN "validate" ELSE "next"]
  <2>1. Kin(job, job') /\ Ledger(job, job')
    BY <1>3, <1>7 DEF Kin, Ledger, JobFields
  <2>2. job'.pc \in {"validate", "next"} /\ job'.stage = job.stage
    BY <1>3, <1>7 DEF JobFields
  <2>3. Tame(job) => Tame(job')
    BY <2>2 DEF Tame, StagePCs, CopyPCs, RemovePCs
  <2> QED BY <1>1, <1>2, <2>1, <2>3, CalmReturns
<1>8. CASE job' = [job EXCEPT !.i = @ + 1, !.ident = @ @@ [q \in Under(Source) |-> tree[q]]]
  <2>1. Kin(job, job') /\ Ledger(job, job') /\ (Tame(job) => Tame(job'))
    BY <1>3, <1>8 DEF Kin, Ledger, Tame, JobFields
  <2> QED BY <1>1, <1>2, <2>1, CalmReturns
<1> QED BY <1>4, <1>5, <1>6, <1>7, <1>8

LEMMA ChooseReturns ==
  ASSUME JobsInv, JobsInv', foreign = 0, JobsReversible,
         ChooseDestination \/ \E d \in {"Skip", "KeepBoth", "Replace", "MergeDirectory"}, all \in BOOLEAN : Decide(d, all)
  PROVE  Reversible(first, split, tree', job')
<1>1. tree' = tree /\ job.pc \in {"next", "conflict"}
  BY DEF ChooseDestination, Decide, AtSource, AtPC, Keep, fsVars
<1>2. Working(job)
  BY <1>1 DEF Working, AsidePCs, BackPCs
<1>3. JobFits(job) /\ DOMAIN job = JobFields /\ job.undo = "none"
  BY <1>2, AtWork
<1>4. \/ \E d \in Decisions : \E j \in {job, [job EXCEPT !.all = d]} : job' = Choice(j, d)
      \/ job' = Outcome(job, "Failed")
      \/ job' = [job EXCEPT !.target = Requested, !.how = "plain", !.pc = "transfer"]
      \/ job' = [job EXCEPT !.pc = "conflict", !.canMerge = is_dir(Source) /\ is_dir(Requested)]
  <2>1. CASE ChooseDestination
    <3>1. \/ job.all # "Ask" /\ job' = Choice(job, job.all)
          \/ job' = Outcome(job, "Failed")
          \/ job' = [job EXCEPT !.target = Requested, !.how = "plain", !.pc = "transfer"]
          \/ job' = [job EXCEPT !.pc = "conflict", !.canMerge = is_dir(Source) /\ is_dir(Requested)]
      BY <2>1, Zenon DEF ChooseDestination
    <3>2. CASE job.all # "Ask" /\ job' = Choice(job, job.all)
      <4>1. job.all \in Decisions
        BY <1>3, <3>2 DEF JobFits
      <4>2. job \in {job, [job EXCEPT !.all = job.all]}
        OBVIOUS
      <4> QED BY <3>2, <4>1, <4>2
    <3> QED BY <3>1, <3>2
  <2>2. ASSUME NEW d \in {"Skip", "KeepBoth", "Replace", "MergeDirectory"}, NEW all \in BOOLEAN, Decide(d, all)
        PROVE  \E e \in Decisions : \E j \in {job, [job EXCEPT !.all = e]} : job' = Choice(j, e)
    <3>1. job' = Choice(IF all THEN [job EXCEPT !.all = d] ELSE job, d)
      BY <2>2 DEF Decide
    <3>2. (IF all THEN [job EXCEPT !.all = d] ELSE job) \in {job, [job EXCEPT !.all = d]} /\ d \in Decisions
      BY DEF Decisions
    <3> QED BY <3>1, <3>2
  <2> QED BY <2>1, <2>2
<1>5. ASSUME NEW d \in Decisions, NEW j \in {job, [job EXCEPT !.all = d]}, job' = Choice(j, d)
      PROVE  Reversible(first, split, tree', job')
  <2>1. JobFits(j) /\ j.op = job.op /\ j.replaced = job.replaced /\ j.how = job.how /\ j.undo = "none"
        /\ j.pc = job.pc /\ j.stage = job.stage /\ j.affected = job.affected /\ j.moves = job.moves
    BY <1>3, <1>5 DEF JobFits, JobFields
  <2>2. Kin(j, job') /\ Ledger(j, job') /\ (Tame(j) => Tame(job'))
    BY <1>5, <2>1, ChoiceKin
  <2>3. Kin(job, job') /\ Ledger(job, job') /\ (Tame(job) => Tame(job'))
    BY <2>1, <2>2, AfterKin DEF Ledger, Tame
  <2> QED BY <1>1, <1>2, <2>3, CalmReturns
<1>6. CASE job' = [job EXCEPT !.target = Requested, !.how = "plain", !.pc = "transfer"]
  <2>1. Kin(job, job') /\ Ledger(job, job') /\ (Tame(job) => Tame(job'))
    BY <1>3, <1>6 DEF Kin, Ledger, Tame, JobFields, StagePCs, CopyPCs, RemovePCs
  <2> QED BY <1>1, <1>2, <2>1, CalmReturns
<1>7. CASE job' = [job EXCEPT !.pc = "conflict", !.canMerge = is_dir(Source) /\ is_dir(Requested)]
  <2>1. Kin(job, job') /\ Ledger(job, job') /\ (Tame(job) => Tame(job'))
    BY <1>3, <1>7 DEF Kin, Ledger, Tame, JobFields, StagePCs, CopyPCs, RemovePCs
  <2> QED BY <1>1, <1>2, <2>1, CalmReturns
<1> QED BY <1>1, <1>2, <1>4, <1>5, <1>6, <1>7, EndReturns

\* A source that was renamed.
LEMMA RenamedReturns ==
  ASSUME JobsInv, JobsInv', foreign = 0, JobsReversible, Working(job), job.op \in {"move", "trash"},
         NEW r \in TargetsOf(job.op), r \notin DOMAIN tree, Source \in SourcesOf(job.op), Source \in DOMAIN tree,
         tree' = Moved(Source, r), job' = NextSource(IF job.op = "move" THEN MovedTo(job, r) ELSE Affect(job, r))
  PROVE  Reversible(first, split, tree', job')
<1>1. /\ JobFits(job) /\ JobStands(job) /\ DOMAIN job = JobFields /\ job.undo = "none" /\ FileTree(tree)
  BY AtWork
<1>2. /\ DOMAIN job' = JobFields /\ job'.op = job.op /\ job'.undo = "none" /\ job'.replaced = job.replaced
      /\ job'.how = job.how /\ job'.stage = job.stage /\ job'.pc = "next"
      /\ RecordsOf(job') = Append(RecordsOf(job), [source |-> Source, target |-> r])
  <2>1. CASE job.op = "move"
    <3>1. job' = NextSource(MovedTo(job, r))
      BY <2>1
    <3> QED BY <1>1, <2>1, <3>1 DEF NextSource, MovedTo, Affect, RecordsOf, JobFields
  <2>2. CASE job.op = "trash"
    <3>1. job' = NextSource(Affect(job, r))
      BY <2>2
    <3> QED BY <1>1, <2>2, <3>1 DEF NextSource, Affect, RecordsOf, JobFields
  <2> QED BY <2>1, <2>2
<1>3. Kin(job, job')
  BY <1>2 DEF Kin
<1>4. ASSUME Renames(split, job), ~job'.replaced PROVE MoveRule(first, split, tree', job') /\ Tame(job')
  <2>1. MoveRule(first, split, tree, job) /\ Tame(job)
    BY <1>2, <1>4, StillPlain
  <2>2. JobStands(job')
    BY DEF JobsInv, Inv, JobOK
  <2>3. Undoing(job) /\ Standing(job) = DOMAIN RecordsOf(job) /\ Standing(job') = DOMAIN RecordsOf(job')
    BY <1>1, <1>2, <2>2, AllStand
  <2>4. MoveRule(first, split, tree', job')
    BY <1>1, <1>2, <1>4, <2>1, <2>3, MoveRuleGrows
  <2>5. Tame(job')
    BY <1>2, <2>1 DEF Tame, StagePCs, CopyPCs, RemovePCs
  <2> QED BY <2>4, <2>5
<1> QED BY <1>3, <1>4, RuleReturns

LEMMA PromptReturns ==
  ASSUME JobsInv, JobsInv', foreign = 0, JobsReversible, Working(job), tree' = tree, NEW e,
         job' = Prompt(e, "transfer") \/ job' = Prompt(e, "identity")
  PROVE  Reversible(first, split, tree', job')
<1>1. JobFits(job) /\ job.undo = "none"
  BY AtWork
<1>2. Kin(job, job') /\ Ledger(job, job') /\ Tame(job')
  BY <1>1, PromptKin
<1> QED BY <1>2, CalmReturns

LEMMA TransferReturns ==
  ASSUME JobsInv, JobsInv', JobsTold, foreign = 0, JobsReversible, Transfer
  PROVE  Reversible(first, split, tree', job')
<1>1. job.pc = "transfer" /\ Working(job)
  BY DEF Transfer, AtPC, Working, AsidePCs, BackPCs
<1>2. JobFits(job) /\ JobStands(job) /\ DOMAIN job = JobFields /\ job.undo = "none" /\ Told(tree, job, info, faults)
  BY <1>1, AtWork, InWork
<1>3. job.i <= Len(job.sources) /\ job.op \in {"copy", "move"} /\ job.target \in TargetsOf(job.op)
      /\ Source \in SourcesOf(job.op)
  <2>1. job.i <= Len(job.sources) /\ job.op \in {"copy", "move", "restore"} /\ job.target \in TargetsOf(job.op)
    BY <1>1, <1>2 DEF JobStands, IdlePCs
  <2>2. job.op # "restore"
    BY <1>1, <1>2 DEF Told, Named
  <2> QED BY <1>1, <2>1, <2>2, InWork
<1>4. CASE job' = Goto("copy") /\ tree' = tree /\ (job.op = "copy" \/ job.how # "plain" \/ split)
  <2>1. Kin(job, job') /\ Ledger(job, job')
    BY <1>2, <1>4, GotoKin
  <2>2. ~job'.replaced => ~Renames(split, job)
    <3>1. ~job'.replaced => ~job.replaced
      BY <2>1 DEF Kin
    <3> QED BY <1>3, <1>4, <3>1, StillPlain DEF Renames
  <2> QED BY <1>1, <1>4, <2>1, <2>2, CalmReturns
<1>5. CASE job' = NextSource(Skipped(job)) /\ tree' = tree
  BY <1>1, <1>2, <1>5, SkippedKin, CalmReturns
<1>6. CASE (job' = Prompt("io", "transfer") \/ job' = Prompt("exists", "transfer")) /\ tree' = tree
  BY <1>1, <1>6, PromptReturns
<1>7. CASE /\ job.op = "move" /\ path_lexists(Source) /\ ~path_lexists(job.target)
           /\ tree' = Moved(Source, job.target) /\ job' = NextSource(MovedTo(job, job.target))
  BY <1>1, <1>3, <1>7, RenamedReturns DEF path_lexists
<1>8. \/ job' = Goto("copy") /\ tree' = tree /\ (job.op = "copy" \/ job.how # "plain" \/ split)
      \/ job' = NextSource(Skipped(job)) /\ tree' = tree
      \/ (job' = Prompt("io", "transfer") \/ job' = Prompt("exists", "transfer")) /\ tree' = tree
      \/ /\ job.op = "move" /\ path_lexists(Source) /\ ~path_lexists(job.target)
         /\ tree' = Moved(Source, job.target) /\ job' = NextSource(MovedTo(job, job.target))
  BY <1>3 DEF Transfer, SameIdentity
<1> QED BY <1>4, <1>5, <1>6, <1>7, <1>8

LEMMA TrashReturns ==
  ASSUME JobsInv, JobsInv', JobsTold, foreign = 0, JobsReversible, TrashNext
  PROVE  Reversible(first, split, tree', job')
<1>1. job.pc \in {"next", "trash", "restore", "info"} /\ Working(job)
  BY DEF TrashNext, CheckForTrash, TrashOne, CheckForRestore, RestoreOne, RemoveInfo, AtSource, AtPC, Working,
         AsidePCs, BackPCs
<1>2. JobFits(job) /\ JobStands(job) /\ DOMAIN job = JobFields /\ job.undo = "none"
  BY <1>1, AtWork
<1>3. CASE CheckForTrash
  <2>1. tree' = tree /\ (job' = Goto("trash") \/ job' = Prompt("io", "identity"))
    BY <1>3 DEF CheckForTrash, Keep, fsVars
  <2>2. "trash" \notin {"copy"} \cup StagePCs \cup RemovePCs
    BY DEF StagePCs, CopyPCs, RemovePCs
  <2> QED BY <1>1, <1>2, <2>1, <2>2, GotoKin, CalmReturns, PromptReturns
<1>4. CASE TrashOne
  <2> DEFINE place == FirstFree(<<"trash", Plain(Base(Source))>>)
  <2>1. job.pc = "trash" /\ HasFree(<<"trash", Plain(Base(Source))>>)
    BY <1>4 DEF TrashOne, AtPC
  <2>2. job.op = "trash" /\ job.i <= Len(job.sources)
    BY <1>2, <2>1 DEF JobStands, IdlePCs
  <2>3. CASE job' = Prompt("io", "transfer") /\ tree' = tree
    BY <1>1, <2>3, PromptReturns
  <2>4. CASE path_lexists(Source) /\ tree' = Moved(Source, place) /\ job' = NextSource(Affect(job, place))
    <3>1. place \in TargetsOf(job.op) /\ place \notin DOMAIN tree /\ Source \in SourcesOf(job.op)
      <4>1. Source \in SourcesOf(job.op)
        BY <1>1, <2>2, InWork
      <4>2. place \in TargetsOf(job.op) /\ place \notin DOMAIN tree
        BY <1>2, <2>1, <2>2, TargetPaths
      <4> QED BY <4>1, <4>2
    <3> HIDE DEF place
    <3> QED BY <1>1, <2>2, <2>4, <3>1, RenamedReturns DEF path_lexists
  <2>5. \/ job' = Prompt("io", "transfer") /\ tree' = tree
        \/ path_lexists(Source) /\ tree' = Moved(Source, place) /\ job' = NextSource(Affect(job, place))
    BY <1>4 DEF TrashOne, fsVars
  <2> QED BY <2>3, <2>4, <2>5
<1>5. CASE CheckForRestore \/ RestoreOne \/ RemoveInfo
  <2>1. job.op = "restore"
    BY <1>2, <1>5 DEF CheckForRestore, RestoreOne, RemoveInfo, AtSource, AtPC, JobStands
  <2>2. \/ \E e : job' = Prompt(e, "transfer")
        \/ \E l : job' = Goto(l)
        \/ \E r : job' = Outcome(job, r)
        \/ job' = [job EXCEPT !.target = Original, !.pc = "restore"]
        \/ job' = [job EXCEPT !.how = "replace", !.replaced = TRUE, !.pc = "copy"]
        \/ job' = [job EXCEPT !.how = "merge", !.pc = "copy"]
        \/ job' = NextSource(Affect(job, Original))
    BY <1>5, Zenon DEF CheckForRestore, RestoreOne, RemoveInfo
  <2>3. Kin(job, job')
    <3>1. CASE (\E e : job' = Prompt(e, "transfer")) \/ (\E l : job' = Goto(l)) \/ (\E r : job' = Outcome(job, r))
      BY <1>2, <3>1, PromptKin, GotoKin, OutcomeKin
    <3>2. CASE job' = [job EXCEPT !.target = Original, !.pc = "restore"]
      BY <1>2, <3>2 DEF Kin, JobFields
    <3>3. CASE job' = [job EXCEPT !.how = "replace", !.replaced = TRUE, !.pc = "copy"]
      BY <1>2, <3>3 DEF Kin, JobFields
    <3>4. CASE job' = [job EXCEPT !.how = "merge", !.pc = "copy"]
      BY <1>2, <2>1, <3>4 DEF Kin, JobFields
    <3>5. CASE job' = NextSource(Affect(job, Original))
      BY <1>2, <3>5 DEF Kin, JobFields, NextSource, Affect
    <3> QED BY <2>2, <3>1, <3>2, <3>3, <3>4, <3>5
  <2> QED BY <1>1, <2>1, <2>3, OtherReturns DEF Renames
<1> QED BY <1>3, <1>4, <1>5 DEF TrashNext

-----------------------------------------------------------------------------
(* Errors, and the removal of a source.                                    *)
LEMMA RetryReturns ==
  ASSUME JobsInv, JobsInv', foreign = 0, JobsReversible, Retry
  PROVE  Reversible(first, split, tree', job')
<1>1. job.pc = "error" /\ Working(job) /\ tree' = tree
  BY DEF Retry, AtPC, Working, AsidePCs, BackPCs, Keep, fsVars
<1>2. JobFits(job) /\ job.undo = "none"
  BY <1>1, AtWork
<1>3. PICK l : /\ job' = Goto(l)
               /\ l = CASE job.stage = "remove" -> "remove" [] job.stage = "identity" -> "trash" [] OTHER -> "next"
  BY DEF Retry
<1>4. job.stage # "remove" => l \notin {"copy"} \cup StagePCs \cup RemovePCs
  <2>1. job.stage # "remove" => l \in {"trash", "next"}
    BY <1>3
  <2> QED BY <2>1 DEF StagePCs, CopyPCs, RemovePCs
<1>5. Tame(job) => job.stage # "remove"
  BY DEF Tame
<1> QED BY <1>1, <1>2, <1>3, <1>4, <1>5, GotoKin, CalmReturns

LEMMA SkipErrorReturns ==
  ASSUME JobsInv, JobsInv', foreign = 0, JobsReversible, SkipError
  PROVE  Reversible(first, split, tree', job')
<1>1. job.pc = "error" /\ Working(job) /\ tree' = tree
  BY DEF SkipError, AtPC, Working, AsidePCs, BackPCs, Keep, fsVars
<1>2. JobFits(job) /\ JobStands(job) /\ DOMAIN job = JobFields /\ job.undo = "none"
  BY <1>1, AtWork
<1>3. CASE job.stage = "remove"
  <2>1. job' = NextSource(Issue(Skipped(Affect(job, job.target))))
    <3>1. job.op # "restore"
      BY <1>1, <1>2, <1>3 DEF JobStands
    <3>2. (CASE job.stage = "remove" -> Issue(Skipped(Affect(job, job.target)))
             [] job.op = "restore"   -> Skipped(job)
             [] OTHER                -> Issue(Skipped(job))) = Issue(Skipped(Affect(job, job.target)))
      BY <1>3, <3>1, Zenon
    <3> QED BY <3>2, Zenon DEF SkipError
  <2>2. Kin(job, job')
    BY <1>2, <2>1 DEF Kin, NextSource, Issue, Skipped, Affect, JobFields
  <2>3. job.op # "copy" /\ ~Tame(job)
    BY <1>1, <1>2, <1>3 DEF Tame, JobStands, Removing, RemovePCs, Deletions, Transfers
  <2> QED BY <1>1, <2>2, <2>3, OtherReturns
<1>4. CASE job.stage # "remove"
  <2>1. job' = NextSource(Skipped(job)) \/ job' = NextSource(Issue(Skipped(job)))
    BY <1>4 DEF SkipError
  <2> QED BY <1>1, <1>2, <2>1, SkippedKin, CalmReturns
<1> QED BY <1>3, <1>4

LEMMA CancelErrorReturns ==
  ASSUME JobsInv, JobsInv', foreign = 0, JobsReversible, CancelError
  PROVE  Reversible(first, split, tree', job')
<1>1. job.pc = "error" /\ Working(job) /\ tree' = tree
  BY DEF CancelError, AtPC, Working, AsidePCs, BackPCs, Keep, fsVars
<1>2. DOMAIN job = JobFields
  BY <1>1, AtWork
<1>3. CASE job.stage = "remove" /\ job.op = "move"
  <2> DEFINE j == Issue(Affect(job, job.target))
  <2>1. job' = Outcome(j, "Cancelled")
    BY <1>3 DEF CancelError
  <2>2. DOMAIN j = JobFields /\ j.op = job.op /\ j.replaced = job.replaced /\ j.how = job.how
    BY <1>2 DEF Issue, Affect, JobFields
  <2> HIDE DEF j
  <2>3. Kin(job, job')
    BY <2>1, <2>2, OutcomeKin, AfterKin
  <2>4. ~Tame(job)
    BY <1>3 DEF Tame
  <2> QED BY <1>1, <1>3, <2>3, <2>4, OtherReturns
<1>4. CASE ~(job.stage = "remove" /\ job.op = "move")
  <2>1. job' = Outcome(job, "Cancelled")
    BY <1>4, Zenon DEF CancelError
  <2> QED BY <1>1, <2>1, EndReturns
<1> QED BY <1>3, <1>4

LEMMA RemovalReturns ==
  ASSUME JobsInv, JobsInv', foreign = 0, JobsReversible, job.pc \in {"remove", "unlink", "removing"}, Kin(job, job')
  PROVE  Reversible(first, split, tree', job')
<1>1. Working(job)
  BY DEF Working, AsidePCs, BackPCs
<1>2. JobStands(job)
  BY <1>1, AtWork
<1>3. job.op # "copy" /\ ~Tame(job)
  BY <1>2 DEF Tame, JobStands, Removing, RemovePCs, Deletions, Transfers
<1> QED BY <1>1, <1>3, OtherReturns

LEMMA RemoveReturns ==
  ASSUME JobsInv, JobsInv', foreign = 0, JobsReversible, RemoveNext
  PROVE  Reversible(first, split, tree', job')
<1>1. job.pc \in {"next", "remove", "unlink", "removing"} /\ Working(job)
  BY DEF RemoveNext, RemoveRoot, UnlinkRoot, RemoveChild, RemoveFolder, Delete, AtSource, AtPC, Working, AsidePCs, BackPCs
<1>2. JobFits(job) /\ DOMAIN job = JobFields /\ job.undo = "none"
  BY <1>1, AtWork
<1>3. CASE Delete
  <2>1. job' = Goto("remove") /\ job.op \in {"delete", "purge"}
    BY <1>3 DEF Delete, AtSource
  <2> QED BY <1>1, <1>2, <2>1, GotoKin, OtherReturns DEF Renames
<1>4. CASE RemoveRoot \/ UnlinkRoot \/ (\E c \in job.walk : RemoveChild(c)) \/ RemoveFolder
  <2>1. job.pc \in {"remove", "unlink", "removing"}
    BY <1>4 DEF RemoveRoot, UnlinkRoot, RemoveChild, RemoveFolder, AtPC
  <2>2. \/ \E s : job' = Prompt("io", s)
        \/ \E l : job' = Goto(l)
        \/ RemoveStopped \/ Removed
        \/ job' = [job EXCEPT !.walk = {q[3] : q \in Below(Source)}, !.pc = "removing"]
        \/ \E c : job' = [job EXCEPT !.walk = @ \ {c}]
    BY <1>4, Zenon DEF RemoveRoot, UnlinkRoot, RemoveChild, RemoveFolder, RemoveFails
  <2>3. CASE (\E s : job' = Prompt("io", s)) \/ \E l : job' = Goto(l)
    BY <1>2, <2>1, <2>3, PromptKin, GotoKin, RemovalReturns
  <2>4. CASE RemoveStopped
    <3> DEFINE j == IF job.op = "move" THEN Issue(Affect(job, job.target)) ELSE Issue(job)
    <3>1. job' = [Outcome(j, "Cancelled") EXCEPT !.error = "cancelled"]
      BY <2>4 DEF RemoveStopped
    <3>2. DOMAIN j = JobFields /\ j.op = job.op /\ j.replaced = job.replaced /\ j.how = job.how
      BY <1>2 DEF Issue, Affect, JobFields
    <3> HIDE DEF j
    <3>3. Kin(job, Outcome(j, "Cancelled"))
      BY <3>2, OutcomeKin, AfterKin
    <3>4. Kin(job, job')
      BY <3>1, <3>3 DEF Kin, JobFields
    <3> QED BY <2>1, <3>4, RemovalReturns
  <2>5. CASE Removed
    <3>1. \/ job' = NextSource(MovedTo(job, job.target))
          \/ job' = Goto("info")
          \/ job' = NextSource(Affect(job, Source))
      BY <2>5, Zenon DEF Removed
    <3>2. CASE job' = NextSource(MovedTo(job, job.target))
      <4>1. Kin(job, job')
        BY <1>2, <3>2 DEF NextSource, MovedTo, Affect, Kin, JobFields
      <4> QED BY <2>1, <4>1, RemovalReturns
    <3>3. CASE job' = Goto("info")
      BY <1>2, <2>1, <3>3, GotoKin, RemovalReturns
    <3>4. CASE job' = NextSource(Affect(job, Source))
      <4>1. Kin(job, job')
        BY <1>2, <3>4 DEF NextSource, Affect, Kin, JobFields
      <4> QED BY <2>1, <4>1, RemovalReturns
    <3> QED BY <3>1, <3>2, <3>3, <3>4
  <2>6. CASE job' = [job EXCEPT !.walk = {q[3] : q \in Below(Source)}, !.pc = "removing"]
    <3>1. Kin(job, job')
      BY <1>2, <2>6 DEF Kin, JobFields
    <3> QED BY <2>1, <3>1, RemovalReturns
  <2>7. CASE \E c : job' = [job EXCEPT !.walk = @ \ {c}]
    <3>1. Kin(job, job')
      BY <1>2, <2>7 DEF Kin, JobFields
    <3> QED BY <2>1, <3>1, RemovalReturns
  <2> QED BY <2>2, <2>3, <2>4, <2>5, <2>6, <2>7
<1> QED BY <1>3, <1>4 DEF RemoveNext

-----------------------------------------------------------------------------
(* The copy of a source: what it changes is hidden, until it is committed. *)
LEMMA ShownIf ==
  ASSUME NEW t, NEW u, Stays(t, u, VisiblePaths), NoneComes(t, u, VisiblePaths)
  PROVE  Shown(t, u)
BY DEF Stays, NoneComes, Shown

LEMMA HiddenRootShown ==
  ASSUME FileTree(tree), NEW p \in Roots, p[2] \notin VisibleNames
  PROVE  /\ TreeOf(p) \cap VisiblePaths = {} /\ p \notin VisiblePaths
         /\ Shown(tree, Without(p))
         /\ \A r \in Roots : p # r /\ r[2] \notin VisibleNames /\ r \notin DOMAIN tree => Shown(tree, Moved(p, r))
<1>1. \A q \in VisiblePaths : q \in Paths /\ q[2] \in VisibleNames
  BY VisibleFacts
<1>2. \A r \in Roots : r[2] \notin VisibleNames => \A q \in VisiblePaths : RootOf(q) # r /\ q \notin TreeOf(r)
  <2> SUFFICES ASSUME NEW r \in Roots, r[2] \notin VisibleNames, NEW q \in VisiblePaths
               PROVE  RootOf(q) # r /\ q \notin TreeOf(r)
    OBVIOUS
  <2>1. q \in Paths /\ q[2] = RootOf(q)[2] /\ q[2] \in VisibleNames
    BY <1>1, TreesApart
  <2> QED BY <2>1 DEF TreeOf
<1>3. TreeOf(p) \cap VisiblePaths = {} /\ p \notin VisiblePaths
  BY <1>1, <1>2
<1>4. Shown(tree, Without(p))
  <2>1. Stays(tree, Without(p), Paths \ TreeOf(p)) /\ NoneComes(tree, Without(p), VisiblePaths)
    BY WithoutStays, RootPaths
  <2>2. Stays(tree, Without(p), VisiblePaths)
    BY <1>1, <1>3, <2>1, StaysLess
  <2> QED BY <2>1, <2>2, ShownIf
<1>5. ASSUME NEW r \in Roots, p # r, r[2] \notin VisibleNames, r \notin DOMAIN tree PROVE Shown(tree, Moved(p, r))
  <2> DEFINE u == Moved(p, r)
  <2>1. \A q \in Paths : RootOf(q) # p /\ RootOf(q) # r =>
               /\ q \in DOMAIN tree <=> q \in DOMAIN u
               /\ q \in DOMAIN tree => u[q] = tree[q]
    BY <1>5, MovedIs
  <2> HIDE DEF u
  <2>2. Shown(tree, u)
    BY <1>1, <1>2, <1>5, <2>1 DEF Shown
  <2> QED BY <2>2 DEF u
<1> QED BY <1>3, <1>4, <1>5

LEMMA WithShown ==
  ASSUME NEW p \in Paths, p \notin VisiblePaths, NEW n
  PROVE  Shown(tree, With(p, n))
<1>1. Stays(tree, With(p, n), Paths \ {p}) /\ NoneComes(tree, With(p, n), VisiblePaths)
  BY WithStays
<1>2. Stays(tree, With(p, n), VisiblePaths)
  BY <1>1, VisibleFacts, StaysLess
<1> QED BY <1>1, <1>2, ShownIf

\* Of a job that copies, and has not replaced, the work is in the staging tree.
LEMMA WorkHidden ==
  ASSUME JobsInv, foreign = 0, JobsReversible, job.pc \in {"copy"} \cup StagePCs, job.op = "copy", ~job.replaced
  PROVE  /\ job.how = "plain" /\ Work = Staging /\ Work \in Roots /\ Work[2] \notin VisibleNames
         /\ Work \in Paths /\ Work \notin VisiblePaths /\ FileTree(tree) /\ DOMAIN job = JobFields
         /\ job.pc \notin {"exchange", "place", "discard"} /\ JobFits(job) /\ JobStands(job)
<1>1. /\ JobFits(job) /\ JobStands(job) /\ DOMAIN job = JobFields /\ Staging = StagingOf(job) /\ Work \in Roots
      /\ FileTree(tree)
  BY InCopy DEF JobsInv, Inv
<1>2. job.how = "plain"
  BY StillPlain
<1>3. Work = Staging
  BY <1>2 DEF Work
<1>4. Work[2] \notin VisibleNames
  BY <1>1, <1>3, HiddenRoots
<1>5. Work \notin VisiblePaths /\ Work \in Paths
  BY <1>1, <1>4, RootPaths, VisibleFacts
<1>6. job.pc \notin {"exchange", "place", "discard"}
  BY <1>1, <1>2 DEF JobStands
<1> QED BY <1>1, <1>2, <1>3, <1>4, <1>5, <1>6

LEMMA CopyFailReturns ==
  ASSUME JobsInv, JobsInv', foreign = 0, JobsReversible, job.pc \in {"copy"} \cup StagePCs, NEW e, job' = CopyFails(e),
         job.op = "copy" /\ ~job.replaced => Shown(tree, tree')
  PROVE  Reversible(first, split, tree', job')
<1>1. JobFits(job) /\ job.undo = "none"
  BY InCopy
<1>2. Kin(job, job') /\ Ledger(job, job')
  BY <1>1, CopyFailsKin
<1>3. ~job'.replaced => ~job.replaced
  BY <1>2 DEF Kin
<1> QED BY <1>2, <1>3, StageReturns

LEMMA LeafShown ==
  ASSUME JobsInv, JobsTold, foreign = 0, job.pc = "leaf"
  PROVE  Shown(tree, Without(Leaf))
<1>1. Stays(tree, Without(Leaf), VisiblePaths) /\ Leaf \in Paths
  BY LeafAside
<1>2. FileTree(tree)
  BY DEF JobsInv, Inv
<1>3. NoneComes(tree, Without(Leaf), VisiblePaths)
  BY <1>1, <1>2, WithoutStays
<1> QED BY <1>1, <1>3, ShownIf

\* What is read to a leaf is hidden.
LEMMA ReadShown ==
  ASSUME JobsInv, foreign = 0, JobsReversible, job.pc \in {"copy", "walk"},
         NEW item, item = << >> \/ \E c \in VisibleNames : item = <<c>>, ReadToLeaf(item)
  PROVE  /\ Kin(job, job') /\ Ledger(job, job')
         /\ job.op = "copy" /\ ~job.replaced => Shown(tree, tree')
<1>1. job.pc \in {"copy"} \cup StagePCs /\ job.pc # "leaf"
  BY DEF StagePCs, CopyPCs
<1>2. DOMAIN job = JobFields /\ job.undo = "none" /\ Work \in Roots
  BY <1>1, InCopy
<1>3. job' = [job EXCEPT !.item = item, !.pc = "leaf"]
  BY DEF ReadToLeaf
<1>4. Kin(job, job') /\ Ledger(job, job')
  BY <1>2, <1>3 DEF Kin, Ledger, JobFields
<1>5. PICK leaf \in Paths : leaf \notin VisiblePaths /\ tree' = With(leaf, NewNode(tree[Source \o item].data))
  <2>1. tree' = With(Append(Front(Work \o item), Hidden(".leaf", 0)), NewNode(tree[Source \o item].data))
    BY DEF ReadToLeaf
  <2>2. CASE item = << >>
    <3>1. Append(Front(Work \o item), Hidden(".leaf", 0)) = <<Work[1], Hidden(".leaf", 0)>>
      <4>1. Work \o << >> = Work /\ Append(Front(Work), Hidden(".leaf", 0)) = <<Work[1], Hidden(".leaf", 0)>>
        BY <1>1, NewLeaf
      <4> QED BY <2>2, <4>1, Zenon
    <3>2. <<Work[1], Hidden(".leaf", 0)>> \in Paths /\ <<Work[1], Hidden(".leaf", 0)>> \notin VisiblePaths
      BY <1>2, LeafOutside DEF Paths
    <3> QED BY <2>1, <3>1, <3>2
  <2>3. ASSUME NEW c \in VisibleNames, item = <<c>>
        PROVE  Append(Front(Work \o item), Hidden(".leaf", 0)) \in Paths \ VisiblePaths
    <3>1. Append(Front(Work \o <<c>>), Hidden(".leaf", 0)) = <<Work[1], Work[2], Hidden(".leaf", 0)>>
      BY <1>1, NewLeaf
    <3>2. /\ <<Work[1], Work[2], Hidden(".leaf", 0)>> \in Paths
          /\ <<Work[1], Work[2], Hidden(".leaf", 0)>> \notin VisiblePaths
      BY <1>2, LeafOutside DEF Paths
    <3> QED BY <2>3, <3>1, <3>2
  <2> QED BY <2>1, <2>2, <2>3
<1> QED BY <1>4, <1>5, WithShown

\* A step while a source is copied that shows nothing.
LEMMA StageShown ==
  ASSUME JobsInv, JobsInv', foreign = 0, JobsReversible, job.pc \in {"copy"} \cup StagePCs,
         Kin(job, job'), Ledger(job, job'), job.op = "copy" /\ ~job.replaced => Shown(tree, tree')
  PROVE  Reversible(first, split, tree', job')
<1>1. ~job'.replaced => ~job.replaced
  BY DEF Kin
<1> QED BY <1>1, StageReturns

LEMMA CopyRootReturns ==
  ASSUME JobsInv, JobsInv', foreign = 0, JobsReversible, CopyRoot
  PROVE  Reversible(first, split, tree', job')
<1>0. job.pc = "copy" /\ job.pc \in {"copy"} \cup StagePCs
  BY DEF CopyRoot, AtPC
<1>1. DOMAIN job = JobFields /\ job.undo = "none"
  BY <1>0, InCopy
<1>2. CASE \E e \in {"cancelled", "io", "exists"} : CopyFail(e)
  <2>1. PICK e : job' = CopyFails(e) /\ tree' = tree
    BY <1>2 DEF CopyFail
  <2>2. Shown(tree, tree')
    BY <2>1 DEF Shown
  <2> QED BY <1>0, <2>1, <2>2, CopyFailReturns
<1>3. CASE ReadToLeaf(<< >>)
  <2>1. /\ Kin(job, job') /\ Ledger(job, job')
        /\ job.op = "copy" /\ ~job.replaced => Shown(tree, tree')
    BY <1>0, <1>3, ReadShown
  <2> QED BY <1>0, <2>1, StageShown
<1>4. CASE /\ job' = [job EXCEPT !.walk = {q[3] : q \in Below(Source)}, !.pc = "walk"]
           /\ tree' = IF path_lexists(Work) THEN tree ELSE With(Work, NewNode(Folder))
  <2>1. Kin(job, job') /\ Ledger(job, job')
    BY <1>1, <1>4 DEF Kin, Ledger, JobFields
  <2>2. ASSUME job.op = "copy", ~job.replaced PROVE Shown(tree, tree')
    <3>1. Work \in Paths /\ Work \notin VisiblePaths
      BY <1>0, <2>2, WorkHidden
    <3>2. Shown(tree, tree) /\ Shown(tree, With(Work, NewNode(Folder)))
      <4>1. Shown(tree, tree)
        BY DEF Shown
      <4> QED BY <3>1, <4>1, WithShown
    <3> QED BY <1>4, <3>2
  <2> QED BY <1>0, <2>1, <2>2, StageShown
<1> QED BY <1>2, <1>3, <1>4, Zenon DEF CopyRoot

LEMMA CopyChildReturns ==
  ASSUME JobsInv, JobsInv', foreign = 0, JobsReversible, NEW c, CopyChild(c)
  PROVE  Reversible(first, split, tree', job')
<1>0. job.pc = "walk" /\ job.pc \in {"copy"} \cup StagePCs /\ c \in job.walk
  BY DEF CopyChild, AtPC, StagePCs, CopyPCs
<1>1. c \in VisibleNames
  <2>1. JobStands(job)
    BY <1>0, InCopy
  <2> QED BY <1>0, <2>1 DEF JobStands
<1>2. CASE \E e \in {"cancelled", "io", "exists"} : CopyFail(e)
  <2>1. PICK e : job' = CopyFails(e) /\ tree' = tree
    BY <1>2 DEF CopyFail
  <2>2. Shown(tree, tree')
    BY <2>1 DEF Shown
  <2> QED BY <1>0, <2>1, <2>2, CopyFailReturns
<1>3. CASE ReadToLeaf(<<c>>)
  <2>1. /\ Kin(job, job') /\ Ledger(job, job')
        /\ job.op = "copy" /\ ~job.replaced => Shown(tree, tree')
    BY <1>0, <1>1, <1>3, ReadShown
  <2> QED BY <1>0, <2>1, StageShown
<1> QED BY <1>2, <1>3, Zenon DEF CopyChild

LEMMA PlaceLeafReturns ==
  ASSUME JobsInv, JobsInv', JobsTold, foreign = 0, JobsReversible, PlaceLeaf
  PROVE  Reversible(first, split, tree', job')
<1>0. job.pc = "leaf" /\ job.pc \in {"copy"} \cup StagePCs
  BY DEF PlaceLeaf, AtPC, StagePCs, CopyPCs
<1>1. JobFits(job) /\ JobOK(job) /\ DOMAIN job = JobFields /\ job.undo = "none"
  BY <1>0, InCopy
<1>2. CASE tree' = Without(Leaf) /\ \E e : job' = CopyFails(e)
  <2>1. Shown(tree, tree')
    BY <1>0, <1>2, LeafShown
  <2> QED BY <1>0, <1>2, <2>1, CopyFailReturns
<1>3. CASE /\ ~path_lexists(ItemTo) /\ path_lexists(Leaf) /\ tree' = Moved(Leaf, ItemTo)
           /\ job' = IF job.item = << >> THEN Goto("commit")
                     ELSE [job EXCEPT !.walk = @ \ {job.item[1]}, !.item = << >>, !.pc = "walk"]
  <2>1. Kin(job, job') /\ Ledger(job, job')
    <3>1. Kin(job, Goto("commit")) /\ Ledger(job, Goto("commit"))
      BY <1>1, GotoKin
    <3>2. ASSUME job' = [job EXCEPT !.walk = @ \ {job.item[1]}, !.item = << >>, !.pc = "walk"]
          PROVE  Kin(job, job') /\ Ledger(job, job')
      BY <1>1, <3>2 DEF Kin, Ledger, JobFields
    <3> QED BY <1>3, <3>1, <3>2
  <2>2. ASSUME job.op = "copy", ~job.replaced PROVE Shown(tree, tree')
    <3>1. Work \in Roots /\ Work[2] \notin VisibleNames /\ FileTree(tree)
      BY <1>0, <2>2, WorkHidden
    <3>2. ItemTo \notin DOMAIN tree /\ Leaf \in DOMAIN tree
      BY <1>3 DEF path_lexists
    <3>3. \/ /\ Leaf \in Roots /\ ItemTo \in Roots /\ Leaf # ItemTo /\ ItemTo = Work
             /\ Leaf = <<Work[1], Hidden(".leaf", 0)>>
          \/ /\ Leaf \in Children /\ ItemTo \in Children /\ RootOf(Leaf) = Work /\ RootOf(ItemTo) = Work
      BY <1>0, <1>1, LeafPaths
    <3>4. CASE /\ Leaf \in Roots /\ ItemTo \in Roots /\ Leaf # ItemTo /\ ItemTo = Work
               /\ Leaf = <<Work[1], Hidden(".leaf", 0)>>
      <4>1. Leaf[2] \notin VisibleNames
        <5>1. Leaf[2] = Hidden(".leaf", 0)
          BY <3>4
        <5> QED BY <5>1, NameFacts DEF HiddenTags
      <4> QED BY <1>3, <3>1, <3>2, <3>4, <4>1, HiddenRootShown
    <3>5. CASE Leaf \in Children /\ ItemTo \in Children /\ RootOf(Leaf) = Work /\ RootOf(ItemTo) = Work
      <4>1. /\ DOMAIN tree' = (DOMAIN tree \ {Leaf}) \cup {ItemTo}
            /\ \A q \in DOMAIN tree \ {Leaf} : tree'[q] = tree[q]
        <5>1. Leaf \in Children /\ ItemTo \in Children /\ RootOf(Leaf) = RootOf(ItemTo) /\ tree' = Moved(Leaf, ItemTo)
          BY <1>3, <3>5
        <5>2. /\ DOMAIN Moved(Leaf, ItemTo) = (DOMAIN tree \ {Leaf}) \cup {ItemTo}
              /\ \A q \in DOMAIN tree \ {Leaf} : Moved(Leaf, ItemTo)[q] = tree[q]
          BY <3>1, <3>2, <5>1, MovedChild
        <5> QED BY <5>1, <5>2, Zenon
      <4>2. Leaf[2] = Work[2] /\ ItemTo[2] = Work[2]
        BY <3>5 DEF RootOf
      <4>3. \A q \in VisiblePaths : q # Leaf /\ q # ItemTo
        BY <3>1, <4>2, VisibleFacts
      <4> QED BY <4>1, <4>3 DEF Shown
    <3> QED BY <3>3, <3>4, <3>5
  <2> QED BY <1>0, <2>1, <2>2, StageShown
<1> QED BY <1>2, <1>3, Zenon DEF PlaceLeaf, Cleared

LEMMA SealReturns ==
  ASSUME JobsInv, JobsInv', foreign = 0, JobsReversible, Seal
  PROVE  Reversible(first, split, tree', job')
<1>1. job.pc \in {"copy"} \cup StagePCs /\ tree' = tree
  BY DEF Seal, AtPC, Keep, fsVars, StagePCs, CopyPCs
<1>2. Shown(tree, tree')
  BY <1>1 DEF Shown
<1>3. CASE job' = Goto("commit")
  <2>1. JobFits(job) /\ job.undo = "none"
    BY <1>1, InCopy
  <2>2. Kin(job, job') /\ Ledger(job, job')
    BY <1>3, <2>1, GotoKin
  <2> QED BY <1>1, <1>2, <2>2, StageShown
<1>4. CASE job' = CopyFails("io")
  BY <1>1, <1>2, <1>4, CopyFailReturns
<1> QED BY <1>3, <1>4 DEF Seal

LEMMA CopiedKin ==
  ASSUME JobFits(job), job.undo = "none"
  PROVE  Kin(job, Copied(job))
<1>1. DOMAIN job = JobFields
  BY DEF JobFits
<1>2. CASE job.op = "copy"
  <2>1. Copied(job) = NextSource(Affect(job, job.target))
    BY <1>2 DEF Copied
  <2> QED BY <1>1, <2>1 DEF Kin, NextSource, Affect, JobFields
<1>3. CASE job.op # "copy"
  <2>1. Copied(job) = [job EXCEPT !.pc = "remove"]
    BY <1>3 DEF Copied
  <2> QED BY <1>1, <2>1 DEF Kin, JobFields
<1> QED BY <1>2, <1>3

\* A copy takes its place.
LEMMA CommitReturns ==
  ASSUME JobsInv, JobsInv', foreign = 0, JobsReversible, Commit
  PROVE  Reversible(first, split, tree', job')
<1>0. job.pc = "commit" /\ job.pc \in {"copy"} \cup StagePCs /\ Working(job) /\ ~Tame(job)
  BY DEF Commit, AtPC, StagePCs, CopyPCs, Working, AsidePCs, BackPCs, Tame
<1>1. JobFits(job) /\ JobStands(job) /\ DOMAIN job = JobFields /\ job.undo = "none" /\ job.target \in TargetsOf(job.op)
  BY <1>0, InCopy
<1>2. CASE job.how = "merge" /\ job' = Copied(job)
  <2>1. Kin(job, job')
    BY <1>1, <1>2, CopiedKin
  <2>2. ~(job.op = "copy" /\ ~job'.replaced)
    BY <1>0, <1>2, <2>1, StillPlain DEF Kin
  <2> QED BY <1>0, <2>1, <2>2, StageReturns
<1>3. CASE CopyFail("exists")
  <2>1. job' = CopyFails("exists") /\ Shown(tree, tree')
    BY <1>3 DEF CopyFail, Shown
  <2> QED BY <1>0, <2>1, CopyFailReturns
<1>4. CASE ~path_lexists(job.target) /\ tree' = Moved(Staging, job.target) /\ job' = Copied(job)
  <2>1. Kin(job, job')
    BY <1>1, <1>4, CopiedKin
  <2>2. ~job'.replaced => ~job.replaced
    BY <2>1 DEF Kin
  <2>3. Renames(split, job) => job'.replaced
    BY <1>0, <2>2, StillPlain
  <2>4. ASSUME job.op = "copy", ~job'.replaced PROVE CopyRule(first, tree', job')
    <3>1. /\ Staging \in Roots /\ Staging[2] \notin VisibleNames /\ FileTree(tree)
      BY <1>0, <2>2, <2>4, WorkHidden
    <3>2. Staging \notin VisibleRoots
      BY <3>1, RootsShown
    <3>3. job' = NextSource(Affect(job, job.target))
      BY <1>4, <2>4 DEF Copied
    <3>4. /\ job'.affected = Append(job.affected, [source |-> Source, target |-> job.target])
          /\ job'.undo = "none"
      BY <1>1, <3>3 DEF NextSource, Affect, JobFields
    <3>5. JobStands(job')
      BY DEF JobsInv, Inv, JobOK
    <3>6. StillOut(job) = DOMAIN job.affected /\ StillOut(job') = DOMAIN job'.affected /\ Undoing(job)
          /\ job.pc # "unquarantine"
      BY <1>1, <3>4, <3>5, AllStand
    <3>7. CopyRule(first, tree, job) /\ job.target \notin DOMAIN tree
      BY <1>4, <2>2, <2>4, StillPlain DEF path_lexists
    <3>8. CopyRule(first, Moved(Staging, job.target), job')
      BY <1>1, <2>4, <3>1, <3>2, <3>4, <3>6, <3>7, CopyRuleGrows
    <3> QED BY <1>4, <3>8
  <2> QED BY <1>0, <2>1, <2>3, <2>4, RuleReturns
<1>5. CASE /\ job' = Goto(IF path_lexists(job.target) THEN "exchange" ELSE "place")
           /\ UNCHANGED tree
  <2>1. Kin(job, job') /\ Ledger(job, job')
    BY <1>1, <1>5, GotoKin
  <2>2. Shown(tree, tree')
    BY <1>5 DEF Shown
  <2> QED BY <1>0, <2>1, <2>2, StageShown
<1> QED BY <1>2, <1>3, <1>4, <1>5, Zenon DEF Commit

\* What is put in the place of another was a replacement.
LEMMA ReplaceReturns ==
  ASSUME JobsInv, JobsInv', foreign = 0, JobsReversible, Exchange \/ Place \/ Discard
  PROVE  Reversible(first, split, tree', job')
<1>0. job.pc \in {"exchange", "place", "discard"} /\ job.pc \in {"copy"} \cup StagePCs
  BY DEF Exchange, Place, Discard, AtPC, StagePCs, CopyPCs
<1>1. JobFits(job) /\ job.undo = "none"
  BY <1>0, InCopy
<1>2. job' = Copied(job) \/ \E l : job' = Goto(l)
  BY Zenon DEF Exchange, Place, Discard
<1>3. Kin(job, job')
  BY <1>1, <1>2, CopiedKin, GotoKin
<1>4. ~(job.op = "copy" /\ ~job'.replaced)
  BY <1>0, <1>3, WorkHidden DEF Kin
<1> QED BY <1>0, <1>3, <1>4, StageReturns

LEMMA CleanUpReturns ==
  ASSUME JobsInv, JobsInv', foreign = 0, JobsReversible, CleanUp
  PROVE  Reversible(first, split, tree', job')
<1>0. job.pc = "cleanup" /\ job.pc \in {"copy"} \cup StagePCs
  BY DEF CleanUp, AtPC, StagePCs
<1>1. JobFits(job) /\ DOMAIN job = JobFields /\ job.undo = "none"
  BY <1>0, InCopy
<1>2. Kin(job, job') /\ Ledger(job, job')
  <2>1. job' = Outcome(job, "Cancelled") \/ job' = Prompt(job.error, "transfer")
    BY DEF CleanUp
  <2> QED BY <1>1, <2>1, OutcomeKin, PromptKin
<1>3. ASSUME job.op = "copy", ~job.replaced PROVE Shown(tree, tree')
  <2>1. job.how = "plain" /\ Staging \in Roots /\ Staging[2] \notin VisibleNames /\ FileTree(tree)
    BY <1>0, <1>3, WorkHidden
  <2>2. tree' = Without(Staging)
    BY <2>1 DEF CleanUp, Cleared
  <2> QED BY <2>1, <2>2, HiddenRootShown
<1> QED BY <1>0, <1>2, <1>3, StageShown

LEMMA CopyReturns ==
  ASSUME JobsInv, JobsInv', JobsTold, foreign = 0, JobsReversible, CopyNext
  PROVE  Reversible(first, split, tree', job')
<1>1. CASE ChooseDestination \/ DecideCancel \/ Transfer \/ CopyRoot \/ PlaceLeaf \/ Seal
  BY <1>1, ChooseReturns, FirstReturns, TransferReturns, CopyRootReturns, PlaceLeafReturns, SealReturns
<1>2. ASSUME NEW c \in job.walk, CopyChild(c) PROVE Reversible(first, split, tree', job')
  BY <1>2, CopyChildReturns
<1>3. ASSUME NEW d \in {"Skip", "KeepBoth", "Replace", "MergeDirectory"}, NEW all \in BOOLEAN, Decide(d, all)
      PROVE  Reversible(first, split, tree', job')
  BY <1>3, ChooseReturns
<1>4. CASE Commit \/ Exchange \/ Place \/ Discard \/ CleanUp
  BY <1>4, CommitReturns, ReplaceReturns, CleanUpReturns
<1> QED BY <1>1, <1>2, <1>3, <1>4 DEF CopyNext

\* A call fails by itself.
LEMMA FaultReturns ==
  ASSUME JobsInv, JobsInv', JobsTold, foreign = 0, JobsReversible, SystemFault
  PROVE  Reversible(first, split, tree', job')
<1>1. CASE job.pc \in {"copy", "walk", "commit", "exchange", "place", "discard"} /\ CopyFail("io")
  <2>1. job' = CopyFails("io") /\ Shown(tree, tree') /\ job.pc \in {"copy"} \cup StagePCs
    BY <1>1 DEF CopyFail, StagePCs, CopyPCs, Shown
  <2> QED BY <2>1, CopyFailReturns
<1>2. CASE job.pc = "leaf" /\ job' = CopyFails("io") /\ tree' = Without(Leaf)
  <2>1. job.pc \in {"copy"} \cup StagePCs /\ Shown(tree, tree')
    BY <1>2, LeafShown DEF StagePCs, CopyPCs
  <2> QED BY <1>2, <2>1, CopyFailReturns
<1>3. CASE /\ job.pc \in {"trash", "restore", "info"} \/ (job.pc = "transfer" /\ job.op = "move")
           /\ job' = Prompt("io", "transfer") /\ UNCHANGED tree
  <2>1. Working(job)
    BY <1>3 DEF Working, AsidePCs, BackPCs
  <2> QED BY <1>3, <2>1, PromptReturns
<1>4. CASE job.pc \in {"remove", "unlink", "removing"} /\ RemoveFails /\ UNCHANGED tree
  <2>1. PICK s : job' = Prompt("io", s)
    BY <1>4 DEF RemoveFails
  <2>2. JobFits(job) /\ job.undo = "none"
    <3>1. Working(job)
      BY <1>4 DEF Working, AsidePCs, BackPCs
    <3> QED BY <3>1, AtWork
  <2>3. Kin(job, job')
    BY <2>1, <2>2, PromptKin
  <2> QED BY <1>4, <2>3, RemovalReturns
<1> QED BY <1>1, <1>2, <1>3, <1>4 DEF SystemFault, AtPC

-----------------------------------------------------------------------------
(* The undo.                                                               *)
Undoes(j, k) ==
    /\ k.op = j.op /\ k.how = j.how /\ k.replaced = j.replaced /\ k.stage = j.stage
    /\ k.affected = j.affected /\ k.moves = j.moves

LEMMA UndoReturns ==
  ASSUME foreign = 0, JobsReversible, Undoes(job, job'), job'.pc \in UndoPCs \cup {"ended"}, job'.undo # "offered",
         ~job.replaced /\ job.op = "move" /\ split => /\ job'.pc = "move back" => job'.n # 0
                                                     /\ job'.undo # "done",
         job'.undo = "done" => job'.op \in {"copy", "move", "trash"} /\ job'.pc = "ended",
         ~job.replaced => CopyRule(first, tree', job') /\ MoveRule(first, split, tree', job')
  PROVE  Reversible(first, split, tree', job')
<1> SUFFICES ASSUME ~job.replaced PROVE Reversible(first, split, tree', job')
  BY DEF Reversible, Undoes
<1>1. /\ job.op \in {"copy", "move"} => job.how = "plain"
      /\ Renames(split, job) => Tame(job)
  BY StillPlain
<1>2. Renames(split, job') <=> Renames(split, job)
  BY DEF Renames, Undoes
<1>3. job'.pc \notin {"copy"} \cup StagePCs \cup RemovePCs
  BY DEF UndoPCs, AsidePCs, BackPCs, StagePCs, CopyPCs, RemovePCs
<1>4. Renames(split, job') => Tame(job')
  BY <1>1, <1>2, <1>3 DEF Tame, Undoes
<1> QED BY <1>1, <1>4 DEF Reversible, Undoes

\* The fields after the steps of an undo.
LEMMA UndoFields ==
  ASSUME DOMAIN job = JobFields
  PROVE  /\ \A r : LET k == UndoEnds(r) IN Undoes(job, k) /\ k.pc = "ended" /\ k.undo = r
         /\ \A l : LET k == Goto(l) IN Undoes(job, k) /\ k.pc = l /\ k.undo = job.undo /\ k.n = job.n
         /\ \A n : LET k == [job EXCEPT !.n = n] IN Undoes(job, k) /\ k.pc = job.pc /\ k.undo = job.undo /\ k.n = n
<1>1. ASSUME NEW r PROVE LET k == UndoEnds(r) IN Undoes(job, k) /\ k.pc = "ended" /\ k.undo = r
  BY DEF UndoEnds, Undoes, JobFields
<1>2. ASSUME NEW l PROVE LET k == Goto(l) IN Undoes(job, k) /\ k.pc = l /\ k.undo = job.undo /\ k.n = job.n
  BY DEF Goto, Undoes, JobFields
<1>3. ASSUME NEW n
      PROVE  LET k == [job EXCEPT !.n = n] IN Undoes(job, k) /\ k.pc = job.pc /\ k.undo = job.undo /\ k.n = n
  BY DEF Undoes, JobFields
<1> QED BY <1>1, <1>2, <1>3

LEMMA UndoFieldsTwo ==
  ASSUME DOMAIN job = JobFields, NEW l, NEW n, job' = [job EXCEPT !.pc = l, !.n = n]
  PROVE  Undoes(job, job') /\ job'.pc = l /\ job'.undo = job.undo /\ job'.n = n
BY DEF Undoes, JobFields

LEMMA UndoFieldsStuck ==
  ASSUME DOMAIN job = JobFields, NEW n, NEW s, job' = [job EXCEPT !.n = n, !.stuck = s]
  PROVE  Undoes(job, job') /\ job'.pc = job.pc /\ job'.undo = job.undo /\ job'.n = n
BY DEF Undoes, JobFields

\* Of an undo that was given up nothing is said.
LEMMA GivenUpReturns ==
  ASSUME foreign = 0, JobsReversible, NEW r \in {"halfway", "conflict", "recovery"}, DOMAIN job = JobFields, job' = UndoEnds(r)
  PROVE  Reversible(first, split, tree', job')
<1>1. Undoes(job, job') /\ job'.pc = "ended" /\ job'.undo = r
  BY UndoFields
<1>2. ~Undoing(job')
  BY <1>1 DEF Undoing
<1>3. CopyRule(first, tree', job') /\ MoveRule(first, split, tree', job')
  BY <1>2 DEF CopyRule, MoveRule
<1> QED BY <1>1, <1>3, UndoReturns

LEMMA UndoBegins ==
  ASSUME JobsInv, foreign = 0, JobsReversible, Undo
  PROVE  Reversible(first, split, tree', job')
<1>1. /\ JobFits(job) /\ JobStands(job) /\ DOMAIN job = JobFields /\ job.pc = "ended" /\ job.undo = "offered" /\ tree' = tree
      /\ job.op \in {"copy", "move", "trash"} /\ Records = RecordsOf(job)
  BY DEF JobsInv, Inv, JobOK, JobFits, JobStands, Undo, AtPC, fsVars, Records, RecordsOf
<1>2. /\ Undoes(job, job') /\ job'.undo = "running"
      /\ job.op = "copy" => job'.pc = "quarantine" /\ job'.n = 1
      /\ job.op = "move" => job'.pc = "move back" /\ job'.n = Len(Records)
      /\ job.op = "trash" => job'.pc = "untrash" /\ job'.n = Len(Records)
  BY <1>1 DEF Undo, Undoes, JobFields
<1>3. /\ Undoing(job) /\ job.pc # "unquarantine" /\ Undoing(job')
      /\ Standing(job) = DOMAIN RecordsOf(job) /\ StillOut(job) = DOMAIN job.affected
  BY <1>1, <1>2, AllStand DEF Undoing
<1>4. RecordsOf(job') = RecordsOf(job) /\ RecordsOf(job) \in Seq(Pairs(job.op)) /\ Len(RecordsOf(job)) \in Nat
      /\ DOMAIN RecordsOf(job) = 1..Len(RecordsOf(job))
  <2>1. RecordsOf(job') = RecordsOf(job)
    BY <1>2 DEF RecordsOf, Undoes
  <2>2. RecordsOf(job) \in Seq(Pairs(job.op))
    BY <1>1 DEF RecordsOf, JobFits
  <2> QED BY <2>1, <2>2
<1>5. Shown(tree, tree')
  BY <1>1 DEF Shown
<1>6. ASSUME ~job.replaced PROVE CopyRule(first, tree', job') /\ MoveRule(first, split, tree', job')
  <2>1. CopyRule(first, tree, job) /\ MoveRule(first, split, tree, job)
    BY <1>6, StillPlain
  <2>2. CASE job.op = "copy"
    <3>1. DOMAIN job.affected = 1..Len(job.affected) /\ Len(job.affected) \in Nat /\ job'.affected = job.affected
      BY <1>2, <1>4, <2>2 DEF RecordsOf, Undoes
    <3>2. StillOut(job') = DOMAIN job'.affected
      BY <1>2, <2>2, <3>1 DEF StillOut
    <3>3. Out(job') = Out(job)
      BY <1>3, <3>1, <3>2 DEF Out
    <3>4. CopyRule(first, tree', job')
      BY <1>2, <1>3, <1>5, <2>1, <3>3, CopyRuleShown DEF Undoes
    <3>5. MoveRule(first, split, tree', job')
      BY <1>2, <2>2 DEF MoveRule, Renames, Undoes
    <3> QED BY <3>4, <3>5
  <2>3. CASE job.op # "copy"
    <3>0. job'.n = Len(RecordsOf(job)) /\ job'.undo # "done"
      BY <1>1, <1>2, <2>3
    <3>01. \A m \in DOMAIN RecordsOf(job) : m <= job'.n
      BY <1>4, <3>0
    <3>1. Standing(job') = Standing(job)
      BY <1>3, <1>4, <3>0, <3>01 DEF Standing
    <3>2. MoveRule(first, split, tree', job')
      BY <1>1, <1>2, <1>3, <1>4, <1>5, <2>1, <3>1, MoveRuleShown DEF Undoes
    <3>3. CopyRule(first, tree', job')
      BY <1>2, <2>3 DEF CopyRule, Undoes
    <3> QED BY <3>2, <3>3
  <2> QED BY <2>2, <2>3
<1>7. ~job.replaced /\ job.op = "move" /\ split => job'.n # 0
  <2> SUFFICES ASSUME ~job.replaced, job.op = "move", split PROVE Len(Records) # 0
    BY <1>2
  <2>1. job.moves # << >>
    BY <1>1 DEF JobsReversible, Reversible
  <2> QED BY <1>1, <1>4, <2>1 DEF RecordsOf
<1>8. job'.pc \in UndoPCs
  BY <1>1, <1>2 DEF UndoPCs, AsidePCs, BackPCs
<1> QED BY <1>2, <1>6, <1>7, <1>8, UndoReturns

\* One record is moved back, or all were.
LEMMA BackReturns ==
  ASSUME JobsInv, JobsTold, foreign = 0, JobsReversible, job.pc \in BackPCs,
         \/ job.n = 0 /\ job' = UndoEnds("done") /\ tree' = tree
         \/ /\ job.n # 0 /\ ~(job.op = "move" /\ split) /\ ~path_lexists(Records[job.n].source)
            /\ tree' = Moved(Records[job.n].target, Records[job.n].source) /\ job' = [job EXCEPT !.n = @ - 1]
  PROVE  Reversible(first, split, tree', job')
<1>1. /\ JobFits(job) /\ JobStands(job) /\ DOMAIN job = JobFields /\ FileTree(tree) /\ job.undo = "running"
      /\ Records = RecordsOf(job) /\ Records \in Seq(Pairs(job.op)) /\ job.n \in Nat
  BY InUndo DEF UndoPCs
<1>2. job.op \in {"move", "trash"} /\ job.n \in 0..Len(Records) /\ (job.op = "move" <=> job.pc = "move back")
  BY <1>1 DEF JobStands, BackPCs
<1>3. Undoing(job) /\ Standing(job) = {m \in DOMAIN RecordsOf(job) : m <= job.n}
  BY <1>1 DEF Undoing, Standing
<1>4. CASE job.n = 0 /\ job' = UndoEnds("done") /\ tree' = tree
  <2>1. Undoes(job, job') /\ job'.pc = "ended" /\ job'.undo = "done"
    BY <1>1, <1>4, UndoFields
  <2>2. ~job.replaced /\ job.op = "move" => ~split
    BY <1>2, <1>4 DEF JobsReversible, Reversible
  <2>3. RecordsOf(job') = RecordsOf(job) /\ Standing(job) = {} /\ Standing(job') = {}
    <3>1. RecordsOf(job') = RecordsOf(job)
      BY <2>1 DEF RecordsOf, Undoes
    <3>2. DOMAIN RecordsOf(job) = 1..Len(RecordsOf(job))
      BY <1>1
    <3>3. Standing(job) = {}
      BY <1>3, <1>4, <3>2
    <3>4. Standing(job') = {}
      BY <2>1 DEF Standing
    <3> QED BY <3>1, <3>3, <3>4
  <2>4. Shown(tree, tree')
    BY <1>4 DEF Shown
  <2>5. ASSUME ~job.replaced PROVE CopyRule(first, tree', job') /\ MoveRule(first, split, tree', job')
    <3>1. MoveRule(first, split, tree, job)
      BY <2>5, StillPlain
    <3>2. MoveRule(first, split, tree', job')
      BY <1>1, <1>3, <2>1, <2>3, <2>4, <3>1, MoveRuleShown DEF Undoes
    <3>3. CopyRule(first, tree', job')
      BY <1>2, <2>1 DEF CopyRule, Undoes
    <3> QED BY <3>2, <3>3
  <2>6. job'.op \in {"copy", "move", "trash"}
    BY <1>2, <2>1 DEF Undoes
  <2> QED BY <2>1, <2>2, <2>5, <2>6, UndoReturns
<1>5. CASE /\ job.n # 0 /\ ~(job.op = "move" /\ split) /\ ~path_lexists(Records[job.n].source)
           /\ tree' = Moved(Records[job.n].target, Records[job.n].source) /\ job' = [job EXCEPT !.n = @ - 1]
  <2>1. Undoes(job, job') /\ job'.pc = job.pc /\ job'.undo = "running" /\ job'.n = job.n - 1
    <3>1. job' = [job EXCEPT !.n = job.n - 1]
      BY <1>5
    <3> QED BY <1>1, <3>1, UndoFields
  <2>2. RecordsOf(job') = RecordsOf(job) /\ job.n \in Standing(job) /\ Standing(job') = Standing(job) \ {job.n}
    <3>1. RecordsOf(job') = RecordsOf(job)
      BY <2>1 DEF RecordsOf, Undoes
    <3>2. DOMAIN RecordsOf(job) = 1..Len(RecordsOf(job)) /\ Len(RecordsOf(job)) \in Nat
      BY <1>1
    <3>3. job.n \in Standing(job)
      <4>1. job.n \in 0..Len(RecordsOf(job)) /\ job.n # 0
        BY <1>1, <1>2, <1>5
      <4> QED BY <1>1, <1>3, <3>2, <4>1
    <3>4. Standing(job') = {m \in DOMAIN RecordsOf(job) : m <= job.n - 1}
      BY <2>1, <3>1 DEF Standing
    <3>5. Standing(job') = Standing(job) \ {job.n}
      BY <1>1, <1>3, <3>2, <3>4
    <3> QED BY <3>1, <3>3, <3>5
  <2>3. ASSUME ~job.replaced PROVE CopyRule(first, tree', job') /\ MoveRule(first, split, tree', job')
    <3>1. MoveRule(first, split, tree, job) /\ Renames(split, job)
      BY <1>2, <1>5, <2>3, StillPlain DEF Renames
    <3>2. RecordsOf(job)[job.n].source \notin DOMAIN tree
      BY <1>1, <1>5 DEF path_lexists
    <3>3. FileTree(first) /\ job'.op = job.op
      BY <2>1 DEF JobsTold, FirstOK, Undoes
    <3>4. MoveRule(first, split, Moved(RecordsOf(job)[job.n].target, RecordsOf(job)[job.n].source), job')
      BY <1>1, <1>3, <2>2, <3>1, <3>2, <3>3, MoveRuleShrinks
    <3>5. tree' = Moved(RecordsOf(job)[job.n].target, RecordsOf(job)[job.n].source)
      BY <1>1, <1>5
    <3>6. MoveRule(first, split, tree', job')
      BY <3>4, <3>5
    <3>7. CopyRule(first, tree', job')
      BY <1>2, <2>1 DEF CopyRule, Undoes
    <3> QED BY <3>6, <3>7
  <2>4. job'.pc \in UndoPCs
    BY <2>1 DEF UndoPCs
  <2> QED BY <1>5, <2>1, <2>3, <2>4, UndoReturns
<1> QED BY <1>4, <1>5

LEMMA MoveBackReturns ==
  ASSUME JobsInv, JobsTold, foreign = 0, JobsReversible, MoveBack \/ Untrash
  PROVE  Reversible(first, split, tree', job')
<1>1. job.pc \in BackPCs
  BY DEF MoveBack, Untrash, AtPC, BackPCs
<1>2. DOMAIN job = JobFields /\ JobStands(job)
  BY <1>1, InUndo DEF UndoPCs
<1>3. CASE MoveBack
  <2>1. \/ job.n = 0 /\ job' = UndoEnds("done") /\ tree' = tree
        \/ job' = UndoEnds("halfway")
        \/ /\ job.n # 0 /\ ~split /\ ~path_lexists(Records[job.n].source)
           /\ tree' = Moved(Records[job.n].target, Records[job.n].source) /\ job' = [job EXCEPT !.n = @ - 1]
    BY <1>3, Zenon DEF MoveBack, UndoStep
  <2> QED BY <1>1, <1>2, <2>1, BackReturns, GivenUpReturns
<1>4. CASE Untrash
  <2>1. \/ job.n = 0 /\ job' = UndoEnds("done") /\ tree' = tree
        \/ job' = UndoEnds("halfway")
        \/ /\ job.n # 0 /\ ~path_lexists(Records[job.n].source)
           /\ tree' = Moved(Records[job.n].target, Records[job.n].source) /\ job' = [job EXCEPT !.n = @ - 1]
    BY <1>4, Zenon DEF Untrash, UndoStep, fsVars
  <2>2. job.op # "move"
    BY <1>2, <1>4 DEF Untrash, AtPC, JobStands
  <2> QED BY <1>1, <1>2, <2>1, <2>2, BackReturns, GivenUpReturns
<1> QED BY <1>3, <1>4

\* A copy is moved aside.
LEMMA AsideReturns ==
  ASSUME JobsInv, JobsTold, foreign = 0, JobsReversible, MoveAside
  PROVE  Reversible(first, split, tree', job')
<1>0. job.pc = "quarantine" /\ job.pc \in UndoPCs /\ job.pc \in AsidePCs
  BY DEF MoveAside, AtPC, UndoPCs, AsidePCs
<1>1. /\ JobFits(job) /\ DOMAIN job = JobFields /\ FileTree(tree) /\ job.undo = "running" /\ job.op = "copy"
      /\ DOMAIN tree \subseteq VisiblePaths \cup AsideTrees(Quarantined(job)) /\ job.n \in Nat
      /\ Records = job.affected /\ Records \in Seq(Pairs(job.op)) /\ FileTree(first)
  BY <1>0, InUndo DEF JobStands, RecordsOf, JobsTold, FirstOK
<1>2. Quarantined(job) = 1..(job.n - 1) /\ Undoing(job) /\ StillOut(job) = {m \in DOMAIN job.affected : m >= job.n}
      /\ DOMAIN job.affected = 1..Len(job.affected) /\ Len(job.affected) \in Nat /\ job.n \in 1..(Len(job.affected) + 1)
  <2>1. DOMAIN job.affected = 1..Len(job.affected) /\ Len(job.affected) \in Nat
    BY <1>1
  <2>2. Quarantined(job) = 1..(job.n - 1) /\ Undoing(job) /\ StillOut(job) = {m \in DOMAIN job.affected : m >= job.n}
    BY <1>0, <1>1 DEF Quarantined, Undoing, StillOut
  <2>3. job.n \in 1..(Len(RecordsOf(job)) + 1) /\ RecordsOf(job) = job.affected
    BY <1>0, <1>1, InUndo DEF JobStands, RecordsOf
  <2> QED BY <2>1, <2>2, <2>3
<1>3. ASSUME Undoes(job, job') PROVE MoveRule(first, split, tree', job')
  BY <1>1, <1>3 DEF Undoes, MoveRule, Renames
<1>4. CASE job.n > Len(Records) /\ job' = Goto("verify") /\ tree' = tree
  <2>1. Undoes(job, job') /\ job'.pc = "verify" /\ job'.undo = "running"
    BY <1>1, <1>4, UndoFields
  <2>2. StillOut(job) = {} /\ StillOut(job') = {}
    <3>1. \A m \in DOMAIN job.affected : ~(m >= job.n)
      BY <1>1, <1>2, <1>4
    <3> QED BY <1>2, <2>1, <3>1 DEF StillOut
  <2>3. Out(job) = {} /\ Out(job') = {}
    BY <2>2 DEF Out
  <2>4. Shown(tree, tree')
    BY <1>4 DEF Shown
  <2>5. ~job.replaced => CopyRule(first, tree', job')
    BY <1>0, <1>2, <2>1, <2>3, <2>4, StillPlain, CopyRuleShown DEF Undoes
  <2>6. job'.pc \in UndoPCs
    BY <2>1 DEF UndoPCs, AsidePCs
  <2> QED BY <1>3, <2>1, <2>5, <2>6, UndoReturns
<1>5. CASE /\ ~(job.n > Len(Records)) /\ tree' = Moved(Records[job.n].target, Quarantine(job.n))
           /\ job' = [job EXCEPT !.n = @ + 1]
  <2> DEFINE root == Records[job.n].target
             aside == Quarantine(job.n)
             M == Moved(root, aside)
  <2>1. Undoes(job, job') /\ job'.pc = "quarantine" /\ job'.undo = "running" /\ job'.n = job.n + 1
    <3>1. job' = [job EXCEPT !.n = job.n + 1]
      BY <1>5
    <3> QED BY <1>0, <1>1, <3>1, UndoFields
  <2>2. job.n \in 1..Len(Records) /\ job.n \in DOMAIN job.affected
    BY <1>1, <1>2, <1>5
  <2>3. root \in Roots /\ root[2] \in VisibleNames
    BY <1>0, <2>2, RecordPaths
  <2>4. aside \in Roots /\ aside[2] \notin VisibleNames /\ root # aside
    BY <1>1, <2>3, HiddenRoots
  <2>5. aside \notin DOMAIN tree
    <3> SUFFICES ASSUME aside \in DOMAIN tree PROVE FALSE
      OBVIOUS
    <3>1. aside \in Paths /\ RootOf(aside) = aside /\ aside \notin VisiblePaths
      BY <2>4, Rooted, VisibleFacts DEF Paths
    <3>2. Quarantined(job) \subseteq Nat /\ job.n \notin Quarantined(job)
      BY <1>1, <1>2
    <3>3. aside \in AsideTrees(Quarantined(job))
      BY <1>1, <3>1
    <3> HIDE DEF aside
    <3>4. PICK m \in Quarantined(job) : RootOf(aside) = Quarantine(m)
      BY <3>2, <3>3, AsideShown
    <3>5. m = job.n
      BY <1>1, <3>1, <3>2, <3>4, HiddenRoots DEF aside
    <3> QED BY <3>2, <3>5
  <2>6. /\ root \in Out(job) /\ Out(job') \subseteq Out(job) /\ \A z \in Out(job) : z # root => z \in Out(job')
    <3>1. StillOut(job') = {m \in DOMAIN job.affected : m >= job.n + 1} /\ job'.affected = job.affected
      BY <2>1 DEF StillOut, Undoes
    <3>2. StillOut(job) = StillOut(job') \cup {job.n}
      BY <1>1, <1>2, <2>2, <3>1
    <3>3. root = job.affected[job.n].target
      BY <1>1
    <3> HIDE DEF root
    <3> QED BY <3>1, <3>2, <3>3 DEF Out
  <2> HIDE DEF root, aside, M
  <2>7. ASSUME ~job.replaced PROVE CopyRule(first, M, job')
    <3>1. \A z \in VisibleRoots : IF z \in Out(job) THEN z \notin DOMAIN first ELSE Exactly(first, tree, z, z)
      BY <1>0, <1>1, <1>2, <2>7, StillPlain DEF CopyRule
    <3>2. ASSUME NEW z \in VisibleRoots
          PROVE  IF z \in Out(job') THEN z \notin DOMAIN first ELSE Exactly(first, M, z, z)
      <4>1. z \in Roots /\ z # aside
        BY <2>4, RootsShown
      <4>2. CASE z \in Out(job')
        BY <2>6, <3>1, <4>2
      <4>3. CASE z = root
        <5>1. root \notin DOMAIN first
          BY <2>6, <3>1, <4>3
        <5>2. root \notin DOMAIN M /\ FileTree(M)
          BY <1>1, <2>3, <2>4, <2>5, MovedIs DEF M
        <5>3. Exactly(first, M, root, root)
          BY <1>1, <2>3, <5>1, <5>2, ExactlyAbsent
        <5> QED BY <4>3, <5>1, <5>3
      <4>4. CASE z \notin Out(job') /\ z # root
        <5>1. Exactly(first, tree, z, z)
          BY <2>6, <3>1, <4>4
        <5>2. Exactly(first, M, z, z)
          BY <1>1, <2>3, <2>4, <2>5, <4>1, <4>4, <5>1, ExactlyStays DEF M
        <5> QED BY <4>4, <5>2
      <4> QED BY <4>2, <4>3, <4>4
    <3> QED BY <3>2 DEF CopyRule
  <2>8. tree' = M
    BY <1>5 DEF M, root, aside
  <2>9. job'.pc \in UndoPCs
    BY <2>1 DEF UndoPCs, AsidePCs
  <2> QED BY <1>1, <1>3, <2>1, <2>7, <2>8, <2>9, UndoReturns
<1>6. CASE job' = [job EXCEPT !.pc = "unquarantine", !.n = @ - 1]
  <2>1. Undoes(job, job') /\ job'.pc = "unquarantine" /\ job'.undo = "running"
    <3>1. job' = [job EXCEPT !.pc = "unquarantine", !.n = job.n - 1]
      BY <1>6
    <3> QED BY <1>1, <3>1, UndoFieldsTwo
  <2>2. CopyRule(first, tree', job') /\ job'.pc \in UndoPCs
    BY <2>1 DEF CopyRule, UndoPCs, AsidePCs
  <2> QED BY <1>1, <1>3, <2>1, <2>2, UndoReturns
<1> QED BY <1>4, <1>5, <1>6, Zenon DEF MoveAside, UndoStep

\* The copies are compared and removed, or put back.
LEMMA DestroyReturns ==
  ASSUME JobsInv, foreign = 0, JobsReversible, Verify \/ Destroy \/ PutBack
  PROVE  Reversible(first, split, tree', job')
<1>0. job.pc \in {"verify", "destroy", "unquarantine"} /\ job.pc \in UndoPCs /\ job.pc \in AsidePCs
  BY DEF Verify, Destroy, PutBack, AtPC, UndoPCs, AsidePCs
<1>1. /\ DOMAIN job = JobFields /\ FileTree(tree) /\ job.undo = "running" /\ job.op = "copy" /\ job.n \in Nat /\ Undoing(job)
  BY <1>0, InUndo DEF Undoing
<1>2. ASSUME Undoes(job, job'), job'.pc \in UndoPCs \cup {"ended"}, job'.undo # "offered",
             job'.undo = "done" => job'.pc = "ended", ~job.replaced => CopyRule(first, tree', job')
      PROVE  Reversible(first, split, tree', job')
  <2>1. MoveRule(first, split, tree', job') /\ job'.op = "copy"
    BY <1>1, <1>2 DEF Undoes, MoveRule, Renames
  <2> QED BY <1>1, <1>2, <2>1, UndoReturns
<1>3. ASSUME job.pc \in {"verify", "destroy"}, Undoes(job, job'), Shown(tree, tree'),
             job'.pc = "destroy" \/ job'.undo = "done", ~job.replaced
      PROVE  CopyRule(first, tree', job')
  <2>1. StillOut(job) = {} /\ StillOut(job') = {}
    BY <1>3 DEF StillOut
  <2>2. Out(job) = {} /\ Out(job') = {}
    BY <2>1 DEF Out
  <2> QED BY <1>1, <1>3, <2>2, StillPlain, CopyRuleShown DEF Undoes
<1>4. CASE Verify
  <2>1. PICK l \in {"destroy", "unquarantine"} : job' = [job EXCEPT !.pc = l, !.n = Len(Records)]
    BY <1>4 DEF Verify, UndoStep
  <2>2. Undoes(job, job') /\ job'.pc = l /\ job'.undo = "running"
    BY <1>1, <2>1, UndoFieldsTwo
  <2>3. job.pc = "verify" /\ Shown(tree, tree')
    BY <1>4 DEF Verify, AtPC, fsVars, Shown
  <2>4. ~job.replaced => CopyRule(first, tree', job')
    <3>1. CASE l = "destroy"
      BY <1>3, <2>2, <2>3, <3>1
    <3>2. CASE l = "unquarantine"
      BY <2>2, <3>2 DEF CopyRule
    <3> QED BY <3>1, <3>2
  <2>5. job'.pc \in UndoPCs
    BY <2>2 DEF UndoPCs, AsidePCs
  <2> QED BY <1>2, <2>2, <2>4, <2>5
<1>5. CASE Destroy
  <2>0. job.pc = "destroy"
    BY <1>5 DEF Destroy, AtPC
  <2>1. CASE job' = UndoEnds("done") /\ tree' = tree
    <3>1. Undoes(job, job') /\ job'.pc = "ended" /\ job'.undo = "done" /\ Shown(tree, tree')
      BY <1>1, <2>1, UndoFields DEF Shown
    <3> QED BY <1>2, <1>3, <2>0, <3>1
  <2>2. CASE tree' = Without(Quarantine(job.n)) /\ job' = [job EXCEPT !.n = @ - 1]
    <3>1. job' = [job EXCEPT !.n = job.n - 1]
      BY <2>2
    <3>2. Undoes(job, job') /\ job'.pc = "destroy" /\ job'.undo = "running"
      BY <1>1, <2>0, <3>1, UndoFields
    <3>3. Shown(tree, tree')
      BY <1>1, <2>2, HiddenRoots, HiddenRootShown
    <3>4. job'.pc \in UndoPCs
      BY <3>2 DEF UndoPCs, AsidePCs
    <3> QED BY <1>2, <1>3, <2>0, <3>2, <3>3, <3>4
  <2> QED BY <1>5, <2>1, <2>2, Zenon DEF Destroy, UndoStep
<1>6. CASE PutBack
  <2>0. job.pc = "unquarantine"
    BY <1>6 DEF PutBack, AtPC
  <2>1. CASE \E r \in {"conflict", "recovery"} : job' = UndoEnds(r)
    BY <1>1, <2>1, GivenUpReturns
  <2>2. CASE \E s : job' = [job EXCEPT !.n = @ - 1, !.stuck = s]
    <3>1. PICK s : job' = [job EXCEPT !.n = job.n - 1, !.stuck = s]
      BY <2>2
    <3>2. Undoes(job, job') /\ job'.pc = "unquarantine" /\ job'.undo = "running"
      BY <1>1, <2>0, <3>1, UndoFieldsStuck
    <3>3. CopyRule(first, tree', job') /\ job'.pc \in UndoPCs
      BY <3>2 DEF CopyRule, UndoPCs, AsidePCs
    <3> QED BY <1>2, <3>2, <3>3
  <2>3. \/ job.stuck = {} /\ job' = UndoEnds("conflict")
        \/ job.stuck # {} /\ job' = UndoEnds("recovery")
        \/ \E s : job' = [job EXCEPT !.n = @ - 1, !.stuck = s]
    BY <1>6, Zenon DEF PutBack, UndoStep
  <2> QED BY <2>1, <2>2, <2>3
<1> QED BY <1>4, <1>5, <1>6

LEMMA UndoNextReturns ==
  ASSUME JobsInv, JobsTold, foreign = 0, JobsReversible, UndoNext
  PROVE  Reversible(first, split, tree', job')
<1>1. CASE AsideFails \/ DestroyFails
  <2>1. DOMAIN job = JobFields /\ job' = UndoEnds("halfway")
    BY <1>1 DEF AsideFails, DestroyFails, JobsInv, Inv, JobOK, JobFits
  <2> QED BY <2>1, GivenUpReturns
<1> QED BY <1>1, UndoBegins, MoveBackReturns, AsideReturns, DestroyReturns DEF UndoNext

-----------------------------------------------------------------------------
(* The theorem of the undo.                                                *)
LEMMA FirstReversible == JobsInit => JobsReversible
<1> SUFFICES ASSUME JobsInit PROVE JobsReversible
  OBVIOUS
<1>1. PICK j \in Jobs : tree = j.tree /\ first = j.tree /\ job = NewJob(j)
  BY Zenon DEF JobsInit
<1>2. /\ job.pc = "prepare" /\ job.how = "plain" /\ job.stage = "none" /\ job.undo = "none"
      /\ job.affected = << >> /\ job.moves = << >>
  BY <1>1 DEF NewJob
<1>3. \A p : Exactly(first, tree, p, p)
  BY <1>1 DEF Exactly, Same
<1>4. CopyRule(first, tree, job)
  <2>1. Out(job) = {}
    BY <1>2 DEF Out, StillOut
  <2> QED BY <1>3, <2>1 DEF CopyRule
<1>5. MoveRule(first, split, tree, job)
  <2>1. RecordsOf(job) = << >>
    BY <1>2 DEF RecordsOf
  <2>2. Standing(job) = {}
    BY <2>1 DEF Standing
  <2> QED BY <1>3, <2>2 DEF MoveRule
<1>6. Tame(job)
  BY <1>2 DEF Tame, StagePCs, CopyPCs, RemovePCs
<1> QED BY <1>2, <1>4, <1>5, <1>6 DEF JobsReversible, Reversible

LEMMA StepReturns ==
  ASSUME JobsInv, JobsTold, JobsReversible, [JobsNext]_jobsVars
  PROVE  JobsReversible'
<1>1. /\ first' = first /\ split' = split
      /\ foreign' = foreign \/ foreign' = foreign + 1
      /\ ForeignNext \/ foreign' = foreign
  BY SameFirst
<1>2. foreign \in Nat
  BY DEF JobsInv, Inv, Fresh
<1>3. JobsInv'
  BY EveryStep
<1>4. ASSUME foreign' = 0 PROVE Reversible(first, split, tree', job')
  <2>1. foreign = 0
    BY <1>1, <1>2, <1>4
  <2>2. ~ForeignNext
    BY <1>2, <1>4 DEF ForeignNext, ForeignCreate, ForeignRemove
  <2>3. CASE Prepare \/ ValidateTransfer \/ AllDone \/ StopAtSource
    BY <1>3, <2>1, <2>3, FirstReturns
  <2>4. CASE CopyNext \/ RemoveNext \/ TrashNext
    BY <1>3, <2>1, <2>4, CopyReturns, RemoveReturns, TrashReturns
  <2>5. CASE ErrorNext
    BY <1>3, <2>1, <2>5, FaultReturns, RetryReturns, SkipErrorReturns, CancelErrorReturns DEF ErrorNext
  <2>6. CASE UndoNext
    BY <2>1, <2>6, UndoNextReturns
  <2>7. CASE Cancel \/ UNCHANGED jobsVars
    <3>1. tree' = tree /\ job' = job
      BY <2>7 DEF Cancel, jobsVars, fsVars
    <3>2. Reversible(first, split, tree, job)
      BY <2>1 DEF JobsReversible
    <3> QED BY <3>1, <3>2
  <2> QED BY <2>2, <2>3, <2>4, <2>5, <2>6, <2>7 DEF JobsNext
<1>5. Reversible(first', split', tree', job') <=> Reversible(first, split, tree', job')
  BY <1>1
<1> QED BY <1>4, <1>5 DEF JobsReversible

\* While no other process interferes the folders are, but for what the job has
\* written down, those of before it.
THEOREM JobsReversibleAlways == JobsSpec => []JobsReversible
<1>1. JobsInit => JobsReversible
  BY FirstReversible
<1>2. JobsInv /\ JobsTold /\ JobsReversible /\ [JobsNext]_jobsVars => JobsReversible'
  BY StepReturns
<1> QED BY <1>1, <1>2, JobsInvariant, JobsToldAlways, PTL DEF JobsSpec

\* What is the same at every visible root and below it is the same.
LEMMA AllTheSame ==
  ASSUME NEW f, NEW t, DOMAIN f \subseteq VisiblePaths, DOMAIN t \subseteq VisiblePaths,
         \A p \in VisibleRoots : Exactly(f, t, p, p)
  PROVE  DOMAIN t = DOMAIN f /\ \A q \in DOMAIN t : t[q].data = f[q].data
<1>1. ASSUME NEW q \in VisiblePaths PROVE Same(f, t, q, q)
  <2>1. CASE q \in Folders \X VisibleNames
    BY <2>1 DEF Exactly, VisibleRoots
  <2>2. CASE q \in Folders \X VisibleNames \X VisibleNames
    <3>1. PICK d \in Folders, a \in VisibleNames, c \in VisibleNames : q = <<d, a, c>>
      BY <2>2
    <3>2. <<d, a>> \in VisibleRoots /\ ChildOf(<<d, a>>, c) = q
      BY <3>1 DEF VisibleRoots, ChildOf
    <3>3. Same(f, t, ChildOf(<<d, a>>, c), ChildOf(<<d, a>>, c))
      BY <3>2 DEF Exactly
    <3> QED BY <3>2, <3>3
  <2> QED BY <2>1, <2>2 DEF VisiblePaths
<1> QED BY <1>1 DEF Same

\* An undo that succeeds restores the folders of before the job.
THEOREM UndoRestoresAlways == JobsSpec => []UndoRestores
<1>1. JobsInv /\ JobsTold /\ JobsReversible => UndoRestores
  <2> SUFFICES ASSUME JobsInv, JobsTold, JobsReversible, job.undo = "done", foreign = 0, ~job.replaced
               PROVE  DOMAIN tree = DOMAIN first /\ \A p \in DOMAIN tree : tree[p].data = first[p].data
    BY DEF UndoRestores
  <2>1. /\ job.op \in {"copy", "move", "trash"} /\ job.pc = "ended" /\ (job.op = "move" => ~split)
        /\ CopyRule(first, tree, job) /\ MoveRule(first, split, tree, job)
    BY DEF JobsReversible, Reversible
  <2>2. DOMAIN tree \subseteq VisiblePaths
    <3>1. Quarantined(job) = {}
      BY <2>1 DEF Quarantined
    <3>2. HiddenPlaces(job) = {}
      BY <2>1, <3>1 DEF HiddenPlaces, LeafPlaces, StagePCs, CopyPCs
    <3> QED BY <3>2 DEF JobsInv, Inv, Tidy
  <2>3. DOMAIN first \subseteq VisiblePaths
    BY DEF JobsTold, FirstOK
  <2>4. Undoing(job) /\ Out(job) = {} /\ Standing(job) = {}
    BY DEF Undoing, Out, StillOut, Standing
  <2>5. ASSUME NEW p \in VisibleRoots PROVE Exactly(first, tree, p, p)
    <3>1. CASE job.op = "copy"
      BY <2>1, <2>4, <3>1 DEF CopyRule
    <3>2. CASE job.op # "copy"
      <4>1. Renames(split, job)
        BY <2>1, <3>2 DEF Renames
      <4> QED BY <2>1, <2>4, <4>1 DEF MoveRule
    <3> QED BY <3>1, <3>2
  <2> QED BY <2>2, <2>3, <2>5, AllTheSame
<1> QED BY <1>1, JobsInvariant, JobsToldAlways, JobsReversibleAlways, PTL
=============================================================================
