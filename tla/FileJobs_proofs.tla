-------------------------- MODULE FileJobs_proofs --------------------------
(***************************************************************************)
(* What FileJobs promises for every job, every number of sources, of       *)
(* faults and of steps of another process: no data is lost, and nothing    *)
(* hidden is left behind.                                                  *)
(*                                                                         *)
(* The argument is one invariant, JobsInv: what is kept has a copy at a    *)
(* place that the job, where it stands, does not remove; hidden names are  *)
(* only where the job works; and what the undo of a copy will remove holds *)
(* nothing that the sources do not hold.  There is a lemma for each action.*)
(***************************************************************************)
EXTENDS FileJobs, SequenceTheorems, WellFoundedInduction, NaturalsInduction, TLAPS

-----------------------------------------------------------------------------
(* Paths.  A root is an entry of a folder, a child is one below a root.    *)
HiddenNames == HiddenTags \X Nat
AllNames    == VisibleNames \cup HiddenNames
Roots       == Folders \X AllNames
Children    == Folders \X AllNames \X AllNames
Paths       == Roots \cup Children

Words       == Folders \cup AllNames
RootOf(q)   == <<q[1], q[2]>>

LEMMA Tuples ==
  ASSUME NEW S, NEW s \in Seq(S)
  PROVE  /\ Len(s) = 0 => s = << >>
         /\ Len(s) = 1 => s = <<s[1]>>
         /\ Len(s) = 2 => s = <<s[1], s[2]>>
         /\ Len(s) = 3 => s = <<s[1], s[2], s[3]>>
<1>0. Len(s) = 0 => s = << >>
  OBVIOUS
<1>1. Len(s) = 1 => s = <<s[1]>>
  OBVIOUS
<1>2. Len(s) = 2 => s = <<s[1], s[2]>>
  OBVIOUS
<1>3. Len(s) = 3 => s = <<s[1], s[2], s[3]>>
  OBVIOUS
<1> QED BY <1>0, <1>1, <1>2, <1>3

LEMMA Cuts ==
  ASSUME NEW S, NEW s \in Seq(S), Len(s) \in {2, 3}
  PROVE  /\ SubSeq(s, 1, 2) = <<s[1], s[2]>>
         /\ SubSeq(s, 1, Len(s)) = s
         /\ Len(s) = 3 => SubSeq(s, 3, 3) = <<s[3]>>
         /\ SubSeq(s, Len(s) + 1, Len(s)) = << >>
<1>1. SubSeq(s, 1, 2) = <<s[1], s[2]>>
  <2>1. SubSeq(s, 1, 2) \in Seq(S) /\ Len(SubSeq(s, 1, 2)) = 2 /\ SubSeq(s, 1, 2)[1] = s[1] /\ SubSeq(s, 1, 2)[2] = s[2]
    OBVIOUS
  <2> QED BY <2>1, Tuples
<1>2. SubSeq(s, 1, Len(s)) = s
  OBVIOUS
<1>3. Len(s) = 3 => SubSeq(s, 3, 3) = <<s[3]>>
  <2> SUFFICES ASSUME Len(s) = 3 PROVE SubSeq(s, 3, 3) = <<s[3]>>
    OBVIOUS
  <2>0. 3 \in 1..Len(s) /\ 1 \in 1..(3 - 3 + 1)
    OBVIOUS
  <2>1. SubSeq(s, 3, 3) \in Seq(S) /\ Len(SubSeq(s, 3, 3)) = 1 /\ SubSeq(s, 3, 3)[1] = s[3]
    BY <2>0, SubSeqProperties
  <2> QED BY <2>1, Tuples
<1>4. SubSeq(s, Len(s) + 1, Len(s)) = << >>
  <2>1. SubSeq(s, Len(s) + 1, Len(s)) \in Seq(S) /\ Len(SubSeq(s, Len(s) + 1, Len(s))) = 0
    OBVIOUS
  <2> QED BY <2>1, Tuples
<1> QED BY <1>1, <1>2, <1>3, <1>4

LEMMA Appended ==
  ASSUME NEW S, NEW s \in Seq(S), NEW c \in S
  PROVE  /\ Append(s, c) \in Seq(S)
         /\ Len(Append(s, c)) = Len(s) + 1
         /\ \A i \in 1..Len(s) : Append(s, c)[i] = s[i]
         /\ Append(s, c)[Len(s) + 1] = c
<1>1. Append(s, c) \in Seq(S)
  OBVIOUS
<1>2. Len(Append(s, c)) = Len(s) + 1
  BY AppendProperties
<1>3. \A i \in 1..Len(s) : Append(s, c)[i] = s[i]
  BY AppendProperties
<1>4. Append(s, c)[Len(s) + 1] = c
  BY AppendProperties
<1> QED BY <1>1, <1>2, <1>3, <1>4

LEMMA Joins ==
  ASSUME NEW S, NEW s \in Seq(S), Len(s) = 2, NEW c \in S
  PROVE  s \o << >> = s /\ s \o <<c>> = <<s[1], s[2], c>> /\ Append(s, c) = <<s[1], s[2], c>>
<1>1. s \o << >> = s
  OBVIOUS
<1>2. Append(s, c) = <<s[1], s[2], c>>
  <2> DEFINE x == Append(s, c)
  <2>1. /\ x \in Seq(S) /\ Len(x) = Len(s) + 1
        /\ \A i \in 1..Len(s) : x[i] = s[i]
        /\ x[Len(s) + 1] = c
    BY Appended
  <2> HIDE DEF x
  <2>2. Len(x) = 3 /\ x[1] = s[1] /\ x[2] = s[2] /\ x[3] = c
    BY <2>1
  <2>3. x = <<s[1], s[2], c>>
    BY <2>1, <2>2, Tuples
  <2> QED BY <2>3 DEF x
<1>3. s \o <<c>> = <<s[1], s[2], c>>
  BY <1>2, AppendIsConcat
<1> QED BY <1>1, <1>2, <1>3

LEMMA PathShapes ==
  /\ \A q \in Roots : /\ q = <<q[1], q[2]>> /\ q[1] \in Folders /\ q[2] \in AllNames
                       /\ Len(q) = 2 /\ q \in Seq(Words)
  /\ \A q \in Children : /\ q = <<q[1], q[2], q[3]>> /\ q[1] \in Folders /\ q[2] \in AllNames
                          /\ q[3] \in AllNames /\ Len(q) = 3 /\ q \in Seq(Words)
  /\ \A f \in Folders, a \in AllNames : /\ <<f, a>> \in Roots
                                       /\ \A c \in AllNames : <<f, a, c>> \in Children
<1>1. ASSUME NEW q \in Roots
      PROVE  /\ q = <<q[1], q[2]>> /\ q[1] \in Folders /\ q[2] \in AllNames
             /\ Len(q) = 2 /\ q \in Seq(Words)
  <2>1. PICK f \in Folders, a \in AllNames : q = <<f, a>>
    BY DEF Roots
  <2> QED BY <2>1 DEF Words
<1>2. ASSUME NEW q \in Children
      PROVE  /\ q = <<q[1], q[2], q[3]>> /\ q[1] \in Folders /\ q[2] \in AllNames
             /\ q[3] \in AllNames /\ Len(q) = 3 /\ q \in Seq(Words)
  <2>1. PICK f \in Folders, a \in AllNames, c \in AllNames : q = <<f, a, c>>
    BY DEF Children
  <2> QED BY <2>1 DEF Words
<1> QED BY <1>1, <1>2 DEF Roots, Children

LEMMA RootsAndChildren == Roots \cap Children = {}
<1> SUFFICES ASSUME NEW q \in Roots, q \in Children PROVE FALSE
  OBVIOUS
<1> QED BY PathShapes

\* What IsPrefix and Rebase say of paths this short.
LEMMA UnderRoot ==
  ASSUME NEW p \in Roots, NEW q \in Paths
  PROVE  IsPrefix(p, q) <=> RootOf(q) = p
<1>1. p = <<p[1], p[2]>> /\ Len(p) = 2 /\ SubSeq(p, 1, 2) = p
  BY PathShapes, Cuts
<1>2. q \in Seq(Words) /\ Len(q) \in {2, 3}
  BY PathShapes DEF Paths
<1>3. SubSeq(q, 1, 2) = RootOf(q)
  BY <1>2, Cuts DEF RootOf
<1> QED BY <1>1, <1>2, <1>3 DEF IsPrefix

LEMMA UnderChild ==
  ASSUME NEW p \in Children, NEW q \in Paths
  PROVE  IsPrefix(p, q) <=> q = p
<1>1. Len(p) = 3 /\ p \in Seq(Words) /\ SubSeq(p, 1, Len(p)) = p
  BY PathShapes, Cuts
<1>2. CASE q \in Roots
  <2>1. Len(q) = 2 /\ q # p
    BY <1>2, PathShapes, RootsAndChildren
  <2>2. ~(Len(p) <= Len(q))
    BY <1>1, <2>1
  <2> QED BY <2>1, <2>2 DEF IsPrefix
<1>3. CASE q \in Children
  <2>1. Len(q) = 3 /\ SubSeq(q, 1, Len(q)) = q
    BY <1>3, PathShapes, Cuts
  <2> QED BY <1>1, <2>1 DEF IsPrefix
<1> QED BY <1>2, <1>3 DEF Paths

\* The path r, or the child of r, where what is at q goes.
To(q, r) == IF q \in Roots THEN r ELSE <<r[1], r[2], q[3]>>

LEMMA RebasedRoot ==
  ASSUME NEW p \in Roots, NEW r \in Roots, NEW q \in Paths, RootOf(q) = p
  PROVE  /\ Rebase(q, p, r) = To(q, r)
         /\ To(q, r) \in Paths /\ RootOf(To(q, r)) = r
         /\ To(q, r) \in Roots <=> q \in Roots
         /\ q \notin Roots => To(q, r)[3] = q[3] /\ q[3] \in AllNames
         /\ To(To(q, r), p) = q
<1>1. /\ p = <<p[1], p[2]>> /\ Len(p) = 2 /\ r = <<r[1], r[2]>> /\ r[1] \in Folders /\ r[2] \in AllNames
      /\ r \in Seq(Words) /\ Len(r) = 2
  BY PathShapes
<1>2. CASE q \in Roots
  <2>1. q = p /\ Len(q) = 2 /\ SubSeq(q, Len(q) + 1, Len(q)) = << >>
    BY <1>2, PathShapes, Cuts DEF RootOf
  <2>2. r \o << >> = r
    BY <1>1, ConcatEmptySeq
  <2>3. Rebase(q, p, r) = r
    BY <2>1, <2>2 DEF Rebase
  <2>4. To(q, r) = r /\ To(r, p) = p /\ RootOf(r) = r
    BY <1>1, <1>2 DEF To, RootOf
  <2> QED BY <1>2, <2>1, <2>3, <2>4 DEF Paths
<1>3. CASE q \in Children
  <2>1. q = <<q[1], q[2], q[3]>> /\ Len(q) = 3 /\ q[3] \in AllNames /\ q \notin Roots
        /\ q \in Seq(Words) /\ q[3] \in Words
    BY <1>3, PathShapes, RootsAndChildren DEF Words
  <2>2. SubSeq(q, 3, 3) = <<q[3]>>
    BY <2>1, Cuts
  <2>3. r \o <<q[3]>> = <<r[1], r[2], q[3]>>
    BY <1>1, <2>1, Joins
  <2>4. Rebase(q, p, r) = r \o SubSeq(q, 3, 3)
    <3>1. Len(p) + 1 = 3
      BY <1>1
    <3> QED BY <2>1, <3>1 DEF Rebase
  <2>5. <<r[1], r[2], q[3]>> \in Children
    BY <1>1, <2>1 DEF Children
  <2>6. p[1] = q[1] /\ p[2] = q[2]
    BY <1>1 DEF RootOf
  <2>7. To(q, r) = <<r[1], r[2], q[3]>> /\ To(q, r) \notin Roots
    BY <2>1, <2>5, RootsAndChildren DEF To
  <2>8. To(To(q, r), p) = q
    <3>1. To(To(q, r), p) = <<p[1], p[2], To(q, r)[3]>>
      BY <2>7 DEF To
    <3>2. To(q, r)[3] = q[3]
      BY <2>7
    <3> QED BY <2>1, <2>6, <3>1, <3>2
  <2>9. Rebase(q, p, r) = To(q, r)
    BY <2>2, <2>3, <2>4, <2>7
  <2>10. To(q, r) \in Paths /\ To(q, r)[3] = q[3] /\ RootOf(To(q, r)) = r
    BY <1>1, <2>5, <2>7 DEF RootOf, Paths
  <2> QED BY <2>1, <2>7, <2>8, <2>9, <2>10
<1> QED BY <1>2, <1>3 DEF Paths

LEMMA RebasedChild ==
  ASSUME NEW p \in Children, NEW r \in Children
  PROVE  Rebase(p, p, r) = r
<1>1. /\ p \in Seq(Words) /\ Len(p) \in {2, 3} /\ r \in Seq(Words)
      /\ SubSeq(p, Len(p) + 1, Len(p)) = << >> /\ r \o << >> = r
  BY PathShapes, Cuts, ConcatEmptySeq
<1> QED BY <1>1 DEF Rebase

-----------------------------------------------------------------------------
(* File trees, and where each of the calls of secure_fs puts what is there. *)
TreeOf(p) == {q \in Paths : RootOf(q) = p}

FileTree(t) ==
    /\ DOMAIN t \subseteq Paths
    /\ \A q \in DOMAIN t : q \in Children =>
          RootOf(q) \in DOMAIN t /\ t[RootOf(q)].data = Folder

LEMMA Rooted ==
  ASSUME NEW q \in Paths
  PROVE  /\ RootOf(q) \in Roots /\ q \in TreeOf(RootOf(q))
         /\ q \in Roots => RootOf(q) = q
         /\ q \notin Roots <=> q \in Children
<1>1. CASE q \in Roots
  BY <1>1, PathShapes, RootsAndChildren DEF RootOf, TreeOf
<1>2. CASE q \in Children
  <2>1. q[1] \in Folders /\ q[2] \in AllNames /\ q \notin Roots
    BY <1>2, PathShapes, RootsAndChildren
  <2> QED BY <1>2, <2>1 DEF RootOf, TreeOf, Roots, Paths
<1> QED BY <1>1, <1>2 DEF Paths

LEMMA UnderRootIs ==
  ASSUME FileTree(tree), NEW p \in Roots
  PROVE  Under(p) = DOMAIN tree \cap TreeOf(p)
<1>1. ASSUME NEW q \in DOMAIN tree PROVE IsPrefix(p, q) <=> q \in TreeOf(p)
  <2>1. q \in Paths
    BY DEF FileTree
  <2> QED BY <2>1, UnderRoot DEF TreeOf
<1> QED BY <1>1 DEF Under

LEMMA UnderChildIs ==
  ASSUME FileTree(tree), NEW p \in Children
  PROVE  Under(p) = DOMAIN tree \cap {p}
<1>1. ASSUME NEW q \in DOMAIN tree PROVE IsPrefix(p, q) <=> q = p
  <2>1. q \in Paths
    BY DEF FileTree
  <2> QED BY <2>1, UnderChild
<1> QED BY <1>1 DEF Under

\* Nothing is below what is not there.
LEMMA NothingBelow ==
  ASSUME FileTree(tree), NEW r \in Roots, r \notin DOMAIN tree, NEW q \in DOMAIN tree
  PROVE  RootOf(q) # r
<1>1. q \in Paths
  BY DEF FileTree
<1>2. q \in Roots => RootOf(q) = q
  BY <1>1, Rooted
<1>3. q \in Children => RootOf(q) \in DOMAIN tree
  BY DEF FileTree
<1> QED BY <1>1, <1>2, <1>3 DEF Paths

LEMMA WithoutTree ==
  ASSUME FileTree(tree), NEW p \in Paths
  PROVE  /\ FileTree(Without(p))
         /\ DOMAIN Without(p) = DOMAIN tree \ Under(p)
         /\ \A q \in DOMAIN Without(p) : Without(p)[q] = tree[q]
<1>1. DOMAIN Without(p) = DOMAIN tree \ Under(p) /\ \A q \in DOMAIN Without(p) : Without(p)[q] = tree[q]
  BY DEF Without
<1>2. ASSUME NEW q \in DOMAIN Without(p), q \in Children
      PROVE  RootOf(q) \in DOMAIN Without(p)
  <2>1. q \in DOMAIN tree /\ q \notin Under(p) /\ q \in Paths /\ RootOf(q) \in DOMAIN tree /\ RootOf(q) \in Roots
    BY <1>1, <1>2, Rooted DEF FileTree
  <2>2. CASE p \in Roots
    <3>1. q \notin TreeOf(p)
      BY <2>1, <2>2, UnderRootIs
    <3>2. RootOf(q) # p
      BY <2>1, <3>1 DEF TreeOf
    <3>3. RootOf(RootOf(q)) = RootOf(q)
      BY <2>1, Rooted DEF Paths
    <3> QED BY <1>1, <2>1, <2>2, <3>2, <3>3, UnderRootIs DEF TreeOf
  <2>3. CASE p \in Children
    <3>1. RootOf(q) # p
      BY <2>1, <2>3, RootsAndChildren
    <3> QED BY <1>1, <2>1, <2>3, <3>1, UnderChildIs
  <2> QED BY <2>2, <2>3 DEF Paths
<1>3. ASSUME NEW q \in DOMAIN Without(p), q \in Children
      PROVE  Without(p)[RootOf(q)].data = Folder
  BY <1>1, <1>2, <1>3 DEF FileTree
<1> QED BY <1>1, <1>2, <1>3 DEF FileTree

LEMMA MovedTree ==
  ASSUME FileTree(tree), NEW p \in Roots, NEW r \in Roots, p # r, r \notin DOMAIN tree
  PROVE  /\ FileTree(Moved(p, r))
         /\ \A q \in DOMAIN tree : RootOf(q) # p =>
               RootOf(q) # r /\ q \in DOMAIN Moved(p, r) /\ Moved(p, r)[q] = tree[q]
         /\ \A q \in DOMAIN tree : RootOf(q) = p =>
               To(q, r) \in DOMAIN Moved(p, r) /\ Moved(p, r)[To(q, r)] = tree[q]
         /\ \A q \in DOMAIN Moved(p, r) :
               \/ RootOf(q) # p /\ RootOf(q) # r /\ q \in DOMAIN tree /\ Moved(p, r)[q] = tree[q]
               \/ /\ RootOf(q) = r /\ To(q, p) \in DOMAIN tree /\ RootOf(To(q, p)) = p
                  /\ Moved(p, r)[q] = tree[To(q, p)] /\ To(To(q, p), r) = q
<1> DEFINE M == Moved(p, r)
<1>1. ASSUME NEW q \in DOMAIN tree PROVE RootOf(q) # r /\ q \in Paths /\ (q \in Under(p) <=> RootOf(q) = p)
  BY NothingBelow, UnderRootIs DEF FileTree, TreeOf
<1>2. ASSUME NEW q \in Under(p)
      PROVE  /\ Rebase(q, p, r) = To(q, r) /\ To(q, r) \in Paths /\ RootOf(To(q, r)) = r
             /\ To(q, r) \in Roots <=> q \in Roots
             /\ To(To(q, r), p) = q /\ Rebase(To(q, r), r, p) = q
  <2>1. q \in Paths /\ RootOf(q) = p
    BY <1>1 DEF Under
  <2>2. /\ Rebase(q, p, r) = To(q, r) /\ To(q, r) \in Paths /\ RootOf(To(q, r)) = r
        /\ To(q, r) \in Roots <=> q \in Roots
        /\ To(To(q, r), p) = q
    BY <2>1, RebasedRoot
  <2>3. Rebase(To(q, r), r, p) = To(To(q, r), p)
    BY <2>2, RebasedRoot
  <2> QED BY <2>2, <2>3
<1>3. DOMAIN M = (DOMAIN tree \ Under(p)) \cup {To(q, r) : q \in Under(p)}
  <2>1. {Rebase(s, p, r) : s \in Under(p)} = {To(q, r) : q \in Under(p)}
    BY <1>2
  <2> QED BY <2>1 DEF Moved
<1>4. ASSUME NEW q \in DOMAIN tree, RootOf(q) # p
      PROVE  q \in DOMAIN M /\ M[q] = tree[q]
  <2>1. q \in DOMAIN M
    BY <1>1, <1>3, <1>4
  <2>2. ~IsPrefix(r, q)
    BY <1>1, UnderRoot
  <2> QED BY <2>1, <2>2 DEF Moved
<1>5. ASSUME NEW q \in DOMAIN tree, RootOf(q) = p
      PROVE  To(q, r) \in DOMAIN M /\ M[To(q, r)] = tree[q]
  <2>1. q \in Under(p)
    BY <1>1, <1>5
  <2>2. To(q, r) \in DOMAIN M
    BY <1>3, <2>1
  <2>3. IsPrefix(r, To(q, r))
    BY <1>2, <2>1, UnderRoot
  <2>4. Rebase(To(q, r), r, p) = q
    BY <1>2, <2>1
  <2> QED BY <2>2, <2>3, <2>4 DEF Moved
<1>6. ASSUME NEW q \in DOMAIN M
      PROVE  \/ RootOf(q) # p /\ RootOf(q) # r /\ q \in DOMAIN tree /\ M[q] = tree[q]
             \/ /\ RootOf(q) = r /\ To(q, p) \in DOMAIN tree /\ RootOf(To(q, p)) = p
                /\ M[q] = tree[To(q, p)] /\ To(To(q, p), r) = q
  <2>1. CASE q \in DOMAIN tree \ Under(p)
    BY <1>1, <1>4, <2>1
  <2>2. CASE q \in {To(s, r) : s \in Under(p)}
    <3>1. PICK s \in Under(p) : q = To(s, r)
      BY <2>2
    <3>2. s \in DOMAIN tree /\ RootOf(s) = p /\ To(q, p) = s /\ RootOf(q) = r
      BY <1>1, <1>2, <3>1 DEF Under
    <3> QED BY <1>5, <3>1, <3>2
  <2> QED BY <1>3, <2>1, <2>2
<1>7. FileTree(M)
  <2>1. DOMAIN M \subseteq Paths
    BY <1>1, <1>2, <1>3
  <2>2. ASSUME NEW q \in DOMAIN M, q \in Children
        PROVE  RootOf(q) \in DOMAIN M /\ M[RootOf(q)].data = Folder
    <3>1. CASE q \in DOMAIN tree /\ RootOf(q) # p
      <4>1. RootOf(q) \in DOMAIN tree /\ tree[RootOf(q)].data = Folder /\ RootOf(RootOf(q)) = RootOf(q)
        BY <2>2, <3>1, Rooted DEF FileTree, Paths
      <4> QED BY <1>4, <3>1, <4>1
    <3>2. CASE RootOf(q) = r /\ To(q, p) \in DOMAIN tree /\ RootOf(To(q, p)) = p /\ To(To(q, p), r) = q
      <4> DEFINE s == To(q, p)
      <4>1. s \in Under(p) /\ s \in Paths
        BY <1>1, <3>2
      <4>2. To(s, r) \in Roots <=> s \in Roots
        BY <1>2, <4>1
      <4>3. s \in Children
        <5>1. q \notin Roots
          BY <2>2, RootsAndChildren
        <5>2. s \notin Roots
          BY <3>2, <4>2, <5>1
        <5> QED BY <4>1, <5>2 DEF Paths
      <4>4. p \in DOMAIN tree /\ tree[p].data = Folder
        <5>1. RootOf(s) = p
          BY <3>2
        <5> HIDE DEF s
        <5> QED BY <4>3, <5>1, <3>2 DEF FileTree, s
      <4>5. RootOf(p) = p /\ To(p, r) = r
        BY Rooted DEF Paths, To
      <4> QED BY <1>5, <3>2, <4>4, <4>5
    <3> QED BY <1>6, <3>1, <3>2
  <2> QED BY <2>1, <2>2 DEF FileTree
<1> QED BY <1>1, <1>4, <1>5, <1>6, <1>7

\* A leaf, a child of w, gets another name in w.
LEMMA MovedChild ==
  ASSUME FileTree(tree), NEW p \in Children, NEW r \in Children, RootOf(p) = RootOf(r),
         p \in DOMAIN tree, r \notin DOMAIN tree
  PROVE  /\ FileTree(Moved(p, r))
         /\ DOMAIN Moved(p, r) = (DOMAIN tree \ {p}) \cup {r}
         /\ Moved(p, r)[r] = tree[p]
         /\ \A q \in DOMAIN tree \ {p} : Moved(p, r)[q] = tree[q]
<1> DEFINE M == Moved(p, r)
<1>1. Under(p) = {p}
  BY UnderChildIs
<1>2. Rebase(p, p, r) = r /\ Rebase(r, r, p) = p
  BY RebasedChild
<1>3. DOMAIN M = (DOMAIN tree \ {p}) \cup {r}
  BY <1>1, <1>2 DEF Moved
<1>4. \A q \in DOMAIN tree : IsPrefix(r, q) <=> q = r
  BY UnderChild DEF FileTree
<1>5. IsPrefix(r, r)
  BY UnderChild DEF Paths
<1>6. M[r] = tree[p]
  BY <1>2, <1>3, <1>5 DEF Moved
<1>7. \A q \in DOMAIN tree \ {p} : M[q] = tree[q]
  BY <1>3, <1>4 DEF Moved
<1>8. FileTree(M)
  <2>1. DOMAIN M \subseteq Paths
    BY <1>3 DEF FileTree, Paths
  <2>2. ASSUME NEW q \in DOMAIN M, q \in Children
        PROVE  RootOf(q) \in DOMAIN M /\ M[RootOf(q)].data = Folder
    <3>1. RootOf(q) \in DOMAIN tree /\ tree[RootOf(q)].data = Folder
      BY <1>3, <2>2 DEF FileTree
    <3>2. RootOf(q) # p
      BY <2>2, Rooted, RootsAndChildren DEF Paths
    <3> QED BY <1>3, <1>7, <3>1, <3>2
  <2> QED BY <2>1, <2>2 DEF FileTree
<1> QED BY <1>3, <1>6, <1>7, <1>8

\* Where renameat2 with RENAME_EXCHANGE puts what is at q.
Swap(q, p, r) ==
    IF RootOf(q) = p THEN To(q, r) ELSE IF RootOf(q) = r THEN To(q, p) ELSE q

LEMMA ExchangedTree ==
  ASSUME FileTree(tree), NEW p \in Roots, NEW r \in Roots, p # r
  PROVE  /\ FileTree(Exchanged(p, r))
         /\ \A q \in DOMAIN tree :
               Swap(q, p, r) \in DOMAIN Exchanged(p, r) /\ Exchanged(p, r)[Swap(q, p, r)] = tree[q]
         /\ \A q \in DOMAIN Exchanged(p, r) :
               /\ Swap(q, p, r) \in DOMAIN tree /\ Exchanged(p, r)[q] = tree[Swap(q, p, r)]
               /\ q \in Paths
<1> DEFINE E == Exchanged(p, r)
           to(q) == CASE IsPrefix(p, q) -> Rebase(q, p, r)
                      [] IsPrefix(r, q) -> Rebase(q, r, p)
                      [] OTHER -> q
           sw(q) == Swap(q, p, r)
<1>1. ASSUME NEW q \in Paths PROVE to(q) = sw(q) /\ sw(q) \in Paths /\ sw(sw(q)) = q
                                   /\ (sw(q) \in Roots <=> q \in Roots) /\ RootOf(sw(q)) = sw(RootOf(q))
  <2>0. (IsPrefix(p, q) <=> RootOf(q) = p) /\ (IsPrefix(r, q) <=> RootOf(q) = r)
    BY UnderRoot
  <2>1. CASE RootOf(q) = p
    <3>1. /\ Rebase(q, p, r) = To(q, r) /\ To(q, r) \in Paths /\ RootOf(To(q, r)) = r
          /\ To(q, r) \in Roots <=> q \in Roots
          /\ To(To(q, r), p) = q
      BY <2>1, RebasedRoot
    <3>2. sw(q) = To(q, r)
      BY <2>1 DEF Swap
    <3>3. RootOf(p) = p /\ To(p, r) = r
      BY Rooted DEF Paths, To
    <3>4. sw(sw(q)) = q
      BY <3>1, <3>2 DEF Swap
    <3>5. sw(p) = r
      BY <3>3 DEF Swap
    <3>6. to(q) = To(q, r)
      BY <2>0, <2>1, <3>1
    <3> QED BY <2>1, <3>1, <3>2, <3>4, <3>5, <3>6
  <2>2. CASE RootOf(q) = r
    <3>1. /\ Rebase(q, r, p) = To(q, p) /\ To(q, p) \in Paths /\ RootOf(To(q, p)) = p
          /\ To(q, p) \in Roots <=> q \in Roots
          /\ To(To(q, p), r) = q
      BY <2>2, RebasedRoot
    <3>2. sw(q) = To(q, p)
      BY <2>2 DEF Swap
    <3>3. RootOf(r) = r /\ To(r, p) = p
      BY Rooted DEF Paths, To
    <3>4. sw(sw(q)) = q
      BY <3>1, <3>2 DEF Swap
    <3>5. sw(r) = p
      BY <3>3 DEF Swap
    <3>6. to(q) = To(q, p)
      BY <2>0, <2>2, <3>1
    <3> QED BY <2>2, <3>1, <3>2, <3>4, <3>5, <3>6
  <2>3. CASE RootOf(q) # p /\ RootOf(q) # r
    <3>1. sw(q) = q
      BY <2>3 DEF Swap
    <3>2. to(q) = q
      BY <2>0, <2>3
    <3>3. RootOf(RootOf(q)) = RootOf(q)
      BY Rooted DEF Paths
    <3>4. sw(RootOf(q)) = RootOf(q)
      BY <2>3, <3>3 DEF Swap
    <3> QED BY <3>1, <3>2, <3>4
  <2> QED BY <2>1, <2>2, <2>3
<1>2. E = [q \in {to(s) : s \in DOMAIN tree} |-> tree[to(q)]]
  BY Zenon DEF Exchanged
<1> HIDE DEF to, E
<1>3. DOMAIN E = {sw(s) : s \in DOMAIN tree}
  <2>1. \A s \in DOMAIN tree : to(s) = sw(s)
    BY <1>1 DEF FileTree
  <2> QED BY <1>2, <2>1
<1>4. ASSUME NEW q \in DOMAIN tree PROVE sw(q) \in DOMAIN E /\ E[sw(q)] = tree[q] /\ q \in Paths
  <2>1. q \in Paths
    BY DEF FileTree
  <2>2. sw(q) \in DOMAIN E
    BY <1>3
  <2>3. to(sw(q)) = q
    BY <1>1, <2>1
  <2>4. E[sw(q)] = tree[to(sw(q))]
    BY <1>2, <2>2
  <2> QED BY <2>1, <2>2, <2>3, <2>4
<1>5. ASSUME NEW q \in DOMAIN E PROVE sw(q) \in DOMAIN tree /\ E[q] = tree[sw(q)] /\ q \in Paths
  <2>1. PICK s \in DOMAIN tree : q = sw(s)
    BY <1>3
  <2>2. s \in Paths /\ sw(q) = s
    BY <1>1, <1>4, <2>1
  <2> QED BY <1>1, <1>4, <2>1, <2>2
<1>6. FileTree(E)
  <2>1. ASSUME NEW q \in DOMAIN E, q \in Children
        PROVE  RootOf(q) \in DOMAIN E /\ E[RootOf(q)].data = Folder
    <3>1. sw(q) \in DOMAIN tree /\ sw(q) \in Children /\ q \in Paths
      <4>1. sw(q) \in DOMAIN tree /\ q \in Paths /\ sw(q) \in Paths /\ (sw(q) \in Roots <=> q \in Roots)
        BY <1>1, <1>5
      <4>2. q \notin Roots
        BY <2>1, RootsAndChildren
      <4> HIDE DEF sw
      <4> QED BY <4>1, <4>2 DEF Paths
    <3>2. RootOf(sw(q)) \in DOMAIN tree /\ tree[RootOf(sw(q))].data = Folder
      BY <3>1 DEF FileTree
    <3>3. RootOf(sw(q)) = sw(RootOf(q)) /\ sw(sw(RootOf(q))) = RootOf(q)
      BY <1>1, <3>1, Rooted DEF Paths
    <3> HIDE DEF sw
    <3> QED BY <1>4, <3>2, <3>3
  <2> QED BY <1>5, <2>1 DEF FileTree
<1> QED BY <1>4, <1>5, <1>6 DEF E

-----------------------------------------------------------------------------
(* The job, and the places it works in.                                    *)
JobFields == {"op", "sources", "all", "replace", "pc", "i", "ident", "target", "how", "canMerge",
              "merged", "item", "walk", "error", "stage", "affected", "moves", "skipped", "issues",
              "replaced", "result", "prints", "undo", "n", "stuck"}

Transfers == {"move", "restore"}
Deletions == {"delete", "purge"}

\* The places of a body: nothing hidden is there while it looks for its next
\* step; something may be in a staging tree; a source is removed; undo.
IdlePCs   == {"prepare", "validate", "next", "conflict", "transfer", "copy", "trash",
              "restore", "info", "error"}
CopyPCs   == {"walk", "leaf", "commit", "exchange", "place"}
StagePCs  == CopyPCs \cup {"discard", "cleanup"}
RemovePCs == {"remove", "unlink", "removing", "discard"}
AsidePCs  == {"quarantine", "verify", "destroy", "unquarantine"}
BackPCs   == {"move back", "untrash"}
PCs       == IdlePCs \cup StagePCs \cup RemovePCs \cup AsidePCs \cup BackPCs \cup {"ended"}

HomeFolder(o)   == IF o \in {"restore", "purge"} THEN "trash" ELSE "src"
TargetFolder(o) == IF o \in {"copy", "move"} THEN "dst"
                   ELSE IF o = "restore" THEN "src"
                   ELSE IF o = "trash" THEN "trash" ELSE HomeFolder(o)
SourcesOf(o)    == {HomeFolder(o)} \X VisibleNames
TargetsOf(o)    == {TargetFolder(o)} \X VisibleNames
Pairs(o)        == [source : SourcesOf(o), target : TargetsOf(o)]

RecordsOf(j) == IF j.op = "move" THEN j.moves ELSE j.affected
Removing(j)  == j.pc \in RemovePCs \/ (j.pc = "error" /\ j.stage = "remove")

\* What the fields of the job are.
JobFits(j) ==
    /\ DOMAIN j = JobFields
    /\ j.op \in Ops /\ j.sources \in Seq(SourcesOf(j.op)) /\ j.pc \in PCs
    /\ j.all \in Decisions \cup {"Ask"} /\ j.how \in {"plain", "replace", "merge"} /\ j.merged \in BOOLEAN
    /\ j.i \in Nat \ {0} /\ j.n \in Nat /\ j.stuck \subseteq Nat
    /\ j.affected \in Seq(Pairs(j.op)) /\ j.moves \in Seq(Pairs(j.op))
    /\ j.undo \in {"none", "offered", "running", "done", "halfway", "conflict", "recovery"}

\* Which job is where, and what it knows there.
JobStands(j) ==
    /\ j.pc \in (IdlePCs \ {"prepare", "validate", "next"}) \cup StagePCs \cup RemovePCs => j.i <= Len(j.sources)
    /\ j.pc \in {"transfer", "copy", "restore", "info"} \cup StagePCs => j.target \in TargetsOf(j.op)
    /\ Removing(j) /\ j.op \notin Deletions => j.target \in TargetsOf(j.op)
    /\ j.pc = "conflict" => j.op \in {"copy", "move"}
    /\ j.pc \in {"transfer", "copy"} \cup StagePCs => j.op \in {"copy", "move", "restore"}
    /\ Removing(j) /\ j.pc # "discard" => j.op \in Deletions \cup Transfers
    /\ j.pc = "error" /\ j.stage = "remove" => j.op # "restore"
    /\ j.pc = "error" /\ j.stage = "identity" => j.op = "trash"
    /\ j.pc \in {"exchange", "place", "discard"} => j.how = "replace"
    /\ j.op = "copy" /\ j.how = "merge" => j.merged
    /\ j.pc \in {"walk", "removing"} => j.walk \subseteq VisibleNames
    /\ j.pc = "leaf" => \/ j.item = << >>
                        \/ j.item \in Seq(VisibleNames) /\ Len(j.item) = 1 /\ j.walk \subseteq VisibleNames
    /\ j.pc \in {"restore", "info"} => j.op = "restore"
    /\ j.pc = "trash" => j.op = "trash"
    /\ j.pc \in AsidePCs => j.op = "copy"
    /\ j.pc = "move back" => j.op = "move"
    /\ j.pc = "untrash" => j.op = "trash"
    /\ j.pc = "quarantine" => j.n \in 1..(Len(RecordsOf(j)) + 1)
    /\ j.pc \in {"destroy", "unquarantine"} \cup BackPCs => j.n \in 0..Len(RecordsOf(j))
    /\ j.pc \notin AsidePCs \cup BackPCs \cup {"ended"} => j.undo = "none"
    /\ j.pc \in AsidePCs \cup BackPCs => j.undo = "running"
    /\ j.undo = "offered" => j.pc = "ended" /\ j.op \in {"copy", "move", "trash"}

JobOK(j) == JobFits(j) /\ JobStands(j)

\* Paths of the job.
SourceOf(j)   == j.sources[j.i]
StagingOf(j)  == IF j.op = "restore" THEN <<"src", Hidden(".part", 0)>>
                                     ELSE <<"dst", Hidden(".part", 0)>>
WorkOf(j)     == IF j.how = "merge" THEN j.target ELSE StagingOf(j)
LeafOf(j)     == IF j.item = << >> THEN <<WorkOf(j)[1], Hidden(".leaf", 0)>>
                 ELSE <<WorkOf(j)[1], WorkOf(j)[2], Hidden(".leaf", 0)>>
PlaceOf(j)    == IF j.item = << >> THEN WorkOf(j)
                 ELSE <<WorkOf(j)[1], WorkOf(j)[2], j.item[1]>>
ItemOf(j)     == IF j.item = << >> THEN SourceOf(j)
                 ELSE <<SourceOf(j)[1], SourceOf(j)[2], j.item[1]>>

\* Sets of paths.
NothingHiddenIn(q) == q \in Children => q[3] \in VisibleNames
CleanTree(p)  == {q \in TreeOf(p) : NothingHiddenIn(q)}
Secures       == {q \in Paths : q[2][1] \notin {".part", ".leaf"} /\ NothingHiddenIn(q)}
AsidePlaces   == {q \in Paths : q[2][1] = ".undo"}
StagingPlaces(j) == IF j.how = "merge" THEN {} ELSE CleanTree(StagingOf(j))
LeafPlaces(j) == IF j.pc = "leaf" THEN {LeafOf(j)} ELSE {}
SourcePlaces(j) == UNION {TreeOf(j.sources[n]) : n \in DOMAIN j.sources}

DataIn(t, P)  == {t[q].data : q \in DOMAIN t \cap P}

-----------------------------------------------------------------------------
(* The invariant.                                                          *)

\* What another process will write is new.
ToCome(f) == {OtherData[m] : m \in (f + 1)..Len(OtherData)}
Fresh(t, j, k, f) ==
    /\ f \in Nat /\ Folder \notin k
    /\ ToCome(f) \cap (k \cup DataIn(t, Paths) \cup Leafs(j.prints)) = {}

\* Kept data is at a place the job does not remove: not in its staging tree, nor
\* in what was chosen for deletion, nor in the source that it removes.
SafePlaces(j) ==
    {q \in Secures : /\ j.op \in Deletions => q \notin SourcePlaces(j)
                     /\ j.op \in Transfers /\ Removing(j) => q \notin TreeOf(SourceOf(j))}
Safe(t, j, k) == k \subseteq DataIn(t, SafePlaces(j))

\* While a source that will be removed is copied, kept data is elsewhere, has
\* been copied, or waits in a child that is still to be copied.
Waiting(j) == CASE j.pc = "walk" -> j.walk
                [] j.pc = "leaf" /\ j.item # << >> -> j.walk \ {j.item[1]}
                [] OTHER -> {}
CarriedPlaces(j) ==
    (Secures \ TreeOf(SourceOf(j)))
       \cup {q \in TreeOf(SourceOf(j)) : q \in Children /\ q[3] \in Waiting(j)}
       \cup StagingPlaces(j) \cup LeafPlaces(j)
Carried(t, j, k) ==
    j.op \in Transfers /\ j.pc \in CopyPCs => k \subseteq DataIn(t, CarriedPlaces(j))

\* Hidden names are in the staging tree, at the leaf, and in quarantine.
Quarantined(j) ==
    CASE j.pc = "quarantine"   -> 1..(j.n - 1)
      [] j.pc = "verify"       -> 1..Len(RecordsOf(j))
      [] j.pc = "destroy"      -> 1..j.n
      [] j.pc = "unquarantine" -> (1..j.n) \cup j.stuck
      [] j.pc = "ended" /\ j.undo \in {"recovery", "halfway"} -> Nat
      [] OTHER -> {}
HiddenPlaces(j) ==
    (IF j.pc \in StagePCs THEN StagingPlaces(j) ELSE {}) \cup LeafPlaces(j)
       \cup UNION {CleanTree(Quarantine(m)) : m \in Quarantined(j)}
Tidy(t, j) == DOMAIN t \subseteq VisiblePaths \cup HiddenPlaces(j)

\* What a copy has made holds no kept data that its sources do not hold.
MadePlaces(j) == UNION {TreeOf(j.affected[n].target) : n \in DOMAIN j.affected}
CopyPlaces(j) ==
    MadePlaces(j)
       \cup (IF j.pc \in StagePCs THEN StagingPlaces(j) ELSE {}) \cup LeafPlaces(j)
       \cup (IF j.pc = "discard" THEN TreeOf(j.target) ELSE {})
Doubled(t, j, k) ==
    j.op = "copy" /\ ~j.merged /\ j.pc \notin AsidePCs \cup {"ended"} =>
       k \cap DataIn(t, CopyPlaces(j)) \subseteq DataIn(t, SourcePlaces(j))

\* Nor do the fingerprints list any, nor what they were compared with.
Listed(t, j, k) ==
    j.op = "copy" /\ (j.pc \in AsidePCs \/ (j.pc = "ended" /\ j.undo = "offered" /\ ~j.merged)) =>
       k \cap Leafs(j.prints) \subseteq DataIn(t, SourcePlaces(j))
Compared(t, j) ==
    j.pc = "destroy" => DataIn(t, AsidePlaces) \subseteq Leafs(j.prints) \cup {Folder}

Inv(t, j, k, f) ==
    /\ FileTree(t) /\ JobOK(j) /\ Fresh(t, j, k, f)
    /\ Safe(t, j, k) /\ Carried(t, j, k) /\ Tidy(t, j)
    /\ Doubled(t, j, k) /\ Listed(t, j, k) /\ Compared(t, j)

\* What is kept, but for what the job itself has put over.
Held == kept \ over

JobsInv == Inv(tree, job, Held, foreign)

\* Less kept data is promised no more.
LEMMA InvOfLess ==
  ASSUME NEW t, NEW j, NEW k, NEW f, Inv(t, j, k, f), NEW k2, k2 \subseteq k
  PROVE  Inv(t, j, k2, f)
<1>1. Fresh(t, j, k2, f) /\ Safe(t, j, k2) /\ Carried(t, j, k2)
  BY DEF Inv, Fresh, Safe, Carried
<1>2. Doubled(t, j, k2)
  <2>1. Doubled(t, j, k)
    BY DEF Inv
  <2> QED BY <2>1 DEF Doubled
<1>3. Listed(t, j, k2)
  <2>1. Listed(t, j, k)
    BY DEF Inv
  <2> QED BY <2>1 DEF Listed
<1> QED BY <1>1, <1>2, <1>3 DEF Inv

-----------------------------------------------------------------------------
(* Names and places.                                                       *)
LEMMA NameFacts ==
  /\ \A a \in VisibleNames : a \in AllNames /\ a[1] \notin HiddenTags /\ a = <<a[1], a[2]>>
                             /\ a[1] \in STRING /\ Name(a[1], 0) \in VisibleNames
                             /\ \A n \in Nat : Name(a[1], n) \in VisibleNames
  /\ \A tag \in HiddenTags, n \in Nat :
        /\ Hidden(tag, n) \in AllNames /\ Hidden(tag, n) \notin VisibleNames
        /\ Hidden(tag, n)[1] = tag
<1>1. ASSUME NEW a \in VisibleNames
      PROVE  a \in AllNames /\ a[1] \notin HiddenTags /\ a = <<a[1], a[2]>> /\ a[1] \in STRING
             /\ \A n \in Nat : Name(a[1], n) \in VisibleNames
  BY DEF VisibleNames, AllNames, Name
<1>2. ASSUME NEW tag \in HiddenTags, NEW n \in Nat
      PROVE  /\ Hidden(tag, n) \in AllNames /\ Hidden(tag, n) \notin VisibleNames
             /\ Hidden(tag, n)[1] = tag
  BY DEF VisibleNames, AllNames, HiddenNames, Hidden
<1> QED BY <1>1, <1>2

LEMMA VisibleFacts ==
  /\ VisiblePaths \subseteq Paths
  /\ \A q \in Paths : q \in VisiblePaths <=> q[2] \in VisibleNames /\ NothingHiddenIn(q)
<1>1. ASSUME NEW q \in Paths
      PROVE  q \in VisiblePaths <=> q[2] \in VisibleNames /\ NothingHiddenIn(q)
  <2>1. CASE q \in Roots
    <3>1. q = <<q[1], q[2]>> /\ q[1] \in Folders /\ q \notin Children /\ Len(q) = 2
      BY <2>1, PathShapes, RootsAndChildren
    <3>2. q \in VisiblePaths => q[2] \in VisibleNames
      <4> SUFFICES ASSUME q \in VisiblePaths PROVE q[2] \in VisibleNames
        OBVIOUS
      <4>1. CASE q \in Folders \X VisibleNames
        BY <4>1
      <4>2. CASE q \in Folders \X VisibleNames \X VisibleNames
        BY <4>2
      <4> QED BY <4>1, <4>2 DEF VisiblePaths
    <3>3. q[2] \in VisibleNames => q \in VisiblePaths
      BY <3>1 DEF VisiblePaths
    <3> QED BY <3>1, <3>2, <3>3 DEF NothingHiddenIn
  <2>2. CASE q \in Children
    <3>1. q = <<q[1], q[2], q[3]>> /\ q[1] \in Folders /\ Len(q) = 3
      BY <2>2, PathShapes
    <3>2. q \in VisiblePaths => q[2] \in VisibleNames /\ q[3] \in VisibleNames
      <4> SUFFICES ASSUME q \in VisiblePaths PROVE q[2] \in VisibleNames /\ q[3] \in VisibleNames
        OBVIOUS
      <4>1. CASE q \in Folders \X VisibleNames
        <5>1. PICK f \in Folders, a \in VisibleNames : q = <<f, a>>
          BY <4>1
        <5>2. Len(q) = 2
          BY <5>1
        <5> QED BY <3>1, <5>2
      <4>2. CASE q \in Folders \X VisibleNames \X VisibleNames
        BY <4>2
      <4> QED BY <4>1, <4>2 DEF VisiblePaths
    <3>3. q[2] \in VisibleNames /\ q[3] \in VisibleNames => q \in VisiblePaths
      BY <3>1 DEF VisiblePaths
    <3> QED BY <2>2, <3>2, <3>3 DEF NothingHiddenIn
  <2> QED BY <2>1, <2>2 DEF Paths
<1>2. VisiblePaths \subseteq Paths
  <2>1. VisibleNames \subseteq AllNames
    BY DEF AllNames
  <2> QED BY <2>1 DEF VisiblePaths, Paths, Roots, Children
<1> QED BY <1>1, <1>2

LEMMA JobPlaces ==
  ASSUME NEW o \in Ops
  PROVE  /\ SourcesOf(o) \subseteq Roots /\ TargetsOf(o) \subseteq Roots
         /\ \A p \in SourcesOf(o) : p[1] = HomeFolder(o) /\ p[2] \in VisibleNames /\ p = <<p[1], p[2]>>
         /\ \A p \in TargetsOf(o) : p[1] = TargetFolder(o) /\ p[2] \in VisibleNames /\ p = <<p[1], p[2]>>
         /\ o \notin Deletions => HomeFolder(o) # TargetFolder(o)
         /\ o = "copy" => TargetFolder(o) = "dst" /\ HomeFolder(o) = "src"
<1>1. HomeFolder(o) \in Folders /\ TargetFolder(o) \in Folders
  BY DEF HomeFolder, TargetFolder, Folders, Ops
<1>2. o \notin Deletions => HomeFolder(o) # TargetFolder(o)
  BY DEF HomeFolder, TargetFolder, Ops, Deletions
<1>3. \A f \in Folders : {f} \X VisibleNames \subseteq Roots
  BY DEF Roots, AllNames
<1>4. \A f \in Folders : \A p \in {f} \X VisibleNames : p[1] = f /\ p[2] \in VisibleNames /\ p = <<p[1], p[2]>>
  OBVIOUS
<1>5. o = "copy" => TargetFolder(o) = "dst" /\ HomeFolder(o) = "src"
  BY DEF HomeFolder, TargetFolder
<1> QED BY <1>1, <1>2, <1>3, <1>4, <1>5 DEF SourcesOf, TargetsOf

\* A path on a tree of its own.
LEMMA TreesApart ==
  ASSUME NEW q \in Paths
  PROVE  /\ q[1] = RootOf(q)[1] /\ q[2] = RootOf(q)[2]
         /\ \A p \in Roots : q \in TreeOf(p) => q[1] = p[1] /\ q[2] = p[2]
         /\ \A p \in Roots, r \in Roots : q \in TreeOf(p) /\ q \in TreeOf(r) => p = r
         /\ \A p \in Roots : q \in CleanTree(p) /\ p[2] \in VisibleNames => q \in VisiblePaths
         /\ \A p \in Roots : q \in CleanTree(p) /\ p[2][1] \notin {".part", ".leaf"} => q \in Secures
         /\ q \in VisiblePaths => q \in Secures /\ q \in CleanTree(RootOf(q))
<1>1. q[1] = RootOf(q)[1] /\ q[2] = RootOf(q)[2]
  BY DEF RootOf
<1>2. \A p \in Roots : q \in TreeOf(p) => q[1] = p[1] /\ q[2] = p[2] /\ RootOf(q) = p
  BY <1>1 DEF TreeOf
<1>3. \A p \in Roots : q \in CleanTree(p) => q \in TreeOf(p) /\ NothingHiddenIn(q)
  BY DEF CleanTree
<1>4. q \in VisiblePaths => q[2] \in VisibleNames /\ NothingHiddenIn(q)
  BY VisibleFacts
<1>5. q[2] \in VisibleNames => q[2][1] \notin HiddenTags
  BY NameFacts
<1>6. q \in TreeOf(RootOf(q))
  BY Rooted
<1>7. \A p \in Roots : q \in CleanTree(p) /\ p[2] \in VisibleNames => q \in VisiblePaths
  BY <1>2, <1>3, VisibleFacts
<1>8. \A p \in Roots : q \in CleanTree(p) /\ p[2][1] \notin {".part", ".leaf"} => q \in Secures
  BY <1>2, <1>3 DEF Secures
<1>9. q \in VisiblePaths => q \in Secures /\ q \in CleanTree(RootOf(q))
  BY <1>4, <1>5, <1>6 DEF Secures, CleanTree, HiddenTags
<1> QED BY <1>1, <1>2, <1>7, <1>8, <1>9

\* What goes from the tree of one root to that of another.
LEMMA GoesTo ==
  ASSUME NEW q \in Paths, NEW r \in Roots
  PROVE  /\ To(q, r) \in TreeOf(r) /\ To(q, r) \in Paths
         /\ NothingHiddenIn(q) <=> To(q, r) \in CleanTree(r)
         /\ NothingHiddenIn(q) <=> NothingHiddenIn(To(q, r))
         /\ To(q, r) \in Children <=> q \in Children
         /\ q \in Children => To(q, r)[3] = q[3]
<1>0. RootOf(q) \in Roots
  BY Rooted
<1>1. /\ To(q, r) \in Paths /\ RootOf(To(q, r)) = r
      /\ To(q, r) \in Roots <=> q \in Roots
      /\ q \notin Roots => To(q, r)[3] = q[3] /\ q[3] \in AllNames
  BY <1>0, RebasedRoot
<1>2. (q \in Children <=> q \notin Roots) /\ (To(q, r) \in Children <=> To(q, r) \notin Roots)
  BY <1>1, Rooted
<1>3. NothingHiddenIn(q) <=> NothingHiddenIn(To(q, r))
  BY <1>1, <1>2 DEF NothingHiddenIn
<1>4. To(q, r) \in TreeOf(r)
  BY <1>1 DEF TreeOf
<1> QED BY <1>1, <1>2, <1>3, <1>4 DEF CleanTree

LEMMA HiddenRoots ==
  /\ \A f \in Folders, tag \in HiddenTags, n \in Nat :
        /\ <<f, Hidden(tag, n)>> \in Roots
        /\ \A a \in AllNames : <<f, a, Hidden(tag, n)>> \in Children
  /\ \A n \in Nat : /\ Quarantine(n) \in Roots /\ Quarantine(n)[1] = "dst"
                    /\ Quarantine(n)[2] = Hidden(".undo", n) /\ Quarantine(n)[2][1] = ".undo"
                    /\ Quarantine(n)[2] \notin VisibleNames
  /\ \A j : /\ StagingOf(j) \in Roots /\ StagingOf(j)[2] = Hidden(".part", 0)
            /\ StagingOf(j)[2][1] = ".part" /\ StagingOf(j)[2] \notin VisibleNames
            /\ StagingOf(j)[1] \in {"src", "dst"}
  /\ \A m \in Nat, n \in Nat : Quarantine(m) = Quarantine(n) => m = n
  /\ \A j : \A n \in Nat : Quarantine(n) # StagingOf(j)
<1>1. ASSUME NEW f \in Folders, NEW tag \in HiddenTags, NEW n \in Nat
      PROVE  /\ <<f, Hidden(tag, n)>> \in Roots
             /\ \A a \in AllNames : <<f, a, Hidden(tag, n)>> \in Children
  BY PathShapes, NameFacts
<1>2. ASSUME NEW n \in Nat
      PROVE  /\ Quarantine(n) \in Roots /\ Quarantine(n)[1] = "dst"
             /\ Quarantine(n)[2] = Hidden(".undo", n) /\ Quarantine(n)[2][1] = ".undo"
             /\ Quarantine(n)[2] \notin VisibleNames
  <2>1. "dst" \in Folders /\ ".undo" \in HiddenTags
    BY DEF Folders, HiddenTags
  <2>2. Hidden(".undo", n)[1] = ".undo" /\ Hidden(".undo", n) \notin VisibleNames
    BY <2>1, NameFacts
  <2> QED BY <1>1, <2>1, <2>2 DEF Quarantine
<1>3. ASSUME NEW j
      PROVE  /\ StagingOf(j) \in Roots /\ StagingOf(j)[2] = Hidden(".part", 0)
             /\ StagingOf(j)[2][1] = ".part" /\ StagingOf(j)[2] \notin VisibleNames
             /\ StagingOf(j)[1] \in {"src", "dst"}
  <2>1. "dst" \in Folders /\ "src" \in Folders /\ ".part" \in HiddenTags
    BY DEF Folders, HiddenTags
  <2>2. Hidden(".part", 0)[1] = ".part" /\ Hidden(".part", 0) \notin VisibleNames
    BY <2>1, NameFacts
  <2> QED BY <1>1, <2>1, <2>2 DEF StagingOf
<1>4. ASSUME NEW m \in Nat, NEW n \in Nat, Quarantine(m) = Quarantine(n) PROVE m = n
  BY <1>4 DEF Quarantine, Hidden
<1>5. ASSUME NEW j, NEW n \in Nat PROVE Quarantine(n) # StagingOf(j)
  BY <1>2, <1>3
<1> QED BY <1>1, <1>2, <1>3, <1>4, <1>5

-----------------------------------------------------------------------------
(* The paths of a job that copies.                                         *)
LEMMA FrontOfPath ==
  ASSUME NEW w \in Roots, NEW l \in AllNames
  PROVE  /\ w \o << >> = w /\ Append(Front(w), l) = <<w[1], l>>
         /\ \A c \in AllNames : /\ w \o <<c>> = <<w[1], w[2], c>> /\ Append(w, c) = <<w[1], w[2], c>>
                                /\ Append(Front(w \o <<c>>), l) = <<w[1], w[2], l>>
                                /\ Front(<<w[1], w[2], c>>) = w
<1>1. w = <<w[1], w[2]>> /\ w[1] \in Folders /\ w[2] \in AllNames /\ Len(w) = 2 /\ w \in Seq(Words)
      /\ l \in Words
  BY PathShapes DEF Words
<1>2. w \o << >> = w
  BY <1>1, ConcatEmptySeq
<1>3. Front(w) = <<w[1]>>
  <2>1. Front(w) \in Seq(Words) /\ Len(Front(w)) = 1 /\ Front(w)[1] = w[1]
    <3>1. Front(w) = SubSeq(w, 1, 1)
      BY <1>1 DEF Front
    <3>2. 1 \in 1..Len(w) /\ 1 \in 1..(1 - 1 + 1)
      BY <1>1
    <3> QED BY <1>1, <3>1, <3>2, SubSeqProperties
  <2> QED BY <2>1, Tuples
<1>4. Append(Front(w), l) = <<w[1], l>>
  <2> DEFINE s == <<w[1]>>
  <2>1. s \in Seq(Words) /\ Len(s) = 1
    BY <1>1 DEF Words
  <2> HIDE DEF s
  <2> DEFINE x == Append(s, l)
  <2>2. x \in Seq(Words) /\ Len(x) = Len(s) + 1 /\ (\A i \in 1..Len(s) : x[i] = s[i]) /\ x[Len(s) + 1] = l
    <3>1. s \in Seq(Words) /\ l \in Words
      BY <1>1, <2>1
    <3>2. x \in Seq(Words)
      BY <3>1, Appended
    <3>3. Len(x) = Len(s) + 1
      BY <3>1, Appended
    <3>4. \A i \in 1..Len(s) : x[i] = s[i]
      BY <3>1, Appended
    <3>5. x[Len(s) + 1] = l
      BY <3>1, Appended
    <3> QED BY <3>2, <3>3, <3>4, <3>5
  <2> HIDE DEF x
  <2>3. Len(x) = 2 /\ x[1] = s[1] /\ x[2] = l
    BY <2>1, <2>2
  <2>4. x = <<x[1], x[2]>>
    BY <2>2, <2>3, Tuples
  <2>5. s[1] = w[1]
    BY DEF s
  <2>6. x = <<w[1], l>>
    BY <2>3, <2>4, <2>5
  <2> QED BY <1>3, <2>6 DEF x, s
<1>5. ASSUME NEW c \in AllNames
      PROVE  /\ w \o <<c>> = <<w[1], w[2], c>> /\ Append(w, c) = <<w[1], w[2], c>>
             /\ Append(Front(w \o <<c>>), l) = <<w[1], w[2], l>>
             /\ Front(<<w[1], w[2], c>>) = w
  <2>1. c \in Words
    BY DEF Words
  <2>2. w \o <<c>> = <<w[1], w[2], c>> /\ Append(w, c) = <<w[1], w[2], c>>
    BY <1>1, <2>1, Joins
  <2> DEFINE y == <<w[1], w[2], c>>
  <2>3. y \in Seq(Words) /\ Len(y) = 3 /\ y[1] = w[1] /\ y[2] = w[2]
    <3>1. w[1] \in Words /\ w[2] \in Words
      BY <1>1 DEF Words
    <3> QED BY <2>1, <3>1
  <2> HIDE DEF y
  <2>4. Front(y) = w
    <3>1. Front(y) = SubSeq(y, 1, 2)
      BY <2>3 DEF Front
    <3>2. SubSeq(y, 1, 2) = <<y[1], y[2]>>
      BY <2>3, Cuts
    <3> QED BY <1>1, <2>3, <3>1, <3>2
  <2>5. Append(w, l) = <<w[1], w[2], l>>
    BY <1>1, Joins
  <2> QED BY <2>2, <2>4, <2>5 DEF y
<1> QED BY <1>2, <1>4, <1>5

\* The paths of a job that copies.
LEMMA CopyPaths ==
  ASSUME JobOK(job), job.pc \in {"copy"} \cup StagePCs
  PROVE  /\ Source = SourceOf(job) /\ Source \in SourcesOf(job.op) /\ Source \in Roots
         /\ job.i \in DOMAIN job.sources
         /\ Staging = StagingOf(job) /\ Work = WorkOf(job)
         /\ job.target \in TargetsOf(job.op) /\ job.target \in Roots
         /\ Staging \in Roots /\ Work \in Roots /\ Work \notin SourcesOf(job.op) /\ Work # Source
         /\ job.op \in Ops /\ job.op \notin Deletions
<1>1. job.op \in {"copy", "move", "restore"} /\ job.op \in Ops /\ job.op \notin Deletions
      /\ job.i \in Nat \ {0} /\ job.i <= Len(job.sources) /\ job.target \in TargetsOf(job.op)
      /\ job.sources \in Seq(SourcesOf(job.op))
  BY DEF JobOK, JobFits, JobStands, IdlePCs, StagePCs, Ops, Deletions
<1>2. job.i \in DOMAIN job.sources /\ job.sources[job.i] \in SourcesOf(job.op)
  BY <1>1
<1>3. SourcesOf(job.op) \subseteq Roots /\ TargetsOf(job.op) \subseteq Roots
  BY <1>1, JobPlaces
<1>4. Staging = StagingOf(job) /\ Staging \in Roots
  BY HiddenRoots DEF Staging, StagingOf
<1>5. Work = WorkOf(job)
  BY <1>4 DEF Work, WorkOf
<1>6. Work \in Roots /\ Work \notin SourcesOf(job.op)
  <2>1. job.target \notin SourcesOf(job.op)
    BY <1>1, JobPlaces
  <2>2. Staging \notin SourcesOf(job.op)
    BY <1>1, <1>4, JobPlaces, HiddenRoots
  <2> QED BY <1>1, <1>3, <1>4, <2>1, <2>2 DEF Work
<1> QED BY <1>1, <1>2, <1>3, <1>4, <1>5, <1>6 DEF Source, SourceOf

LEMMA LeafPaths ==
  ASSUME JobOK(job), job.pc = "leaf"
  PROVE  /\ Leaf = LeafOf(job) /\ ItemTo = PlaceOf(job)
         /\ \/ /\ job.item = << >> /\ Leaf \in Roots /\ ItemTo \in Roots /\ Leaf # ItemTo /\ ItemTo = Work
               /\ Leaf = <<Work[1], Hidden(".leaf", 0)>>
            \/ /\ job.item # << >> /\ Leaf \in Children /\ ItemTo \in Children /\ RootOf(Leaf) = Work /\ RootOf(ItemTo) = Work
               /\ ItemTo[3] = job.item[1] /\ job.item[1] \in VisibleNames /\ Leaf[3] = Hidden(".leaf", 0)
<1>0. /\ Work = WorkOf(job) /\ Work \in Roots /\ Work[1] \in Folders /\ Work[2] \in AllNames /\ Work = <<Work[1], Work[2]>>
  BY CopyPaths, PathShapes DEF StagePCs, CopyPCs
<1>1. ".leaf" \in HiddenTags /\ Hidden(".leaf", 0) \in AllNames
  BY NameFacts DEF HiddenTags
<1>2. CASE job.item = << >>
  <2>1. ItemTo = Work
    BY <1>0, <1>1, <1>2, FrontOfPath DEF ItemTo
  <2>2. Leaf = <<Work[1], Hidden(".leaf", 0)>>
    BY <1>0, <1>1, <2>1, FrontOfPath DEF Leaf
  <2>3. Leaf \in Roots
    BY <1>0, <1>1, <2>2, HiddenRoots
  <2>4. Work[2] # Hidden(".leaf", 0)
    <3>1. Hidden(".leaf", 0) \notin VisibleNames /\ Hidden(".leaf", 0)[1] = ".leaf"
      BY <1>1, NameFacts
    <3>2. job.how = "merge" => Work \in TargetsOf(job.op)
      BY CopyPaths DEF Work, StagePCs, CopyPCs
    <3>3. job.how # "merge" => Work[2][1] = ".part"
      BY <1>0, HiddenRoots DEF WorkOf
    <3>4. Work \in TargetsOf(job.op) => Work[2] \in VisibleNames
      BY CopyPaths, JobPlaces DEF StagePCs, CopyPCs
    <3> QED BY <3>1, <3>2, <3>3, <3>4
  <2>5. Leaf # ItemTo
    BY <1>0, <2>1, <2>2, <2>4
  <2> QED BY <1>0, <1>2, <2>1, <2>2, <2>3, <2>5 DEF LeafOf, PlaceOf
<1>3. CASE job.item # << >>
  <2>1. job.item \in Seq(VisibleNames) /\ Len(job.item) = 1
    BY <1>3 DEF JobOK, JobStands
  <2>2. job.item = <<job.item[1]>> /\ job.item[1] \in VisibleNames
    BY <2>1, Tuples
  <2>3. job.item[1] \in AllNames
    BY <2>2, NameFacts
  <2>4. ItemTo = <<Work[1], Work[2], job.item[1]>> /\ ItemTo = Work \o <<job.item[1]>>
    <3>1. ItemTo = Work \o job.item
      BY DEF ItemTo
    <3>2. ItemTo = Work \o <<job.item[1]>>
      BY <2>2, <3>1, Zenon
    <3>3. Work \o <<job.item[1]>> = <<Work[1], Work[2], job.item[1]>>
      BY <1>0, <1>1, <2>3, FrontOfPath, ZenonT(60)
    <3>4. ItemTo = <<Work[1], Work[2], job.item[1]>>
      BY <3>2, <3>3, Zenon
    <3> QED BY <3>2, <3>4, Zenon
  <2>5. Leaf = <<Work[1], Work[2], Hidden(".leaf", 0)>>
    <3>1. Append(Front(Work \o <<job.item[1]>>), Hidden(".leaf", 0)) = <<Work[1], Work[2], Hidden(".leaf", 0)>>
      BY <1>0, <1>1, <2>3, FrontOfPath, Zenon
    <3> QED BY <2>4, <3>1, Zenon DEF Leaf
  <2>6. Leaf \in Children /\ ItemTo \in Children
    BY <1>0, <1>1, <2>3, <2>4, <2>5, PathShapes
  <2>7. RootOf(Leaf) = Work /\ RootOf(ItemTo) = Work
    BY <1>0, <2>4, <2>5 DEF RootOf
  <2> QED BY <1>0, <1>3, <2>2, <2>4, <2>5, <2>6, <2>7 DEF LeafOf, PlaceOf
<1> QED BY <1>2, <1>3

-----------------------------------------------------------------------------
(* What the helpers of the job change.                                     *)

\* The fields that the invariant reads, but for those in S, are the same.
SameBut(j, j2, S) ==
    /\ DOMAIN j2 = JobFields
    /\ "op" \notin S => j2.op = j.op
    /\ "sources" \notin S => j2.sources = j.sources
    /\ "all" \notin S => j2.all = j.all
    /\ "pc" \notin S => j2.pc = j.pc
    /\ "i" \notin S => j2.i = j.i
    /\ "target" \notin S => j2.target = j.target
    /\ "how" \notin S => j2.how = j.how
    /\ "merged" \notin S => j2.merged = j.merged
    /\ "item" \notin S => j2.item = j.item
    /\ "walk" \notin S => j2.walk = j.walk
    /\ "stage" \notin S => j2.stage = j.stage
    /\ "affected" \notin S => j2.affected = j.affected
    /\ "moves" \notin S => j2.moves = j.moves
    /\ "prints" \notin S => j2.prints = j.prints
    /\ "undo" \notin S => j2.undo = j.undo
    /\ "n" \notin S => j2.n = j.n
    /\ "stuck" \notin S => j2.stuck = j.stuck

LEMMA SkippedSame ==
  ASSUME NEW j, DOMAIN j = JobFields
  PROVE  SameBut(j, Skipped(j), {})
BY DEF SameBut, Skipped, JobFields

LEMMA IssueSame ==
  ASSUME NEW j, DOMAIN j = JobFields
  PROVE  SameBut(j, Issue(j), {})
BY DEF SameBut, Issue, JobFields

LEMMA NextSourceSame ==
  ASSUME NEW j, DOMAIN j = JobFields
  PROVE  SameBut(j, NextSource(j), {"i", "pc"}) /\ NextSource(j).pc = "next" /\ NextSource(j).i = j.i + 1
BY DEF SameBut, NextSource, JobFields

LEMMA AffectSame ==
  ASSUME NEW j, DOMAIN j = JobFields, NEW t
  PROVE  /\ SameBut(j, Affect(j, t), {"affected"})
         /\ Affect(j, t).affected = Append(j.affected, [source |-> Source, target |-> t])
BY DEF SameBut, Affect, JobFields

LEMMA MovedToSame ==
  ASSUME NEW j, DOMAIN j = JobFields, NEW t
  PROVE  /\ SameBut(j, MovedTo(j, t), {"affected", "moves"})
         /\ MovedTo(j, t).affected = Append(j.affected, [source |-> Source, target |-> t])
         /\ MovedTo(j, t).moves = Append(j.moves, [source |-> Source, target |-> t])
BY DEF SameBut, MovedTo, Affect, JobFields

LEMMA GotoSame ==
  ASSUME DOMAIN job = JobFields, NEW l
  PROVE  SameBut(job, Goto(l), {"pc"}) /\ Goto(l).pc = l
BY DEF SameBut, Goto, JobFields

LEMMA PromptSame ==
  ASSUME DOMAIN job = JobFields, NEW e, NEW s
  PROVE  SameBut(job, Prompt(e, s), {"pc", "stage"}) /\ Prompt(e, s).pc = "error" /\ Prompt(e, s).stage = s
BY DEF SameBut, Prompt, JobFields

LEMMA CopyFailsSame ==
  ASSUME DOMAIN job = JobFields, NEW e
  PROVE  SameBut(job, CopyFails(e), {"pc"}) /\ CopyFails(e).pc = "cleanup"
BY DEF SameBut, CopyFails, JobFields

LEMMA OutcomeSame ==
  ASSUME NEW j, JobFits(j), NEW r, FileTree(tree)
  PROVE  /\ SameBut(j, Outcome(j, r), {"pc", "prints", "undo"}) /\ Outcome(j, r).pc = "ended"
         /\ Outcome(j, r).undo \in {"none", "offered"}
         /\ Outcome(j, r).undo = "offered" => j.op \in {"copy", "move", "trash"}
         /\ Leafs(Outcome(j, r).prints) \subseteq DataIn(tree, MadePlaces(j)) \ {Folder}
<1> DEFINE targets == {j.affected[n].target : n \in DOMAIN j.affected}
           prints == IF j.op = "copy" /\ targets \subseteq DOMAIN tree
                     THEN [q \in UNION {Under(t) : t \in targets} |-> tree[q]] ELSE << >>
           undo == IF \/ j.pc \in {"prepare", "validate"}
                      \/ j.op \notin {"copy", "move", "trash"}
                      \/ j.op = "copy" /\ ~(targets \subseteq DOMAIN tree)
                      \/ j.op = "move" /\ j.moves = << >>
                      \/ j.op = "trash" /\ targets = {}
                   THEN "none" ELSE "offered"
<1>1. Outcome(j, r) = [j EXCEPT !.pc = "ended", !.result = r, !.prints = prints, !.undo = undo]
  BY DEF Outcome
<1>2. undo \in {"none", "offered"} /\ (undo = "offered" => j.op \in {"copy", "move", "trash"})
  OBVIOUS
<1>3. Leafs(prints) \subseteq DataIn(tree, MadePlaces(j)) \ {Folder}
  <2>1. CASE j.op = "copy" /\ targets \subseteq DOMAIN tree
    <3>1. prints = [q \in UNION {Under(t) : t \in targets} |-> tree[q]]
      BY <2>1
    <3>2. ASSUME NEW q \in DOMAIN prints PROVE q \in DOMAIN tree \cap MadePlaces(j) /\ prints[q] = tree[q]
      <4>1. PICK n \in DOMAIN j.affected : q \in Under(j.affected[n].target)
        BY <3>1, <3>2
      <4>2. j.affected[n].target \in Roots
        <5>1. j.affected \in Seq(Pairs(j.op)) /\ j.op \in Ops
          BY DEF JobFits
        <5>2. j.affected[n] \in Pairs(j.op)
          BY <5>1
        <5> QED BY <5>1, <5>2, JobPlaces DEF Pairs
      <4>3. q \in DOMAIN tree \cap TreeOf(j.affected[n].target)
        BY <4>1, <4>2, UnderRootIs
      <4> QED BY <3>1, <3>2, <4>3 DEF MadePlaces
    <3> HIDE DEF prints
    <3> QED BY <3>2 DEF Leafs, DataIn
  <2>2. CASE ~(j.op = "copy" /\ targets \subseteq DOMAIN tree)
    <3>1. prints = << >>
      BY <2>2
    <3>2. DOMAIN << >> = {}
      OBVIOUS
    <3> HIDE DEF prints
    <3> QED BY <3>1, <3>2 DEF Leafs
  <2> QED BY <2>1, <2>2
<1> HIDE DEF prints, undo
<1>4. DOMAIN j = JobFields
  BY DEF JobFits
<1>5. SameBut(j, Outcome(j, r), {"pc", "prints", "undo"}) /\ Outcome(j, r).pc = "ended"
      /\ Outcome(j, r).undo = undo /\ Outcome(j, r).prints = prints
  BY <1>1, <1>4 DEF SameBut, JobFields
<1> QED BY <1>2, <1>3, <1>5

-----------------------------------------------------------------------------
(* Types after a step.                                                     *)
\* What stays of a job that only goes on.
LEMMA FitsSame ==
  ASSUME NEW j, NEW j2, JobFits(j), SameBut(j, j2, {"pc", "i", "target", "item", "walk", "stage"}),
         j2.pc \in PCs, j2.i \in Nat \ {0}
  PROVE  JobFits(j2)
BY DEF JobFits, SameBut

LEMMA AffectFits ==
  ASSUME NEW j, JobFits(j), Source \in SourcesOf(j.op), NEW t \in TargetsOf(j.op)
  PROVE  JobFits(Affect(j, t)) /\ JobFits(MovedTo(j, t))
<1>1. DOMAIN j = JobFields /\ j.affected \in Seq(Pairs(j.op)) /\ j.moves \in Seq(Pairs(j.op))
  BY DEF JobFits
<1>2. [source |-> Source, target |-> t] \in Pairs(j.op)
  BY DEF Pairs
<1>3. /\ Append(j.affected, [source |-> Source, target |-> t]) \in Seq(Pairs(j.op))
      /\ Append(j.moves, [source |-> Source, target |-> t]) \in Seq(Pairs(j.op))
  BY <1>1, <1>2
<1>4. JobFits(Affect(j, t))
  <2>1. SameBut(j, Affect(j, t), {"affected"}) /\ Affect(j, t).affected \in Seq(Pairs(j.op))
    BY <1>1, <1>3, AffectSame
  <2> QED BY <2>1 DEF JobFits, SameBut
<1>5. JobFits(MovedTo(j, t))
  <2>1. /\ SameBut(j, MovedTo(j, t), {"affected", "moves"})
        /\ MovedTo(j, t).affected \in Seq(Pairs(j.op)) /\ MovedTo(j, t).moves \in Seq(Pairs(j.op))
    BY <1>1, <1>3, MovedToSame
  <2> QED BY <2>1 DEF JobFits, SameBut
<1> QED BY <1>4, <1>5

-----------------------------------------------------------------------------
(* Where the data goes with the calls.                                     *)
LEMMA DataFlows ==
  ASSUME NEW t, NEW t2, NEW G, NEW G2, NEW k, NEW k2, k \subseteq DataIn(t, G), k2 \subseteq k,
         \A q \in DOMAIN t \cap G : t[q].data \in k2 =>
            \E q2 \in DOMAIN t2 \cap G2 : t2[q2].data = t[q].data
  PROVE  k2 \subseteq DataIn(t2, G2)
BY DEF DataIn

LEMMA DataComes ==
  ASSUME NEW t, NEW t2, NEW P, NEW P2,
         \A q \in DOMAIN t2 \cap P2 : \E q1 \in DOMAIN t \cap P : t[q1].data = t2[q].data
  PROVE  DataIn(t2, P2) \subseteq DataIn(t, P)
BY DEF DataIn

LEMMA DataGrows ==
  ASSUME NEW t, NEW P, NEW P2, DOMAIN t \cap P \subseteq P2
  PROVE  DataIn(t, P) \subseteq DataIn(t, P2)
BY DEF DataIn

\* Without: what is not below p stays.
LEMMA WithoutData ==
  ASSUME FileTree(tree), NEW p \in Paths
  PROVE  /\ \A P : DataIn(Without(p), P) \subseteq DataIn(tree, P)
         /\ \A P : P \cap Under(p) = {} => DataIn(Without(p), P) = DataIn(tree, P)
         /\ \A P, k : k \subseteq DataIn(tree, P) /\ Folder \notin k /\ k \cap DataAt(p) = {} =>
               k \subseteq DataIn(Without(p), P)
         /\ DOMAIN Without(p) = DOMAIN tree \ Under(p) /\ FileTree(Without(p))
<1>1. /\ FileTree(Without(p))
      /\ DOMAIN Without(p) = DOMAIN tree \ Under(p)
      /\ \A q \in DOMAIN Without(p) : Without(p)[q] = tree[q]
  BY WithoutTree
<1>2. ASSUME NEW P PROVE DataIn(Without(p), P) \subseteq DataIn(tree, P)
  BY <1>1 DEF DataIn
<1>3. ASSUME NEW P, P \cap Under(p) = {} PROVE DataIn(Without(p), P) = DataIn(tree, P)
  BY <1>1, <1>3 DEF DataIn
<1>4. ASSUME NEW P, NEW k, k \subseteq DataIn(tree, P), Folder \notin k, k \cap DataAt(p) = {}
      PROVE  k \subseteq DataIn(Without(p), P)
  <2> SUFFICES ASSUME NEW d \in k PROVE d \in DataIn(Without(p), P)
    OBVIOUS
  <2>1. PICK q \in DOMAIN tree \cap P : tree[q].data = d
    BY <1>4 DEF DataIn
  <2>2. q \notin Under(p)
    BY <1>4, <2>1 DEF DataAt
  <2> QED BY <1>1, <2>1, <2>2 DEF DataIn
<1> QED BY <1>1, <1>2, <1>3, <1>4

LEMMA WithData ==
  ASSUME FileTree(tree), NEW p \in Paths, NEW n, p \notin DOMAIN tree,
         p \in Children => RootOf(p) \in DOMAIN tree /\ tree[RootOf(p)].data = Folder
  PROVE  /\ \A P : DataIn(tree, P) \subseteq DataIn(With(p, n), P)
         /\ \A P : DataIn(With(p, n), P) \subseteq DataIn(tree, P) \cup {n.data}
         /\ \A P : p \notin P => DataIn(With(p, n), P) = DataIn(tree, P)
         /\ \A P : p \in P => n.data \in DataIn(With(p, n), P)
         /\ DOMAIN With(p, n) = DOMAIN tree \cup {p} /\ FileTree(With(p, n))
<1>1. /\ FileTree(With(p, n))
      /\ DOMAIN With(p, n) = DOMAIN tree \cup {p}
      /\ With(p, n)[p] = n
      /\ \A q \in DOMAIN tree : With(p, n)[q] = tree[q]
  <2>1. /\ DOMAIN With(p, n) = DOMAIN tree \cup {p}
        /\ With(p, n)[p] = n
        /\ \A q \in DOMAIN tree : With(p, n)[q] = tree[q]
    BY DEF With
  <2>2. ASSUME NEW q \in DOMAIN With(p, n), q \in Children
        PROVE  RootOf(q) \in DOMAIN tree /\ tree[RootOf(q)].data = Folder
    BY <2>1, <2>2 DEF FileTree
  <2>3. DOMAIN With(p, n) \subseteq Paths
    BY <2>1 DEF FileTree
  <2> QED BY <2>1, <2>2, <2>3 DEF FileTree
<1> QED BY <1>1 DEF DataIn

LEMMA MovedData ==
  ASSUME FileTree(tree), NEW p \in Roots, NEW r \in Roots, p # r, r \notin DOMAIN tree
  PROVE  /\ \A G, G2, k :
              /\ k \subseteq DataIn(tree, G)
              /\ \A q \in DOMAIN tree \cap G : IF RootOf(q) = p THEN To(q, r) \in G2 ELSE q \in G2
              => k \subseteq DataIn(Moved(p, r), G2)
         /\ \A P, P2 :
              (\A q \in DOMAIN tree : IF RootOf(q) = p THEN To(q, r) \in P2 => q \in P ELSE q \in P2 => q \in P)
              => DataIn(Moved(p, r), P2) \subseteq DataIn(tree, P)
         /\ \A P : P \cap (TreeOf(p) \cup TreeOf(r)) = {} => DataIn(Moved(p, r), P) = DataIn(tree, P)
         /\ \A P : (\A q \in DOMAIN tree : IF RootOf(q) = p THEN To(q, r) \in P ELSE q \in P)
                   => DOMAIN Moved(p, r) \subseteq P
         /\ FileTree(Moved(p, r)) /\ DOMAIN Moved(p, r) \subseteq Paths
<1> DEFINE M == Moved(p, r)
<1>1. /\ FileTree(M)
      /\ \A q \in DOMAIN tree : RootOf(q) # p =>
            RootOf(q) # r /\ q \in DOMAIN M /\ M[q] = tree[q]
      /\ \A q \in DOMAIN tree : RootOf(q) = p =>
            To(q, r) \in DOMAIN M /\ M[To(q, r)] = tree[q]
      /\ \A q \in DOMAIN M :
            \/ RootOf(q) # p /\ RootOf(q) # r /\ q \in DOMAIN tree /\ M[q] = tree[q]
            \/ /\ RootOf(q) = r /\ To(q, p) \in DOMAIN tree /\ RootOf(To(q, p)) = p
               /\ M[q] = tree[To(q, p)] /\ To(To(q, p), r) = q
  BY MovedTree
<1> HIDE DEF M
<1>2. ASSUME NEW G, NEW G2, NEW k, k \subseteq DataIn(tree, G),
             \A q \in DOMAIN tree \cap G : IF RootOf(q) = p THEN To(q, r) \in G2 ELSE q \in G2
      PROVE  k \subseteq DataIn(M, G2)
  <2>1. ASSUME NEW q \in DOMAIN tree \cap G PROVE \E q2 \in DOMAIN M \cap G2 : M[q2].data = tree[q].data
    BY <1>1, <1>2
  <2> QED BY <1>2, <2>1, DataFlows
<1>3. ASSUME NEW P, NEW P2,
             \A q \in DOMAIN tree : IF RootOf(q) = p THEN To(q, r) \in P2 => q \in P ELSE q \in P2 => q \in P
      PROVE  DataIn(M, P2) \subseteq DataIn(tree, P)
  <2>1. ASSUME NEW q \in DOMAIN M \cap P2 PROVE \E q1 \in DOMAIN tree \cap P : tree[q1].data = M[q].data
    BY <1>1, <1>3
  <2> QED BY <2>1, DataComes
<1>4. ASSUME NEW P, P \cap (TreeOf(p) \cup TreeOf(r)) = {} PROVE DataIn(M, P) = DataIn(tree, P)
  <2>1. \A q \in Paths : RootOf(q) = p \/ RootOf(q) = r => q \notin P
    BY <1>4 DEF TreeOf
  <2>2. DOMAIN tree \subseteq Paths /\ DOMAIN M \subseteq Paths
    BY <1>1 DEF FileTree
  <2>3. ASSUME NEW q \in DOMAIN tree \cap P PROVE q \in DOMAIN M /\ M[q] = tree[q]
    BY <1>1, <2>1, <2>2
  <2>4. ASSUME NEW q \in DOMAIN M \cap P PROVE q \in DOMAIN tree /\ M[q] = tree[q]
    BY <1>1, <2>1, <2>2
  <2> QED BY <2>3, <2>4 DEF DataIn
<1>5. ASSUME NEW P, \A q \in DOMAIN tree : IF RootOf(q) = p THEN To(q, r) \in P ELSE q \in P
      PROVE  DOMAIN M \subseteq P
  BY <1>1, <1>5
<1>6. DOMAIN M \subseteq Paths
  BY <1>1 DEF FileTree
<1> QED BY <1>1, <1>2, <1>3, <1>4, <1>5, <1>6 DEF M

LEMMA MovedChildData ==
  ASSUME FileTree(tree), NEW p \in Children, NEW r \in Children, RootOf(p) = RootOf(r),
         p \in DOMAIN tree, r \notin DOMAIN tree
  PROVE  /\ \A G, G2, k :
              /\ k \subseteq DataIn(tree, G)
              /\ \A q \in DOMAIN tree \cap G : IF q = p THEN r \in G2 ELSE q \in G2
              => k \subseteq DataIn(Moved(p, r), G2)
         /\ \A P, P2 :
              (\A q \in DOMAIN tree : IF q = p THEN r \in P2 => q \in P ELSE q \in P2 => q \in P)
              => DataIn(Moved(p, r), P2) \subseteq DataIn(tree, P)
         /\ \A P : p \notin P /\ r \notin P => DataIn(Moved(p, r), P) = DataIn(tree, P)
         /\ DOMAIN Moved(p, r) = (DOMAIN tree \ {p}) \cup {r}
         /\ FileTree(Moved(p, r))
<1> DEFINE M == Moved(p, r)
<1>1. /\ FileTree(M)
      /\ DOMAIN M = (DOMAIN tree \ {p}) \cup {r}
      /\ M[r] = tree[p]
      /\ \A q \in DOMAIN tree \ {p} : M[q] = tree[q]
  BY MovedChild
<1> HIDE DEF M
<1>2. ASSUME NEW G, NEW G2, NEW k, k \subseteq DataIn(tree, G),
             \A q \in DOMAIN tree \cap G : IF q = p THEN r \in G2 ELSE q \in G2
      PROVE  k \subseteq DataIn(M, G2)
  <2>1. ASSUME NEW q \in DOMAIN tree \cap G PROVE \E q2 \in DOMAIN M \cap G2 : M[q2].data = tree[q].data
    BY <1>1, <1>2
  <2> QED BY <1>2, <2>1, DataFlows
<1>3. ASSUME NEW P, NEW P2,
             \A q \in DOMAIN tree : IF q = p THEN r \in P2 => q \in P ELSE q \in P2 => q \in P
      PROVE  DataIn(M, P2) \subseteq DataIn(tree, P)
  <2>1. ASSUME NEW q \in DOMAIN M \cap P2 PROVE \E q1 \in DOMAIN tree \cap P : tree[q1].data = M[q].data
    BY <1>1, <1>3
  <2> QED BY <2>1, DataComes
<1>4. ASSUME NEW P, p \notin P, r \notin P PROVE DataIn(M, P) = DataIn(tree, P)
  BY <1>1, <1>4 DEF DataIn
<1> QED BY <1>1, <1>2, <1>3, <1>4 DEF M

LEMMA ExchangedData ==
  ASSUME FileTree(tree), NEW p \in Roots, NEW r \in Roots, p # r
  PROVE  /\ \A G, G2, k :
              /\ k \subseteq DataIn(tree, G)
              /\ \A q \in DOMAIN tree \cap G : tree[q].data \in k => Swap(q, p, r) \in G2
              => k \subseteq DataIn(Exchanged(p, r), G2)
         /\ \A P, P2 :
              (\A q \in DOMAIN tree : Swap(q, p, r) \in P2 => q \in P)
              => DataIn(Exchanged(p, r), P2) \subseteq DataIn(tree, P)
         /\ \A P : P \cap (TreeOf(p) \cup TreeOf(r)) = {} => DataIn(Exchanged(p, r), P) = DataIn(tree, P)
         /\ \A P : (\A q \in DOMAIN tree : Swap(q, p, r) \in P) => DOMAIN Exchanged(p, r) \subseteq P
         /\ FileTree(Exchanged(p, r))
<1> DEFINE E == Exchanged(p, r)
<1>1. /\ FileTree(E)
      /\ \A q \in DOMAIN tree :
            Swap(q, p, r) \in DOMAIN E /\ E[Swap(q, p, r)] = tree[q]
      /\ \A q \in DOMAIN E :
            /\ Swap(q, p, r) \in DOMAIN tree /\ E[q] = tree[Swap(q, p, r)]
            /\ q \in Paths
  BY ExchangedTree
<1>2. \A q \in DOMAIN E : q = Swap(Swap(q, p, r), p, r)
  <2> SUFFICES ASSUME NEW q \in DOMAIN E PROVE q = Swap(Swap(q, p, r), p, r)
    OBVIOUS
  <2>1. q \in Paths
    BY <1>1
  <2>2. RootOf(q) = p => RootOf(To(q, r)) = r /\ To(To(q, r), p) = q
    BY <2>1, RebasedRoot
  <2>3. RootOf(q) = r => RootOf(To(q, p)) = p /\ To(To(q, p), r) = q
    BY <2>1, RebasedRoot
  <2> QED BY <2>2, <2>3 DEF Swap
<1> HIDE DEF E
<1>3. ASSUME NEW G, NEW G2, NEW k, k \subseteq DataIn(tree, G),
             \A q \in DOMAIN tree \cap G : tree[q].data \in k => Swap(q, p, r) \in G2
      PROVE  k \subseteq DataIn(E, G2)
  <2>1. ASSUME NEW q \in DOMAIN tree \cap G, tree[q].data \in k PROVE \E q2 \in DOMAIN E \cap G2 : E[q2].data = tree[q].data
    BY <1>1, <1>3, <2>1
  <2> QED BY <1>3, <2>1, DataFlows
<1>4. ASSUME NEW P, NEW P2, \A q \in DOMAIN tree : Swap(q, p, r) \in P2 => q \in P
      PROVE  DataIn(E, P2) \subseteq DataIn(tree, P)
  <2>1. ASSUME NEW q \in DOMAIN E \cap P2 PROVE \E q1 \in DOMAIN tree \cap P : tree[q1].data = E[q].data
    <3>1. Swap(q, p, r) \in DOMAIN tree /\ E[q] = tree[Swap(q, p, r)] /\ Swap(Swap(q, p, r), p, r) = q
      BY <1>1, <1>2
    <3>2. Swap(q, p, r) \in P
      BY <1>4, <3>1
    <3> QED BY <3>1, <3>2
  <2> QED BY <2>1, DataComes
<1>5. ASSUME NEW P, P \cap (TreeOf(p) \cup TreeOf(r)) = {} PROVE DataIn(E, P) = DataIn(tree, P)
  <2>1. \A q \in Paths : q \in P => Swap(q, p, r) = q
    BY <1>5 DEF TreeOf, Swap
  <2>2. DOMAIN tree \subseteq Paths /\ DOMAIN E \subseteq Paths
    BY <1>1 DEF FileTree
  <2>3. ASSUME NEW q \in DOMAIN tree \cap P PROVE q \in DOMAIN E /\ E[q] = tree[q]
    BY <1>1, <2>1, <2>2
  <2>4. ASSUME NEW q \in DOMAIN E \cap P PROVE q \in DOMAIN tree /\ E[q] = tree[q]
    BY <1>1, <2>1, <2>2
  <2> QED BY <2>3, <2>4 DEF DataIn
<1>6. ASSUME NEW P, \A q \in DOMAIN tree : Swap(q, p, r) \in P
      PROVE  DOMAIN E \subseteq P
  BY <1>1, <1>2, <1>6
<1> QED BY <1>1, <1>3, <1>4, <1>5, <1>6 DEF E

-----------------------------------------------------------------------------
(* A job that rests: nothing of it is hidden, and no source is being taken *)
(* away.                                                                   *)
SparedPlaces(j) == {q \in Secures : j.op \in Deletions => q \notin SourcePlaces(j)}
Resting(t, j, k, f) ==
    /\ FileTree(t) /\ Fresh(t, j, k, f)
    /\ k \subseteq DataIn(t, SparedPlaces(j))
    /\ DOMAIN t \subseteq VisiblePaths
    /\ j.op = "copy" /\ ~j.merged =>
          k \cap DataIn(t, MadePlaces(j)) \subseteq DataIn(t, SourcePlaces(j))

RestPCs == IdlePCs \cup {"remove", "unlink", "removing"}

LEMMA RestingSame ==
  ASSUME NEW t, NEW j, NEW j2, NEW k, NEW f, Resting(t, j, k, f),
         j2.op = j.op, j2.sources = j.sources, j2.prints = j.prints,
         j.merged => j2.merged, j.merged \in BOOLEAN, j2.merged \in BOOLEAN,
         j.op = "copy" => j2.affected = j.affected
  PROVE  Resting(t, j2, k, f)
<1>1. SparedPlaces(j2) = SparedPlaces(j) /\ SourcePlaces(j2) = SourcePlaces(j)
  BY DEF SparedPlaces, SourcePlaces
<1>2. j.op = "copy" => MadePlaces(j2) = MadePlaces(j)
  BY DEF MadePlaces
<1>3. Fresh(t, j2, k, f)
  BY DEF Resting, Fresh
<1> QED BY <1>1, <1>2, <1>3 DEF Resting

LEMMA InvResting ==
  ASSUME NEW t, NEW j, NEW k, NEW f, Inv(t, j, k, f), j.pc \in RestPCs
  PROVE  Resting(t, j, k, f) /\ DOMAIN t \cap HiddenPlaces(j) = {}
<1>1. HiddenPlaces(j) = {}
  <2>1. j.pc \notin StagePCs /\ j.pc \notin AsidePCs /\ j.pc # "leaf" /\ j.pc # "ended"
    BY DEF RestPCs, IdlePCs, StagePCs, CopyPCs, AsidePCs
  <2>2. Quarantined(j) = {}
    BY <2>1 DEF Quarantined, AsidePCs
  <2> QED BY <2>1, <2>2 DEF HiddenPlaces, LeafPlaces
<1>2. DOMAIN t \subseteq VisiblePaths
  BY <1>1 DEF Inv, Tidy
<1>3. k \subseteq DataIn(t, SparedPlaces(j))
  <2>1. SafePlaces(j) \subseteq SparedPlaces(j)
    BY DEF SafePlaces, SparedPlaces
  <2>2. DataIn(t, SafePlaces(j)) \subseteq DataIn(t, SparedPlaces(j))
    BY <2>1, DataGrows
  <2> QED BY <2>2 DEF Inv, Safe
<1>4. j.op = "copy" /\ ~j.merged =>
          k \cap DataIn(t, MadePlaces(j)) \subseteq DataIn(t, SourcePlaces(j))
  <2>1. j.pc \notin AsidePCs \cup {"ended"}
    BY DEF RestPCs, IdlePCs, AsidePCs
  <2>2. MadePlaces(j) \subseteq CopyPlaces(j)
    BY DEF CopyPlaces
  <2>3. DataIn(t, MadePlaces(j)) \subseteq DataIn(t, CopyPlaces(j))
    BY <2>2, DataGrows
  <2> QED BY <2>1, <2>3 DEF Inv, Doubled
<1> QED BY <1>1, <1>2, <1>3, <1>4 DEF Resting, Inv

LEMMA RestingInv ==
  ASSUME NEW t, NEW j, NEW k, NEW f, Resting(t, j, k, f), JobOK(j), j.pc \in RestPCs,
         j.op \in Transfers /\ Removing(j) => k \subseteq DataIn(t, Secures \ TreeOf(SourceOf(j)))
  PROVE  Inv(t, j, k, f)
<1>1. j.pc \notin StagePCs /\ j.pc \notin AsidePCs /\ j.pc # "leaf" /\ j.pc # "ended" /\ j.pc \notin CopyPCs
      /\ j.pc # "discard" /\ j.pc # "destroy"
  BY DEF RestPCs, IdlePCs, StagePCs, CopyPCs, AsidePCs
<1>2. HiddenPlaces(j) \cup VisiblePaths = VisiblePaths
  <2>2. Quarantined(j) = {}
    BY <1>1 DEF Quarantined, AsidePCs
  <2> QED BY <1>1, <2>2 DEF HiddenPlaces, LeafPlaces
<1>3. CopyPlaces(j) = MadePlaces(j)
  BY <1>1 DEF CopyPlaces, LeafPlaces
<1>4. Safe(t, j, k)
  <2>1. CASE j.op \in Transfers /\ Removing(j)
    <3>1. j.op \notin Deletions
      BY <2>1 DEF Transfers, Deletions
    <3>2. Secures \ TreeOf(SourceOf(j)) \subseteq SafePlaces(j)
      BY <3>1 DEF SafePlaces
    <3>3. DataIn(t, Secures \ TreeOf(SourceOf(j))) \subseteq DataIn(t, SafePlaces(j))
      BY <3>2, DataGrows
    <3> QED BY <2>1, <3>3 DEF Safe
  <2>2. CASE ~(j.op \in Transfers /\ Removing(j))
    <3>1. SparedPlaces(j) = SafePlaces(j)
      BY <2>2 DEF SparedPlaces, SafePlaces
    <3> QED BY <3>1 DEF Resting, Safe
  <2> QED BY <2>1, <2>2
<1>5. Carried(t, j, k) /\ Tidy(t, j) /\ Doubled(t, j, k) /\ Listed(t, j, k) /\ Compared(t, j)
  BY <1>1, <1>2, <1>3 DEF Resting, Carried, Tidy, Doubled, Listed, Compared
<1> QED BY <1>4, <1>5 DEF Inv, Resting

\* The job ends, and what it lists for undo is what its targets hold.
LEMMA EndedInv ==
  ASSUME NEW t, NEW j, NEW j2, NEW k, NEW f, Resting(t, j, k, f), JobOK(j2), j2.pc = "ended",
         j2.op = j.op, j2.sources = j.sources, j2.merged = j.merged,
         j2.undo \in {"none", "offered"},
         Leafs(j2.prints) \subseteq DataIn(t, MadePlaces(j))
  PROVE  Inv(t, j2, k, f)
<1>1. HiddenPlaces(j2) \cup VisiblePaths = VisiblePaths
  <2>2. Quarantined(j2) = {}
    BY DEF Quarantined
  <2> QED BY <2>2 DEF HiddenPlaces, LeafPlaces, StagePCs, CopyPCs
<1>2. ~Removing(j2) /\ j2.pc \notin CopyPCs /\ j2.pc # "destroy"
  BY DEF Removing, RemovePCs, CopyPCs
<1>3. SparedPlaces(j) = SafePlaces(j2)
  BY <1>2 DEF SparedPlaces, SafePlaces, SourcePlaces
<1>4. SourcePlaces(j2) = SourcePlaces(j)
  BY DEF SourcePlaces
<1>5. Fresh(t, j2, k, f)
  <2>1. DataIn(t, MadePlaces(j)) \subseteq DataIn(t, Paths)
    <3>1. DOMAIN t \subseteq Paths
      BY DEF Resting, FileTree
    <3> QED BY <3>1 DEF DataIn
  <2> QED BY <2>1 DEF Resting, Fresh
<1>6. Listed(t, j2, k)
  BY <1>4 DEF Listed, Resting, AsidePCs
<1>7. Safe(t, j2, k) /\ Carried(t, j2, k) /\ Tidy(t, j2) /\ Doubled(t, j2, k) /\ Compared(t, j2)
  BY <1>1, <1>2, <1>3 DEF Resting, Safe, Carried, Tidy, Doubled, Compared
<1> QED BY <1>5, <1>6, <1>7 DEF Inv, Resting

\* The step to an end, from a rest.
LEMMA EndsOK ==
  ASSUME NEW j, JobFits(j), NEW r, FileTree(tree), j.op = "copy" /\ j.how = "merge" => j.merged
  PROVE  JobOK(Outcome(j, r))
<1> DEFINE j2 == Outcome(j, r)
<1>1. /\ SameBut(j, j2, {"pc", "prints", "undo"}) /\ j2.pc = "ended"
      /\ j2.undo \in {"none", "offered"}
      /\ j2.undo = "offered" => j.op \in {"copy", "move", "trash"}
  BY OutcomeSame
<1> HIDE DEF j2
<1>2. "ended" \in PCs
  BY DEF PCs
<1>3. JobFits(j2)
  BY <1>1, <1>2 DEF JobFits, SameBut
<1>4. ~Removing(j2)
  BY <1>1 DEF Removing, RemovePCs
<1>5. JobStands(j2) <=> /\ j2.op = "copy" /\ j2.how = "merge" => j2.merged
                        /\ j2.undo = "offered" => j2.op \in {"copy", "move", "trash"}
  BY <1>1, <1>4 DEF JobStands, IdlePCs, StagePCs, CopyPCs, RemovePCs, AsidePCs, BackPCs
<1>6. JobStands(j2)
  BY <1>1, <1>5 DEF SameBut
<1> QED BY <1>3, <1>6 DEF j2, JobOK

LEMMA EndStep ==
  ASSUME NEW j, JobFits(j), NEW r, NEW k, NEW f, Resting(tree, j, k, f),
         j.op = "copy" /\ j.how = "merge" => j.merged
  PROVE  Inv(tree, Outcome(j, r), k, f)
<1> DEFINE j2 == Outcome(j, r)
<1>0. FileTree(tree)
  BY DEF Resting
<1>1. /\ SameBut(j, j2, {"pc", "prints", "undo"}) /\ j2.pc = "ended"
      /\ j2.undo \in {"none", "offered"}
      /\ Leafs(j2.prints) \subseteq DataIn(tree, MadePlaces(j)) \ {Folder}
  BY <1>0, OutcomeSame
<1>2. JobOK(j2)
  BY <1>0, EndsOK
<1> HIDE DEF j2
<1>3. j2.op = j.op /\ j2.sources = j.sources /\ j2.merged = j.merged
  BY <1>1 DEF SameBut
<1>4. Inv(tree, j2, k, f)
  BY <1>1, <1>2, <1>3, EndedInv
<1> QED BY <1>4 DEF j2

-----------------------------------------------------------------------------
(* Steps of a job that rests before and after.                             *)
LEMMA AtRest ==
  ASSUME JobsInv, job.pc \in RestPCs
  PROVE  /\ Resting(tree, job, Held, foreign) /\ JobFits(job) /\ JobStands(job) /\ FileTree(tree)
         /\ DOMAIN tree \subseteq VisiblePaths /\ DOMAIN job = JobFields
         /\ job.undo = "none" /\ (job.op = "copy" /\ job.how = "merge" => job.merged)
<1>1. Resting(tree, job, Held, foreign)
  BY InvResting DEF JobsInv
<1>2. JobFits(job) /\ JobStands(job)
  BY DEF JobsInv, Inv, JobOK
<1>3. job.undo = "none" /\ (job.op = "copy" /\ job.how = "merge" => job.merged)
  BY <1>2 DEF JobStands, RestPCs, IdlePCs, AsidePCs, BackPCs
<1> QED BY <1>1, <1>2, <1>3 DEF Resting, JobFits

LEMMA RestStep ==
  ASSUME JobsInv, job.pc \in RestPCs, UNCHANGED <<tree, Held, foreign>>,
         SameBut(job, job', {"all", "pc", "i", "target", "how", "merged", "item", "walk", "stage", "moves", "affected"}),
         job.op = "copy" => job'.affected = job.affected, job.merged => job'.merged,
         JobFits(job'), JobStands(job'), job'.pc \in RestPCs,
         job.op \in Transfers /\ Removing(job') => Held \subseteq DataIn(tree, Secures \ TreeOf(SourceOf(job')))
  PROVE  JobsInv'
<1>1. Resting(tree, job, Held, foreign) /\ JobFits(job)
  BY AtRest
<1>2. job.merged \in BOOLEAN /\ job'.merged \in BOOLEAN
  BY <1>1 DEF JobFits
<1>3. job'.op = job.op /\ job'.sources = job.sources /\ job'.prints = job.prints
  BY DEF SameBut
<1>4. Resting(tree, job', Held, foreign)
  BY <1>1, <1>2, <1>3, RestingSame
<1>5. Inv(tree, job', Held, foreign)
  BY <1>3, <1>4, RestingInv DEF JobOK
<1> QED BY <1>5 DEF JobsInv

LEMMA RestEnds ==
  ASSUME JobsInv, job.pc \in RestPCs, UNCHANGED <<tree, Held, foreign>>,
         NEW j, JobFits(j), SameBut(job, j, {"affected", "moves"}), job.op = "copy" => j.affected = job.affected,
         NEW r, job' = Outcome(j, r)
  PROVE  JobsInv'
<1>1. Resting(tree, job, Held, foreign) /\ JobFits(job) /\ (job.op = "copy" /\ job.how = "merge" => job.merged)
  BY AtRest
<1>2. j.op = job.op /\ j.sources = job.sources /\ j.prints = job.prints /\ j.merged = job.merged /\ j.how = job.how
      /\ job.merged \in BOOLEAN
  BY <1>1 DEF SameBut, JobFits
<1>3. Resting(tree, j, Held, foreign)
  BY <1>1, <1>2, RestingSame
<1>4. Inv(tree, Outcome(j, r), Held, foreign)
  BY <1>1, <1>2, <1>3, EndStep
<1> QED BY <1>4 DEF JobsInv

LEMMA Itself ==
  ASSUME NEW j, JobFits(j)
  PROVE  SameBut(j, j, {})
BY DEF SameBut, JobFits

LEMMA RestEndsAsIs ==
  ASSUME JobsInv, job.pc \in RestPCs, UNCHANGED <<tree, Held, foreign>>, NEW r, job' = Outcome(job, r)
  PROVE  JobsInv'
<1>1. JobFits(job) /\ SameBut(job, job, {"affected", "moves"})
  BY AtRest, Itself DEF SameBut
<1> QED BY <1>1, RestEnds

\* A step to a place where a job does nothing yet.
LEMMA StandsIdle ==
  ASSUME NEW j, j.pc \in {"prepare", "validate", "next"}, j.undo = "none",
         j.op = "copy" /\ j.how = "merge" => j.merged
  PROVE  JobStands(j) /\ ~Removing(j) /\ j.pc \in RestPCs /\ j.pc \in PCs
BY DEF JobStands, Removing, RemovePCs, IdlePCs, StagePCs, CopyPCs, AsidePCs, BackPCs, RestPCs, PCs

LEMMA PrepareStep ==
  ASSUME JobsInv, Prepare
  PROVE  JobsInv'
<1>0. job.pc = "prepare" /\ job.pc \in RestPCs /\ UNCHANGED <<tree, Held, foreign>>
  BY DEF Prepare, AtPC, RestPCs, IdlePCs, Keep, Quiet, envVars, Held, fsVars
<1>1. /\ JobFits(job) /\ DOMAIN job = JobFields /\ job.undo = "none"
      /\ (job.op = "copy" /\ job.how = "merge" => job.merged)
  BY <1>0, AtRest
<1>2. CASE job.i > Len(job.sources)
  <2>1. job' = [job EXCEPT !.i = 1, !.pc = IF job.op \in {"copy", "move"} THEN "validate" ELSE "next"]
    BY <1>2 DEF Prepare
  <2>2. SameBut(job, job', {"pc", "i"}) /\ job'.i = 1 /\ job'.pc \in {"validate", "next"}
    BY <1>1, <2>1 DEF SameBut, JobFields
  <2>3. JobStands(job') /\ ~Removing(job') /\ job'.pc \in RestPCs /\ job'.pc \in PCs
    BY <1>1, <2>2, StandsIdle DEF SameBut
  <2>4. JobFits(job')
    BY <1>1, <2>2, <2>3 DEF JobFits, SameBut
  <2> QED BY <1>0, <2>2, <2>3, <2>4, RestStep DEF SameBut
<1>3. CASE ~(job.i > Len(job.sources)) /\ cancelled
  BY <1>0, <1>3, RestEndsAsIs DEF Prepare
<1>4. CASE ~(job.i > Len(job.sources)) /\ ~cancelled
  <2>1. PICK x : job' = [job EXCEPT !.i = @ + 1, !.ident = x]
    BY <1>4, Zenon DEF Prepare
  <2>2. SameBut(job, job', {"i"}) /\ job'.i = job.i + 1
    BY <1>1, <2>1 DEF SameBut, JobFields
  <2>3. JobStands(job') /\ ~Removing(job') /\ job'.pc \in RestPCs /\ job'.pc \in PCs
    BY <1>0, <1>1, <2>2, StandsIdle DEF SameBut
  <2>4. JobFits(job')
    BY <1>1, <2>2, <2>3 DEF JobFits, SameBut
  <2> QED BY <1>0, <2>2, <2>3, <2>4, RestStep DEF SameBut
<1> QED BY <1>2, <1>3, <1>4

LEMMA ValidateTransferStep ==
  ASSUME JobsInv, ValidateTransfer
  PROVE  JobsInv'
<1>0. job.pc = "validate" /\ job.pc \in RestPCs /\ UNCHANGED <<tree, Held, foreign>>
  BY DEF ValidateTransfer, AtPC, RestPCs, IdlePCs, Keep, Quiet, envVars, Held, fsVars
<1>1. /\ JobFits(job) /\ DOMAIN job = JobFields /\ job.undo = "none"
      /\ (job.op = "copy" /\ job.how = "merge" => job.merged)
  BY <1>0, AtRest
<1>2. CASE job' = Goto("next")
  <2>2. SameBut(job, job', {"pc"}) /\ job'.pc = "next"
    BY <1>1, <1>2, GotoSame
  <2>3. JobStands(job') /\ ~Removing(job') /\ job'.pc \in RestPCs /\ job'.pc \in PCs
    BY <1>1, <2>2, StandsIdle DEF SameBut
  <2>4. JobFits(job')
    BY <1>1, <2>2, <2>3 DEF JobFits, SameBut
  <2> QED BY <1>0, <2>2, <2>3, <2>4, RestStep DEF SameBut
<1>3. CASE job' = Outcome(job, "Failed")
  BY <1>0, <1>3, RestEndsAsIs
<1> QED BY <1>2, <1>3 DEF ValidateTransfer

LEMMA AllDoneStep ==
  ASSUME JobsInv, AllDone
  PROVE  JobsInv'
<1>0. job.pc = "next" /\ job.pc \in RestPCs /\ UNCHANGED <<tree, Held, foreign>>
      /\ job' = Outcome(job, "Completed")
  BY DEF AllDone, AtPC, RestPCs, IdlePCs, Quiet, envVars, Held, fsVars
<1> QED BY <1>0, RestEndsAsIs

LEMMA StopAtSourceStep ==
  ASSUME JobsInv, StopAtSource
  PROVE  JobsInv'
<1>0. job.pc = "next" /\ job.pc \in RestPCs /\ UNCHANGED <<tree, Held, foreign>>
      /\ job' = Outcome(job, "Cancelled")
  BY DEF StopAtSource, AtSource, AtPC, RestPCs, IdlePCs, Keep, Quiet, envVars, Held, fsVars
<1> QED BY <1>0, RestEndsAsIs

LEMMA DecideCancelStep ==
  ASSUME JobsInv, DecideCancel
  PROVE  JobsInv'
<1>0. job.pc = "conflict" /\ job.pc \in RestPCs /\ UNCHANGED <<tree, Held, foreign>>
      /\ job' = Outcome(job, "Cancelled")
  BY DEF DecideCancel, AtPC, RestPCs, IdlePCs, Keep, Quiet, envVars, Held, fsVars
<1> QED BY <1>0, RestEndsAsIs

-----------------------------------------------------------------------------
(* A free name, and the way to the next source.                            *)
LEMMA SameThrough ==
  ASSUME NEW j, NEW j2, NEW j3, NEW S, NEW T, SameBut(j, j2, S), SameBut(j2, j3, T)
  PROVE  SameBut(j, j3, S \cup T)
BY DEF SameBut

LEMMA LeastNumber ==
  ASSUME NEW T, T \subseteq Nat, T # {}
  PROVE  \E n \in T : \A m \in T : n <= m
<1> DEFINE R == {ss \in Nat \X Nat : ss[1] < ss[2]}
<1>1. IsWellFoundedOn(R, Nat)
  BY NatLessThanWellFounded, Zenon DEF OpToRel
<1>2. \E x \in T : \A y \in T : <<y, x>> \notin R
  <2> HIDE DEF R
  <2> QED BY <1>1, WFMin
<1>3. PICK x \in T : \A y \in T : <<y, x>> \notin R
  BY <1>2
<1>4. \A y \in T : ~(y < x)
  <2> SUFFICES ASSUME NEW y \in T, y < x PROVE FALSE
    OBVIOUS
  <2>1. <<y, x>> \in Nat \X Nat /\ <<y, x>>[1] < <<y, x>>[2]
    OBVIOUS
  <2>2. <<y, x>> \in R
    BY <2>1
  <2> QED BY <2>2, <1>3
<1> QED BY <1>3, <1>4

\* unique_copy_path gives a name that is free.
LEMMA FirstFreeIsFree ==
  ASSUME NEW p, HasFree(p)
  PROVE  \E n \in Nat : FirstFree(p) = CopyOf(p, n) /\ ~path_lexists(FirstFree(p))
<1> DEFINE Is(n) == ~path_lexists(CopyOf(p, n)) /\ \A m \in 1..(n - 1) : path_lexists(CopyOf(p, m))
           T == {n \in 1..MaxNodes : ~path_lexists(CopyOf(p, n))}
<1>0. MaxNodes \in Nat
  BY JobsAssumption
<1>1. T \subseteq Nat /\ T # {}
  BY <1>0 DEF HasFree
<1>2. PICK n \in T : \A m \in T : n <= m
  <2> HIDE DEF T
  <2> QED BY <1>1, LeastNumber
<1>3. n \in 1..MaxNodes /\ Is(n)
  BY <1>0, <1>2
<1> DEFINE c == CHOOSE x \in 1..MaxNodes : Is(x)
<1>4. c \in 1..MaxNodes /\ Is(c)
  <2> HIDE DEF Is
  <2> QED BY <1>3
<1>5. FirstFree(p) = CopyOf(p, c)
  BY DEF FirstFree
<1> HIDE DEF c
<1> QED BY <1>0, <1>4, <1>5

LEMMA TargetPaths ==
  ASSUME JobFits(job), job.i <= Len(job.sources)
  PROVE  /\ Source = SourceOf(job) /\ Source \in SourcesOf(job.op) /\ Source \in Roots /\ job.i \in DOMAIN job.sources
         /\ Source[2] \in VisibleNames
         /\ job.op \in {"copy", "move"} => Requested \in TargetsOf(job.op)
         /\ job.op \in {"copy", "move"} /\ HasFree(Requested) => FirstFree(Requested) \in TargetsOf(job.op)
         /\ job.op = "restore" => Original \in TargetsOf(job.op)
         /\ job.op = "trash" /\ HasFree(<<"trash", Plain(Base(Source))>>) =>
              /\ FirstFree(<<"trash", Plain(Base(Source))>>) \in TargetsOf(job.op)
              /\ FirstFree(<<"trash", Plain(Base(Source))>>) \notin DOMAIN tree
<1>1. job.op \in Ops /\ job.sources \in Seq(SourcesOf(job.op)) /\ job.i \in DOMAIN job.sources
  BY DEF JobFits
<1>2. job.sources[job.i] \in SourcesOf(job.op)
  BY <1>1
<1>3. Source = SourceOf(job) /\ Source \in SourcesOf(job.op) /\ Source \in Roots /\ Source[2] \in VisibleNames
  BY <1>1, <1>2, JobPlaces DEF Source, SourceOf
<1>4. \A n \in Nat : Name(Base(Source), n) \in VisibleNames
  BY <1>3, NameFacts DEF Base
<1>5. \A n \in Nat : <<TargetFolder(job.op), Name(Base(Source), n)>> \in TargetsOf(job.op)
  BY <1>4 DEF TargetsOf
<1>6. Plain(Base(Source)) = Name(Base(Source), 0)
  BY DEF Plain
<1>7. job.op \in {"copy", "move"} => Requested \in TargetsOf(job.op)
  BY <1>5, <1>6 DEF Requested, TargetFolder
<1>8. job.op = "restore" => Original \in TargetsOf(job.op)
  BY <1>5, <1>6 DEF Original, TargetFolder
<1>9. ASSUME NEW f, HasFree(<<f, Plain(Base(Source))>>)
      PROVE  /\ \E n \in Nat : FirstFree(<<f, Plain(Base(Source))>>) = <<f, Name(Base(Source), n)>>
             /\ ~path_lexists(FirstFree(<<f, Plain(Base(Source))>>))
  <2> DEFINE p == <<f, Plain(Base(Source))>>
  <2>1. p[1] = f /\ Base(p) = Base(Source)
    BY DEF Base, Plain, Name
  <2>2. \A n \in Nat : CopyOf(p, n) = <<f, Name(Base(Source), n)>>
    BY <2>1 DEF CopyOf
  <2> HIDE DEF p
  <2>3. PICK n \in Nat : FirstFree(p) = CopyOf(p, n) /\ ~path_lexists(FirstFree(p))
    BY <1>9, FirstFreeIsFree DEF p
  <2> QED BY <2>2, <2>3 DEF p
<1>10. job.op \in {"copy", "move"} /\ HasFree(Requested) => FirstFree(Requested) \in TargetsOf(job.op)
  <2> SUFFICES ASSUME job.op \in {"copy", "move"}, HasFree(Requested)
               PROVE  FirstFree(Requested) \in TargetsOf(job.op)
    OBVIOUS
  <2>1. \E n \in Nat : FirstFree(Requested) = <<"dst", Name(Base(Source), n)>>
    BY <1>9 DEF Requested
  <2> QED BY <2>1, <1>5 DEF TargetFolder
<1>11. job.op = "trash" /\ HasFree(<<"trash", Plain(Base(Source))>>) =>
              /\ FirstFree(<<"trash", Plain(Base(Source))>>) \in TargetsOf(job.op)
              /\ FirstFree(<<"trash", Plain(Base(Source))>>) \notin DOMAIN tree
  <2> SUFFICES ASSUME job.op = "trash", HasFree(<<"trash", Plain(Base(Source))>>)
               PROVE  /\ FirstFree(<<"trash", Plain(Base(Source))>>) \in TargetsOf(job.op)
                      /\ FirstFree(<<"trash", Plain(Base(Source))>>) \notin DOMAIN tree
    OBVIOUS
  <2>1. /\ \E n \in Nat : FirstFree(<<"trash", Plain(Base(Source))>>) = <<"trash", Name(Base(Source), n)>>
        /\ ~path_lexists(FirstFree(<<"trash", Plain(Base(Source))>>))
    BY <1>9
  <2>2. TargetFolder(job.op) = "trash"
    BY DEF TargetFolder
  <2> QED BY <2>1, <2>2, <1>5 DEF path_lexists
<1> QED BY <1>1, <1>3, <1>7, <1>8, <1>10, <1>11

\* The next source, or the next place, of a job that rests.
LEMMA ToNextSource ==
  ASSUME JobsInv, job.pc \in RestPCs, UNCHANGED <<tree, Held, foreign>>,
         NEW j, JobFits(j), SameBut(job, j, {"all", "affected", "moves"}), job.op = "copy" => j.affected = job.affected,
         job' = NextSource(j)
  PROVE  JobsInv'
<1>0. job.undo = "none" /\ (job.op = "copy" /\ job.how = "merge" => job.merged) /\ DOMAIN j = JobFields
  BY AtRest DEF JobFits
<1>1. SameBut(j, job', {"i", "pc"}) /\ job'.pc = "next" /\ job'.i = j.i + 1
  BY <1>0, NextSourceSame
<1>2. SameBut(job, job', {"all", "affected", "moves"} \cup {"i", "pc"})
  BY <1>1, SameThrough
<1>3. JobStands(job') /\ ~Removing(job') /\ job'.pc \in RestPCs /\ job'.pc \in PCs
  BY <1>0, <1>1, <1>2, StandsIdle DEF SameBut
<1>4. JobFits(job')
  BY <1>1, <1>3, FitsSame DEF JobFits, SameBut
<1>5. job.op = "copy" => job'.affected = job.affected
  BY <1>1 DEF SameBut
<1>6. job.merged => job'.merged
  BY <1>2 DEF SameBut
<1> QED BY <1>2, <1>3, <1>4, <1>5, <1>6, RestStep DEF SameBut

LEMMA ToPlace ==
  ASSUME JobsInv, job.pc \in RestPCs, UNCHANGED <<tree, Held, foreign>>,
         SameBut(job, job', {"all", "pc", "target", "how", "merged", "stage"}), job.merged => job'.merged,
         JobFits(job'), JobStands(job'), job'.pc \in RestPCs, ~Removing(job')
  PROVE  JobsInv'
BY RestStep DEF SameBut

-----------------------------------------------------------------------------
(* Where a source goes.                                                    *)
LEMMA StandsTransfer ==
  ASSUME NEW j, j.pc = "transfer", j.undo = "none", j.op \in {"copy", "move"}, j.i <= Len(j.sources),
         j.target \in TargetsOf(j.op), j.op = "copy" /\ j.how = "merge" => j.merged
  PROVE  JobStands(j) /\ ~Removing(j) /\ j.pc \in RestPCs /\ j.pc \in PCs
<1>1. j.pc \notin {"restore", "info", "trash", "conflict", "exchange", "place", "discard", "walk", "removing", "leaf",
                   "move back", "untrash", "quarantine", "destroy", "unquarantine", "error"}
      /\ j.pc \notin AsidePCs \cup BackPCs \cup {"ended"} /\ j.pc \in RestPCs /\ j.pc \in PCs
  BY DEF AsidePCs, BackPCs, RestPCs, IdlePCs, PCs
<1>2. ~Removing(j)
  BY DEF Removing, RemovePCs
<1> QED BY <1>1, <1>2 DEF JobStands

LEMMA ChoiceStep ==
  ASSUME JobsInv, job.pc \in {"next", "conflict"}, UNCHANGED <<tree, Held, foreign>>,
         job.op \in {"copy", "move"}, job.i <= Len(job.sources), HasFree(Requested),
         NEW j, JobFits(j), SameBut(job, j, {"all"}), NEW d \in Decisions, job' = Choice(j, d)
  PROVE  JobsInv'
<1>0. job.pc \in RestPCs
  BY DEF RestPCs, IdlePCs
<1>1. /\ job.undo = "none" /\ (job.op = "copy" /\ job.how = "merge" => job.merged) /\ DOMAIN j = JobFields
      /\ j.undo = "none" /\ j.op = job.op /\ j.i = job.i /\ j.sources = job.sources /\ j.merged \in BOOLEAN
      /\ job.merged = j.merged
  BY <1>0, AtRest DEF JobFits, SameBut
<1>2. Requested \in TargetsOf(job.op) /\ FirstFree(Requested) \in TargetsOf(job.op)
  BY <1>0, AtRest, TargetPaths
<1>3. CASE d = "Skip"
  <2>1. job' = NextSource(Skipped(j))
    BY <1>3 DEF Choice
  <2>2. SameBut(j, Skipped(j), {})
    BY <1>1, SkippedSame
  <2>3. SameBut(job, Skipped(j), {"all"} \cup {})
    BY <2>2, SameThrough
  <2>4. JobFits(Skipped(j))
    BY <2>2 DEF JobFits, SameBut
  <2>5. SameBut(job, Skipped(j), {"all", "affected", "moves"}) /\ Skipped(j).affected = job.affected
    BY <2>3 DEF SameBut
  <2> QED BY <1>0, <2>1, <2>4, <2>5, ToNextSource
<1>4. ASSUME SameBut(j, job', {"target", "how", "merged", "pc"}), job'.pc = "transfer", job'.target \in TargetsOf(job.op),
             job'.how \in {"plain", "replace", "merge"}, job'.merged \in BOOLEAN, j.merged => job'.merged,
             job'.how = "merge" => job'.merged
      PROVE  JobsInv'
  <2>1. /\ job'.undo = "none" /\ job'.op = job.op /\ job'.i = job.i /\ job'.sources = job.sources
    BY <1>1, <1>4 DEF SameBut
  <2>2. JobStands(job') /\ ~Removing(job') /\ job'.pc \in RestPCs /\ job'.pc \in PCs
    BY <1>4, <2>1, StandsTransfer
  <2>3. JobFits(job')
    BY <1>4, <2>2 DEF JobFits, SameBut
  <2>4. SameBut(job, job', {"all"} \cup {"target", "how", "merged", "pc"})
    BY <1>4, SameThrough
  <2>5. SameBut(job, job', {"all", "pc", "target", "how", "merged", "stage"})
    BY <2>4 DEF SameBut
  <2> QED BY <1>0, <1>1, <1>4, <2>2, <2>3, <2>5, ToPlace
<1>5. CASE d = "KeepBoth"
  <2>1. job' = [j EXCEPT !.target = FirstFree(Requested), !.how = "plain", !.pc = "transfer"]
    BY <1>5 DEF Choice
  <2>2. SameBut(j, job', {"target", "how", "merged", "pc"}) /\ job'.pc = "transfer" /\ job'.target = FirstFree(Requested)
        /\ job'.how = "plain" /\ job'.merged = j.merged
    BY <1>1, <2>1 DEF SameBut, JobFields
  <2> QED BY <1>1, <1>2, <1>4, <2>2
<1>6. CASE d = "Replace"
  <2>1. job' = [j EXCEPT !.target = Requested, !.how = "replace", !.replaced = TRUE, !.pc = "transfer"]
    BY <1>6 DEF Choice
  <2>2. SameBut(j, job', {"target", "how", "merged", "pc"}) /\ job'.pc = "transfer" /\ job'.target = Requested
        /\ job'.how = "replace" /\ job'.merged = j.merged
    BY <1>1, <2>1 DEF SameBut, JobFields
  <2> QED BY <1>1, <1>2, <1>4, <2>2
<1>7. CASE d = "MergeDirectory"
  <2>1. job' = [j EXCEPT !.target = Requested, !.how = "merge", !.merged = TRUE, !.replaced = TRUE, !.pc = "transfer"]
    BY <1>7 DEF Choice
  <2>2. SameBut(j, job', {"target", "how", "merged", "pc"}) /\ job'.pc = "transfer" /\ job'.target = Requested
        /\ job'.how = "merge" /\ job'.merged = TRUE
    BY <1>1, <2>1 DEF SameBut, JobFields
  <2> QED BY <1>1, <1>2, <1>4, <2>2
<1> QED BY <1>3, <1>5, <1>6, <1>7 DEF Decisions

LEMMA ChooseDestinationStep ==
  ASSUME JobsInv, ChooseDestination
  PROVE  JobsInv'
<1>0. /\ job.pc = "next" /\ job.pc \in RestPCs /\ UNCHANGED <<tree, Held, foreign>>
      /\ job.op \in {"copy", "move"} /\ job.i <= Len(job.sources) /\ HasFree(Requested)
  BY DEF ChooseDestination, AtSource, AtPC, RestPCs, IdlePCs, Keep, Quiet, envVars, Held, fsVars
<1>1. /\ JobFits(job) /\ DOMAIN job = JobFields /\ job.undo = "none"
      /\ (job.op = "copy" /\ job.how = "merge" => job.merged) /\ Requested \in TargetsOf(job.op)
  BY <1>0, AtRest, TargetPaths
<1>2. CASE job' = [job EXCEPT !.target = Requested, !.how = "plain", !.pc = "transfer"]
  <2>1. SameBut(job, job', {"target", "how", "pc"}) /\ job'.pc = "transfer" /\ job'.target = Requested
        /\ job'.how = "plain"
    BY <1>1, <1>2 DEF SameBut, JobFields
  <2>2. JobStands(job') /\ ~Removing(job') /\ job'.pc \in RestPCs /\ job'.pc \in PCs
    BY <1>0, <1>1, <2>1, StandsTransfer DEF SameBut
  <2>3. JobFits(job')
    BY <1>1, <2>1, <2>2 DEF JobFits, SameBut
  <2>4. SameBut(job, job', {"all", "pc", "target", "how", "merged", "stage"}) /\ (job.merged => job'.merged)
    BY <2>1 DEF SameBut
  <2> QED BY <1>0, <2>2, <2>3, <2>4, ToPlace
<1>3. CASE job.all # "Ask" /\ job' = Choice(job, job.all)
  <2>1. job.all \in Decisions
    BY <1>1, <1>3 DEF JobFits
  <2>2. SameBut(job, job, {"all"})
    BY <1>1, Itself DEF SameBut
  <2> QED BY <1>0, <1>1, <1>3, <2>1, <2>2, ChoiceStep
<1>4. CASE job' = [job EXCEPT !.pc = "conflict", !.canMerge = is_dir(Source) /\ is_dir(Requested)]
  <2>1. SameBut(job, job', {"pc"}) /\ job'.pc = "conflict"
    BY <1>1, <1>4 DEF SameBut, JobFields
  <2>2. job'.pc \in PCs /\ job'.pc \in RestPCs /\ ~Removing(job')
    BY <2>1 DEF PCs, RestPCs, IdlePCs, Removing, RemovePCs
  <2>3. JobFits(job')
    BY <1>1, <2>1, <2>2 DEF JobFits, SameBut
  <2>4. job'.undo = "none" /\ job'.op = job.op /\ job'.i = job.i /\ job'.sources = job.sources
        /\ job'.how = job.how /\ job'.merged = job.merged
    BY <1>1, <2>1 DEF SameBut
  <2>5. JobStands(job')
    BY <1>0, <1>1, <2>1, <2>2, <2>4 DEF JobStands, StagePCs, CopyPCs, AsidePCs, BackPCs
  <2>6. SameBut(job, job', {"all", "pc", "target", "how", "merged", "stage"})
    BY <2>1 DEF SameBut
  <2> QED BY <1>0, <2>2, <2>3, <2>4, <2>5, <2>6, ToPlace
<1>5. CASE job' = Outcome(job, "Failed")
  BY <1>0, <1>5, RestEndsAsIs
<1>6. \/ job' = [job EXCEPT !.target = Requested, !.how = "plain", !.pc = "transfer"]
      \/ job.all # "Ask" /\ job' = Choice(job, job.all)
      \/ job' = [job EXCEPT !.pc = "conflict", !.canMerge = is_dir(Source) /\ is_dir(Requested)]
      \/ job' = Outcome(job, "Failed")
  <2>1. CASE ~path_lexists(Requested)
    BY <2>1, Zenon DEF ChooseDestination
  <2>2. CASE path_lexists(Requested) /\ job.all # "Ask"
    BY <2>2, Zenon DEF ChooseDestination
  <2>3. CASE path_lexists(Requested) /\ job.all = "Ask"
    BY <2>3, Zenon DEF ChooseDestination
  <2> QED BY <2>1, <2>2, <2>3
<1> QED BY <1>2, <1>3, <1>4, <1>5, <1>6

LEMMA DecideStep ==
  ASSUME JobsInv, NEW d \in {"Skip", "KeepBoth", "Replace", "MergeDirectory"}, NEW all \in BOOLEAN, Decide(d, all)
  PROVE  JobsInv'
<1>0. /\ job.pc = "conflict" /\ job.pc \in RestPCs /\ UNCHANGED <<tree, Held, foreign>>
      /\ HasFree(Requested) /\ d \in Decisions
  BY DEF Decide, AtPC, RestPCs, IdlePCs, Keep, Quiet, envVars, Held, fsVars, Decisions
<1>1. /\ JobFits(job) /\ JobStands(job) /\ DOMAIN job = JobFields
  BY <1>0, AtRest
<1>2. job.op \in {"copy", "move"} /\ job.i <= Len(job.sources)
  BY <1>0, <1>1 DEF JobStands, IdlePCs
<1> DEFINE j == IF all THEN [job EXCEPT !.all = d] ELSE job
<1>3. SameBut(job, j, {"all"}) /\ JobFits(j)
  <2>1. CASE all
    <3>1. SameBut(job, j, {"all"}) /\ j.all = d
      BY <1>1, <2>1 DEF SameBut, JobFields
    <3> HIDE DEF j
    <3> QED BY <1>0, <1>1, <3>1 DEF JobFits, SameBut
  <2>2. CASE ~all
    BY <1>1, <2>2, Itself DEF SameBut
  <2> QED BY <2>1, <2>2
<1>4. job' = Choice(j, d)
  BY DEF Decide
<1> HIDE DEF j
<1> QED BY <1>0, <1>2, <1>3, <1>4, ChoiceStep

LEMMA DeleteStep ==
  ASSUME JobsInv, Delete
  PROVE  JobsInv'
<1>0. /\ job.pc = "next" /\ job.pc \in RestPCs /\ UNCHANGED <<tree, Held, foreign>>
      /\ job.op \in Deletions /\ job.i <= Len(job.sources) /\ job' = Goto("remove")
  BY DEF Delete, AtSource, AtPC, RestPCs, IdlePCs, Keep, Quiet, envVars, Held, fsVars, Deletions
<1>1. /\ JobFits(job) /\ DOMAIN job = JobFields /\ job.undo = "none"
  BY <1>0, AtRest
<1>2. SameBut(job, job', {"pc"}) /\ job'.pc = "remove"
  BY <1>0, <1>1, GotoSame
<1>3. job'.pc \in PCs /\ job'.pc \in RestPCs
  BY <1>2 DEF PCs, RestPCs, RemovePCs
<1>4. JobFits(job')
  BY <1>1, <1>2, <1>3 DEF JobFits, SameBut
<1>5. job'.undo = "none" /\ job'.op = job.op /\ job'.i = job.i /\ job'.sources = job.sources
  BY <1>1, <1>2 DEF SameBut
<1>6. job.op \notin Transfers /\ job.op # "copy"
  BY <1>0 DEF Deletions, Transfers
<1>7. JobStands(job')
  BY <1>0, <1>2, <1>5, <1>6 DEF JobStands, IdlePCs, StagePCs, CopyPCs, AsidePCs, BackPCs
<1>8. SameBut(job, job', {"all", "pc", "i", "target", "how", "merged", "item", "walk", "stage", "moves", "affected"})
      /\ (job.merged => job'.merged)
  BY <1>2 DEF SameBut
<1> QED BY <1>0, <1>3, <1>4, <1>6, <1>7, <1>8, RestStep

-----------------------------------------------------------------------------
(* Errors, and the checks of trash and restore.                            *)
LEMMA StandsError ==
  ASSUME NEW j, j.pc = "error", j.undo = "none", j.stage # "remove", j.i <= Len(j.sources),
         j.stage = "identity" => j.op = "trash",
         j.op = "copy" /\ j.how = "merge" => j.merged
  PROVE  JobStands(j) /\ ~Removing(j) /\ j.pc \in RestPCs /\ j.pc \in PCs
<1>1. j.pc \notin {"restore", "info", "trash", "conflict", "exchange", "place", "discard", "walk", "removing", "leaf",
                   "move back", "untrash", "quarantine", "destroy", "unquarantine", "transfer", "copy"}
      /\ j.pc \notin AsidePCs \cup BackPCs \cup {"ended"} \cup StagePCs /\ j.pc \in RestPCs /\ j.pc \in PCs
  BY DEF AsidePCs, BackPCs, RestPCs, IdlePCs, PCs, StagePCs, CopyPCs
<1>2. ~Removing(j)
  BY DEF Removing, RemovePCs
<1> QED BY <1>1, <1>2 DEF JobStands

LEMMA PromptStep ==
  ASSUME JobsInv, job.pc \in RestPCs, UNCHANGED <<tree, Held, foreign>>, job.i <= Len(job.sources),
         NEW e, NEW s \in {"transfer", "identity"}, job' = Prompt(e, s),
         s = "identity" => job.op = "trash"
  PROVE  JobsInv'
<1>1. /\ JobFits(job) /\ DOMAIN job = JobFields /\ job.undo = "none"
      /\ (job.op = "copy" /\ job.how = "merge" => job.merged)
  BY AtRest
<1>2. SameBut(job, job', {"pc", "stage"}) /\ job'.pc = "error" /\ job'.stage = s
  BY <1>1, PromptSame
<1>3. job'.undo = "none" /\ job'.op = job.op /\ job'.i = job.i /\ job'.sources = job.sources
      /\ job'.how = job.how /\ job'.merged = job.merged
  BY <1>1, <1>2 DEF SameBut
<1>4. JobStands(job') /\ ~Removing(job') /\ job'.pc \in RestPCs /\ job'.pc \in PCs
  BY <1>1, <1>2, <1>3, StandsError
<1>5. JobFits(job')
  BY <1>1, <1>2, <1>4 DEF JobFits, SameBut
<1>6. SameBut(job, job', {"all", "pc", "target", "how", "merged", "stage"}) /\ (job.merged => job'.merged)
  BY <1>2, <1>3 DEF SameBut
<1> QED BY <1>4, <1>5, <1>6, ToPlace

\* A step to another place on the same source.
LEMMA GotoStep ==
  ASSUME JobsInv, job.pc \in RestPCs, UNCHANGED <<tree, Held, foreign>>, NEW l,
         SameBut(job, job', {"pc"}), job'.pc = l, l \in RestPCs, l \notin {"remove", "unlink", "removing", "error"},
         JobStands(job')
  PROVE  JobsInv'
<1>1. JobFits(job)
  BY AtRest
<1>2. job'.pc \in PCs /\ ~Removing(job') /\ job'.pc # "discard"
  BY DEF RestPCs, IdlePCs, PCs, Removing, RemovePCs
<1>3. JobFits(job')
  BY <1>1, <1>2 DEF JobFits, SameBut
<1>4. SameBut(job, job', {"all", "pc", "target", "how", "merged", "stage"}) /\ (job.merged => job'.merged)
  BY DEF SameBut
<1> QED BY <1>2, <1>3, <1>4, ToPlace

LEMMA CheckForTrashStep ==
  ASSUME JobsInv, CheckForTrash
  PROVE  JobsInv'
<1>0. /\ job.pc = "next" /\ job.pc \in RestPCs /\ UNCHANGED <<tree, Held, foreign>>
      /\ job.op = "trash" /\ job.i <= Len(job.sources)
  BY DEF CheckForTrash, AtSource, AtPC, RestPCs, IdlePCs, Keep, Quiet, envVars, Held, fsVars
<1>1. /\ DOMAIN job = JobFields /\ job.undo = "none"
  BY <1>0, AtRest
<1>2. CASE job' = Goto("trash")
  <2>1. SameBut(job, job', {"pc"}) /\ job'.pc = "trash"
    BY <1>1, <1>2, GotoSame
  <2>2. job'.undo = "none" /\ job'.op = job.op /\ job'.i = job.i /\ job'.sources = job.sources
    BY <1>1, <2>1 DEF SameBut
  <2>3. JobStands(job')
    BY <1>0, <2>1, <2>2 DEF JobStands, IdlePCs, StagePCs, CopyPCs, AsidePCs, BackPCs, Removing, RemovePCs
  <2>4. "trash" \in RestPCs
    BY DEF RestPCs, IdlePCs
  <2> QED BY <1>0, <2>1, <2>3, <2>4, GotoStep
<1>3. CASE job' = Prompt("io", "identity")
  BY <1>0, <1>3, PromptStep
<1> QED BY <1>2, <1>3 DEF CheckForTrash

LEMMA CheckForRestoreStep ==
  ASSUME JobsInv, CheckForRestore
  PROVE  JobsInv'
<1>0. /\ job.pc = "next" /\ job.pc \in RestPCs /\ UNCHANGED <<tree, Held, foreign>>
      /\ job.op = "restore" /\ job.i <= Len(job.sources)
  BY DEF CheckForRestore, AtSource, AtPC, RestPCs, IdlePCs, Keep, Quiet, envVars, Held, fsVars
<1>1. /\ DOMAIN job = JobFields /\ job.undo = "none" /\ JobFits(job) /\ Original \in TargetsOf(job.op)
  BY <1>0, AtRest, TargetPaths
<1>2. CASE job' = [job EXCEPT !.target = Original, !.pc = "restore"]
  <2>1. SameBut(job, job', {"pc", "target"}) /\ job'.pc = "restore" /\ job'.target = Original
    BY <1>1, <1>2 DEF SameBut, JobFields
  <2>2. job'.undo = "none" /\ job'.op = job.op /\ job'.i = job.i /\ job'.sources = job.sources
    BY <1>1, <2>1 DEF SameBut
  <2>3. JobStands(job') /\ ~Removing(job') /\ job'.pc \in RestPCs /\ job'.pc \in PCs
    BY <1>0, <1>1, <2>1, <2>2 DEF JobStands, IdlePCs, StagePCs, CopyPCs, AsidePCs, BackPCs, Removing, RemovePCs,
                                   RestPCs, PCs
  <2>4. JobFits(job')
    BY <1>1, <2>1, <2>3 DEF JobFits, SameBut
  <2>5. SameBut(job, job', {"all", "pc", "target", "how", "merged", "stage"}) /\ (job.merged => job'.merged)
    BY <2>1 DEF SameBut
  <2> QED BY <1>0, <2>3, <2>4, <2>5, ToPlace
<1>3. CASE \E e \in {"io", "exists"} : job' = Prompt(e, "transfer")
  BY <1>0, <1>3, PromptStep
<1> QED BY <1>2, <1>3 DEF CheckForRestore

LEMMA RemoveInfoStep ==
  ASSUME JobsInv, RemoveInfo
  PROVE  JobsInv'
<1>0. /\ job.pc = "info" /\ job.pc \in RestPCs /\ UNCHANGED <<tree, Held, foreign>>
      /\ job' = NextSource(Affect(job, Original))
  BY DEF RemoveInfo, AtPC, RestPCs, IdlePCs, Quiet, envVars, Held, fsVars
<1>1. /\ DOMAIN job = JobFields /\ JobFits(job) /\ JobStands(job)
  BY <1>0, AtRest
<1>2. job.op = "restore" /\ job.i <= Len(job.sources)
  BY <1>0, <1>1 DEF JobStands, IdlePCs
<1>3. Source \in SourcesOf(job.op) /\ Original \in TargetsOf(job.op)
  BY <1>1, <1>2, TargetPaths
<1>4. JobFits(Affect(job, Original)) /\ SameBut(job, Affect(job, Original), {"affected"})
  BY <1>1, <1>3, AffectFits, AffectSame
<1>5. SameBut(job, Affect(job, Original), {"all", "affected", "moves"})
  BY <1>4 DEF SameBut
<1> QED BY <1>0, <1>2, <1>4, <1>5, ToNextSource

LEMMA SkipErrorStep ==
  ASSUME JobsInv, SkipError
  PROVE  JobsInv'
<1>0. /\ job.pc = "error" /\ job.pc \in RestPCs /\ UNCHANGED <<tree, Held, foreign>> /\ job.op \notin Deletions
  BY DEF SkipError, AtPC, RestPCs, IdlePCs, Quiet, Keep, envVars, Held, fsVars, Deletions
<1>1. /\ DOMAIN job = JobFields /\ JobFits(job) /\ JobStands(job)
  BY <1>0, AtRest
<1>2. job.i <= Len(job.sources)
  BY <1>0, <1>1 DEF JobStands, IdlePCs
<1>3. Source \in SourcesOf(job.op)
  BY <1>1, <1>2, TargetPaths
<1>4. ASSUME NEW j, JobFits(j), SameBut(job, j, {"affected"}), job.op = "copy" => j.affected = job.affected,
             job' = NextSource(Issue(Skipped(j))) \/ job' = NextSource(Skipped(j)) \/ job' = NextSource(Issue(j))
      PROVE  JobsInv'
  <2>0. DOMAIN j = JobFields
    BY <1>4 DEF JobFits
  <2>1. /\ SameBut(j, Skipped(j), {}) /\ SameBut(Skipped(j), Issue(Skipped(j)), {}) /\ SameBut(j, Issue(j), {})
    BY <2>0, SkippedSame, IssueSame DEF SameBut
  <2>2. ASSUME NEW j2, SameBut(j, j2, {}), job' = NextSource(j2)
        PROVE  JobsInv'
    <3>1. JobFits(j2)
      BY <1>4, <2>2 DEF JobFits, SameBut
    <3>2. SameBut(job, j2, {"all", "affected", "moves"}) /\ j2.affected = j.affected
      BY <1>4, <2>2 DEF SameBut
    <3> QED BY <1>0, <1>4, <2>2, <3>1, <3>2, ToNextSource
  <2>3. SameBut(j, Issue(Skipped(j)), {})
    BY <2>1 DEF SameBut
  <2> QED BY <1>4, <2>1, <2>2, <2>3
<1>5. CASE job.stage = "remove"
  <2>1. job.target \in TargetsOf(job.op) /\ job.op # "copy"
    BY <1>0, <1>1, <1>5 DEF JobStands, Removing, RemovePCs, Deletions, Transfers
  <2>2. JobFits(Affect(job, job.target)) /\ SameBut(job, Affect(job, job.target), {"affected"})
    BY <1>1, <1>3, <2>1, AffectFits, AffectSame
  <2>3. job' = NextSource(Issue(Skipped(Affect(job, job.target))))
    <3>1. job.op # "restore"
      BY <1>0, <1>1, <1>5 DEF JobStands
    <3> QED BY <1>5, <3>1, Zenon DEF SkipError
  <2> QED BY <1>4, <2>1, <2>2, <2>3
<1>6. CASE job.stage # "remove"
  <2>1. job' = NextSource(Skipped(job)) \/ job' = NextSource(Issue(Skipped(job)))
    <3>1. CASE job.op = "restore"
      BY <1>6, <3>1, Zenon DEF SkipError
    <3>2. CASE job.op # "restore"
      BY <1>6, <3>2, Zenon DEF SkipError
    <3> QED BY <3>1, <3>2
  <2>2. SameBut(job, job, {"affected"})
    BY <1>1, Itself DEF SameBut
  <2> QED BY <1>1, <1>4, <2>1, <2>2
<1> QED BY <1>5, <1>6

LEMMA CancelErrorStep ==
  ASSUME JobsInv, CancelError
  PROVE  JobsInv'
<1>0. /\ job.pc = "error" /\ job.pc \in RestPCs /\ UNCHANGED <<tree, Held, foreign>>
  BY DEF CancelError, AtPC, RestPCs, IdlePCs, Quiet, Keep, envVars, Held, fsVars
<1>1. /\ DOMAIN job = JobFields /\ JobFits(job) /\ JobStands(job)
  BY <1>0, AtRest
<1>2. job.i <= Len(job.sources)
  BY <1>0, <1>1 DEF JobStands, IdlePCs
<1>3. Source \in SourcesOf(job.op)
  BY <1>1, <1>2, TargetPaths
<1>4. CASE job.stage = "remove" /\ job.op = "move"
  <2>1. job.target \in TargetsOf(job.op)
    BY <1>0, <1>1, <1>4 DEF JobStands, Removing, RemovePCs, Deletions
  <2>2. JobFits(Affect(job, job.target)) /\ SameBut(job, Affect(job, job.target), {"affected"})
    BY <1>1, <1>3, <2>1, AffectFits, AffectSame
  <2> DEFINE j == Affect(job, job.target)
  <2>3. SameBut(j, Issue(j), {})
    BY <2>2, IssueSame DEF JobFits
  <2>4. job' = Outcome(Issue(j), "Cancelled")
    BY <1>4 DEF CancelError
  <2> HIDE DEF j
  <2>5. JobFits(Issue(j)) /\ SameBut(job, Issue(j), {"affected", "moves"})
    BY <2>2, <2>3 DEF j, JobFits, SameBut
  <2> QED BY <1>0, <1>4, <2>4, <2>5, RestEnds
<1>5. CASE ~(job.stage = "remove" /\ job.op = "move")
  <2>1. job' = Outcome(job, "Cancelled")
    BY <1>5, Zenon DEF CancelError
  <2> QED BY <1>0, <2>1, RestEndsAsIs
<1> QED BY <1>4, <1>5

LEMMA RetryStep ==
  ASSUME JobsInv, Retry
  PROVE  JobsInv'
<1>0. /\ job.pc = "error" /\ job.pc \in RestPCs /\ UNCHANGED <<tree, Held, foreign>>
  BY DEF Retry, AtPC, RestPCs, IdlePCs, Quiet, Keep, envVars, Held, fsVars
<1>1. /\ DOMAIN job = JobFields /\ JobFits(job) /\ JobStands(job) /\ job.undo = "none"
      /\ (job.op = "copy" /\ job.how = "merge" => job.merged)
  BY <1>0, AtRest
<1>2. job.i <= Len(job.sources)
  BY <1>0, <1>1 DEF JobStands, IdlePCs
<1>3. CASE job.stage = "remove"
  <2>1. job' = Goto("remove")
    BY <1>3, Zenon DEF Retry
  <2>2. SameBut(job, job', {"pc"}) /\ job'.pc = "remove"
    BY <1>1, <2>1, GotoSame
  <2>3. job'.undo = "none" /\ job'.op = job.op /\ job'.i = job.i /\ job'.sources = job.sources /\ job'.target = job.target
    BY <1>1, <2>2 DEF SameBut
  <2>4. Removing(job) /\ Removing(job') /\ job'.pc \in PCs /\ job'.pc \in RestPCs
    BY <1>0, <1>3, <2>2 DEF Removing, RemovePCs, PCs, RestPCs
  <2>5. job.op \in Deletions \cup Transfers /\ (job.op \notin Deletions => job.target \in TargetsOf(job.op)) /\ job.op # "copy"
    BY <1>0, <1>1, <2>4 DEF JobStands, Deletions, Transfers
  <2>6. JobStands(job')
    BY <1>2, <2>2, <2>3, <2>5 DEF JobStands, IdlePCs, StagePCs, CopyPCs, AsidePCs, BackPCs
  <2>7. JobFits(job')
    BY <1>1, <2>2, <2>4 DEF JobFits, SameBut
  <2>8. job.op \in Transfers => Held \subseteq DataIn(tree, Secures \ TreeOf(SourceOf(job')))
    <3> SUFFICES ASSUME job.op \in Transfers
                 PROVE  Held \subseteq DataIn(tree, Secures \ TreeOf(SourceOf(job')))
      OBVIOUS
    <3>1. SourceOf(job') = SourceOf(job)
      BY <2>3 DEF SourceOf
    <3>2. SafePlaces(job) \subseteq Secures \ TreeOf(SourceOf(job))
      BY <2>4 DEF SafePlaces
    <3>3. DataIn(tree, SafePlaces(job)) \subseteq DataIn(tree, Secures \ TreeOf(SourceOf(job)))
      BY <3>2, DataGrows
    <3> QED BY <3>1, <3>3 DEF JobsInv, Inv, Safe
  <2>9. SameBut(job, job', {"all", "pc", "i", "target", "how", "merged", "item", "walk", "stage", "moves", "affected"})
        /\ (job.merged => job'.merged)
    BY <2>2 DEF SameBut
  <2> QED BY <1>0, <2>4, <2>5, <2>6, <2>7, <2>8, <2>9, RestStep
<1>4. CASE job.stage # "remove" /\ job.stage # "identity"
  <2>1. job' = Goto("next")
    BY <1>4, Zenon DEF Retry
  <2>2. SameBut(job, job', {"pc"}) /\ job'.pc = "next"
    BY <1>1, <2>1, GotoSame
  <2>3. JobStands(job') /\ "next" \in RestPCs
    BY <1>1, <2>2, StandsIdle DEF SameBut, RestPCs, IdlePCs
  <2> QED BY <1>0, <2>2, <2>3, GotoStep
<1>5. CASE job.stage = "identity"
  <2>1. job' = Goto("trash")
    BY <1>5, Zenon DEF Retry
  <2>2. SameBut(job, job', {"pc"}) /\ job'.pc = "trash"
    BY <1>1, <2>1, GotoSame
  <2>3. job'.undo = "none" /\ job'.op = job.op /\ job'.i = job.i /\ job'.sources = job.sources /\ job.op = "trash"
    BY <1>0, <1>1, <1>5, <2>2 DEF SameBut, JobStands
  <2>4. JobStands(job')
    BY <1>2, <2>2, <2>3 DEF JobStands, IdlePCs, StagePCs, CopyPCs, AsidePCs, BackPCs, Removing, RemovePCs
  <2>5. "trash" \in RestPCs
    BY DEF RestPCs, IdlePCs
  <2> QED BY <1>0, <2>2, <2>4, <2>5, GotoStep
<1> QED BY <1>3, <1>4, <1>5

-----------------------------------------------------------------------------
(* A source that is moved by one call.                                     *)
LEMMA NextSourceOK ==
  ASSUME JobFits(job), job.undo = "none", job.op = "copy" /\ job.how = "merge" => job.merged,
         NEW j, JobFits(j), SameBut(job, j, {"all", "affected", "moves"}),
         NEW j2, j2 = NextSource(j)
  PROVE  /\ JobFits(j2) /\ JobStands(j2) /\ j2.pc = "next" /\ j2.pc \in RestPCs /\ ~Removing(j2)
         /\ SameBut(j, j2, {"i", "pc"}) /\ SameBut(job, j2, {"all", "affected", "moves", "i", "pc"})
<1>0. DOMAIN j = JobFields
  BY DEF JobFits
<1>1. SameBut(j, j2, {"i", "pc"}) /\ j2.pc = "next" /\ j2.i = j.i + 1
  BY <1>0, NextSourceSame
<1>2. SameBut(job, j2, {"all", "affected", "moves"} \cup {"i", "pc"})
  BY <1>1, SameThrough
<1>3. JobStands(j2) /\ ~Removing(j2) /\ j2.pc \in RestPCs /\ j2.pc \in PCs
  BY <1>0, <1>1, <1>2, StandsIdle DEF SameBut
<1>4. JobFits(j2)
  BY SMTT(30), <1>1, <1>3, FitsSame DEF JobFits, SameBut
<1>5. SameBut(job, j2, {"all", "affected", "moves", "i", "pc"})
  BY <1>2 DEF SameBut
<1> QED BY <1>1, <1>3, <1>4, <1>5

\* A rename between visible places.
LEMMA RestMoved ==
  ASSUME NEW j, NEW k, NEW f, Resting(tree, j, k, f), j.op \notin Deletions, j.op # "copy",
         NEW p \in Roots, NEW r \in Roots, p # r, r \notin DOMAIN tree, r[2] \in VisibleNames
  PROVE  Resting(Moved(p, r), j, k, f)
<1> DEFINE M == Moved(p, r)
<1>0. FileTree(tree) /\ DOMAIN tree \subseteq VisiblePaths /\ VisiblePaths \subseteq Paths
  BY VisibleFacts DEF Resting
<1>1. /\ \A G, G2, kk :
              /\ kk \subseteq DataIn(tree, G)
              /\ \A q \in DOMAIN tree \cap G : IF RootOf(q) = p THEN To(q, r) \in G2 ELSE q \in G2
              => kk \subseteq DataIn(M, G2)
      /\ \A P, P2 :
              (\A q \in DOMAIN tree : IF RootOf(q) = p THEN To(q, r) \in P2 => q \in P ELSE q \in P2 => q \in P)
              => DataIn(M, P2) \subseteq DataIn(tree, P)
      /\ \A P : (\A q \in DOMAIN tree : IF RootOf(q) = p THEN To(q, r) \in P ELSE q \in P)
                => DOMAIN M \subseteq P
      /\ FileTree(M)
  BY <1>0, MovedData
<1> HIDE DEF M
<1>2. ASSUME NEW q \in DOMAIN tree PROVE To(q, r) \in VisiblePaths /\ To(q, r) \in Paths /\ q \in Paths
  <2>1. q \in VisiblePaths /\ q \in Paths
    BY <1>0
  <2>2. NothingHiddenIn(q)
    BY <2>1, VisibleFacts
  <2>3. To(q, r) \in CleanTree(r) /\ To(q, r) \in Paths
    BY <2>1, <2>2, GoesTo
  <2> QED BY <2>1, <2>3, TreesApart
<1>3. DOMAIN M \subseteq VisiblePaths
  <2>1. \A q \in DOMAIN tree : IF RootOf(q) = p THEN To(q, r) \in VisiblePaths ELSE q \in VisiblePaths
    BY <1>0, <1>2
  <2> QED BY <1>1, <2>1
<1>4. SparedPlaces(j) = Secures /\ VisiblePaths \subseteq Secures
  BY <1>0, TreesApart DEF SparedPlaces
<1>5. k \subseteq DataIn(M, Secures)
  <2>1. \A q \in DOMAIN tree \cap Secures : IF RootOf(q) = p THEN To(q, r) \in Secures ELSE q \in Secures
    BY <1>2, <1>4
  <2>2. k \subseteq DataIn(tree, Secures)
    BY <1>4 DEF Resting
  <2> QED BY <1>1, <2>1, <2>2
<1>6. DataIn(M, Paths) \subseteq DataIn(tree, Paths)
  <2>1. \A q \in DOMAIN tree : IF RootOf(q) = p THEN To(q, r) \in Paths => q \in Paths ELSE q \in Paths => q \in Paths
    BY <1>2
  <2> QED BY <1>1, <2>1
<1>7. Fresh(M, j, k, f)
  BY <1>6 DEF Fresh, Resting
<1> QED BY <1>1, <1>3, <1>4, <1>5, <1>7 DEF Resting, M

LEMMA MovedStep ==
  ASSUME JobsInv, job.pc \in RestPCs, UNCHANGED <<Held, foreign>>, job.op \notin Deletions, job.op # "copy",
         NEW p \in Roots, NEW r \in Roots, p # r, r \notin DOMAIN tree, r[2] \in VisibleNames, tree' = Moved(p, r),
         SameBut(job, job', {"all", "pc", "i", "target", "how", "merged", "item", "walk", "stage", "moves", "affected"}),
         job.merged => job'.merged,
         JobFits(job'), JobStands(job'), job'.pc \in RestPCs, ~Removing(job')
  PROVE  JobsInv'
<1>1. Resting(tree, job, Held, foreign) /\ JobFits(job)
  BY AtRest
<1>2. Resting(Moved(p, r), job, Held, foreign)
  BY <1>1, RestMoved
<1>3. job.merged \in BOOLEAN /\ job'.merged \in BOOLEAN
  BY <1>1 DEF JobFits
<1>4. job'.op = job.op /\ job'.sources = job.sources /\ job'.prints = job.prints
  BY DEF SameBut
<1>5. Resting(tree', job', Held, foreign)
  BY <1>2, <1>3, <1>4, RestingSame
<1>6. Inv(tree', job', Held, foreign)
  BY <1>5, RestingInv DEF JobOK
<1> QED BY <1>6 DEF JobsInv

LEMMA StandsCopy ==
  ASSUME NEW j, j.pc = "copy", j.undo = "none", j.op \in {"copy", "move", "restore"}, j.i <= Len(j.sources),
         j.target \in TargetsOf(j.op), j.op = "copy" /\ j.how = "merge" => j.merged
  PROVE  JobStands(j) /\ ~Removing(j) /\ j.pc \in RestPCs /\ j.pc \in PCs
<1>1. j.pc \notin {"restore", "info", "trash", "conflict", "exchange", "place", "discard", "walk", "removing", "leaf",
                   "move back", "untrash", "quarantine", "destroy", "unquarantine", "error"}
      /\ j.pc \notin AsidePCs \cup BackPCs \cup {"ended"} /\ j.pc \in RestPCs /\ j.pc \in PCs
  BY DEF AsidePCs, BackPCs, RestPCs, IdlePCs, PCs
<1>2. ~Removing(j)
  BY DEF Removing, RemovePCs
<1> QED BY <1>1, <1>2 DEF JobStands

LEMMA TransferStep ==
  ASSUME JobsInv, Transfer
  PROVE  JobsInv'
<1>0. /\ job.pc = "transfer" /\ job.pc \in RestPCs /\ UNCHANGED <<Held, foreign>>
  BY DEF Transfer, AtPC, RestPCs, IdlePCs, Quiet, envVars, Held
<1>1. /\ DOMAIN job = JobFields /\ JobFits(job) /\ JobStands(job) /\ job.undo = "none"
      /\ (job.op = "copy" /\ job.how = "merge" => job.merged)
  BY <1>0, AtRest
<1>2. job.i <= Len(job.sources) /\ job.op \in {"copy", "move", "restore"} /\ job.target \in TargetsOf(job.op)
      /\ job.op \in Ops
  BY <1>0, <1>1 DEF JobStands, JobFits, IdlePCs
<1>3. Source \in SourcesOf(job.op) /\ Source \in Roots
  BY <1>1, <1>2, TargetPaths
<1>4. CASE job' = Goto("copy") /\ UNCHANGED tree
  <2>1. SameBut(job, job', {"pc"}) /\ job'.pc = "copy"
    BY <1>1, <1>4, GotoSame
  <2>2. job'.undo = "none" /\ job'.op = job.op /\ job'.i = job.i /\ job'.sources = job.sources /\ job'.target = job.target
        /\ job'.how = job.how /\ job'.merged = job.merged
    BY <1>1, <2>1 DEF SameBut
  <2>3. JobStands(job')
    BY <1>1, <1>2, <2>1, <2>2, StandsCopy
  <2>4. "copy" \in RestPCs
    BY DEF RestPCs, IdlePCs
  <2> QED BY <1>0, <1>4, <2>1, <2>3, <2>4, GotoStep
<1>5. CASE job' = NextSource(Skipped(job)) /\ UNCHANGED tree
  <2>1. SameBut(job, Skipped(job), {})
    BY <1>1, SkippedSame
  <2>2. JobFits(Skipped(job)) /\ SameBut(job, Skipped(job), {"all", "affected", "moves"})
        /\ Skipped(job).affected = job.affected
    BY <1>1, <2>1 DEF JobFits, SameBut
  <2> QED BY <1>0, <1>5, <2>2, ToNextSource
<1>6. CASE (\E e \in {"io", "exists"} : job' = Prompt(e, "transfer")) /\ UNCHANGED tree
  BY <1>0, <1>2, <1>6, PromptStep
<1>7. CASE /\ job.op # "copy" /\ job.target # Source /\ ~path_lexists(job.target)
           /\ tree' = Moved(Source, job.target) /\ job' = NextSource(MovedTo(job, job.target))
  <2>1. job.op \notin Deletions
    BY <1>2 DEF Deletions
  <2>2. job.target \in Roots /\ job.target[2] \in VisibleNames
    BY <1>2, JobPlaces
  <2>3. job.target \notin DOMAIN tree
    BY <1>7 DEF path_lexists
  <2> DEFINE j == MovedTo(job, job.target)
  <2>4. JobFits(j) /\ SameBut(job, j, {"affected", "moves"})
    BY <1>1, <1>2, <1>3, AffectFits, MovedToSame
  <2> HIDE DEF j
  <2>5. SameBut(job, j, {"all", "affected", "moves"})
    BY <2>4 DEF SameBut
  <2>6. job' = NextSource(j)
    BY <1>7 DEF j
  <2>7. /\ JobFits(job') /\ JobStands(job') /\ job'.pc \in RestPCs /\ ~Removing(job')
        /\ SameBut(job, job', {"all", "affected", "moves", "i", "pc"})
    BY <1>1, <2>4, <2>5, <2>6, NextSourceOK
  <2>8. /\ SameBut(job, job', {"all", "pc", "i", "target", "how", "merged", "item", "walk", "stage", "moves", "affected"})
        /\ (job.merged => job'.merged)
    BY <2>7 DEF SameBut
  <2> QED BY <1>0, <1>3, <1>7, <2>1, <2>2, <2>3, <2>7, <2>8, MovedStep
<1> QED BY <1>4, <1>5, <1>6, <1>7, Zenon DEF Transfer

LEMMA TrashOneStep ==
  ASSUME JobsInv, TrashOne
  PROVE  JobsInv'
<1>0. /\ job.pc = "trash" /\ job.pc \in RestPCs /\ UNCHANGED <<Held, foreign>>
      /\ HasFree(<<"trash", Plain(Base(Source))>>)
  BY DEF TrashOne, AtPC, RestPCs, IdlePCs, Quiet, envVars, Held
<1>1. /\ DOMAIN job = JobFields /\ JobFits(job) /\ JobStands(job) /\ job.undo = "none"
      /\ (job.op = "copy" /\ job.how = "merge" => job.merged)
  BY <1>0, AtRest
<1>2. job.i <= Len(job.sources) /\ job.op = "trash" /\ job.op \in Ops
  BY <1>0, <1>1 DEF JobStands, JobFits, IdlePCs
<1> DEFINE place == FirstFree(<<"trash", Plain(Base(Source))>>)
<1>3. Source \in SourcesOf(job.op) /\ Source \in Roots /\ place \in TargetsOf(job.op) /\ place \notin DOMAIN tree
  BY <1>0, <1>1, <1>2, TargetPaths
<1> HIDE DEF place
<1>4. CASE ~path_lexists(Source)
  <2>1. job' = Prompt("io", "transfer") /\ UNCHANGED tree
    BY <1>4 DEF TrashOne, fsVars
  <2> QED BY <1>0, <1>2, <2>1, PromptStep
<1>5. CASE path_lexists(Source)
  <2>0. tree' = Moved(Source, place) /\ job' = NextSource(Affect(job, place))
    BY <1>5 DEF TrashOne, place
  <2>1. job.op \notin Deletions /\ job.op # "copy"
    BY <1>2 DEF Deletions
  <2>2. place \in Roots /\ place[2] \in VisibleNames /\ place # Source
    BY <1>2, <1>3, <2>1, JobPlaces
  <2> DEFINE j == Affect(job, place)
  <2>4. JobFits(j) /\ SameBut(job, j, {"affected"})
    BY <1>1, <1>3, AffectFits, AffectSame
  <2> HIDE DEF j
  <2>5. SameBut(job, j, {"all", "affected", "moves"})
    BY <2>4 DEF SameBut
  <2>6. job' = NextSource(j)
    BY <2>0 DEF j
  <2>7. /\ JobFits(job') /\ JobStands(job') /\ job'.pc \in RestPCs /\ ~Removing(job')
        /\ SameBut(job, job', {"all", "affected", "moves", "i", "pc"})
    BY <1>1, <2>4, <2>5, <2>6, NextSourceOK
  <2>8. /\ SameBut(job, job', {"all", "pc", "i", "target", "how", "merged", "item", "walk", "stage", "moves", "affected"})
        /\ (job.merged => job'.merged)
    BY <2>7 DEF SameBut
  <2> QED BY <1>0, <1>3, <2>0, <2>1, <2>2, <2>7, <2>8, MovedStep
<1> QED BY <1>4, <1>5

LEMMA RestoreOneStep ==
  ASSUME JobsInv, RestoreOne
  PROVE  JobsInv'
<1>0. /\ job.pc = "restore" /\ job.pc \in RestPCs /\ UNCHANGED <<Held, foreign>>
  BY DEF RestoreOne, AtPC, RestPCs, IdlePCs, Quiet, envVars, Held
<1>1. /\ DOMAIN job = JobFields /\ JobFits(job) /\ JobStands(job) /\ job.undo = "none"
  BY <1>0, AtRest
<1>2. job.i <= Len(job.sources) /\ job.op = "restore" /\ job.op \in Ops /\ job.target \in TargetsOf(job.op)
  BY <1>0, <1>1 DEF JobStands, JobFits, IdlePCs
<1>3. Source \in SourcesOf(job.op) /\ Source \in Roots /\ Original \in TargetsOf(job.op)
  BY <1>1, <1>2, TargetPaths
<1>4. CASE job' = Outcome(job, "Cancelled") /\ UNCHANGED tree
  BY <1>0, <1>4, RestEndsAsIs
<1>5. CASE (\E e \in {"io", "exists"} : job' = Prompt(e, "transfer")) /\ UNCHANGED tree
  BY <1>0, <1>2, <1>5, PromptStep
<1>6. ASSUME SameBut(job, job', {"how", "pc"}), job'.pc = "copy", job'.how \in {"replace", "merge"}, UNCHANGED tree
      PROVE  JobsInv'
  <2>2. job'.undo = "none" /\ job'.op = job.op /\ job'.i = job.i /\ job'.sources = job.sources /\ job'.target = job.target
        /\ job'.merged = job.merged
    BY <1>1, <1>6 DEF SameBut
  <2>3. JobStands(job') /\ ~Removing(job') /\ job'.pc \in RestPCs /\ job'.pc \in PCs
    BY <1>1, <1>2, <1>6, <2>2, StandsCopy
  <2>4. JobFits(job')
    BY <1>1, <1>6, <2>3 DEF JobFits, SameBut
  <2>5. SameBut(job, job', {"all", "pc", "target", "how", "merged", "stage"})
    BY <1>6 DEF SameBut
  <2> QED BY <1>0, <1>6, <2>2, <2>3, <2>4, <2>5, ToPlace
<1>7. CASE job' = [job EXCEPT !.how = "replace", !.replaced = TRUE, !.pc = "copy"] /\ UNCHANGED tree
  <2>1. SameBut(job, job', {"how", "pc"}) /\ job'.pc = "copy" /\ job'.how = "replace"
    BY <1>1, <1>7 DEF SameBut, JobFields
  <2> QED BY <1>6, <1>7, <2>1
<1>8. CASE job' = [job EXCEPT !.how = "merge", !.pc = "copy"] /\ UNCHANGED tree
  <2>1. SameBut(job, job', {"how", "pc"}) /\ job'.pc = "copy" /\ job'.how = "merge"
    BY <1>1, <1>8 DEF SameBut, JobFields
  <2> QED BY <1>6, <1>8, <2>1
<1>9. CASE ~path_lexists(Original) /\ tree' = Moved(Source, Original) /\ job' = Goto("info")
  <2>0. job.op \notin Deletions /\ job.op # "copy"
    BY <1>2 DEF Deletions
  <2>1. Original \in Roots /\ Original[2] \in VisibleNames /\ Original # Source /\ Original \notin DOMAIN tree
    BY <1>2, <1>3, <1>9, <2>0, JobPlaces DEF path_lexists
  <2>2. SameBut(job, job', {"pc"}) /\ job'.pc = "info"
    BY <1>1, <1>9, GotoSame
  <2>3. job'.undo = "none" /\ job'.op = job.op /\ job'.i = job.i /\ job'.sources = job.sources /\ job'.target = job.target
        /\ (job.merged => job'.merged)
    BY <1>1, <2>2 DEF SameBut
  <2>4. job'.pc \in RestPCs /\ job'.pc \in PCs /\ ~Removing(job')
    BY <2>2 DEF RestPCs, IdlePCs, PCs, Removing, RemovePCs
  <2>5. JobStands(job')
    BY <1>2, <2>2, <2>3, <2>4 DEF JobStands, StagePCs, CopyPCs, AsidePCs, BackPCs
  <2>6. JobFits(job')
    BY <1>1, <2>2, <2>4 DEF JobFits, SameBut
  <2>7. SameBut(job, job', {"all", "pc", "i", "target", "how", "merged", "item", "walk", "stage", "moves", "affected"})
    BY <2>2 DEF SameBut
  <2> QED BY <1>0, <1>3, <1>9, <2>0, <2>1, <2>3, <2>4, <2>5, <2>6, <2>7, MovedStep
<1> QED BY <1>4, <1>5, <1>7, <1>8, <1>9, Zenon DEF RestoreOne

-----------------------------------------------------------------------------
(* A job that copies.                                                      *)
\* What its copies are, and what they may hold.
CopiesHold(t, j, k, P) ==
    j.op = "copy" /\ ~j.merged => k \cap DataIn(t, MadePlaces(j) \cup P) \subseteq DataIn(t, SourcePlaces(j))
WorkPlaces(j) == StagingPlaces(j) \cup LeafPlaces(j)

Copying(t, j, k, f) ==
    /\ FileTree(t) /\ Fresh(t, j, k, f)
    /\ k \subseteq DataIn(t, Secures)
    /\ DOMAIN t \subseteq VisiblePaths \cup WorkPlaces(j)
    /\ CopiesHold(t, j, k, WorkPlaces(j))

LEMMA CopyingInv ==
  ASSUME NEW t, NEW j, NEW k, NEW f, Copying(t, j, k, f), JobOK(j), j.pc \in CopyPCs \cup {"cleanup"},
         j.op \in Transfers /\ j.pc \in CopyPCs => k \subseteq DataIn(t, CarriedPlaces(j))
  PROVE  Inv(t, j, k, f)
<1>1. /\ j.pc \in StagePCs /\ j.pc \notin AsidePCs /\ j.pc # "ended" /\ j.pc # "discard" /\ ~Removing(j)
      /\ j.pc # "destroy" /\ j.pc \notin IdlePCs
  BY DEF StagePCs, CopyPCs, AsidePCs, Removing, RemovePCs, IdlePCs
<1>2. j.op \notin Deletions
  BY <1>1 DEF JobOK, JobStands, Deletions
<1>3. SafePlaces(j) = Secures
  BY <1>1, <1>2 DEF SafePlaces
<1>4. WorkPlaces(j) \subseteq HiddenPlaces(j)
  BY <1>1 DEF WorkPlaces, HiddenPlaces
<1>5. CopyPlaces(j) = MadePlaces(j) \cup WorkPlaces(j)
  BY <1>1 DEF CopyPlaces, WorkPlaces
<1>6. Tidy(t, j)
  BY <1>4 DEF Tidy, Copying
<1>7. Safe(t, j, k) /\ Carried(t, j, k) /\ Doubled(t, j, k) /\ Listed(t, j, k) /\ Compared(t, j)
  BY <1>1, <1>3, <1>5 DEF Copying, CopiesHold, Safe, Carried, Doubled, Listed, Compared
<1> QED BY <1>6, <1>7 DEF Inv, Copying

\* The facts about a job that copies.
LEMMA InCopy ==
  ASSUME JobsInv, job.pc \in {"copy"} \cup StagePCs
  PROVE  /\ JobFits(job) /\ JobStands(job) /\ JobOK(job) /\ DOMAIN job = JobFields /\ job.undo = "none"
         /\ job.op \in {"copy", "move", "restore"} /\ job.op \in Ops /\ job.op \notin Deletions
         /\ job.i <= Len(job.sources) /\ job.target \in TargetsOf(job.op) /\ job.merged \in BOOLEAN
         /\ job.op = "copy" /\ job.how = "merge" => job.merged
         /\ Copying(tree, job, Held, foreign)
         /\ Source = SourceOf(job) /\ Source \in SourcesOf(job.op) /\ Source \in Roots
         /\ TreeOf(Source) \subseteq SourcePlaces(job)
         /\ Staging = StagingOf(job) /\ Work = WorkOf(job)
         /\ job.target \in Roots /\ job.target[2] \in VisibleNames /\ job.target \notin SourcesOf(job.op)
         /\ Staging \in Roots /\ Work \in Roots /\ Work \notin SourcesOf(job.op) /\ Work # Source
         /\ Staging \notin SourcesOf(job.op) /\ Staging # job.target
<1>1. JobFits(job) /\ JobStands(job) /\ JobOK(job) /\ DOMAIN job = JobFields
  BY DEF JobsInv, Inv, JobOK, JobFits
<1>2. /\ Source = SourceOf(job) /\ Source \in SourcesOf(job.op) /\ Source \in Roots
      /\ job.i \in DOMAIN job.sources
      /\ Staging = StagingOf(job) /\ Work = WorkOf(job)
      /\ job.target \in TargetsOf(job.op) /\ job.target \in Roots
      /\ Staging \in Roots /\ Work \in Roots /\ Work \notin SourcesOf(job.op) /\ Work # Source
      /\ job.op \in Ops /\ job.op \notin Deletions
  BY <1>1, CopyPaths
<1>3. /\ job.undo = "none" /\ job.op \in {"copy", "move", "restore"} /\ job.i <= Len(job.sources)
      /\ (job.op = "copy" /\ job.how = "merge" => job.merged) /\ job.merged \in BOOLEAN
  BY <1>1 DEF JobStands, JobFits, StagePCs, CopyPCs, AsidePCs, BackPCs, IdlePCs
<1>4. TreeOf(Source) \subseteq SourcePlaces(job)
  BY <1>2 DEF SourcePlaces, SourceOf
<1>5. job.target[2] \in VisibleNames /\ job.target \notin SourcesOf(job.op)
  BY <1>2, JobPlaces
<1>6. Staging \notin SourcesOf(job.op) /\ Staging # job.target
  BY <1>2, <1>5, JobPlaces, HiddenRoots
<1>7. Inv(tree, job, Held, foreign)
  BY DEF JobsInv
<1>8. Copying(tree, job, Held, foreign)
  <2>1. Held \subseteq DataIn(tree, Secures)
    <3>1. SafePlaces(job) \subseteq Secures
      BY DEF SafePlaces
    <3>2. DataIn(tree, SafePlaces(job)) \subseteq DataIn(tree, Secures)
      BY <3>1, DataGrows
    <3> QED BY <1>7, <3>2 DEF Inv, Safe
  <2>2. job.pc \notin AsidePCs /\ job.pc # "ended" /\ Quarantined(job) = {}
    BY DEF StagePCs, CopyPCs, AsidePCs, Quarantined
  <2>3. HiddenPlaces(job) \subseteq WorkPlaces(job)
    BY <2>2 DEF HiddenPlaces, WorkPlaces
  <2>4. DOMAIN tree \subseteq VisiblePaths \cup WorkPlaces(job)
    BY <1>7, <2>3 DEF Inv, Tidy
  <2>5. CopiesHold(tree, job, Held, WorkPlaces(job))
    <3>1. CASE job.pc \in StagePCs
      <4>1. MadePlaces(job) \cup WorkPlaces(job) \subseteq CopyPlaces(job)
        BY <3>1 DEF CopyPlaces, WorkPlaces
      <4>2. DataIn(tree, MadePlaces(job) \cup WorkPlaces(job)) \subseteq DataIn(tree, CopyPlaces(job))
        BY <4>1, DataGrows
      <4> QED BY <1>7, <2>2, <4>2 DEF Inv, Doubled, CopiesHold
    <3>2. CASE job.pc = "copy"
      <4>1. CopyPlaces(job) = MadePlaces(job) /\ LeafPlaces(job) = {}
        BY <3>2 DEF CopyPlaces, LeafPlaces, StagePCs, CopyPCs
      <4>2. DOMAIN tree \subseteq VisiblePaths
        BY <3>2, AtRest DEF RestPCs, IdlePCs
      <4>3. VisiblePaths \cap StagingPlaces(job) = {}
        <5> SUFFICES ASSUME NEW q \in VisiblePaths, q \in CleanTree(StagingOf(job)) PROVE FALSE
          BY DEF StagingPlaces
        <5>1. q \in Paths /\ q[2] \in VisibleNames /\ q \in TreeOf(StagingOf(job))
          BY VisibleFacts DEF CleanTree
        <5> QED BY <5>1, TreesApart, HiddenRoots
      <4>4. DOMAIN tree \cap (MadePlaces(job) \cup WorkPlaces(job)) \subseteq CopyPlaces(job)
        BY <4>1, <4>2, <4>3 DEF WorkPlaces
      <4>5. DataIn(tree, MadePlaces(job) \cup WorkPlaces(job)) \subseteq DataIn(tree, CopyPlaces(job))
        BY <4>4, DataGrows
      <4> QED BY <1>7, <2>2, <4>5 DEF Inv, Doubled, CopiesHold
    <3> QED BY <3>1, <3>2
  <2> QED BY <1>7, <2>1, <2>4, <2>5 DEF Copying, Inv
<1> QED BY <1>1, <1>2, <1>3, <1>4, <1>5, <1>6, <1>8

\* No tree of the copy is one of a source.
LEMMA CopyApart ==
  ASSUME JobsInv, job.pc \in {"copy"} \cup StagePCs, NEW p \in Roots, p \notin SourcesOf(job.op)
  PROVE  SourcePlaces(job) \cap TreeOf(p) = {} /\ TreeOf(Source) \cap TreeOf(p) = {}
<1>1. job.sources \in Seq(SourcesOf(job.op)) /\ TreeOf(Source) \subseteq SourcePlaces(job)
  BY InCopy DEF JobFits
<1>2. ASSUME NEW q, q \in SourcePlaces(job), q \in TreeOf(p) PROVE FALSE
  <2>1. PICK n \in DOMAIN job.sources : q \in TreeOf(job.sources[n])
    BY <1>2 DEF SourcePlaces
  <2>2. job.sources[n] \in SourcesOf(job.op)
    BY <1>1
  <2> QED BY <1>2, <2>1, <2>2 DEF TreeOf
<1> QED BY <1>1, <1>2

LEMMA StandsStage ==
  ASSUME NEW j, j.pc \in {"commit", "exchange", "place", "cleanup", "walk"}, j.undo = "none",
         j.op \in {"copy", "move", "restore"}, j.i <= Len(j.sources),
         j.target \in TargetsOf(j.op), j.op = "copy" /\ j.how = "merge" => j.merged,
         j.pc \in {"exchange", "place"} => j.how = "replace",
         j.pc = "walk" => j.walk \subseteq VisibleNames
  PROVE  JobStands(j) /\ j.pc \in CopyPCs \cup {"cleanup"} /\ j.pc \in PCs /\ ~Removing(j)
<1>1. j.pc \notin {"restore", "info", "trash", "conflict", "discard", "removing", "leaf",
                   "move back", "untrash", "quarantine", "destroy", "unquarantine", "error"}
      /\ j.pc \notin AsidePCs \cup BackPCs \cup {"ended"} /\ j.pc \in PCs /\ j.pc \in CopyPCs \cup {"cleanup"}
  BY DEF AsidePCs, BackPCs, StagePCs, CopyPCs, PCs
<1>2. ~Removing(j)
  BY <1>1 DEF Removing, RemovePCs
<1> QED BY <1>1, <1>2 DEF JobStands

\* What the job knows of its copy does not change what is where.
LEMMA CopyingSame ==
  ASSUME NEW t, NEW j, NEW j2, NEW k, NEW f, Copying(t, j, k, f),
         SameBut(j, j2, {"pc", "item", "walk"}), LeafPlaces(j2) = LeafPlaces(j)
  PROVE  Copying(t, j2, k, f)
<1>1. /\ j2.op = j.op /\ j2.sources = j.sources /\ j2.merged = j.merged /\ j2.how = j.how
      /\ j2.affected = j.affected /\ j2.prints = j.prints
  BY DEF SameBut
<1>2. StagingOf(j2) = StagingOf(j)
  BY <1>1 DEF StagingOf
<1>3. StagingPlaces(j2) = StagingPlaces(j) /\ MadePlaces(j2) = MadePlaces(j) /\ SourcePlaces(j2) = SourcePlaces(j)
  BY <1>1, <1>2 DEF StagingPlaces, MadePlaces, SourcePlaces
<1>4. WorkPlaces(j2) = WorkPlaces(j)
  BY <1>3 DEF WorkPlaces
<1>5. CopiesHold(t, j2, k, WorkPlaces(j2)) /\ Fresh(t, j2, k, f)
  BY <1>1, <1>3, <1>4 DEF Copying, CopiesHold, Fresh
<1> QED BY <1>4, <1>5 DEF Copying

LEMMA CopyFailStep ==
  ASSUME JobsInv, job.pc \in ({"copy", "discard"} \cup CopyPCs) \ {"leaf"}, UNCHANGED <<tree, Held, foreign>>,
         NEW e, job' = CopyFails(e)
  PROVE  JobsInv'
<1>0. job.pc \in {"copy"} \cup StagePCs /\ job.pc # "leaf"
  BY DEF StagePCs, CopyPCs
<1>1. /\ JobFits(job) /\ DOMAIN job = JobFields /\ job.undo = "none"
      /\ job.op \in {"copy", "move", "restore"} /\ job.i <= Len(job.sources) /\ job.target \in TargetsOf(job.op)
      /\ job.op = "copy" /\ job.how = "merge" => job.merged
      /\ Copying(tree, job, Held, foreign)
  BY <1>0, InCopy
<1>2. SameBut(job, job', {"pc"}) /\ job'.pc = "cleanup"
  BY <1>1, CopyFailsSame
<1>3. /\ job'.undo = "none" /\ job'.op = job.op /\ job'.i = job.i /\ job'.sources = job.sources
      /\ job'.how = job.how /\ job'.merged = job.merged /\ job'.target = job.target
  BY <1>1, <1>2 DEF SameBut
<1>4. JobStands(job') /\ job'.pc \in PCs
  BY <1>1, <1>2, <1>3, StandsStage
<1>5. JobFits(job')
  BY <1>1, <1>2, <1>4 DEF JobFits, SameBut
<1>6. LeafPlaces(job') = LeafPlaces(job) /\ SameBut(job, job', {"pc", "item", "walk"})
  BY <1>0, <1>2 DEF LeafPlaces, SameBut
<1>7. Copying(tree, job', Held, foreign)
  BY <1>1, <1>6, CopyingSame
<1>8. job'.pc \notin CopyPCs
  BY <1>2 DEF CopyPCs
<1>9. Inv(tree, job', Held, foreign)
  BY <1>2, <1>4, <1>5, <1>7, <1>8, CopyingInv DEF JobOK
<1> QED BY <1>9 DEF JobsInv

LEMMA StandsLeaf ==
  ASSUME NEW j, j.pc = "leaf", j.undo = "none",
         j.op \in {"copy", "move", "restore"}, j.i <= Len(j.sources),
         j.target \in TargetsOf(j.op), j.op = "copy" /\ j.how = "merge" => j.merged,
         \/ j.item = << >>
         \/ j.item \in Seq(VisibleNames) /\ Len(j.item) = 1 /\ j.walk \subseteq VisibleNames
  PROVE  JobStands(j) /\ j.pc \in CopyPCs /\ j.pc \in PCs /\ ~Removing(j)
<1>1. j.pc \notin {"restore", "info", "trash", "conflict", "discard", "removing", "walk", "exchange", "place",
                   "move back", "untrash", "quarantine", "destroy", "unquarantine", "error"}
      /\ j.pc \notin AsidePCs \cup BackPCs \cup {"ended"} /\ j.pc \in PCs /\ j.pc \in CopyPCs
  BY DEF AsidePCs, BackPCs, StagePCs, CopyPCs, PCs
<1>2. ~Removing(j)
  BY <1>1 DEF Removing, RemovePCs
<1> QED BY <1>1, <1>2 DEF JobStands

LEMMA NodeData ==
  ASSUME NEW d
  PROVE  NewNode(d).data = d
BY DEF NewNode

\* The job's work does not change where its source and its staging tree are.
LEMMA CopyPlacesSame ==
  ASSUME NEW j, NEW j2, SameBut(j, j2, {"pc", "item", "walk"})
  PROVE  /\ StagingOf(j2) = StagingOf(j) /\ StagingPlaces(j2) = StagingPlaces(j) /\ MadePlaces(j2) = MadePlaces(j)
         /\ SourcePlaces(j2) = SourcePlaces(j) /\ SourceOf(j2) = SourceOf(j) /\ WorkOf(j2) = WorkOf(j)
         /\ j2.op = j.op /\ j2.sources = j.sources /\ j2.merged = j.merged /\ j2.how = j.how
         /\ j2.affected = j.affected /\ j2.prints = j.prints /\ j2.target = j.target /\ j2.undo = j.undo /\ j2.i = j.i
<1>1. /\ j2.op = j.op /\ j2.sources = j.sources /\ j2.merged = j.merged /\ j2.how = j.how
      /\ j2.affected = j.affected /\ j2.prints = j.prints /\ j2.target = j.target /\ j2.undo = j.undo /\ j2.i = j.i
  BY DEF SameBut
<1>2. StagingOf(j2) = StagingOf(j)
  BY <1>1 DEF StagingOf
<1>3. SourceOf(j2) = SourceOf(j) /\ WorkOf(j2) = WorkOf(j)
  BY <1>1, <1>2 DEF SourceOf, WorkOf
<1>4. StagingPlaces(j2) = StagingPlaces(j) /\ MadePlaces(j2) = MadePlaces(j) /\ SourcePlaces(j2) = SourcePlaces(j)
  BY <1>1, <1>2 DEF StagingPlaces, MadePlaces, SourcePlaces
<1> QED BY <1>1, <1>2, <1>3, <1>4

\* The data of one more file of the source is at the leaf.
LEMMA ReadStep ==
  ASSUME JobsInv, job.pc \in {"copy", "walk"}, UNCHANGED <<Held, foreign>>,
         NEW leaf \in Paths, leaf = LeafOf(job'), leaf \notin DOMAIN tree,
         leaf \in Children => RootOf(leaf) \in DOMAIN tree /\ tree[RootOf(leaf)].data = Folder,
         NEW from \in DOMAIN tree, from \in TreeOf(Source),
         tree' = With(leaf, NewNode(tree[from].data)),
         SameBut(job, job', {"pc", "item"}), job'.pc = "leaf", JobOK(job'),
         job.op \in Transfers => Held \subseteq DataIn(tree, CarriedPlaces(job') \cup {from})
  PROVE  JobsInv'
<1>0. job.pc \in {"copy"} \cup StagePCs
  BY DEF StagePCs, CopyPCs
<1>1. /\ Copying(tree, job, Held, foreign) /\ TreeOf(Source) \subseteq SourcePlaces(job) /\ FileTree(tree)
  BY <1>0, InCopy DEF Copying
<1>2. /\ StagingPlaces(job') = StagingPlaces(job) /\ MadePlaces(job') = MadePlaces(job)
      /\ SourcePlaces(job') = SourcePlaces(job)
      /\ job'.op = job.op /\ job'.merged = job.merged /\ job'.prints = job.prints
  <2>1. SameBut(job, job', {"pc", "item", "walk"})
    BY DEF SameBut
  <2> QED BY <2>1, CopyPlacesSame
<1> DEFINE d == tree[from].data
           T == With(leaf, NewNode(d))
<1>3. NewNode(d).data = d
  BY NodeData
<1>4. /\ \A P : DataIn(tree, P) \subseteq DataIn(T, P)
      /\ \A P : DataIn(T, P) \subseteq DataIn(tree, P) \cup {d}
      /\ \A P : leaf \in P => d \in DataIn(T, P)
      /\ DOMAIN T = DOMAIN tree \cup {leaf} /\ FileTree(T)
  BY <1>1, <1>3, WithData
<1>5. tree' = T
  OBVIOUS
<1>6. \A P : from \in P => d \in DataIn(tree, P)
  BY DEF DataIn
<1> HIDE DEF T, d
<1>7. LeafPlaces(job') = {leaf} /\ LeafPlaces(job) = {}
  BY DEF LeafPlaces
<1>8. Fresh(T, job', Held, foreign)
  <2>1. d \in DataIn(tree, Paths)
    BY <1>1, <1>6 DEF FileTree
  <2>2. DataIn(T, Paths) \subseteq DataIn(tree, Paths)
    BY <1>4, <2>1
  <2> QED BY <1>1, <1>2, <2>2 DEF Copying, Fresh
<1>9. Held \subseteq DataIn(T, Secures)
  BY <1>1, <1>4 DEF Copying
<1>10. DOMAIN T \subseteq VisiblePaths \cup WorkPlaces(job')
  BY <1>1, <1>2, <1>4, <1>7 DEF Copying, WorkPlaces
<1>11. CopiesHold(T, job', Held, WorkPlaces(job'))
  <2>1. DOMAIN tree \cap (MadePlaces(job') \cup WorkPlaces(job')) \subseteq MadePlaces(job) \cup WorkPlaces(job)
    BY <1>2, <1>7 DEF WorkPlaces
  <2>2. DataIn(tree, MadePlaces(job') \cup WorkPlaces(job')) \subseteq DataIn(tree, MadePlaces(job) \cup WorkPlaces(job))
    BY <2>1, DataGrows
  <2>3. DataIn(T, MadePlaces(job') \cup WorkPlaces(job')) \subseteq DataIn(tree, MadePlaces(job) \cup WorkPlaces(job)) \cup {d}
    BY <1>4, <2>2
  <2>4. d \in DataIn(tree, SourcePlaces(job))
    BY <1>1, <1>6
  <2>5. DataIn(tree, SourcePlaces(job)) \subseteq DataIn(T, SourcePlaces(job'))
    BY <1>2, <1>4
  <2>6. job'.op = "copy" /\ ~job'.merged =>
           Held \cap DataIn(tree, MadePlaces(job) \cup WorkPlaces(job)) \subseteq DataIn(tree, SourcePlaces(job))
    BY <1>1, <1>2 DEF Copying, CopiesHold
  <2> QED BY <2>3, <2>4, <2>5, <2>6 DEF CopiesHold
<1>12. job'.op \in Transfers => Held \subseteq DataIn(T, CarriedPlaces(job'))
  <2> SUFFICES ASSUME job.op \in Transfers, NEW x \in Held PROVE x \in DataIn(T, CarriedPlaces(job'))
    BY <1>2
  <2>1. x \in DataIn(tree, CarriedPlaces(job') \cup {from})
    OBVIOUS
  <2>2. x \in DataIn(tree, CarriedPlaces(job')) \/ x = d
    BY <2>1 DEF DataIn, d
  <2>3. leaf \in CarriedPlaces(job')
    BY <1>7 DEF CarriedPlaces
  <2> QED BY <1>4, <2>2, <2>3
<1>13. Copying(T, job', Held, foreign)
  BY <1>4, <1>8, <1>9, <1>10, <1>11 DEF Copying
<1>14. Inv(T, job', Held, foreign)
  BY <1>12, <1>13, CopyingInv DEF CopyPCs
<1> QED BY <1>5, <1>14 DEF JobsInv

\* The leaf of a file, beside its place.
LEMMA NewLeaf ==
  ASSUME JobsInv, job.pc \in {"copy"} \cup StagePCs, job.pc # "leaf",
         NEW w, w = Work
  PROVE  /\ <<w[1], Hidden(".leaf", 0)>> \in Roots /\ <<w[1], w[2], Hidden(".leaf", 0)>> \in Children
         /\ RootOf(<<w[1], w[2], Hidden(".leaf", 0)>>) = w
         /\ <<w[1], Hidden(".leaf", 0)>> \notin DOMAIN tree
         /\ <<w[1], w[2], Hidden(".leaf", 0)>> \notin DOMAIN tree
         /\ w \o << >> = w /\ Append(Front(w), Hidden(".leaf", 0)) = <<w[1], Hidden(".leaf", 0)>>
         /\ \A c \in VisibleNames : Append(Front(w \o <<c>>), Hidden(".leaf", 0)) = <<w[1], w[2], Hidden(".leaf", 0)>>
<1>1. w \in Roots /\ DOMAIN tree \subseteq VisiblePaths \cup WorkPlaces(job)
  BY InCopy DEF Copying
<1>2. w[1] \in Folders /\ w[2] \in AllNames /\ w = <<w[1], w[2]>>
  BY <1>1, PathShapes
<1>3. ".leaf" \in HiddenTags /\ Hidden(".leaf", 0) \in AllNames /\ Hidden(".leaf", 0) \notin VisibleNames
      /\ Hidden(".leaf", 0)[1] = ".leaf"
  BY NameFacts DEF HiddenTags
<1> DEFINE r == <<w[1], Hidden(".leaf", 0)>>
           c3 == <<w[1], w[2], Hidden(".leaf", 0)>>
<1>4. r \in Roots /\ c3 \in Children /\ RootOf(c3) = w /\ r[2] = Hidden(".leaf", 0) /\ c3[3] = Hidden(".leaf", 0)
  BY <1>2, <1>3, HiddenRoots DEF RootOf
<1>5. /\ w \o << >> = w /\ Append(Front(w), Hidden(".leaf", 0)) = r
      /\ \A c \in AllNames : Append(Front(w \o <<c>>), Hidden(".leaf", 0)) = c3
  BY <1>1, <1>3, FrontOfPath
<1>6. \A c \in VisibleNames : c \in AllNames
  BY NameFacts
<1> HIDE DEF r, c3
<1>7. \A q \in StagingPlaces(job) : q \in Paths /\ NothingHiddenIn(q) /\ RootOf(q) = StagingOf(job)
  BY DEF StagingPlaces, CleanTree, TreeOf
<1>8. r \notin WorkPlaces(job) /\ c3 \notin WorkPlaces(job)
  <2>1. LeafPlaces(job) = {}
    BY DEF LeafPlaces
  <2>2. r \notin StagingPlaces(job)
    <3> SUFFICES ASSUME r \in StagingPlaces(job) PROVE FALSE
      OBVIOUS
    <3>1. RootOf(r) = r
      BY <1>4, Rooted DEF Paths
    <3>2. StagingOf(job)[2][1] = ".part"
      BY HiddenRoots
    <3> QED BY <1>3, <1>4, <1>7, <3>1, <3>2
  <2>3. c3 \notin StagingPlaces(job)
    BY <1>3, <1>4, <1>7 DEF NothingHiddenIn
  <2> QED BY <2>1, <2>2, <2>3 DEF WorkPlaces
<1>9. r \notin VisiblePaths /\ c3 \notin VisiblePaths
  BY <1>3, <1>4, VisibleFacts DEF NothingHiddenIn, Paths
<1>10. r \notin DOMAIN tree /\ c3 \notin DOMAIN tree
  BY <1>1, <1>8, <1>9
<1> QED BY <1>4, <1>5, <1>6, <1>10 DEF r, c3

\* A folder is listed, and its copy made, if it is not there.
LEMMA WalkStep ==
  ASSUME JobsInv, job.pc = "copy", UNCHANGED <<Held, foreign>>, is_dir(Source),
         SameBut(job, job', {"pc", "walk"}), job'.pc = "walk",
         \A q \in Below(Source) : q[3] \in job'.walk, \A c \in job'.walk : \E q \in Below(Source) : c = q[3],
         tree' = IF path_lexists(Work) THEN tree ELSE With(Work, NewNode(Folder))
  PROVE  JobsInv'
<1>0. job.pc \in {"copy"} \cup StagePCs
  OBVIOUS
<1>1. /\ Copying(tree, job, Held, foreign) /\ TreeOf(Source) \subseteq SourcePlaces(job) /\ FileTree(tree)
      /\ JobFits(job) /\ DOMAIN job = JobFields /\ job.undo = "none"
      /\ job.op \in {"copy", "move", "restore"} /\ job.i <= Len(job.sources) /\ job.target \in TargetsOf(job.op)
      /\ job.op = "copy" /\ job.how = "merge" => job.merged
      /\ Source \in Roots /\ Source = SourceOf(job) /\ Work \in Roots /\ Work = WorkOf(job) /\ Staging = StagingOf(job)
      /\ job.target \in Roots /\ job.target[2] \in VisibleNames
  BY <1>0, InCopy DEF Copying
<1>2. DOMAIN tree \subseteq VisiblePaths
  BY AtRest DEF RestPCs, IdlePCs
<1>3. SameBut(job, job', {"pc", "walk"}) /\ job'.pc = "walk"
  OBVIOUS
<1>4. /\ StagingPlaces(job') = StagingPlaces(job) /\ MadePlaces(job') = MadePlaces(job)
      /\ SourcePlaces(job') = SourcePlaces(job) /\ SourceOf(job') = SourceOf(job)
      /\ job'.op = job.op /\ job'.merged = job.merged /\ job'.prints = job.prints /\ job'.sources = job.sources
      /\ job'.how = job.how /\ job'.target = job.target /\ job'.undo = job.undo /\ job'.i = job.i
  <2>1. SameBut(job, job', {"pc", "item", "walk"})
    BY <1>3 DEF SameBut
  <2> QED BY <2>1, CopyPlacesSame
<1>5. Below(Source) = DOMAIN tree \cap (TreeOf(Source) \ {Source})
  BY <1>1, UnderRootIs DEF Below
<1>6. ASSUME NEW q \in Below(Source) PROVE q \in Children /\ q[3] \in VisibleNames
  <2>1. q \in VisiblePaths /\ q \in Paths /\ RootOf(q) = Source /\ q # Source
    BY <1>2, <1>5, VisibleFacts DEF TreeOf
  <2>2. q \in Children
    BY <2>1, Rooted
  <2> QED BY <2>1, <2>2, VisibleFacts DEF NothingHiddenIn
<1>7. job'.walk \subseteq VisibleNames
  BY <1>6
<1>8. JobStands(job') /\ job'.pc \in PCs
  <2>1. job'.pc = "walk"
    BY <1>3
  <2>2. /\ job'.undo = "none" /\ job'.op \in {"copy", "move", "restore"} /\ job'.i <= Len(job'.sources)
        /\ job'.target \in TargetsOf(job'.op) /\ (job'.op = "copy" /\ job'.how = "merge" => job'.merged)
    BY <1>1, <1>4
  <2> QED BY <1>7, <2>1, <2>2, StandsStage
<1>9. JobFits(job')
  BY <1>1, <1>3, <1>8 DEF JobFits, SameBut
<1>10. LeafPlaces(job') = {} /\ LeafPlaces(job) = {}
  BY <1>3 DEF LeafPlaces
<1>11. WorkPlaces(job') = StagingPlaces(job) /\ WorkPlaces(job) = StagingPlaces(job)
  BY <1>4, <1>10 DEF WorkPlaces
<1>12. /\ \A P : DataIn(tree, P) \subseteq DataIn(tree', P)
       /\ \A P : DataIn(tree', P) \subseteq DataIn(tree, P) \cup {Folder}
       /\ DOMAIN tree' \subseteq DOMAIN tree \cup {Work} /\ FileTree(tree')
  <2>1. CASE path_lexists(Work)
    BY <1>1, <2>1
  <2>2. CASE ~path_lexists(Work)
    <3>1. tree' = With(Work, NewNode(Folder)) /\ Work \notin DOMAIN tree /\ Work \in Paths
      BY <1>1, <2>2 DEF path_lexists, Paths
    <3>2. NewNode(Folder).data = Folder
      BY NodeData
    <3>3. Work \notin Children
      BY <1>1, RootsAndChildren
    <3> DEFINE nn == NewNode(Folder)
    <3>4. tree' = With(Work, nn) /\ nn.data = Folder
      BY <3>1, <3>2
    <3> HIDE DEF nn
    <3>5. /\ \A P : DataIn(tree, P) \subseteq DataIn(With(Work, nn), P)
          /\ \A P : DataIn(With(Work, nn), P) \subseteq DataIn(tree, P) \cup {nn.data}
          /\ DOMAIN With(Work, nn) = DOMAIN tree \cup {Work} /\ FileTree(With(Work, nn))
      BY <1>1, <3>1, <3>3, WithData
    <3> QED BY <3>4, <3>5, Zenon
  <2> QED BY <2>1, <2>2
<1>13. Folder \notin Held
  BY <1>1 DEF Copying, Fresh
<1>14. tree[Source].data = Folder
  BY DEF is_dir
<1>15. Work \in VisiblePaths \cup StagingPlaces(job)
  <2>1. CASE job.how = "merge"
    <3>1. Work = job.target /\ job.target \in Paths /\ NothingHiddenIn(job.target)
      BY <1>1, <2>1, RootsAndChildren DEF Work, Paths, NothingHiddenIn
    <3> QED BY <1>1, <3>1, VisibleFacts
  <2>2. CASE job.how # "merge"
    <3>1. Work = StagingOf(job)
      BY <1>1, <2>2 DEF WorkOf
    <3>2. Work \in TreeOf(Work) /\ NothingHiddenIn(Work)
      BY <1>1, Rooted, RootsAndChildren DEF Paths, NothingHiddenIn, TreeOf
    <3> QED BY <2>2, <3>1, <3>2 DEF StagingPlaces, CleanTree
  <2> QED BY <2>1, <2>2
<1>16. DOMAIN tree' \subseteq VisiblePaths \cup WorkPlaces(job')
  BY <1>2, <1>11, <1>12, <1>15
<1>17. Fresh(tree', job', Held, foreign)
  <2>1. Folder \notin ToCome(foreign)
    <3>1. foreign \in Nat
      BY <1>1 DEF Copying, Fresh
    <3>2. \A m \in 1..Len(OtherData) : OtherData[m] \in ToSet(OtherData)
      BY JobsAssumption DEF ToSet
    <3> QED BY <3>1, <3>2, JobsAssumption DEF ToCome
  <2> QED BY <1>1, <1>4, <1>12, <2>1 DEF Copying, Fresh
<1>18. Held \subseteq DataIn(tree', Secures)
  BY <1>1, <1>12 DEF Copying
<1>19. CopiesHold(tree', job', Held, WorkPlaces(job'))
  <2>1. Held \cap DataIn(tree', MadePlaces(job) \cup StagingPlaces(job)) \subseteq DataIn(tree, MadePlaces(job) \cup StagingPlaces(job))
    BY <1>12, <1>13
  <2>2. DataIn(tree, SourcePlaces(job)) \subseteq DataIn(tree', SourcePlaces(job'))
    BY <1>4, <1>12
  <2>3. job'.op = "copy" /\ ~job'.merged =>
           Held \cap DataIn(tree, MadePlaces(job) \cup StagingPlaces(job)) \subseteq DataIn(tree, SourcePlaces(job))
    BY <1>1, <1>4, <1>11 DEF Copying, CopiesHold
  <2> QED BY <1>4, <1>11, <2>1, <2>2, <2>3 DEF CopiesHold
<1>20. Held \subseteq DataIn(tree', CarriedPlaces(job'))
  <2>1. CarriedPlaces(job') = (Secures \ TreeOf(Source))
           \cup {q \in TreeOf(Source) : q \in Children /\ q[3] \in job'.walk} \cup WorkPlaces(job')
    BY <1>1, <1>3, <1>4 DEF CarriedPlaces, Waiting, WorkPlaces
  <2>2. ASSUME NEW q \in DOMAIN tree \cap Secures, tree[q].data \in Held PROVE q \in CarriedPlaces(job')
    <3>1. CASE q \notin TreeOf(Source)
      BY <2>1, <3>1
    <3>2. CASE q \in TreeOf(Source) /\ q # Source
      <4>1. q \in Below(Source)
        BY <1>5, <3>2
      <4>2. q \in Children /\ q[3] \in job'.walk
        BY <1>3, <1>6, <4>1
      <4> QED BY <2>1, <3>2, <4>2
    <3>3. CASE q = Source
      BY <1>13, <1>14, <2>2, <3>3
    <3> QED BY <3>1, <3>2, <3>3
  <2>3. Held \subseteq DataIn(tree, Secures) /\ Held \subseteq Held
    BY <1>1 DEF Copying
  <2>4. Held \subseteq DataIn(tree, CarriedPlaces(job'))
    BY <2>2, <2>3 DEF DataIn
  <2> QED BY <1>12, <2>4
<1>21. Copying(tree', job', Held, foreign)
  BY <1>12, <1>16, <1>17, <1>18, <1>19 DEF Copying
<1>22. Inv(tree', job', Held, foreign)
  BY <1>3, <1>8, <1>9, <1>20, <1>21, CopyingInv DEF JobOK, CopyPCs
<1> QED BY <1>22 DEF JobsInv

LEMMA CopyRootStep ==
  ASSUME JobsInv, CopyRoot
  PROVE  JobsInv'
<1>0. job.pc = "copy" /\ UNCHANGED <<Held, foreign>> /\ job.pc \in {"copy"} \cup StagePCs
  BY DEF CopyRoot, AtPC, Quiet, envVars, Held
<1>1. CASE \E e \in {"cancelled", "io", "exists"} : CopyFail(e)
  <2>1. PICK e : CopyFail(e)
    BY <1>1
  <2>2. job' = CopyFails(e) /\ UNCHANGED <<tree, Held, foreign>>
    BY <1>0, <2>1 DEF CopyFail
  <2> QED BY <1>0, <2>2, CopyFailStep
<1>2. CASE is_dir(Source) /\ job' = [job EXCEPT !.walk = {q[3] : q \in Below(Source)}, !.pc = "walk"]
           /\ tree' = IF path_lexists(Work) THEN tree ELSE With(Work, NewNode(Folder))
  <2>1. DOMAIN job = JobFields
    BY <1>0, InCopy
  <2>2. PICK w : w = {q[3] : q \in Below(Source)}
    OBVIOUS
  <2>3. \A q \in Below(Source) : q[3] \in w
    BY <2>2
  <2>4. \A c \in w : \E q \in Below(Source) : c = q[3]
    BY <2>2
  <2>5. job' = [job EXCEPT !.walk = w, !.pc = "walk"]
    BY <1>2, <2>2
  <2>6. SameBut(job, job', {"pc", "walk"}) /\ job'.pc = "walk" /\ job'.walk = w
    BY <2>1, <2>5 DEF SameBut, JobFields
  <2> QED BY <1>0, <1>2, <2>3, <2>4, <2>6, WalkStep
<1>3. CASE Opens(Source) /\ ~is_dir(Source) /\ ReadToLeaf(<< >>)
  <2>1. /\ JobFits(job) /\ DOMAIN job = JobFields /\ job.undo = "none"
        /\ job.op \in {"copy", "move", "restore"} /\ job.i <= Len(job.sources) /\ job.target \in TargetsOf(job.op)
        /\ job.op = "copy" /\ job.how = "merge" => job.merged
        /\ Source \in Roots /\ Source = SourceOf(job) /\ Work \in Roots /\ Work = WorkOf(job)
        /\ Copying(tree, job, Held, foreign)
    BY <1>0, InCopy
  <2>2. Source \in DOMAIN tree /\ tree[Source].data # Folder
    BY <1>3 DEF Opens, SameIdentity, path_lexists, is_dir
  <2> DEFINE leaf == <<Work[1], Hidden(".leaf", 0)>>
  <2>3. Source \o << >> = Source
    BY <2>1, PathShapes, ConcatEmptySeq
  <2>4. job' = [job EXCEPT !.item = << >>, !.pc = "leaf"] /\ tree' = With(leaf, NewNode(tree[Source].data))
        /\ leaf \in Roots /\ leaf \notin DOMAIN tree
    <3>1. /\ job' = [job EXCEPT !.item = << >>, !.pc = "leaf"]
          /\ tree' = With(Append(Front(Work \o << >>), Hidden(".leaf", 0)), NewNode(tree[Source \o << >>].data))
      BY <1>3 DEF ReadToLeaf
    <3>2. /\ leaf \in Roots /\ leaf \notin DOMAIN tree
          /\ Work \o << >> = Work /\ Append(Front(Work), Hidden(".leaf", 0)) = leaf
      BY <1>0, NewLeaf
    <3> HIDE DEF leaf
    <3> QED BY <2>3, <3>1, <3>2
  <2>5. SameBut(job, job', {"pc", "item"}) /\ job'.pc = "leaf" /\ job'.item = << >>
    BY <2>1, <2>4 DEF SameBut, JobFields
  <2>6. /\ SourceOf(job') = SourceOf(job) /\ WorkOf(job') = WorkOf(job)
        /\ job'.op = job.op /\ job'.merged = job.merged /\ job'.sources = job.sources
        /\ job'.how = job.how /\ job'.target = job.target /\ job'.undo = job.undo /\ job'.i = job.i
    <3>1. SameBut(job, job', {"pc", "item", "walk"})
      BY <2>5 DEF SameBut
    <3> QED BY <3>1, CopyPlacesSame
  <2>7. LeafOf(job') = leaf
    BY <2>1, <2>5, <2>6 DEF LeafOf
  <2> HIDE DEF leaf
  <2>8. JobStands(job') /\ job'.pc \in PCs
    BY <2>1, <2>5, <2>6, StandsLeaf
  <2>9. JobOK(job')
    BY <2>1, <2>5, <2>8 DEF JobOK, JobFits, SameBut
  <2>10. leaf \in Paths /\ leaf \notin Children
    BY <2>4, RootsAndChildren DEF Paths
  <2>11. Source \in TreeOf(Source)
    BY <2>1, Rooted DEF Paths, TreeOf
  <2>12. Held \subseteq DataIn(tree, CarriedPlaces(job') \cup {Source})
    <3>1. Secures \ TreeOf(Source) \subseteq CarriedPlaces(job')
      BY <2>1, <2>6 DEF CarriedPlaces
    <3>2. ASSUME NEW q \in DOMAIN tree \cap Secures PROVE q \in CarriedPlaces(job') \cup {Source}
      <4>1. q \in TreeOf(Source) /\ q # Source => q \in Children
        BY Rooted DEF TreeOf
      <4>2. q \in Children /\ q \in TreeOf(Source) => tree[Source].data = Folder
        BY <2>1 DEF Copying, FileTree, TreeOf
      <4> QED BY <2>2, <3>1, <4>1, <4>2
    <3>3. Held \subseteq DataIn(tree, Secures)
      BY <2>1 DEF Copying
    <3>4. DataIn(tree, Secures) \subseteq DataIn(tree, CarriedPlaces(job') \cup {Source})
      BY <3>2, DataGrows
    <3> QED BY <3>3, <3>4
  <2> QED BY <1>0, <2>2, <2>4, <2>5, <2>7, <2>9, <2>10, <2>11, <2>12, ReadStep
<1> QED BY <1>1, <1>2, <1>3, Zenon DEF CopyRoot

LEMMA CopyChildStep ==
  ASSUME JobsInv, NEW c, CopyChild(c)
  PROVE  JobsInv'
<1>0. job.pc = "walk" /\ UNCHANGED <<Held, foreign>> /\ job.pc \in {"copy"} \cup StagePCs /\ c \in job.walk
      /\ job.pc \in CopyPCs
  BY DEF CopyChild, AtPC, Quiet, envVars, Held, StagePCs, CopyPCs
<1>1. CASE \E e \in {"cancelled", "io", "exists"} : CopyFail(e)
  <2>1. PICK e : CopyFail(e)
    BY <1>1
  <2>2. job' = CopyFails(e) /\ UNCHANGED <<tree, Held, foreign>>
    BY <1>0, <2>1 DEF CopyFail
  <2> QED BY <1>0, <2>2, CopyFailStep
<1>2. CASE Opens(Append(Source, c)) /\ is_dir(Work) /\ ReadToLeaf(<<c>>)
  <2>1. /\ JobFits(job) /\ DOMAIN job = JobFields /\ job.undo = "none" /\ JobStands(job)
        /\ job.op \in {"copy", "move", "restore"} /\ job.i <= Len(job.sources) /\ job.target \in TargetsOf(job.op)
        /\ job.op = "copy" /\ job.how = "merge" => job.merged
        /\ Source \in Roots /\ Source = SourceOf(job) /\ Work \in Roots /\ Work = WorkOf(job)
        /\ Copying(tree, job, Held, foreign)
    BY <1>0, InCopy
  <2>2. job.walk \subseteq VisibleNames /\ c \in VisibleNames /\ c \in AllNames
    BY <1>0, <2>1, NameFacts DEF JobStands
  <2> DEFINE leaf == <<Work[1], Work[2], Hidden(".leaf", 0)>>
             from == <<Source[1], Source[2], c>>
  <2>3. Source \o <<c>> = from /\ Append(Source, c) = from
    BY <2>1, <2>2, FrontOfPath
  <2>4. job' = [job EXCEPT !.item = <<c>>, !.pc = "leaf"] /\ tree' = With(leaf, NewNode(tree[from].data))
        /\ leaf \in Children /\ leaf \notin DOMAIN tree /\ RootOf(leaf) = Work
    <3>1. /\ job' = [job EXCEPT !.item = <<c>>, !.pc = "leaf"]
          /\ tree' = With(Append(Front(Work \o <<c>>), Hidden(".leaf", 0)), NewNode(tree[Source \o <<c>>].data))
      BY <1>2 DEF ReadToLeaf
    <3>2. /\ leaf \in Children /\ leaf \notin DOMAIN tree /\ RootOf(leaf) = Work
          /\ Append(Front(Work \o <<c>>), Hidden(".leaf", 0)) = leaf
      BY <1>0, <2>2, NewLeaf
    <3> HIDE DEF leaf, from
    <3> QED BY <2>3, <3>1, <3>2
  <2>5. SameBut(job, job', {"pc", "item"}) /\ job'.pc = "leaf" /\ job'.item = <<c>>
    BY <2>1, <2>4 DEF SameBut, JobFields
  <2>6. /\ SourceOf(job') = SourceOf(job) /\ WorkOf(job') = WorkOf(job) /\ StagingPlaces(job') = StagingPlaces(job)
        /\ job'.op = job.op /\ job'.merged = job.merged /\ job'.sources = job.sources
        /\ job'.how = job.how /\ job'.target = job.target /\ job'.undo = job.undo /\ job'.i = job.i
    <3>1. SameBut(job, job', {"pc", "item", "walk"})
      BY <2>5 DEF SameBut
    <3> QED BY <3>1, CopyPlacesSame
  <2>61. job'.walk = job.walk
    BY <2>5 DEF SameBut
  <2>7. LeafOf(job') = leaf
    BY <2>1, <2>5, <2>6 DEF LeafOf
  <2>31. from \in Children /\ RootOf(from) = Source /\ from[3] = c /\ from \in TreeOf(Source)
    BY <2>1, <2>2, PathShapes DEF RootOf, TreeOf, Paths
  <2>32. from \in DOMAIN tree
    BY <1>2, <2>3 DEF Opens, SameIdentity, path_lexists
  <2>33. \A q \in TreeOf(Source) : q \in Children /\ q[3] = c => q = from
    BY PathShapes DEF TreeOf, RootOf
  <2> HIDE DEF leaf, from
  <2>8. JobStands(job') /\ job'.pc \in PCs
    <3>1. job'.item \in Seq(VisibleNames) /\ Len(job'.item) = 1 /\ job'.walk \subseteq VisibleNames
      BY <2>2, <2>5, <2>61
    <3> QED BY <2>1, <2>5, <2>6, <3>1, StandsLeaf
  <2>9. JobOK(job')
    BY <2>1, <2>5, <2>8 DEF JobOK, JobFits, SameBut
  <2>10. leaf \in Paths /\ RootOf(leaf) \in DOMAIN tree /\ tree[RootOf(leaf)].data = Folder
    BY <1>2, <2>4 DEF Paths, is_dir, path_lexists
  <2>12. job.op \in Transfers => Held \subseteq DataIn(tree, CarriedPlaces(job') \cup {from})
    <3>1. Waiting(job') = job.walk \ {c} /\ Waiting(job) = job.walk
      BY <1>0, <2>5, <2>61 DEF Waiting
    <3>2. CarriedPlaces(job) \subseteq CarriedPlaces(job') \cup {from}
      <4>1. LeafPlaces(job) = {}
        BY <1>0 DEF LeafPlaces
      <4> QED BY <2>1, <2>6, <2>33, <3>1, <4>1 DEF CarriedPlaces
    <3>3. job.op \in Transfers => Held \subseteq DataIn(tree, CarriedPlaces(job))
      BY <1>0 DEF JobsInv, Inv, Carried
    <3>4. DataIn(tree, CarriedPlaces(job)) \subseteq DataIn(tree, CarriedPlaces(job') \cup {from})
      BY <3>2, DataGrows
    <3> QED BY <3>3, <3>4
  <2> QED BY <1>0, <2>4, <2>5, <2>7, <2>9, <2>10, <2>31, <2>32, <2>12, ReadStep
<1> QED BY <1>1, <1>2, Zenon DEF CopyChild

\* A step between two places of a copy, with the tree that results.
LEMMA CopyGoes ==
  ASSUME JobsInv, job.pc \in CopyPCs, UNCHANGED <<Held, foreign>>,
         SameBut(job, job', {"pc", "item", "walk"}), JobStands(job'), job'.pc \in CopyPCs \cup {"cleanup"},
         job'.pc # "leaf", FileTree(tree'), DataIn(tree', Paths) \subseteq DataIn(tree, Paths),
         Held \subseteq DataIn(tree', Secures),
         DOMAIN tree' \subseteq VisiblePaths \cup StagingPlaces(job),
         DataIn(tree', MadePlaces(job) \cup StagingPlaces(job)) \subseteq DataIn(tree, MadePlaces(job) \cup WorkPlaces(job)),
         DataIn(tree, SourcePlaces(job)) \subseteq DataIn(tree', SourcePlaces(job)),
         job.op \in Transfers /\ job'.pc \in CopyPCs => Held \subseteq DataIn(tree', CarriedPlaces(job'))
  PROVE  JobsInv'
<1>0. job.pc \in {"copy"} \cup StagePCs
  BY DEF StagePCs
<1>1. Copying(tree, job, Held, foreign) /\ JobFits(job)
  BY <1>0, InCopy
<1>2. /\ StagingPlaces(job') = StagingPlaces(job) /\ MadePlaces(job') = MadePlaces(job)
      /\ SourcePlaces(job') = SourcePlaces(job)
      /\ job'.op = job.op /\ job'.merged = job.merged /\ job'.prints = job.prints
  BY CopyPlacesSame
<1>3. WorkPlaces(job') = StagingPlaces(job)
  BY <1>2 DEF WorkPlaces, LeafPlaces
<1>4. Fresh(tree', job', Held, foreign)
  BY <1>1, <1>2 DEF Copying, Fresh
<1>5. CopiesHold(tree', job', Held, WorkPlaces(job'))
  <2>1. job'.op = "copy" /\ ~job'.merged =>
           Held \cap DataIn(tree, MadePlaces(job) \cup WorkPlaces(job)) \subseteq DataIn(tree, SourcePlaces(job))
    BY <1>1, <1>2 DEF Copying, CopiesHold
  <2> QED BY <1>2, <1>3, <2>1 DEF CopiesHold
<1>6. Copying(tree', job', Held, foreign)
  BY <1>3, <1>4, <1>5 DEF Copying
<1>7. job'.pc \in PCs
  BY DEF PCs, StagePCs
<1>8. JobOK(job')
  BY <1>1, <1>7 DEF JobOK, JobFits, SameBut
<1>9. Inv(tree', job', Held, foreign)
  BY <1>2, <1>6, <1>8, CopyingInv
<1> QED BY <1>9 DEF JobsInv

LEMMA LeafApart ==
  ASSUME JobsInv, job.pc = "leaf"
  PROVE  /\ Leaf \in Paths /\ LeafPlaces(job) = {Leaf} /\ Leaf \notin Secures
         /\ Under(Leaf) \cap Secures = {} /\ Under(Leaf) \cap SourcePlaces(job) = {}
         /\ Leaf \in DOMAIN tree => Leaf \in Under(Leaf)
         /\ DOMAIN tree \cap Under(Leaf) \subseteq {Leaf}
         /\ Leaf \in Roots => TreeOf(Leaf) \cap DOMAIN tree \subseteq {Leaf}
<1>0. job.pc \in {"copy"} \cup StagePCs
  BY DEF StagePCs, CopyPCs
<1>1. /\ JobOK(job) /\ Copying(tree, job, Held, foreign) /\ FileTree(tree) /\ Work \in Roots
      /\ Work \notin SourcesOf(job.op) /\ job.op \in Ops
  BY <1>0, InCopy DEF Copying
<1>2. /\ Leaf = LeafOf(job)
      /\ \/ Leaf \in Roots /\ Leaf = <<Work[1], Hidden(".leaf", 0)>>
         \/ Leaf \in Children /\ RootOf(Leaf) = Work /\ Leaf[3] = Hidden(".leaf", 0)
  BY <1>1, LeafPaths
<1>3. LeafPlaces(job) = {Leaf}
  BY <1>2 DEF LeafPlaces
<1>4. Hidden(".leaf", 0) \notin VisibleNames /\ Hidden(".leaf", 0)[1] = ".leaf"
  BY NameFacts DEF HiddenTags
<1>5. CASE Leaf \in Roots /\ Leaf = <<Work[1], Hidden(".leaf", 0)>>
  <2>1. Under(Leaf) = DOMAIN tree \cap TreeOf(Leaf) /\ Leaf \in Paths /\ Leaf \in TreeOf(Leaf) /\ Leaf[2] = Hidden(".leaf", 0)
    BY <1>1, <1>5, UnderRootIs, Rooted DEF Paths, TreeOf
  <2>2. \A q \in TreeOf(Leaf) : q \in Paths /\ q[2] = Hidden(".leaf", 0)
    <3>1. \A q \in TreeOf(Leaf) : q \in Paths
      BY DEF TreeOf
    <3> QED BY <1>5, <2>1, <3>1, TreesApart
  <2>3. TreeOf(Leaf) \cap Secures = {}
    BY <1>4, <2>2 DEF Secures
  <2>4. Leaf \notin SourcesOf(job.op)
    BY <1>1, <1>4, <2>1, JobPlaces
  <2>5. SourcePlaces(job) \cap TreeOf(Leaf) = {}
    BY <1>0, <1>5, <2>4, CopyApart
  <2>6. \A q \in TreeOf(Leaf) : q \notin VisiblePaths /\ q \notin StagingPlaces(job)
    <3>1. \A q \in StagingPlaces(job) : q \in TreeOf(StagingOf(job)) /\ q \in Paths
      BY DEF StagingPlaces, CleanTree, TreeOf
    <3>2. \A q \in StagingPlaces(job) : q[2][1] = ".part"
      BY <3>1, TreesApart, HiddenRoots
    <3> QED BY <1>4, <2>2, <3>2, VisibleFacts
  <2>7. DOMAIN tree \cap TreeOf(Leaf) \subseteq {Leaf}
    BY <1>1, <1>3, <2>6 DEF Copying, WorkPlaces
  <2> QED BY <1>3, <2>1, <2>3, <2>5, <2>7
<1>6. CASE Leaf \in Children /\ RootOf(Leaf) = Work /\ Leaf[3] = Hidden(".leaf", 0)
  <2>1. Under(Leaf) = DOMAIN tree \cap {Leaf} /\ Leaf \in Paths /\ Leaf \notin Roots
    BY <1>1, <1>6, UnderChildIs, RootsAndChildren DEF Paths
  <2>2. Leaf \notin Secures
    BY <1>4, <1>6 DEF Secures, NothingHiddenIn
  <2>3. Leaf \notin SourcePlaces(job)
    <3>1. Leaf \in TreeOf(Work)
      BY <1>6, <2>1 DEF TreeOf
    <3> QED BY <1>0, <1>1, <3>1, CopyApart
  <2> QED BY <1>3, <2>1, <2>2, <2>3
<1> QED BY <1>2, <1>5, <1>6

\* The leaf is removed when the copy fails.
LEMMA LeafGone ==
  ASSUME JobsInv, job.pc = "leaf", UNCHANGED <<Held, foreign>>, tree' = Without(Leaf), NEW e, job' = CopyFails(e)
  PROVE  JobsInv'
<1>0. job.pc \in {"copy"} \cup StagePCs /\ job.pc \in CopyPCs
  BY DEF StagePCs, CopyPCs
<1>1. /\ JobFits(job) /\ DOMAIN job = JobFields /\ job.undo = "none"
      /\ job.op \in {"copy", "move", "restore"} /\ job.i <= Len(job.sources) /\ job.target \in TargetsOf(job.op)
      /\ job.op = "copy" /\ job.how = "merge" => job.merged
      /\ Copying(tree, job, Held, foreign) /\ FileTree(tree)
  BY <1>0, InCopy DEF Copying
<1>2. SameBut(job, job', {"pc"}) /\ job'.pc = "cleanup"
  BY <1>1, CopyFailsSame
<1>3. /\ job'.undo = "none" /\ job'.op = job.op /\ job'.i = job.i /\ job'.sources = job.sources
      /\ job'.how = job.how /\ job'.merged = job.merged /\ job'.target = job.target
  BY <1>1, <1>2 DEF SameBut
<1>4. JobStands(job') /\ SameBut(job, job', {"pc", "item", "walk"})
  BY <1>1, <1>2, <1>3, StandsStage DEF SameBut
<1>5. /\ Leaf \in Paths /\ LeafPlaces(job) = {Leaf}
      /\ Under(Leaf) \cap Secures = {} /\ Under(Leaf) \cap SourcePlaces(job) = {}
      /\ Leaf \in DOMAIN tree => Leaf \in Under(Leaf)
  BY LeafApart
<1> DEFINE T == Without(Leaf)
<1>6. /\ \A P : DataIn(T, P) \subseteq DataIn(tree, P)
      /\ \A P : P \cap Under(Leaf) = {} => DataIn(T, P) = DataIn(tree, P)
      /\ DOMAIN T = DOMAIN tree \ Under(Leaf) /\ FileTree(T)
  BY <1>1, <1>5, WithoutData
<1>7. tree' = T
  OBVIOUS
<1> HIDE DEF T
<1>8. Held \subseteq DataIn(T, Secures)
  <2>1. DataIn(T, Secures) = DataIn(tree, Secures)
    BY <1>5, <1>6
  <2> QED BY <1>1, <2>1 DEF Copying
<1>9. DOMAIN T \subseteq VisiblePaths \cup StagingPlaces(job)
  BY <1>1, <1>5, <1>6 DEF Copying, WorkPlaces
<1>10. DataIn(T, MadePlaces(job) \cup StagingPlaces(job)) \subseteq DataIn(tree, MadePlaces(job) \cup WorkPlaces(job))
  <2>1. DOMAIN tree \cap (MadePlaces(job) \cup StagingPlaces(job)) \subseteq MadePlaces(job) \cup WorkPlaces(job)
    BY DEF WorkPlaces
  <2>2. DataIn(tree, MadePlaces(job) \cup StagingPlaces(job)) \subseteq DataIn(tree, MadePlaces(job) \cup WorkPlaces(job))
    BY <2>1, DataGrows
  <2> QED BY <1>6, <2>2
<1>11. DataIn(tree, SourcePlaces(job)) \subseteq DataIn(T, SourcePlaces(job))
  <2>1. SourcePlaces(job) \cap Under(Leaf) = {}
    BY <1>5
  <2> QED BY <1>6, <2>1
<1>12. job'.pc \notin CopyPCs /\ job'.pc # "leaf" /\ job'.pc \in CopyPCs \cup {"cleanup"}
  BY <1>2 DEF CopyPCs
<1> QED BY <1>0, <1>4, <1>6, <1>7, <1>8, <1>9, <1>10, <1>11, <1>12, CopyGoes

LEMMA WorkIsPlace ==
  ASSUME JobsInv, job.pc \in {"copy"} \cup StagePCs
  PROVE  /\ job.how = "merge" => Work = job.target /\ StagingPlaces(job) = {} /\ TreeOf(Work) \cap VisiblePaths = CleanTree(Work)
         /\ job.how # "merge" => Work = Staging /\ StagingPlaces(job) = CleanTree(Work)
         /\ Work \in VisiblePaths \cup StagingPlaces(job)
         /\ CleanTree(Work) \subseteq (Secures \ TreeOf(Source)) \cup StagingPlaces(job)
         /\ CleanTree(Work) \subseteq VisiblePaths \cup StagingPlaces(job)
<1>1. /\ Work \in Roots /\ Work = WorkOf(job) /\ Staging = StagingOf(job)
      /\ job.target \in Roots /\ job.target[2] \in VisibleNames /\ Source \in Roots /\ Work # Source
  BY InCopy
<1>2. Work \in CleanTree(Work)
  BY <1>1, Rooted, RootsAndChildren DEF Paths, NothingHiddenIn, TreeOf, CleanTree
<1>3. CASE job.how = "merge"
  <2>1. Work = job.target /\ StagingPlaces(job) = {}
    BY <1>1, <1>3 DEF WorkOf, StagingPlaces
  <2>2. ASSUME NEW q \in CleanTree(Work) PROVE q \in VisiblePaths /\ q \in Secures \ TreeOf(Source) /\ q \in TreeOf(Work)
    <3>1. q \in Paths /\ q \in TreeOf(Work)
      BY DEF CleanTree, TreeOf
    <3>2. q \in VisiblePaths
      BY <1>1, <2>1, <3>1, TreesApart
    <3>3. q \in Secures
      BY <3>1, <3>2, TreesApart
    <3>4. q \notin TreeOf(Source)
      BY <1>1, <3>1 DEF TreeOf
    <3> QED BY <3>1, <3>2, <3>3, <3>4
  <2>3. ASSUME NEW q \in TreeOf(Work), q \in VisiblePaths PROVE q \in CleanTree(Work)
    <3>1. q \in Paths /\ RootOf(q) = Work
      BY DEF TreeOf
    <3> QED BY <2>3, <3>1, TreesApart
  <2> QED BY <1>2, <1>3, <2>1, <2>2, <2>3
<1>4. CASE job.how # "merge"
  <2>1. Work = Staging /\ StagingPlaces(job) = CleanTree(Work)
    BY <1>1, <1>4 DEF WorkOf, StagingPlaces
  <2> QED BY <1>2, <1>4, <2>1
<1> QED BY <1>3, <1>4

\* The leaf goes to its place in the copy.
LEMMA RootPlaced ==
  ASSUME JobsInv, job.pc = "leaf", UNCHANGED <<Held, foreign>>, Leaf \in Roots, Leaf # Work,
         Work \notin DOMAIN tree, tree' = Moved(Leaf, Work), job.item = << >>,
         SameBut(job, job', {"pc"}), job'.pc = "commit"
  PROVE  JobsInv'
<1>0. job.pc \in {"copy"} \cup StagePCs /\ job.pc \in CopyPCs
  BY DEF StagePCs, CopyPCs
<1>1. /\ JobFits(job) /\ DOMAIN job = JobFields /\ job.undo = "none"
      /\ job.op \in {"copy", "move", "restore"} /\ job.i <= Len(job.sources) /\ job.target \in TargetsOf(job.op)
      /\ job.op = "copy" /\ job.how = "merge" => job.merged
      /\ Copying(tree, job, Held, foreign) /\ FileTree(tree) /\ Work \in Roots /\ Work \notin SourcesOf(job.op)
      /\ Source = SourceOf(job)
  BY <1>0, InCopy DEF Copying
<1>3. /\ job'.undo = "none" /\ job'.op = job.op /\ job'.i = job.i /\ job'.sources = job.sources
      /\ job'.how = job.how /\ job'.merged = job.merged /\ job'.target = job.target
  BY <1>1 DEF SameBut
<1>4. JobStands(job') /\ SameBut(job, job', {"pc", "item", "walk"})
  BY <1>1, <1>3, StandsStage DEF SameBut
<1>5. /\ Leaf \in Paths /\ LeafPlaces(job) = {Leaf} /\ Leaf \notin Secures
      /\ TreeOf(Leaf) \cap DOMAIN tree \subseteq {Leaf}
  BY LeafApart
<1>6. \A q \in DOMAIN tree : q \in Paths /\ (RootOf(q) = Leaf => q = Leaf)
  BY <1>1, <1>5 DEF FileTree, TreeOf
<1>61. To(Leaf, Work) = Work
  BY DEF To
<1> DEFINE M == Moved(Leaf, Work)
<1>7. /\ \A G, G2, k :
              /\ k \subseteq DataIn(tree, G)
              /\ \A q \in DOMAIN tree \cap G : IF RootOf(q) = Leaf THEN To(q, Work) \in G2 ELSE q \in G2
              => k \subseteq DataIn(M, G2)
      /\ \A P, P2 :
              (\A q \in DOMAIN tree : IF RootOf(q) = Leaf THEN To(q, Work) \in P2 => q \in P ELSE q \in P2 => q \in P)
              => DataIn(M, P2) \subseteq DataIn(tree, P)
      /\ \A P : P \cap (TreeOf(Leaf) \cup TreeOf(Work)) = {} => DataIn(M, P) = DataIn(tree, P)
      /\ \A P : (\A q \in DOMAIN tree : IF RootOf(q) = Leaf THEN To(q, Work) \in P ELSE q \in P)
                => DOMAIN M \subseteq P
      /\ FileTree(M)
  BY <1>1, MovedData
<1>8. tree' = M
  OBVIOUS
<1> HIDE DEF M
<1>9. DataIn(M, Paths) \subseteq DataIn(tree, Paths)
  <2>1. \A q \in DOMAIN tree : IF RootOf(q) = Leaf THEN To(q, Work) \in Paths => q \in Paths ELSE q \in Paths => q \in Paths
    BY <1>6
  <2> QED BY <1>7, <2>1
<1>10. Held \subseteq DataIn(M, Secures)
  <2>1. \A q \in DOMAIN tree \cap Secures : IF RootOf(q) = Leaf THEN To(q, Work) \in Secures ELSE q \in Secures
    BY <1>5, <1>6
  <2>2. Held \subseteq DataIn(tree, Secures)
    BY <1>1 DEF Copying
  <2> QED BY <1>7, <2>1, <2>2
<1>11. DOMAIN M \subseteq VisiblePaths \cup StagingPlaces(job)
  <2>1. ASSUME NEW q \in DOMAIN tree
        PROVE  IF RootOf(q) = Leaf THEN To(q, Work) \in VisiblePaths \cup StagingPlaces(job)
                                   ELSE q \in VisiblePaths \cup StagingPlaces(job)
    <3>1. Work \in VisiblePaths \cup StagingPlaces(job)
      BY <1>0, WorkIsPlace
    <3>2. RootOf(Leaf) = Leaf
      BY <1>5, Rooted
    <3>3. RootOf(q) # Leaf => q \in VisiblePaths \cup StagingPlaces(job)
      BY <1>1, <1>5, <3>2 DEF Copying, WorkPlaces
    <3> QED BY <1>6, <1>61, <3>1, <3>3
  <2> QED BY <1>7, <2>1
<1>12. DataIn(M, MadePlaces(job) \cup StagingPlaces(job)) \subseteq DataIn(tree, MadePlaces(job) \cup WorkPlaces(job))
  <2> DEFINE P2 == MadePlaces(job) \cup StagingPlaces(job)
             P == MadePlaces(job) \cup WorkPlaces(job)
  <2>1. \A q \in DOMAIN tree : IF RootOf(q) = Leaf THEN To(q, Work) \in P2 => q \in P ELSE q \in P2 => q \in P
    BY <1>5, <1>6 DEF WorkPlaces
  <2> HIDE DEF P2, P
  <2>2. DataIn(M, P2) \subseteq DataIn(tree, P)
    BY <1>7, <2>1
  <2> QED BY <2>2 DEF P2, P
<1>13. DataIn(tree, SourcePlaces(job)) \subseteq DataIn(M, SourcePlaces(job))
  <2>1. Leaf \notin SourcesOf(job.op)
    <3>1. JobOK(job)
      BY <1>0, InCopy
    <3>2. Leaf = <<Work[1], Hidden(".leaf", 0)>>
      BY <3>1, LeafPaths
    <3>3. Leaf[2] \notin VisibleNames
      BY <3>2, NameFacts DEF HiddenTags
    <3> QED BY <1>0, <3>3, JobPlaces, InCopy
  <2>2. SourcePlaces(job) \cap TreeOf(Leaf) = {} /\ SourcePlaces(job) \cap TreeOf(Work) = {}
    BY <1>0, <1>1, <2>1, CopyApart
  <2>3. SourcePlaces(job) \cap (TreeOf(Leaf) \cup TreeOf(Work)) = {}
    BY <2>2
  <2> QED BY <1>7, <2>3
<1>14. job.op \in Transfers => Held \subseteq DataIn(M, CarriedPlaces(job'))
  <2> SUFFICES ASSUME job.op \in Transfers PROVE Held \subseteq DataIn(M, CarriedPlaces(job'))
    OBVIOUS
  <2>1. Held \subseteq DataIn(tree, CarriedPlaces(job))
    BY <1>0 DEF JobsInv, Inv, Carried
  <2>2. Waiting(job) = {}
    BY DEF Waiting
  <2>3. SourceOf(job') = SourceOf(job) /\ StagingPlaces(job') = StagingPlaces(job)
    BY <1>4, CopyPlacesSame
  <2>4. (Secures \ TreeOf(Source)) \cup StagingPlaces(job) \subseteq CarriedPlaces(job')
    BY <1>1, <2>3 DEF CarriedPlaces
  <2>5. CarriedPlaces(job) = (Secures \ TreeOf(Source)) \cup StagingPlaces(job) \cup {Leaf}
    BY <1>1, <1>5, <2>2 DEF CarriedPlaces
  <2>6. Work \in CarriedPlaces(job')
    <3>1. Work \in CleanTree(Work)
      BY <1>1, Rooted, RootsAndChildren DEF Paths, NothingHiddenIn, TreeOf, CleanTree
    <3> QED BY <1>0, <2>4, <3>1, WorkIsPlace
  <2>7. \A q \in DOMAIN tree \cap CarriedPlaces(job) :
           IF RootOf(q) = Leaf THEN To(q, Work) \in CarriedPlaces(job') ELSE q \in CarriedPlaces(job')
    <3>1. RootOf(Leaf) = Leaf
      BY <1>5, Rooted
    <3> QED BY <1>6, <1>61, <2>4, <2>5, <2>6, <3>1
  <2> QED BY <1>7, <2>1, <2>7
<1>15. job'.pc \in CopyPCs \cup {"cleanup"} /\ job'.pc # "leaf"
  BY DEF CopyPCs
<1> QED BY <1>0, <1>4, <1>7, <1>8, <1>9, <1>10, <1>11, <1>12, <1>13, <1>14, <1>15, CopyGoes

LEMMA ChildPlaced ==
  ASSUME JobsInv, job.pc = "leaf", UNCHANGED <<Held, foreign>>, job.item # << >>,
         Leaf \in Children, ItemTo \in Children, RootOf(Leaf) = Work, RootOf(ItemTo) = Work,
         ItemTo[3] \in VisibleNames, Leaf \in DOMAIN tree,
         ItemTo \notin DOMAIN tree, tree' = Moved(Leaf, ItemTo),
         SameBut(job, job', {"pc", "item", "walk"}), job'.pc = "walk", job'.walk = job.walk \ {job.item[1]}
  PROVE  JobsInv'
<1>0. job.pc \in {"copy"} \cup StagePCs /\ job.pc \in CopyPCs
  BY DEF StagePCs, CopyPCs
<1>1. /\ JobFits(job) /\ DOMAIN job = JobFields /\ job.undo = "none" /\ JobStands(job)
      /\ job.op \in {"copy", "move", "restore"} /\ job.i <= Len(job.sources) /\ job.target \in TargetsOf(job.op)
      /\ job.op = "copy" /\ job.how = "merge" => job.merged
      /\ Copying(tree, job, Held, foreign) /\ FileTree(tree) /\ Work \in Roots /\ Work \notin SourcesOf(job.op)
      /\ Source = SourceOf(job)
  BY <1>0, InCopy DEF Copying
<1>3. /\ job'.undo = "none" /\ job'.op = job.op /\ job'.i = job.i /\ job'.sources = job.sources
      /\ job'.how = job.how /\ job'.merged = job.merged /\ job'.target = job.target
  BY <1>1 DEF SameBut
<1>4. JobStands(job')
  <2>1. job'.walk \subseteq VisibleNames
    BY <1>1 DEF JobStands
  <2> QED BY <1>1, <1>3, <2>1, StandsStage
<1>5. /\ Leaf \in Paths /\ LeafPlaces(job) = {Leaf} /\ Leaf \notin Secures
  BY LeafApart
<1>6. \A q \in DOMAIN tree : q \in Paths
  BY <1>1 DEF FileTree
<1>61. ItemTo \in Paths /\ ItemTo \in CleanTree(Work) /\ Leaf \in TreeOf(Work)
  BY <1>5 DEF CleanTree, TreeOf, NothingHiddenIn, Paths
<1>62. /\ ItemTo \in (Secures \ TreeOf(Source)) \cup StagingPlaces(job)
       /\ ItemTo \in VisiblePaths \cup StagingPlaces(job)
  BY <1>0, <1>61, WorkIsPlace
<1> DEFINE M == Moved(Leaf, ItemTo)
<1>7. /\ \A G, G2, k :
              /\ k \subseteq DataIn(tree, G)
              /\ \A q \in DOMAIN tree \cap G : IF q = Leaf THEN ItemTo \in G2 ELSE q \in G2
              => k \subseteq DataIn(M, G2)
      /\ \A P, P2 :
              (\A q \in DOMAIN tree : IF q = Leaf THEN ItemTo \in P2 => q \in P ELSE q \in P2 => q \in P)
              => DataIn(M, P2) \subseteq DataIn(tree, P)
      /\ \A P : Leaf \notin P /\ ItemTo \notin P => DataIn(M, P) = DataIn(tree, P)
      /\ DOMAIN M = (DOMAIN tree \ {Leaf}) \cup {ItemTo}
      /\ FileTree(M)
  BY <1>1, MovedChildData
<1>8. tree' = M
  OBVIOUS
<1> HIDE DEF M
<1>9. DataIn(M, Paths) \subseteq DataIn(tree, Paths)
  <2>1. \A q \in DOMAIN tree : IF q = Leaf THEN ItemTo \in Paths => q \in Paths ELSE q \in Paths => q \in Paths
    BY <1>6
  <2> QED BY <1>7, <2>1
<1>10. Held \subseteq DataIn(M, Secures)
  <2>1. \A q \in DOMAIN tree \cap Secures : IF q = Leaf THEN ItemTo \in Secures ELSE q \in Secures
    BY <1>5
  <2>2. Held \subseteq DataIn(tree, Secures)
    BY <1>1 DEF Copying
  <2> QED BY <1>7, <2>1, <2>2
<1>11. DOMAIN M \subseteq VisiblePaths \cup StagingPlaces(job)
  BY <1>1, <1>5, <1>7, <1>62 DEF Copying, WorkPlaces
<1>12. DataIn(M, MadePlaces(job) \cup StagingPlaces(job)) \subseteq DataIn(tree, MadePlaces(job) \cup WorkPlaces(job))
  <2> DEFINE P2 == MadePlaces(job) \cup StagingPlaces(job)
             P == MadePlaces(job) \cup WorkPlaces(job)
  <2>1. \A q \in DOMAIN tree : IF q = Leaf THEN ItemTo \in P2 => q \in P ELSE q \in P2 => q \in P
    BY <1>5 DEF WorkPlaces
  <2> HIDE DEF P2, P
  <2>2. DataIn(M, P2) \subseteq DataIn(tree, P)
    BY <1>7, <2>1
  <2> QED BY <2>2 DEF P2, P
<1>13. DataIn(tree, SourcePlaces(job)) \subseteq DataIn(M, SourcePlaces(job))
  <2>1. SourcePlaces(job) \cap TreeOf(Work) = {} /\ ItemTo \in TreeOf(Work)
    BY <1>0, <1>1, <1>61, CopyApart DEF CleanTree
  <2>2. Leaf \notin SourcePlaces(job) /\ ItemTo \notin SourcePlaces(job)
    BY <1>61, <2>1
  <2> QED BY <1>7, <2>2
<1>14. job.op \in Transfers => Held \subseteq DataIn(M, CarriedPlaces(job'))
  <2> SUFFICES ASSUME job.op \in Transfers PROVE Held \subseteq DataIn(M, CarriedPlaces(job'))
    OBVIOUS
  <2>1. Held \subseteq DataIn(tree, CarriedPlaces(job))
    BY <1>0 DEF JobsInv, Inv, Carried
  <2>2. Waiting(job) = job.walk \ {job.item[1]} /\ Waiting(job') = job.walk \ {job.item[1]}
    BY DEF Waiting
  <2>3. SourceOf(job') = SourceOf(job) /\ StagingPlaces(job') = StagingPlaces(job)
    BY CopyPlacesSame
  <2>4. CarriedPlaces(job) \ {Leaf} \subseteq CarriedPlaces(job')
    BY <1>5, <2>2, <2>3 DEF CarriedPlaces
  <2>5. (Secures \ TreeOf(Source)) \cup StagingPlaces(job) \subseteq CarriedPlaces(job')
    BY <1>1, <2>3 DEF CarriedPlaces
  <2>6. \A q \in DOMAIN tree \cap CarriedPlaces(job) :
           IF q = Leaf THEN ItemTo \in CarriedPlaces(job') ELSE q \in CarriedPlaces(job')
    BY <1>62, <2>4, <2>5
  <2> QED BY <1>7, <2>1, <2>6
<1>15. job'.pc \in CopyPCs \cup {"cleanup"} /\ job'.pc # "leaf"
  BY DEF CopyPCs
<1> QED BY <1>0, <1>4, <1>7, <1>8, <1>9, <1>10, <1>11, <1>12, <1>13, <1>14, <1>15, CopyGoes

LEMMA PlaceLeafStep ==
  ASSUME JobsInv, PlaceLeaf
  PROVE  JobsInv'
<1>0. job.pc = "leaf" /\ UNCHANGED <<Held, foreign>> /\ job.pc \in {"copy"} \cup StagePCs
  BY DEF PlaceLeaf, Cleared, AtPC, Quiet, envVars, Held, StagePCs, CopyPCs
<1>1. JobOK(job) /\ DOMAIN job = JobFields
  BY <1>0, InCopy
<1>2. \/ /\ job.item = << >> /\ Leaf \in Roots /\ ItemTo \in Roots /\ Leaf # ItemTo /\ ItemTo = Work
      \/ /\ job.item # << >> /\ Leaf \in Children /\ ItemTo \in Children /\ RootOf(Leaf) = Work /\ RootOf(ItemTo) = Work
         /\ ItemTo[3] = job.item[1] /\ job.item[1] \in VisibleNames
  BY <1>0, <1>1, LeafPaths
<1>3. CASE cancelled \/ path_lexists(ItemTo) \/ ~path_lexists(Leaf)
  <2>1. tree' = Without(Leaf) /\ \E e : job' = CopyFails(e)
    BY <1>3 DEF PlaceLeaf, Cleared
  <2> QED BY <1>0, <2>1, LeafGone
<1>4. CASE ~(cancelled \/ path_lexists(ItemTo) \/ ~path_lexists(Leaf))
  <2>1. /\ tree' = Moved(Leaf, ItemTo) /\ ItemTo \notin DOMAIN tree /\ Leaf \in DOMAIN tree
        /\ job' = IF job.item = << >> THEN Goto("commit")
                  ELSE [job EXCEPT !.walk = @ \ {job.item[1]}, !.item = << >>, !.pc = "walk"]
    BY <1>4 DEF PlaceLeaf, path_lexists
  <2>2. CASE job.item = << >>
    <3>1. SameBut(job, job', {"pc"}) /\ job'.pc = "commit"
      BY <1>1, <2>1, <2>2, GotoSame
    <3> QED BY <1>0, <1>2, <2>1, <2>2, <3>1, RootPlaced
  <2>3. CASE job.item # << >>
    <3>1. job' = [job EXCEPT !.walk = @ \ {job.item[1]}, !.item = << >>, !.pc = "walk"]
      BY <2>1, <2>3
    <3>2. SameBut(job, job', {"pc", "item", "walk"}) /\ job'.pc = "walk" /\ job'.walk = job.walk \ {job.item[1]}
      BY <1>1, <3>1 DEF SameBut, JobFields
    <3> QED BY <1>0, <1>2, <2>1, <2>3, <3>2, ChildPlaced
  <2> QED BY <2>2, <2>3
<1> QED BY <1>3, <1>4

\* The job goes on with its copy as it is.
LEMMA CopyOn ==
  ASSUME JobsInv, job.pc \in {"walk", "commit", "exchange", "place"}, UNCHANGED <<tree, Held, foreign>>,
         job.pc = "walk" => job.walk = {},
         NEW l \in {"commit", "exchange", "place"}, job' = Goto(l), l \in {"exchange", "place"} => job.how = "replace"
  PROVE  JobsInv'
<1>0. job.pc \in {"copy"} \cup StagePCs /\ job.pc \in CopyPCs
  BY DEF StagePCs, CopyPCs
<1>1. /\ JobFits(job) /\ DOMAIN job = JobFields /\ job.undo = "none" /\ JobStands(job)
      /\ job.op \in {"copy", "move", "restore"} /\ job.i <= Len(job.sources) /\ job.target \in TargetsOf(job.op)
      /\ job.op = "copy" /\ job.how = "merge" => job.merged
      /\ Copying(tree, job, Held, foreign) /\ FileTree(tree)
  BY <1>0, InCopy DEF Copying
<1>2. SameBut(job, job', {"pc"}) /\ job'.pc = l
  BY <1>1, GotoSame
<1>3. /\ job'.undo = "none" /\ job'.op = job.op /\ job'.i = job.i /\ job'.sources = job.sources
      /\ job'.how = job.how /\ job'.merged = job.merged /\ job'.target = job.target
      /\ SameBut(job, job', {"pc", "item", "walk"})
  BY <1>1, <1>2 DEF SameBut
<1>4. JobStands(job') /\ job'.pc \in CopyPCs \cup {"cleanup"} /\ job'.pc # "leaf"
  BY <1>1, <1>2, <1>3, StandsStage
<1>5. LeafPlaces(job) = {} /\ Waiting(job) = {} /\ LeafPlaces(job') = {} /\ Waiting(job') = {}
  BY <1>2 DEF LeafPlaces, Waiting
<1>6. WorkPlaces(job) = StagingPlaces(job)
  BY <1>5 DEF WorkPlaces
<1>7. CarriedPlaces(job') = CarriedPlaces(job)
  <2>1. SourceOf(job') = SourceOf(job) /\ StagingPlaces(job') = StagingPlaces(job)
    BY <1>3, CopyPlacesSame
  <2> QED BY <1>5, <2>1 DEF CarriedPlaces
<1>8. job.op \in Transfers => Held \subseteq DataIn(tree, CarriedPlaces(job'))
  BY <1>0, <1>7 DEF JobsInv, Inv, Carried
<1> QED BY <1>0, <1>1, <1>3, <1>4, <1>6, <1>8, CopyGoes DEF Copying

LEMMA SealStep ==
  ASSUME JobsInv, Seal
  PROVE  JobsInv'
<1>0. job.pc = "walk" /\ job.walk = {} /\ UNCHANGED <<tree, Held, foreign>>
  BY DEF Seal, AtPC, Keep, Quiet, envVars, Held, fsVars
<1>1. CASE job' = Goto("commit")
  BY <1>0, <1>1, CopyOn
<1>2. CASE job' = CopyFails("io")
  BY <1>0, <1>2, CopyFailStep DEF CopyPCs
<1> QED BY <1>1, <1>2 DEF Seal

-----------------------------------------------------------------------------
(* The copy takes its place.                                               *)
LEMMA StandsRemove ==
  ASSUME NEW j, j.pc \in {"remove", "unlink"}, j.undo = "none", j.op \in Deletions \cup Transfers,
         j.i <= Len(j.sources), j.op \notin Deletions => j.target \in TargetsOf(j.op)
  PROVE  JobStands(j) /\ j.pc \in RestPCs /\ j.pc \in PCs /\ Removing(j)
<1>1. j.pc \notin {"restore", "info", "trash", "conflict", "discard", "removing", "walk", "exchange", "place", "leaf",
                   "move back", "untrash", "quarantine", "destroy", "unquarantine", "error", "transfer", "copy"}
      /\ j.pc \notin AsidePCs \cup BackPCs \cup {"ended"} \cup StagePCs /\ j.pc \in PCs /\ j.pc \in RestPCs
  BY DEF AsidePCs, BackPCs, StagePCs, CopyPCs, PCs, RestPCs, RemovePCs
<1>2. Removing(j)
  BY DEF Removing, RemovePCs
<1>3. j.op # "copy"
  BY DEF Deletions, Transfers
<1> QED BY <1>1, <1>2, <1>3 DEF JobStands

\* The targets, with one more.
LEMMA MadeMore ==
  ASSUME NEW j, NEW j2, JobFits(j), NEW s, NEW t, j2.affected = Append(j.affected, [source |-> s, target |-> t])
  PROVE  MadePlaces(j2) = MadePlaces(j) \cup TreeOf(t)
<1>1. j.affected \in Seq(Pairs(j.op))
  BY DEF JobFits
<1> DEFINE e == [source |-> s, target |-> t]
<1>2. /\ DOMAIN j2.affected = DOMAIN j.affected \cup {Len(j.affected) + 1}
      /\ \A n \in DOMAIN j.affected : j2.affected[n] = j.affected[n]
      /\ j2.affected[Len(j.affected) + 1] = e
      /\ e.target = t
  BY <1>1
<1> HIDE DEF e
<1>3. ASSUME NEW q \in MadePlaces(j2) PROVE q \in MadePlaces(j) \cup TreeOf(t)
  <2>1. PICK n \in DOMAIN j2.affected : q \in TreeOf(j2.affected[n].target)
    BY DEF MadePlaces
  <2> QED BY <1>2, <2>1 DEF MadePlaces
<1>4. ASSUME NEW q \in MadePlaces(j) PROVE q \in MadePlaces(j2)
  <2>1. PICK n \in DOMAIN j.affected : q \in TreeOf(j.affected[n].target)
    BY DEF MadePlaces
  <2> QED BY <1>2, <2>1 DEF MadePlaces
<1>5. ASSUME NEW q \in TreeOf(t) PROVE q \in MadePlaces(j2)
  <2>1. Len(j.affected) + 1 \in DOMAIN j2.affected /\ q \in TreeOf(j2.affected[Len(j.affected) + 1].target)
    BY <1>2
  <2> QED BY <2>1 DEF MadePlaces
<1> QED BY <1>3, <1>4, <1>5

LEMMA CopiedStep ==
  ASSUME JobsInv, job.pc \in {"commit", "place", "discard"}, UNCHANGED <<Held, foreign>>, job' = Copied(job),
         FileTree(tree'), DataIn(tree', Paths) \subseteq DataIn(tree, Paths), DOMAIN tree' \subseteq VisiblePaths,
         Held \subseteq DataIn(tree', Secures),
         job.op = "copy" /\ ~job.merged =>
            Held \cap DataIn(tree', MadePlaces(job) \cup TreeOf(job.target)) \subseteq DataIn(tree', SourcePlaces(job)),
         job.op \in Transfers => Held \subseteq DataIn(tree', Secures \ TreeOf(Source))
  PROVE  JobsInv'
<1>0. job.pc \in {"copy"} \cup StagePCs
  BY DEF StagePCs, CopyPCs
<1>1. /\ JobFits(job) /\ DOMAIN job = JobFields /\ job.undo = "none" /\ JobStands(job) /\ job.op \notin Deletions
      /\ job.op \in {"copy", "move", "restore"} /\ job.i <= Len(job.sources) /\ job.target \in TargetsOf(job.op)
      /\ (job.op = "copy" /\ job.how = "merge" => job.merged)
      /\ Copying(tree, job, Held, foreign) /\ Source = SourceOf(job) /\ Source \in SourcesOf(job.op)
      /\ job.merged \in BOOLEAN
  BY <1>0, InCopy
<1>2. CASE job.op = "copy"
  <2> DEFINE j == Affect(job, job.target)
  <2>1. JobFits(j) /\ SameBut(job, j, {"affected"})
        /\ j.affected = Append(job.affected, [source |-> Source, target |-> job.target])
    BY <1>1, AffectFits, AffectSame
  <2>2. job' = NextSource(j)
    BY <1>2 DEF Copied
  <2> HIDE DEF j
  <2>3. SameBut(job, j, {"all", "affected", "moves"})
    BY <2>1 DEF SameBut
  <2>4. /\ JobFits(job') /\ JobStands(job') /\ job'.pc \in RestPCs /\ ~Removing(job')
        /\ SameBut(j, job', {"i", "pc"}) /\ SameBut(job, job', {"all", "affected", "moves", "i", "pc"})
    BY <1>1, <2>1, <2>2, <2>3, NextSourceOK
  <2>5. job'.op = job.op /\ job'.sources = job.sources /\ job'.prints = job.prints /\ job'.merged = job.merged
        /\ job'.affected = Append(job.affected, [source |-> Source, target |-> job.target])
    BY <2>1, <2>4 DEF SameBut
  <2>6. MadePlaces(job') = MadePlaces(job) \cup TreeOf(job.target)
    BY <1>1, <2>5, MadeMore
  <2>7. SparedPlaces(job') = Secures /\ SourcePlaces(job') = SourcePlaces(job)
    BY <1>1, <2>5 DEF SparedPlaces, SourcePlaces
  <2>8. Fresh(tree', job', Held, foreign)
    BY <1>1, <2>5 DEF Copying, Fresh
  <2>9. Resting(tree', job', Held, foreign)
    BY <2>5, <2>6, <2>7, <2>8 DEF Resting
  <2>10. Inv(tree', job', Held, foreign)
    BY <2>4, <2>9, RestingInv DEF JobOK
  <2> QED BY <2>10 DEF JobsInv
<1>3. CASE job.op # "copy"
  <2>1. job' = [job EXCEPT !.pc = "remove"] /\ job.op \in Transfers
    BY <1>1, <1>3 DEF Copied, Transfers
  <2>2. SameBut(job, job', {"pc"}) /\ job'.pc = "remove"
    BY <1>1, <2>1 DEF SameBut, JobFields
  <2>3. job'.op = job.op /\ job'.sources = job.sources /\ job'.prints = job.prints /\ job'.merged = job.merged
        /\ job'.i = job.i /\ job'.target = job.target /\ job'.undo = job.undo
    BY <2>2 DEF SameBut
  <2>4. JobStands(job') /\ job'.pc \in RestPCs /\ job'.pc \in PCs
    <3>1. job'.pc \in {"remove", "unlink"} /\ job'.undo = "none" /\ job'.op \in Deletions \cup Transfers
          /\ job'.i <= Len(job'.sources) /\ job'.target \in TargetsOf(job'.op)
      BY <1>1, <2>1, <2>2, <2>3
    <3> QED BY <3>1, StandsRemove
  <2>5. JobFits(job')
    BY <1>1, <2>2, <2>4 DEF JobFits, SameBut
  <2>6. SparedPlaces(job') = Secures /\ SourceOf(job') = Source
    BY <1>1, <2>3 DEF SparedPlaces, SourceOf
  <2>7. Fresh(tree', job', Held, foreign)
    BY <1>1, <2>3 DEF Copying, Fresh
  <2>8. Resting(tree', job', Held, foreign)
    BY <1>3, <2>3, <2>6, <2>7 DEF Resting
  <2>9. Inv(tree', job', Held, foreign)
    BY <2>1, <2>4, <2>5, <2>6, <2>8, RestingInv DEF JobOK
  <2> QED BY <2>9 DEF JobsInv
<1> QED BY <1>2, <1>3

\* A merge has put everything in its place already.
LEMMA MergedStep ==
  ASSUME JobsInv, job.pc = "commit", job.how = "merge", UNCHANGED <<tree, Held, foreign>>, job' = Copied(job)
  PROVE  JobsInv'
<1>0. job.pc \in {"copy"} \cup StagePCs /\ job.pc \in CopyPCs
  BY DEF StagePCs, CopyPCs
<1>1. Copying(tree, job, Held, foreign) /\ (job.op = "copy" => job.merged) /\ Source = SourceOf(job)
  BY <1>0, InCopy
<1>2. WorkPlaces(job) = {} /\ Waiting(job) = {} /\ StagingPlaces(job) = {} /\ LeafPlaces(job) = {}
  BY DEF WorkPlaces, LeafPlaces, StagingPlaces, Waiting
<1>3. CarriedPlaces(job) = Secures \ TreeOf(Source)
  BY <1>1, <1>2 DEF CarriedPlaces
<1>4. job.op \in Transfers => Held \subseteq DataIn(tree, Secures \ TreeOf(Source))
  BY <1>0, <1>3 DEF JobsInv, Inv, Carried
<1> QED BY <1>1, <1>2, <1>4, CopiedStep DEF Copying

\* The staging tree is renamed to the target.
LEMMA StagedStep ==
  ASSUME JobsInv, job.pc \in {"commit", "place"}, job.how # "merge", job.target \notin DOMAIN tree,
         UNCHANGED <<Held, foreign>>, tree' = Moved(Staging, job.target), job' = Copied(job)
  PROVE  JobsInv'
<1>0. job.pc \in {"copy"} \cup StagePCs /\ job.pc \in CopyPCs
  BY DEF StagePCs, CopyPCs
<1>1. /\ Copying(tree, job, Held, foreign) /\ FileTree(tree) /\ Source = SourceOf(job) /\ Staging = StagingOf(job)
      /\ job.target \in Roots /\ job.target[2] \in VisibleNames /\ job.target \notin SourcesOf(job.op)
      /\ Staging \in Roots /\ Staging \notin SourcesOf(job.op) /\ Staging # job.target
      /\ Source \in SourcesOf(job.op) /\ Source \in Roots
  BY <1>0, InCopy DEF Copying
<1>2. LeafPlaces(job) = {} /\ Waiting(job) = {} /\ StagingPlaces(job) = CleanTree(Staging) /\ WorkPlaces(job) = CleanTree(Staging)
  BY <1>1 DEF LeafPlaces, Waiting, StagingPlaces, WorkPlaces
<1>3. Staging[2][1] = ".part" /\ Staging[2] \notin VisibleNames
  BY <1>1, HiddenRoots
<1>4. ASSUME NEW q \in DOMAIN tree
      PROVE  /\ q \in Paths
             /\ RootOf(q) = Staging => /\ To(q, job.target) \in VisiblePaths /\ To(q, job.target) \in Secures \ TreeOf(Source)
                                       /\ q \in CleanTree(Staging) /\ q \notin Secures /\ To(q, job.target) \in Paths
             /\ RootOf(q) # Staging => q \in VisiblePaths
  <2>1. q \in Paths /\ q \in VisiblePaths \cup CleanTree(Staging)
    BY <1>1, <1>2 DEF FileTree, Copying
  <2>2. CASE RootOf(q) = Staging
    <3>1. q[2] = Staging[2]
      BY <2>1, <2>2, TreesApart
    <3>2. q \notin VisiblePaths /\ q \notin Secures
      BY <1>3, <2>1, <3>1, VisibleFacts DEF Secures
    <3>3. q \in CleanTree(Staging) /\ NothingHiddenIn(q)
      BY <2>1, <3>2 DEF CleanTree
    <3>4. To(q, job.target) \in CleanTree(job.target) /\ To(q, job.target) \in Paths /\ To(q, job.target) \in TreeOf(job.target)
      BY <1>1, <2>1, <3>3, GoesTo
    <3>5. To(q, job.target) \in VisiblePaths
      BY <1>1, <3>4, TreesApart
    <3>6. To(q, job.target) \in Secures
      BY <3>4, <3>5, TreesApart
    <3>7. To(q, job.target) \notin TreeOf(Source)
      BY <1>1, <3>4 DEF TreeOf
    <3> QED BY <2>1, <2>2, <3>2, <3>3, <3>4, <3>5, <3>6, <3>7
  <2>3. CASE RootOf(q) # Staging
    BY <2>1, <2>3 DEF CleanTree, TreeOf
  <2> QED BY <2>1, <2>2, <2>3
<1> DEFINE M == Moved(Staging, job.target)
<1>7. /\ \A G, G2, k :
              /\ k \subseteq DataIn(tree, G)
              /\ \A q \in DOMAIN tree \cap G : IF RootOf(q) = Staging THEN To(q, job.target) \in G2 ELSE q \in G2
              => k \subseteq DataIn(M, G2)
      /\ \A P, P2 :
              (\A q \in DOMAIN tree : IF RootOf(q) = Staging THEN To(q, job.target) \in P2 => q \in P ELSE q \in P2 => q \in P)
              => DataIn(M, P2) \subseteq DataIn(tree, P)
      /\ \A P : P \cap (TreeOf(Staging) \cup TreeOf(job.target)) = {} => DataIn(M, P) = DataIn(tree, P)
      /\ \A P : (\A q \in DOMAIN tree : IF RootOf(q) = Staging THEN To(q, job.target) \in P ELSE q \in P)
                => DOMAIN M \subseteq P
      /\ FileTree(M)
  BY <1>1, MovedData
<1>8. tree' = M
  OBVIOUS
<1> HIDE DEF M
<1>9. DataIn(M, Paths) \subseteq DataIn(tree, Paths)
  <2>1. \A q \in DOMAIN tree : IF RootOf(q) = Staging THEN To(q, job.target) \in Paths => q \in Paths ELSE q \in Paths => q \in Paths
    BY <1>4
  <2> QED BY <1>7, <2>1
<1>10. Held \subseteq DataIn(M, Secures)
  <2>1. \A q \in DOMAIN tree \cap Secures : IF RootOf(q) = Staging THEN To(q, job.target) \in Secures ELSE q \in Secures
    BY <1>4
  <2>2. Held \subseteq DataIn(tree, Secures)
    BY <1>1 DEF Copying
  <2> QED BY <1>7, <2>1, <2>2
<1>11. DOMAIN M \subseteq VisiblePaths
  <2>1. \A q \in DOMAIN tree : IF RootOf(q) = Staging THEN To(q, job.target) \in VisiblePaths ELSE q \in VisiblePaths
    BY <1>4
  <2> QED BY <1>7, <2>1
<1>12. DataIn(tree, SourcePlaces(job)) = DataIn(M, SourcePlaces(job))
  <2>1. SourcePlaces(job) \cap TreeOf(Staging) = {} /\ SourcePlaces(job) \cap TreeOf(job.target) = {}
    BY <1>0, <1>1, CopyApart
  <2>2. SourcePlaces(job) \cap (TreeOf(Staging) \cup TreeOf(job.target)) = {}
    BY <2>1
  <2> QED BY <1>7, <2>2
<1>13. DataIn(M, MadePlaces(job) \cup TreeOf(job.target)) \subseteq DataIn(tree, MadePlaces(job) \cup WorkPlaces(job))
  <2> DEFINE P2 == MadePlaces(job) \cup TreeOf(job.target)
             P == MadePlaces(job) \cup WorkPlaces(job)
  <2>1. ASSUME NEW q \in DOMAIN tree
        PROVE  IF RootOf(q) = Staging THEN To(q, job.target) \in P2 => q \in P ELSE q \in P2 => q \in P
    <3>1. q \in Paths /\ RootOf(q) # job.target
      BY <1>1, <1>4, NothingBelow
    <3> QED BY <1>2, <1>4, <3>1 DEF TreeOf
  <2> HIDE DEF P2, P
  <2>2. DataIn(M, P2) \subseteq DataIn(tree, P)
    BY <1>7, <2>1
  <2> QED BY <2>2 DEF P2, P
<1>14. job.op = "copy" /\ ~job.merged =>
            Held \cap DataIn(M, MadePlaces(job) \cup TreeOf(job.target)) \subseteq DataIn(M, SourcePlaces(job))
  BY <1>1, <1>12, <1>13 DEF Copying, CopiesHold
<1>15. job.op \in Transfers => Held \subseteq DataIn(M, Secures \ TreeOf(Source))
  <2> SUFFICES ASSUME job.op \in Transfers PROVE Held \subseteq DataIn(M, Secures \ TreeOf(Source))
    OBVIOUS
  <2>1. Held \subseteq DataIn(tree, CarriedPlaces(job))
    BY <1>0 DEF JobsInv, Inv, Carried
  <2>2. CarriedPlaces(job) = (Secures \ TreeOf(Source)) \cup CleanTree(Staging)
    BY <1>1, <1>2 DEF CarriedPlaces
  <2>3. \A q \in CleanTree(Staging) : RootOf(q) = Staging
    BY DEF CleanTree, TreeOf
  <2>4. \A q \in DOMAIN tree \cap CarriedPlaces(job) :
           IF RootOf(q) = Staging THEN To(q, job.target) \in Secures \ TreeOf(Source) ELSE q \in Secures \ TreeOf(Source)
    BY <1>4, <2>2, <2>3
  <2> QED BY <1>7, <2>1, <2>4
<1> QED BY <1>7, <1>8, <1>9, <1>10, <1>11, <1>14, <1>15, CopiedStep

LEMMA CommitStep ==
  ASSUME JobsInv, Commit
  PROVE  JobsInv'
<1>0. job.pc = "commit" /\ UNCHANGED <<Held, foreign>>
  BY DEF Commit, AtPC, Quiet, envVars, Held
<1>1. CASE job.how = "merge"
  BY <1>0, <1>1, MergedStep DEF Commit
<1>2. CASE job.how = "plain" /\ path_lexists(job.target)
  <2>1. job' = CopyFails("exists") /\ UNCHANGED tree
    BY <1>2 DEF Commit, CopyFail
  <2> QED BY <1>0, <2>1, CopyFailStep DEF CopyPCs
<1>3. CASE job.how = "plain" /\ ~path_lexists(job.target)
  <2>1. tree' = Moved(Staging, job.target) /\ job' = Copied(job) /\ job.target \notin DOMAIN tree
    BY <1>3 DEF Commit, path_lexists
  <2> QED BY <1>0, <1>3, <2>1, StagedStep
<1>4. CASE job.how = "replace"
  <2>1. UNCHANGED tree /\ \E l \in {"exchange", "place"} : job' = Goto(l)
    BY <1>4 DEF Commit
  <2>2. PICK l \in {"exchange", "place"} : job' = Goto(l)
    BY <2>1
  <2> QED BY <1>0, <1>4, <2>1, <2>2, CopyOn
<1>5. job.how \in {"plain", "replace", "merge"}
  BY <1>0, InCopy DEF JobFits, StagePCs, CopyPCs
<1> QED BY <1>1, <1>2, <1>3, <1>4, <1>5

LEMMA PlaceStep ==
  ASSUME JobsInv, Place
  PROVE  JobsInv'
<1>0. job.pc = "place" /\ UNCHANGED <<Held, foreign>>
  BY DEF Place, AtPC, Quiet, envVars, Held
<1>1. job.how = "replace"
  BY <1>0, InCopy DEF JobStands, StagePCs, CopyPCs
<1>2. CASE path_lexists(job.target)
  <2>1. job' = Goto("commit") /\ UNCHANGED tree
    BY <1>2 DEF Place
  <2> QED BY <1>0, <2>1, CopyOn
<1>3. CASE ~path_lexists(job.target)
  <2>1. tree' = Moved(Staging, job.target) /\ job' = Copied(job) /\ job.target \notin DOMAIN tree
    BY <1>3 DEF Place, path_lexists
  <2> QED BY <1>0, <1>1, <2>1, StagedStep
<1> QED BY <1>2, <1>3

\* What was at the target is exchanged with its replacement: the user gave it up, or
\* the replacement holds it again.
LEMMA ExchangedStep ==
  ASSUME JobsInv, job.pc = "exchange", UNCHANGED foreign,
         tree' = Exchanged(Staging, job.target), Held' \subseteq Held,
         Held' \cap DataAt(job.target) \subseteq DataAt(Staging), job' = Goto("discard")
  PROVE  JobsInv'
<1>0. job.pc \in {"copy"} \cup StagePCs /\ job.pc \in CopyPCs
  BY DEF StagePCs, CopyPCs
<1>1. /\ Copying(tree, job, Held, foreign) /\ FileTree(tree) /\ Source = SourceOf(job) /\ Staging = StagingOf(job)
      /\ job.target \in Roots /\ job.target[2] \in VisibleNames /\ job.target \notin SourcesOf(job.op)
      /\ Staging \in Roots /\ Staging \notin SourcesOf(job.op) /\ Staging # job.target
      /\ Source \in SourcesOf(job.op) /\ Source \in Roots /\ DOMAIN job = JobFields /\ JobFits(job)
      /\ job.op \in {"copy", "move", "restore"} /\ job.i <= Len(job.sources) /\ job.target \in TargetsOf(job.op)
      /\ job.undo = "none" /\ job.op \notin Deletions /\ (job.op = "copy" /\ job.how = "merge" => job.merged)
  BY <1>0, InCopy DEF Copying
<1>2. job.how = "replace"
  BY <1>0, InCopy DEF JobStands
<1>3. LeafPlaces(job) = {} /\ Waiting(job) = {} /\ StagingPlaces(job) = CleanTree(Staging) /\ WorkPlaces(job) = CleanTree(Staging)
  BY <1>1, <1>2 DEF LeafPlaces, Waiting, StagingPlaces, WorkPlaces
<1>4. SameBut(job, job', {"pc"}) /\ job'.pc = "discard"
  BY <1>1, GotoSame
<1>5. /\ job'.undo = "none" /\ job'.op = job.op /\ job'.i = job.i /\ job'.sources = job.sources /\ job'.prints = job.prints
      /\ job'.how = job.how /\ job'.merged = job.merged /\ job'.target = job.target /\ job'.affected = job.affected
  BY <1>1, <1>4 DEF SameBut
<1>6. /\ Removing(job') /\ job'.pc \in StagePCs /\ job'.pc \notin CopyPCs /\ job'.pc \in PCs /\ job'.pc \notin AsidePCs
      /\ job'.pc \notin AsidePCs \cup BackPCs \cup {"ended"} /\ job'.pc \notin IdlePCs /\ job'.pc # "leaf"
  BY <1>4 DEF Removing, RemovePCs, StagePCs, CopyPCs, PCs, AsidePCs, BackPCs, IdlePCs
<1>7. JobFits(job') /\ JobStands(job')
  <2>1. JobFits(job')
    BY <1>1, <1>4, <1>6 DEF JobFits, SameBut
  <2>2. JobStands(job')
    BY <1>1, <1>2, <1>4, <1>5, <1>6 DEF JobStands
  <2> QED BY <2>1, <2>2
<1>8. /\ StagingOf(job') = Staging /\ SourceOf(job') = Source /\ StagingPlaces(job') = CleanTree(Staging)
      /\ MadePlaces(job') = MadePlaces(job) /\ SourcePlaces(job') = SourcePlaces(job) /\ LeafPlaces(job') = {}
  <2>1. SameBut(job, job', {"pc", "item", "walk"})
    BY <1>4 DEF SameBut
  <2> QED BY <1>1, <1>3, <1>6, <2>1, CopyPlacesSame DEF LeafPlaces
<1> DEFINE E == Exchanged(Staging, job.target)
           sw(q) == Swap(q, Staging, job.target)
<1>9. /\ \A G, G2, k :
              /\ k \subseteq DataIn(tree, G)
              /\ \A q \in DOMAIN tree \cap G : tree[q].data \in k => sw(q) \in G2
              => k \subseteq DataIn(E, G2)
      /\ \A P, P2 :
              (\A q \in DOMAIN tree : sw(q) \in P2 => q \in P)
              => DataIn(E, P2) \subseteq DataIn(tree, P)
      /\ \A P : P \cap (TreeOf(Staging) \cup TreeOf(job.target)) = {} => DataIn(E, P) = DataIn(tree, P)
      /\ \A P : (\A q \in DOMAIN tree : sw(q) \in P) => DOMAIN E \subseteq P
      /\ FileTree(E)
  BY <1>1, ExchangedData
<1>10. Staging[2][1] = ".part" /\ Staging[2] \notin VisibleNames
  BY <1>1, HiddenRoots
<1>11. /\ Under(job.target) = DOMAIN tree \cap TreeOf(job.target) /\ Folder \notin Held
       /\ DataAt(Staging) \subseteq DataIn(tree, TreeOf(Staging))
  <2>1. Under(job.target) = DOMAIN tree \cap TreeOf(job.target) /\ Folder \notin Held
    BY <1>1, UnderRootIs DEF Copying, Fresh
  <2>2. Under(Staging) = DOMAIN tree \cap TreeOf(Staging)
    BY <1>1, UnderRootIs
  <2> QED BY <2>1, <2>2 DEF DataAt, DataIn
<1>12. ASSUME NEW q \in DOMAIN tree
       PROVE  /\ q \in Paths
              /\ RootOf(q) = Staging => /\ sw(q) = To(q, job.target) /\ sw(q) \in VisiblePaths /\ sw(q) \in Secures \ TreeOf(Source)
                                        /\ q \in CleanTree(Staging) /\ q \notin Secures /\ sw(q) \in TreeOf(job.target)
              /\ RootOf(q) = job.target => /\ sw(q) = To(q, Staging) /\ sw(q) \in CleanTree(Staging)
                                           /\ tree[q].data \in Held' => tree[q].data \in DataIn(tree, TreeOf(Staging))
                                           /\ q \in TreeOf(job.target)
              /\ RootOf(q) # Staging /\ RootOf(q) # job.target => q \in VisiblePaths /\ sw(q) = q
  <2>1. q \in Paths /\ q \in VisiblePaths \cup CleanTree(Staging)
    BY <1>1, <1>3 DEF FileTree, Copying
  <2>2. CASE RootOf(q) = Staging
    <3>0. sw(q) = To(q, job.target)
      BY <2>2 DEF Swap
    <3>1. q[2] = Staging[2]
      BY <2>1, <2>2, TreesApart
    <3>2. q \notin VisiblePaths /\ q \notin Secures
      BY <1>10, <2>1, <3>1, VisibleFacts DEF Secures
    <3>3. q \in CleanTree(Staging) /\ NothingHiddenIn(q)
      BY <2>1, <3>2 DEF CleanTree
    <3>4. To(q, job.target) \in CleanTree(job.target) /\ To(q, job.target) \in Paths /\ To(q, job.target) \in TreeOf(job.target)
      BY <1>1, <2>1, <3>3, GoesTo
    <3>5. To(q, job.target) \in VisiblePaths
      BY <1>1, <3>4, TreesApart
    <3>6. To(q, job.target) \in Secures
      BY <3>4, <3>5, TreesApart
    <3>7. To(q, job.target) \notin TreeOf(Source)
      BY <1>1, <3>4 DEF TreeOf
    <3> HIDE DEF sw
    <3> QED BY <1>1, <2>1, <2>2, <3>0, <3>2, <3>3, <3>4, <3>5, <3>6, <3>7
  <2>3. CASE RootOf(q) = job.target
    <3>0. sw(q) = To(q, Staging)
      BY <1>1, <2>3 DEF Swap
    <3>1. q \in TreeOf(job.target) /\ q \in Under(job.target)
      BY <1>11, <2>1, <2>3 DEF TreeOf
    <3>2. tree[q].data \in Held' => tree[q].data \in DataIn(tree, TreeOf(Staging))
      <4> SUFFICES ASSUME tree[q].data \in Held' PROVE tree[q].data \in DataIn(tree, TreeOf(Staging))
        OBVIOUS
      <4>1. tree[q].data # Folder
        BY <1>11
      <4>2. tree[q].data \in DataAt(job.target)
        BY <3>1, <4>1 DEF DataAt
      <4> QED BY <1>11, <4>2
    <3>3. q \notin CleanTree(Staging)
      BY <1>1, <2>3 DEF CleanTree, TreeOf
    <3>4. NothingHiddenIn(q)
      BY <2>1, <3>3, VisibleFacts
    <3>5. To(q, Staging) \in CleanTree(Staging)
      BY <1>1, <2>1, <3>4, GoesTo
    <3> HIDE DEF sw
    <3> QED BY <1>1, <2>1, <2>3, <3>0, <3>1, <3>2, <3>5
  <2>4. CASE RootOf(q) # Staging /\ RootOf(q) # job.target
    <3>1. sw(q) = q
      BY <2>4 DEF Swap
    <3>2. q \in VisiblePaths
      BY <2>1, <2>4 DEF CleanTree, TreeOf
    <3> HIDE DEF sw
    <3> QED BY <2>1, <2>4, <3>1, <3>2
  <2> QED BY <2>2, <2>3, <2>4
<1>13. tree' = E /\ Held' \subseteq Held
  OBVIOUS
<1> HIDE DEF E, sw
\* What is kept is found without what is replaced.
<1>135. ASSUME NEW P, Held' \subseteq DataIn(tree, P)
        PROVE  Held' \subseteq DataIn(tree, (P \ TreeOf(job.target)) \cup TreeOf(Staging))
  <2> SUFFICES ASSUME NEW d \in Held'
               PROVE  d \in DataIn(tree, (P \ TreeOf(job.target)) \cup TreeOf(Staging))
    OBVIOUS
  <2>1. PICK q \in DOMAIN tree \cap P : tree[q].data = d
    BY <1>135 DEF DataIn
  <2>2. CASE q \notin TreeOf(job.target)
    BY <2>1, <2>2 DEF DataIn
  <2>3. CASE q \in TreeOf(job.target)
    <3>1. RootOf(q) = job.target
      BY <2>3 DEF TreeOf
    <3>2. d \in DataIn(tree, TreeOf(Staging))
      BY <1>12, <2>1, <3>1
    <3> QED BY <3>2 DEF DataIn
  <2> QED BY <2>2, <2>3
<1>14. Fresh(E, job', Held', foreign)
  <2>1. DataIn(E, Paths) \subseteq DataIn(tree, Paths)
    <3>1. \A q \in DOMAIN tree : sw(q) \in Paths => q \in Paths
      BY <1>12
    <3> QED BY <1>9, <3>1
  <2> QED BY <1>1, <1>5, <1>13, <2>1 DEF Copying, Fresh
<1>15. Safe(E, job', Held')
  <2>1. CASE job.op \in Transfers
    <3>1. Held' \subseteq DataIn(tree, CarriedPlaces(job))
      BY <1>0, <1>13, <2>1 DEF JobsInv, Inv, Carried
    <3>2. CarriedPlaces(job) = (Secures \ TreeOf(Source)) \cup CleanTree(Staging)
      BY <1>1, <1>3 DEF CarriedPlaces
    <3>3. \A q \in CleanTree(Staging) : RootOf(q) = Staging
      BY DEF CleanTree, TreeOf
    <3> DEFINE G == (CarriedPlaces(job) \ TreeOf(job.target)) \cup TreeOf(Staging)
    <3>4. \A q \in DOMAIN tree \cap G : tree[q].data \in Held' => sw(q) \in Secures \ TreeOf(Source)
      <4> SUFFICES ASSUME NEW q \in DOMAIN tree \cap G PROVE sw(q) \in Secures \ TreeOf(Source)
        OBVIOUS
      <4>1. CASE RootOf(q) = Staging
        BY <1>12, <4>1
      <4>2. CASE RootOf(q) # Staging
        <5>1. q \in Paths /\ q \notin TreeOf(Staging)
          BY <1>12, <4>2 DEF TreeOf
        <5>2. q \in CarriedPlaces(job) /\ q \notin TreeOf(job.target)
          BY <5>1
        <5>3. RootOf(q) # job.target
          BY <5>1, <5>2 DEF TreeOf
        <5>4. q \in Secures \ TreeOf(Source)
          BY <3>2, <3>3, <4>2, <5>2
        <5> QED BY <1>12, <4>2, <5>3, <5>4
      <4> QED BY <4>1, <4>2
    <3>41. Held' \subseteq DataIn(tree, G)
      BY <1>135, <3>1
    <3> HIDE DEF G
    <3>5. Held' \subseteq DataIn(E, Secures \ TreeOf(Source))
      BY <1>9, <3>41, <3>4
    <3>6. Secures \ TreeOf(Source) = SafePlaces(job')
      BY <1>1, <1>5, <1>6, <1>8, <2>1 DEF SafePlaces
    <3> QED BY <3>5, <3>6 DEF Safe
  <2>2. CASE job.op \notin Transfers
    <3>1. Held' \subseteq DataIn(tree, Secures)
      BY <1>1, <1>13 DEF Copying
    <3> DEFINE G == (Secures \ TreeOf(job.target)) \cup TreeOf(Staging)
    <3>2. \A q \in DOMAIN tree \cap G : tree[q].data \in Held' => sw(q) \in Secures
      <4> SUFFICES ASSUME NEW q \in DOMAIN tree \cap G PROVE sw(q) \in Secures
        OBVIOUS
      <4>1. CASE RootOf(q) = Staging
        BY <1>12, <4>1
      <4>2. CASE RootOf(q) # Staging
        <5>1. q \in Paths /\ q \notin TreeOf(Staging)
          BY <1>12, <4>2 DEF TreeOf
        <5>2. q \in Secures /\ q \notin TreeOf(job.target)
          BY <5>1
        <5>3. RootOf(q) # job.target
          BY <5>1, <5>2 DEF TreeOf
        <5> QED BY <1>12, <4>2, <5>2, <5>3
      <4> QED BY <4>1, <4>2
    <3>21. Held' \subseteq DataIn(tree, G)
      BY <1>135, <3>1
    <3> HIDE DEF G
    <3>3. Held' \subseteq DataIn(E, Secures)
      BY <1>9, <3>21, <3>2
    <3>4. Secures = SafePlaces(job')
      BY <1>1, <1>5, <2>2 DEF SafePlaces
    <3> QED BY <3>3, <3>4 DEF Safe
  <2> QED BY <2>1, <2>2
<1>16. Tidy(E, job')
  <2>1. \A q \in DOMAIN tree : sw(q) \in VisiblePaths \cup CleanTree(Staging)
    BY <1>12
  <2>2. DOMAIN E \subseteq VisiblePaths \cup CleanTree(Staging)
    BY <1>9, <2>1
  <2>3. CleanTree(Staging) \subseteq HiddenPlaces(job')
    BY <1>6, <1>8 DEF HiddenPlaces
  <2> QED BY <2>2, <2>3 DEF Tidy
<1>17. Doubled(E, job', Held')
  <2> SUFFICES ASSUME job.op = "copy", ~job.merged, NEW x \in Held', x \in DataIn(E, CopyPlaces(job'))
               PROVE  x \in DataIn(E, SourcePlaces(job))
    BY <1>5, <1>8 DEF Doubled
  <2>1. CopyPlaces(job') = MadePlaces(job) \cup CleanTree(Staging) \cup TreeOf(job.target)
    BY <1>4, <1>5, <1>6, <1>8 DEF CopyPlaces
  <2> DEFINE A == MadePlaces(job) \cup CleanTree(Staging)
             B == TreeOf(job.target)
  <2>2. \A q \in DOMAIN tree : sw(q) \in CopyPlaces(job') => q \in A \cup B
    BY <1>12, <2>1 DEF TreeOf
  <2>3. x \in DataIn(tree, A \cup B)
    BY <1>9, <2>2
  <2>4. PICK q \in DOMAIN tree \cap (A \cup B) : tree[q].data = x
    BY <2>3 DEF DataIn
  <2>5. ASSUME q \notin B PROVE x \in DataIn(tree, A)
    BY <2>4, <2>5 DEF DataIn
  <2>51. ASSUME q \in B PROVE x \in DataIn(tree, A)
    <3>1. RootOf(q) = job.target
      BY <2>51 DEF TreeOf
    <3>2. x \in DataIn(tree, TreeOf(Staging))
      BY <1>12, <2>4, <3>1
    <3>3. PICK r \in DOMAIN tree \cap TreeOf(Staging) : tree[r].data = x
      BY <3>2 DEF DataIn
    <3>4. r \in CleanTree(Staging)
      BY <1>12, <3>3 DEF TreeOf
    <3> QED BY <3>3, <3>4 DEF DataIn
  <2>6. x \in DataIn(tree, A)
    BY <2>5, <2>51
  <2>7. x \in DataIn(tree, SourcePlaces(job))
    BY <1>1, <1>3, <1>13, <2>6 DEF Copying, CopiesHold
  <2>8. SourcePlaces(job) \cap TreeOf(Staging) = {} /\ SourcePlaces(job) \cap TreeOf(job.target) = {}
    BY <1>0, <1>1, CopyApart
  <2>9. SourcePlaces(job) \cap (TreeOf(Staging) \cup TreeOf(job.target)) = {}
    BY <2>8
  <2> QED BY <1>9, <2>7, <2>9
<1>18. Carried(E, job', Held') /\ Listed(E, job', Held') /\ Compared(E, job')
  BY <1>4, <1>6 DEF Carried, Listed, Compared
<1>19. Inv(E, job', Held', foreign)
  BY <1>7, <1>9, <1>14, <1>15, <1>16, <1>17, <1>18 DEF Inv, JobOK
<1> QED BY <1>13, <1>19 DEF JobsInv

LEMMA ExchangeStep ==
  ASSUME JobsInv, Exchange
  PROVE  JobsInv'
<1>0. job.pc = "exchange" /\ UNCHANGED foreign
  BY DEF Exchange, AtPC, envVars, Held
<1>1. job.how = "replace"
  BY <1>0, InCopy DEF JobStands, StagePCs, CopyPCs
<1>2. CASE path_lexists(job.target)
  <2>1. /\ tree' = Exchanged(Staging, job.target) /\ job' = Goto("discard")
        /\ kept' = kept \ (DataAt(job.target) \ Brought)
        /\ over' = over \cup ((kept \cap DataAt(job.target) \cap Brought) \ DataAt(Staging))
    BY <1>2 DEF Exchange
  <2>2. Held' \subseteq Held /\ Held' \cap DataAt(job.target) \subseteq DataAt(Staging)
    BY <2>1 DEF Held
  <2> QED BY <1>0, <2>1, <2>2, ExchangedStep
<1>3. CASE ~path_lexists(job.target)
  <2>1. job' = Goto("place") /\ UNCHANGED <<tree, Held>>
    BY <1>3 DEF Exchange, Held
  <2> QED BY <1>0, <1>1, <2>1, CopyOn
<1> QED BY <1>2, <1>3

-----------------------------------------------------------------------------
(* What was replaced, and what failed, goes.                               *)
LEMMA StagingGone ==
  ASSUME JobsInv, job.pc \in {"discard", "cleanup"}, job.how # "merge"
  PROVE  /\ FileTree(Without(Staging)) /\ DOMAIN Without(Staging) \subseteq VisiblePaths
         /\ \A P : DataIn(Without(Staging), P) \subseteq DataIn(tree, P)
         /\ DataIn(Without(Staging), SourcePlaces(job)) = DataIn(tree, SourcePlaces(job))
         /\ \A P : P \subseteq Secures => DataIn(Without(Staging), P) = DataIn(tree, P)
         /\ DataIn(Without(Staging), MadePlaces(job)) = DataIn(tree, MadePlaces(job))
<1>0. job.pc \in {"copy"} \cup StagePCs
  BY DEF StagePCs
<1>1. /\ Copying(tree, job, Held, foreign) /\ FileTree(tree) /\ Staging = StagingOf(job) /\ JobFits(job) /\ job.op \in Ops
      /\ Staging \in Roots /\ Staging \notin SourcesOf(job.op)
  BY <1>0, InCopy DEF Copying
<1>2. Under(Staging) = DOMAIN tree \cap TreeOf(Staging) /\ Staging \in Paths
  BY <1>1, UnderRootIs DEF Paths
<1>3. LeafPlaces(job) = {} /\ StagingPlaces(job) = CleanTree(Staging) /\ CleanTree(Staging) \subseteq TreeOf(Staging)
  BY <1>1 DEF LeafPlaces, StagingPlaces, CleanTree
<1> DEFINE T == Without(Staging)
<1>4. /\ \A P : DataIn(T, P) \subseteq DataIn(tree, P)
      /\ \A P : P \cap Under(Staging) = {} => DataIn(T, P) = DataIn(tree, P)
      /\ DOMAIN T = DOMAIN tree \ Under(Staging) /\ FileTree(T)
  BY <1>1, <1>2, WithoutData
<1> HIDE DEF T
<1>5. DOMAIN T \subseteq VisiblePaths
  BY <1>1, <1>2, <1>3, <1>4 DEF Copying, WorkPlaces
<1>6. SourcePlaces(job) \cap Under(Staging) = {}
  BY <1>0, <1>1, <1>2, CopyApart
<1>7. ASSUME NEW P, P \subseteq Secures PROVE P \cap Under(Staging) = {}
  <2> SUFFICES ASSUME NEW q \in Secures, q \in TreeOf(Staging) PROVE FALSE
    BY <1>2, <1>7
  <2>1. q \in Paths /\ q[2][1] # ".part"
    BY DEF Secures
  <2> QED BY <1>1, <2>1, TreesApart, HiddenRoots
<1>8. MadePlaces(job) \cap Under(Staging) = {}
  <2> SUFFICES ASSUME NEW q \in MadePlaces(job), q \in TreeOf(Staging) PROVE FALSE
    BY <1>2
  <2>1. PICK n \in DOMAIN job.affected : q \in TreeOf(job.affected[n].target)
    BY DEF MadePlaces
  <2>2. job.affected \in Seq(Pairs(job.op))
    BY <1>1 DEF JobFits
  <2>3. job.affected[n] \in Pairs(job.op)
    BY <2>1, <2>2
  <2>4. job.affected[n].target \in TargetsOf(job.op)
    BY <2>3 DEF Pairs
  <2>5. job.affected[n].target[2] \in VisibleNames /\ job.affected[n].target \in Roots
    BY <1>1, <2>4, JobPlaces
  <2>6. q \in Paths
    BY DEF TreeOf
  <2> QED BY <1>1, <2>1, <2>5, <2>6, TreesApart, HiddenRoots
<1> QED BY <1>4, <1>5, <1>6, <1>7, <1>8 DEF T

LEMMA DiscardStep ==
  ASSUME JobsInv, Discard
  PROVE  JobsInv'
<1>0. /\ job.pc = "discard" /\ UNCHANGED <<Held, foreign>> /\ tree' = Without(Staging) /\ job' = Copied(job)
      /\ job.pc \in {"copy"} \cup StagePCs
  BY DEF Discard, AtPC, Quiet, envVars, Held, StagePCs
<1>1. /\ Copying(tree, job, Held, foreign) /\ job.how = "replace" /\ Source = SourceOf(job) /\ job.op \notin Deletions
  BY <1>0, InCopy DEF JobStands
<1> DEFINE T == Without(Staging)
<1>2. /\ FileTree(T) /\ DOMAIN T \subseteq VisiblePaths
      /\ \A P : DataIn(T, P) \subseteq DataIn(tree, P)
      /\ DataIn(T, SourcePlaces(job)) = DataIn(tree, SourcePlaces(job))
      /\ \A P : P \subseteq Secures => DataIn(T, P) = DataIn(tree, P)
  BY <1>0, <1>1, StagingGone
<1> HIDE DEF T
<1>3. Inv(tree, job, Held, foreign)
  BY DEF JobsInv
<1>4. Held \subseteq DataIn(T, Secures)
  BY <1>1, <1>2 DEF Copying
<1>5. job.op \in Transfers => Held \subseteq DataIn(T, Secures \ TreeOf(Source))
  <2> SUFFICES ASSUME job.op \in Transfers PROVE Held \subseteq DataIn(T, Secures \ TreeOf(Source))
    OBVIOUS
  <2>1. SafePlaces(job) = Secures \ TreeOf(Source)
    BY <1>0, <1>1 DEF SafePlaces, Removing, RemovePCs
  <2>2. Held \subseteq DataIn(tree, Secures \ TreeOf(Source))
    BY <1>3, <2>1 DEF Inv, Safe
  <2>3. Secures \ TreeOf(Source) \subseteq Secures
    OBVIOUS
  <2> QED BY <1>2, <2>2, <2>3
<1>6. job.op = "copy" /\ ~job.merged =>
            Held \cap DataIn(T, MadePlaces(job) \cup TreeOf(job.target)) \subseteq DataIn(T, SourcePlaces(job))
  <2> SUFFICES ASSUME job.op = "copy", ~job.merged
               PROVE  Held \cap DataIn(T, MadePlaces(job) \cup TreeOf(job.target)) \subseteq DataIn(T, SourcePlaces(job))
    OBVIOUS
  <2>1. MadePlaces(job) \cup TreeOf(job.target) \subseteq CopyPlaces(job)
    BY <1>0 DEF CopyPlaces
  <2>2. DataIn(tree, MadePlaces(job) \cup TreeOf(job.target)) \subseteq DataIn(tree, CopyPlaces(job))
    BY <2>1, DataGrows
  <2>3. Held \cap DataIn(tree, CopyPlaces(job)) \subseteq DataIn(tree, SourcePlaces(job))
    BY <1>0, <1>3 DEF Inv, Doubled, AsidePCs
  <2>4. DataIn(T, MadePlaces(job) \cup TreeOf(job.target)) \subseteq DataIn(tree, MadePlaces(job) \cup TreeOf(job.target))
    BY <1>2
  <2> QED BY <1>2, <2>2, <2>3, <2>4
<1>7. tree' = T /\ DataIn(T, Paths) \subseteq DataIn(tree, Paths)
  BY <1>0, <1>2 DEF T
<1> QED BY <1>0, <1>2, <1>4, <1>5, <1>6, <1>7, CopiedStep

\* The staging tree is removed, and the job ends or asks.
LEMMA CleanUpStep ==
  ASSUME JobsInv, CleanUp
  PROVE  JobsInv'
<1>0. job.pc = "cleanup" /\ UNCHANGED <<Held, foreign>> /\ job.pc \in {"copy"} \cup StagePCs
      /\ job.pc \in StagePCs
  BY DEF CleanUp, Cleared, AtPC, Quiet, envVars, Held, StagePCs
<1>1. /\ Copying(tree, job, Held, foreign) /\ FileTree(tree) /\ DOMAIN job = JobFields /\ JobFits(job)
      /\ job.op \in {"copy", "move", "restore"} /\ job.i <= Len(job.sources) /\ job.target \in TargetsOf(job.op)
      /\ job.undo = "none" /\ job.op \notin Deletions /\ (job.op = "copy" /\ job.how = "merge" => job.merged)
      /\ job.merged \in BOOLEAN
  BY <1>0, InCopy DEF Copying
<1>2. LeafPlaces(job) = {} /\ WorkPlaces(job) = StagingPlaces(job)
  BY <1>0 DEF LeafPlaces, WorkPlaces
<1>3. /\ FileTree(tree') /\ DOMAIN tree' \subseteq VisiblePaths
      /\ \A P : DataIn(tree', P) \subseteq DataIn(tree, P)
      /\ DataIn(tree', SourcePlaces(job)) = DataIn(tree, SourcePlaces(job))
      /\ DataIn(tree', Secures) = DataIn(tree, Secures)
      /\ DataIn(tree', MadePlaces(job)) = DataIn(tree, MadePlaces(job))
  <2>1. CASE job.how = "merge"
    <3>1. tree' = tree /\ StagingPlaces(job) = {}
      BY <2>1 DEF CleanUp, StagingPlaces
    <3> QED BY <1>1, <1>2, <3>1 DEF Copying
  <2>2. CASE job.how # "merge"
    <3>1. tree' = Without(Staging)
      BY <2>2 DEF CleanUp, Cleared
    <3> DEFINE T == Without(Staging)
    <3>2. /\ FileTree(T) /\ DOMAIN T \subseteq VisiblePaths
          /\ \A P : DataIn(T, P) \subseteq DataIn(tree, P)
          /\ DataIn(T, SourcePlaces(job)) = DataIn(tree, SourcePlaces(job))
          /\ \A P : P \subseteq Secures => DataIn(T, P) = DataIn(tree, P)
          /\ DataIn(T, MadePlaces(job)) = DataIn(tree, MadePlaces(job))
      BY <1>0, <2>2, StagingGone
    <3>3. tree' = T
      BY <3>1
    <3> HIDE DEF T
    <3> QED BY <3>2, <3>3
  <2> QED BY <2>1, <2>2
<1>4. Resting(tree', job, Held, foreign)
  <2>1. Fresh(tree', job, Held, foreign)
    BY <1>1, <1>3 DEF Copying, Fresh
  <2>2. SparedPlaces(job) = Secures
    BY <1>1 DEF SparedPlaces
  <2>3. job.op = "copy" /\ ~job.merged =>
            Held \cap DataIn(tree', MadePlaces(job)) \subseteq DataIn(tree', SourcePlaces(job))
    <3>1. MadePlaces(job) \subseteq MadePlaces(job) \cup WorkPlaces(job)
      OBVIOUS
    <3>2. DataIn(tree, MadePlaces(job)) \subseteq DataIn(tree, MadePlaces(job) \cup WorkPlaces(job))
      BY <3>1, DataGrows
    <3> QED BY <1>1, <1>3, <3>2 DEF Copying, CopiesHold
  <2> QED BY <1>1, <1>3, <2>1, <2>2, <2>3 DEF Copying, Resting
<1>5. CASE job.error = "cancelled"
  <2> DEFINE j2 == Outcome(job, "Cancelled")
  <2>1. /\ SameBut(job, j2, {"pc", "prints", "undo"}) /\ j2.pc = "ended"
        /\ j2.undo \in {"none", "offered"}
        /\ Leafs(j2.prints) \subseteq DataIn(tree, MadePlaces(job)) \ {Folder}
    BY <1>1, OutcomeSame
  <2>2. JobOK(j2)
    BY <1>1, EndsOK
  <2>3. job' = j2
    BY <1>5 DEF CleanUp
  <2> HIDE DEF j2
  <2>4. j2.op = job.op /\ j2.sources = job.sources /\ j2.merged = job.merged
    BY <2>1 DEF SameBut
  <2>5. Leafs(j2.prints) \subseteq DataIn(tree', MadePlaces(job))
    BY <1>3, <2>1
  <2>6. Inv(tree', j2, Held, foreign)
    BY <1>4, <2>1, <2>2, <2>4, <2>5, EndedInv
  <2> QED BY <1>0, <2>3, <2>6 DEF JobsInv
<1>6. CASE job.error # "cancelled"
  <2>1. job' = Prompt(job.error, "transfer")
    BY <1>6 DEF CleanUp
  <2>2. SameBut(job, job', {"pc", "stage"}) /\ job'.pc = "error" /\ job'.stage = "transfer"
    BY <1>1, <2>1, PromptSame
  <2>3. job'.undo = "none" /\ job'.op = job.op /\ job'.i = job.i /\ job'.sources = job.sources
        /\ job'.how = job.how /\ job'.merged = job.merged /\ job'.prints = job.prints /\ job'.affected = job.affected
    BY <1>1, <2>2 DEF SameBut
  <2>4. JobStands(job') /\ ~Removing(job') /\ job'.pc \in RestPCs /\ job'.pc \in PCs
    BY <1>1, <2>2, <2>3, StandsError
  <2>5. JobFits(job')
    BY <1>1, <2>2, <2>4 DEF JobFits, SameBut
  <2>6. Resting(tree', job', Held, foreign)
    BY <1>1, <1>4, <2>3, RestingSame
  <2>7. Inv(tree', job', Held, foreign)
    BY <2>4, <2>5, <2>6, RestingInv DEF JobOK
  <2> QED BY <1>0, <2>7 DEF JobsInv
<1> QED BY <1>5, <1>6

-----------------------------------------------------------------------------
(* A source is removed.                                                    *)
\* Where a job removes a source.
LEMMA InRemoval ==
  ASSUME JobsInv, job.pc \in {"remove", "unlink", "removing"}
  PROVE  /\ job.pc \in RestPCs /\ Removing(job) /\ job.op \in Deletions \cup Transfers /\ job.op # "copy" /\ job.op \in Ops
         /\ JobFits(job) /\ DOMAIN job = JobFields /\ job.undo = "none" /\ job.i <= Len(job.sources)
         /\ Source = SourceOf(job) /\ Source \in SourcesOf(job.op) /\ Source \in Roots
         /\ job.op \notin Deletions => job.target \in TargetsOf(job.op)
         /\ job.op \in Deletions => SourcesOf(job.op) = TargetsOf(job.op) /\ TreeOf(Source) \subseteq SourcePlaces(job)
         /\ Resting(tree, job, Held, foreign)
         /\ job.op \in Transfers => Held \subseteq DataIn(tree, Secures \ TreeOf(Source))
         /\ job.pc = "removing" => job.walk \subseteq VisibleNames
<1>1. job.pc \in RestPCs /\ Removing(job) /\ job.pc # "discard"
  BY DEF RestPCs, Removing, RemovePCs
<1>2. /\ JobFits(job) /\ JobStands(job) /\ DOMAIN job = JobFields /\ job.undo = "none"
      /\ Resting(tree, job, Held, foreign)
  BY <1>1, AtRest
<1>3. /\ job.op \in Deletions \cup Transfers /\ job.i <= Len(job.sources)
      /\ (job.op \notin Deletions => job.target \in TargetsOf(job.op))
      /\ (job.pc = "removing" => job.walk \subseteq VisibleNames)
  BY <1>1, <1>2 DEF JobStands, RemovePCs
<1>4. job.op # "copy" /\ job.op \in Ops
  BY <1>2, <1>3 DEF Deletions, Transfers, JobFits
<1>5. Source = SourceOf(job) /\ Source \in SourcesOf(job.op) /\ Source \in Roots /\ job.i \in DOMAIN job.sources
  BY <1>2, <1>3, TargetPaths
<1>6. job.op \in Deletions => SourcesOf(job.op) = TargetsOf(job.op)
  BY DEF Deletions, SourcesOf, TargetsOf, TargetFolder
<1>7. TreeOf(Source) \subseteq SourcePlaces(job)
  BY <1>5 DEF SourcePlaces, SourceOf
<1>8. job.op \in Transfers => Held \subseteq DataIn(tree, Secures \ TreeOf(Source))
  <2> SUFFICES ASSUME job.op \in Transfers
               PROVE  Held \subseteq DataIn(tree, Secures \ TreeOf(Source))
    OBVIOUS
  <2>1. SafePlaces(job) \subseteq Secures \ TreeOf(Source)
    BY <1>1, <1>5 DEF SafePlaces
  <2>2. DataIn(tree, SafePlaces(job)) \subseteq DataIn(tree, Secures \ TreeOf(Source))
    BY <2>1, DataGrows
  <2> QED BY <2>2 DEF JobsInv, Inv, Safe
<1> QED BY <1>1, <1>2, <1>3, <1>4, <1>5, <1>6, <1>7, <1>8

LEMMA StandsRemoval ==
  ASSUME NEW j, j.pc \in {"remove", "unlink", "removing"} \/ (j.pc = "error" /\ j.stage = "remove" /\ j.op # "restore"),
         j.undo = "none", j.op \in Deletions \cup Transfers,
         j.i <= Len(j.sources), j.op \notin Deletions => j.target \in TargetsOf(j.op),
         j.pc = "removing" => j.walk \subseteq VisibleNames
  PROVE  JobStands(j) /\ j.pc \in RestPCs /\ j.pc \in PCs /\ Removing(j)
<1>1. j.pc \notin {"restore", "info", "trash", "conflict", "discard", "walk", "exchange", "place", "leaf",
                   "move back", "untrash", "quarantine", "destroy", "unquarantine", "transfer", "copy"}
      /\ j.pc \notin AsidePCs \cup BackPCs \cup {"ended"} \cup StagePCs /\ j.pc \in PCs /\ j.pc \in RestPCs
  BY DEF AsidePCs, BackPCs, StagePCs, CopyPCs, PCs, RestPCs, RemovePCs, IdlePCs
<1>2. Removing(j)
  BY DEF Removing, RemovePCs
<1>3. j.op # "copy"
  BY DEF Deletions, Transfers
<1> QED BY <1>1, <1>2, <1>3 DEF JobStands

\* What is taken from the source is kept elsewhere.
LEMMA SourceShrinks ==
  ASSUME JobsInv, job.pc \in {"remove", "unlink", "removing"}, NEW p \in Paths, Under(p) \subseteq TreeOf(Source)
  PROVE  /\ Resting(Without(p), job, Held, foreign)
         /\ job.op \in Transfers => Held \subseteq DataIn(Without(p), Secures \ TreeOf(Source))
<1>1. /\ Resting(tree, job, Held, foreign) /\ job.op # "copy" /\ job.op \in Deletions \cup Transfers
      /\ job.op \in Transfers => Held \subseteq DataIn(tree, Secures \ TreeOf(Source))
      /\ job.op \in Deletions => TreeOf(Source) \subseteq SourcePlaces(job)
  BY InRemoval
<1>2. FileTree(tree)
  BY <1>1 DEF Resting
<1> DEFINE T == Without(p)
<1>3. /\ \A P : DataIn(T, P) \subseteq DataIn(tree, P)
      /\ \A P : P \cap Under(p) = {} => DataIn(T, P) = DataIn(tree, P)
      /\ DOMAIN T = DOMAIN tree \ Under(p) /\ FileTree(T)
  BY <1>2, WithoutData
<1> HIDE DEF T
<1>4. job.op \in Transfers => Held \subseteq DataIn(T, Secures \ TreeOf(Source))
  <2>1. (Secures \ TreeOf(Source)) \cap Under(p) = {}
    OBVIOUS
  <2>2. DataIn(T, Secures \ TreeOf(Source)) = DataIn(tree, Secures \ TreeOf(Source))
    BY <1>3, <2>1
  <2> QED BY <1>1, <2>2
<1>5. Held \subseteq DataIn(T, SparedPlaces(job))
  <2>1. CASE job.op \in Transfers
    <3>1. SparedPlaces(job) = Secures
      BY <2>1 DEF SparedPlaces, Transfers, Deletions
    <3>2. Secures \ TreeOf(Source) \subseteq Secures
      OBVIOUS
    <3>3. DataIn(T, Secures \ TreeOf(Source)) \subseteq DataIn(T, Secures)
      BY <3>2, DataGrows
    <3> QED BY <1>4, <2>1, <3>1, <3>3
  <2>2. CASE job.op \in Deletions
    <3>1. SparedPlaces(job) \cap Under(p) = {}
      BY <1>1, <2>2 DEF SparedPlaces
    <3>2. DataIn(T, SparedPlaces(job)) = DataIn(tree, SparedPlaces(job))
      BY <1>3, <3>1
    <3> QED BY <1>1, <3>2 DEF Resting
  <2> QED BY <1>1, <2>1, <2>2
<1>6. Fresh(T, job, Held, foreign)
  BY <1>1, <1>3 DEF Fresh, Resting
<1>7. DOMAIN T \subseteq VisiblePaths
  BY <1>1, <1>3 DEF Resting
<1> QED BY <1>1, <1>3, <1>4, <1>5, <1>6, <1>7 DEF Resting, T

\* The steps of a removal, and those that leave it.
LEMMA RemovalStep ==
  ASSUME JobsInv, job.pc \in {"remove", "unlink", "removing"}, UNCHANGED <<Held, foreign>>,
         \/ UNCHANGED tree
         \/ \E p \in Paths : Under(p) \subseteq TreeOf(Source) /\ tree' = Without(p),
         SameBut(job, job', {"all", "pc", "i", "target", "how", "merged", "item", "walk", "stage", "moves", "affected"}),
         job'.merged = job.merged,
         JobFits(job'), JobStands(job'), job'.pc \in RestPCs, Removing(job') => job'.i = job.i
  PROVE  JobsInv'
<1>1. /\ Resting(tree, job, Held, foreign) /\ job.op # "copy" /\ job.op \in Deletions \cup Transfers
      /\ job.op \in Transfers => Held \subseteq DataIn(tree, Secures \ TreeOf(Source))
      /\ Source = SourceOf(job) /\ JobFits(job)
  BY InRemoval
<1>2. /\ Resting(tree', job, Held, foreign)
      /\ job.op \in Transfers => Held \subseteq DataIn(tree', Secures \ TreeOf(Source))
  <2>1. CASE UNCHANGED tree
    BY <1>1, <2>1
  <2>2. CASE \E p \in Paths : Under(p) \subseteq TreeOf(Source) /\ tree' = Without(p)
    <3>1. PICK p \in Paths : Under(p) \subseteq TreeOf(Source) /\ tree' = Without(p)
      BY <2>2
    <3> DEFINE T == Without(p)
    <3>2. /\ Resting(T, job, Held, foreign)
          /\ job.op \in Transfers => Held \subseteq DataIn(T, Secures \ TreeOf(Source))
      BY <3>1, SourceShrinks
    <3>3. tree' = T
      BY <3>1
    <3> HIDE DEF T
    <3> QED BY <3>2, <3>3
  <2> QED BY <2>1, <2>2
<1>3. job.merged \in BOOLEAN
  BY <1>1 DEF JobFits
<1>4. job'.op = job.op /\ job'.sources = job.sources /\ job'.prints = job.prints
  BY DEF SameBut
<1>5. Resting(tree', job', Held, foreign)
  BY <1>1, <1>2, <1>3, <1>4, RestingSame
<1>6. job'.op \in Transfers /\ Removing(job') => Held \subseteq DataIn(tree', Secures \ TreeOf(SourceOf(job')))
  BY <1>1, <1>2, <1>4 DEF SourceOf
<1>7. Inv(tree', job', Held, foreign)
  BY <1>5, <1>6, RestingInv DEF JobOK
<1> QED BY <1>7 DEF JobsInv

LEMMA RemoveFailsStep ==
  ASSUME JobsInv, job.pc \in {"remove", "unlink", "removing"}, UNCHANGED <<tree, Held, foreign>>, RemoveFails
  PROVE  JobsInv'
<1>1. /\ job.pc \in RestPCs /\ job.op \in Deletions \cup Transfers
      /\ JobFits(job) /\ DOMAIN job = JobFields /\ job.undo = "none" /\ job.i <= Len(job.sources)
      /\ job.op \notin Deletions => job.target \in TargetsOf(job.op)
  BY InRemoval
<1>2. CASE job.op = "restore"
  <2>1. job' = Prompt("io", "transfer")
    BY <1>2 DEF RemoveFails
  <2> QED BY <1>1, <2>1, PromptStep
<1>3. CASE job.op # "restore"
  <2>1. job' = Prompt("io", "remove")
    BY <1>3 DEF RemoveFails
  <2>2. SameBut(job, job', {"pc", "stage"}) /\ job'.pc = "error" /\ job'.stage = "remove"
    BY <1>1, <2>1, PromptSame
  <2>3. job'.undo = "none" /\ job'.op = job.op /\ job'.i = job.i /\ job'.sources = job.sources /\ job'.target = job.target
        /\ job'.merged = job.merged
    BY <1>1, <2>2 DEF SameBut
  <2>4. JobStands(job') /\ job'.pc \in RestPCs /\ job'.pc \in PCs
    BY <1>1, <1>3, <2>2, <2>3, StandsRemoval
  <2>5. JobFits(job')
    BY <1>1, <2>2, <2>4 DEF JobFits, SameBut
  <2>6. SameBut(job, job', {"all", "pc", "i", "target", "how", "merged", "item", "walk", "stage", "moves", "affected"})
    BY <2>2 DEF SameBut
  <2> QED BY <2>3, <2>4, <2>5, <2>6, RemovalStep
<1> QED BY <1>2, <1>3

LEMMA RemoveStoppedStep ==
  ASSUME JobsInv, job.pc \in {"remove", "unlink", "removing"}, UNCHANGED <<tree, Held, foreign>>, RemoveStopped
  PROVE  JobsInv'
<1>1. /\ job.op \in Deletions \cup Transfers /\ job.op # "copy"
      /\ JobFits(job) /\ DOMAIN job = JobFields /\ Source \in SourcesOf(job.op)
      /\ job.op \notin Deletions => job.target \in TargetsOf(job.op)
      /\ Resting(tree, job, Held, foreign)
  BY InRemoval
<1> DEFINE j == IF job.op = "move" THEN Issue(Affect(job, job.target)) ELSE Issue(job)
<1>2. JobFits(j) /\ SameBut(job, j, {"affected"})
  <2>1. CASE job.op = "move"
    <3> DEFINE a == Affect(job, job.target)
    <3>1. JobFits(a) /\ SameBut(job, a, {"affected"})
      BY <1>1, <2>1, AffectFits, AffectSame DEF Deletions
    <3>2. SameBut(a, Issue(a), {})
      BY <3>1, IssueSame DEF JobFits
    <3> HIDE DEF a
    <3>3. JobFits(Issue(a)) /\ SameBut(job, Issue(a), {"affected"})
      BY <3>1, <3>2 DEF JobFits, SameBut
    <3> QED BY <2>1, <3>3 DEF a
  <2>2. CASE job.op # "move"
    <3>1. SameBut(job, Issue(job), {})
      BY <1>1, IssueSame
    <3>2. JobFits(Issue(job)) /\ SameBut(job, Issue(job), {"affected"})
      BY <1>1, <3>1 DEF JobFits, SameBut
    <3> QED BY <2>2, <3>2
  <2> QED BY <2>1, <2>2
<1>3. job' = [Outcome(j, "Cancelled") EXCEPT !.error = "cancelled"]
  BY DEF RemoveStopped
<1> HIDE DEF j
<1>4. j.op = job.op /\ j.sources = job.sources /\ j.prints = job.prints /\ j.merged = job.merged /\ job.merged \in BOOLEAN
  BY <1>1, <1>2 DEF SameBut, JobFits
<1>5. Resting(tree, j, Held, foreign) /\ FileTree(tree)
  BY <1>1, <1>4, RestingSame DEF Resting
<1> DEFINE o == Outcome(j, "Cancelled")
<1>6. /\ SameBut(j, o, {"pc", "prints", "undo"}) /\ o.pc = "ended" /\ o.undo \in {"none", "offered"}
      /\ Leafs(o.prints) \subseteq DataIn(tree, MadePlaces(j)) \ {Folder}
  BY <1>2, <1>5, OutcomeSame
<1>7. JobFits(o) /\ JobStands(o)
  BY <1>1, <1>2, <1>4, <1>5, EndsOK DEF JobOK
<1>8. job' = [o EXCEPT !.error = "cancelled"]
  BY <1>3
<1> HIDE DEF o
<1>9. SameBut(o, job', {}) /\ DOMAIN o = JobFields
  <2>1. DOMAIN o = JobFields
    BY <1>6 DEF SameBut
  <2> QED BY <1>8, <2>1 DEF SameBut, JobFields
<1>10. job'.pc = "ended" /\ job'.undo = o.undo /\ job'.op = job.op /\ job'.sources = job.sources /\ job'.merged = job.merged
       /\ job'.prints = o.prints /\ job'.stage = o.stage /\ job'.how = o.how /\ job'.i = o.i /\ job'.n = o.n
       /\ job'.op = o.op
  BY <1>4, <1>6, <1>9 DEF SameBut
<1>11. JobFits(job')
  BY <1>7, <1>9 DEF JobFits, SameBut
<1>12. JobStands(job')
  <2>1. ~Removing(job')
    BY <1>10 DEF Removing, RemovePCs
  <2>2. job'.undo = "offered" => job'.op \in {"copy", "move", "trash"}
    BY <1>7, <1>10 DEF JobStands
  <2> QED BY <1>1, <1>10, <2>1, <2>2 DEF JobStands, IdlePCs, StagePCs, CopyPCs, RemovePCs, AsidePCs, BackPCs
<1>13. Inv(tree, job', Held, foreign)
  BY <1>4, <1>5, <1>6, <1>10, <1>11, <1>12, EndedInv DEF JobOK
<1> QED BY <1>13 DEF JobsInv

\* The source is gone.
LEMMA RemovedStep ==
  ASSUME JobsInv, job.pc \in {"unlink", "removing"}, UNCHANGED <<Held, foreign>>, tree' = Without(Source), Removed
  PROVE  JobsInv'
<1>1. /\ job.op \in Deletions \cup Transfers /\ job.op # "copy" /\ job.op \in Ops
      /\ JobFits(job) /\ DOMAIN job = JobFields /\ Source \in SourcesOf(job.op) /\ Source \in Roots
      /\ job.op \notin Deletions => job.target \in TargetsOf(job.op)
      /\ job.op \in Deletions => SourcesOf(job.op) = TargetsOf(job.op)
      /\ Resting(tree, job, Held, foreign) /\ job.undo = "none" /\ job.i <= Len(job.sources)
  BY InRemoval
<1>2. Source \in Paths /\ Under(Source) \subseteq TreeOf(Source)
  BY <1>1, UnderRootIs DEF Resting, Paths
<1>3. ASSUME NEW j, JobFits(j), SameBut(job, j, {"affected", "moves"}), job' = NextSource(j)
      PROVE  JobsInv'
  <2>0. SameBut(job, j, {"all", "affected", "moves"})
    BY <1>3 DEF SameBut
  <2>1. /\ JobFits(job') /\ JobStands(job') /\ job'.pc \in RestPCs /\ ~Removing(job')
        /\ SameBut(j, job', {"i", "pc"}) /\ SameBut(job, job', {"all", "affected", "moves", "i", "pc"})
    BY <1>1, <1>3, <2>0, NextSourceOK
  <2>2. /\ SameBut(job, job', {"all", "pc", "i", "target", "how", "merged", "item", "walk", "stage", "moves", "affected"})
        /\ job'.merged = job.merged
    BY <2>1 DEF SameBut
  <2> QED BY <1>2, <2>1, <2>2, RemovalStep
<1>4. CASE job.op = "move"
  <2>1. JobFits(MovedTo(job, job.target)) /\ SameBut(job, MovedTo(job, job.target), {"affected", "moves"})
    BY <1>1, <1>4, AffectFits, MovedToSame DEF Deletions
  <2>2. job' = NextSource(MovedTo(job, job.target))
    BY <1>4, Zenon DEF Removed
  <2> QED BY <1>3, <2>1, <2>2
<1>5. CASE job.op = "restore"
  <2>1. job' = Goto("info")
    BY <1>5, Zenon DEF Removed
  <2>2. SameBut(job, job', {"pc"}) /\ job'.pc = "info"
    BY <1>1, <2>1, GotoSame
  <2>3. job'.undo = "none" /\ job'.op = job.op /\ job'.i = job.i /\ job'.sources = job.sources /\ job'.target = job.target
        /\ job'.merged = job.merged
    BY <1>1, <2>2 DEF SameBut
  <2>4. job'.pc \in RestPCs /\ job'.pc \in PCs /\ ~Removing(job')
    BY <2>2 DEF RestPCs, IdlePCs, PCs, Removing, RemovePCs
  <2>5. JobStands(job')
    BY <1>1, <1>5, <2>2, <2>3, <2>4 DEF JobStands, StagePCs, CopyPCs, AsidePCs, BackPCs, Deletions
  <2>6. JobFits(job')
    BY <1>1, <2>2, <2>4 DEF JobFits, SameBut
  <2>7. SameBut(job, job', {"all", "pc", "i", "target", "how", "merged", "item", "walk", "stage", "moves", "affected"})
    BY <2>2 DEF SameBut
  <2> QED BY <1>2, <2>3, <2>4, <2>5, <2>6, <2>7, RemovalStep
<1>6. CASE job.op \notin {"move", "restore"}
  <2>1. JobFits(Affect(job, Source)) /\ SameBut(job, Affect(job, Source), {"affected"})
    BY <1>1, <1>6, AffectFits, AffectSame DEF Deletions, Transfers
  <2>2. job' = NextSource(Affect(job, Source))
    BY <1>6, Zenon DEF Removed
  <2>3. SameBut(job, Affect(job, Source), {"affected", "moves"})
    BY <2>1 DEF SameBut
  <2> QED BY <1>3, <2>1, <2>2, <2>3
<1> QED BY <1>4, <1>5, <1>6

\* The folder is listed, or a part of it goes.
LEMMA RemovingStep ==
  ASSUME JobsInv, job.pc \in {"unlink", "removing"}, UNCHANGED <<Held, foreign>>,
         \/ UNCHANGED tree
         \/ \E p \in Paths : Under(p) \subseteq TreeOf(Source) /\ tree' = Without(p),
         SameBut(job, job', {"pc", "walk"}), job'.pc = "removing", job'.walk \subseteq VisibleNames
  PROVE  JobsInv'
<1>1. /\ job.op \in Deletions \cup Transfers
      /\ JobFits(job) /\ job.undo = "none" /\ job.i <= Len(job.sources)
      /\ job.op \notin Deletions => job.target \in TargetsOf(job.op)
  BY InRemoval
<1>2. job'.undo = "none" /\ job'.op = job.op /\ job'.i = job.i /\ job'.sources = job.sources /\ job'.target = job.target
      /\ job'.merged = job.merged
  BY <1>1 DEF SameBut
<1>3. JobStands(job') /\ job'.pc \in RestPCs /\ job'.pc \in PCs
  BY <1>1, <1>2, StandsRemoval
<1>4. JobFits(job')
  BY <1>1, <1>3 DEF JobFits, SameBut
<1>5. SameBut(job, job', {"all", "pc", "i", "target", "how", "merged", "item", "walk", "stage", "moves", "affected"})
  BY DEF SameBut
<1>6. job.pc \in {"remove", "unlink", "removing"}
  OBVIOUS
<1> QED BY <1>2, <1>3, <1>4, <1>5, <1>6, RemovalStep

LEMMA RemoveRootStep ==
  ASSUME JobsInv, RemoveRoot
  PROVE  JobsInv'
<1>0. job.pc = "remove" /\ UNCHANGED <<tree, Held, foreign>>
  BY DEF RemoveRoot, AtPC, Quiet, envVars, Held
<1>1. /\ job.op \in Deletions \cup Transfers
      /\ JobFits(job) /\ DOMAIN job = JobFields /\ job.undo = "none" /\ job.i <= Len(job.sources)
      /\ job.op \notin Deletions => job.target \in TargetsOf(job.op)
  BY <1>0, InRemoval
<1>2. CASE RemoveFails
  BY <1>0, <1>2, RemoveFailsStep
<1>3. CASE job' = Goto("unlink")
  <2>1. SameBut(job, job', {"pc"}) /\ job'.pc = "unlink"
    BY <1>1, <1>3, GotoSame
  <2>2. job'.undo = "none" /\ job'.op = job.op /\ job'.i = job.i /\ job'.sources = job.sources /\ job'.target = job.target
        /\ job'.merged = job.merged
    BY <1>1, <2>1 DEF SameBut
  <2>3. JobStands(job') /\ job'.pc \in RestPCs /\ job'.pc \in PCs
    BY <1>1, <2>1, <2>2, StandsRemoval
  <2>4. JobFits(job')
    BY <1>1, <2>1, <2>3 DEF JobFits, SameBut
  <2>5. SameBut(job, job', {"all", "pc", "i", "target", "how", "merged", "item", "walk", "stage", "moves", "affected"})
    BY <2>1 DEF SameBut
  <2> QED BY <1>0, <2>2, <2>3, <2>4, <2>5, RemovalStep
<1> QED BY <1>2, <1>3, Zenon DEF RemoveRoot

LEMMA UnlinkRootStep ==
  ASSUME JobsInv, UnlinkRoot
  PROVE  JobsInv'
<1>0. job.pc = "unlink" /\ UNCHANGED <<Held, foreign>>
  BY DEF UnlinkRoot, AtPC, Quiet, envVars, Held
<1>1. CASE RemoveStopped /\ UNCHANGED tree
  BY <1>0, <1>1, RemoveStoppedStep
<1>2. CASE RemoveFails /\ UNCHANGED tree
  BY <1>0, <1>2, RemoveFailsStep
<1>3. CASE job' = [job EXCEPT !.walk = {q[3] : q \in Below(Source)}, !.pc = "removing"] /\ UNCHANGED tree
  <2>1. DOMAIN job = JobFields /\ Source \in Roots /\ Resting(tree, job, Held, foreign)
    BY <1>0, InRemoval
  <2>2. PICK w : w = {q[3] : q \in Below(Source)}
    OBVIOUS
  <2>3. \A c \in w : \E q \in Below(Source) : c = q[3]
    BY <2>2
  <2>4. w \subseteq VisibleNames
    <3> SUFFICES ASSUME NEW c \in w PROVE c \in VisibleNames
      OBVIOUS
    <3>1. PICK q \in Below(Source) : c = q[3]
      BY <2>3
    <3>2. q \in DOMAIN tree /\ q \in TreeOf(Source) /\ q # Source
      BY <2>1, <3>1, UnderRootIs DEF Below, Resting
    <3>3. q \in VisiblePaths /\ q \in Paths /\ RootOf(q) = Source
      BY <2>1, <3>2, VisibleFacts DEF Resting, TreeOf
    <3>4. q \in Children
      BY <3>2, <3>3, Rooted
    <3> QED BY <3>1, <3>3, <3>4, VisibleFacts DEF NothingHiddenIn
  <2>5. job' = [job EXCEPT !.walk = w, !.pc = "removing"]
    BY <1>3, <2>2
  <2>6. SameBut(job, job', {"pc", "walk"}) /\ job'.pc = "removing" /\ job'.walk = w
    BY <2>1, <2>5 DEF SameBut, JobFields
  <2> QED BY <1>0, <1>3, <2>4, <2>6, RemovingStep
<1>4. CASE Removed /\ tree' = Without(Source)
  BY <1>0, <1>4, RemovedStep
<1> QED BY <1>1, <1>2, <1>3, <1>4, Zenon DEF UnlinkRoot

LEMMA RemoveChildStep ==
  ASSUME JobsInv, NEW c, RemoveChild(c)
  PROVE  JobsInv'
<1>0. job.pc = "removing" /\ UNCHANGED <<Held, foreign>> /\ c \in job.walk
  BY DEF RemoveChild, AtPC, Quiet, envVars, Held
<1>1. CASE RemoveStopped /\ UNCHANGED tree
  BY <1>0, <1>1, RemoveStoppedStep
<1>2. CASE RemoveFails /\ UNCHANGED tree
  BY <1>0, <1>2, RemoveFailsStep
<1>3. CASE /\ job' = [job EXCEPT !.walk = @ \ {c}]
           /\ tree' = Without(Append(Source, c))
  <2>1. /\ DOMAIN job = JobFields /\ Source \in Roots /\ Resting(tree, job, Held, foreign) /\ JobFits(job)
        /\ job.walk \subseteq VisibleNames
    BY <1>0, InRemoval
  <2>2. c \in AllNames
    BY <1>0, <2>1, NameFacts
  <2>3. Hidden(".leaf", 0) \in AllNames
    BY NameFacts DEF HiddenTags
  <2> DEFINE s == Source
             p == <<s[1], s[2], c>>
  <2>4. Append(s, c) = p
    BY <2>1, <2>2, <2>3, FrontOfPath
  <2>5. p \in Children /\ RootOf(p) = s
    <3>1. s[1] \in Folders /\ s[2] \in AllNames /\ s = <<s[1], s[2]>>
      BY <2>1, PathShapes
    <3> QED BY <2>2, <3>1 DEF Children, RootOf
  <2>6. Under(p) \subseteq TreeOf(s) /\ p \in Paths
    BY <2>1, <2>5, UnderChildIs DEF Resting, Paths, TreeOf
  <2>7. SameBut(job, job', {"pc", "walk"}) /\ job'.pc = "removing" /\ job'.walk \subseteq VisibleNames
    BY <1>0, <1>3, <2>1 DEF SameBut, JobFields
  <2>8. tree' = Without(p)
    BY <1>3, <2>4
  <2> HIDE DEF p
  <2> QED BY <1>0, <2>6, <2>7, <2>8, RemovingStep
<1> QED BY <1>1, <1>2, <1>3, Zenon DEF RemoveChild

LEMMA RemoveFolderStep ==
  ASSUME JobsInv, RemoveFolder
  PROVE  JobsInv'
<1>0. job.pc = "removing" /\ UNCHANGED <<Held, foreign>>
  BY DEF RemoveFolder, AtPC, Quiet, envVars, Held
<1>1. CASE RemoveFails /\ UNCHANGED tree
  BY <1>0, <1>1, RemoveFailsStep
<1>2. CASE Removed /\ tree' = Without(Source)
  BY <1>0, <1>2, RemovedStep
<1> QED BY <1>1, <1>2, Zenon DEF RemoveFolder

LEMMA SystemFaultStep ==
  ASSUME JobsInv, SystemFault
  PROVE  JobsInv'
<1>0. UNCHANGED <<Held, foreign>>
  BY DEF SystemFault, Held
<1>1. CASE job.pc \in {"copy", "walk", "commit", "exchange", "place", "discard"} /\ CopyFail("io")
  <2>1. job' = CopyFails("io") /\ UNCHANGED tree
    BY <1>1 DEF CopyFail
  <2>2. job.pc \in ({"copy", "discard"} \cup CopyPCs) \ {"leaf"}
    BY <1>1 DEF CopyPCs
  <2> QED BY <1>0, <2>1, <2>2, CopyFailStep
<1>2. CASE job.pc = "leaf" /\ job' = CopyFails("io") /\ tree' = Without(Leaf)
  BY <1>0, <1>2, LeafGone
<1>3. CASE /\ job.pc \in {"trash", "restore", "info", "transfer"}
           /\ job' = Prompt("io", "transfer") /\ UNCHANGED tree
  <2>1. job.pc \in RestPCs /\ job.pc \in IdlePCs \ {"prepare", "validate", "next"}
    BY <1>3 DEF RestPCs, IdlePCs
  <2>2. job.i <= Len(job.sources)
    BY <2>1, AtRest DEF JobStands
  <2> QED BY <1>0, <1>3, <2>1, <2>2, PromptStep
<1>4. CASE job.pc \in {"remove", "unlink", "removing"} /\ RemoveFails /\ UNCHANGED tree
  BY <1>0, <1>4, RemoveFailsStep
<1>5. \/ job.pc \in {"copy", "walk", "commit", "exchange", "place", "discard"} /\ CopyFail("io")
      \/ job.pc = "leaf" /\ job' = CopyFails("io") /\ tree' = Without(Leaf)
      \/ job.pc \in {"trash", "restore", "info", "transfer"} /\ job' = Prompt("io", "transfer") /\ UNCHANGED tree
      \/ job.pc \in {"remove", "unlink", "removing"} /\ RemoveFails /\ UNCHANGED tree
  BY DEF SystemFault, AtPC
<1> QED BY <1>1, <1>2, <1>3, <1>4, <1>5

-----------------------------------------------------------------------------
(* The undo.                                                               *)
UndoPCs == AsidePCs \cup BackPCs
AsideTrees(S) == UNION {CleanTree(Quarantine(m)) : m \in S}

LEMMA AsideShown ==
  ASSUME NEW S, S \subseteq Nat
  PROVE  /\ AsideTrees(S) \subseteq Secures
         /\ \A q \in AsideTrees(S) : \E m \in S : q \in CleanTree(Quarantine(m)) /\ RootOf(q) = Quarantine(m)
         /\ \A m \in S : CleanTree(Quarantine(m)) \subseteq AsideTrees(S)
         /\ AsideTrees(S) \cap VisiblePaths = {}
<1>1. ASSUME NEW q \in AsideTrees(S) PROVE \E m \in S : q \in CleanTree(Quarantine(m)) /\ RootOf(q) = Quarantine(m)
  BY DEF AsideTrees, CleanTree, TreeOf
<1>2. ASSUME NEW q \in AsideTrees(S) PROVE q \in Secures /\ q \notin VisiblePaths
  <2>1. PICK m \in S : q \in CleanTree(Quarantine(m)) /\ RootOf(q) = Quarantine(m)
    BY <1>1
  <2>2. m \in Nat /\ q \in Paths
    BY <2>1 DEF CleanTree, TreeOf
  <2>3. Quarantine(m) \in Roots /\ Quarantine(m)[2][1] = ".undo" /\ Quarantine(m)[2] \notin VisibleNames
    BY <2>2, HiddenRoots
  <2>4. q \in Secures
    BY <2>1, <2>2, <2>3, TreesApart
  <2>5. q[2] = Quarantine(m)[2]
    BY <2>1, <2>2, TreesApart
  <2> QED BY <2>2, <2>3, <2>4, <2>5, VisibleFacts
<1>3. \A m \in S : CleanTree(Quarantine(m)) \subseteq AsideTrees(S)
  BY DEF AsideTrees
<1> QED BY <1>1, <1>2, <1>3

\* What the invariant says of a job whose undo runs, or has ended.
LEMMA UndoneInv ==
  ASSUME NEW t, NEW j, NEW k, NEW f, FileTree(t), JobOK(j), j.pc \in UndoPCs \cup {"ended"},
         j.op \in {"copy", "move", "trash"}, Fresh(t, j, k, f), k \subseteq DataIn(t, Secures),
         DOMAIN t \subseteq VisiblePaths \cup AsideTrees(Quarantined(j)), j.undo # "offered",
         j.pc \in AsidePCs => k \cap Leafs(j.prints) \subseteq DataIn(t, SourcePlaces(j)),
         Compared(t, j)
  PROVE  Inv(t, j, k, f)
<1>1. /\ j.pc \notin StagePCs /\ j.pc # "leaf" /\ j.pc \notin CopyPCs /\ ~Removing(j) /\ j.op \notin Deletions
      /\ j.pc \in BackPCs => j.op # "copy"
  BY DEF UndoPCs, AsidePCs, BackPCs, StagePCs, CopyPCs, Removing, RemovePCs, Deletions, JobOK, JobStands
<1>2. HiddenPlaces(j) = AsideTrees(Quarantined(j))
  BY <1>1 DEF HiddenPlaces, LeafPlaces, AsideTrees
<1>3. SafePlaces(j) = Secures
  BY <1>1 DEF SafePlaces
<1>4. Doubled(t, j, k)
  BY <1>1 DEF Doubled, UndoPCs
<1>5. Listed(t, j, k)
  BY DEF Listed
<1> QED BY <1>1, <1>2, <1>3, <1>4, <1>5 DEF Inv, Safe, Carried, Tidy

LEMMA InUndo ==
  ASSUME JobsInv, job.pc \in UndoPCs
  PROVE  /\ JobFits(job) /\ JobStands(job) /\ DOMAIN job = JobFields /\ FileTree(tree)
         /\ job.op \in {"copy", "move", "trash"} /\ job.op \in Ops /\ job.undo = "running"
         /\ Fresh(tree, job, Held, foreign) /\ Held \subseteq DataIn(tree, Secures)
         /\ DOMAIN tree \subseteq VisiblePaths \cup AsideTrees(Quarantined(job))
         /\ job.pc \in AsidePCs => Held \cap Leafs(job.prints) \subseteq DataIn(tree, SourcePlaces(job)) /\ job.op = "copy"
         /\ Compared(tree, job) /\ Records = RecordsOf(job) /\ Quarantined(job) \subseteq Nat
         /\ Records \in Seq(Pairs(job.op)) /\ job.n \in Nat /\ job.stuck \subseteq Nat
<1>1. /\ job.pc \notin StagePCs /\ job.pc # "leaf" /\ ~Removing(job)
  BY DEF UndoPCs, AsidePCs, BackPCs, StagePCs, CopyPCs, Removing, RemovePCs
<1>2. /\ JobFits(job) /\ JobStands(job) /\ DOMAIN job = JobFields /\ FileTree(tree)
      /\ Fresh(tree, job, Held, foreign) /\ Compared(tree, job)
  BY DEF JobsInv, Inv, JobOK, JobFits
<1>3. /\ job.op \in {"copy", "move", "trash"} /\ job.op \in Ops /\ job.undo = "running"
      /\ job.op \notin Deletions /\ (job.pc \in AsidePCs => job.op = "copy")
  BY <1>2 DEF JobStands, JobFits, UndoPCs, BackPCs, Deletions
<1>4. HiddenPlaces(job) = AsideTrees(Quarantined(job))
  BY <1>1 DEF HiddenPlaces, LeafPlaces, AsideTrees
<1>5. SafePlaces(job) = Secures
  BY <1>1, <1>3 DEF SafePlaces
<1>6. Records = RecordsOf(job) /\ Records \in Seq(Pairs(job.op)) /\ job.n \in Nat /\ job.stuck \subseteq Nat
  BY <1>2 DEF Records, RecordsOf, JobFits
<1>7. Quarantined(job) \subseteq Nat
  BY <1>6 DEF Quarantined
<1> QED BY <1>2, <1>3, <1>4, <1>5, <1>6, <1>7 DEF JobsInv, Inv, Safe, Tidy, Listed

\* Where the records point.
LEMMA RecordPaths ==
  ASSUME JobsInv, job.pc \in UndoPCs, NEW n \in 1..Len(Records)
  PROVE  /\ Records[n].source \in SourcesOf(job.op) /\ Records[n].target \in TargetsOf(job.op)
         /\ Records[n].source \in Roots /\ Records[n].target \in Roots
         /\ Records[n].source[2] \in VisibleNames /\ Records[n].target[2] \in VisibleNames
         /\ Records[n].source # Records[n].target
         /\ SourcePlaces(job) \cap TreeOf(Records[n].target) = {}
<1>1. Records \in Seq(Pairs(job.op)) /\ job.op \in Ops /\ JobFits(job) /\ job.op \in {"copy", "move", "trash"}
  BY InUndo
<1>2. Records[n] \in Pairs(job.op)
  BY <1>1
<1>3. Records[n].source \in SourcesOf(job.op) /\ Records[n].target \in TargetsOf(job.op)
  BY <1>2 DEF Pairs
<1> DEFINE s == Records[n].source
           r == Records[n].target
<1> HIDE DEF s, r
<1>4. s \in SourcesOf(job.op) /\ r \in TargetsOf(job.op)
  BY <1>3 DEF s, r
<1>5. job.op \notin Deletions
  BY <1>1 DEF Deletions
<1>6. /\ s \in Roots /\ r \in Roots /\ s[2] \in VisibleNames /\ r[2] \in VisibleNames
      /\ s[1] = HomeFolder(job.op) /\ r[1] = TargetFolder(job.op) /\ s # r /\ r \notin SourcesOf(job.op)
  BY <1>1, <1>4, <1>5, JobPlaces
<1>7. SourcePlaces(job) \cap TreeOf(r) = {}
  <2> SUFFICES ASSUME NEW q \in SourcePlaces(job), q \in TreeOf(r) PROVE FALSE
    OBVIOUS
  <2>1. PICK m \in DOMAIN job.sources : q \in TreeOf(job.sources[m])
    BY DEF SourcePlaces
  <2>2. job.sources \in Seq(SourcesOf(job.op))
    BY <1>1 DEF JobFits
  <2>3. job.sources[m] \in SourcesOf(job.op)
    BY <2>1, <2>2
  <2> QED BY <1>6, <2>1, <2>3 DEF TreeOf
<1> QED BY <1>4, <1>6, <1>7 DEF s, r

\* The undo of what the job lists begins.
LEMMA UndoStarts ==
  ASSUME JobsInv, Undo
  PROVE  JobsInv'
<1>0. /\ job.pc = "ended" /\ job.undo = "offered" /\ UNCHANGED <<tree, foreign>>
      /\ Held' = IF job.op = "copy" THEN Held \ GivenUp ELSE Held
  BY DEF Undo, AtPC, fsVars, envVars, Held
<1>1. JobFits(job) /\ JobStands(job) /\ FileTree(tree) /\ Fresh(tree, job, Held, foreign) /\ DOMAIN job = JobFields
  BY DEF JobsInv, Inv, JobOK, JobFits
<1>2. job.op \in {"copy", "move", "trash"}
  BY <1>0, <1>1 DEF JobStands
<1>3. DOMAIN tree \subseteq VisiblePaths
  <2>1. Quarantined(job) = {}
    BY <1>0 DEF Quarantined
  <2>2. HiddenPlaces(job) = {}
    BY <1>0, <2>1 DEF HiddenPlaces, LeafPlaces, StagePCs, CopyPCs
  <2> QED BY <2>2 DEF JobsInv, Inv, Tidy
<1>4. Held \subseteq DataIn(tree, Secures)
  <2>1. SafePlaces(job) = Secures
    BY <1>0, <1>2 DEF SafePlaces, Removing, RemovePCs, Deletions
  <2> QED BY <2>1 DEF JobsInv, Inv, Safe
<1>5. /\ SameBut(job, job', {"pc", "undo", "n"}) /\ job'.undo = "running"
      /\ job.op = "copy" => job'.pc = "quarantine" /\ job'.n = 1
      /\ job.op = "move" => job'.pc = "move back" /\ job'.n = Len(Records)
      /\ job.op = "trash" => job'.pc = "untrash" /\ job'.n = Len(Records)
  <2>1. PICK l, n : /\ job' = [job EXCEPT !.undo = "running", !.pc = l, !.n = n]
                    /\ job.op = "copy" => l = "quarantine" /\ n = 1
                    /\ job.op = "move" => l = "move back" /\ n = Len(Records)
                    /\ job.op = "trash" => l = "untrash" /\ n = Len(Records)
    BY DEF Undo
  <2> QED BY <1>1, <2>1 DEF SameBut, JobFields
<1>6. /\ job'.op = job.op /\ job'.sources = job.sources /\ job'.prints = job.prints /\ job'.affected = job.affected
      /\ job'.moves = job.moves /\ job'.merged = job.merged /\ job'.how = job.how
  BY <1>5 DEF SameBut
<1>7. RecordsOf(job') = RecordsOf(job) /\ Records = RecordsOf(job) /\ Len(Records) \in Nat /\ Len(RecordsOf(job)) \in Nat
  BY <1>1, <1>6 DEF RecordsOf, Records, JobFits
<1>71. Len(RecordsOf(job')) = Len(Records)
  BY <1>7
<1>72. job.op = "copy" \/ job'.n = Len(Records)
  BY <1>2, <1>5
<1>73. job'.n \in Nat
  <2>1. CASE job.op = "copy"
    <3>1. job'.n = 1
      BY <1>5, <2>1
    <3> QED BY <3>1
  <2>2. CASE job.op # "copy"
    <3>1. job'.n = Len(Records)
      BY <1>72, <2>2
    <3> QED BY <1>7, <3>1
  <2> QED BY <2>1, <2>2
<1>8. job'.pc \in UndoPCs /\ job'.pc \in PCs /\ (job'.pc \in AsidePCs => job'.pc = "quarantine" /\ job.op = "copy")
  BY <1>2, <1>5 DEF UndoPCs, AsidePCs, BackPCs, PCs
<1>9. JobFits(job')
  BY <1>1, <1>5, <1>73, <1>8 DEF JobFits, SameBut
<1>10. JobStands(job')
  <2>1. ~Removing(job') /\ job'.pc \notin IdlePCs \cup StagePCs \cup RemovePCs
    BY <1>2, <1>5 DEF Removing, RemovePCs, IdlePCs, StagePCs, CopyPCs
  <2>2. job'.op = "copy" /\ job'.how = "merge" => job'.merged
    BY <1>1, <1>6 DEF JobStands
  <2>3. CASE job.op = "copy"
    <3>1. job'.n \in 1..(Len(RecordsOf(job')) + 1)
      BY <1>5, <1>7, <2>3
    <3> QED BY <1>5, <1>6, <2>1, <2>2, <2>3, <3>1 DEF JobStands, IdlePCs, StagePCs, CopyPCs, RemovePCs, AsidePCs, BackPCs
  <2>4. CASE job.op # "copy"
    <3>1. job'.n \in 0..Len(RecordsOf(job'))
      BY <1>7, <1>71, <1>72, <2>4
    <3> QED BY <1>2, <1>5, <1>6, <2>1, <2>2, <2>4, <3>1 DEF JobStands, IdlePCs, StagePCs, CopyPCs, RemovePCs, AsidePCs, BackPCs
  <2> QED BY <2>3, <2>4
<1>11. Fresh(tree, job', Held', foreign)
  BY <1>0, <1>1, <1>6 DEF Fresh
<1>12. Held' \subseteq DataIn(tree, Secures)
  BY <1>0, <1>4
<1>13. job'.pc \in AsidePCs => Held' \cap Leafs(job'.prints) \subseteq DataIn(tree, SourcePlaces(job'))
  <2> SUFFICES ASSUME job.op = "copy"
               PROVE  Held' \cap Leafs(job.prints) \subseteq DataIn(tree, SourcePlaces(job))
    BY <1>6, <1>8 DEF SourcePlaces
  <2>1. CASE ~job.merged
    BY <1>0, <2>1 DEF JobsInv, Inv, Listed
  <2>2. CASE job.merged
    <3>1. GivenUp = Leafs(job.prints) \ UNION {DataAt(job.sources[n]) : n \in DOMAIN job.sources}
      BY <2>2 DEF GivenUp
    <3>2. ASSUME NEW d \in Held' \cap Leafs(job.prints)
          PROVE  d \in DataIn(tree, SourcePlaces(job))
      <4>1. PICK n \in DOMAIN job.sources : d \in DataAt(job.sources[n])
        BY <1>0, <3>1, <3>2
      <4>2. PICK q \in Under(job.sources[n]) : d = tree[q].data
        BY <4>1 DEF DataAt
      <4>3. job.sources[n] \in Roots
        <5>1. job.sources \in Seq(SourcesOf(job.op)) /\ job.op \in Ops
          BY <1>1 DEF JobFits
        <5>2. job.sources[n] \in SourcesOf(job.op)
          BY <5>1
        <5> QED BY <5>1, <5>2, JobPlaces
      <4>4. q \in DOMAIN tree /\ q \in TreeOf(job.sources[n])
        BY <1>1, <4>2, <4>3, UnderRootIs
      <4>5. q \in SourcePlaces(job)
        BY <4>4 DEF SourcePlaces
      <4> QED BY <4>2, <4>4, <4>5 DEF DataIn
    <3> QED BY <3>2
  <2>3. job.merged \in BOOLEAN
    BY <1>1 DEF JobFits
  <2> QED BY <2>1, <2>2, <2>3
<1>14. Compared(tree, job')
  BY <1>2, <1>5 DEF Compared
<1>15. Inv(tree, job', Held', foreign)
  BY <1>1, <1>2, <1>3, <1>5, <1>6, <1>8, <1>9, <1>10, <1>11, <1>12, <1>13, <1>14, UndoneInv DEF JobOK
<1> QED BY <1>0, <1>15 DEF JobsInv

\* A step of the undo, to its next place or its end.
LEMMA UndoGoes ==
  ASSUME JobsInv, job.pc \in UndoPCs, UNCHANGED <<Held, foreign>>,
         SameBut(job, job', {"pc", "undo", "n", "stuck"}), job'.n \in Nat, job'.stuck \subseteq Nat,
         \/ job'.pc \in UndoPCs /\ job'.undo = "running"
         \/ job'.pc = "ended" /\ job'.undo \in {"done", "halfway", "conflict", "recovery"},
         job'.pc \in AsidePCs => job.pc \in AsidePCs, job'.pc \in BackPCs => job'.pc = job.pc,
         job'.pc = "quarantine" => job'.n \in 1..(Len(Records) + 1),
         job'.pc \in {"destroy", "unquarantine"} \cup BackPCs => job'.n \in 0..Len(Records),
         FileTree(tree'), DataIn(tree', Paths) \subseteq DataIn(tree, Paths), Held \subseteq DataIn(tree', Secures),
         DOMAIN tree' \subseteq VisiblePaths \cup AsideTrees(Quarantined(job')),
         job'.pc \in AsidePCs => DataIn(tree, SourcePlaces(job)) \subseteq DataIn(tree', SourcePlaces(job)),
         Compared(tree', job')
  PROVE  JobsInv'
<1>1. /\ JobFits(job) /\ JobStands(job) /\ job.op \in {"copy", "move", "trash"}
      /\ Fresh(tree, job, Held, foreign)
      /\ job.pc \in AsidePCs => Held \cap Leafs(job.prints) \subseteq DataIn(tree, SourcePlaces(job)) /\ job.op = "copy"
      /\ Records = RecordsOf(job)
  BY InUndo
<1>2. /\ job'.op = job.op /\ job'.sources = job.sources /\ job'.prints = job.prints /\ job'.affected = job.affected
      /\ job'.moves = job.moves /\ job'.merged = job.merged /\ job'.how = job.how
  BY DEF SameBut
<1>3. RecordsOf(job') = Records
  BY <1>1, <1>2 DEF RecordsOf
<1>4. job'.pc \in PCs
  BY DEF UndoPCs, PCs
<1>5. JobFits(job')
  BY <1>1, <1>4 DEF JobFits, SameBut
<1>6. JobStands(job')
  <2>1. /\ ~Removing(job') /\ job'.pc \notin IdlePCs \cup StagePCs \cup RemovePCs
        /\ job'.pc \notin {"leaf", "walk", "removing", "conflict", "exchange", "place", "discard", "restore", "info", "trash"}
    BY DEF Removing, RemovePCs, IdlePCs, StagePCs, CopyPCs, UndoPCs, AsidePCs, BackPCs
  <2>2. job'.op = "copy" /\ job'.how = "merge" => job'.merged
    BY <1>1, <1>2 DEF JobStands
  <2>3. /\ job'.pc \in AsidePCs => job'.op = "copy"
        /\ job'.pc = "move back" => job'.op = "move"
        /\ job'.pc = "untrash" => job'.op = "trash"
    BY <1>1, <1>2 DEF JobStands, BackPCs
  <2>4. /\ job'.pc = "quarantine" => job'.n \in 1..(Len(RecordsOf(job')) + 1)
        /\ job'.pc \in {"destroy", "unquarantine"} \cup BackPCs => job'.n \in 0..Len(RecordsOf(job'))
    BY <1>3
  <2>5. job'.pc \in {"transfer", "copy", "restore", "info", "error"} => FALSE
    BY <2>1 DEF IdlePCs
  <2>6. job'.pc \in IdlePCs => FALSE
    BY <2>1
  <2>7. /\ job'.pc \notin AsidePCs \cup BackPCs \cup {"ended"} => job'.undo = "none"
        /\ job'.pc \in AsidePCs \cup BackPCs => job'.undo = "running"
        /\ job'.undo # "offered"
    BY DEF UndoPCs, AsidePCs, BackPCs
  <2> QED BY <2>1, <2>2, <2>3, <2>4, <2>5, <2>6, <2>7 DEF JobStands
<1>7. Fresh(tree', job', Held, foreign)
  BY <1>1, <1>2 DEF Fresh
<1>8. SourcePlaces(job') = SourcePlaces(job)
  BY <1>2 DEF SourcePlaces
<1>9. job'.pc \in AsidePCs => Held \cap Leafs(job'.prints) \subseteq DataIn(tree', SourcePlaces(job'))
  BY <1>1, <1>2, <1>8
<1>10. job'.pc \in UndoPCs \cup {"ended"} /\ job'.op \in {"copy", "move", "trash"} /\ job'.undo # "offered"
  BY <1>1, <1>2
<1>11. Inv(tree', job', Held, foreign)
  BY <1>5, <1>6, <1>7, <1>9, <1>10, UndoneInv DEF JobOK
<1> QED BY <1>11 DEF JobsInv

\* Nothing is in quarantine, but what it names may be there.
LEMMA QuarantineGrows ==
  ASSUME NEW S, NEW S2, S \subseteq S2
  PROVE  AsideTrees(S) \subseteq AsideTrees(S2)
BY DEF AsideTrees

LEMMA UndoStops ==
  ASSUME JobsInv, job.pc \in UndoPCs, UNCHANGED <<tree, Held, foreign>>,
         NEW r \in {"done", "halfway", "conflict", "recovery"}, job' = UndoEnds(r),
         r \in {"halfway", "recovery"} \/ Quarantined(job) = {}
  PROVE  JobsInv'
<1>1. /\ DOMAIN job = JobFields /\ FileTree(tree) /\ Held \subseteq DataIn(tree, Secures)
      /\ DOMAIN tree \subseteq VisiblePaths \cup AsideTrees(Quarantined(job)) /\ Quarantined(job) \subseteq Nat
      /\ job.n \in Nat /\ job.stuck \subseteq Nat
  BY InUndo
<1>2. SameBut(job, job', {"pc", "undo", "n", "stuck"}) /\ job'.pc = "ended" /\ job'.undo = r /\ job'.n = job.n
      /\ job'.stuck = job.stuck
  BY <1>1 DEF UndoEnds, SameBut, JobFields
<1>3. Quarantined(job) \subseteq Quarantined(job')
  BY <1>1, <1>2 DEF Quarantined
<1>4. DOMAIN tree \subseteq VisiblePaths \cup AsideTrees(Quarantined(job'))
  BY <1>1, <1>3, QuarantineGrows
<1>5. Compared(tree, job')
  BY <1>2 DEF Compared
<1>6. job'.pc \notin AsidePCs /\ job'.pc \notin BackPCs /\ job'.pc \notin {"quarantine", "destroy", "unquarantine"}
  BY <1>2 DEF AsidePCs, BackPCs
<1> QED BY <1>1, <1>2, <1>4, <1>5, <1>6, UndoGoes

\* What was moved or trashed goes back.
LEMMA GoesBack ==
  ASSUME JobsInv, job.pc \in BackPCs, UNCHANGED <<Held, foreign>>, job.n \in 1..Len(Records),
         Records[job.n].source \notin DOMAIN tree,
         tree' = Moved(Records[job.n].target, Records[job.n].source), job' = [job EXCEPT !.n = @ - 1]
  PROVE  JobsInv'
<1>0. job.pc \in UndoPCs /\ job.pc \notin AsidePCs /\ job.pc \notin {"quarantine", "verify", "destroy", "unquarantine", "ended"}
  BY DEF UndoPCs, BackPCs, AsidePCs
<1>1. /\ DOMAIN job = JobFields /\ FileTree(tree) /\ Held \subseteq DataIn(tree, Secures)
      /\ DOMAIN tree \subseteq VisiblePaths \cup AsideTrees(Quarantined(job)) /\ JobFits(job) /\ JobStands(job)
      /\ job.op \in {"copy", "move", "trash"} /\ Fresh(tree, job, Held, foreign) /\ job.undo = "running"
      /\ job.stuck \subseteq Nat
  BY <1>0, InUndo
<1>2. job.op \notin Deletions /\ job.op # "copy"
  BY <1>1 DEF Deletions, JobStands, BackPCs
<1>3. Quarantined(job) = {} /\ AsideTrees({}) = {}
  BY <1>0 DEF Quarantined, AsideTrees
<1> DEFINE s == Records[job.n].source
           r == Records[job.n].target
           M == Moved(r, s)
<1>4. s \in Roots /\ r \in Roots /\ s[2] \in VisibleNames /\ s # r /\ s \notin DOMAIN tree
  BY <1>0, RecordPaths
<1>5. tree' = M
  OBVIOUS
<1> HIDE DEF s, r
<1>6. SparedPlaces(job) = Secures
  BY <1>2 DEF SparedPlaces
<1>7. Resting(tree, job, Held, foreign)
  BY <1>1, <1>2, <1>3, <1>6 DEF Resting
<1>8. Resting(M, job, Held, foreign)
  BY <1>2, <1>4, <1>7, RestMoved
<1>9. DataIn(M, Paths) \subseteq DataIn(tree, Paths)
  <2>1. /\ \A P, P2 :
              (\A q \in DOMAIN tree : IF RootOf(q) = r THEN To(q, s) \in P2 => q \in P ELSE q \in P2 => q \in P)
              => DataIn(M, P2) \subseteq DataIn(tree, P)
    BY <1>1, <1>4, MovedData
  <2> HIDE DEF M
  <2>2. \A q \in DOMAIN tree : q \in Paths
    BY <1>1 DEF FileTree
  <2>3. \A q \in DOMAIN tree : IF RootOf(q) = r THEN To(q, s) \in Paths => q \in Paths ELSE q \in Paths => q \in Paths
    BY <2>2
  <2> QED BY <2>1, <2>3
<1> HIDE DEF M
<1>10. FileTree(M) /\ Held \subseteq DataIn(M, Secures) /\ DOMAIN M \subseteq VisiblePaths
  BY <1>6, <1>8 DEF Resting
<1>11. /\ SameBut(job, job', {"pc", "undo", "n", "stuck"}) /\ job'.pc = job.pc /\ job'.undo = "running"
       /\ job'.n = job.n - 1 /\ job'.stuck = job.stuck
  BY <1>1 DEF SameBut, JobFields
<1>12. job'.n \in 0..Len(Records) /\ job'.n \in Nat
  <2>1. Len(Records) \in Nat
    BY <1>0, InUndo
  <2> QED BY <1>11, <2>1
<1>13. Compared(M, job')
  BY <1>0, <1>11 DEF Compared
<1>14. job'.pc \notin AsidePCs /\ job'.pc # "quarantine" /\ job'.pc \in UndoPCs
  BY <1>0, <1>11
<1> QED BY <1>0, <1>1, <1>5, <1>9, <1>10, <1>11, <1>12, <1>13, <1>14, UndoGoes

LEMMA MoveBackStep ==
  ASSUME JobsInv, MoveBack
  PROVE  JobsInv'
<1>0. job.pc = "move back" /\ job.pc \in UndoPCs /\ job.pc \in BackPCs
  BY DEF MoveBack, AtPC, UndoPCs, BackPCs
<1>1. Quarantined(job) = {} /\ job.n \in 0..Len(Records) /\ Len(Records) \in Nat /\ job.n \in Nat
  <2>1. Records = RecordsOf(job) /\ JobStands(job) /\ Records \in Seq(Pairs(job.op)) /\ job.n \in Nat
    BY <1>0, InUndo
  <2>2. Len(Records) \in Nat
    BY <2>1
  <2> QED BY <1>0, <2>1, <2>2 DEF Quarantined, JobStands
<1>2. CASE \E r \in {"done", "halfway"} : UndoStep(UndoEnds(r)) /\ UNCHANGED tree
  BY <1>0, <1>1, <1>2, UndoStops DEF UndoStep, Quiet, envVars, Held
<1>3. CASE /\ job.n # 0 /\ ~path_lexists(Records[job.n].source)
           /\ tree' = Moved(Records[job.n].target, Records[job.n].source)
           /\ UndoStep([job EXCEPT !.n = @ - 1])
  <2>1. job.n \in 1..Len(Records)
    BY <1>1, <1>3
  <2>2. Records[job.n].source \notin DOMAIN tree /\ job' = [job EXCEPT !.n = @ - 1] /\ UNCHANGED <<Held, foreign>>
    BY <1>3 DEF path_lexists, UndoStep, Quiet, envVars, Held
  <2> QED BY <1>0, <1>3, <2>1, <2>2, GoesBack
<1> QED BY <1>2, <1>3, Zenon DEF MoveBack

LEMMA UntrashStep ==
  ASSUME JobsInv, Untrash
  PROVE  JobsInv'
<1>0. job.pc = "untrash" /\ job.pc \in UndoPCs /\ job.pc \in BackPCs
  BY DEF Untrash, AtPC, UndoPCs, BackPCs
<1>1. Quarantined(job) = {} /\ job.n \in 0..Len(Records) /\ Len(Records) \in Nat /\ job.n \in Nat
  <2>1. Records = RecordsOf(job) /\ JobStands(job) /\ Records \in Seq(Pairs(job.op)) /\ job.n \in Nat
    BY <1>0, InUndo
  <2>2. Len(Records) \in Nat
    BY <2>1
  <2> QED BY <1>0, <2>1, <2>2 DEF Quarantined, JobStands
<1>2. CASE \E r \in {"done", "halfway"} : UndoStep(UndoEnds(r)) /\ UNCHANGED fsVars
  BY <1>0, <1>1, <1>2, UndoStops DEF UndoStep, Quiet, envVars, Held, fsVars
<1>3. CASE /\ job.n # 0 /\ ~path_lexists(Records[job.n].source)
           /\ tree' = Moved(Records[job.n].target, Records[job.n].source)
           /\ UndoStep([job EXCEPT !.n = @ - 1])
  <2>1. job.n \in 1..Len(Records)
    BY <1>1, <1>3
  <2>2. Records[job.n].source \notin DOMAIN tree /\ job' = [job EXCEPT !.n = @ - 1] /\ UNCHANGED <<Held, foreign>>
    BY <1>3 DEF path_lexists, UndoStep, Quiet, envVars, Held
  <2> QED BY <1>0, <1>3, <2>1, <2>2, GoesBack
<1> QED BY <1>2, <1>3, Zenon DEF Untrash

LEMMA QuarantineApart ==
  ASSUME JobsInv, job.pc \in AsidePCs, NEW n \in Nat
  PROVE  SourcePlaces(job) \cap TreeOf(Quarantine(n)) = {} /\ Quarantine(n) \in Roots
<1>1. job.op = "copy" /\ JobFits(job)
  BY InUndo DEF UndoPCs
<1>2. Quarantine(n) \in Roots /\ Quarantine(n)[1] = "dst"
  BY HiddenRoots
<1>3. ASSUME NEW q \in SourcePlaces(job), q \in TreeOf(Quarantine(n)) PROVE FALSE
  <2>1. PICK m \in DOMAIN job.sources : q \in TreeOf(job.sources[m])
    BY DEF SourcePlaces
  <2>2. job.sources \in Seq(SourcesOf(job.op))
    BY <1>1 DEF JobFits
  <2>3. job.sources[m] \in SourcesOf(job.op)
    BY <2>1, <2>2
  <2>4. job.sources[m][1] = "src"
    BY <1>1, <2>3 DEF SourcesOf, HomeFolder
  <2>5. RootOf(q) = job.sources[m] /\ RootOf(q) = Quarantine(n)
    BY <1>3, <2>1 DEF TreeOf
  <2> QED BY <1>2, <2>4, <2>5
<1> QED BY <1>2, <1>3

\* A copy goes to quarantine, or comes back.
LEMMA QuarantineMoved ==
  ASSUME JobsInv, job.pc \in AsidePCs, NEW p \in Roots, NEW r \in Roots, p # r, r \notin DOMAIN tree,
         NEW S2, S2 \subseteq Nat,
         \A q \in DOMAIN tree : IF RootOf(q) = p THEN To(q, r) \in VisiblePaths \cup AsideTrees(S2)
                                                 ELSE q \in VisiblePaths \cup AsideTrees(S2),
         SourcePlaces(job) \cap TreeOf(p) = {}, SourcePlaces(job) \cap TreeOf(r) = {}
  PROVE  /\ FileTree(Moved(p, r)) /\ DataIn(Moved(p, r), Paths) \subseteq DataIn(tree, Paths)
         /\ Held \subseteq DataIn(Moved(p, r), Secures)
         /\ DOMAIN Moved(p, r) \subseteq VisiblePaths \cup AsideTrees(S2)
         /\ DataIn(tree, SourcePlaces(job)) = DataIn(Moved(p, r), SourcePlaces(job))
<1> DEFINE M == Moved(p, r)
           P3 == VisiblePaths \cup AsideTrees(S2)
<1>1. FileTree(tree) /\ Held \subseteq DataIn(tree, Secures)
  BY InUndo DEF UndoPCs
<1>2. /\ \A G, G2, k :
              /\ k \subseteq DataIn(tree, G)
              /\ \A q \in DOMAIN tree \cap G : IF RootOf(q) = p THEN To(q, r) \in G2 ELSE q \in G2
              => k \subseteq DataIn(M, G2)
      /\ \A P, P2 :
              (\A q \in DOMAIN tree : IF RootOf(q) = p THEN To(q, r) \in P2 => q \in P ELSE q \in P2 => q \in P)
              => DataIn(M, P2) \subseteq DataIn(tree, P)
      /\ \A P : P \cap (TreeOf(p) \cup TreeOf(r)) = {} => DataIn(M, P) = DataIn(tree, P)
      /\ \A P : (\A q \in DOMAIN tree : IF RootOf(q) = p THEN To(q, r) \in P ELSE q \in P)
                => DOMAIN M \subseteq P
      /\ FileTree(M)
  BY <1>1, MovedData
<1> HIDE DEF M
<1>3. P3 \subseteq Secures
  <2>1. VisiblePaths \subseteq Secures
    BY VisibleFacts, TreesApart
  <2> QED BY <2>1, AsideShown
<1>4. \A q \in DOMAIN tree : q \in Paths
  BY <1>1 DEF FileTree
<1>5. DOMAIN M \subseteq P3
  BY <1>2
<1> HIDE DEF P3
<1>6. Held \subseteq DataIn(M, Secures)
  <2>1. \A q \in DOMAIN tree \cap Secures : IF RootOf(q) = p THEN To(q, r) \in Secures ELSE q \in Secures
    BY <1>3 DEF P3
  <2> QED BY <1>1, <1>2, <2>1
<1>7. DataIn(M, Paths) \subseteq DataIn(tree, Paths)
  <2>1. \A q \in DOMAIN tree : IF RootOf(q) = p THEN To(q, r) \in Paths => q \in Paths ELSE q \in Paths => q \in Paths
    BY <1>4
  <2> QED BY <1>2, <2>1
<1>8. DataIn(M, SourcePlaces(job)) = DataIn(tree, SourcePlaces(job))
  <2>1. SourcePlaces(job) \cap (TreeOf(p) \cup TreeOf(r)) = {}
    OBVIOUS
  <2> QED BY <1>2, <2>1
<1> QED BY <1>2, <1>5, <1>6, <1>7, <1>8 DEF M, P3

LEMMA MoveAsideStep ==
  ASSUME JobsInv, MoveAside
  PROVE  JobsInv'
<1>0. job.pc = "quarantine" /\ job.pc \in UndoPCs /\ job.pc \in AsidePCs
  BY DEF MoveAside, AtPC, UndoPCs, AsidePCs
<1>1. /\ DOMAIN job = JobFields /\ FileTree(tree) /\ Held \subseteq DataIn(tree, Secures)
      /\ DOMAIN tree \subseteq VisiblePaths \cup AsideTrees(Quarantined(job)) /\ job.undo = "running"
      /\ job.n \in Nat /\ job.stuck \subseteq Nat /\ Records = RecordsOf(job) /\ JobStands(job)
      /\ Records \in Seq(Pairs(job.op))
  BY <1>0, InUndo
<1>2. Quarantined(job) = 1..(job.n - 1) /\ job.n \in 1..(Len(Records) + 1) /\ Len(Records) \in Nat
  BY <1>0, <1>1 DEF Quarantined, JobStands
<1>3. CASE job.n > Len(Records) /\ UndoStep(Goto("verify")) /\ UNCHANGED tree
  <2>1. SameBut(job, job', {"pc"}) /\ job'.pc = "verify" /\ UNCHANGED <<tree, Held, foreign>>
    BY <1>1, <1>3, GotoSame DEF UndoStep, Quiet, envVars, Held
  <2>2. /\ SameBut(job, job', {"pc", "undo", "n", "stuck"}) /\ job'.n = job.n /\ job'.stuck = job.stuck
        /\ job'.undo = "running" /\ job'.op = job.op /\ job'.moves = job.moves /\ job'.affected = job.affected
    BY <1>1, <2>1 DEF SameBut
  <2>3. RecordsOf(job') = Records
    BY <1>1, <2>2 DEF RecordsOf
  <2>4. Quarantined(job') = 1..Len(Records)
    BY <2>1, <2>3 DEF Quarantined
  <2>5. Quarantined(job') = Quarantined(job)
    BY <1>2, <1>3, <2>4
  <2>6. Compared(tree, job') /\ job'.pc \in UndoPCs /\ job'.pc \notin BackPCs
    BY <2>1 DEF Compared, UndoPCs, AsidePCs, BackPCs
  <2> QED BY <1>0, <1>1, <2>1, <2>2, <2>5, <2>6, UndoGoes
<1>4. CASE ~(job.n > Len(Records)) /\ path_lexists(Records[job.n].target)
  <2> DEFINE root == Records[job.n].target
             aside == Quarantine(job.n)
             M == Moved(root, aside)
  <2>1. /\ tree' = M /\ job' = [job EXCEPT !.n = @ + 1] /\ UNCHANGED <<Held, foreign>>
    BY <1>4 DEF MoveAside, UndoStep, Quiet, envVars, Held
  <2>2. job.n \in 1..Len(Records)
    BY <1>2, <1>4
  <2>3. root \in Roots /\ root[2] \in VisibleNames /\ SourcePlaces(job) \cap TreeOf(root) = {}
    BY <1>0, <2>2, RecordPaths
  <2>4. aside \in Roots /\ aside[2] \notin VisibleNames /\ SourcePlaces(job) \cap TreeOf(aside) = {}
    BY <1>0, <1>1, HiddenRoots, QuarantineApart
  <2> DEFINE S2 == 1..job.n
  <2>5. Quarantined(job) \subseteq S2 /\ S2 \subseteq Nat /\ job.n \in S2 /\ job.n \notin Quarantined(job)
        /\ Quarantined(job) \subseteq Nat
    BY <1>1, <1>2, <2>2
  <2>6. aside \notin DOMAIN tree
    <3> SUFFICES ASSUME aside \in DOMAIN tree PROVE FALSE
      OBVIOUS
    <3>1. aside \in Paths /\ RootOf(aside) = aside
      BY <2>4, Rooted DEF Paths
    <3>2. aside \notin VisiblePaths
      BY <2>4, <3>1, VisibleFacts
    <3>3. PICK m \in Quarantined(job) : RootOf(aside) = Quarantine(m)
      BY <1>1, <2>5, <3>2, AsideShown
    <3>4. m = job.n
      BY <1>1, <2>5, <3>1, <3>3, HiddenRoots
    <3> QED BY <2>5, <3>4
  <2>61. CleanTree(aside) \subseteq AsideTrees(S2)
    BY <2>5 DEF AsideTrees
  <2> HIDE DEF S2, M, aside, root
  <2>7. ASSUME NEW q \in DOMAIN tree
        PROVE  IF RootOf(q) = root THEN To(q, aside) \in VisiblePaths \cup AsideTrees(S2)
                                   ELSE q \in VisiblePaths \cup AsideTrees(S2)
    <3>1. q \in Paths /\ q \in VisiblePaths \cup AsideTrees(S2)
      BY <1>1, <2>5, QuarantineGrows DEF FileTree
    <3>2. CASE RootOf(q) = root
      <4>1. NothingHiddenIn(q)
        BY <2>5, <3>1, VisibleFacts, AsideShown DEF Secures
      <4>2. To(q, aside) \in CleanTree(aside)
        BY <2>4, <3>1, <4>1, GoesTo
      <4>3. To(q, aside) \in AsideTrees(S2)
        BY <2>61, <4>2
      <4> QED BY <3>2, <4>3
    <3> QED BY <3>1, <3>2
  <2>8. root # aside
    BY <2>3, <2>4
  <2>9. /\ FileTree(M) /\ DataIn(M, Paths) \subseteq DataIn(tree, Paths)
        /\ Held \subseteq DataIn(M, Secures)
        /\ DOMAIN M \subseteq VisiblePaths \cup AsideTrees(S2)
        /\ DataIn(tree, SourcePlaces(job)) = DataIn(M, SourcePlaces(job))
    BY <1>0, <2>3, <2>4, <2>5, <2>6, <2>7, <2>8, QuarantineMoved DEF M
  <2>10. /\ SameBut(job, job', {"pc", "undo", "n", "stuck"}) /\ job'.n = job.n + 1 /\ job'.stuck = job.stuck
         /\ job'.undo = "running" /\ job'.pc = "quarantine"
    BY <1>0, <1>1, <2>1 DEF SameBut, JobFields
  <2>11. Quarantined(job') = S2
    <3>1. Quarantined(job') = 1..(job'.n - 1)
      BY <2>10 DEF Quarantined
    <3>2. job'.n - 1 = job.n
      BY <1>1, <2>10
    <3> QED BY <3>1, <3>2 DEF S2
  <2>12. Compared(M, job') /\ job'.pc \in UndoPCs /\ job'.pc \notin BackPCs
    BY <2>10 DEF Compared, UndoPCs, AsidePCs, BackPCs
  <2>13. job'.n \in Nat /\ job'.n \in 1..(Len(Records) + 1)
    BY <1>2, <2>2, <2>10
  <2>14. job'.pc \in {"destroy", "unquarantine"} \cup BackPCs => FALSE
    BY <2>10, <2>12
  <2> QED BY <1>0, <1>1, <2>1, <2>9, <2>10, <2>11, <2>12, <2>13, <2>14, UndoGoes
<1>5. CASE ~(job.n > Len(Records)) /\ ~path_lexists(Records[job.n].target)
  <2>1. job' = [job EXCEPT !.pc = "unquarantine", !.n = @ - 1] /\ UNCHANGED <<tree, Held, foreign>>
    BY <1>5 DEF MoveAside, UndoStep, Quiet, envVars, Held
  <2>2. /\ SameBut(job, job', {"pc", "undo", "n", "stuck"}) /\ job'.n = job.n - 1 /\ job'.stuck = job.stuck
        /\ job'.undo = "running" /\ job'.pc = "unquarantine"
    BY <1>1, <2>1 DEF SameBut, JobFields
  <2>3. job'.n \in Nat /\ job'.n \in 0..Len(Records)
    BY <1>2, <1>5, <2>2
  <2>4. Quarantined(job) \subseteq Quarantined(job')
    BY <1>2, <2>2 DEF Quarantined
  <2>5. DOMAIN tree \subseteq VisiblePaths \cup AsideTrees(Quarantined(job'))
    BY <1>1, <2>4, QuarantineGrows
  <2>6. Compared(tree, job') /\ job'.pc \in UndoPCs /\ job'.pc \notin BackPCs
    BY <2>2 DEF Compared, UndoPCs, AsidePCs, BackPCs
  <2> QED BY <1>0, <1>1, <2>1, <2>2, <2>3, <2>5, <2>6, UndoGoes
<1> QED BY <1>3, <1>4, <1>5, Zenon DEF MoveAside

\* What is in quarantine, and was compared, is what the fingerprints list.
LEMMA SameTreeData ==
  ASSUME JobsInv, job.pc = "verify", NEW n \in 1..Len(Records), SameTree(n),
         NEW q \in DOMAIN tree, RootOf(q) = Quarantine(n)
  PROVE  tree[q].data \in Leafs(job.prints) \cup {Folder}
<1>0. job.pc \in UndoPCs
  BY DEF UndoPCs, AsidePCs
<1>1. FileTree(tree) /\ n \in Nat /\ q \in Paths
  BY <1>0, InUndo DEF FileTree
<1> DEFINE root == Records[n].target
           x == Rebase(q, Quarantine(n), root)
           before == {p \in DOMAIN job.prints : IsPrefix(root, p)}
<1>2. root \in Roots
  BY <1>0, RecordPaths
<1>3. Quarantine(n) \in Roots
  BY <1>1, HiddenRoots
<1>4. q \in Under(Quarantine(n))
  BY <1>1, <1>3, UnderRootIs DEF TreeOf
<1>5. x \in before /\ \A p \in before : tree[Rebase(p, root, Quarantine(n))] = job.prints[p]
  BY <1>4 DEF SameTree
<1>6. x \in DOMAIN job.prints /\ tree[Rebase(x, root, Quarantine(n))] = job.prints[x]
  BY <1>5
<1> HIDE DEF root, x
<1>7. x = To(q, root) /\ x \in Paths /\ RootOf(x) = root /\ To(x, Quarantine(n)) = q
  BY <1>1, <1>2, <1>3, RebasedRoot DEF x
<1>8. Rebase(x, root, Quarantine(n)) = q
  BY <1>2, <1>3, <1>7, RebasedRoot
<1>9. tree[q] = job.prints[x]
  BY <1>6, <1>8
<1> QED BY <1>6, <1>9 DEF Leafs

LEMMA VerifyStep ==
  ASSUME JobsInv, Verify
  PROVE  JobsInv'
<1>0. job.pc = "verify" /\ job.pc \in UndoPCs /\ job.pc \in AsidePCs /\ UNCHANGED <<tree, Held, foreign>>
  BY DEF Verify, AtPC, UndoPCs, AsidePCs, UndoStep, Quiet, envVars, Held, fsVars
<1>1. /\ DOMAIN job = JobFields /\ FileTree(tree) /\ Held \subseteq DataIn(tree, Secures)
      /\ DOMAIN tree \subseteq VisiblePaths \cup AsideTrees(Quarantined(job)) /\ job.undo = "running"
      /\ job.stuck \subseteq Nat /\ Records = RecordsOf(job) /\ Quarantined(job) \subseteq Nat
      /\ Records \in Seq(Pairs(job.op))
  BY <1>0, InUndo
<1>2. Quarantined(job) = 1..Len(Records) /\ Len(Records) \in Nat
  BY <1>0, <1>1 DEF Quarantined
<1> DEFINE l == IF \A n \in DOMAIN Records : SameTree(n) THEN "destroy" ELSE "unquarantine"
<1>3. /\ job' = [job EXCEPT !.pc = l, !.n = Len(Records)]
      /\ l = "unquarantine" \/ (l = "destroy" /\ \A n \in DOMAIN Records : SameTree(n))
  <2>1. job' = [job EXCEPT !.pc = l, !.n = Len(Records)]
    BY DEF Verify, UndoStep
  <2>2. l = "unquarantine" \/ (l = "destroy" /\ \A n \in DOMAIN Records : SameTree(n))
    OBVIOUS
  <2> QED BY <2>1, <2>2
<1> HIDE DEF l
<1>4. /\ SameBut(job, job', {"pc", "undo", "n", "stuck"}) /\ job'.n = Len(Records) /\ job'.stuck = job.stuck
      /\ job'.undo = "running" /\ job'.pc = l /\ job'.prints = job.prints
  BY <1>1, <1>3 DEF SameBut, JobFields
<1>5. Quarantined(job) \subseteq Quarantined(job')
  BY <1>2, <1>3, <1>4 DEF Quarantined
<1>6. DOMAIN tree \subseteq VisiblePaths \cup AsideTrees(Quarantined(job'))
  BY <1>1, <1>5, QuarantineGrows
<1>7. job'.pc \in UndoPCs /\ job'.pc \notin BackPCs /\ job'.pc # "quarantine"
  BY <1>3, <1>4 DEF UndoPCs, AsidePCs, BackPCs
<1>8. job'.n \in Nat /\ job'.n \in 0..Len(Records)
  BY <1>2, <1>4
<1>9. Compared(tree, job')
  <2> SUFFICES ASSUME l = "destroy", NEW q \in DOMAIN tree \cap AsidePlaces
               PROVE  tree[q].data \in Leafs(job.prints) \cup {Folder}
    BY <1>4 DEF Compared, DataIn
  <2>1. q \in Paths /\ q[2][1] = ".undo"
    BY DEF AsidePlaces
  <2>2. q \notin VisiblePaths
    BY <2>1, VisibleFacts, NameFacts DEF HiddenTags
  <2>3. PICK m \in Quarantined(job) : RootOf(q) = Quarantine(m)
    BY <1>1, <2>2, AsideShown
  <2>4. m \in 1..Len(Records) /\ DOMAIN Records = 1..Len(Records)
    BY <1>1, <1>2, <2>3
  <2>5. SameTree(m)
    BY <1>3, <2>4
  <2> QED BY <1>0, <2>3, <2>4, <2>5, SameTreeData
<1> QED BY <1>0, <1>1, <1>4, <1>6, <1>7, <1>8, <1>9, UndoGoes

\* What is removed, and not given up, is at its source.
LEMMA DestroyOne ==
  ASSUME JobsInv, job.pc = "destroy", job.n # 0, UNCHANGED <<Held, foreign>>,
         tree' = Without(Quarantine(job.n)), job' = [job EXCEPT !.n = @ - 1]
  PROVE  JobsInv'
<1>0. job.pc \in UndoPCs /\ job.pc \in AsidePCs
  BY DEF UndoPCs, AsidePCs
<1>1. /\ DOMAIN job = JobFields /\ FileTree(tree) /\ Held \subseteq DataIn(tree, Secures)
      /\ DOMAIN tree \subseteq VisiblePaths \cup AsideTrees(Quarantined(job)) /\ job.undo = "running"
      /\ job.stuck \subseteq Nat /\ Records = RecordsOf(job) /\ Quarantined(job) \subseteq Nat /\ job.n \in Nat
      /\ JobStands(job) /\ Records \in Seq(Pairs(job.op)) /\ job.op = "copy" /\ JobFits(job)
      /\ Held \cap Leafs(job.prints) \subseteq DataIn(tree, SourcePlaces(job))
      /\ Fresh(tree, job, Held, foreign)
  BY <1>0, InUndo
<1>2. Quarantined(job) = 1..job.n /\ job.n \in 0..Len(Records) /\ Len(Records) \in Nat
  BY <1>1 DEF Quarantined, JobStands
<1> DEFINE aside == Quarantine(job.n)
           T == Without(aside)
<1>3. aside \in Roots /\ aside \in Paths /\ aside[2][1] = ".undo" /\ SourcePlaces(job) \cap TreeOf(aside) = {}
  BY <1>0, <1>1, HiddenRoots, QuarantineApart DEF Paths
<1>4. Under(aside) = DOMAIN tree \cap TreeOf(aside)
  BY <1>1, <1>3, UnderRootIs
<1>5. tree' = T
  OBVIOUS
<1>6. /\ \A P : DataIn(T, P) \subseteq DataIn(tree, P)
      /\ \A P : P \cap Under(aside) = {} => DataIn(T, P) = DataIn(tree, P)
      /\ DOMAIN T = DOMAIN tree \ Under(aside) /\ FileTree(T)
      /\ \A q \in DOMAIN T : T[q] = tree[q]
  BY <1>1, <1>3, WithoutData, WithoutTree
<1>61. \A m \in Nat : Quarantine(m) = aside => m = job.n
  BY <1>1, HiddenRoots
<1> HIDE DEF T, aside
<1>7. DataIn(T, SourcePlaces(job)) = DataIn(tree, SourcePlaces(job))
  <2>1. SourcePlaces(job) \cap Under(aside) = {}
    BY <1>3, <1>4
  <2> QED BY <1>6, <2>1
<1>8. Held \subseteq DataIn(T, Secures)
  <2> SUFFICES ASSUME NEW d \in Held PROVE d \in DataIn(T, Secures)
    OBVIOUS
  <2>1. PICK q \in DOMAIN tree \cap Secures : tree[q].data = d
    BY <1>1 DEF DataIn
  <2>2. CASE q \notin Under(aside)
    BY <1>6, <2>1, <2>2 DEF DataIn
  <2>3. CASE q \in Under(aside)
    <3>1. q \in Paths /\ q \in TreeOf(aside)
      BY <1>4, <2>3 DEF TreeOf
    <3>2. q[2] = aside[2]
      BY <1>3, <3>1, TreesApart
    <3>3. q \in AsidePlaces
      BY <1>3, <3>1, <3>2 DEF AsidePlaces
    <3>4. d \in Leafs(job.prints)
      <4>1. d \in DataIn(tree, AsidePlaces)
        BY <2>1, <3>3 DEF DataIn
      <4>2. d \in Leafs(job.prints) \cup {Folder}
        BY <4>1 DEF JobsInv, Inv, Compared
      <4> QED BY <1>1, <4>2 DEF Fresh
    <3>5. PICK p \in DOMAIN tree \cap SourcePlaces(job) : tree[p].data = d
      BY <1>1, <3>4 DEF DataIn
    <3>6. p \notin Under(aside)
      BY <1>3, <1>4, <3>5
    <3>7. p \in Secures
      <4>1. VisiblePaths \subseteq Secures
        BY VisibleFacts, TreesApart
      <4> QED BY <1>1, <3>5, <4>1, AsideShown
    <3> QED BY <1>6, <3>5, <3>6, <3>7 DEF DataIn
  <2> QED BY <2>2, <2>3
<1>9. /\ SameBut(job, job', {"pc", "undo", "n", "stuck"}) /\ job'.n = job.n - 1 /\ job'.stuck = job.stuck
      /\ job'.undo = "running" /\ job'.pc = "destroy" /\ job'.prints = job.prints
  BY <1>1 DEF SameBut, JobFields
<1>10. job'.n \in Nat /\ job'.n \in 0..Len(Records)
  BY <1>2, <1>9
<1>11. Quarantined(job') = 1..(job.n - 1)
  BY <1>9 DEF Quarantined
<1>12. DOMAIN T \subseteq VisiblePaths \cup AsideTrees(Quarantined(job'))
  <2> SUFFICES ASSUME NEW q \in DOMAIN T, q \notin VisiblePaths
               PROVE  q \in AsideTrees(1..(job.n - 1))
    BY <1>11
  <2>1. q \in DOMAIN tree /\ q \notin TreeOf(aside) /\ q \in AsideTrees(Quarantined(job)) /\ q \in Paths
    BY <1>1, <1>4, <1>6 DEF FileTree
  <2>2. PICK m \in Quarantined(job) : q \in CleanTree(Quarantine(m)) /\ RootOf(q) = Quarantine(m)
    BY <1>1, <2>1, AsideShown
  <2>3. m # job.n
    BY <2>1, <2>2 DEF TreeOf, aside
  <2>4. m \in 1..(job.n - 1)
    BY <1>1, <1>2, <2>2, <2>3
  <2> QED BY <2>2, <2>4 DEF AsideTrees
<1>13. Compared(T, job')
  BY <1>6, <1>9 DEF Compared, JobsInv, Inv
<1>14. job'.pc \in UndoPCs /\ job'.pc \notin BackPCs /\ job'.pc # "quarantine"
  BY <1>9 DEF UndoPCs, AsidePCs, BackPCs
<1> QED BY <1>0, <1>1, <1>5, <1>6, <1>7, <1>8, <1>9, <1>10, <1>12, <1>13, <1>14, UndoGoes

LEMMA DestroyStep ==
  ASSUME JobsInv, Destroy
  PROVE  JobsInv'
<1>0. job.pc = "destroy" /\ job.pc \in UndoPCs /\ UNCHANGED <<Held, foreign>>
  BY DEF Destroy, AtPC, UndoPCs, AsidePCs, UndoStep, Quiet, envVars, Held
<1>1. CASE job.n = 0
  <2>1. job' = UndoEnds("done") /\ UNCHANGED tree
    BY <1>1 DEF Destroy, UndoStep
  <2>2. Quarantined(job) = {}
    BY <1>0, <1>1 DEF Quarantined
  <2> QED BY <1>0, <2>1, <2>2, UndoStops
<1>2. CASE job.n # 0
  <2>1. tree' = Without(Quarantine(job.n)) /\ job' = [job EXCEPT !.n = @ - 1]
    BY <1>2 DEF Destroy, UndoStep
  <2> QED BY <1>0, <1>2, <2>1, DestroyOne
<1> QED BY <1>1, <1>2

LEMMA DestroyFailsStep ==
  ASSUME JobsInv, DestroyFails
  PROVE  JobsInv'
<1>0. job.pc = "destroy" /\ job.pc \in UndoPCs /\ UNCHANGED <<tree, Held, foreign>> /\ job' = UndoEnds("halfway")
  BY DEF DestroyFails, AtPC, UndoPCs, AsidePCs, fsVars, Held
<1> QED BY <1>0, UndoStops

LEMMA AsideFailsStep ==
  ASSUME JobsInv, AsideFails
  PROVE  JobsInv'
<1>0. job.pc = "quarantine" /\ job.pc \in UndoPCs /\ UNCHANGED <<tree, Held, foreign>> /\ job' = UndoEnds("halfway")
  BY DEF AsideFails, AtPC, UndoPCs, AsidePCs, fsVars, Held
<1> QED BY <1>0, UndoStops

LEMMA PutBackStep ==
  ASSUME JobsInv, PutBack
  PROVE  JobsInv'
<1>0. job.pc = "unquarantine" /\ job.pc \in UndoPCs /\ job.pc \in AsidePCs /\ UNCHANGED <<Held, foreign>>
  BY DEF PutBack, AtPC, UndoPCs, AsidePCs, UndoStep, Quiet, envVars, Held
<1>1. /\ DOMAIN job = JobFields /\ FileTree(tree) /\ Held \subseteq DataIn(tree, Secures)
      /\ DOMAIN tree \subseteq VisiblePaths \cup AsideTrees(Quarantined(job)) /\ job.undo = "running"
      /\ job.stuck \subseteq Nat /\ Records = RecordsOf(job) /\ Quarantined(job) \subseteq Nat /\ job.n \in Nat
      /\ JobStands(job) /\ Records \in Seq(Pairs(job.op))
  BY <1>0, InUndo
<1>2. Quarantined(job) = (1..job.n) \cup job.stuck /\ job.n \in 0..Len(Records) /\ Len(Records) \in Nat
  BY <1>0, <1>1 DEF Quarantined, JobStands
<1>3. CASE job.n = 0
  <2>1. PICK r : job' = UndoEnds(r) /\ ((r = "conflict" /\ job.stuck = {}) \/ r = "recovery")
    BY <1>3 DEF PutBack, UndoStep
  <2>2. UNCHANGED tree
    BY <1>3 DEF PutBack
  <2>3. job.stuck = {} => Quarantined(job) = {}
    BY <1>2, <1>3
  <2> QED BY <1>0, <2>1, <2>2, <2>3, UndoStops
<1>4. CASE job.n # 0
  <2> DEFINE root == Records[job.n].target
             aside == Quarantine(job.n)
             M == Moved(aside, root)
  <2>1. PICK x : /\ job' = [job EXCEPT !.n = @ - 1, !.stuck = x]
                 /\ path_lexists(root) => x = job.stuck \cup {job.n}
                 /\ ~path_lexists(root) => x = job.stuck
    BY <1>4 DEF PutBack, UndoStep
  <2>2. /\ SameBut(job, job', {"pc", "undo", "n", "stuck"}) /\ job'.n = job.n - 1 /\ job'.stuck = x
        /\ job'.undo = "running" /\ job'.pc = "unquarantine"
    BY <1>0, <1>1, <2>1 DEF SameBut, JobFields
  <2>3. job'.n \in Nat /\ job'.n \in 0..Len(Records) /\ x \subseteq Nat /\ job.n \in 1..Len(Records)
    BY <1>1, <1>2, <1>4, <2>1, <2>2
  <2>4. Quarantined(job') = (1..(job.n - 1)) \cup x
    BY <2>2 DEF Quarantined
  <2>5. job'.pc \in UndoPCs /\ job'.pc \notin BackPCs /\ job'.pc # "quarantine" /\ job'.pc # "destroy"
    BY <2>2 DEF UndoPCs, AsidePCs, BackPCs
  <2>6. CASE path_lexists(root)
    <3>1. UNCHANGED tree
      BY <1>4, <2>6 DEF PutBack
    <3>2. Quarantined(job) \subseteq Quarantined(job')
      BY <1>1, <1>2, <2>1, <2>4, <2>6
    <3>3. DOMAIN tree \subseteq VisiblePaths \cup AsideTrees(Quarantined(job'))
      BY <1>1, <3>2, QuarantineGrows
    <3>4. Compared(tree, job')
      BY <2>5 DEF Compared
    <3> QED BY <1>0, <1>1, <2>2, <2>3, <2>5, <3>1, <3>3, <3>4, UndoGoes
  <2>7. CASE ~path_lexists(root)
    <3>1. tree' = M /\ root \notin DOMAIN tree /\ x = job.stuck
      BY <1>4, <2>1, <2>7 DEF PutBack, path_lexists
    <3>2. root \in Roots /\ root[2] \in VisibleNames /\ SourcePlaces(job) \cap TreeOf(root) = {}
      BY <1>0, <2>3, RecordPaths
    <3>3. aside \in Roots /\ aside[2] \notin VisibleNames /\ SourcePlaces(job) \cap TreeOf(aside) = {}
      BY <1>0, <1>1, HiddenRoots, QuarantineApart
    <3> DEFINE S2 == (1..(job.n - 1)) \cup x
    <3>4. S2 \subseteq Nat /\ \A m \in Quarantined(job) : m \in S2 \/ m = job.n
      BY <1>1, <1>2, <2>3, <3>1
    <3>5. \A m \in Quarantined(job) : Quarantine(m) # aside => m \in S2
      BY <3>4
    <3> HIDE DEF S2, M, aside, root
    <3>6. ASSUME NEW q \in DOMAIN tree
          PROVE  IF RootOf(q) = aside THEN To(q, root) \in VisiblePaths \cup AsideTrees(S2)
                                      ELSE q \in VisiblePaths \cup AsideTrees(S2)
      <4>1. q \in Paths /\ q \in VisiblePaths \cup AsideTrees(Quarantined(job))
        BY <1>1 DEF FileTree
      <4>2. CASE RootOf(q) = aside
        <5>1. NothingHiddenIn(q)
          BY <1>1, <4>1, VisibleFacts, AsideShown DEF Secures
        <5>2. To(q, root) \in CleanTree(root) /\ To(q, root) \in Paths
          BY <3>2, <4>1, <5>1, GoesTo
        <5>3. To(q, root) \in VisiblePaths
          BY <3>2, <5>2, TreesApart
        <5> QED BY <4>2, <5>3
      <4>3. CASE RootOf(q) # aside
        <5>1. CASE q \in VisiblePaths
          BY <4>3, <5>1
        <5>2. CASE q \notin VisiblePaths
          <6>1. PICK m \in Quarantined(job) : q \in CleanTree(Quarantine(m)) /\ RootOf(q) = Quarantine(m)
            BY <1>1, <4>1, <5>2, AsideShown
          <6>2. m \in S2
            BY <3>5, <4>3, <6>1
          <6>3. q \in AsideTrees(S2)
            BY <6>1, <6>2 DEF AsideTrees
          <6> QED BY <4>3, <6>3
        <5> QED BY <5>1, <5>2
      <4> QED BY <4>2, <4>3
    <3>7. root # aside
      BY <3>2, <3>3
    <3>8. /\ FileTree(M) /\ DataIn(M, Paths) \subseteq DataIn(tree, Paths)
          /\ Held \subseteq DataIn(M, Secures)
          /\ DOMAIN M \subseteq VisiblePaths \cup AsideTrees(S2)
          /\ DataIn(tree, SourcePlaces(job)) = DataIn(M, SourcePlaces(job))
      BY <1>0, <3>1, <3>2, <3>3, <3>4, <3>6, <3>7, QuarantineMoved DEF M
    <3>9. Compared(M, job') /\ Quarantined(job') = S2
      BY <2>4, <2>5 DEF Compared, S2
    <3> QED BY <1>0, <2>2, <2>3, <2>5, <3>1, <3>8, <3>9, UndoGoes
  <2> QED BY <2>6, <2>7
<1> QED BY <1>3, <1>4

-----------------------------------------------------------------------------
(* The user, and another process.                                          *)
LEMMA SameInv ==
  ASSUME JobsInv, UNCHANGED <<tree, job, Held, foreign>>
  PROVE  JobsInv'
BY DEF JobsInv

\* The data that is still to come.
LEMMA NextData ==
  ASSUME foreign \in Nat, foreign < Len(OtherData)
  PROVE  /\ OtherData[foreign + 1] \in ToCome(foreign)
         /\ OtherData[foreign + 1] \notin ToCome(foreign + 1)
         /\ ToCome(foreign + 1) \subseteq ToCome(foreign)
         /\ OtherData[foreign + 1] # Folder
<1>1. /\ Len(OtherData) \in Nat /\ DOMAIN OtherData = 1..Len(OtherData)
      /\ IsInjective(OtherData) /\ Folder \notin ToSet(OtherData)
  BY JobsAssumption
<1>2. foreign + 1 \in DOMAIN OtherData
  BY <1>1
<1>3. OtherData[foreign + 1] \in ToCome(foreign) /\ ToCome(foreign + 1) \subseteq ToCome(foreign)
  BY <1>1 DEF ToCome
<1>4. OtherData[foreign + 1] \notin ToCome(foreign + 1)
  <2> SUFFICES ASSUME NEW m \in (foreign + 1 + 1)..Len(OtherData), OtherData[m] = OtherData[foreign + 1]
               PROVE  FALSE
    BY DEF ToCome
  <2>1. m \in DOMAIN OtherData /\ m # foreign + 1
    BY <1>1
  <2> QED BY <1>1, <1>2, <2>1 DEF IsInjective
<1>5. OtherData[foreign + 1] # Folder
  BY <1>1, <1>2 DEF ToSet
<1> QED BY <1>3, <1>4, <1>5

LEMMA ForeignRemoveStep ==
  ASSUME JobsInv, NEW p \in ForeignPlaces, ForeignRemove(p)
  PROVE  JobsInv'
<1> DEFINE T == Without(p)
           K == Held \ DataAt(p)
<1>1. /\ tree' = T /\ Held' = K /\ foreign' = foreign + 1 /\ job' = job /\ foreign < Len(OtherData)
  BY DEF ForeignRemove, Held
<1>2. p \in VisiblePaths /\ p \in Paths
  BY JobsAssumption, VisibleFacts
<1>3. /\ FileTree(tree) /\ JobOK(job) /\ Fresh(tree, job, Held, foreign) /\ foreign \in Nat /\ Folder \notin Held
      /\ Safe(tree, job, Held) /\ Carried(tree, job, Held) /\ Tidy(tree, job)
      /\ Doubled(tree, job, Held) /\ Listed(tree, job, Held) /\ Compared(tree, job)
  BY DEF JobsInv, Inv, Fresh
<1>4. /\ \A P : DataIn(T, P) \subseteq DataIn(tree, P)
      /\ \A P, k : k \subseteq DataIn(tree, P) /\ Folder \notin k /\ k \cap DataAt(p) = {} => k \subseteq DataIn(T, P)
      /\ DOMAIN T = DOMAIN tree \ Under(p) /\ FileTree(T)
  BY <1>2, <1>3, WithoutData
<1>5. K \subseteq Held /\ Folder \notin K /\ K \cap DataAt(p) = {}
  BY <1>3
<1> HIDE DEF T, K
<1>6. Fresh(T, job, K, foreign + 1)
  <2>1. ToCome(foreign + 1) \subseteq ToCome(foreign)
    BY <1>1, <1>3, NextData
  <2>2. DataIn(T, Paths) \subseteq DataIn(tree, Paths)
    BY <1>4
  <2> QED BY <1>3, <1>5, <2>1, <2>2 DEF Fresh
<1>7. Safe(T, job, K)
  BY <1>3, <1>4, <1>5 DEF Safe
<1>8. Carried(T, job, K)
  BY <1>3, <1>4, <1>5 DEF Carried
<1>9. Tidy(T, job)
  BY <1>3, <1>4 DEF Tidy
<1>10. ASSUME NEW P, NEW S, Held \cap S \subseteq DataIn(tree, P)
       PROVE  K \cap S \subseteq DataIn(T, P)
  <2>1. K \cap S \subseteq DataIn(tree, P) /\ Folder \notin K \cap S /\ (K \cap S) \cap DataAt(p) = {}
    BY <1>5, <1>10
  <2> QED BY <1>4, <2>1
<1>11. Doubled(T, job, K)
  <2> SUFFICES ASSUME job.op = "copy" /\ ~job.merged /\ job.pc \notin AsidePCs \cup {"ended"}
               PROVE  K \cap DataIn(T, CopyPlaces(job)) \subseteq DataIn(T, SourcePlaces(job))
    BY DEF Doubled
  <2>1. Held \cap DataIn(tree, CopyPlaces(job)) \subseteq DataIn(tree, SourcePlaces(job))
    BY <1>3 DEF Doubled
  <2>2. K \cap DataIn(tree, CopyPlaces(job)) \subseteq DataIn(T, SourcePlaces(job))
    BY <1>10, <2>1
  <2> QED BY <1>4, <2>2
<1>12. Listed(T, job, K)
  BY <1>3, <1>10 DEF Listed
<1>13. Compared(T, job)
  BY <1>3, <1>4 DEF Compared
<1>14. Inv(T, job, K, foreign + 1)
  BY <1>3, <1>4, <1>6, <1>7, <1>8, <1>9, <1>11, <1>12, <1>13 DEF Inv
<1> QED BY <1>1, <1>14 DEF JobsInv

\* Where data that is promised comes to be.
LEMMA PromisedPlaces ==
  ASSUME JobsInv, NEW p \in VisiblePaths, Promised(p)
  PROVE  /\ p \in SafePlaces(job)
         /\ job.op \in Transfers /\ job.pc \in CopyPCs => p \in CarriedPlaces(job)
         /\ job.op = "copy" /\ job.pc # "ended" => p \notin CopyPlaces(job)
<1>1. p \in Paths /\ p[2] \in VisibleNames /\ NothingHiddenIn(p) /\ p \in Secures
  BY VisibleFacts, TreesApart
<1>2. JobFits(job) /\ JobStands(job) /\ job.op \in Ops /\ job.sources \in Seq(SourcesOf(job.op))
      /\ job.affected \in Seq(Pairs(job.op)) /\ job.i \in Nat \ {0}
  BY DEF JobsInv, Inv, JobOK, JobFits
<1>3. SourcesOf(job.op) \subseteq Roots /\ TargetsOf(job.op) \subseteq Roots
  BY <1>2, JobPlaces
<1>4. ASSUME NEW n \in DOMAIN job.sources PROVE p \notin TreeOf(job.sources[n])
  <2>1. job.sources[n] \in Roots /\ job.sources[n] \in ToSet(job.sources)
    BY <1>2, <1>3 DEF ToSet
  <2>2. ~IsPrefix(job.sources[n], p)
    BY <2>1 DEF Promised
  <2> QED BY <1>1, <2>1, <2>2, UnderRoot DEF TreeOf
<1>5. p \notin SourcePlaces(job)
  BY <1>4 DEF SourcePlaces
<1>6. job.i <= Len(job.sources) => p \notin TreeOf(SourceOf(job))
  <2>1. job.i <= Len(job.sources) => job.i \in DOMAIN job.sources
    BY <1>2
  <2> QED BY <1>4, <2>1 DEF SourceOf
<1>7. p \in SafePlaces(job)
  <2>1. Removing(job) => job.i <= Len(job.sources)
    BY <1>2 DEF Removing, JobStands, IdlePCs
  <2> QED BY <1>1, <1>5, <1>6, <2>1 DEF SafePlaces
<1>8. job.op \in Transfers /\ job.pc \in CopyPCs => p \in CarriedPlaces(job)
  <2>1. job.pc \in CopyPCs => job.i <= Len(job.sources)
    BY <1>2 DEF JobStands, StagePCs
  <2> QED BY <1>1, <1>6, <2>1 DEF CarriedPlaces
<1>9. ASSUME job.op = "copy", job.pc # "ended" PROVE p \notin CopyPlaces(job)
  <2>1. p \notin MadePlaces(job)
    <3> SUFFICES ASSUME NEW n \in DOMAIN job.affected, p \in TreeOf(job.affected[n].target) PROVE FALSE
      BY DEF MadePlaces
    <3>1. job.affected[n].target \in Roots
      <4>1. job.affected[n] \in Pairs(job.op)
        BY <1>2
      <4> QED BY <1>3, <4>1 DEF Pairs
    <3>2. ~IsPrefix(job.affected[n].target, p)
      BY <1>9 DEF Promised, AtPC
    <3> QED BY <1>1, <3>1, <3>2, UnderRoot DEF TreeOf
  <2>2. p \notin StagingPlaces(job)
    <3> SUFFICES ASSUME p \in TreeOf(StagingOf(job)) PROVE FALSE
      BY DEF StagingPlaces, CleanTree
    <3>1. StagingOf(job) \in Roots /\ StagingOf(job)[2] \notin VisibleNames
      BY HiddenRoots
    <3> QED BY <1>1, <3>1, TreesApart
  <2>3. p \notin LeafPlaces(job)
    <3> SUFFICES ASSUME job.pc = "leaf", p = LeafOf(job) PROVE FALSE
      BY DEF LeafPlaces
    <3>1. \/ p \in Roots /\ p[2] = Hidden(".leaf", 0)
          \/ p \in Children /\ p[3] = Hidden(".leaf", 0)
      <4>1. /\ Leaf = LeafOf(job)
            /\ \/ Leaf \in Roots /\ Leaf = <<Work[1], Hidden(".leaf", 0)>>
               \/ Leaf \in Children /\ Leaf[3] = Hidden(".leaf", 0)
        BY LeafPaths DEF JobsInv, Inv
      <4> QED BY <4>1
    <3>2. Hidden(".leaf", 0) \notin VisibleNames
      BY NameFacts DEF HiddenTags
    <3> QED BY <1>1, <3>1, <3>2 DEF NothingHiddenIn
  <2>4. job.pc = "discard" => p \notin TreeOf(job.target)
    <3> SUFFICES ASSUME job.pc = "discard", p \in TreeOf(job.target) PROVE FALSE
      OBVIOUS
    <3>1. job.target \in Roots
      BY <1>2, <1>3 DEF JobStands, StagePCs
    <3>2. ~IsPrefix(job.target, p)
      BY <1>9 DEF Promised, AtPC
    <3> QED BY <1>1, <3>1, <3>2, UnderRoot DEF TreeOf
  <2> QED BY <2>1, <2>2, <2>3, <2>4 DEF CopyPlaces
<1> QED BY <1>7, <1>8, <1>9

LEMMA ForeignCreateStep ==
  ASSUME JobsInv, NEW p \in ForeignPlaces, ForeignCreate(p)
  PROVE  JobsInv'
<1> DEFINE d == OtherData[foreign + 1]
           node == NewNode(d)
           T == With(p, node)
           K == IF Promised(p) THEN Held \cup {d} ELSE Held
<1>1. /\ tree' = T /\ Held' \subseteq K /\ foreign' = foreign + 1 /\ job' = job /\ foreign < Len(OtherData)
      /\ p \notin DOMAIN tree
  BY DEF ForeignCreate, path_lexists, Held
<1>2. p \in VisiblePaths /\ p \in Paths /\ p \in Secures /\ p[2] \in VisibleNames
  BY JobsAssumption, VisibleFacts, TreesApart
<1>3. /\ FileTree(tree) /\ JobOK(job) /\ Fresh(tree, job, Held, foreign) /\ foreign \in Nat /\ Folder \notin Held
      /\ Safe(tree, job, Held) /\ Carried(tree, job, Held) /\ Tidy(tree, job)
      /\ Doubled(tree, job, Held) /\ Listed(tree, job, Held) /\ Compared(tree, job)
  BY DEF JobsInv, Inv, Fresh
<1>4. node.data = d
  BY DEF NewNode
<1>5. p \in Children => RootOf(p) \in DOMAIN tree /\ tree[RootOf(p)].data = Folder
  <2> SUFFICES ASSUME p \in Children PROVE RootOf(p) \in DOMAIN tree /\ tree[RootOf(p)].data = Folder
    OBVIOUS
  <2>1. p = <<p[1], p[2], p[3]>> /\ Len(p) = 3 /\ p[1] \in Folders /\ p[2] \in AllNames /\ p[3] \in AllNames
    BY PathShapes
  <2>2. RootOf(p) \in Roots /\ RootOf(p)[1] = p[1] /\ RootOf(p)[2] = p[2]
    BY <2>1, PathShapes DEF RootOf
  <2>3. Front(<<RootOf(p)[1], RootOf(p)[2], p[3]>>) = RootOf(p)
    BY <2>1, <2>2, FrontOfPath
  <2>4. Front(p) = RootOf(p)
    BY <2>1, <2>2, <2>3
  <2>5. HasParent(p)
    BY DEF ForeignCreate
  <2> QED BY <2>1, <2>4, <2>5 DEF HasParent, is_dir, path_lexists
<1>6. /\ d \in ToCome(foreign) /\ d \notin ToCome(foreign + 1) /\ ToCome(foreign + 1) \subseteq ToCome(foreign)
      /\ d # Folder
  BY <1>1, <1>3, NextData
<1>7. /\ \A P : DataIn(tree, P) \subseteq DataIn(T, P)
      /\ \A P : DataIn(T, P) \subseteq DataIn(tree, P) \cup {d}
      /\ \A P : p \notin P => DataIn(T, P) = DataIn(tree, P)
      /\ \A P : p \in P => d \in DataIn(T, P)
      /\ DOMAIN T = DOMAIN tree \cup {p} /\ FileTree(T)
  <2> HIDE DEF node, d
  <2>1. /\ \A P : DataIn(tree, P) \subseteq DataIn(T, P)
        /\ \A P : DataIn(T, P) \subseteq DataIn(tree, P) \cup {node.data}
        /\ \A P : p \notin P => DataIn(T, P) = DataIn(tree, P)
        /\ \A P : p \in P => node.data \in DataIn(T, P)
        /\ DOMAIN T = DOMAIN tree \cup {p} /\ FileTree(T)
    BY <1>1, <1>2, <1>3, <1>5, WithData
  <2> QED BY <1>4, <2>1
<1>8. K \subseteq Held \cup {d} /\ (d \in K => Promised(p) \/ d \in Held) /\ Folder \notin K
  BY <1>3, <1>6
<1>9. /\ Promised(p) => p \in SafePlaces(job)
      /\ Promised(p) /\ job.op \in Transfers /\ job.pc \in CopyPCs => p \in CarriedPlaces(job)
      /\ Promised(p) /\ job.op = "copy" /\ job.pc # "ended" => p \notin CopyPlaces(job)
  BY <1>2, PromisedPlaces
<1> HIDE DEF d, node, T, K
<1>10. d \notin Held /\ d \notin DataIn(tree, Paths) /\ d \notin Leafs(job.prints)
  BY <1>3, <1>6 DEF Fresh
<1>11. Fresh(T, job, K, foreign + 1)
  <2>1. DataIn(T, Paths) \subseteq DataIn(tree, Paths) \cup {d}
    BY <1>7
  <2> QED BY <1>3, <1>6, <1>8, <2>1 DEF Fresh
<1>12. Safe(T, job, K)
  <2>1. Held \subseteq DataIn(T, SafePlaces(job))
    BY <1>3, <1>7 DEF Safe
  <2>2. d \in K => d \in DataIn(T, SafePlaces(job))
    BY <1>7, <1>8, <1>9, <1>10
  <2> QED BY <1>8, <2>1, <2>2 DEF Safe
<1>13. Carried(T, job, K)
  <2> SUFFICES ASSUME job.op \in Transfers, job.pc \in CopyPCs PROVE K \subseteq DataIn(T, CarriedPlaces(job))
    BY DEF Carried
  <2>1. Held \subseteq DataIn(T, CarriedPlaces(job))
    BY <1>3, <1>7 DEF Carried
  <2>2. d \in K => d \in DataIn(T, CarriedPlaces(job))
    BY <1>7, <1>8, <1>9, <1>10
  <2> QED BY <1>8, <2>1, <2>2
<1>14. Tidy(T, job)
  BY <1>2, <1>3, <1>7 DEF Tidy
<1>15. Doubled(T, job, K)
  <2> SUFFICES ASSUME job.op = "copy", ~job.merged, job.pc \notin AsidePCs \cup {"ended"},
                      NEW e \in K \cap DataIn(T, CopyPlaces(job))
               PROVE  e \in DataIn(T, SourcePlaces(job))
    BY DEF Doubled
  <2>1. Held \cap DataIn(tree, CopyPlaces(job)) \subseteq DataIn(tree, SourcePlaces(job))
    BY <1>3 DEF Doubled
  <2>2. DataIn(tree, CopyPlaces(job)) \subseteq DataIn(tree, Paths)
    BY <1>3 DEF DataIn, FileTree
  <2>3. e # d
    <3>1. Promised(p) => DataIn(T, CopyPlaces(job)) = DataIn(tree, CopyPlaces(job))
      BY <1>7, <1>9
    <3> QED BY <1>8, <1>10, <2>2, <3>1
  <2>4. e \in Held /\ e \in DataIn(tree, CopyPlaces(job))
    BY <1>7, <1>8, <2>3
  <2>5. e \in DataIn(tree, SourcePlaces(job))
    BY <2>1, <2>4
  <2> QED BY <1>7, <2>5
<1>16. Listed(T, job, K)
  <2>1. K \cap Leafs(job.prints) = Held \cap Leafs(job.prints) \/ K \cap Leafs(job.prints) \subseteq Held \cap Leafs(job.prints)
    BY <1>8, <1>10
  <2>2. DataIn(tree, SourcePlaces(job)) \subseteq DataIn(T, SourcePlaces(job))
    BY <1>7
  <2> QED BY <1>3, <2>1, <2>2 DEF Listed
<1>17. Compared(T, job)
  <2>1. p \notin AsidePlaces
    BY <1>2, NameFacts DEF AsidePlaces, HiddenTags
  <2>2. DataIn(T, AsidePlaces) = DataIn(tree, AsidePlaces)
    BY <1>7, <2>1
  <2> QED BY <1>3, <2>2 DEF Compared
<1>18. Inv(T, job, K, foreign + 1)
  BY <1>3, <1>7, <1>11, <1>12, <1>13, <1>14, <1>15, <1>16, <1>17 DEF Inv
<1>19. Inv(T, job, Held', foreign + 1)
  BY <1>1, <1>18, InvOfLess
<1> QED BY <1>1, <1>19 DEF JobsInv

-----------------------------------------------------------------------------
(* The first state.                                                        *)
LEMMA FirstState == JobsInit => JobsInv
<1> SUFFICES ASSUME JobsInit PROVE JobsInv
  OBVIOUS
<1>1. PICK j \in Jobs :
         /\ tree = j.tree /\ job = NewJob(j) /\ foreign = 0
         /\ Held = Leafs(j.tree) \
                     IF j.op \in {"delete", "purge"}
                     THEN UNION {DataAt(j.sources[n]) : n \in DOMAIN j.sources} ELSE {}
  <2>1. PICK j \in Jobs :
           /\ tree = j.tree /\ job = NewJob(j) /\ foreign = 0 /\ over = {}
           /\ kept = Leafs(j.tree) \
                       IF j.op \in {"delete", "purge"}
                       THEN UNION {DataAt(j.sources[n]) : n \in DOMAIN j.sources} ELSE {}
    BY Zenon DEF JobsInit
  <2>2. Held = kept
    BY <2>1 DEF Held
  <2> QED BY <2>1, <2>2
<1>2. /\ j.op \in Ops /\ j.conflict \in Decisions \cup {"Ask"}
      /\ j.sources \in Seq({IF j.op \in {"restore", "purge"} THEN "trash" ELSE "src"} \X VisibleNames)
      /\ DOMAIN tree \subseteq VisiblePaths
      /\ \A p \in DOMAIN tree : Len(p) = 3 => Front(p) \in DOMAIN tree /\ tree[Front(p)].data = Folder
      /\ \A p \in DOMAIN tree : tree[p].data \notin ToSet(OtherData)
      /\ Len(OtherData) \in Nat /\ DOMAIN OtherData = 1..Len(OtherData)
  BY <1>1, JobsAssumption
<1>3. /\ DOMAIN job = JobFields
      /\ job.op = j.op /\ job.sources = j.sources /\ job.all = j.conflict /\ job.pc = "prepare" /\ job.i = 1
      /\ job.how = "plain" /\ job.merged = FALSE /\ job.affected = << >> /\ job.moves = << >>
      /\ job.prints = << >> /\ job.undo = "none" /\ job.n = 0 /\ job.stuck = {}
  BY <1>1 DEF NewJob, JobFields
<1>4. JobStands(job) /\ ~Removing(job) /\ job.pc \in RestPCs /\ job.pc \in PCs
  BY <1>3, StandsIdle
<1>5. job.sources \in Seq(SourcesOf(job.op))
  BY <1>2, <1>3 DEF SourcesOf, HomeFolder
<1>6. JobFits(job)
  <2>1. << >> \in Seq(Pairs(job.op))
    OBVIOUS
  <2>2. /\ job.op \in Ops /\ job.all \in Decisions \cup {"Ask"} /\ job.how \in {"plain", "replace", "merge"}
        /\ job.merged \in BOOLEAN /\ job.i \in Nat \ {0} /\ job.n \in Nat /\ job.stuck \subseteq Nat
        /\ job.undo \in {"none", "offered", "running", "done", "halfway", "conflict", "recovery"}
    <3>1. job.op \in Ops /\ job.all \in Decisions \cup {"Ask"}
      BY <1>2, <1>3
    <3>2. job.i \in Nat \ {0} /\ job.n \in Nat /\ job.stuck \subseteq Nat
      BY <1>3
    <3>3. job.how \in {"plain", "replace", "merge"} /\ job.merged \in BOOLEAN
      BY <1>3
    <3>4. job.undo \in {"none", "offered", "running", "done", "halfway", "conflict", "recovery"}
      BY <1>3
    <3> QED BY <3>1, <3>2, <3>3, <3>4
  <2>3. job.affected \in Seq(Pairs(job.op)) /\ job.moves \in Seq(Pairs(job.op))
    BY <1>3, <2>1
  <2> QED BY <1>3, <1>4, <1>5, <2>2, <2>3 DEF JobFits
<1>7. FileTree(tree)
  <2>1. DOMAIN tree \subseteq Paths
    BY <1>2, VisibleFacts
  <2>2. ASSUME NEW q \in DOMAIN tree, q \in Children
        PROVE  RootOf(q) \in DOMAIN tree /\ tree[RootOf(q)].data = Folder
    <3>1. q = <<q[1], q[2], q[3]>> /\ Len(q) = 3 /\ q[1] \in Folders /\ q[2] \in AllNames /\ q[3] \in AllNames
      BY <2>2, PathShapes
    <3>2. RootOf(q) \in Roots /\ RootOf(q)[1] = q[1] /\ RootOf(q)[2] = q[2]
      BY <3>1, PathShapes DEF RootOf
    <3>3. Front(<<RootOf(q)[1], RootOf(q)[2], q[3]>>) = RootOf(q)
      BY <3>1, <3>2, FrontOfPath
    <3>4. Front(q) = RootOf(q)
      BY <3>1, <3>2, <3>3
    <3> QED BY <1>2, <2>2, <3>1, <3>4
  <2> QED BY <2>1, <2>2 DEF FileTree
<1>8. Held \subseteq Leafs(tree) /\ Folder \notin Held
  BY <1>1 DEF Leafs
<1>9. Fresh(tree, job, Held, foreign)
  <2>1. ToCome(foreign) \subseteq ToSet(OtherData)
    BY <1>1, <1>2 DEF ToCome, ToSet
  <2>2. Leafs(job.prints) = {}
    BY <1>3 DEF Leafs
  <2>3. DataIn(tree, Paths) \cap ToSet(OtherData) = {} /\ Held \cap ToSet(OtherData) = {}
    BY <1>2, <1>8 DEF DataIn, Leafs
  <2> QED BY <1>1, <1>8, <2>1, <2>2, <2>3 DEF Fresh
<1>10. Held \subseteq DataIn(tree, SparedPlaces(job))
  <2> SUFFICES ASSUME NEW d \in Held PROVE d \in DataIn(tree, SparedPlaces(job))
    OBVIOUS
  <2>1. PICK q \in DOMAIN tree : tree[q].data = d
    BY <1>8 DEF Leafs
  <2>2. q \in Secures /\ q \in Paths
    BY <1>2, <2>1, VisibleFacts, TreesApart
  <2>3. ASSUME job.op \in Deletions, q \in SourcePlaces(job) PROVE FALSE
    <3>1. PICK n \in DOMAIN job.sources : q \in TreeOf(job.sources[n])
      BY <2>3 DEF SourcePlaces
    <3>2. job.sources[n] \in Roots
      BY <1>2, <1>3, <1>5, JobPlaces
    <3>3. q \in Under(job.sources[n])
      BY <1>7, <2>1, <3>1, <3>2, UnderRootIs
    <3>4. d \in DataAt(j.sources[n]) /\ n \in DOMAIN j.sources
      BY <1>3, <1>8, <2>1, <3>3 DEF DataAt
    <3> QED BY <1>1, <1>3, <2>3, <3>4 DEF Deletions
  <2> QED BY <2>1, <2>2, <2>3 DEF SparedPlaces, DataIn
<1>11. Resting(tree, job, Held, foreign)
  <2>1. MadePlaces(job) = {}
    BY <1>3 DEF MadePlaces
  <2>2. DataIn(tree, MadePlaces(job)) = {}
    BY <2>1 DEF DataIn
  <2> QED BY <1>2, <1>7, <1>9, <1>10, <2>2 DEF Resting
<1> QED BY <1>4, <1>6, <1>11, RestingInv DEF JobsInv, JobOK

-----------------------------------------------------------------------------
(* Every step.                                                             *)
LEMMA CopySteps ==
  ASSUME JobsInv, CopyNext
  PROVE  JobsInv'
<1>1. CASE ChooseDestination \/ DecideCancel \/ Transfer \/ CopyRoot \/ PlaceLeaf \/ Seal
  BY <1>1, ChooseDestinationStep, DecideCancelStep, TransferStep, CopyRootStep, PlaceLeafStep, SealStep
<1>2. ASSUME NEW c \in job.walk, CopyChild(c) PROVE JobsInv'
  BY <1>2, CopyChildStep
<1>3. ASSUME NEW d \in {"Skip", "KeepBoth", "Replace", "MergeDirectory"}, NEW all \in BOOLEAN, Decide(d, all)
      PROVE  JobsInv'
  BY <1>3, DecideStep DEF Decisions
<1>4. CASE Commit \/ Exchange \/ Place \/ Discard \/ CleanUp
  BY <1>4, CommitStep, ExchangeStep, PlaceStep, DiscardStep, CleanUpStep
<1> QED BY <1>1, <1>2, <1>3, <1>4 DEF CopyNext

LEMMA RemoveSteps ==
  ASSUME JobsInv, RemoveNext
  PROVE  JobsInv'
<1>1. ASSUME NEW c \in job.walk, RemoveChild(c) PROVE JobsInv'
  BY <1>1, RemoveChildStep
<1> QED BY <1>1, RemoveRootStep, UnlinkRootStep, RemoveFolderStep, DeleteStep DEF RemoveNext

LEMMA TrashSteps ==
  ASSUME JobsInv, TrashNext
  PROVE  JobsInv'
BY CheckForTrashStep, TrashOneStep, CheckForRestoreStep, RestoreOneStep, RemoveInfoStep DEF TrashNext

LEMMA ErrorSteps ==
  ASSUME JobsInv, ErrorNext
  PROVE  JobsInv'
BY SystemFaultStep, RetryStep, SkipErrorStep, CancelErrorStep DEF ErrorNext

LEMMA UndoSteps ==
  ASSUME JobsInv, UndoNext
  PROVE  JobsInv'
BY UndoStarts, MoveBackStep, UntrashStep, MoveAsideStep, AsideFailsStep, VerifyStep, DestroyStep, DestroyFailsStep,
   PutBackStep
   DEF UndoNext

LEMMA EveryStep ==
  ASSUME JobsInv, [JobsNext]_jobsVars
  PROVE  JobsInv'
<1>1. CASE Prepare \/ ValidateTransfer \/ AllDone \/ StopAtSource
  BY <1>1, PrepareStep, ValidateTransferStep, AllDoneStep, StopAtSourceStep
<1>2. CASE CopyNext \/ RemoveNext \/ TrashNext \/ ErrorNext \/ UndoNext
  BY <1>2, CopySteps, RemoveSteps, TrashSteps, ErrorSteps, UndoSteps
<1>3. CASE Cancel
  BY <1>3, SameInv DEF Cancel, fsVars, envVars, Held
<1>4. CASE ForeignNext
  BY <1>4, ForeignCreateStep, ForeignRemoveStep DEF ForeignNext
<1>5. CASE UNCHANGED jobsVars
  BY <1>5, SameInv DEF jobsVars, fsVars, envVars, Held
<1> QED BY <1>1, <1>2, <1>3, <1>4, <1>5 DEF JobsNext

-----------------------------------------------------------------------------
(* The theorems.                                                           *)

\* The invariant of the jobs, whatever fails, is cancelled or comes in between.
THEOREM JobsInvariant == JobsSpec => []JobsInv
<1>1. JobsInit => JobsInv
  BY FirstState
<1>2. JobsInv /\ [JobsNext]_jobsVars => JobsInv'
  BY EveryStep
<1> QED BY <1>1, <1>2, PTL DEF JobsSpec

\* At every moment each piece of data that must not be lost is somewhere, but for
\* what the job had brought to its place itself and put something less over (over).
THEOREM NoDataIsLostAlways == JobsSpec => []NoDataIsLost
<1>1. JobsInv => NoDataIsLost
  <2> SUFFICES ASSUME JobsInv, NEW d \in kept, d \notin over PROVE d \in Leafs(tree)
    BY DEF NoDataIsLost
  <2>1. d \in Held
    BY DEF Held
  <2> QED BY <2>1 DEF JobsInv, Inv, Safe, Fresh, DataIn, Leafs
<1> QED BY <1>1, JobsInvariant, PTL

\* A visible path has no hidden name.
LEMMA NothingIsHidden ==
  ASSUME NEW q \in VisiblePaths, NEW n \in 2..Len(q)
  PROVE  q[n][1] \notin HiddenTags
<1>1. q \in Paths /\ q[2] \in VisibleNames /\ NothingHiddenIn(q)
  BY VisibleFacts
<1>2. CASE q \in Roots
  <2>0. Len(q) = 2
    BY <1>2, PathShapes
  <2>1. n = 2
    BY <2>0
  <2> QED BY <1>1, <2>1, NameFacts
<1>3. CASE q \in Children
  <2>0. Len(q) = 3
    BY <1>3, PathShapes
  <2>1. n = 2 \/ n = 3
    BY <2>0
  <2> QED BY <1>1, <1>3, <2>1, NameFacts DEF NothingHiddenIn
<1> QED BY <1>1, <1>2, <1>3 DEF Paths

\* A hidden path that could not be removed takes a call that failed by itself.
Costly == faults \in Nat /\ (litter # {} => faults > 0)

LEMMA CostlyStep ==
  ASSUME Costly, [JobsNext]_jobsVars
  PROVE  Costly'
<1> USE DEF Costly
<1>1. ASSUME UNCHANGED <<faults, litter>> PROVE Costly'
  BY <1>1
<1>2. ASSUME Quiet \/ Keep \/ UNCHANGED envVars PROVE Costly'
  BY <1>1, <1>2 DEF Quiet, Keep, envVars
<1>3. ASSUME NEW p, Cleared(p) PROVE Costly'
  <2>1. litter' \subseteq litter \/ faults' = IF faults = 0 THEN 1 ELSE faults
    BY <1>3 DEF Cleared, LastingFault
  <2>2. faults' = faults \/ faults' = IF faults = 0 THEN 1 ELSE faults
    BY <1>3 DEF Cleared, LastingFault
  <2> QED BY <2>1, <2>2
<1>4. ASSUME CallFails PROVE Costly'
  BY <1>4 DEF CallFails
<1>5. CASE Prepare \/ ValidateTransfer \/ AllDone \/ StopAtSource
  BY <1>2, <1>5 DEF Prepare, ValidateTransfer, AllDone, StopAtSource
<1>6. CASE CopyNext
  <2>1. CASE ChooseDestination \/ DecideCancel \/ Transfer \/ CopyRoot \/ Seal \/ Commit \/ Place \/ Discard
    BY <1>2, <2>1 DEF ChooseDestination, DecideCancel, Transfer, CopyRoot, Seal, Commit, Place, Discard
  <2>2. ASSUME NEW c \in job.walk, CopyChild(c) PROVE Costly'
    BY <1>2, <2>2 DEF CopyChild
  <2>3. ASSUME NEW d \in {"Skip", "KeepBoth", "Replace", "MergeDirectory"}, NEW all \in BOOLEAN, Decide(d, all)
        PROVE  Costly'
    BY <1>2, <2>3 DEF Decide
  <2>4. CASE PlaceLeaf
    BY <1>2, <1>3, <2>4 DEF PlaceLeaf
  <2>5. CASE CleanUp
    BY <1>2, <1>3, <2>5 DEF CleanUp
  <2>6. CASE Exchange
    BY <1>1, <2>6 DEF Exchange
  <2> QED BY <1>6, <2>1, <2>2, <2>3, <2>4, <2>5, <2>6 DEF CopyNext
<1>7. CASE RemoveNext
  <2>1. ASSUME NEW c \in job.walk, RemoveChild(c) PROVE Costly'
    BY <1>2, <2>1 DEF RemoveChild
  <2> QED BY <1>2, <1>7, <2>1 DEF RemoveNext, RemoveRoot, UnlinkRoot, RemoveFolder, Delete
<1>8. CASE TrashNext
  BY <1>2, <1>8 DEF TrashNext, CheckForTrash, TrashOne, CheckForRestore, RestoreOne, RemoveInfo
<1>9. CASE ErrorNext
  BY <1>2, <1>4, <1>9 DEF ErrorNext, SystemFault, Retry, SkipError, CancelError
<1>10. CASE UndoNext
  <2>1. CASE Undo \/ MoveBack \/ Untrash \/ PutBack \/ MoveAside \/ Verify \/ Destroy
    BY <1>2, <2>1 DEF Undo, MoveBack, Untrash, PutBack, MoveAside, Verify, Destroy, UndoStep
  <2>2. CASE AsideFails \/ DestroyFails
    BY <1>4, <2>2 DEF AsideFails, DestroyFails
  <2> QED BY <1>10, <2>1, <2>2 DEF UndoNext
<1>11. CASE Cancel \/ ForeignNext \/ UNCHANGED jobsVars
  <2>1. UNCHANGED <<faults, litter>>
    BY <1>11 DEF Cancel, ForeignNext, ForeignCreate, ForeignRemove, envVars, jobsVars
  <2> QED BY <1>1, <2>1
<1> QED BY <1>5, <1>6, <1>7, <1>8, <1>9, <1>10, <1>11 DEF JobsNext

\* A job that has ended, and an undo that is not reported as stuck or broken
\* off, leave no staging tree, no leaf and nothing in quarantine; but for what a
\* call that failed by itself did not remove.
THEOREM NoLeftoversAlways == JobsSpec => []NoLeftovers
<1>1. JobsInit => Costly
  BY DEF JobsInit, Costly
<1>2. Costly /\ [JobsNext]_jobsVars => Costly'
  BY CostlyStep
<1>3. JobsInv /\ Costly => NoLeftovers
  <2>0. Costly /\ HiddenPaths = {} => (HiddenPaths = {} /\ (litter # {} => faults > 0))
    BY DEF Costly
  <2> SUFFICES ASSUME JobsInv, job.pc = "ended", job.undo \notin {"recovery", "halfway"},
                      NEW q \in DOMAIN tree, NEW n \in 2..Len(q), q[n][1] \in HiddenTags
               PROVE  FALSE
    BY <2>0 DEF NoLeftovers, AtPC, HiddenPaths
  <2>1. HiddenPlaces(job) = {}
    <3>1. Quarantined(job) = {}
      BY DEF Quarantined
    <3>2. job.pc \notin StagePCs
      BY DEF StagePCs, CopyPCs
    <3> QED BY <3>1, <3>2 DEF HiddenPlaces, LeafPlaces
  <2>2. q \in VisiblePaths
    BY <2>1 DEF JobsInv, Inv, Tidy
  <2> QED BY <2>2, NothingIsHidden
<1> QED BY <1>1, <1>2, <1>3, JobsInvariant, PTL DEF JobsSpec
=============================================================================
