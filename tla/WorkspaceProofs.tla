---------------------------- MODULE WorkspaceProofs ----------------------------
(***************************************************************************)
(* Theorems about trees, scans and differences, for any set of paths and   *)
(* of entries: what the proofs about Rollback stand on.                    *)
(***************************************************************************)
EXTENDS Workspace, FiniteSetTheorems, TLAPS

\* Every directory of t can be listed.
Listed(t) == \A p \in DOMAIN t : IsDirectory(t, p) => "r" \in t[p].mode

\* Whoever leads to a path is nearer to the root.
LEMMA DepthGrows ==
  ASSUME NEW p \in Paths, NEW q \in Above[p]
  PROVE  /\ Depth(p) \in Nat /\ Depth(q) \in Nat
         /\ Depth(q) < Depth(p)
<1>1. /\ q \in Paths /\ Above[p] \subseteq Paths /\ Above[q] \subseteq Paths
      /\ Above[q] \subseteq Above[p] /\ q \notin Above[q]
  BY WorkspaceAssumption
<1>2. IsFiniteSet(Above[p]) /\ IsFiniteSet(Above[q])
  BY <1>1, WorkspaceAssumption, FS_Subset
<1>3. Depth(p) \in Nat /\ Depth(q) \in Nat
  BY <1>2, FS_CardinalityType DEF Depth
<1>4. Depth(q) <= Depth(p) /\ (Depth(p) = Depth(q) => Above[p] = Above[q])
  BY <1>1, <1>2, FS_Subset DEF Depth
<1> QED
  BY <1>1, <1>3, <1>4

\* A part of a tree from which nothing is missing on the way to what it holds
\* is a tree.
LEMMA PartIsTree ==
  ASSUME NEW t, IsTree(t), NEW ps \in SUBSET DOMAIN t, Closed(ps, t)
  PROVE  IsTree(Restrict(t, ps))
<1> DEFINE u == Restrict(t, ps)
<1>1. DOMAIN u = ps /\ \A q \in ps : u[q] = t[q]
  BY DEF Restrict
<1> HIDE DEF u
<1>2. IsTree(u)
  BY <1>1 DEF IsTree, Closed, IsDirectory
<1> QED
  BY <1>2 DEF u

\* What a scan finds is a tree.
LEMMA ScanIsTree ==
  ASSUME NEW t, IsTree(t)
  PROVE  IsTree(Scanned(t))
<1> DEFINE ps == {p \in DOMAIN t : /\ \A q \in Above[p] : "r" \in t[q].mode
                                   /\ t[p].type # "special"}
<1>1. Closed(ps, t)
  <2> SUFFICES ASSUME NEW p \in ps, NEW q \in Above[p]
               PROVE  q \in ps /\ IsDirectory(t, q)
    BY DEF Closed
  <2>1. q \in DOMAIN t /\ IsDirectory(t, q)
    BY DEF IsTree, Closed
  <2>2. Above[q] \subseteq Above[p]
    BY WorkspaceAssumption DEF IsTree
  <2> QED
    BY <2>1, <2>2 DEF IsDirectory
<1> QED
  BY <1>1, PartIsTree DEF Scanned

\* Entries are told apart by what diff compares of them.
LEMMA ChangedIsDifferent ==
  ASSUME NEW e, NEW f, IsEntry(e), IsEntry(f), e.type # "special"
  PROVE  Changed(e, f) <=> e # f
  BY DEF Changed, IsEntry, Types

-----------------------------------------------------------------------------
(* Removing and adding.                                                    *)

\* u is t without some of what is at and below p.
Shrinks(t, u, p) ==
    /\ IsTree(u)
    /\ DOMAIN u \subseteq DOMAIN t /\ DOMAIN t \ DOMAIN u \subseteq Below(t, p)
    /\ \A q \in DOMAIN u : u[q] = t[q]

\* Taking away is fine if nothing is left hanging in the air.
LEMMA WithoutShrinks ==
  ASSUME NEW t, IsTree(t), NEW p \in Paths,
         NEW ps \in SUBSET Below(t, p), Closed(DOMAIN t \ ps, t)
  PROVE  Shrinks(t, Without(t, ps), p)
<1>1. IsTree(Without(t, ps))
  BY PartIsTree DEF Without
<1> QED
  BY <1>1 DEF Shrinks, Without, Restrict

\* Nothing is below what is not there, and nothing hangs in the air when all
\* that is below a path has gone.
LEMMA BelowIsClosed ==
  ASSUME NEW t, IsTree(t), NEW p \in Paths
  PROVE  /\ Closed(DOMAIN t \ Below(t, p), t)
         /\ ~IsDirectory(t, p) => Below(t, p) \subseteq {p} \cap DOMAIN t
<1>1. ASSUME NEW r \in DOMAIN t, NEW q \in Above[r]
      PROVE  q \in DOMAIN t /\ IsDirectory(t, q) /\ Above[q] \subseteq Above[r]
  BY WorkspaceAssumption DEF IsTree, Closed
<1> QED
  BY <1>1 DEF Closed, Below, IsDirectory
=============================================================================
