---------------------------- MODULE RollbackProofs ----------------------------
(***************************************************************************)
(* Theorems about the undo of safe-run, for any set of paths and entries.  *)
(***************************************************************************)
EXTENDS Rollback, WorkspaceProofs

\* What a pass does to a path: u is t with some of what is at and below p
\* removed, something at p, and directories where some were missing above p.
Puts(t, u, p) ==
    /\ IsTree(u)
    /\ DOMAIN t \ DOMAIN u \subseteq Below(t, p)
    /\ \A q \in DOMAIN u \ {p} :
          IF q \in DOMAIN t THEN u[q] = t[q] ELSE q \in Above[p] /\ u[q] = NewDirectory

-----------------------------------------------------------------------------
(* What one operation on a path does to a tree.                            *)

\* A directory made on the way is one that may stand in a tree.
LEMMA NewDirectoryIsEntry == IsEntry(NewDirectory) /\ NewDirectory.type = "directory"
  BY DEF NewDirectory, IsEntry, Types, Rights

\* An outcome has a tree and says whether the operation succeeded.
LEMMA OutcomeFields ==
  ASSUME NEW t
  PROVE  /\ Done(t).tree = t /\ Done(t).ok = TRUE
         /\ Failed(t).tree = t /\ Failed(t).ok = FALSE
  BY DEF Done, Failed

\* A removal only takes away, and succeeds by removing all, or at a pipe.
LEMMA RemovalShrinks ==
  ASSUME NEW t, IsTree(t), NEW p \in Paths, NEW f \in BOOLEAN,
         NEW o \in Removals(t, p, f)
  PROVE  /\ Shrinks(t, o.tree, p)
         /\ o.ok \in BOOLEAN
         /\ o.ok /\ p \in DOMAIN o.tree => t[p].type = "special" /\ o.tree = t
<1>1. Shrinks(t, t, p)
  BY DEF Shrinks
<1>2. CASE p \notin DOMAIN t \/ t[p].type = "special"
  <2>1. o = Done(t)
    BY <1>2 DEF Removals
  <2> QED
    BY <1>1, <1>2, <2>1 DEF Done
<1>3. CASE p \in DOMAIN t /\ t[p].type # "special"
  <2>1. CASE o = Done(Without(t, Below(t, p)))
    <3>1. Shrinks(t, Without(t, Below(t, p)), p)
      BY BelowIsClosed, WithoutShrinks
    <3>2. p \notin DOMAIN Without(t, Below(t, p))
      BY <1>3 DEF Without, Restrict, Below
    <3> QED
      BY <2>1, <3>1, <3>2 DEF Done
  <2>2. ASSUME NEW ps \in SUBSET (Below(t, p) \ (Stuck(t, p) \cup {p})),
               Closed(DOMAIN t \ ps, t), o = Failed(Without(t, ps))
        PROVE  Shrinks(t, o.tree, p) /\ o.ok = FALSE
    <3>1. Shrinks(t, Without(t, ps), p)
      BY <2>2, WithoutShrinks
    <3> QED
      BY <2>2, <3>1 DEF Failed
  <2>3. \/ o = Done(Without(t, Below(t, p)))
        \/ \E ps \in SUBSET (Below(t, p) \ (Stuck(t, p) \cup {p})) :
              Closed(DOMAIN t \ ps, t) /\ o = Failed(Without(t, ps))
    <3> DEFINE parts == {Without(t, ps) :
                  ps \in {qs \in SUBSET (Below(t, p) \ (Stuck(t, p) \cup {p})) :
                             Closed(DOMAIN t \ qs, t)}}
    <3>1. o \in {Failed(u) : u \in parts} \/ o = Done(Without(t, Below(t, p)))
      BY <1>3 DEF Removals
    <3> QED
      BY <3>1
  <2>4. CASE \E ps \in SUBSET (Below(t, p) \ (Stuck(t, p) \cup {p})) :
                Closed(DOMAIN t \ ps, t) /\ o = Failed(Without(t, ps))
    BY <2>2, <2>4
  <2> QED
    BY <2>1, <2>3, <2>4 DEF Done
<1> QED
  BY <1>2, <1>3

\* Clearing only takes away, and succeeds by leaving nothing, a pipe, or the
\* directory that was wanted.
LEMMA ClearingShrinks ==
  ASSUME NEW t, IsTree(t), NEW p \in Paths, NEW type, NEW f \in BOOLEAN,
         NEW c \in Clearings(t, p, type, f)
  PROVE  /\ Shrinks(t, c.tree, p)
         /\ c.ok \in BOOLEAN
         /\ c.ok /\ p \in DOMAIN c.tree =>
               /\ c.tree = t
               /\ t[p].type = "special" \/ (type = "directory" /\ IsDirectory(t, p))
         /\ type = "directory" /\ IsDirectory(t, p) => c.tree = t /\ c.ok
<1>1. CASE type = "directory" /\ IsDirectory(t, p)
  <2>1. c.tree = t /\ c.ok = TRUE
    BY <1>1 DEF Clearings, Done
  <2> QED
    BY <1>1, <2>1 DEF Shrinks
<1>2. CASE ~(type = "directory" /\ IsDirectory(t, p))
  <2>1. c \in Removals(t, p, f)
    BY <1>2 DEF Clearings
  <2> QED
    BY <1>2, <2>1, RemovalShrinks
<1> QED
  BY <1>1, <1>2

\* Putting an entry where its way is clear yields a tree that has it.
LEMMA WithPuts ==
  ASSUME NEW t, IsTree(t), NEW p \in Paths, NEW e, IsEntry(e),
         \A q \in Above[p] \cap DOMAIN t : IsDirectory(t, q),
         e.type = "directory" \/ Below(t, p) \subseteq {p}
  PROVE  LET u == With(t, p, e)
         IN  Puts(t, u, p) /\ p \in DOMAIN u /\ u[p] = e /\ DOMAIN t \subseteq DOMAIN u
<1> DEFINE u == With(t, p, e)
<1>1. /\ DOMAIN u = DOMAIN t \cup Above[p] \cup {p}
      /\ u[p] = e
      /\ \A q \in DOMAIN t \ {p} : q \notin Above[p] \ DOMAIN t /\ u[q] = t[q]
      /\ \A q \in Above[p] \ DOMAIN t : q # p /\ u[q] = NewDirectory
  BY WorkspaceAssumption DEF With
<1> HIDE DEF u
<1>2. ASSUME NEW r \in DOMAIN u, NEW q \in Above[r]
      PROVE  q \in DOMAIN u /\ IsDirectory(u, q)
  <2>1. CASE r \in DOMAIN t
    <3>1. q \in DOMAIN t /\ IsDirectory(t, q)
      BY <1>2, <2>1 DEF IsTree, Closed
    <3>2. CASE q = p
      BY <1>1, <2>1, <3>2, <1>2, WorkspaceAssumption DEF IsDirectory, Below, IsTree
    <3> QED
      BY <1>1, <3>1, <3>2 DEF IsDirectory
  <2>2. CASE r \in Above[p] \cup {p}
    <3>1. q \in Above[p] /\ q # p
      BY <1>2, <2>2, WorkspaceAssumption
    <3>2. CASE q \in DOMAIN t
      <4>1. IsDirectory(t, q)
        BY <3>1, <3>2
      <4>2. q \in DOMAIN u /\ u[q] = t[q]
        BY <1>1, <3>1, <3>2
      <4> QED
        BY <4>1, <4>2 DEF IsDirectory
    <3>3. CASE q \notin DOMAIN t
      <4>1. q \in DOMAIN u /\ u[q] = NewDirectory
        BY <1>1, <3>1, <3>3
      <4> QED
        BY <4>1, NewDirectoryIsEntry DEF IsDirectory
    <3> QED
      BY <3>2, <3>3
  <2> QED
    BY <1>1, <2>1, <2>2
<1>3. DOMAIN u \subseteq Paths
  BY <1>1, WorkspaceAssumption DEF IsTree
<1>4. \A q \in DOMAIN u : IsEntry(u[q])
  BY <1>1, NewDirectoryIsEntry DEF IsTree
<1>5. IsTree(u)
  BY <1>2, <1>3, <1>4 DEF IsTree, Closed
<1>6. Puts(t, u, p)
  BY <1>1, <1>5 DEF Puts
<1> QED
  BY <1>1, <1>6 DEF u

\* What is put after a removal is put.
LEMMA ShrinkThenPut ==
  ASSUME NEW t, IsTree(t), NEW p \in Paths, NEW c, Shrinks(t, c, p), NEW u, Puts(c, u, p)
  PROVE  Puts(t, u, p)
<1>1. \A q \in Below(t, p) : q \notin Above[p]
  BY WorkspaceAssumption DEF Below, IsTree
<1> QED
  BY <1>1 DEF Shrinks, Puts, Below

\* A replacement puts something at p, or leaves p alone; when it succeeds the
\* entry is there, unless a link led away.
LEMMA ReplacementPuts ==
  ASSUME NEW t, IsTree(t), NEW p \in Paths, NEW e, IsEntry(e),
         NEW torn, \A x \in torn : IsEntry(x),
         NEW f \in BOOLEAN,
         NEW o \in Replacements(t, p, e, torn, f)
  PROVE  /\ Puts(t, o.tree, p)
         /\ o.ok \in BOOLEAN
         /\ o.ok => LeadsAway(t, p) \/ (p \in DOMAIN o.tree /\ o.tree[p] = e)
         /\ e.type = "directory" /\ IsDirectory(t, p) => DOMAIN t \subseteq DOMAIN o.tree
         /\ p \in DOMAIN o.tree => \/ o.tree[p] \in torn \cup {e}
                                   \/ p \in DOMAIN t /\ o.tree[p] = t[p]
<1>1. Puts(t, t, p)
  BY DEF Puts
<1>2. CASE LeadsAway(t, p)
  <2>1. o = Done(t) \/ o = Failed(t)
    BY <1>2 DEF Replacements
  <2>2. o.tree = t /\ o.ok \in BOOLEAN
    BY <2>1, OutcomeFields
  <2>3. Puts(t, o.tree, p)
    BY <1>1, <2>2
  <2>4. DOMAIN t \subseteq DOMAIN o.tree
    BY <2>2
  <2> QED
    BY <1>2, <2>2, <2>3, <2>4
<1>3. CASE ~LeadsAway(t, p)
  <2> DEFINE Kept(c) == p \in DOMAIN c
             Able(c) == IF Kept(c) THEN c[p].type # "special" /\ CanEnter(c, p) ELSE CanEdit(c, p)
             Half(c) == IF Kept(c) \/ ~Able(c) THEN {}
                        ELSE {Without(With(c, p, e), {p})} \cup {With(c, p, x) : x \in torn}
             After(c) == (IF Able(c) THEN {Done(With(c, p, e))} ELSE {})
                 \cup (IF Able(c) /\ ~f THEN {} ELSE {Failed(u) : u \in {c} \cup Half(c)})
  <2>1. PICK c \in Clearings(t, p, e.type, f) :
            o \in IF c.ok THEN After(c.tree) ELSE {c}
    BY <1>3 DEF Replacements
  <2> DEFINE d == c.tree
  <2>2. /\ Shrinks(t, d, p)
        /\ c.ok \in BOOLEAN
        /\ c.ok /\ p \in DOMAIN d =>
              d = t /\ (t[p].type = "special" \/ (e.type = "directory" /\ IsDirectory(t, p)))
        /\ e.type = "directory" /\ IsDirectory(t, p) => d = t /\ c.ok
    BY ClearingShrinks
  <2> HIDE DEF d
  <2>3. /\ IsTree(d) /\ Puts(t, d, p)
        /\ p \in DOMAIN d => p \in DOMAIN t /\ d[p] = t[p]
    BY <2>2 DEF Shrinks, Puts
  <2>4. CASE ~c.ok
    <3>1. o = c
      BY <2>1, <2>4
    <3> QED
      BY <2>2, <2>3, <2>4, <3>1 DEF d
  <2>5. CASE c.ok
    <3>1. o \in After(d)
      BY <2>1, <2>5 DEF d
    <3>2. CASE Able(d)
      <4>1. \A q \in Above[p] \cap DOMAIN d : IsDirectory(d, q)
        BY <2>3, <3>2 DEF IsTree, Closed, CanEdit
      <4>2. p \in DOMAIN d => e.type = "directory" /\ d = t
        BY <2>2, <2>5, <3>2
      <4>3. p \notin DOMAIN d => Below(d, p) \subseteq {p}
        BY <2>3, BelowIsClosed DEF IsDirectory
      <4>4. Below(d, p) \subseteq {p} \/ e.type = "directory"
        BY <4>2, <4>3
      <4>5. LET u == With(d, p, e)
            IN  Puts(d, u, p) /\ p \in DOMAIN u /\ u[p] = e /\ DOMAIN d \subseteq DOMAIN u
        BY <2>3, <4>1, <4>4, WithPuts
      <4>6. ASSUME NEW u, Puts(d, u, p)
            PROVE  Puts(t, u, p)
        BY <2>2, <4>6, ShrinkThenPut
      <4>7. CASE o = Done(With(d, p, e))
        <5>1. o.tree = With(d, p, e) /\ o.ok = TRUE
          BY <4>7, OutcomeFields
        <5>2. Puts(t, o.tree, p)
          BY <4>5, <4>6, <5>1
        <5>3. p \in DOMAIN o.tree /\ o.tree[p] = e /\ DOMAIN d \subseteq DOMAIN o.tree
          BY <4>5, <5>1
        <5>4. /\ o.tree[p] \in torn \cup {e}
              /\ e.type = "directory" /\ IsDirectory(t, p) => DOMAIN t \subseteq DOMAIN o.tree
          BY <2>2, <5>3
        <5>5. o.ok \in BOOLEAN
          BY <5>1
        <5> QED
          BY <5>2, <5>3, <5>4, <5>5
      <4>8. CASE o = Failed(d)
        BY <2>2, <2>3, <4>8, OutcomeFields
      <4>9. ASSUME NEW x \in torn, p \notin DOMAIN d, o = Failed(With(d, p, x))
            PROVE  Puts(t, o.tree, p) /\ o.ok = FALSE /\ o.tree[p] \in torn
        <5>1. IsEntry(x) /\ Below(d, p) \subseteq {p}
          BY <4>3, <4>9
        <5>2. Puts(d, With(d, p, x), p) /\ With(d, p, x)[p] = x
          BY <2>3, <4>1, <5>1, WithPuts
        <5>3. Puts(t, With(d, p, x), p)
          BY <4>6, <5>2
        <5>4. o.tree = With(d, p, x) /\ o.ok = FALSE
          BY <4>9, OutcomeFields
        <5> QED
          BY <5>2, <5>3, <5>4
      <4>10. ASSUME p \notin DOMAIN d, o = Failed(Without(With(d, p, e), {p}))
             PROVE  Puts(t, o.tree, p) /\ o.ok = FALSE /\ p \notin DOMAIN o.tree
        <5> DEFINE u == With(d, p, e)
        <5> HIDE DEF u
        <5>1. Puts(d, u, p) /\ p \in DOMAIN u /\ IsTree(u)
          BY <4>5 DEF u, Puts
        <5>2. Below(u, p) = {p}
          <6>1. p \notin Above[p] /\ \A r \in Above[p] : p \notin Above[r]
            BY WorkspaceAssumption
          <6>2. \A r \in DOMAIN d : p \notin Above[r]
            BY <2>3, <4>10 DEF IsTree, Closed
          <6> QED
            BY <5>1, <6>1, <6>2 DEF Below, Puts
        <5>3. Shrinks(u, Without(u, {p}), p)
          BY <5>1, <5>2, BelowIsClosed, WithoutShrinks
        <5>4. /\ DOMAIN Without(u, {p}) = DOMAIN u \ {p}
              /\ \A q \in DOMAIN u \ {p} : Without(u, {p})[q] = u[q]
          BY DEF Without, Restrict
        <5>5. Puts(d, Without(u, {p}), p)
          BY <4>10, <5>1, <5>3, <5>4 DEF Puts, Shrinks
        <5> QED
          BY <4>6, <4>10, <5>4, <5>5, OutcomeFields DEF u
      <4>11. \/ o = Done(With(d, p, e)) \/ o = Failed(d)
             \/ /\ p \notin DOMAIN d
                /\ \/ o = Failed(Without(With(d, p, e), {p}))
                   \/ \E x \in torn : o = Failed(With(d, p, x))
        BY <3>1, <3>2
      <4>12. p \notin DOMAIN d => ~(e.type = "directory" /\ IsDirectory(t, p))
        BY <2>2 DEF IsDirectory
      <4>13. CASE \E x \in torn : p \notin DOMAIN d /\ o = Failed(With(d, p, x))
        BY <4>9, <4>12, <4>13
      <4>14. CASE p \notin DOMAIN d /\ o = Failed(Without(With(d, p, e), {p}))
        BY <4>10, <4>12, <4>14
      <4>15. \/ o = Done(With(d, p, e)) \/ o = Failed(d)
             \/ p \notin DOMAIN d /\ o = Failed(Without(With(d, p, e), {p}))
             \/ \E x \in torn : p \notin DOMAIN d /\ o = Failed(With(d, p, x))
        BY <4>11
      <4> QED
        BY <4>7, <4>8, <4>13, <4>14, <4>15
    <3>3. CASE ~Able(d)
      <4>1. o = Failed(d)
        BY <3>1, <3>3
      <4> QED
        BY <2>2, <2>3, <4>1 DEF Failed
    <3> QED
      BY <3>2, <3>3
  <2> QED
    BY <2>2, <2>4, <2>5
<1> QED
  BY <1>2, <1>3

\* What the second pass puts in the place of a recorded directory.
Opened(e) == [e EXCEPT !.mode = @ \cup {"w", "x"}]

\* An entry with another mode.
LEMMA ModeOfEntry ==
  ASSUME NEW e, IsEntry(e), NEW m
  PROVE  [e EXCEPT !.mode = m] = [type |-> e.type, data |-> e.data, mode |-> m]
<1> DEFINE type == e.type
           data == e.data
           mode == e.mode
<1>1. e = [type |-> type, data |-> data, mode |-> mode]
  BY DEF IsEntry
<1> HIDE DEF type, data, mode
<1>2. [e EXCEPT !.mode = m] = [type |-> type, data |-> data, mode |-> m]
  BY <1>1
<1> QED
  BY <1>2 DEF type, data

\* A directory opened for the time of the undo is one, with the rights that were
\* recorded and more.
LEMMA OpenedIsEntry ==
  ASSUME NEW e, IsEntry(e), e.type = "directory"
  PROVE  /\ IsEntry(Opened(e))
         /\ Opened(e).type = "directory" /\ Opened(e).mode = e.mode \cup {"w", "x"}
<1> DEFINE o == [type |-> e.type, data |-> e.data, mode |-> e.mode \cup {"w", "x"}]
<1>1. Opened(e) = o
  BY ModeOfEntry DEF Opened
<1>2. o.type = e.type /\ o.data = e.data /\ o.mode = e.mode \cup {"w", "x"}
  OBVIOUS
<1>3. o = [type |-> o.type, data |-> o.data, mode |-> o.mode]
  OBVIOUS
<1> HIDE DEF o
<1>4. e.type \in Types /\ e.mode \subseteq Rights /\ e.data = ""
  BY DEF IsEntry
<1>5. IsEntry(o)
  BY <1>2, <1>3, <1>4 DEF IsEntry, Rights
<1> QED
  BY <1>1, <1>2, <1>5

\* Another mode makes of an entry that is no link an entry, and of a directory
\* with nothing else to tell the directory that had that mode.
LEMMA RemodedIsEntry ==
  ASSUME NEW d, IsEntry(d), NEW e, IsEntry(e), e.type = "directory", d.type # "symlink"
  PROVE  LET m == [d EXCEPT !.mode = e.mode]
         IN  /\ IsEntry(m) /\ m.type = d.type /\ m.mode = e.mode
             /\ d.type = "directory" => m = e
<1> DEFINE m == [type |-> d.type, data |-> d.data, mode |-> e.mode]
<1>1. [d EXCEPT !.mode = e.mode] = m
  BY ModeOfEntry
<1>2. m.type = d.type /\ m.data = d.data /\ m.mode = e.mode
  OBVIOUS
<1>3. m = [type |-> m.type, data |-> m.data, mode |-> m.mode]
  OBVIOUS
<1>4. d.type = "directory" => m = e
  <2>1. e = [type |-> e.type, data |-> e.data, mode |-> e.mode] /\ e.data = ""
    BY DEF IsEntry
  <2>2. d.type = "directory" => d.data = ""
    BY DEF IsEntry
  <2> QED
    BY <2>1, <2>2
<1> HIDE DEF m
<1>5. /\ d.type \in Types /\ e.mode \subseteq Rights
      /\ d.type = "directory" => d.data = "" /\ ("r" \in e.mode => "x" \in e.mode)
  BY DEF IsEntry
<1>6. IsEntry(m)
  BY <1>2, <1>3, <1>5 DEF IsEntry
<1> QED
  BY <1>1, <1>2, <1>4, <1>6

\* A restored mode changes one entry's mode at most.
LEMMA ModeRestored ==
  ASSUME NEW t, IsTree(t), NEW p \in Paths, NEW e, IsEntry(e), e.type = "directory",
         NEW f \in BOOLEAN, NEW o \in ModeRestorations(t, p, e, f)
  PROVE  /\ IsTree(o.tree)
         /\ DOMAIN o.tree = DOMAIN t
         /\ \A q \in DOMAIN t : q # p => o.tree[q] = t[q]
         /\ p \in DOMAIN t => /\ o.tree[p].type = t[p].type
                              /\ o.tree[p].mode \in {t[p].mode, e.mode}
         /\ o.ok \in BOOLEAN
         /\ o.ok /\ ~LeadsAway(t, p) => p \in DOMAIN t
         /\ o.ok /\ IsDirectory(t, p) => LeadsAway(t, p) \/ o.tree[p] = e
<1>1. CASE LeadsAway(t, p) \/ (p \in DOMAIN t /\ t[p].type = "symlink")
  <2>1. o \in {Done(t), Failed(t)}
    BY <1>1 DEF ModeRestorations
  <2>2. o.tree = t /\ o.ok \in BOOLEAN
    BY <2>1, OutcomeFields
  <2> QED
    BY <1>1, <2>2 DEF IsDirectory
<1>2. CASE ~(LeadsAway(t, p) \/ (p \in DOMAIN t /\ t[p].type = "symlink"))
  <2> DEFINE u == [t EXCEPT ![p].mode = e.mode]
  <2>1. o = Failed(t) \/ (p \in DOMAIN t /\ o = Done(u))
    BY <1>2 DEF ModeRestorations
  <2>2. CASE o = Failed(t)
    BY <2>2, OutcomeFields
  <2>3. CASE p \in DOMAIN t /\ o = Done(u)
    <3>1. IsEntry(t[p]) /\ t[p].type # "symlink"
      BY <1>2, <2>3 DEF IsTree
    <3>2. /\ DOMAIN u = DOMAIN t /\ u[p] = [t[p] EXCEPT !.mode = e.mode]
          /\ \A q \in DOMAIN t : q # p => u[q] = t[q]
      BY <2>3
    <3>3. LET m == [t[p] EXCEPT !.mode = e.mode]
          IN  /\ IsEntry(m) /\ m.type = t[p].type /\ m.mode = e.mode
              /\ t[p].type = "directory" => m = e
      BY <3>1, RemodedIsEntry
    <3>4. o.tree = u /\ o.ok = TRUE
      BY <2>3, OutcomeFields
    <3> HIDE DEF u
    <3>5. /\ IsEntry(u[p]) /\ u[p].type = t[p].type /\ u[p].mode = e.mode
          /\ t[p].type = "directory" => u[p] = e
      BY <3>2, <3>3
    <3>6. IsTree(u)
      BY <3>2, <3>5 DEF IsTree, Closed, IsDirectory
    <3> QED
      BY <2>3, <3>2, <3>4, <3>5, <3>6 DEF IsDirectory
  <2> QED
    BY <2>1, <2>2, <2>3
<1> QED
  BY <1>1, <1>2

-----------------------------------------------------------------------------
(* The steps.                                                              *)

\* The paths a pass goes over.
PassPaths ==
    CASE pc = "remove"                   -> Paths \ DOMAIN manifest
      [] pc = "entries"                  -> DOMAIN manifest \ Directories(manifest)
      [] pc \in {"directories", "modes"} -> Directories(manifest)
      [] OTHER                           -> {}

WorkInv ==
    /\ TypeOK
    /\ manifest = Scanned(original)
    /\ pc \in Passes => Digests(manifest) \subseteq blobs
    /\ todo \subseteq PassPaths
    /\ pc \in Passes => Store \notin errors
    /\ pc = "done" => errors = {Store} \/ Store \notin errors

\* An operation on p came out as o; it would have been in Q with no fault.
Operated(p, o, Q) ==
    /\ tree' = o.tree
    /\ errors' = IF o.ok THEN errors ELSE errors \cup {p}
    /\ faulted' = (faulted \/ o \notin Q)
    /\ todo' = todo \ {p}
    /\ UNCHANGED <<original, start, manifest, blobs, pc>>

\* Each pass operates on one path of its kind, with an outcome that may occur.
LEMMA OneRemoval ==
  ASSUME Remove
  PROVE  \E p \in Deepest(todo) : \E o \in Removals(tree, p, p \in Faulty) :
            Operated(p, o, Removals(tree, p, FALSE))
  BY DEF Remove, Operate, Operated

LEMMA OneDirectory ==
  ASSUME RestoreDirectory
  PROVE  \E p \in Shallowest(todo) :
            LET Rs(f) == Replacements(tree, p, Opened(manifest[p]), {NewDirectory}, f)
            IN  \E o \in Rs(p \in Faulty) : Operated(p, o, Rs(FALSE))
  BY DEF RestoreDirectory, Operate, Operated, DirectoryRestorations, Opened
  
LEMMA OneEntry ==
  ASSUME RestoreEntry
  PROVE  \E p \in Shallowest(todo), torn \in SUBSET Entries :
            LET Rs(f) == Replacements(tree, p, manifest[p], torn, f)
            IN  \E o \in Rs(p \in Faulty) : Operated(p, o, Rs(FALSE))
<1>1. PICK p \in Shallowest(todo) :
        \E o \in EntryRestorations(tree, p, manifest[p], p \in Faulty) :
            Operated(p, o, EntryRestorations(tree, p, manifest[p], FALSE))
  BY DEF RestoreEntry, Operate, Operated
<1> DEFINE torn == IF manifest[p].type = "file" THEN {x \in Entries : x.type = "file"} ELSE {}
<1>2. torn \in SUBSET Entries
  OBVIOUS
<1>3. \A f : EntryRestorations(tree, p, manifest[p], f) = Replacements(tree, p, manifest[p], torn, f)
  BY DEF EntryRestorations
<1> HIDE DEF torn
<1> QED
  BY <1>1, <1>2, <1>3

LEMMA OneMode ==
  ASSUME RestoreMode
  PROVE  \E p \in Deepest(todo) : \E o \in ModeRestorations(tree, p, manifest[p], p \in Faulty) :
            Operated(p, o, ModeRestorations(tree, p, manifest[p], FALSE))
  BY DEF RestoreMode, Operate, Operated

\* Whatever a command leaves is a tree.
LEMMA TreesAreTrees ==
  ASSUME NEW t \in Trees
  PROVE  IsTree(t)
<1>1. PICK ps \in SUBSET Paths : t \in [ps -> Entries]
  BY DEF Trees
<1>2. \A p \in DOMAIN t : IsEntry(t[p])
  BY <1>1, WorkspaceAssumption
<1> QED
  BY <1>1, <1>2 DEF Trees, IsTree

\* The manifest is a tree of plain entries.
LEMMA ManifestIsPlain ==
  ASSUME WorkInv
  PROVE  /\ IsTree(manifest) /\ DOMAIN manifest \subseteq DOMAIN original
         /\ \A p \in DOMAIN manifest : /\ manifest[p] = original[p]
                                       /\ manifest[p].type # "special"
                                       /\ IsEntry(manifest[p])
                                       /\ Above[p] \subseteq Directories(manifest)
         /\ \A p \in Directories(manifest) : manifest[p].type = "directory" /\ p \in Paths
<1>1. IsTree(manifest)
  BY DEF WorkInv, TypeOK
<1>2. /\ DOMAIN manifest \subseteq DOMAIN original
      /\ \A p \in DOMAIN manifest : manifest[p] = original[p] /\ original[p].type # "special"
  BY DEF WorkInv, Scanned, Restrict
<1>3. \A p \in DOMAIN manifest : IsEntry(manifest[p]) /\ Above[p] \subseteq Directories(manifest)
  BY <1>1 DEF IsTree, Closed, IsDirectory, Directories
<1> QED
  BY <1>1, <1>2, <1>3 DEF Directories, IsTree

\* In a pass the paths to do are paths of the pass.
LEMMA PassTodo ==
  ASSUME WorkInv
  PROVE  /\ todo \subseteq Paths
         /\ pc = "remove" => todo \subseteq Paths \ DOMAIN manifest
         /\ pc = "entries" => todo \subseteq DOMAIN manifest \ Directories(manifest)
         /\ pc \in {"directories", "modes"} => todo \subseteq Directories(manifest)
         /\ pc \in {"ready", "done"} => todo = {}
  BY DEF WorkInv, TypeOK, PassPaths

\* An operation that yields a tree keeps the invariant.
LEMMA OperatedKeepsWork ==
  ASSUME WorkInv, pc \in Passes, NEW p \in todo, NEW o, IsTree(o.tree), o.ok \in BOOLEAN,
         NEW Q, Operated(p, o, Q)
  PROVE  WorkInv'
<1>1. todo \subseteq Paths
  BY PassTodo
<1>2. TypeOK'
  BY <1>1 DEF WorkInv, TypeOK, Operated
<1>3. (todo \subseteq PassPaths)'
  BY DEF WorkInv, PassPaths, Operated
<1>4. Store \notin errors'
  BY <1>1, RollbackAssumption DEF WorkInv, Operated
<1>5. /\ (manifest = Scanned(original))'
      /\ (Digests(manifest) \subseteq blobs)'
      /\ pc' = pc
  BY DEF WorkInv, Operated
<1> QED
  BY <1>2, <1>3, <1>4, <1>5 DEF WorkInv, Passes

\* Init and the steps that work on no path.
LEMMA WorkInit == Init => WorkInv
<1> SUFFICES ASSUME Init PROVE WorkInv
  OBVIOUS
<1>1. IsTree(original) /\ IsTree(Scanned(original))
  BY TreesAreTrees, ScanIsTree DEF Init
<1> QED
  BY <1>1 DEF Init, WorkInv, TypeOK, PassPaths, Passes

LEMMA WorkCommand == WorkInv /\ Command => WorkInv'
<1> SUFFICES ASSUME WorkInv, Command PROVE WorkInv'
  OBVIOUS
<1>1. IsTree(tree') /\ todo = {}
  BY TreesAreTrees, PassTodo DEF Command
<1> QED
  BY <1>1 DEF Command, WorkInv, TypeOK, PassPaths, Passes

LEMMA WorkLoseBlob == WorkInv /\ LoseBlob => WorkInv'
<1> SUFFICES ASSUME WorkInv, LoseBlob PROVE WorkInv'
  OBVIOUS
<1> QED
  BY DEF LoseBlob, WorkInv, TypeOK, PassPaths, Passes

LEMMA WorkUndo == WorkInv /\ Undo => WorkInv'
<1> SUFFICES ASSUME WorkInv, Undo PROVE WorkInv'
  OBVIOUS
<1>1. DOMAIN Scanned(tree) \subseteq Paths
  BY DEF WorkInv, TypeOK, IsTree, Scanned, Restrict
<1>2. todo' = {} \/ (pc' = "remove" /\ todo' = DOMAIN Scanned(tree) \ DOMAIN manifest)
  BY DEF Undo
<1>3. TypeOK' /\ (todo \subseteq PassPaths)'
  BY <1>1, <1>2 DEF Undo, WorkInv, TypeOK, PassPaths, Passes
<1> QED
  BY <1>3 DEF Undo, WorkInv, Passes

LEMMA WorkNextPass == WorkInv /\ NextPass => WorkInv'
<1> SUFFICES ASSUME WorkInv, NextPass PROVE WorkInv'
  OBVIOUS
<1>1. DOMAIN manifest \subseteq Paths /\ Directories(manifest) \subseteq DOMAIN manifest
  BY ManifestIsPlain DEF IsTree, Directories
<1> QED
  BY <1>1 DEF NextPass, WorkInv, TypeOK, PassPaths, Passes

LEMMA WorkKilled == WorkInv /\ Killed => WorkInv'
  BY DEF Killed, WorkInv, TypeOK, PassPaths, Passes

-----------------------------------------------------------------------------
(* The four passes, by what they do to the tree and the report.            *)

\* Common to all: one path of the pass is done with, and named if that failed.
Progress(p) ==
    /\ todo' = todo \ {p}
    /\ errors \subseteq errors' /\ errors' \subseteq errors \cup {p}
    /\ UNCHANGED <<original, start, manifest, blobs, pc>>

\* Without a fault it was, with any before, an outcome that the rights gave.
Excused(fine, Q) == ~faulted' => ~faulted /\ (fine \/ \E o \in Q : ~o.ok)

\* A failure is put down to the rights or to a fault.
LEMMA OperatedExcused ==
  ASSUME NEW p, NEW o, NEW Q, Operated(p, o, Q)
  PROVE  Excused(errors' = errors, Q)
  BY DEF Operated, Excused

\* The first pass: what is at and below a path goes, in part if that is reported.
LEMMA RemoveEffect ==
  ASSUME WorkInv, Remove
  PROVE  /\ WorkInv'
         /\ \E p \in todo :
               /\ Progress(p)
               /\ Shrinks(tree, tree', p)
               /\ \/ p \in errors' \/ p \notin DOMAIN tree'
                  \/ tree[p].type = "special" /\ tree' = tree
               /\ Excused(errors' = errors, Removals(tree, p, FALSE))
<1>1. PICK p \in Deepest(todo) : \E o \in Removals(tree, p, p \in Faulty) :
                Operated(p, o, Removals(tree, p, FALSE))
  BY OneRemoval
<1> DEFINE faulty == p \in Faulty
<1>2. PICK o \in Removals(tree, p, faulty) : Operated(p, o, Removals(tree, p, FALSE))
  BY <1>1
<1> faulty \in BOOLEAN
  OBVIOUS
<1> HIDE DEF faulty
<1>3. pc = "remove" /\ pc \in Passes /\ IsTree(tree)
  BY DEF Remove, Passes, WorkInv, TypeOK
<1>4. p \in todo /\ p \in Paths
  BY PassTodo DEF Deepest
<1>5. /\ Shrinks(tree, o.tree, p) /\ o.ok \in BOOLEAN
      /\ o.ok /\ p \in DOMAIN o.tree => tree[p].type = "special" /\ o.tree = tree
  BY <1>3, <1>4, RemovalShrinks
<1>6. WorkInv'
  BY <1>2, <1>3, <1>4, <1>5, OperatedKeepsWork DEF Shrinks
<1>7. Progress(p) /\ tree' = o.tree /\ (o.ok \/ p \in errors')
  BY <1>2, <1>5 DEF Progress, Operated
<1>8. /\ Shrinks(tree, tree', p)
      /\ \/ p \in errors' \/ p \notin DOMAIN tree'
         \/ tree[p].type = "special" /\ tree' = tree
  BY <1>5, <1>7
<1>9. Excused(errors' = errors, Removals(tree, p, FALSE))
  BY <1>2, OperatedExcused
<1> QED
  BY <1>4, <1>6, <1>7, <1>8, <1>9

\* The second pass: a directory that is there keeps all that is in it.
LEMMA RestoreDirectoryEffect ==
  ASSUME WorkInv, RestoreDirectory
  PROVE  /\ WorkInv'
         /\ \E p \in todo :
               /\ Progress(p) /\ Above[p] \cap todo = {}
               /\ Puts(tree, tree', p)
               /\ \/ p \in errors' \/ LeadsAway(tree, p)
                  \/ p \in DOMAIN tree' /\ tree'[p] = Opened(manifest[p])
               /\ IsDirectory(tree, p) => DOMAIN tree \subseteq DOMAIN tree'
               /\ p \in DOMAIN tree' => \/ tree'[p] \in {NewDirectory, Opened(manifest[p])}
                                        \/ p \in DOMAIN tree /\ tree'[p] = tree[p]
               /\ Excused(errors' = errors,
                          Replacements(tree, p, Opened(manifest[p]), {NewDirectory}, FALSE))
<1>1. PICK p \in Shallowest(todo) :
        LET Rs(f) == Replacements(tree, p, Opened(manifest[p]), {NewDirectory}, f)
        IN  \E o \in Rs(p \in Faulty) : Operated(p, o, Rs(FALSE))
  BY OneDirectory
<1> DEFINE Rs(f) == Replacements(tree, p, Opened(manifest[p]), {NewDirectory}, f)
<1> DEFINE faulty == p \in Faulty
<1>2. PICK o \in Rs(faulty) : Operated(p, o, Rs(FALSE))
  BY <1>1
<1> faulty \in BOOLEAN
  OBVIOUS
<1> HIDE DEF faulty
<1>3. pc = "directories" /\ pc \in Passes /\ IsTree(tree)
  BY DEF RestoreDirectory, Passes, WorkInv, TypeOK
<1>4. p \in todo /\ p \in Paths /\ p \in Directories(manifest)
  BY <1>3, PassTodo DEF Shallowest
<1>5. IsEntry(Opened(manifest[p])) /\ Opened(manifest[p]).type = "directory"
  BY <1>4, ManifestIsPlain, OpenedIsEntry DEF Directories
<1>6. /\ Puts(tree, o.tree, p) /\ o.ok \in BOOLEAN
      /\ o.ok => LeadsAway(tree, p) \/ (p \in DOMAIN o.tree /\ o.tree[p] = Opened(manifest[p]))
      /\ IsDirectory(tree, p) => DOMAIN tree \subseteq DOMAIN o.tree
      /\ p \in DOMAIN o.tree => \/ o.tree[p] \in {NewDirectory, Opened(manifest[p])}
                                \/ p \in DOMAIN tree /\ o.tree[p] = tree[p]
  BY <1>3, <1>4, <1>5, NewDirectoryIsEntry, ReplacementPuts
<1>7. WorkInv'
  BY <1>2, <1>3, <1>4, <1>6, OperatedKeepsWork DEF Puts
<1>8. Progress(p) /\ tree' = o.tree /\ (o.ok \/ p \in errors')
  BY <1>2, <1>6 DEF Progress, Operated
<1>9. Above[p] \cap todo = {}
  BY <1>4, DepthGrows DEF Shallowest
<1>10. /\ Puts(tree, tree', p)
       /\ \/ p \in errors' \/ LeadsAway(tree, p)
          \/ p \in DOMAIN tree' /\ tree'[p] = Opened(manifest[p])
       /\ IsDirectory(tree, p) => DOMAIN tree \subseteq DOMAIN tree'
       /\ p \in DOMAIN tree' => \/ tree'[p] \in {NewDirectory, Opened(manifest[p])}
                                \/ p \in DOMAIN tree /\ tree'[p] = tree[p]
  BY <1>6, <1>8
<1>11. Excused(errors' = errors,
               Replacements(tree, p, Opened(manifest[p]), {NewDirectory}, FALSE))
  BY <1>2, OperatedExcused
<1> QED
  BY <1>4, <1>7, <1>8, <1>9, <1>10, <1>11

\* The third pass: a file or link is as recorded, or that is reported.
LEMMA RestoreEntryEffect ==
  ASSUME WorkInv, RestoreEntry
  PROVE  /\ WorkInv'
         /\ \E p \in todo :
               /\ Progress(p)
               /\ Puts(tree, tree', p)
               /\ \/ p \in errors' \/ LeadsAway(tree, p)
                  \/ p \in DOMAIN tree' /\ tree'[p] = manifest[p]
               /\ p \in DOMAIN tree' => \/ tree'[p] \in Entries \cup {manifest[p]}
                                        \/ p \in DOMAIN tree /\ tree'[p] = tree[p]
               /\ \E torn \in SUBSET Entries :
                     Excused(errors' = errors, Replacements(tree, p, manifest[p], torn, FALSE))
<1>1. PICK p \in Shallowest(todo), torn \in SUBSET Entries :
        LET Rs(f) == Replacements(tree, p, manifest[p], torn, f)
        IN  \E o \in Rs(p \in Faulty) : Operated(p, o, Rs(FALSE))
  BY OneEntry
<1> DEFINE Rs(f) == Replacements(tree, p, manifest[p], torn, f)
<1> DEFINE faulty == p \in Faulty
<1>2. PICK o \in Rs(faulty) : Operated(p, o, Rs(FALSE))
  BY <1>1
<1> faulty \in BOOLEAN
  OBVIOUS
<1> HIDE DEF faulty
<1>3. pc = "entries" /\ pc \in Passes /\ IsTree(tree)
  BY DEF RestoreEntry, Passes, WorkInv, TypeOK
<1>4. p \in todo /\ p \in Paths /\ p \in DOMAIN manifest
  BY <1>3, PassTodo DEF Shallowest
<1>5. IsEntry(manifest[p]) /\ \A x \in torn : IsEntry(x)
  BY <1>4, ManifestIsPlain, WorkspaceAssumption
<1>6. /\ Puts(tree, o.tree, p) /\ o.ok \in BOOLEAN
      /\ o.ok => LeadsAway(tree, p) \/ (p \in DOMAIN o.tree /\ o.tree[p] = manifest[p])
      /\ p \in DOMAIN o.tree => \/ o.tree[p] \in torn \cup {manifest[p]}
                                \/ p \in DOMAIN tree /\ o.tree[p] = tree[p]
  BY <1>3, <1>4, <1>5, ReplacementPuts
<1>7. WorkInv'
  BY <1>2, <1>3, <1>4, <1>6, OperatedKeepsWork DEF Puts
<1>8. Progress(p) /\ tree' = o.tree /\ (o.ok \/ p \in errors')
  BY <1>2, <1>6 DEF Progress, Operated
<1>9. /\ Puts(tree, tree', p)
      /\ \/ p \in errors' \/ LeadsAway(tree, p)
         \/ p \in DOMAIN tree' /\ tree'[p] = manifest[p]
      /\ p \in DOMAIN tree' => \/ tree'[p] \in Entries \cup {manifest[p]}
                               \/ p \in DOMAIN tree /\ tree'[p] = tree[p]
  BY <1>6, <1>8
<1>10. Excused(errors' = errors, Replacements(tree, p, manifest[p], torn, FALSE))
  BY <1>2, OperatedExcused
<1> QED
  BY <1>4, <1>7, <1>8, <1>9, <1>10

\* The fourth pass: nothing but the mode of one path changes.
LEMMA RestoreModeEffect ==
  ASSUME WorkInv, RestoreMode
  PROVE  /\ WorkInv'
         /\ \E p \in todo :
               /\ Progress(p) /\ \A q \in todo : p \notin Above[q]
               /\ DOMAIN tree' = DOMAIN tree
               /\ \A q \in DOMAIN tree : q # p => tree'[q] = tree[q]
               /\ p \in DOMAIN tree => /\ tree'[p].type = tree[p].type
                                       /\ tree'[p].mode \in {tree[p].mode, manifest[p].mode}
               /\ \/ p \in errors' \/ LeadsAway(tree, p)
                  \/ p \in DOMAIN tree /\ (IsDirectory(tree, p) => tree'[p] = manifest[p])
               /\ Excused(errors' = errors, ModeRestorations(tree, p, manifest[p], FALSE))
<1>1. PICK p \in Deepest(todo) : \E o \in ModeRestorations(tree, p, manifest[p], p \in Faulty) :
            Operated(p, o, ModeRestorations(tree, p, manifest[p], FALSE))
  BY OneMode
<1> DEFINE faulty == p \in Faulty
<1>2. PICK o \in ModeRestorations(tree, p, manifest[p], faulty) :
            Operated(p, o, ModeRestorations(tree, p, manifest[p], FALSE))
  BY <1>1
<1> faulty \in BOOLEAN
  OBVIOUS
<1> HIDE DEF faulty
<1>3. pc = "modes" /\ pc \in Passes /\ IsTree(tree)
  BY DEF RestoreMode, Passes, WorkInv, TypeOK
<1>4. p \in todo /\ p \in Paths /\ p \in Directories(manifest)
  BY <1>3, PassTodo DEF Deepest
<1>5. IsEntry(manifest[p]) /\ manifest[p].type = "directory"
  BY <1>4, ManifestIsPlain DEF Directories
<1>6. /\ IsTree(o.tree)
      /\ DOMAIN o.tree = DOMAIN tree
      /\ \A q \in DOMAIN tree : q # p => o.tree[q] = tree[q]
      /\ p \in DOMAIN tree => /\ o.tree[p].type = tree[p].type
                              /\ o.tree[p].mode \in {tree[p].mode, manifest[p].mode}
      /\ o.ok \in BOOLEAN
      /\ o.ok /\ ~LeadsAway(tree, p) => p \in DOMAIN tree
      /\ o.ok /\ IsDirectory(tree, p) => LeadsAway(tree, p) \/ o.tree[p] = manifest[p]
  BY <1>3, <1>4, <1>5, ModeRestored
<1>7. WorkInv'
  BY <1>2, <1>3, <1>4, <1>6, OperatedKeepsWork
<1>8. Progress(p) /\ tree' = o.tree /\ (o.ok \/ p \in errors')
  BY <1>2, <1>6 DEF Progress, Operated
<1>9. \A q \in todo : p \notin Above[q]
  BY <1>3, PassTodo, DepthGrows DEF Deepest
<1>10. /\ DOMAIN tree' = DOMAIN tree
       /\ \A q \in DOMAIN tree : q # p => tree'[q] = tree[q]
       /\ p \in DOMAIN tree => /\ tree'[p].type = tree[p].type
                               /\ tree'[p].mode \in {tree[p].mode, manifest[p].mode}
       /\ \/ p \in errors' \/ LeadsAway(tree, p)
          \/ p \in DOMAIN tree /\ (IsDirectory(tree, p) => tree'[p] = manifest[p])
  BY <1>6, <1>8
<1>11. Excused(errors' = errors, ModeRestorations(tree, p, manifest[p], FALSE))
  BY <1>2, OperatedExcused
<1> QED
  BY <1>4, <1>7, <1>8, <1>9, <1>10, <1>11

-----------------------------------------------------------------------------
(* What holds of any undo.                                                 *)

\* The undo works on trees, from a whole manifest, on the paths of its pass.
LEMMA WorkStep == WorkInv /\ [Next]_vars => WorkInv'
<1> SUFFICES ASSUME WorkInv, [Next]_vars PROVE WorkInv'
  OBVIOUS
<1>1. CASE Command       BY <1>1, WorkCommand
<1>2. CASE LoseBlob      BY <1>2, WorkLoseBlob
<1>3. CASE Undo          BY <1>3, WorkUndo
<1>4. CASE NextPass      BY <1>4, WorkNextPass
<1>5. CASE Killed        BY <1>5, WorkKilled
<1>6. CASE Remove        BY <1>6, RemoveEffect
<1>7. CASE RestoreDirectory  BY <1>7, RestoreDirectoryEffect
<1>8. CASE RestoreEntry  BY <1>8, RestoreEntryEffect
<1>9. CASE RestoreMode   BY <1>9, RestoreModeEffect
<1>10. CASE UNCHANGED vars
  BY <1>10 DEF vars, WorkInv, TypeOK, PassPaths
<1> QED
  BY <1>1, <1>2, <1>3, <1>4, <1>5, <1>6, <1>7, <1>8, <1>9, <1>10 DEF Next

\* So it always does, from Init on.
LEMMA WorkInvariant == Spec => []WorkInv
  BY WorkInit, WorkStep, PTL DEF Spec

\* However the undo is killed or fails, half-way through a path or between two,
\* the workspace is a tree: nothing hangs in the air.
THEOREM RollbackTypeCorrect == Spec => []TypeOK
<1>1. WorkInv => TypeOK
  BY DEF WorkInv
<1> QED
  BY <1>1, WorkInvariant, PTL

-----------------------------------------------------------------------------
(* What holds where every directory can be listed.                         *)

\* Without it the scans see less than there is.
Listable == \A e \in Entries : e.type = "directory" => "r" \in e.mode

ListedInv == Listed(original) /\ Listed(tree)

\* A command can leave only directories that can be listed.
LEMMA ListedTrees ==
  ASSUME Listable, NEW t \in Trees
  PROVE  Listed(t)
  BY DEF Listable, Trees, Listed, IsDirectory

\* A pass leaves only such, if what it puts at its path is one.
LEMMA PutsKeepsListed ==
  ASSUME NEW t, Listed(t), NEW p, NEW u, Puts(t, u, p),
         p \in DOMAIN u => \/ u[p].type = "directory" => "r" \in u[p].mode
                           \/ p \in DOMAIN t /\ u[p] = t[p]
  PROVE  Listed(u)
<1>1. "r" \in NewDirectory.mode
  BY DEF NewDirectory, Rights
<1> SUFFICES ASSUME NEW q \in DOMAIN u, u[q].type = "directory"
             PROVE  "r" \in u[q].mode
  BY DEF Listed, IsDirectory
<1>2. CASE q = p
  BY <1>2 DEF Listed, IsDirectory
<1>3. CASE q # p
  BY <1>1, <1>3 DEF Puts, Listed, IsDirectory
<1> QED
  BY <1>2, <1>3

\* The directories of the snapshot are such, also while they are opened.
LEMMA ListedManifest ==
  ASSUME WorkInv, ListedInv
  PROVE  \A p \in Directories(manifest) :
            "r" \in manifest[p].mode /\ "r" \in Opened(manifest[p]).mode
<1> SUFFICES ASSUME NEW p \in Directories(manifest)
             PROVE  "r" \in manifest[p].mode /\ "r" \in Opened(manifest[p]).mode
  OBVIOUS
<1>1. p \in DOMAIN manifest /\ manifest[p].type = "directory" /\ manifest[p] = original[p]
      /\ p \in DOMAIN original /\ IsEntry(manifest[p])
  BY ManifestIsPlain DEF Directories
<1>2. "r" \in manifest[p].mode
  BY <1>1 DEF ListedInv, Listed, IsDirectory
<1> QED
  BY <1>1, <1>2, OpenedIsEntry

\* Where no entry is a directory that cannot be listed, the tree never holds one.
LEMMA ListedStep ==
  ASSUME Listable, WorkInv, ListedInv, [Next]_vars
  PROVE  ListedInv'
<1>1. CASE Command
  BY <1>1, ListedTrees DEF Command, ListedInv, Listed, IsDirectory
<1>2. CASE LoseBlob \/ Undo \/ NextPass \/ Killed \/ UNCHANGED vars
  BY <1>2 DEF LoseBlob, Undo, NextPass, Killed, vars, ListedInv, Listed, IsDirectory
<1>3. CASE Remove
  <2>1. PICK p \in todo : Progress(p) /\ Shrinks(tree, tree', p)
    BY <1>3, RemoveEffect
  <2> QED
    BY <2>1 DEF Progress, Shrinks, ListedInv, Listed, IsDirectory
<1>4. CASE RestoreDirectory
  <2>1. PICK p \in todo :
          /\ Progress(p) /\ Puts(tree, tree', p)
          /\ p \in DOMAIN tree' => \/ tree'[p] \in {NewDirectory, Opened(manifest[p])}
                                   \/ p \in DOMAIN tree /\ tree'[p] = tree[p]
    BY <1>4, RestoreDirectoryEffect
  <2>2. "r" \in Opened(manifest[p]).mode /\ "r" \in NewDirectory.mode
    BY <1>4, PassTodo, ListedManifest DEF RestoreDirectory, NewDirectory, Rights
  <2>3. Listed(tree')
    BY <2>1, <2>2, PutsKeepsListed DEF ListedInv
  <2> QED
    BY <2>1, <2>3 DEF Progress, ListedInv, Listed, IsDirectory
<1>5. CASE RestoreEntry
  <2>1. PICK p \in todo :
          /\ Progress(p) /\ Puts(tree, tree', p)
          /\ p \in DOMAIN tree' => \/ tree'[p] \in Entries \cup {manifest[p]}
                                   \/ p \in DOMAIN tree /\ tree'[p] = tree[p]
    BY <1>5, RestoreEntryEffect
  <2>2. manifest[p].type # "directory"
    BY <1>5, PassTodo DEF RestoreEntry, Directories
  <2>3. Listed(tree')
    BY <2>1, <2>2, PutsKeepsListed DEF ListedInv, Listable
  <2> QED
    BY <2>1, <2>3 DEF Progress, ListedInv, Listed, IsDirectory
<1>6. CASE RestoreMode
  <2>1. PICK p \in todo :
          /\ Progress(p)
          /\ DOMAIN tree' = DOMAIN tree
          /\ \A q \in DOMAIN tree : q # p => tree'[q] = tree[q]
          /\ p \in DOMAIN tree => /\ tree'[p].type = tree[p].type
                                  /\ tree'[p].mode \in {tree[p].mode, manifest[p].mode}
    BY <1>6, RestoreModeEffect
  <2>2. "r" \in manifest[p].mode
    BY <1>6, PassTodo, ListedManifest DEF RestoreMode
  <2>3. Listed(tree')
    BY <2>1, <2>2 DEF ListedInv, Listed, IsDirectory
  <2> QED
    BY <2>1, <2>3 DEF Progress, ListedInv, Listed, IsDirectory
<1> QED
  BY <1>1, <1>2, <1>3, <1>4, <1>5, <1>6 DEF Next

LEMMA ListedInvariant == Listable => (Spec => [](WorkInv /\ ListedInv))
<1> SUFFICES ASSUME Listable PROVE Spec => [](WorkInv /\ ListedInv)
  OBVIOUS
<1>1. Init => ListedInv
  BY ListedTrees DEF Init, ListedInv
<1>2. WorkInv /\ ListedInv /\ [Next]_vars => ListedInv'
  BY ListedStep
<1> QED
  BY <1>1, <1>2, WorkInvariant, PTL DEF Spec

\* There a scan finds every plain entry.
LEMMA ListedScan ==
  ASSUME NEW t, IsTree(t), Listed(t)
  PROVE  Scanned(t) = Plain(t)
<1>1. \A p \in DOMAIN t : \A q \in Above[p] : "r" \in t[q].mode
  BY DEF IsTree, Closed, Listed, IsDirectory
<1>2. {p \in DOMAIN t : (\A q \in Above[p] : "r" \in t[q].mode) /\ t[p].type # "special"}
        = {p \in DOMAIN t : t[p].type # "special"}
  BY <1>1
<1> QED
  BY <1>2 DEF Scanned, Plain

\* What is plain about a tree.
LEMMA PlainEntries ==
  ASSUME NEW t
  PROVE  /\ DOMAIN Plain(t) = {p \in DOMAIN t : t[p].type # "special"}
         /\ \A p \in DOMAIN Plain(t) : Plain(t)[p] = t[p]
  BY DEF Plain, Restrict

\* The paths of a diff, without the three kinds of change.
LEMMA DiffPaths ==
  ASSUME NEW m, NEW t
  PROVE  {c.path : c \in Diff(m, t)} =
            {p \in DOMAIN m \cup DOMAIN Scanned(t) :
               p \in DOMAIN m \cap DOMAIN Scanned(t) => Changed(m[p], Scanned(t)[p])}
<1> DEFINE after == Scanned(t)
           Change(kind, ps) == {[path |-> p, kind |-> kind] : p \in ps}
           modified == {p \in DOMAIN m \cap DOMAIN after : Changed(m[p], after[p])}
<1> HIDE DEF after
<1>1. Diff(m, t) = Change("deleted", DOMAIN m \ DOMAIN after)
                     \cup Change("created", DOMAIN after \ DOMAIN m)
                     \cup Change("modified", modified)
  BY DEF Diff, after
<1>2. ASSUME NEW kind, NEW ps
      PROVE  {c.path : c \in Change(kind, ps)} = ps
  <2>1. \A p \in ps : [path |-> p, kind |-> kind] \in Change(kind, ps)
    OBVIOUS
  <2>2. \A p : [path |-> p, kind |-> kind].path = p
    OBVIOUS
  <2>3. \A c \in Change(kind, ps) : c.path \in ps
    BY <2>2
  <2> HIDE DEF Change
  <2>4. ps \subseteq {c.path : c \in Change(kind, ps)}
    BY <2>1, <2>2
  <2> QED
    BY <2>3, <2>4
<1>3. {c.path : c \in Diff(m, t)} =
        (DOMAIN m \ DOMAIN after) \cup (DOMAIN after \ DOMAIN m) \cup modified
  <2> HIDE DEF Change, modified
  <2>1. {c.path : c \in Diff(m, t)} =
          {c.path : c \in Change("deleted", DOMAIN m \ DOMAIN after)}
          \cup {c.path : c \in Change("created", DOMAIN after \ DOMAIN m)}
          \cup {c.path : c \in Change("modified", modified)}
    BY <1>1
  <2> QED
    BY <1>2, <2>1
<1> QED
  BY <1>3 DEF after

\* safe-run diff lists exactly the paths that differ from the workspace of the
\* snapshot, whatever the command and failed undos did to it.
THEOREM DiffIsExact == Listable => (Spec => []DiffListsChanges)
<1> SUFFICES ASSUME Listable PROVE Spec => []DiffListsChanges
  OBVIOUS
<1>1. WorkInv /\ ListedInv => DiffListsChanges
  <2> SUFFICES ASSUME WorkInv, ListedInv PROVE DiffListsChanges
    OBVIOUS
  <2> DEFINE before == Plain(original)
             after == Plain(tree)
  <2>1. manifest = before /\ Scanned(tree) = after
    BY ListedScan DEF WorkInv, TypeOK, ListedInv
  <2>2. ASSUME NEW p \in DOMAIN before \cap DOMAIN after
        PROVE  Changed(before[p], after[p]) <=> before[p] # after[p]
    <3>1. /\ p \in DOMAIN original /\ before[p] = original[p] /\ original[p].type # "special"
          /\ p \in DOMAIN tree /\ after[p] = tree[p]
      BY PlainEntries
    <3>2. IsEntry(original[p]) /\ IsEntry(tree[p])
      BY <3>1 DEF WorkInv, TypeOK, IsTree
    <3> QED
      BY <3>1, <3>2, ChangedIsDifferent
  <2> HIDE DEF before, after
  <2>3. {c.path : c \in Diff(manifest, tree)} =
          {p \in DOMAIN before \cup DOMAIN after :
             p \in DOMAIN before \cap DOMAIN after => Changed(before[p], after[p])}
    <3>1. {c.path : c \in Diff(manifest, tree)} =
            {p \in DOMAIN manifest \cup DOMAIN Scanned(tree) :
               p \in DOMAIN manifest \cap DOMAIN Scanned(tree) =>
                   Changed(manifest[p], Scanned(tree)[p])}
      BY ONLY DiffPaths
    <3> QED
      BY ONLY <2>1, <3>1
  <2>4. {c.path : c \in Diff(manifest, tree)} = Differ(before, after)
    BY <2>2, <2>3 DEF Differ
  <2> QED
    BY <2>4 DEF DiffListsChanges, before, after
<1> QED
  BY <1>1, ListedInvariant, PTL

\* The first pass of an undo removes nothing that the workspace held when the
\* snapshot was taken.
THEOREM OnlyNewRemoved == Listable => (Spec => RemovesOnlyNew)
<1> SUFFICES ASSUME Listable PROVE Spec => RemovesOnlyNew
  OBVIOUS
<1>1. WorkInv /\ ListedInv /\ [Next]_vars =>
        [pc = "remove" => DOMAIN Plain(original) \cap DOMAIN tree \subseteq DOMAIN tree']_vars
  <2> SUFFICES ASSUME WorkInv, ListedInv, Next, pc = "remove",
                      NEW q \in DOMAIN Plain(original) \cap DOMAIN tree
               PROVE  q \in DOMAIN tree'
    BY DEF vars
  <2>1. manifest = Plain(original)
    BY ListedScan DEF WorkInv, TypeOK, ListedInv
  <2>2. CASE Remove
    <3>1. PICK p \in todo : Shrinks(tree, tree', p)
      BY <2>2, RemoveEffect
    <3>2. p \notin DOMAIN manifest /\ Above[q] \subseteq DOMAIN manifest
      BY <2>1, PassTodo, ManifestIsPlain DEF Directories
    <3> QED
      BY <2>1, <3>1, <3>2 DEF Shrinks, Below
  <2>3. CASE NextPass \/ Killed
    BY <2>3 DEF NextPass, Killed
  <2> QED
    BY <2>2, <2>3 DEF Next, Command, LoseBlob, Undo, RestoreDirectory, RestoreEntry, RestoreMode
<1> QED
  BY <1>1, ListedInvariant, PTL DEF Spec, RemovesOnlyNew

-----------------------------------------------------------------------------
(* A failure on a path is never passed over.                               *)

\* The report names p or a directory that leads to it.
Named(p) == \E q \in errors : q \in Above[p] \cup {p}

AsRecorded(p) == p \in DOMAIN tree /\ tree[p] = manifest[p]

\* What is not of the snapshot has been removed, or its removal failed.
NewNamed ==
    \A p \in DOMAIN Plain(tree) \ DOMAIN manifest : p \in errors \/ (pc = "remove" /\ p \in todo)

\* What the second, third and fourth pass have done with.
DirectoriesMade ==
    \A p \in Directories(manifest) :
        \/ pc = "remove" \/ (pc = "directories" /\ p \in todo)
        \/ IsDirectory(tree, p) \/ Named(p)

EntriesMade ==
    \A p \in DOMAIN manifest \ Directories(manifest) :
        \/ pc \in {"remove", "directories"} \/ (pc = "entries" /\ p \in todo)
        \/ AsRecorded(p) \/ Named(p)

ModesMade ==
    \A p \in Directories(manifest) :
        \/ pc \in {"remove", "directories", "entries"} \/ (pc = "modes" /\ p \in todo)
        \/ AsRecorded(p) \/ Named(p)

Settled == NewNamed /\ DirectoriesMade /\ EntriesMade /\ ModesMade

SettledInv == pc \in Passes \cup {"done"} /\ errors # {Store} => Settled

\* The report only grows during an undo.
LEMMA NamedStays ==
  ASSUME errors \subseteq errors', NEW p
  PROVE  Named(p) => Named(p)'
  BY DEF Named

\* Naming a directory names what it leads to.
LEMMA NamedBelow ==
  ASSUME NEW p \in Paths, NEW q \in Above[p], Named(q)
  PROVE  Named(p)
  BY WorkspaceAssumption DEF Named

\* Where a link stands for a directory, the directory could not be made.
LEMMA AwayIsNamed ==
  ASSUME WorkInv, DirectoriesMade, pc # "remove",
         NEW p \in DOMAIN manifest, pc = "directories" => Above[p] \cap todo = {},
         LeadsAway(tree, p)
  PROVE  Named(p)
<1>1. PICK q \in Above[p] : q \in DOMAIN tree /\ tree[q].type = "symlink"
  BY DEF LeadsAway
<1>2. p \in Paths /\ q \in Directories(manifest)
  BY ManifestIsPlain DEF IsTree
<1>3. Named(q)
  BY <1>1, <1>2 DEF DirectoriesMade, IsDirectory
<1> QED
  BY <1>2, <1>3, NamedBelow

\* Putting a recorded path brings in nothing that is not recorded.
LEMMA PutsNothingNew ==
  ASSUME WorkInv, NewNamed, pc # "remove", NEW p \in DOMAIN manifest, Progress(p),
         Puts(tree, tree', p)
  PROVE  NewNamed'
<1> SUFFICES ASSUME NEW r \in DOMAIN Plain(tree)', r \notin DOMAIN manifest
             PROVE  r \in errors'
  BY DEF NewNamed, Progress
<1>1. r \in DOMAIN tree' /\ tree'[r].type # "special"
  BY PlainEntries
<1>2. r # p /\ r \notin Above[p]
  BY ManifestIsPlain DEF Directories
<1>3. r \in DOMAIN tree /\ tree'[r] = tree[r]
  BY <1>1, <1>2 DEF Puts
<1>4. r \in DOMAIN Plain(tree)
  BY <1>1, <1>3, PlainEntries
<1> QED
  BY <1>4 DEF NewNamed, Progress

\* No step unsettles what an earlier one has settled.
LEMMA SettledRemove ==
  ASSUME WorkInv, Settled, Remove
  PROVE  Settled'
<1>1. PICK p \in todo : /\ Progress(p) /\ Shrinks(tree, tree', p)
                        /\ \/ p \in errors' \/ p \notin DOMAIN tree'
                           \/ tree[p].type = "special" /\ tree' = tree
  BY RemoveEffect
<1>2. NewNamed'
  <2> SUFFICES ASSUME NEW r \in DOMAIN Plain(tree)', r \notin DOMAIN manifest
               PROVE  r \in errors' \/ r \in todo'
    BY <1>1 DEF NewNamed, Progress, Remove
  <2>1. r \in DOMAIN tree' /\ tree'[r].type # "special"
    BY PlainEntries
  <2>2. r \in DOMAIN tree /\ tree[r] = tree'[r]
    BY <1>1, <2>1 DEF Shrinks
  <2>3. r \in DOMAIN Plain(tree)
    BY <2>1, <2>2, PlainEntries
  <2>4. r \in errors \/ r \in todo
    BY <2>3 DEF Settled, NewNamed
  <2>5. r = p => r \in errors'
    BY <1>1, <2>1, <2>2
  <2> QED
    BY <1>1, <2>4, <2>5 DEF Progress
<1>3. pc' = "remove"
  BY <1>1 DEF Progress, Remove
<1> QED
  BY <1>2, <1>3 DEF Settled, DirectoriesMade, EntriesMade, ModesMade

LEMMA SettledDirectory ==
  ASSUME WorkInv, Settled, RestoreDirectory
  PROVE  Settled'
<1>1. PICK p \in todo :
          /\ Progress(p) /\ Above[p] \cap todo = {}
          /\ Puts(tree, tree', p)
          /\ \/ p \in errors' \/ LeadsAway(tree, p)
             \/ p \in DOMAIN tree' /\ tree'[p] = Opened(manifest[p])
          /\ IsDirectory(tree, p) => DOMAIN tree \subseteq DOMAIN tree'
  BY RestoreDirectoryEffect
<1>2. pc = "directories" /\ pc' = "directories" /\ manifest' = manifest
  BY <1>1 DEF Progress, RestoreDirectory
<1>3. p \in Directories(manifest) /\ p \in DOMAIN manifest
  BY <1>2, PassTodo DEF Directories
<1>4. NewNamed'
  BY <1>1, <1>2, <1>3, PutsNothingNew DEF Settled
<1>5. DirectoriesMade'
  <2> SUFFICES ASSUME NEW r \in Directories(manifest), r \notin todo'
               PROVE  IsDirectory(tree, r)' \/ Named(r)'
    BY <1>2 DEF DirectoriesMade, Directories
  <2>1. CASE r = p
    <3>1. CASE p \in errors'
      BY <2>1, <3>1 DEF Named
    <3>2. CASE LeadsAway(tree, p)
      BY <1>1, <1>2, <1>3, <2>1, <3>2, AwayIsNamed, NamedStays DEF Settled, Progress
    <3>3. CASE p \in DOMAIN tree' /\ tree'[p] = Opened(manifest[p])
      BY <1>3, <2>1, <3>3, ManifestIsPlain, OpenedIsEntry DEF IsDirectory
    <3> QED
      BY <1>1, <3>1, <3>2, <3>3
  <2>2. CASE r # p
    <3>1. IsDirectory(tree, r) \/ Named(r)
      BY <1>1, <1>2, <2>2 DEF Settled, DirectoriesMade, Progress
    <3>2. CASE Named(r)
      BY <1>1, <3>2, NamedStays DEF Progress
    <3>3. CASE IsDirectory(tree, r)
      <4>1. p \in Above[r] => IsDirectory(tree, p)
        BY <3>3 DEF WorkInv, TypeOK, IsTree, Closed, IsDirectory
      <4>2. r \in DOMAIN tree'
        BY <1>1, <2>2, <3>3, <4>1 DEF Puts, Below, IsDirectory
      <4> QED
        BY <1>1, <2>2, <3>3, <4>2 DEF Puts, IsDirectory
    <3> QED
      BY <3>1, <3>2, <3>3
  <2> QED
    BY <2>1, <2>2
<1> QED
  BY <1>2, <1>4, <1>5 DEF Settled, EntriesMade, ModesMade

LEMMA SettledEntry ==
  ASSUME WorkInv, Settled, RestoreEntry
  PROVE  Settled'
<1>1. PICK p \in todo :
          /\ Progress(p)
          /\ Puts(tree, tree', p)
          /\ \/ p \in errors' \/ LeadsAway(tree, p)
             \/ p \in DOMAIN tree' /\ tree'[p] = manifest[p]
  BY RestoreEntryEffect
<1>2. pc = "entries" /\ pc' = "entries" /\ manifest' = manifest
  BY <1>1 DEF Progress, RestoreEntry
<1>3. p \in DOMAIN manifest /\ p \notin Directories(manifest)
  BY <1>2, PassTodo
<1>4. NewNamed'
  BY <1>1, <1>2, <1>3, PutsNothingNew DEF Settled
<1>5. ASSUME NEW r \in DOMAIN manifest, r # p, r \in DOMAIN tree
      PROVE  r \in DOMAIN tree' /\ tree'[r] = tree[r]
  <2>1. p \notin Above[r]
    BY <1>3, ManifestIsPlain
  <2> QED
    BY <1>1, <1>5, <2>1 DEF Puts, Below
<1>6. DirectoriesMade'
  <2> SUFFICES ASSUME NEW r \in Directories(manifest)
               PROVE  IsDirectory(tree, r)' \/ Named(r)'
    BY <1>2 DEF DirectoriesMade, Directories
  <2>1. r # p /\ r \in DOMAIN manifest
    BY <1>3 DEF Directories
  <2>2. CASE Named(r)
    BY <1>1, <2>2, NamedStays DEF Progress
  <2>3. CASE IsDirectory(tree, r)
    BY <1>5, <2>1, <2>3 DEF IsDirectory
  <2> QED
    BY <1>2, <2>2, <2>3 DEF Settled, DirectoriesMade
<1>7. EntriesMade'
  <2> SUFFICES ASSUME NEW r \in DOMAIN manifest \ Directories(manifest), r \notin todo'
               PROVE  AsRecorded(r)' \/ Named(r)'
    BY <1>2 DEF EntriesMade
  <2>1. CASE r = p
    <3>1. CASE p \in errors'
      BY <2>1, <3>1 DEF Named
    <3>2. CASE LeadsAway(tree, p)
      BY <1>1, <1>2, <1>3, <2>1, <3>2, AwayIsNamed, NamedStays DEF Settled, Progress
    <3>3. CASE p \in DOMAIN tree' /\ tree'[p] = manifest[p]
      BY <1>2, <2>1, <3>3 DEF AsRecorded
    <3> QED
      BY <1>1, <3>1, <3>2, <3>3
  <2>2. CASE r # p
    <3>1. AsRecorded(r) \/ Named(r)
      BY <1>1, <1>2, <2>2 DEF Settled, EntriesMade, Progress
    <3>2. CASE Named(r)
      BY <1>1, <3>2, NamedStays DEF Progress
    <3>3. CASE AsRecorded(r)
      BY <1>2, <1>5, <2>2, <3>3 DEF AsRecorded
    <3> QED
      BY <3>1, <3>2, <3>3
  <2> QED
    BY <2>1, <2>2
<1> QED
  BY <1>2, <1>4, <1>6, <1>7 DEF Settled, ModesMade

LEMMA SettledMode ==
  ASSUME WorkInv, Settled, RestoreMode
  PROVE  Settled'
<1>1. PICK p \in todo :
          /\ Progress(p)
          /\ DOMAIN tree' = DOMAIN tree
          /\ \A q \in DOMAIN tree : q # p => tree'[q] = tree[q]
          /\ p \in DOMAIN tree => tree'[p].type = tree[p].type
          /\ \/ p \in errors' \/ LeadsAway(tree, p)
             \/ p \in DOMAIN tree /\ (IsDirectory(tree, p) => tree'[p] = manifest[p])
  BY RestoreModeEffect
<1>2. pc = "modes" /\ pc' = "modes" /\ manifest' = manifest
  BY <1>1 DEF Progress, RestoreMode
<1>3. p \in Directories(manifest) /\ p \in DOMAIN manifest
  BY <1>2, PassTodo DEF Directories
<1>4. \A q \in DOMAIN tree : tree'[q].type = tree[q].type
  BY <1>1
<1>5. NewNamed'
  <2> SUFFICES ASSUME NEW r \in DOMAIN Plain(tree)', r \notin DOMAIN manifest
               PROVE  r \in errors'
    BY <1>2 DEF NewNamed
  <2>1. r \in DOMAIN tree' /\ tree'[r].type # "special"
    BY PlainEntries
  <2>2. r \in DOMAIN Plain(tree)
    BY <1>1, <1>4, <2>1, PlainEntries
  <2> QED
    BY <1>1, <1>2, <2>2 DEF Settled, NewNamed, Progress
<1>6. DirectoriesMade'
  <2> SUFFICES ASSUME NEW r \in Directories(manifest)
               PROVE  IsDirectory(tree, r)' \/ Named(r)'
    BY <1>2 DEF DirectoriesMade, Directories
  <2>1. CASE Named(r)
    BY <1>1, <2>1, NamedStays DEF Progress
  <2>2. CASE IsDirectory(tree, r)
    BY <1>1, <1>4, <2>2 DEF IsDirectory
  <2> QED
    BY <1>2, <2>1, <2>2 DEF Settled, DirectoriesMade
<1>7. EntriesMade'
  <2> SUFFICES ASSUME NEW r \in DOMAIN manifest \ Directories(manifest)
               PROVE  AsRecorded(r)' \/ Named(r)'
    BY <1>2 DEF EntriesMade
  <2>1. CASE Named(r)
    BY <1>1, <2>1, NamedStays DEF Progress
  <2>2. CASE AsRecorded(r)
    BY <1>1, <1>2, <1>3, <2>2 DEF AsRecorded
  <2> QED
    BY <1>2, <2>1, <2>2 DEF Settled, EntriesMade
<1>8. ModesMade'
  <2> SUFFICES ASSUME NEW r \in Directories(manifest), r \notin todo'
               PROVE  AsRecorded(r)' \/ Named(r)'
    BY <1>2 DEF ModesMade, Directories
  <2>1. CASE Named(r)
    BY <1>1, <2>1, NamedStays DEF Progress
  <2>2. CASE r = p /\ ~Named(r)
    <3>1. CASE p \in errors'
      BY <2>2, <3>1 DEF Named
    <3>2. ~LeadsAway(tree, p)
      BY <1>2, <1>3, <2>2, AwayIsNamed DEF Settled
    <3>3. IsDirectory(tree, p)
      BY <1>2, <1>3, <2>2 DEF Settled, DirectoriesMade
    <3> QED
      BY <1>1, <1>2, <2>2, <3>1, <3>2, <3>3 DEF AsRecorded
  <2>3. CASE r # p /\ ~Named(r)
    <3>1. AsRecorded(r)
      BY <1>1, <1>2, <2>3 DEF Settled, ModesMade, Progress
    <3> QED
      BY <1>1, <1>2, <2>3, <3>1 DEF AsRecorded
  <2> QED
    BY <2>1, <2>2, <2>3
<1> QED
  BY <1>5, <1>6, <1>7, <1>8 DEF Settled

LEMMA SettledNextPass ==
  ASSUME WorkInv, Settled, NextPass
  PROVE  Settled'
<1>1. todo = {} /\ pc \in Passes
  BY DEF NextPass
<1>2. UNCHANGED <<tree, manifest, errors>>
  BY DEF NextPass
<1>3. \/ pc = "remove" /\ pc' = "directories" /\ todo' = Directories(manifest)
      \/ pc = "directories" /\ pc' = "entries" /\ todo' = DOMAIN manifest \ Directories(manifest)
      \/ pc = "entries" /\ pc' = "modes" /\ todo' = Directories(manifest)
      \/ pc = "modes" /\ pc' = "done" /\ todo' = {}
  BY DEF NextPass
<1>4. \A r : Named(r)' = Named(r) /\ AsRecorded(r)' = AsRecorded(r)
  BY <1>2 DEF Named, AsRecorded
<1>5. NewNamed'
  BY <1>1, <1>2, <1>3 DEF Settled, NewNamed, Plain
<1>6. DirectoriesMade'
  BY <1>1, <1>2, <1>3, <1>4 DEF Settled, DirectoriesMade, Directories, IsDirectory
<1>7. EntriesMade'
  BY <1>1, <1>2, <1>3, <1>4 DEF Settled, EntriesMade, Directories
<1>8. ModesMade'
  BY <1>1, <1>2, <1>3, <1>4 DEF Settled, ModesMade, Directories
<1> QED
  BY <1>5, <1>6, <1>7, <1>8 DEF Settled

\* From a fresh undo to its end.
LEMMA SettledStep ==
  ASSUME WorkInv, ListedInv, SettledInv, [Next]_vars
  PROVE  SettledInv'
<1>1. pc \in Passes => errors # {Store}
  BY DEF WorkInv
<1>2. CASE Command \/ LoseBlob \/ Killed
  BY <1>2 DEF Command, LoseBlob, Killed, SettledInv, Passes
<1>3. CASE Undo
  <2>1. \/ pc' = "done" /\ errors' = {Store}
        \/ pc' = "remove" /\ todo' = DOMAIN Plain(tree) \ DOMAIN manifest
    BY <1>3, ListedScan DEF Undo, WorkInv, TypeOK, ListedInv
  <2> QED
    BY <1>3, <2>1 DEF Undo, SettledInv, Settled, NewNamed, DirectoriesMade, EntriesMade, ModesMade, Plain
<1>4. CASE NextPass
  BY <1>1, <1>4, SettledNextPass DEF SettledInv, NextPass
<1>5. CASE Remove \/ RestoreDirectory \/ RestoreEntry \/ RestoreMode
  <2>1. Settled
    BY <1>1, <1>5 DEF SettledInv, Remove, RestoreDirectory, RestoreEntry, RestoreMode, Passes
  <2>2. Settled'
    BY <1>5, <2>1, SettledRemove, SettledDirectory, SettledEntry, SettledMode
  <2> QED
    BY <2>2 DEF SettledInv
<1>6. CASE UNCHANGED vars
  BY <1>6 DEF vars, SettledInv, Settled, NewNamed, DirectoriesMade, EntriesMade, ModesMade,
              Named, AsRecorded, Plain, Directories, IsDirectory
<1> QED
  BY <1>2, <1>3, <1>4, <1>5, <1>6 DEF Next

LEMMA SettledInvariant == Listable => (Spec => [](WorkInv /\ ListedInv /\ SettledInv))
<1> SUFFICES ASSUME Listable PROVE Spec => [](WorkInv /\ ListedInv /\ SettledInv)
  OBVIOUS
<1>1. Init => SettledInv
  BY DEF Init, SettledInv, Passes
<1>2. WorkInv /\ ListedInv /\ SettledInv /\ [Next]_vars => SettledInv'
  BY SettledStep
<1> QED
  BY <1>1, <1>2, ListedInvariant, PTL DEF Spec

\* At the end what is settled is as it was, or named.
LEMMA SettledIsReported ==
  ASSUME WorkInv, ListedInv, Settled, pc \in {"modes", "done"}, todo = {},
         NEW p \in Differ(Plain(original), Plain(tree))
  PROVE  Named(p)
<1>1. Settled /\ todo = {}
  OBVIOUS
<1>2. manifest = Plain(original)
  BY ListedScan DEF WorkInv, TypeOK, ListedInv
<1>3. CASE p \in DOMAIN manifest
  <2>1. AsRecorded(p) \/ Named(p)
    BY <1>1, <1>3 DEF Settled, EntriesMade, ModesMade
  <2>2. ~AsRecorded(p)
    <3> SUFFICES ASSUME AsRecorded(p) PROVE FALSE
      OBVIOUS
    <3>1. p \in DOMAIN tree /\ tree[p] = manifest[p] /\ tree[p].type # "special"
      BY <1>3, ManifestIsPlain DEF AsRecorded
    <3>2. p \in DOMAIN Plain(tree) /\ Plain(tree)[p] = manifest[p]
      BY <3>1, PlainEntries
    <3> QED
      BY <1>2, <1>3, <3>2 DEF Differ
  <2> QED
    BY <2>1, <2>2
<1>4. CASE p \notin DOMAIN manifest
  <2>1. p \in DOMAIN Plain(tree)
    BY <1>2, <1>4 DEF Differ
  <2> QED
    BY <1>1, <1>4, <2>1 DEF Settled, NewNamed, Named
<1> QED
  BY <1>3, <1>4

\* Wherever an undo leaves the workspace other than it was at the snapshot, its
\* report names the path or a directory that leads to it.
THEOREM DifferencesReported == Listable => (Spec => []EveryDifferenceReported)
<1> SUFFICES ASSUME Listable PROVE Spec => []EveryDifferenceReported
  OBVIOUS
<1>1. WorkInv /\ ListedInv /\ SettledInv => EveryDifferenceReported
  BY SettledIsReported, PassTodo DEF EveryDifferenceReported, SettledInv, Named
<1> QED
  BY <1>1, SettledInvariant, PTL

\* With no error, everything is as it was.
CleanUndoRestores == pc = "done" /\ errors = {} => Plain(tree) = Plain(original)

\* So an undo that reports no error has restored the workspace.
THEOREM CleanUndosRestore == Listable => (Spec => []CleanUndoRestores)
<1> SUFFICES ASSUME Listable PROVE Spec => []CleanUndoRestores
  OBVIOUS
<1>1. WorkInv /\ ListedInv /\ SettledInv => CleanUndoRestores
  <2> SUFFICES ASSUME WorkInv, ListedInv, SettledInv, pc = "done", errors = {}
               PROVE  Plain(tree) = Plain(original)
    BY DEF CleanUndoRestores
  <2> DEFINE before == Plain(original)
             after == Plain(tree)
  <2>1. \A p \in Differ(before, after) : FALSE
    BY SettledIsReported, PassTodo DEF SettledInv, Named
  <2>2. \A p \in DOMAIN before \cup DOMAIN after :
            p \in DOMAIN before /\ p \in DOMAIN after /\ before[p] = after[p]
    BY <2>1 DEF Differ
  <2>3. before = [p \in DOMAIN before |-> before[p]] /\ after = [p \in DOMAIN after |-> after[p]]
    BY DEF Plain, Restrict
  <2> HIDE DEF before, after
  <2>4. DOMAIN before = DOMAIN after /\ \A p \in DOMAIN before : before[p] = after[p]
    BY <2>2
  <2>5. before = after
    BY <2>3, <2>4
  <2> QED
    BY <2>5 DEF before, after
<1> QED
  BY <1>1, SettledInvariant, PTL

-----------------------------------------------------------------------------
(* An undo that meets no fault reports none.                               *)

\* Everything on the way to p that exists is an open directory.
ClearWay(t, p) ==
    \A q \in Above[p] \cap DOMAIN t : IsDirectory(t, q) /\ {"w", "x"} \subseteq t[q].mode

\* What hangs on p can be taken away.
OpenBelow(t, p) == \A d \in Below(t, p) : IsDirectory(t, d) => t[d].mode = Rights

\* On a clear way entries can be made and removed.
LEMMA ClearWayEdits ==
  ASSUME NEW t, NEW p, ClearWay(t, p)
  PROVE  CanEdit(t, p)
  BY DEF ClearWay, CanEdit

\* The directory right above a path below p is p or below it.
LEMMA ParentsBelow ==
  ASSUME NEW t, IsTree(t), NEW p \in Paths, NEW q \in Below(t, p), q # p, NEW d \in Parents(q)
  PROVE  d \in Below(t, p) /\ IsDirectory(t, d)
<1>1. q \in DOMAIN t /\ q \in Paths /\ p \in Above[q] /\ d \in Above[q] /\ Depth(d) = Depth(q) - 1
  BY DEF Below, Parents, IsTree
<1>2. d \in DOMAIN t /\ IsDirectory(t, d)
  BY <1>1 DEF IsTree, Closed
<1>3. d = p \/ d \in Above[p] \/ p \in Above[d]
  BY <1>1, WorkspaceAssumption
<1>4. d \notin Above[p]
  <2> SUFFICES ASSUME d \in Above[p] PROVE FALSE
    OBVIOUS
  <2>1. /\ Depth(d) \in Nat /\ Depth(p) \in Nat /\ Depth(q) \in Nat
        /\ Depth(d) < Depth(p) /\ Depth(p) < Depth(q)
    BY <1>1, DepthGrows
  <2> QED
    BY <1>1, <2>1
<1> QED
  BY <1>2, <1>3, <1>4 DEF Below

\* With the rights for it, and no fault, each operation succeeds.
LEMMA RemovalSucceeds ==
  ASSUME NEW t, IsTree(t), NEW p \in Paths, ClearWay(t, p), OpenBelow(t, p),
         NEW o \in Removals(t, p, FALSE)
  PROVE  o.ok = TRUE
<1>1. Stuck(t, p) = {}
  <2> SUFFICES ASSUME NEW q \in Stuck(t, p) PROVE FALSE
    OBVIOUS
  <2>1. q \in Below(t, p)
    BY DEF Stuck
  <2>2. CASE q = p /\ ~CanEdit(t, p)
    BY <2>2, ClearWayEdits
  <2>3. CASE q # p /\ \E d \in Parents(q) : t[d].mode # Rights
    BY <2>1, <2>3, ParentsBelow DEF OpenBelow
  <2>4. CASE IsDirectory(t, q) /\ "r" \notin t[q].mode
    BY <2>1, <2>4 DEF OpenBelow, Rights
  <2> QED
    BY <2>2, <2>3, <2>4 DEF Stuck
<1>2. o \in {Done(t), Done(Without(t, Below(t, p)))}
  BY <1>1 DEF Removals
<1> QED
  BY <1>2, OutcomeFields

LEMMA ReplacementSucceeds ==
  ASSUME NEW t, IsTree(t), NEW p \in Paths, ClearWay(t, p), ~LeadsAway(t, p),
         p \in DOMAIN t => t[p].type # "special",
         NEW e, (e.type = "directory" /\ IsDirectory(t, p)) \/ OpenBelow(t, p),
         NEW torn, NEW o \in Replacements(t, p, e, torn, FALSE)
  PROVE  o.ok = TRUE
<1> DEFINE Kept(c) == p \in DOMAIN c
           Able(c) == IF Kept(c) THEN c[p].type # "special" /\ CanEnter(c, p) ELSE CanEdit(c, p)
           Half(c) == IF Kept(c) \/ ~Able(c) THEN {}
                      ELSE {Without(With(c, p, e), {p})} \cup {With(c, p, x) : x \in torn}
           After(c) == (IF Able(c) THEN {Done(With(c, p, e))} ELSE {})
                 \cup (IF Able(c) /\ ~FALSE THEN {} ELSE {Failed(u) : u \in {c} \cup Half(c)})
<1>1. PICK c \in Clearings(t, p, e.type, FALSE) : o \in IF c.ok THEN After(c.tree) ELSE {c}
  BY DEF Replacements
<1>2. c.ok = TRUE
  <2>1. CASE e.type = "directory" /\ IsDirectory(t, p)
    BY <2>1, ClearingShrinks
  <2>2. CASE ~(e.type = "directory" /\ IsDirectory(t, p))
    <3>1. c \in Removals(t, p, FALSE)
      BY <2>2 DEF Clearings
    <3> QED
      BY <2>2, <3>1, RemovalSucceeds
  <2> QED
    BY <2>1, <2>2
<1> DEFINE d == c.tree
<1>3. Shrinks(t, d, p) /\ (p \in DOMAIN d => d = t)
  BY <1>2, ClearingShrinks
<1> HIDE DEF d
<1>4. ClearWay(d, p)
  BY <1>3 DEF Shrinks, ClearWay, IsDirectory
<1>5. Able(d)
  <2>1. CASE p \in DOMAIN d
    <3>1. Above[p] \subseteq DOMAIN d
      BY <1>3, <2>1 DEF Shrinks, IsTree, Closed
    <3>2. CanEnter(d, p)
      BY <1>4, <3>1 DEF ClearWay, CanEnter
    <3> QED
      BY <1>3, <2>1, <3>2
  <2>2. CASE p \notin DOMAIN d
    BY <1>4, <2>2, ClearWayEdits
  <2> QED
    BY <2>1, <2>2
<1>6. o = Done(With(d, p, e))
  BY <1>1, <1>2, <1>5 DEF d
<1> QED
  BY <1>6, OutcomeFields

LEMMA ModeRestorationSucceeds ==
  ASSUME NEW t, NEW p, ~LeadsAway(t, p), p \in DOMAIN t, t[p].type # "symlink", CanEnter(t, p),
         NEW e, NEW o \in ModeRestorations(t, p, e, FALSE)
  PROVE  o.ok = TRUE
<1>1. o = Done([t EXCEPT ![p].mode = e.mode])
  BY DEF ModeRestorations
<1> QED
  BY <1>1, OutcomeFields

\* The undo started on a tree it has every right to change, with nothing in the
\* place of what it is to restore that it could not remove, and met no fault.
Calm ==
    /\ ~faulted
    /\ \A p \in DOMAIN start : /\ IsDirectory(start, p) => start[p].mode = Rights
                               /\ start[p].type = "special" => p \notin DOMAIN manifest

\* The directories stay open until the last pass has done with them.
OpenDirectories ==
    \A p \in DOMAIN tree : IsDirectory(tree, p) =>
        \/ tree[p].mode = Rights
        \/ /\ p \in Directories(manifest) /\ pc # "remove"
           /\ {"w", "x"} \subseteq tree[p].mode \/ (pc \in {"modes", "done"} /\ p \notin todo)

Smooth ==
    /\ errors = {}
    /\ OpenDirectories
    /\ \A p \in DOMAIN tree : tree[p].type = "special" => p \notin DOMAIN manifest
    /\ pc = "modes" => \A p \in todo : Above[p] \subseteq todo

CalmInv == pc \in Passes \cup {"done"} /\ errors # {Store} /\ Calm => Settled /\ Smooth

\* With no error so far, the way to a recorded path is clear once the second
\* pass is past it.
LEMMA WayIsClear ==
  ASSUME WorkInv, Settled, Smooth, pc \in {"directories", "entries"},
         NEW p \in DOMAIN manifest, pc = "directories" => Above[p] \cap todo = {}
  PROVE  /\ p \in Paths /\ ClearWay(tree, p) /\ ~LeadsAway(tree, p)
         /\ p \in DOMAIN tree => tree[p].type # "special"
<1>1. p \in Paths /\ Above[p] \subseteq Directories(manifest)
  BY ManifestIsPlain DEF IsTree
<1>2. \A q \in Above[p] : IsDirectory(tree, q)
  BY <1>1, ManifestIsPlain DEF Settled, DirectoriesMade, Smooth, Named
<1>3. \A q \in Above[p] : {"w", "x"} \subseteq tree[q].mode
  BY <1>2 DEF Smooth, OpenDirectories, Rights, IsDirectory
<1> QED
  BY <1>1, <1>2, <1>3 DEF ClearWay, LeadsAway, IsDirectory, Smooth

\* Each pass of a calm undo leaves the next one the rights that it needs.
LEMMA SmoothRemove ==
  ASSUME WorkInv, Smooth, Remove, ~faulted'
  PROVE  Smooth'
<1>1. PICK p \in todo : /\ Progress(p) /\ Shrinks(tree, tree', p)
                        /\ Excused(errors' = errors, Removals(tree, p, FALSE))
  BY RemoveEffect
<1>2. pc = "remove" /\ pc' = "remove" /\ manifest' = manifest
  BY <1>1 DEF Progress, Remove
<1>3. IsTree(tree) /\ p \in Paths
  BY PassTodo DEF WorkInv, TypeOK
<1>4. \A q \in DOMAIN tree : IsDirectory(tree, q) => tree[q].mode = Rights
  BY <1>2 DEF Smooth, OpenDirectories
<1>5. \A o \in Removals(tree, p, FALSE) : o.ok = TRUE
  <2>1. CASE p \in DOMAIN tree
    <3>1. ClearWay(tree, p)
      BY <1>3, <1>4, <2>1 DEF ClearWay, IsTree, Closed, Rights
    <3>2. OpenBelow(tree, p)
      BY <1>4 DEF OpenBelow, Below
    <3> QED
      BY <1>3, <3>1, <3>2, RemovalSucceeds
  <2>2. CASE p \notin DOMAIN tree
    BY <2>2, OutcomeFields DEF Removals
  <2> QED
    BY <2>1, <2>2
<1>6. errors' = {}
  BY <1>1, <1>5 DEF Excused, Smooth
<1>7. OpenDirectories'
  BY <1>1, <1>4 DEF OpenDirectories, Shrinks, IsDirectory
<1> QED
  BY <1>1, <1>2, <1>6, <1>7 DEF Smooth, Shrinks

LEMMA SmoothDirectory ==
  ASSUME WorkInv, Settled, Smooth, RestoreDirectory, ~faulted'
  PROVE  Smooth'
<1>1. PICK p \in todo :
          /\ Progress(p) /\ Above[p] \cap todo = {}
          /\ Puts(tree, tree', p)
          /\ p \in DOMAIN tree' => \/ tree'[p] \in {NewDirectory, Opened(manifest[p])}
                                   \/ p \in DOMAIN tree /\ tree'[p] = tree[p]
          /\ Excused(errors' = errors,
                     Replacements(tree, p, Opened(manifest[p]), {NewDirectory}, FALSE))
  BY RestoreDirectoryEffect
<1>2. pc = "directories" /\ pc' = "directories" /\ manifest' = manifest
  BY <1>1 DEF Progress, RestoreDirectory
<1>3. p \in Directories(manifest) /\ p \in DOMAIN manifest /\ IsTree(tree)
  BY <1>2, PassTodo DEF Directories, WorkInv, TypeOK
<1>4. /\ Opened(manifest[p]).type = "directory"
      /\ {"w", "x"} \subseteq Opened(manifest[p]).mode
  BY <1>3, ManifestIsPlain, OpenedIsEntry
<1>5. NewDirectory.mode = Rights /\ NewDirectory.type = "directory"
  BY DEF NewDirectory
<1>6. \A o \in Replacements(tree, p, Opened(manifest[p]), {NewDirectory}, FALSE) : o.ok = TRUE
  <2>1. /\ p \in Paths /\ ClearWay(tree, p) /\ ~LeadsAway(tree, p)
        /\ p \in DOMAIN tree => tree[p].type # "special"
    BY <1>1, <1>2, <1>3, WayIsClear
  <2>2. ~IsDirectory(tree, p) => OpenBelow(tree, p)
    BY <1>3, <2>1, BelowIsClosed DEF OpenBelow
  <2> QED
    BY <1>3, <1>4, <2>1, <2>2, ReplacementSucceeds
<1>7. errors' = {}
  BY <1>1, <1>6 DEF Excused, Smooth
<1>8. ASSUME NEW q \in DOMAIN tree'
      PROVE  \/ q \in DOMAIN tree /\ tree'[q] = tree[q]
             \/ tree'[q] = NewDirectory
             \/ q = p /\ tree'[q] = Opened(manifest[p])
  BY <1>1, <1>8 DEF Puts
<1>9. OpenDirectories'
  BY <1>2, <1>3, <1>4, <1>5, <1>8 DEF Smooth, OpenDirectories, IsDirectory
<1>10. \A q \in DOMAIN tree' : tree'[q].type = "special" => q \notin DOMAIN manifest
  BY <1>4, <1>5, <1>8 DEF Smooth
<1> QED
  BY <1>2, <1>7, <1>9, <1>10 DEF Smooth

LEMMA SmoothEntry ==
  ASSUME WorkInv, Settled, Smooth, RestoreEntry, ~faulted'
  PROVE  Smooth'
<1>1. PICK p \in todo :
          /\ Progress(p)
          /\ Puts(tree, tree', p)
          /\ \/ p \in errors' \/ LeadsAway(tree, p)
             \/ p \in DOMAIN tree' /\ tree'[p] = manifest[p]
          /\ \E torn \in SUBSET Entries :
                Excused(errors' = errors, Replacements(tree, p, manifest[p], torn, FALSE))
  BY RestoreEntryEffect
<1>2. pc = "entries" /\ pc' = "entries" /\ manifest' = manifest
  BY <1>1 DEF Progress, RestoreEntry
<1>3. p \in DOMAIN manifest /\ p \notin Directories(manifest) /\ IsTree(tree)
  BY <1>2, PassTodo DEF WorkInv, TypeOK
<1>4. /\ p \in Paths /\ ClearWay(tree, p) /\ ~LeadsAway(tree, p)
      /\ p \in DOMAIN tree => tree[p].type # "special"
  BY <1>2, <1>3, WayIsClear
<1>5. OpenBelow(tree, p)
  <2> SUFFICES ASSUME NEW d \in Below(tree, p), IsDirectory(tree, d)
               PROVE  tree[d].mode = Rights
    BY DEF OpenBelow
  <2>1. d \in DOMAIN tree /\ d \notin Directories(manifest)
    BY <1>3, ManifestIsPlain DEF Below, Directories
  <2> QED
    BY <2>1 DEF Smooth, OpenDirectories
<1>6. \A torn : \A o \in Replacements(tree, p, manifest[p], torn, FALSE) : o.ok = TRUE
  BY <1>3, <1>4, <1>5, ReplacementSucceeds
<1>7. errors' = {}
  BY <1>1, <1>6 DEF Excused, Smooth
<1>8. p \in DOMAIN tree' /\ tree'[p] = manifest[p]
  BY <1>1, <1>4, <1>7
<1>9. manifest[p].type # "directory" /\ manifest[p].type # "special"
  BY <1>3, ManifestIsPlain DEF Directories
<1>10. ASSUME NEW q \in DOMAIN tree', q # p
       PROVE  \/ q \in DOMAIN tree /\ tree'[q] = tree[q]
              \/ tree'[q].type = "directory" /\ tree'[q].mode = Rights
  <2>1. NewDirectory.type = "directory" /\ NewDirectory.mode = Rights
    BY DEF NewDirectory
  <2> QED
    BY <1>1, <1>10, <2>1 DEF Puts
<1>11. OpenDirectories'
  BY <1>2, <1>8, <1>9, <1>10 DEF Smooth, OpenDirectories, IsDirectory
<1>12. \A q \in DOMAIN tree' : tree'[q].type = "special" => q \notin DOMAIN manifest
  BY <1>8, <1>9, <1>10 DEF Smooth
<1> QED
  BY <1>2, <1>7, <1>11, <1>12 DEF Smooth

LEMMA SmoothMode ==
  ASSUME WorkInv, Settled, Smooth, RestoreMode, ~faulted'
  PROVE  Smooth'
<1>1. PICK p \in todo :
          /\ Progress(p) /\ \A q \in todo : p \notin Above[q]
          /\ DOMAIN tree' = DOMAIN tree
          /\ \A q \in DOMAIN tree : q # p => tree'[q] = tree[q]
          /\ p \in DOMAIN tree => tree'[p].type = tree[p].type
          /\ Excused(errors' = errors, ModeRestorations(tree, p, manifest[p], FALSE))
  BY RestoreModeEffect
<1>2. pc = "modes" /\ pc' = "modes" /\ manifest' = manifest
  BY <1>1 DEF Progress, RestoreMode
<1>3. p \in Directories(manifest) /\ p \in Paths /\ IsTree(tree)
  BY <1>2, PassTodo DEF WorkInv, TypeOK
<1>4. IsDirectory(tree, p)
  BY <1>2, <1>3 DEF Settled, DirectoriesMade, Smooth, Named
<1>5. \A q \in Above[p] : IsDirectory(tree, q)
  BY <1>3, <1>4 DEF IsTree, Closed, IsDirectory
<1>6. \A q \in Above[p] : "x" \in tree[q].mode
  BY <1>2, <1>5 DEF Smooth, OpenDirectories, IsDirectory, Rights
<1>7. \A o \in ModeRestorations(tree, p, manifest[p], FALSE) : o.ok = TRUE
  BY <1>4, <1>5, <1>6, ModeRestorationSucceeds DEF LeadsAway, IsDirectory, CanEnter
<1>8. errors' = {}
  BY <1>1, <1>7 DEF Excused, Smooth
<1>9. \A q \in DOMAIN tree : tree'[q].type = tree[q].type
  BY <1>1
<1>10. OpenDirectories'
  <2> SUFFICES ASSUME NEW q \in DOMAIN tree, IsDirectory(tree, q), q # p, tree[q].mode # Rights
               PROVE  /\ q \in Directories(manifest)
                      /\ {"w", "x"} \subseteq tree[q].mode \/ q \notin todo'
    BY <1>1, <1>2, <1>3, <1>9 DEF OpenDirectories, IsDirectory, Progress
  <2> QED
    BY <1>1, <1>2 DEF Smooth, OpenDirectories, Progress
<1>11. \A q \in todo' : Above[q] \subseteq todo'
  BY <1>1, <1>2 DEF Smooth, Progress
<1> QED
  BY <1>1, <1>2, <1>8, <1>9, <1>10, <1>11 DEF Smooth

LEMMA SmoothNextPass ==
  ASSUME WorkInv, Smooth, NextPass
  PROVE  Smooth'
<1>1. UNCHANGED <<tree, manifest, errors>> /\ todo = {}
  BY DEF NextPass
<1>2. \/ pc = "remove" /\ pc' = "directories"
      \/ pc = "directories" /\ pc' = "entries"
      \/ pc = "entries" /\ pc' = "modes" /\ todo' = Directories(manifest)
      \/ pc = "modes" /\ pc' = "done" /\ todo' = {}
  BY DEF NextPass
<1>3. OpenDirectories'
  BY <1>1, <1>2 DEF Smooth, OpenDirectories, Directories, IsDirectory
<1>4. \A p \in Directories(manifest) : Above[p] \subseteq Directories(manifest)
  BY ManifestIsPlain DEF Directories
<1> QED
  BY <1>1, <1>2, <1>3, <1>4 DEF Smooth

\* A calm undo starts with nothing settled wrongly and every right.
LEMMA CalmUndo ==
  ASSUME WorkInv, Undo, errors' # {Store}, Calm'
  PROVE  Settled' /\ Smooth'
<1>1. /\ pc' = "remove" /\ errors' = {} /\ UNCHANGED <<tree, manifest>>
      /\ start' = tree /\ todo' = DOMAIN Scanned(tree) \ DOMAIN manifest
  BY DEF Undo
<1>2. \A p \in DOMAIN tree : /\ IsDirectory(tree, p) => tree[p].mode = Rights
                             /\ tree[p].type = "special" => p \notin DOMAIN manifest
  BY <1>1 DEF Calm
<1>3. Scanned(tree) = Plain(tree)
  BY <1>2, ListedScan DEF Listed, Rights, WorkInv, TypeOK
<1>4. NewNamed'
  BY <1>1, <1>3 DEF NewNamed, Plain
<1>5. Settled'
  BY <1>1, <1>4 DEF Settled, DirectoriesMade, EntriesMade, ModesMade
<1>6. OpenDirectories'
  BY <1>1, <1>2 DEF OpenDirectories, IsDirectory
<1> QED
  BY <1>1, <1>2, <1>5, <1>6 DEF Smooth

LEMMA CalmStep ==
  ASSUME WorkInv, CalmInv, [Next]_vars
  PROVE  CalmInv'
<1> SUFFICES ASSUME pc' \in Passes \cup {"done"}, errors' # {Store}, Calm'
             PROVE  Settled' /\ Smooth'
  BY DEF CalmInv
<1>1. pc \in Passes => errors # {Store}
  BY DEF WorkInv
<1>2. CASE Command \/ LoseBlob \/ Killed
  BY <1>2 DEF Command, LoseBlob, Killed, Passes
<1>3. CASE Undo
  BY <1>3, CalmUndo
<1>4. CASE NextPass
  <2>1. Calm /\ pc \in Passes
    BY <1>4 DEF NextPass, Calm
  <2>2. Settled /\ Smooth
    BY <1>1, <2>1 DEF CalmInv
  <2> QED
    BY <1>4, <2>2, SettledNextPass, SmoothNextPass
<1>5. CASE Remove \/ RestoreDirectory \/ RestoreEntry \/ RestoreMode
  <2>1. pc \in Passes
    BY <1>5 DEF Remove, RestoreDirectory, RestoreEntry, RestoreMode, Passes
  <2>2. \E p : Progress(p)
    BY <1>5, RemoveEffect, RestoreDirectoryEffect, RestoreEntryEffect, RestoreModeEffect
  <2>3. ~faulted
    BY <1>5, RemoveEffect, RestoreDirectoryEffect, RestoreEntryEffect, RestoreModeEffect
       DEF Excused, Calm
  <2>4. Calm
    BY <2>2, <2>3 DEF Progress, Calm
  <2>5. Settled /\ Smooth
    BY <1>1, <2>1, <2>4 DEF CalmInv
  <2>6. Settled'
    BY <1>5, <2>5, SettledRemove, SettledDirectory, SettledEntry, SettledMode
  <2>7. Smooth'
    BY <1>5, <2>5, SmoothRemove, SmoothDirectory, SmoothEntry, SmoothMode DEF Calm
  <2> QED
    BY <2>6, <2>7
<1>6. CASE UNCHANGED vars
  BY <1>6 DEF vars, CalmInv, Calm, Settled, NewNamed, DirectoriesMade, EntriesMade, ModesMade,
              Named, AsRecorded, Plain, Directories, IsDirectory, Smooth, OpenDirectories
<1> QED
  BY <1>2, <1>3, <1>4, <1>5, <1>6 DEF Next

\* An undo that meets no fault, no pipe in the place of what it must restore and
\* no directory closed to it reports no error, whatever the snapshot holds.
THEOREM NoFalseAlarms == Spec => []NoFalseAlarm
<1>1. Init => CalmInv
  BY DEF Init, CalmInv, Passes
<1>2. WorkInv /\ CalmInv /\ [Next]_vars => CalmInv'
  BY CalmStep
<1>3. CalmInv => NoFalseAlarm
  BY DEF CalmInv, Calm, Smooth, NoFalseAlarm
<1> QED
  BY <1>1, <1>2, <1>3, WorkInvariant, PTL DEF Spec

\* An undo that met nothing in its way has put everything back.
CalmUndoRestores == pc = "done" /\ errors # {Store} /\ Calm => Plain(tree) = Plain(original)

\* So, where directories can be listed, such an undo restores the workspace.
THEOREM CalmUndosRestore == Listable => (Spec => []CalmUndoRestores)
<1> SUFFICES ASSUME Listable PROVE Spec => []CalmUndoRestores
  OBVIOUS
<1>1. NoFalseAlarm /\ CleanUndoRestores => CalmUndoRestores
  BY DEF NoFalseAlarm, CleanUndoRestores, CalmUndoRestores, Calm
<1> QED
  BY <1>1, NoFalseAlarms, CleanUndosRestore, PTL

-----------------------------------------------------------------------------
(* Rollback implements UndoContract.                                       *)

UndoStep == [Contract!UndoNext]_(Contract!undoVars)

\* The contract speaks of the same trees, in the same words.
LEMMA SameWords ==
  /\ Contract!Trees = Trees
  /\ \A t : Contract!Plain(t) = Plain(t)
  /\ \A t, u : Contract!Differ(t, u) = Differ(t, u)
  /\ \A t, p : Contract!IsDirectory(t, p) = IsDirectory(t, p)
  BY DEF Contract!Trees, Contract!Closed, Contract!Plain, Contract!Restrict, Contract!Differ,
         Contract!IsDirectory, Trees, Closed, Plain, Restrict, Differ, IsDirectory

\* A path that a pass has done with is right or named, since it is settled.
LEMMA SettledIsRight ==
  ASSUME WorkInv, ListedInv, Settled', pc \in Passes, NEW p \in todo, Progress(p)
  PROVE  (Contract!Right(p) \/ Contract!Named(p))'
<1>1. manifest = Plain(original) /\ manifest' = Plain(original')
  BY ListedScan DEF WorkInv, TypeOK, ListedInv, Progress
<1>2. p \notin todo' /\ pc' = pc /\ manifest' = manifest
  BY DEF Progress
<1>3. SUFFICES ASSUME ~Named(p)'
               PROVE  Contract!Right(p)'
  BY DEF Contract!Named, Named
<1>4. ASSUME p \notin DOMAIN manifest PROVE p \notin DOMAIN Plain(tree')
  BY <1>2, <1>3, <1>4 DEF Settled, NewNamed, Named
<1>5. ASSUME p \in Directories(manifest) PROVE IsDirectory(tree', p)
  BY <1>2, <1>3, <1>5, PassTodo DEF Settled, DirectoriesMade, Directories, Passes
<1>6. ASSUME p \in DOMAIN manifest \ Directories(manifest)
      PROVE  p \in DOMAIN tree' /\ tree'[p] = manifest[p]
  BY <1>2, <1>3, <1>6, PassTodo DEF Settled, EntriesMade, AsRecorded, Directories, Passes
<1> QED
  BY <1>1, <1>2, <1>4, <1>5, <1>6, SameWords DEF Contract!Right, Directories, IsDirectory

\* An operation that leaves what is beside its path alone handles the path.
LEMMA OperationHandles ==
  ASSUME WorkInv, ListedInv, Settled', pc \in Passes, NEW p \in todo, Progress(p),
         \A q \in DOMAIN tree \ DOMAIN tree' :
            q = p \/ (p \in Above[q] /\ q \notin DOMAIN manifest),
         \A q \in DOMAIN tree' :
            \/ q \in DOMAIN tree /\ tree'[q] = tree[q]
            \/ q = p /\ p \in DOMAIN manifest
            \/ q \in Above[p] \ DOMAIN tree /\ q \in Directories(manifest) /\ IsDirectory(tree', q)
  PROVE  UndoStep
<1>1. manifest = Plain(original) /\ p \in Paths
  BY ListedScan, PassTodo DEF WorkInv, TypeOK, ListedInv
<1>2. (Contract!Right(p) \/ Contract!Named(p))'
  BY SettledIsRight
<1>3. errors' \in {errors, errors \cup {p}}
  BY DEF Progress
<1>4. \A q : q \in Directories(manifest) <=> Contract!IsDirectory(Plain(original), q)
  BY <1>1, SameWords DEF Directories, IsDirectory
<1>5. \A q : Contract!IsDirectory(tree', q) <=> IsDirectory(tree', q)
  BY SameWords
<1>6. Contract!Handle(p)
  BY <1>1, <1>2, <1>3, <1>4, <1>5 DEF Contract!Handle, Progress, Passes
<1> QED
  BY <1>1, <1>6 DEF UndoStep, Contract!UndoNext

\* Each pass handles a path as the contract has it.
LEMMA RemoveHandles ==
  ASSUME WorkInv, ListedInv, Settled', Remove
  PROVE  UndoStep
<1>1. PICK p \in todo : Progress(p) /\ Shrinks(tree, tree', p)
  BY RemoveEffect
<1>2. pc \in Passes /\ p \notin DOMAIN manifest
  BY PassTodo DEF Remove, Passes
<1>3. \A q \in DOMAIN manifest : p \notin Above[q]
  BY <1>2, ManifestIsPlain DEF Directories
<1>4. \A q \in DOMAIN tree \ DOMAIN tree' : q = p \/ p \in Above[q]
  BY <1>1 DEF Shrinks, Below
<1> QED
  BY <1>1, <1>2, <1>3, <1>4, OperationHandles DEF Shrinks

LEMMA DirectoryHandles ==
  ASSUME WorkInv, ListedInv, Settled', RestoreDirectory
  PROVE  UndoStep
<1>1. PICK p \in todo : /\ Progress(p) /\ Puts(tree, tree', p)
                        /\ IsDirectory(tree, p) => DOMAIN tree \subseteq DOMAIN tree'
  BY RestoreDirectoryEffect
<1>2. pc \in Passes /\ p \in Directories(manifest) /\ p \in Paths /\ IsTree(tree)
  BY PassTodo DEF RestoreDirectory, Passes, WorkInv, TypeOK
<1>3. p \in DOMAIN manifest /\ Above[p] \subseteq Directories(manifest)
  BY <1>2, ManifestIsPlain DEF Directories
<1>4. DOMAIN tree \ DOMAIN tree' \subseteq {p}
  <2>1. CASE IsDirectory(tree, p)
    BY <1>1, <2>1
  <2>2. CASE ~IsDirectory(tree, p)
    BY <1>1, <1>2, <2>2, BelowIsClosed DEF Puts
  <2> QED
    BY <2>1, <2>2
<1>5. \A q \in DOMAIN tree' \ DOMAIN tree : q = p \/ (q \in Above[p] /\ IsDirectory(tree', q))
  BY <1>1, NewDirectoryIsEntry DEF Puts, IsDirectory
<1>6. \A q \in DOMAIN tree' \cap DOMAIN tree : q = p \/ tree'[q] = tree[q]
  BY <1>1 DEF Puts
<1> QED
  BY <1>1, <1>2, <1>3, <1>4, <1>5, <1>6, OperationHandles

LEMMA EntryHandles ==
  ASSUME WorkInv, ListedInv, Settled', RestoreEntry
  PROVE  UndoStep
<1>1. PICK p \in todo : Progress(p) /\ Puts(tree, tree', p)
  BY RestoreEntryEffect
<1>2. pc \in Passes /\ p \in DOMAIN manifest /\ p \notin Directories(manifest)
  BY PassTodo DEF RestoreEntry, Passes
<1>3. /\ Above[p] \subseteq Directories(manifest)
      /\ \A q \in DOMAIN manifest : p \notin Above[q]
  BY <1>2, ManifestIsPlain
<1>4. \A q \in DOMAIN tree \ DOMAIN tree' : q = p \/ p \in Above[q]
  BY <1>1 DEF Puts, Below
<1>5. \A q \in DOMAIN tree' \ DOMAIN tree : q = p \/ (q \in Above[p] /\ IsDirectory(tree', q))
  BY <1>1, NewDirectoryIsEntry DEF Puts, IsDirectory
<1>6. \A q \in DOMAIN tree' \cap DOMAIN tree : q = p \/ tree'[q] = tree[q]
  BY <1>1 DEF Puts
<1> QED
  BY <1>1, <1>2, <1>3, <1>4, <1>5, <1>6, OperationHandles

LEMMA ModeHandles ==
  ASSUME WorkInv, ListedInv, Settled', RestoreMode
  PROVE  UndoStep
<1>1. PICK p \in todo : /\ Progress(p)
                        /\ DOMAIN tree' = DOMAIN tree
                        /\ \A q \in DOMAIN tree : q # p => tree'[q] = tree[q]
  BY RestoreModeEffect
<1>2. pc \in Passes /\ p \in DOMAIN manifest
  BY PassTodo DEF RestoreMode, Passes, Directories
<1> QED
  BY <1>1, <1>2, OperationHandles

\* What is no step on a path is none of the contract or one of its other actions.
LEMMA OtherSteps ==
  ASSUME WorkInv, ListedInv, SettledInv,
         Command \/ LoseBlob \/ Undo \/ NextPass \/ Killed \/ UNCHANGED vars
  PROVE  UndoStep
<1> USE DEF UndoStep, Contract!UndoNext
<1>1. CASE Command
  <2>1. Contract!Change
    BY <1>1, SameWords DEF Contract!Change, Command, Passes
  <2> QED
    BY <2>1
<1>2. CASE LoseBlob
  <2>1. (Digests(manifest) \subseteq blobs)' = FALSE
    BY <1>2 DEF LoseBlob, WorkInv, TypeOK
  <2>2. Contract!Rot
    BY <1>2, <2>1 DEF Contract!Rot, LoseBlob, Passes
  <2> QED
    BY <2>2
<1>3. CASE Undo
  <2>1. CASE Digests(manifest) \subseteq blobs
    <3>1. Contract!Begin
      BY <1>3, <2>1 DEF Contract!Begin, Undo, Passes
    <3> QED
      BY <3>1
  <2>2. CASE ~(Digests(manifest) \subseteq blobs)
    <3>1. Contract!Refuse
      BY <1>3, <2>2 DEF Contract!Refuse, Undo, Passes
    <3> QED
      BY <3>1
  <2> QED
    BY <2>1, <2>2
<1>4. CASE NextPass
  <2>1. CASE pc = "modes"
    <3>1. Settled /\ todo = {}
      BY <1>4, <2>1 DEF NextPass, SettledInv, WorkInv, Passes
    <3>2. \A p \in Differ(Plain(original), Plain(tree)) : Named(p)
      BY <2>1, <3>1, SettledIsReported
    <3>3. \A p \in Contract!Differ(Plain(original), Contract!Plain(tree)) : Contract!Named(p)
      BY <3>2, SameWords DEF Contract!Named, Named
    <3>4. Contract!End
      BY <1>4, <2>1, <3>3 DEF Contract!End, NextPass, Passes
    <3> QED
      BY <3>4
  <2>2. CASE pc # "modes"
    BY <1>4, <2>2 DEF NextPass, Passes, Contract!undoVars
  <2> QED
    BY <2>1, <2>2
<1>5. CASE Killed
  <2>1. Contract!Die
    BY <1>5 DEF Contract!Die, Killed, Passes
  <2> QED
    BY <2>1
<1>6. CASE UNCHANGED vars
  BY <1>6 DEF vars, Contract!undoVars
<1> QED
  BY <1>1, <1>2, <1>3, <1>4, <1>5, <1>6

\* Whatever order the passes go in, and whatever fails or is killed, the
\* rollback is an undo as UndoContract promises it.
THEOREM RollbackKeepsContract == Listable => (Spec => ImplementsUndo)
<1> SUFFICES ASSUME Listable PROVE Spec => ImplementsUndo
  OBVIOUS
<1>1. Init => Contract!UndoInit
  BY SameWords DEF Init, Contract!UndoInit, Passes
<1>2. WorkInv /\ ListedInv /\ SettledInv /\ SettledInv' /\ [Next]_vars => UndoStep
  <2> SUFFICES ASSUME WorkInv, ListedInv, SettledInv, SettledInv', [Next]_vars
               PROVE  UndoStep
    OBVIOUS
  <2>1. CASE Command \/ LoseBlob \/ Undo \/ NextPass \/ Killed \/ UNCHANGED vars
    BY <2>1, OtherSteps
  <2>2. CASE Remove \/ RestoreDirectory \/ RestoreEntry \/ RestoreMode
    <3>1. WorkInv' /\ pc' = pc /\ pc \in Passes
      BY <2>2, RemoveEffect, RestoreDirectoryEffect, RestoreEntryEffect, RestoreModeEffect
      DEF Remove, RestoreDirectory, RestoreEntry, RestoreMode, Progress, Passes
    <3>2. Settled'
      BY <3>1 DEF SettledInv, WorkInv
    <3> QED
      BY <2>2, <3>2, RemoveHandles, DirectoryHandles, EntryHandles, ModeHandles
  <2> QED
    BY <2>1, <2>2 DEF Next
<1> QED
  BY <1>1, <1>2, SettledInvariant, PTL
  DEF Spec, ImplementsUndo, Contract!UndoSpec, UndoStep
=============================================================================
