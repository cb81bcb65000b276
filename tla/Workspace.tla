------------------------------ MODULE Workspace ------------------------------
(***************************************************************************)
(* The directory tree that safe-run guards, as snapshot/snapshot.py and    *)
(* snapshot/diff.py see it.  A path stands for its relative key; .saep and *)
(* .git (_EXCLUDED_ROOT_NAMES) hold no path.  A tree is a function from    *)
(* the paths that exist to their entries.                                  *)
(***************************************************************************)
EXTENDS FiniteSets, Functions

CONSTANTS
    Paths,    \* the keys a tree may have
    Above,    \* the directories that lead to each path, the root left out
    Entries   \* what may stand at a path

Types  == {"file", "symlink", "directory", "special"}
Rights == {"r", "w", "x"}

\* An entry is a record of three: its data are a file's bytes (equivalently
\* their digest) or a link's target; its mode, the owner's rights, which of a
\* link are always all.  A directory that can be listed can be entered: in one
\* that cannot, lstat raises and every command stops there.
IsEntry(e) ==
    /\ e = [type |-> e.type, data |-> e.data, mode |-> e.mode]
    /\ e.type \in Types /\ e.mode \subseteq Rights
    /\ e.type = "directory" => e.data = "" /\ ("r" \in e.mode => "x" \in e.mode)
    /\ e.type = "symlink" => e.mode = Rights

\* Of two directories that lead to a path one leads to the other.
ASSUME WorkspaceAssumption ==
    /\ IsFiniteSet(Paths)
    /\ Above \in [Paths -> SUBSET Paths]
    /\ \A p \in Paths : p \notin Above[p] /\ \A q \in Above[p] : Above[q] \subseteq Above[p]
    /\ \A p \in Paths : \A q, r \in Above[p] : q = r \/ q \in Above[r] \/ r \in Above[q]
    /\ \A e \in Entries : IsEntry(e)

Depth(p)     == Cardinality(Above[p])
Parents(p)   == {q \in Above[p] : Depth(q) = Depth(p) - 1}   \* at most one
Below(t, p)  == {q \in DOMAIN t : q = p \/ p \in Above[q]}
Without(t, ps) == Restrict(t, DOMAIN t \ ps)

IsDirectory(t, p) == p \in DOMAIN t /\ t[p].type = "directory"

Closed(ps, t) == \A p \in ps : \A q \in Above[p] : q \in ps /\ IsDirectory(t, q)

IsTree(t) ==
    /\ DOMAIN t \subseteq Paths /\ Closed(DOMAIN t, t)
    /\ \A p \in DOMAIN t : IsEntry(t[p])

Trees == {t \in UNION {[ps -> Entries] : ps \in SUBSET Paths} : Closed(DOMAIN t, t)}

-----------------------------------------------------------------------------
\* rglob passes over, silently, what is below a directory it cannot list, and
\* an entry that is no file, symlink or directory is recorded by nobody.
Scanned(t) ==
    Restrict(t, {p \in DOMAIN t : /\ \A q \in Above[p] : "r" \in t[q].mode
                                  /\ t[p].type # "special"})

\* Mutant: modes are compared for files only.
ChangedFilesOnly(before, after) ==
    \/ before.type # after.type
    \/ before.type # "directory" /\ before.data # after.data
    \/ before.type = "file" /\ before.mode # after.mode

\* A symlink's mode is not compared.
Changed(before, after) ==
    \/ before.type # after.type
    \/ before.type # "directory" /\ before.data # after.data
    \/ before.type # "symlink" /\ before.mode # after.mode

Diff(manifest, live) ==
    LET after == Scanned(live)
        Change(kind, ps) == {[path |-> p, kind |-> kind] : p \in ps}
    IN  Change("deleted", DOMAIN manifest \ DOMAIN after)
        \cup Change("created", DOMAIN after \ DOMAIN manifest)
        \cup Change("modified", {p \in DOMAIN manifest \cap DOMAIN after :
                                    Changed(manifest[p], after[p])})

\* The digests of the blobs that a manifest refers to.
Digests(manifest) == {manifest[p].data : p \in {q \in DOMAIN manifest : manifest[q].type = "file"}}

\* What the snapshot is about: a tree without its pipes, sockets and devices.
Plain(t) == Restrict(t, {p \in DOMAIN t : t[p].type # "special"})

Differ(t, u) ==
    {p \in DOMAIN t \cup DOMAIN u :
        p \in DOMAIN t \cap DOMAIN u => t[p] # u[p]}
=============================================================================
