------------------------------- MODULE Rollback -------------------------------
(***************************************************************************)
(* safe-run undo on one workspace: snapshot/rollback.py.  A snapshot has   *)
(* been taken, a command has done to the workspace what it liked, and the  *)
(* rollback goes over the paths in its four passes.  An operation on one   *)
(* path is one action, which fails when the rights of the directories say  *)
(* so or, for the paths in Faulty, for any reason; a failure is recorded   *)
(* and the rollback goes on.  The process may die between two paths, and   *)
(* the undo be called again on what is left.                               *)
(***************************************************************************)
EXTENDS Workspace

CONSTANTS
    Faulty,   \* paths on which an operation may fail for want of space, ...
    Store     \* stands for the snapshot's store in the report's errors

ASSUME RollbackAssumption == Faulty \subseteq Paths /\ Store \notin Paths

VARIABLES
    tree,      \* the live tree
    original,  \* the tree when the snapshot was taken (history)
    start,     \* the tree when the undo began (history)
    manifest,  \* the entries of the snapshot
    blobs,     \* the digests whose blob is there and intact
    pc,        \* what the undo is doing
    todo,      \* the paths left in this pass
    errors,    \* the paths (or Store) the report names in its errors
    faulted    \* an operation failed that the rights allowed (history)

vars == <<tree, original, start, manifest, blobs, pc, todo, errors, faulted>>

Passes == {"remove", "directories", "entries", "modes"}

Directories(m) == {p \in DOMAIN m : m[p].type = "directory"}

-----------------------------------------------------------------------------
(* What one operation on a path may do to a tree: a set of outcomes.       *)

Done(t)   == [tree |-> t, ok |-> TRUE]
Failed(t) == [tree |-> t, ok |-> FALSE]

CanEnter(t, p) == \A q \in Above[p] : "x" \in t[q].mode

\* Entries may be made and removed at p: every directory on the way can be
\* entered and the last one that exists can be written.
CanEdit(t, p) ==
    LET way == Above[p] \cap DOMAIN t
    IN  \A q \in way : /\ IsDirectory(t, q)
                       /\ "x" \in t[q].mode
                       /\ (\A r \in way \ {q} : r \in Above[q]) => "w" \in t[q].mode

\* What keeps an unlink or rmtree of p from removing everything below it.
Stuck(t, p) ==
    {q \in Below(t, p) :
        \/ q = p /\ ~CanEdit(t, p)
        \/ q # p /\ \E d \in Parents(q) : t[d].mode # Rights
        \/ IsDirectory(t, q) /\ "r" \notin t[q].mode}

\* _remove_path: a link or file is unlinked, a directory goes with what is in
\* it, or in part when rmtree meets an error; anything else is left.
Removals(t, p, mayFail) ==
    LET held  == Stuck(t, p)
        parts == {Without(t, ps) : ps \in {qs \in SUBSET (Below(t, p) \ (held \cup {p})) :
                                              Closed(DOMAIN t \ qs, t)}}
        broken == IF held # {} \/ mayFail THEN {Failed(u) : u \in parts} ELSE {}
        whole  == IF held = {} THEN {Done(Without(t, Below(t, p)))} ELSE {}
    IN  IF p \notin DOMAIN t \/ t[p].type = "special" THEN {Done(t)} ELSE broken \cup whole

\* Mutant: a directory is cleared away for a directory.
ClearingsAlways(t, p, type, mayFail) == Removals(t, p, mayFail)

\* _clear_existing_path
Clearings(t, p, type, mayFail) ==
    IF type = "directory" /\ IsDirectory(t, p) THEN {Done(t)} ELSE Removals(t, p, mayFail)

NewDirectory == [type |-> "directory", data |-> "", mode |-> Rights]

\* Mutant: path.parent.mkdir is gone.
WithNoParents(t, p, e) == [q \in DOMAIN t \cup {p} |-> IF q = p THEN e ELSE t[q]]

\* mkdir(parents=True): what is missing on the way is made with all rights.
With(t, p, e) ==
    LET missing == Above[p] \ DOMAIN t
    IN  [q \in DOMAIN t \cup missing \cup {p} |->
            IF q = p THEN e
            ELSE IF q \in missing THEN NewDirectory
            ELSE t[q]]

\* A link where the snapshot has a directory (its own restoration failed) is
\* followed: what is done below it is done elsewhere, or fails.
LeadsAway(t, p) == \E q \in Above[p] : q \in DOMAIN t /\ t[q].type = "symlink"

\* Clear p, make what is missing on the way to it and put e there.  A call that
\* breaks off may leave one of torn instead.
Replacements(t, p, e, torn, mayFail) ==
    LET Kept(c) == p \in DOMAIN c
        Able(c) == IF Kept(c) THEN c[p].type # "special" /\ CanEnter(c, p) ELSE CanEdit(c, p)
        Half(c) == IF Kept(c) \/ ~Able(c) THEN {}
                   ELSE {Without(With(c, p, e), {p})} \cup {With(c, p, f) : f \in torn}
        After(c) == (IF Able(c) THEN {Done(With(c, p, e))} ELSE {})
                    \cup (IF Able(c) /\ ~mayFail THEN {} ELSE {Failed(u) : u \in {c} \cup Half(c)})
    IN  IF LeadsAway(t, p)
        THEN {Done(t), Failed(t)}
        ELSE UNION {IF c.ok THEN After(c.tree) ELSE {c} : c \in Clearings(t, p, e.type, mayFail)}

\* Mutant: temporary_writable=False.
DirectoryRestorationsAsRecorded(t, p, e, mayFail) == Replacements(t, p, e, {NewDirectory}, mayFail)

\* _restore_directory(temporary_writable=True): until the last pass the owner
\* may write and enter.
DirectoryRestorations(t, p, e, mayFail) ==
    Replacements(t, p, [e EXCEPT !.mode = @ \cup {"w", "x"}], {NewDirectory}, mayFail)

\* _restore_entry of a file or symlink: a copy that breaks off leaves some file.
EntryRestorations(t, p, e, mayFail) ==
    Replacements(t, p, e, IF e.type = "file" THEN {f \in Entries : f.type = "file"} ELSE {}, mayFail)

\* os.chmod(path, entry["mode"]): it follows links, and takes a file as well.
ModeRestorations(t, p, e, mayFail) ==
    IF LeadsAway(t, p) \/ (p \in DOMAIN t /\ t[p].type = "symlink") THEN {Done(t), Failed(t)}
    ELSE IF p \notin DOMAIN t \/ ~CanEnter(t, p) THEN {Failed(t)}
    ELSE {Done([t EXCEPT ![p].mode = e.mode])} \cup (IF mayFail THEN {Failed(t)} ELSE {})

-----------------------------------------------------------------------------
Init ==
    /\ original \in Trees /\ tree = original /\ start = original
    /\ manifest = Scanned(original)                          \* create_snapshot
    /\ blobs = Digests(manifest)
    /\ pc = "ready" /\ todo = {} /\ errors = {} /\ faulted = FALSE

\* The command, or whoever works in the workspace between two undos.
Command ==
    /\ pc \in {"ready", "done"}
    /\ tree' \in Trees
    /\ pc' = "ready" /\ errors' = {} /\ faulted' = FALSE
    /\ UNCHANGED <<original, start, manifest, blobs, todo>>

LoseBlob ==
    /\ pc = "ready"
    /\ \E digest \in blobs : blobs' = blobs \ {digest}
    /\ UNCHANGED <<tree, original, start, manifest, pc, todo, errors, faulted>>

\* Mutant: what was modified is removed as well.
UndoRemovesModified ==
    /\ pc = "ready"
    /\ start' = tree
    /\ IF Digests(manifest) \subseteq blobs
       THEN /\ pc' = "remove"
            /\ todo' = {c.path : c \in {d \in Diff(manifest, tree) : d.kind # "deleted"}}
            /\ errors' = {}
       ELSE /\ pc' = "done"
            /\ todo' = {}
            /\ errors' = {Store}
    /\ UNCHANGED <<tree, original, manifest, blobs, faulted>>

\* _preflight_snapshot, then the scan that says what to remove.
Undo ==
    /\ pc = "ready"
    /\ start' = tree
    /\ IF Digests(manifest) \subseteq blobs
       THEN /\ pc' = "remove"
            /\ todo' = DOMAIN Scanned(tree) \ DOMAIN manifest
            /\ errors' = {}
       ELSE /\ pc' = "done"
            /\ todo' = {}
            /\ errors' = {Store}
    /\ UNCHANGED <<tree, original, manifest, blobs, faulted>>

Deepest(ps)    == {p \in ps : \A q \in ps : Depth(q) <= Depth(p)}
Shallowest(ps) == {p \in ps : \A q \in ps : Depth(p) <= Depth(q)}

\* One pass's operation on p, with the outcome that occurs.
Operate(p, Outcomes(_)) ==
    \E o \in Outcomes(p \in Faulty) :
        /\ tree' = o.tree
        /\ errors' = IF o.ok THEN errors ELSE errors \cup {p}
        /\ faulted' = (faulted \/ o \notin Outcomes(FALSE))
        /\ todo' = todo \ {p}
        /\ UNCHANGED <<original, start, manifest, blobs, pc>>

Remove ==
    /\ pc = "remove"
    /\ \E p \in Deepest(todo) : Operate(p, LAMBDA f: Removals(tree, p, f))

RestoreDirectory ==
    /\ pc = "directories"
    /\ \E p \in Shallowest(todo) :
          Operate(p, LAMBDA f: DirectoryRestorations(tree, p, manifest[p], f))

RestoreEntry ==
    /\ pc = "entries"
    /\ \E p \in Shallowest(todo) :
          Operate(p, LAMBDA f: EntryRestorations(tree, p, manifest[p], f))

RestoreMode ==
    /\ pc = "modes"
    /\ \E p \in Deepest(todo) :
          Operate(p, LAMBDA f: ModeRestorations(tree, p, manifest[p], f))

\* Mutant: the modes are left as the second pass made them.
NextPassNoModes ==
    /\ pc \in Passes /\ todo = {}
    /\ \/ pc = "remove" /\ pc' = "directories" /\ todo' = Directories(manifest)
       \/ pc = "directories" /\ pc' = "entries" /\ todo' = DOMAIN manifest \ Directories(manifest)
       \/ pc = "entries" /\ pc' = "done" /\ todo' = {}
    /\ UNCHANGED <<tree, original, start, manifest, blobs, errors, faulted>>

NextPass ==
    /\ pc \in Passes /\ todo = {}
    /\ \/ pc = "remove" /\ pc' = "directories" /\ todo' = Directories(manifest)
       \/ pc = "directories" /\ pc' = "entries" /\ todo' = DOMAIN manifest \ Directories(manifest)
       \/ pc = "entries" /\ pc' = "modes" /\ todo' = Directories(manifest)
       \/ pc = "modes" /\ pc' = "done" /\ todo' = {}
    /\ UNCHANGED <<tree, original, start, manifest, blobs, errors, faulted>>

\* The undo is killed; what it has done stays.
Killed ==
    /\ pc \in Passes
    /\ pc' = "ready" /\ todo' = {} /\ errors' = {} /\ faulted' = FALSE
    /\ UNCHANGED <<tree, original, start, manifest, blobs>>

Next ==
    \/ Command \/ LoseBlob \/ Undo \/ NextPass \/ Killed
    \/ Remove \/ RestoreDirectory \/ RestoreEntry \/ RestoreMode

Spec == Init /\ [][Next]_vars

-----------------------------------------------------------------------------
TypeOK ==
    /\ \A t \in {tree, original, start, manifest} : IsTree(t)
    /\ blobs \subseteq Digests(manifest)
    /\ pc \in Passes \cup {"ready", "done"}
    /\ todo \subseteq Paths /\ errors \subseteq Paths \cup {Store} /\ faulted \in BOOLEAN

\* safe-run diff lists the paths that differ from the workspace the snapshot
\* was taken of, and no other, whatever the command and failed undos did.
DiffListsChanges ==
    {c.path : c \in Diff(manifest, tree)} = Differ(Plain(original), Plain(tree))

\* Where an undo leaves the workspace other than it was, its report names the
\* path or a directory that leads to it: no failure on a path is passed over,
\* and none below it has to stand for it.
EveryDifferenceReported ==
    pc = "done" =>
        \/ errors = {Store}
        \/ \A p \in Differ(Plain(original), Plain(tree)) :
              \E q \in errors : q \in Above[p] \cup {p}

\* An undo that meets no failing device, no pipe in the place of what it must
\* restore and no directory closed to writing reports no error.
NoFalseAlarm ==
    (/\ pc = "done" /\ errors # {Store} /\ ~faulted
     /\ \A p \in DOMAIN start : /\ IsDirectory(start, p) => start[p].mode = Rights
                                /\ start[p].type = "special" => p \notin DOMAIN manifest)
    => errors = {}

\* The first pass takes away only what the workspace did not hold when the
\* snapshot was taken.  Fails with directories that cannot be listed: what they
\* hold is in no manifest, and is taken for new once a command opens them.
RemovesOnlyNew ==
    [][pc = "remove" => DOMAIN Plain(original) \cap DOMAIN tree \subseteq DOMAIN tree']_vars

\* The rollback is an undo as UndoContract has it, seen without its passes.
Contract == INSTANCE UndoContract WITH
    snapshot <- Plain(original),
    sound    <- Digests(manifest) \subseteq blobs,
    phase    <- CASE pc = "ready" -> "idle" [] pc \in Passes -> "working" [] pc = "done" -> "ended"

\* Every undo, also one that fails on the way, is killed or comes after one that
\* was, keeps the contract: an unsound snapshot is left alone, a step touches
\* nothing of the snapshot but the path in hand, what it has dealt with is right
\* or named, and what differs at the end is named.
ImplementsUndo == Contract!UndoSpec
=============================================================================
