---------------------------- MODULE UndoContract ----------------------------
(***************************************************************************)
(* What an undo promises about a workspace, whatever order it works in and *)
(* whatever fails: it starts only from a sound snapshot; it goes path by   *)
(* path, and beside the path in hand it removes only what is below it and  *)
(* new, and makes only directories that the snapshot has on the way to it; *)
(* each path it has dealt with is right, as far as it goes, or named; and  *)
(* when it ends it has named every difference.                             *)
(***************************************************************************)
EXTENDS Workspace

CONSTANT Store   \* stands for the snapshot's store in the report's errors

VARIABLES
    tree,      \* the live tree
    snapshot,  \* the plain entries of the tree when the snapshot was taken
    sound,     \* the snapshot is as it was taken
    phase,     \* "idle", "working" or "ended"
    errors     \* what the report names: paths, or Store for a refusal

undoVars == <<tree, snapshot, sound, phase, errors>>

\* The report names p or a directory that leads to it.
Named(p) == \E q \in errors : q \in Above[p] \cup {p}

\* What a path of the snapshot needs for the others to be restored: a directory
\* be one, with whatever mode; of the rest, to be as it was.  What is not of the
\* snapshot must go.
Right(p) ==
    /\ p \notin DOMAIN snapshot => p \notin DOMAIN Plain(tree)
    /\ IsDirectory(snapshot, p) => IsDirectory(tree, p)
    /\ p \in DOMAIN snapshot /\ ~IsDirectory(snapshot, p) =>
          p \in DOMAIN tree /\ tree[p] = snapshot[p]

UndoInit ==
    /\ tree \in Trees /\ snapshot = Plain(tree) /\ sound = TRUE
    /\ phase = "idle" /\ errors = {}

Change ==
    /\ phase # "working"
    /\ tree' \in Trees
    /\ phase' = "idle" /\ errors' = {}
    /\ UNCHANGED <<snapshot, sound>>

Rot ==
    /\ phase = "idle"
    /\ sound' = FALSE
    /\ UNCHANGED <<tree, snapshot, phase, errors>>

Begin ==
    /\ phase = "idle" /\ sound
    /\ phase' = "working" /\ errors' = {}
    /\ UNCHANGED <<tree, snapshot, sound>>

Refuse ==
    /\ phase = "idle" /\ ~sound
    /\ phase' = "ended" /\ errors' = {Store}
    /\ UNCHANGED <<tree, snapshot, sound>>

Handle(p) ==
    /\ phase = "working"
    /\ \A q \in DOMAIN tree \ DOMAIN tree' :
          q = p \/ (p \in Above[q] /\ q \notin DOMAIN snapshot)
    /\ \A q \in DOMAIN tree' :
          \/ q \in DOMAIN tree /\ tree'[q] = tree[q]
          \/ q = p /\ p \in DOMAIN snapshot
          \/ q \in Above[p] \ DOMAIN tree /\ IsDirectory(snapshot, q) /\ IsDirectory(tree', q)
    /\ errors' \in {errors, errors \cup {p}}
    /\ (Right(p) \/ Named(p))'
    /\ UNCHANGED <<snapshot, sound, phase>>

End ==
    /\ phase = "working"
    /\ \A p \in Differ(snapshot, Plain(tree)) : Named(p)
    /\ phase' = "ended"
    /\ UNCHANGED <<tree, snapshot, sound, errors>>

Die ==
    /\ phase = "working"
    /\ phase' = "idle" /\ errors' = {}
    /\ UNCHANGED <<tree, snapshot, sound>>

UndoNext ==
    \/ Change \/ Rot \/ Begin \/ Refuse \/ End \/ Die
    \/ \E p \in Paths : Handle(p)

UndoSpec == UndoInit /\ [][UndoNext]_undoVars
=============================================================================
