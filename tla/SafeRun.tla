------------------------------- MODULE SafeRun -------------------------------
(***************************************************************************)
(* Invocations of safe-run in one workspace: snapshot/safe_run.py.  A run  *)
(* takes a snapshot, lets its command finish, copies the snapshot to       *)
(* .saep.new-<id> beside the store and swaps it in by renames: the old     *)
(* store is parked under .saep.backup-<hex>, the new one takes its place,  *)
(* the parked one goes.  Runs may overlap (a run whose exec stream timed   *)
(* out goes on while its caller tries again), be killed at any point, and  *)
(* meet undos, for which the staged and parked stores are part of the      *)
(* workspace: only .saep and .git are excluded.                            *)
(***************************************************************************)
CONSTANTS
    Runs,     \* the invocations of safe-run <command>, named by their snapshot
    Undos,    \* the invocations of safe-run undo
    Old,      \* the snapshot in the store before any of them
    None,     \* nothing there
    Other     \* something there that is no whole store: a link, a file, a part

ASSUME SafeRunAssumption ==
    /\ Old \notin Runs \cup {None, Other}
    /\ None \notin Runs \cup {Other} /\ Other \notin Runs
    /\ Runs \cap Undos = {}

Snapshots == Runs \cup {Old}
Places    == Snapshots \cup {None, Other}

VARIABLES
    store,    \* what is at .saep
    staged,   \* what is at .saep.new-<id> of each run
    parked,   \* what is at .saep.backup-<hex> of each run
    had,      \* had_previous_store
    pc,       \* what each run and each undo is doing
    seen,     \* the staged and parked stores in each snapshot's manifest
    todo,     \* the runs whose staged and parked stores an undo has to restore
    undoing,  \* the snapshot an undo has loaded
    safe      \* what was put up at .saep last was a whole store, and since then
              \* no command took it away and no undo one that was parked (history)

vars == <<store, staged, parked, had, pc, seen, todo, undoing, safe>>

Sides == [staged : [Runs -> Places], parked : [Runs -> Places]]

RunSteps == {"start", "command", "make", "fill", "check", "park", "publish", "unpark",
             "abort", "clean", "stranded", "returned", "failed", "killed"}
Ended    == {"returned", "failed", "killed"}

\* The run may have parked the store and put none in its place: "stranded"
\* could not put back what it had parked, "killed" had no chance to.
Window   == {"publish", "unpark", "stranded", "killed"}

TypeOK ==
    /\ store \in Places
    /\ staged \in [Runs -> Places] /\ parked \in [Runs -> Places]
    /\ had \in [Runs -> BOOLEAN]
    /\ pc \in [Runs \cup Undos -> RunSteps \cup {"undo"}]
    /\ seen \in [Snapshots -> Sides]
    /\ todo \in [Undos -> SUBSET Runs] /\ undoing \in [Undos -> Snapshots]
    /\ safe \in BOOLEAN

Nothing == [r \in Runs |-> None]

Init ==
    /\ store \in {Old, None} /\ safe = (store = Old)
    /\ staged = Nothing /\ parked = Nothing
    /\ had = [r \in Runs |-> FALSE]
    /\ pc = [x \in Runs \cup Undos |-> "start"]
    /\ seen = [i \in Snapshots |-> [staged |-> Nothing, parked |-> Nothing]]
    /\ todo = [u \in Undos |-> {}] /\ undoing = [u \in Undos |-> Old]

-----------------------------------------------------------------------------
Go(x, from, to) == pc[x] = from /\ pc' = [pc EXCEPT ![x] = to]

\* What may be at a place where one thing is made or removed file by file.
Halfway(before, after) == IF before = after THEN {after} ELSE {before, Other, after}

Rest == UNCHANGED <<had, seen, todo, undoing>>

\* create_snapshot into a temporary directory that the finally clause of
\* _cmd_run removes, or an error and no command.
TakeSnapshot(r) ==
    /\ \/ /\ Go(r, "start", "command")
          /\ seen' = [seen EXCEPT ![r] = [staged |-> staged, parked |-> parked]]
       \/ Go(r, "start", "failed") /\ UNCHANGED seen
    /\ UNCHANGED <<store, staged, parked, had, todo, undoing, safe>>

\* The command takes .saep away or puts something else there.
Meddle(r) ==
    /\ pc[r] = "command"
    /\ store' \in {None, Other}
    /\ safe' = FALSE
    /\ UNCHANGED <<staged, parked, pc>> /\ Rest

\* subprocess.run returns whatever the exit code; it raises if there is no
\* such command.
CommandEnds(r) ==
    /\ Go(r, "command", "make") \/ Go(r, "command", "failed")
    /\ UNCHANGED <<store, staged, parked, safe>> /\ Rest

\* The directory is made outside of the try statement.
MakeStaged(r) ==
    /\ \/ Go(r, "make", "fill") /\ staged' = [staged EXCEPT ![r] = Other]
       \/ Go(r, "make", "failed") /\ staged' \in {[staged EXCEPT ![r] = f] : f \in {None, Other}}
    /\ UNCHANGED <<store, parked, safe>> /\ Rest

\* copytree and the state file.
FillStaged(r) ==
    /\ \/ Go(r, "fill", "check") /\ staged' = [staged EXCEPT ![r] = r]
       \/ Go(r, "fill", "abort") /\ UNCHANGED staged
    /\ UNCHANGED <<store, parked, safe>> /\ Rest

CheckStore(r) ==
    /\ Go(r, "check", IF store # None THEN "park" ELSE "publish")
    /\ had' = [had EXCEPT ![r] = (store # None)]
    /\ UNCHANGED <<store, staged, parked, seen, todo, undoing, safe>>

\* store_dir.rename(backup_store): fails if another run was faster.
Park(r) ==
    /\ \/ /\ Go(r, "park", "publish") /\ store # None
          /\ parked' = [parked EXCEPT ![r] = store] /\ store' = None
       \/ Go(r, "park", "abort") /\ UNCHANGED <<store, parked>>
    /\ UNCHANGED <<staged, safe>> /\ Rest

\* Mutant: what is in the way is removed first.
PublishReplaces(r) ==
    /\ Go(r, "publish", "clean")
    /\ store' = staged[r] /\ staged' = [staged EXCEPT ![r] = None]
    /\ safe' = (staged[r] \in Snapshots)
    /\ UNCHANGED parked /\ Rest

\* new_store.rename(store_dir): no directory replaces one that is not empty.
Publish(r) ==
    /\ \/ /\ Go(r, "publish", "clean")
          /\ staged[r] # None /\ store \in {None, Other}
          /\ store' = staged[r] /\ staged' = [staged EXCEPT ![r] = None]
          /\ safe' = (staged[r] \in Snapshots)
       \/ /\ Go(r, "publish", IF had[r] THEN "unpark" ELSE "abort")
          /\ UNCHANGED <<store, staged, safe>>
    /\ UNCHANGED parked /\ Rest

\* Mutant: what was parked stays there.
UnparkForgets(r) ==
    /\ Go(r, "unpark", "abort")
    /\ UNCHANGED <<store, staged, parked, safe>> /\ Rest

\* backup_store.rename(store_dir), and the error is raised again.
Unpark(r) ==
    /\ \/ /\ Go(r, "unpark", "abort")
          /\ parked[r] # None /\ store \in {None, Other}
          /\ store' = parked[r] /\ parked' = [parked EXCEPT ![r] = None]
          /\ safe' = (safe /\ parked[r] \in Snapshots)
       \/ /\ Go(r, "unpark", IF store = None THEN "stranded" ELSE "abort")
          /\ UNCHANGED <<store, parked, safe>>
    /\ UNCHANGED staged /\ Rest

\* _remove_path(backup_store), which may break off.
Clean(r) ==
    /\ \/ Go(r, "clean", "returned") /\ parked' = [parked EXCEPT ![r] = None]
       \/ /\ Go(r, "clean", "abort")
          /\ parked' \in {[parked EXCEPT ![r] = f] : f \in Halfway(parked[r], None)}
    /\ UNCHANGED <<store, staged, safe>> /\ Rest

\* The outer except clause removes the staged store.
Abort(r) ==
    /\ Go(r, "abort", "failed") \/ Go(r, "stranded", "stranded")
    /\ staged' \in {[staged EXCEPT ![r] = f] : f \in Halfway(staged[r], None)}
    /\ UNCHANGED <<store, parked, safe>> /\ Rest

Kill(r) ==
    /\ pc[r] \notin Ended \cup {"start", "stranded"}
    /\ pc' = [pc EXCEPT ![r] = "killed"]
    /\ UNCHANGED <<store, staged, parked, safe>> /\ Rest

Run(r) ==
    \/ TakeSnapshot(r) \/ Meddle(r) \/ CommandEnds(r) \/ MakeStaged(r) \/ FillStaged(r)
    \/ CheckStore(r) \/ Park(r) \/ Publish(r) \/ Unpark(r) \/ Clean(r)
    \/ Abort(r) \/ Kill(r)

-----------------------------------------------------------------------------
\* Mutant: what is at .saep is taken for a store.
LoadUnchecked(u) ==
    /\ Go(u, "start", "undo")
    /\ undoing' = [undoing EXCEPT ![u] = store]
    /\ todo' = [todo EXCEPT ![u] = {r \in Runs : <<staged[r], parked[r]>> # <<None, None>>}]
    /\ UNCHANGED <<store, staged, parked, had, seen, safe>>

\* _load_last_snapshot, and the scan of the rollback: it will go over what is
\* there now and what the manifest names.  Without a store it ends with 2.
Load(u) ==
    /\ Go(u, "start", "undo")
    /\ store \in Snapshots
    /\ undoing' = [undoing EXCEPT ![u] = store]
    /\ todo' = [todo EXCEPT ![u] =
            {r \in Runs : <<staged[r], parked[r], seen[store].staged[r], seen[store].parked[r]>>
                            # <<None, None, None, None>>}]
    /\ UNCHANGED <<store, staged, parked, had, seen, safe>>

\* rollback_to_snapshot puts the staged and the parked store of r back to what
\* they were when the snapshot was taken: as a rule it removes them.
RestoreSide(u, r) ==
    /\ pc[u] = "undo" /\ r \in todo[u]
    /\ staged' \in {[staged EXCEPT ![r] = f] : f \in Halfway(staged[r], seen[undoing[u]].staged[r])}
    /\ parked' \in {[parked EXCEPT ![r] = f] : f \in Halfway(parked[r], seen[undoing[u]].parked[r])}
    /\ safe' = (safe /\ (parked' = parked \/ pc[r] \notin Window))
    /\ UNCHANGED <<store, had, pc, seen, todo, undoing>>

\* It has been over all of them, with or without errors, or is killed.
UndoEnds(u) ==
    /\ Go(u, "undo", "start")
    /\ todo' = [todo EXCEPT ![u] = {}] /\ undoing' = [undoing EXCEPT ![u] = Old]
    /\ UNCHANGED <<store, staged, parked, had, seen, safe>>

Undo(u) == Load(u) \/ (\E r \in Runs : RestoreSide(u, r)) \/ UndoEnds(u)

Next == (\E r \in Runs : Run(r)) \/ (\E u \in Undos : Undo(u))

Spec == Init /\ [][Next]_vars

-----------------------------------------------------------------------------
\* Once there is a snapshot to undo to there always is: at .saep, except while
\* a run is between its renames, was killed there or could not undo the first
\* of them; and then that run has it parked.
StoreOrParked ==
    safe /\ store \notin Snapshots => \E r \in Runs : pc[r] \in Window /\ parked[r] \in Snapshots

\* No store is overwritten: unless a command takes it, it leaves its place for
\* a run's backup.
NeverOverwritten ==
    [][(store \in Snapshots /\ store' # store /\ safe') => (\E r \in Runs : parked'[r] = store)]_vars
=============================================================================
