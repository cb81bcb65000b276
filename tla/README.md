# SAEP in TLA+

A verification development for the Sandboxed Agent Execution Platform: a control
plane that creates Docker sandboxes and runs commands in them, and `safe-run`,
the snapshot, diff and undo engine that runs inside them. Paths below are
relative to `src/`.

Check a run with `tlc -workers 2 -config lifecycle.cfg MCLifecycle`, a proof with
`tlapm LifecycleProofs.tla`. `PROJECT.json` is the machine-readable index: runs,
mutants, hazards, findings, theorems and the source lines of every definition.

## 1. The system

| Component | State | Operations | Talks to |
|---|---|---|---|
| Worker gateway (`control-plane/src/index.ts`) | none | match a route, compare the API key, forward with the internal token | orchestrator, by HTTP |
| Orchestrator lifecycle handlers (`orchestrator/main.py`) | none of its own | `create_sandbox`, `sandbox_health`, `delete_sandbox`, in threads of a pool | registry, Docker |
| Startup (`initialize`, `reconcile_state`) | two listings in local variables | compare rows with containers, remove orphans, mark rows | registry, Docker; runs before any handler |
| Exec route (`exec_sandbox`, `_exec_stream`) | a generator per request, drawn event by event | look up, lock, stream events, release | registry, locks, Docker client |
| Exec locks (`orchestrator/locks.py`) | a lock per sandbox id, in memory | `acquire_nowait`, `release` | exec route |
| Registry (`orchestrator/registry.py`) | SQLite table | one statement and a commit per method | survives the process |
| Docker client (`orchestrator/docker_client.py`) | none | create and start, inspect, stop and remove, exec | the daemon, which survives and acts unasked |
| Snapshot creation and loading (`snapshot/snapshot.py`) | `.saep/snapshots/<id>`: manifest and blobs | `create_snapshot`, `load_snapshot` | the workspace tree |
| Diff and rollback (`snapshot/diff.py`, `rollback.py`) | the live tree | scan and compare; a rollback in four passes | the tree, with its permission bits |
| `safe-run` (`snapshot/safe_run.py`) | `.saep`, `.saep.new-<id>`, `.saep.backup-<hex>` | run, publish by renames, diff, undo | all of the snapshot package |
| Demo client (`scripts/run_demo_task.py`) | local processes | create, exec twice, delete | Worker |
| Sandbox image, demo frontend | none | build, version check, static page | |

How they interact. A request passes the Worker unchanged. A handler makes a
short sequence of registry and Docker calls, with nothing held between them, so
two handlers interleave at every call and a crash may fall between any two; what
the two durable stores (SQLite and Docker) say of one sandbox can then disagree,
and startup repairs part of that. An exec takes the sandbox's lock in the handler
but gives it back in the `finally` clause of a generator that the framework draws
later, or never; and the command it starts is a process of the container, which
neither a timeout, nor a disconnect, nor a restart stops. Inside the sandbox
the command is as a rule `safe-run run <command>`, so two overlapping commands
are two overlapping `safe-run`s of one workspace.

What makes each part correct, and is hard to test:

* lifecycle: a container never runs without a row that leads to it; what was
  answered with 200 stays until deleted and what was deleted stays deleted,
  whatever fails, interleaves or crashes; clean-up paths never hit a live sandbox;
* exec: a lock is taken exactly while its stream is alive; a busy sandbox
  becomes free; an exit event, with the error event before it, means what it says;
* rollback: an undo leaves no difference it does not report, and never destroys
  what it was to protect, on any tree, with any failing operation, on any retry;
* publication: at any moment, killed or not, there is a whole snapshot to undo to;
* capture: a snapshot taken while an abandoned command still writes is right about
  everything that stayed, and a race spoils nothing but its own file;
* the composition: a delete ends what runs in the sandbox, startup spares what runs
  in a known one, and an exec finds the container its create promised;
* the demo client: it ends, and when it says success, it was one.

`PROJECT.json` lists the hazards behind these one by one, each at its line with the
properties that would catch it.

## 2. Modules

| Module | Models | Notes |
|---|---|---|
| `Identifiers` | ids and placeholders shared by registry, Docker and handlers | |
| `Registry` | `registry.py`, one atomic operator per method | state that survives a crash |
| `Docker` | the daemon as `docker_client.py` uses it, and what it does unasked | external behaviour |
| `Lifecycle` | create, health, delete, startup, crashes | one action per call a handler makes |
| `SandboxContract` | abstract: what a caller may rely on about a sandbox | refined by `Lifecycle`, used by `DemoTask` |
| `ExecStream` | exec route, SSE stream, exec locks, commands, restarts | one action per step of the stream |
| `ExecLock` | abstract: mutual exclusion per sandbox, with vanishing holders | refined by `ExecStream` |
| `Orchestrator` | `Lifecycle` and `ExecStream` over one registry, one daemon, one process | refines `ExecStream`; its steps are steps of `Lifecycle` by construction |
| `DemoTask` | `run_demo_task.py`, its two servers, lost and late answers | on `SandboxContract` |
| `Capture` | `create_snapshot` look by look, beside a writer; what the preflight of an undo makes of it | |
| `Workspace` | trees, what a scan sees of them, the diff of two | pure operators |
| `UndoContract` | abstract: what an undo promises about the workspace | refined by `Rollback` |
| `Rollback` | `rollback_to_snapshot`, one action per path | on `Workspace` |
| `SafeRun` | `_cmd_run`, `_persist_snapshot`, `_cmd_undo` on the stores | one action per file-system step |
| `LifecycleProofs`, `ExecStreamProofs`, `OrchestratorProofs`, `SafeRunProofs`, `CaptureProofs`, `DemoProofs`, `RollbackProofs` | theorems | section 5 |
| `WorkspaceProofs` | lemmas about trees and scans | used by `RollbackProofs` |
| `MC...` | values and symmetries for TLC, one per component | |

How they are composed: `Orchestrator` EXTENDS `Lifecycle` and `ExecStream`, which
share `docker`; `DemoTask` stands on what `Lifecycle` is proved to implement
(`SandboxContract`) rather than on `Lifecycle` itself; `Capture` describes the one
step that `SafeRun` (`TakeSnapshot`) and `Rollback` (`Init`) take as a whole.

### Lifecycle

`row` is the table, `docker` the containers, `pc`, `sid`, `cid` a thread's next
call and its locals; `process`, `orphans`, `stale` the process and the two
lists of `reconcile_state`; `drawn`, `known`, `destroyed` are history. A call that
raises is a disjunct of the action that makes it, and leads where the handler's
`except` leads. A raised call is taken to have had no effect, except Docker's
start, which may have happened although its answer was lost. Calls of a
sandbox's Docker container are split where the daemon is asked twice
(create and start; get and remove). Decisions:

* `uuid4` never returns an id twice; one container is ever asked for per id, so the
  container is identified with the id.
* A caller who can read `docker ps` may name an id before its create answered:
  `LeakedIds`. The properties about containers are for the other ids, those about rows for all.
* Foreign containers carry the same label and belong to another orchestrator.
* Docker, an operator or the container itself may stop, start or remove any
  container at any time.
* `ListState` reads rows and containers in one step: no handler runs during
  startup, and what the daemon still does by itself is a step before or after it.
* A create request that the handler no longer waits for (its call timed out, or the process
  died) stays with the daemon (`sent`), which may make the container at any later time
  (`LateCreate`), or never. A container made after startup has listed what there is
  (`strays`, history) is the one thing `StartupClean` sets aside.
* Settings, request models and tokens are stateless and left out, as are the
  workspace directories, which create makes and nothing removes.

### ExecStream

`rpc` is a request's next step, `locked` the locks, `lost` (history) those whose
holder was dropped, `late` whether the timeout has passed, `error` what the
error event says, `code` what the exit event carries, `cmd` the command in the container. Decisions:

* The registry's contents are left open: a lookup finds `pending` or the container.
* `acquire_nowait` looks up and tries the lock under `_guard`, hence one step.
* `Drop`: the framework never starts a generator when the caller has gone first;
  its `finally` clause then never runs. For requests in `Dropped`.
* `Cut`: the output of Docker's exec socket may end before the command does
  (a command that closes its output, or a broken connection without an error).
* `Silent`: requests whose command may print nothing and not end. The SDK's read has no
  timeout and the clock is looked at only when a chunk arrives.
* A command may end with any code, so with those of the error path too (`bash -c nosuchcmd` with 127,
  `timeout 1 sleep 5` with 124): `OwnCodes`, in which 2 stands for all that are not among them.
  `ExitCodeMeaning` therefore reads the code together with the error event, and of a `Cut` request it claims nothing for code 0 (section 6).
* A request slot is reused when its command has ended: this bounds the commands alive.

### Orchestrator

The state of both parts, with one `docker`. A step of a lifecycle handler, of startup
or of the daemon also kills the commands of a container that stops running
(`KillCommands`); a crash takes the handlers and, with the memory of the process, the
locks and streams (`CrashAll`); the lookup of an exec reads the row that the
handlers write (`ExecSandbox`), for an id its caller may know. Nothing is left of
what `ExecStream` had left open about the registry. Decisions:

* A private id is named by nobody before its create answered; so the properties are
  about these, as in `Lifecycle`.
* Lookups are made only by a process that has finished its startup.
* A lookup and the use of what it found are separate steps, with any number of
  others between.

### DemoTask

`pc` and `at` say where `main` is in the nest of two context managers, `exc` which
exception is on its way, `box` the sandbox id once known, `server` the two
processes, `cmd`, `edited` and `late` what happens in the sandbox, `asked` that a
delete has reached the orchestrator, `order` how far the create request to Docker has come. A call is a wait: what the servers make of
it are steps of their own, which may come late, after the client's timeout, or never.
Decisions:

* The Worker keeps no state: it counts by being up; a 502 of its own, a lost answer, a
  refusal and a timeout are all `CallFails`.
* Of the orchestrator, the sandbox contract is used, and of exec how a stream ends:
  with the command, cut off (exit code 0 of a command that still runs) or timed out.
* The daemon finishes what it was asked (`MakeContainer`), also when the orchestrator that asked was
  killed meanwhile and `main` has returned.
* The update's edit shows in `safe-run diff` once its `safe-run` has published the snapshot,
  which may be before its exit code is known, or without code 0.
* `terminate_process` acts on the process `main` started; what that process leaves
  behind in its group is left out, and so is an interrupt from the keyboard.

### Capture

`tree` is the workspace, which `Write` may change between any two looks; `unseen` and
`todo` the paths that `rglob` has yet to list and the loop yet to visit; `path`,
`digest` and `copied` the loop's locals; `entries` and `blobs` what is stored. `touched` and
`retyped` (history) are the paths changed, and those that were made, removed or changed
their type, since the scan began. Decisions:

* A file is read and written in two pieces, so that a read may be torn.
* The order in which paths are taken is open (the code sorts them); paths are siblings,
  for parents and children are `Rollback`'s matter; modes and sizes are left out, and with
  them files that cannot be read.
* Where a link leads is left open, and anew at every look that follows it: nowhere, to a directory or to a file
  of any content. `copy2` takes such a path over as a link (`StartCopy`), writes through a link already in the
  blob's place (`Copy`) and ends with `copystat`; `copytree` follows what it finds (`Followed`). What is
  written through a link into the workspace is a `Write` of somebody else's.
* A pipe, socket or device (`Special`) is in no manifest; a path that becomes one is read as any content, or
  refused. A read of a pipe that waits for ever is a scan that stops.
* What changes once the scan is over is left to `Rollback`; `Persist` copies the
  temporary store, which nobody else knows.

### Workspace and Rollback

A tree is a function from existing paths to entries (type, data, owner's rights).
`Scanned` is what `rglob` yields: nothing below a directory that
cannot be listed, and no pipes, sockets and devices. `Rollback` starts right
after `create_snapshot`; the command may leave any tree at all. An operation on one path is one
action whose outcomes follow from the permission bits of the tree (`Removals`,
`Replacements`, ...), among them removing a directory only in part; for paths in
`Faulty` any operation may fail for any other reason and leave a half-made
entry. Among paths of one depth the order is left open (the code sorts by
name). Decisions: the process runs as the unprivileged user the sandbox image
sets; the workspace root is writable; files can be read, and a directory that can be listed
can be entered (otherwise `create_snapshot` raises and nothing
happens); a link has all rights, as on Linux; links lead outside of the tree or nowhere; nobody else changes the tree during an undo;
blobs are lost between undos; the tree is not changed during a scan.

`UndoContract` leaves out the passes, their order and the rights. In it an undo is a
sequence of paths dealt with in any order; `Rollback` keeps it with `phase` for `pc`, the plain
entries of the original tree for the snapshot, and "every blob is there" for `sound`
(`ImplementsUndo`). What it adds to the report being complete is what happens on the way: dealing with a path may
cost that path, if it breaks off, but no other that the snapshot has; nothing is made that the
snapshot does not have; and a path once dealt with is right (of a directory: that it is one) or named. So an undo
killed anywhere has lost at most the one path it was at (a kill in the middle of an operation is a fault
followed by a kill, and the proofs let every path be in `Faulty`), and the report may be relied on as far as it goes.

### SafeRun

`store` is what is at `.saep`, `staged[r]` and `parked[r]` what is at run r's
`.saep.new-<id>` and `.saep.backup-<hex>`: nothing, a whole store (named by its
snapshot) or something else. `seen` is what each snapshot's manifest recorded of
the staged and parked stores, which are not among the excluded names
(`snapshot.py:17`, `:49`); so an undo restores or removes them, part by part, under
a run that is using them. Decisions: `rename` is atomic; a rename puts a
directory over nothing, or at most over something that is no store; a command touches `.saep` and
no other run's staged or parked store; a kill (or an exception that is no
`Exception`) skips every clause; the temporary directory is left out. `safe`
(history) says that what was last put at `.saep` was whole and has since been
moved by `safe-run` only: neither a command took it nor an undo removed it from
where it was parked. Where an undo has damaged a store that is being staged,
the run publishes the damaged one, and `safe` is false; the properties claim
nothing there.

## 3. Runs

Passing:

| Run | Question | Instance | States |
|---|---|---|---|
| `lifecycle` | do registry and Docker stay consistent, and is the contract kept? | 2 handlers, one private and one leaked id, one foreign container, crashes, failing calls and late creates everywhere | 259 k |
| `exec` | are streams exclusive, locks accounted for, codes honest? does a busy sandbox become free, does a timed-out stream end? | 1 sandbox, 3 requests: one may be dropped or cut off, one may be silent | 31 k |
| `orchestrator` | does the exec part keep its specification among the handlers? does a delete end what runs, does startup spare it, does an exec find its container? | 1 private sandbox, 2 handlers, 2 execs (one may be dropped or cut off, one silent) | 165 k |
| `demo` | does the demo end, and is its success true? | the one sandbox a run asks for | 7 k |
| `capture` | what is a snapshot worth that was taken while the tree changed? | 2 paths of any type, files of 2 pieces, links leading anywhere, a writer without limit | 241 k |
| `rollback` | is diff exact, are differences reported, is nothing destroyed, is the contract kept? | every tree over a chain `a`, `a/b`, `a/b/c` of six kinds of entries, one faulty path | 155 k |
| `saferun` | does a snapshot survive overlapping runs, undos and kills? | 2 runs, 1 repeating undo | 400 k |

Violated, each by what the code does and a sentence of the repository denies:

| Run | Shows |
|---|---|
| `startup_foreign` | startup removes another orchestrator's containers, since the label is a constant |
| `exec_overlap` | two commands run in one sandbox, since the lock ends with the stream |
| `exec_dropped` | a dropped body leaves its sandbox refusing every exec as busy |
| `undo_hidden` | a directory that could not be listed at the snapshot and can at the undo has its original content deleted, with no error reported |
| `capture_race` | a file rewritten between its hash and its copy leaves a blob that is not what its name says |

The full sentences, with their lines, are in `PROJECT.json` "findings". `undo_hidden` and
`capture_race` were also reproduced with the real package, and so was the directory published for a blob (section 6).

Why the bounds are enough. In `lifecycle` every hazard is about two handlers on
one sandbox, or one and a crash; the second id is there for a leaked one and to show
that handlers of different sandboxes do not disturb each other; the proofs cover the rest.
In `exec` three requests on one sandbox let one take the lock again and again while
two are refused; 2 sandboxes with 2 requests (203 k states), the least that tells a
lock per sandbox from a global one, were checked once with the same properties, and the
proofs hold for any number. In `orchestrator` two handlers are the least in
which a delete meets a create or a probe, and two execs the least in which one waits for the
other's lock; one sandbox is enough because nothing but the daemon and the process is shared
between sandboxes, which `lifecycle` looks at. In `capture` two paths are
the least that share a blob; all changes, whatever their number, are `Write`s of one path,
and two pieces the least that can be torn. In `rollback` a chain of three reaches a
child under a child: a parent and a child are both wrong, with a path above and
below each; siblings meet only through their parent. Six kinds of entries
include two contents, two modes of directories and each type. In
`saferun` two runs suffice to take each other's place; three runs without an
undo (5.6 million states) were checked once with the same result, and the proofs
hold for any number. Nothing in these models counts, so there is no other bound;
commands alive at a time are bounded by the request slots. Deadlock is checked in every
run but `saferun`, `capture` and `capture_race`, where everything comes to its end; the end of
the demo is a step that changes nothing.

Every property of a passing run has a mutant: a plausible bug in one definition
(marked `Mutant` in the modules) with which TLC finds that property violated.

## 4. Fairness

`ExecStream`: `Fairness` assumes that the thread pool
runs every step of a handler or stream that can run, and a caller either reads on
or leaves (`Advance`); the clock goes on (`TimePasses`); a command that is not
silent prints or ends, and Docker delivers what it printed or the end of its
output (`Output`); for a silent command, only that the end of output is
delivered. Nothing is assumed of restarts, drops, containers that stop, or of the
commands' ending: a command that prints for ever is covered, and it is the timeout that ends its stream.
The code justifies this: every step of the stream is a bounded call, except the
read of Docker's socket, which is exactly where `Silent` sets its assumption aside.
`LockFreed` and `TimedOutStreamEnds` exempt silent commands, and sandboxes whose lock was
lost to a dropped body.

`Orchestrator`: as there, with less: no command need print or end, silent or not (`Served`,
`Ages`). Nothing is assumed of the lifecycle handlers: `DeleteFreesLock` begins when
the delete has answered.

`DemoTask`: `main` goes on, its waits for processes have their timeouts (`Kill`,
`KillTimesOut`), and the timeout of a command passes (`Expire`). `Settles`: a call is
answered or fails. httpx gives up when it gets no byte for 30 seconds, or
`timeout + 30` of an exec, so a call can wait for ever only while bytes
come, hence while a command prints; and once the orchestrator's timeout has passed, the
next thing it prints ends its stream. Nothing is assumed of the servers: they may hang.

The other specifications say what may never happen and need no fairness.

## 5. Proofs

TLAPS proves the following for every value of the constants that their
assumptions admit (`IdentifiersAssumption`, `LifecycleAssumption`, `ExecAssumption`,
`SafeRunAssumption`, `DemoAssumption`, `RollbackAssumption`: disjointness of names, subsets;
`WorkspaceAssumption`: the paths are finitely many and form a forest, and the entries are well
formed; nothing for `Capture`).

* `LifecycleProofs`. `IndInv` strengthens the safety properties with what each
  handler knows between its calls: an undrawn id has left no trace; one handler
  creates an id; the id of a create request that the daemon still has was never answered with 200, and
  has its row, if nobody could name it (`Unanswered`); a creator's row is there, if nobody could name the id; what a
  probe or delete of a private id holds is that id's container, and what it saw gone stays
  gone; an attached row stays attached; no handler runs during startup, and
  whatever startup has yet to repair is in its two lists. `Invariance` proves
  it, one lemma per handler and one step per action. From it: `TypeCorrect`, `OrphanFree`, `DestroyedForGood`,
  `CreateIsDurable`, `IssuedKept`, `ProbesTellTruth`, the action property
  `StartupRepairs`, and `Implementation`, the refinement of `SandboxContract`.
* `ExecStreamProofs`. `ExecInv` adds to `LockAccounted` and `StreamsExclusive` the
  targets of live requests and, step by step, what the stream knows of its command
  (`CodesKept`). From it: `ExecTypeCorrect`, `LocksAccounted`, `StreamsAreExclusive`,
  `ExitCodesMean`, and `LocksImplementExclusion`, the refinement of `ExecLock`.
* `OrchestratorProofs`. Every step of the whole is a step of `Lifecycle` or leaves its
  variables alone (`LifecycleMoves`, which is the way the module is composed and no result), and a step of `ExecStream` or leaves those
  (`ExecMoves`): so `IndInv` and `ExecInv` hold, and `ExecKept` is the refinement of `ExecStream`. `ExecMoves` needs that a row leads to its own container or to none
  (`RowsOwn`). `OrchInv` adds what ties the parts: a command runs inside a running
  container (`CommandsInside`), and execs of private ids aim at what was issued (`TargetsIssued`). From
  it: `OrchTypeCorrect`, `ExecsFind`, `DestroyedAreQuiet`, `CommandsSpared`.
* `CaptureProofs`. `CaptureInv` says what the looks so far are worth: of a path that kept
  its type each look knows what the next will find (`LooksSoFar`), the manifest is right about
  what is done with and empty elsewhere (`EntriesSoFar`), and a blob that is a link or a directory, or not
  what its name says, is stored for a path that was changed: one recorded with that digest, or being
  copied to it (`BlobsSoFar`, `StoredFor`). From it all properties of the run:
  `CaptureTypeCorrect`, `ManifestsTell`, `DamageIsLocal`, `RewritingIsHarmless`, `UntouchedComeBack`,
  `QuietScansAccepted`.
* `DemoProofs`. `DemoInv` follows `main` through its nest (`Nesting`): a server that was left is
  down (`LeftAreDown`), unless a wait was given up. From it `DemoTypeCorrect` and
  `SuccessesAreReal`.
* `SafeRunProofs`. `StoreOrParked` alone is not inductive: that a run which could not put back
  what it had parked has indeed parked it needs to know that only a run that found a store
  parks one or takes it back (`ParksWhatItFound`), that a run without a store has parked
  none and no snapshot knows of one (`NothingParked`), and that while the store is safe there is
  no litter in its place (`NoLitter`). From `Inv`: `TypeCorrect`,
  `SnapshotSurvives`, and the action property `StoresGiveWay`. A second invariant says where snapshots come from: that of
  a run whose command has not ended is nowhere to be found (`UnbornUnknown`), and a run's staged
  store is never another run's (`StagesItsOwn`), although undos put stores back from manifests. From it:
  `UndosAwaitCommands` and `RunsPublishTheirOwn`.
* `RollbackProofs`, on `WorkspaceProofs`. The lemmas about the operators say what an outcome
  of one operation does to a tree: it takes away only what is at and below its path
  (`RemovalShrinks`), puts at most that path and directories on the way to it (`ReplacementPuts`), or changes one mode
  (`ModeRestored`); the effect lemmas (`RemoveEffect`, ...) turn the passes into these. On them stand four invariants.
  `WorkInv`: trees stay trees, the manifest is the scan of the original, the blobs are whole during the passes, and each pass
  works on its own kind of path. `ListedInv`: no directory of the tree is closed to listing. `Settled`: what each pass
  has dealt with is right or named, directory or entry or mode, until the end, although later passes clear paths away and change
  modes: neither `EveryDifferenceReported` nor one pass's part of it is
  inductive without the others, since a link in the place of a directory excuses what is below it only if the failure
  to make that directory was named (`AwayIsNamed`). `CalmInv`: with no fault and no closed
  directory at the start the rights that the next pass needs are there. From
  them: `RollbackTypeCorrect`, `DiffIsExact`, `OnlyNewRemoved`, `DifferencesReported`, `NoFalseAlarms`, the corollaries
  `CleanUndosRestore` (an undo without an error has restored the workspace, modes and all) and `CalmUndosRestore` (where nothing is
  in its way, it does), and `RollbackKeepsContract`, the refinement of `UndoContract`.
  All but the first and `NoFalseAlarms` assume `Listable`: no directory is closed to
  listing. Without it they are false, which is the finding of `undo_hidden`. That a report is complete "whichever operations
  failed" is proved of trees whose links lead out of them or nowhere: through a link inside the tree that could not be
  unlinked, a later pass could change another path unreported.

Only model-checked: the liveness properties (the prover handles no fairness) and the violated
properties, which are refuted by traces.

## 6. What the models show about the code, beyond the findings

* A create that dies, or whose start fails, between `containers.run` and `update_container`
  leaves a container whose row says "pending". `reconcile_state` marks the row "error" and
  keeps the container, since it has a row; health, exec and delete cannot reach it, and a delete of
  it forgets the row only. `NoOrphan` and `StartupClean` say that a row is there, not that it leads anywhere.
* The output of an exec may end before its command (the command closes its stdout and stderr, or the connection
  ends without an error). `ExitCode` is then None, and `None or 0` is 0 (`docker_client.py:154`): the stream ends with exit
  code 0 and no error, and its lock is free, while the command runs. The demo would take this 0 for its update's success; that
  it then still demands the expected diff is why `SuccessIsReal` holds.
* A command that prints nothing is never timed out: the clock is read when output arrives
  (`docker_client.py:143`). It holds its sandbox's lock until it ends, its caller
  leaves or the sandbox is deleted (`DeleteFreesLock`).
* A file rewritten during a snapshot spoils its blob for other files of the old content
  (`capture_race`), and every undo of that snapshot is refused, though most of it
  is sound; the refusal does what it is for (`UntouchedComesBack`).
* A link stored for a blob spoils the snapshot in three ways: leading nowhere, it makes `copytree` raise after the
  command ran, and nothing is published; leading to a directory, it is published as one,
  and an undo ends with "missing snapshot blob" (`rollback.py:88`), although `snapshot/README.md:24` says that
  files are "copied into the blob store"; leading to a file, it is published with that file's content, which may be outside of the workspace. The
  preflight refuses the last two, and other digests stay sound (`SpoiltByItsOwn`).
* A path that changes its type between `is_dir` and `is_file` is silently left out of the manifest,
  and taken for new by the undo; a path that vanishes between `rglob` and `lstat` fails the
  next `safe-run` before its command runs.
* `terminate_process` returns early when the process it started has exited, and so leaves alone
  what that process left in its group ("without leaving local dev servers running").
  The `TimeoutExpired` of its last wait, and of `communicate(timeout=1)`, end the demo in a traceback.
* A container that the daemon makes after its create was given up runs under a row that says "error" or
  "pending" and leads nowhere: no handler reaches it, and startup keeps it, since it has a row. Only where somebody
  deleted that row (of a leaked id) does a startup remove it, if it is there when startup lists (`strays`).
* `run_demo_task` deletes the sandbox only if the answer of its create was read (`run_demo_task.py:93`). When the create
  timed out for the client, or its answer was lost, the container stays behind, or comes up after the servers were stopped
  and `main` has returned 1, although `run_demo_task.py:76` says "and clean up". No row leads to it: the registry was in a temporary
  directory. `SuccessIsReal` is what holds: after a success nothing is left and nothing comes up. And the demo's orchestrator, starting on a fresh registry,
  removes the containers of every other orchestrator of the daemon (`startup_foreign`).
* A command that creates a file in a directory and makes that directory
  read-only defeats undo for good: removals come first, and only the passes
  after them open directories (`rollback.py:42`). Each undo reports the same
  error, so `EveryDifferenceReported` holds; `NoFalseAlarm` leaves such trees out.
* What a command leaves in a directory that it then closes to listing stays behind
  after an undo that reports no error, since the scan does not see it; the next undo,
  with the directory open again, removes it. `rollback` therefore checks trees whose directories
  can be listed, and `undo_hidden` looks at the others. A closed directory that the
  snapshot does not know is not removed, and that is reported.
* `.saep.new-*` and `.saep.backup-*` appear in diffs, and are removed by undos,
  also while a run depends on them.
* After a kill between the renames the only store is the parked one, and
  nothing in the code looks there: the snapshot exists, `undo` ends with 2.
* With three overlapping runs an older snapshot may come back over a newer one: a run parks the store, a second, which
  found none, publishes and returns, a third parks that, and the first, whose rename found the second's
  store in its place, puts the old one back (`RunsPublishTheirOwn` allows it: "or put back"; found with TLC on three runs).
  An undo then undoes the second's command too.
* If the command made the workspace unwritable, publication fails after
  it ran: `safe-run undo` then goes to the older snapshot, and so undoes more than that command.

## 7. Not modelled

The Worker's route match and API key, request models, settings and the orchestrator's token check
(one comparison or conversion per request, no state); seeding of workspaces;
manifest validation (a malformed manifest, which `create_snapshot` never writes, is refused before anything is
touched); argument parsing and printing; interrupts of the demo and the children of its
servers; the sandbox image and frontend; tests. Two resource hazards, the locks and
workspaces that are made and never removed, are listed and not modelled: no claim of the repository is about them.

## 8. Plan

Done, in this order: the lifecycle and its contract, the exec stream and its lock, the publication of
snapshots, the rollback; then the composed orchestrator, the capture of a changing tree, and
the demo client with lost and late answers; the proofs, the rollback's last, with its contract.

Next, in this order:

1. Which runs' order the store keeps: that with two runs at a time no older snapshot comes back, and
   what three would need.
2. An undo during which an abandoned command still changes the tree.
