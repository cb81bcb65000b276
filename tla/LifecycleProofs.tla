--------------------------- MODULE LifecycleProofs ---------------------------
(***************************************************************************)
(* Theorems about Lifecycle, for every number of handlers and sandboxes.   *)
(***************************************************************************)
EXTENDS Lifecycle, TLAPS

-----------------------------------------------------------------------------
(* The inductive invariant, one idea per conjunct.                         *)

\* An id uuid4 has not returned has left no trace.
UndrawnUntouched ==
    \A s \in Sandboxes \ drawn :
        /\ ~HasRow(s) /\ ~Exists(s)
        /\ s \notin sent /\ s \notin known /\ s \notin destroyed
        /\ \A t \in Threads : sid[t] # s

\* A handler that has started has a target.
Targets == \A t \in Threads : pc[t] # "idle" => sid[t] \in Sandboxes

\* One handler creates a given id, and none after its 200.
OneCreator ==
    \A t \in Threads : pc[t] \in CreatePCs =>
        /\ sid[t] \notin known
        /\ \A u \in Threads : pc[u] \in CreatePCs /\ sid[u] = sid[t] => u = t

\* A create of a private id runs undisturbed.
CreatorHasRow ==
    \A t \in Threads : pc[t] \in CreatePCs /\ sid[t] \in PrivateIds =>
        HasRow(sid[t]) /\ sid[t] \notin destroyed

\* What the daemon still has to make was given up by its create, which answers
\* an error if it is there at all, and leaves the row.
Unanswered ==
    \A s \in sent :
        /\ s \notin known
        /\ s \in PrivateIds => HasRow(s) /\ s \notin destroyed
        /\ \A t \in Threads :
               sid[t] = s => pc[t] \notin CreatePCs \ {"mark_failed"}

\* A probe or a delete of a private id was given the id's own container.
CallerKnows ==
    \A t \in Threads :
        pc[t] \in HealthPCs \cup DeletePCs /\ sid[t] \in PrivateIds =>
            sid[t] \in known /\ cid[t] = sid[t]

\* What was seen or made absent stays absent until the handler acts on it.
SeenGone ==
    \A t \in Threads :
        pc[t] \in {"missing", "forget"} /\ sid[t] \in PrivateIds =>
            ~Exists(sid[t])

\* After update_container the row is attached for as long as it exists.
Attached ==
    \A t \in Threads : pc[t] = "confirm" /\ HasRow(sid[t]) =>
        row[sid[t]].container_id = sid[t]

\* No handler runs before the process serves.
QuietStartup == process # "serving" => \A t \in Threads : pc[t] = "idle"

\* What startup still has to repair is in its two lists.
Reconciliation ==
    /\ process # "reconciling" => orphans = {} /\ stale = {}
    /\ \A s \in Sandboxes : s \in orphans => ~HasRow(s)
    /\ process = "reconciling" => \A s \in Sandboxes :
        /\ Exists(s) /\ ~HasRow(s) => s \in orphans \cup strays
        /\ HasRow(s) /\ row[s].container_id = Pending
              => s \in stale \/ row[s].status = "error"

IndInv ==
    /\ TypeOK
    /\ UndrawnUntouched
    /\ Targets
    /\ OneCreator
    /\ CreatorHasRow
    /\ Unanswered
    /\ CallerKnows
    /\ SeenGone
    /\ Attached
    /\ QuietStartup
    /\ Reconciliation
    /\ NoOrphan
    /\ DestroyedMeansGone
    /\ DurableCreate
-----------------------------------------------------------------------------
(* The invariant is inductive: one lemma per handler, one step per action. *)

\* Nothing has happened yet: every conjunct is about empty stores.
LEMMA InitIndInv == Init => IndInv
  BY IdentifiersAssumption, LifecycleAssumption
  DEF Init, RegistryInit, DockerInit, IndInv, TypeOK, UndrawnUntouched,
      Targets, OneCreator, CreatorHasRow, Unanswered, CallerKnows, SeenGone,
      Attached, QuietStartup, Reconciliation, NoOrphan, DestroyedMeansGone, DurableCreate,
      RegistryTypeOK, DockerTypeOK, Rows, NoRow, ContainerIds, Containers,
      ContainerStates, PCs, CreatePCs, HealthPCs, DeletePCs, HasRow, Exists,
      PrivateIds

\* create_sandbox: its own id is new, so no other handler touches it before
\* the 200 unless it leaked.
LEMMA CreatePreserves ==
  ASSUME IndInv, NEW t \in Threads, Create(t)
  PROVE  IndInv'
<1> USE IdentifiersAssumption, LifecycleAssumption
    DEF IndInv, TypeOK, UndrawnUntouched, Targets, OneCreator,
        CreatorHasRow, Unanswered, CallerKnows, SeenGone, Attached,
        QuietStartup, Reconciliation, NoOrphan, DestroyedMeansGone, DurableCreate,
        RegistryTypeOK, DockerTypeOK, Rows, Statuses, NoRow, ContainerIds,
        Containers, ContainerStates, PCs, CreatePCs, HealthPCs, DeletePCs,
        HasRow, Exists, PrivateIds, threadVars, startupVars, history
<1>1. ASSUME NEW s \in Sandboxes, InsertRow(t, s)
     PROVE  IndInv'
  BY <1>1 DEF InsertRow, Accept, InsertSandbox
<1>2. ASSUME RereadRow(t)
     PROVE  IndInv'
  <2>1. CASE Step(t, "inserted", "create")
    BY <1>2, <2>1 DEF RereadRow, Step
  <2>2. CASE Answer(t, "inserted")
    BY <1>2, <2>2 DEF RereadRow, Answer
  <2> QED
    BY <1>2, <2>1, <2>2 DEF RereadRow
<1>3. ASSUME CreateContainer(t)
     PROVE  IndInv'
  BY <1>3 DEF CreateContainer, Step, CreateAs
<1>4. ASSUME StartContainer(t)
     PROVE  IndInv'
  BY <1>4 DEF StartContainer, Step, Start
<1>5. ASSUME MarkCreateFailed(t)
     PROVE  IndInv'
  <2>1. CASE UNCHANGED row
    BY <1>5, <2>1 DEF MarkCreateFailed, Answer
  <2>2. CASE UpdateStatus(sid[t], "error")
    <3>1. TypeOK'
      BY <1>5, <2>2 DEF MarkCreateFailed, Answer, UpdateStatus
    <3>2. \A s \in Sandboxes : /\ HasRow(s)' <=> HasRow(s)
                              /\ row'[s].container_id = row[s].container_id
      BY <1>5, <2>2 DEF MarkCreateFailed, Answer, UpdateStatus
    <3>3. /\ UndrawnUntouched' /\ Targets' /\ OneCreator' /\ CreatorHasRow'
          /\ Unanswered' /\ CallerKnows' /\ SeenGone' /\ Attached' /\ QuietStartup'
      BY <1>5, <3>2 DEF MarkCreateFailed, Answer
    <3>4. Reconciliation' /\ NoOrphan' /\ DestroyedMeansGone' /\ DurableCreate'
      BY <1>5, <3>2 DEF MarkCreateFailed, Answer
    <3> QED
      BY <3>1, <3>3, <3>4
  <2> QED
    BY <1>5, <2>1, <2>2 DEF MarkCreateFailed
<1>6. ASSUME AttachContainer(t)
     PROVE  IndInv'
  <2>1. CASE Step(t, "attach", "confirm")
    BY <1>6, <2>1 DEF AttachContainer, Step, UpdateContainer
  <2>2. CASE Step(t, "attach", "unwind_find")
    BY <1>6, <2>2 DEF AttachContainer, Step
  <2> QED
    BY <1>6, <2>1, <2>2 DEF AttachContainer
<1>7. ASSUME ConfirmRow(t)
     PROVE  IndInv'
  BY <1>7 DEF ConfirmRow, Step, Answer
<1>8. ASSUME UnwindFind(t)
     PROVE  IndInv'
  BY <1>8 DEF UnwindFind, Step, Answer
<1>9. ASSUME UnwindRemove(t)
     PROVE  IndInv'
  BY <1>9 DEF UnwindRemove, Answer, Remove
<1> QED
  BY <1>1, <1>2, <1>3, <1>4, <1>5, <1>6, <1>7, <1>8, <1>9 DEF Create

\* sandbox_health: a private id it may name is attached or destroyed.
LEMMA HealthPreserves ==
  ASSUME IndInv, NEW t \in Threads, Health(t)
  PROVE  IndInv'
<1> USE IdentifiersAssumption, LifecycleAssumption
    DEF IndInv, TypeOK, UndrawnUntouched, Targets, OneCreator,
        CreatorHasRow, Unanswered, CallerKnows, SeenGone, Attached,
        QuietStartup, Reconciliation, NoOrphan, DestroyedMeansGone, DurableCreate,
        RegistryTypeOK, DockerTypeOK, Rows, Statuses, NoRow, ContainerIds,
        Containers, ContainerStates, PCs, CreatePCs, HealthPCs, DeletePCs,
        HasRow, Exists, PrivateIds, threadVars, startupVars, history
<1>1. ASSUME NEW s \in Sandboxes, ReadRow(t, s, "inspect")
     PROVE  IndInv'
  BY <1>1 DEF ReadRow, Accept
<1>2. ASSUME Inspect(t)
     PROVE  IndInv'
  BY <1>2 DEF Inspect, Step, Answer
<1>3. ASSUME MarkMissing(t)
     PROVE  IndInv'
  <2>1. CASE UNCHANGED row
    BY <1>3, <2>1 DEF MarkMissing, Answer
  <2>2. CASE UpdateStatus(sid[t], "error")
    <3>1. TypeOK'
      BY <1>3, <2>2 DEF MarkMissing, Answer, UpdateStatus
    <3>2. \A s \in Sandboxes : /\ HasRow(s)' <=> HasRow(s)
                              /\ row'[s].container_id = row[s].container_id
      BY <1>3, <2>2 DEF MarkMissing, Answer, UpdateStatus
    <3>3. /\ UndrawnUntouched' /\ Targets' /\ OneCreator' /\ CreatorHasRow'
          /\ Unanswered' /\ CallerKnows' /\ SeenGone' /\ Attached' /\ QuietStartup'
      BY <1>3, <3>2 DEF MarkMissing, Answer
    <3>4. Reconciliation' /\ NoOrphan' /\ DestroyedMeansGone' /\ DurableCreate'
      BY <1>3, <3>2 DEF MarkMissing, Answer
    <3> QED
      BY <3>1, <3>3, <3>4
  <2> QED
    BY <1>3, <2>1, <2>2 DEF MarkMissing
<1> QED
  BY <1>1, <1>2, <1>3 DEF Health

\* delete_sandbox: the row goes only after its container went.
LEMMA DeletePreserves ==
  ASSUME IndInv, NEW t \in Threads, Delete(t)
  PROVE  IndInv'
<1> USE IdentifiersAssumption, LifecycleAssumption
    DEF IndInv, TypeOK, UndrawnUntouched, Targets, OneCreator,
        CreatorHasRow, Unanswered, CallerKnows, SeenGone, Attached,
        QuietStartup, Reconciliation, NoOrphan, DestroyedMeansGone, DurableCreate,
        RegistryTypeOK, DockerTypeOK, Rows, Statuses, NoRow, ContainerIds,
        Containers, ContainerStates, PCs, CreatePCs, HealthPCs, DeletePCs,
        HasRow, Exists, PrivateIds, threadVars, startupVars, history
<1>1. ASSUME NEW s \in Sandboxes, ReadRow(t, s, "stopping")
     PROVE  IndInv'
  BY <1>1 DEF ReadRow, Accept
<1>2. ASSUME MarkStopping(t)
     PROVE  IndInv'
  <2>1. CASE Answer(t, "stopping") /\ UNCHANGED row
    BY <1>2, <2>1 DEF MarkStopping, Answer
  <2>2. CASE Step(t, "stopping", "find") /\ UpdateStatus(sid[t], "stopping")
    <3>1. TypeOK'
      BY <1>2, <2>2 DEF MarkStopping, Step, UpdateStatus
    <3>2. \A s \in Sandboxes : /\ HasRow(s)' <=> HasRow(s)
                              /\ row'[s].container_id = row[s].container_id
      BY <1>2, <2>2 DEF MarkStopping, Step, UpdateStatus
    <3>3. /\ UndrawnUntouched' /\ Targets' /\ OneCreator' /\ CreatorHasRow'
          /\ Unanswered' /\ CallerKnows' /\ SeenGone' /\ Attached' /\ QuietStartup'
      BY <1>2, <2>2, <3>2 DEF MarkStopping, Step
    <3>4. Reconciliation' /\ NoOrphan' /\ DestroyedMeansGone' /\ DurableCreate'
      BY <1>2, <2>2, <3>2 DEF MarkStopping, Step
    <3> QED
      BY <3>1, <3>3, <3>4
  <2> QED
    BY <1>2, <2>1, <2>2 DEF MarkStopping
<1>3. ASSUME FindContainer(t)
     PROVE  IndInv'
  BY <1>3 DEF FindContainer, Step
<1>4. ASSUME RemoveContainer(t)
     PROVE  IndInv'
  BY <1>4 DEF RemoveContainer, Step, Remove
<1>5. ASSUME MarkDestroyFailed(t)
     PROVE  IndInv'
  <2>1. CASE UNCHANGED row
    BY <1>5, <2>1 DEF MarkDestroyFailed, Answer
  <2>2. CASE UpdateStatus(sid[t], "error")
    <3>1. TypeOK'
      BY <1>5, <2>2 DEF MarkDestroyFailed, Answer, UpdateStatus
    <3>2. \A s \in Sandboxes : /\ HasRow(s)' <=> HasRow(s)
                              /\ row'[s].container_id = row[s].container_id
      BY <1>5, <2>2 DEF MarkDestroyFailed, Answer, UpdateStatus
    <3>3. /\ UndrawnUntouched' /\ Targets' /\ OneCreator' /\ CreatorHasRow'
          /\ Unanswered' /\ CallerKnows' /\ SeenGone' /\ Attached' /\ QuietStartup'
      BY <1>5, <3>2 DEF MarkDestroyFailed, Answer
    <3>4. Reconciliation' /\ NoOrphan' /\ DestroyedMeansGone' /\ DurableCreate'
      BY <1>5, <3>2 DEF MarkDestroyFailed, Answer
    <3> QED
      BY <3>1, <3>3, <3>4
  <2> QED
    BY <1>5, <2>1, <2>2 DEF MarkDestroyFailed
<1>6. ASSUME ForgetRow(t)
     PROVE  IndInv'
  BY <1>6 DEF ForgetRow, Answer, DeleteRow
<1> QED
  BY <1>1, <1>2, <1>3, <1>4, <1>5, <1>6 DEF Delete

\* reconcile_state: no handler runs, so its two lists stay accurate.
LEMMA StartUpPreserves ==
  ASSUME IndInv, StartUp
  PROVE  IndInv'
<1> USE IdentifiersAssumption, LifecycleAssumption
    DEF IndInv, TypeOK, UndrawnUntouched, Targets, OneCreator,
        CreatorHasRow, Unanswered, CallerKnows, SeenGone, Attached,
        QuietStartup, Reconciliation, NoOrphan, DestroyedMeansGone, DurableCreate,
        RegistryTypeOK, DockerTypeOK, Rows, Statuses, NoRow, ContainerIds,
        Containers, ContainerStates, PCs, CreatePCs, HealthPCs, DeletePCs,
        HasRow, Exists, PrivateIds, threadVars, startupVars, history
<1>1. ASSUME ListState
     PROVE  IndInv'
  BY <1>1 DEF ListState, Managed
<1>2. ASSUME NEW c \in Containers, RemoveOrphan(c)
     PROVE  IndInv'
  BY <1>2 DEF RemoveOrphan, Remove
<1>3. ASSUME NEW s \in Sandboxes, MarkStale(s)
     PROVE  IndInv'
  BY <1>3 DEF MarkStale, UpdateStatus
<1>4. ASSUME Serve
     PROVE  IndInv'
  BY <1>4 DEF Serve
<1> QED
  BY <1>1, <1>2, <1>3, <1>4 DEF StartUp

\* A crash empties the memory; the daemon only ever takes containers away
\* from Sandboxes, or changes the state of one that exists.
LEMMA OtherStepsPreserve ==
  ASSUME IndInv, Crash \/ DockerMoves \/ UNCHANGED vars
  PROVE  IndInv'
<1> USE IdentifiersAssumption, LifecycleAssumption
    DEF IndInv, TypeOK, UndrawnUntouched, Targets, OneCreator,
        CreatorHasRow, Unanswered, CallerKnows, SeenGone, Attached,
        QuietStartup, Reconciliation, NoOrphan, DestroyedMeansGone, DurableCreate,
        RegistryTypeOK, DockerTypeOK, Rows, Statuses, NoRow, ContainerIds,
        Containers, ContainerStates, PCs, CreatePCs, HealthPCs, DeletePCs,
        HasRow, Exists, PrivateIds, threadVars, startupVars, history
<1>1. ASSUME Crash PROVE IndInv'
  BY <1>1 DEF Crash
<1>2. ASSUME NEW c \in Containers, UNCHANGED <<row, sent, startupVars, threadVars, history>>,
             ContainerExits(c) \/ Start(c) \/ Remove(c) \/ ForeignStarts(c)
      PROVE  IndInv'
  BY <1>2 DEF ContainerExits, Start, Remove, ForeignStarts
<1>3. ASSUME NEW s \in Sandboxes, LateCreate(s), UNCHANGED <<row, threadVars, history>>
      PROVE  IndInv'
  BY <1>3 DEF LateCreate, CreateAs
<1>4. ASSUME UNCHANGED vars PROVE IndInv'
  BY <1>4 DEF vars
<1> QED
  BY <1>1, <1>2, <1>3, <1>4 DEF DockerMoves, Environment

LEMMA NextPreserves == IndInv /\ [Next]_vars => IndInv'
  BY CreatePreserves, HealthPreserves, DeletePreserves, StartUpPreserves,
     OtherStepsPreserve DEF Next

\* The invariant the theorems below are read off.
THEOREM Invariance == Spec => []IndInv
  BY InitIndInv, NextPreserves, PTL DEF Spec


-----------------------------------------------------------------------------
(* What follows from the invariant.                                        *)

\* Every variable keeps its type.
THEOREM TypeCorrect == Spec => []TypeOK
  BY Invariance, PTL DEF IndInv

\* A container of a private id has its registry row, in every reachable state:
\* create inserts first, delete forgets last, and startup removes the rest.
THEOREM OrphanFree == Spec => []NoOrphan
  BY Invariance, PTL DEF IndInv

\* A sandbox whose delete removed its row has no row and, if private, no
\* container, for ever after.
THEOREM DestroyedForGood == Spec => []DestroyedMeansGone
  BY Invariance, PTL DEF IndInv

\* A sandbox answered with 200 keeps a row attached to its container until a
\* delete removes it, through crashes and startups.
THEOREM CreateIsDurable == Spec => []DurableCreate
  BY Invariance, PTL DEF IndInv

\* Clean-up paths and issued sandboxes, from the invariant alone.
LEMMA IssuedInInv == IndInv => IssuedNeverReclaimed
<1> SUFFICES ASSUME IndInv, NEW s \in known \ destroyed
             PROVE  /\ s \notin orphans
                    /\ \A t \in Threads : sid[t] = s =>
                          pc[t] \notin {"unwind_find", "unwind_remove"}
  BY DEF IssuedNeverReclaimed
<1>1. s \in Sandboxes /\ row[s].container_id = s
  BY DEF IndInv, TypeOK, DurableCreate
<1>2. HasRow(s)
  BY <1>1, IdentifiersAssumption DEF IndInv, TypeOK, RegistryTypeOK, Rows, NoRow, HasRow, Statuses
<1>3. s \notin orphans
  BY <1>1, <1>2 DEF IndInv, Reconciliation
<1>4. ASSUME NEW t \in Threads, sid[t] = s
      PROVE  pc[t] \notin {"unwind_find", "unwind_remove"}
  BY <1>4 DEF IndInv, OneCreator, CreatePCs
<1> QED
  BY <1>3, <1>4

\* Neither startup nor the unwinding of a create removes an issued sandbox.
THEOREM IssuedKept == Spec => []IssuedNeverReclaimed
  BY IssuedInInv, Invariance, PTL

\* A probe that is about to report a private sandbox's container missing is
\* right, up to the moment it writes "error".
THEOREM ProbesTellTruth == Spec => []MissingMeansGone
<1>1. IndInv => MissingMeansGone
  BY DEF IndInv, SeenGone, MissingMeansGone
<1> QED
  BY <1>1, Invariance, PTL

\* The step with which startup opens the service leaves no container without
\* a row, but for those the daemon made late, and no row that still waits for a
\* container.
THEOREM StartupRepairs == Spec => StartupClean
<1>1. ASSUME IndInv, [Next]_vars,
             process = "reconciling", process' = "serving",
             NEW s \in Sandboxes
      PROVE  /\ Exists(s) => HasRow(s) \/ s \in strays
             /\ HasRow(s) /\ row[s].container_id = Pending
                   => row[s].status = "error"
  <2>1. orphans = {} /\ stale = {}
    <3>1. CASE Serve
      BY <3>1 DEF Serve
    <3>2. CASE UNCHANGED process
      BY <1>1, <3>2
    <3>3. Serve \/ UNCHANGED process
      BY <1>1 DEF Next, vars, startupVars, Create, Health, Delete, StartUp, Crash,
            DockerMoves, InsertRow, RereadRow, CreateContainer, StartContainer,
            MarkCreateFailed, AttachContainer, ConfirmRow, UnwindFind,
            UnwindRemove, ReadRow, Inspect, MarkMissing, MarkStopping,
            FindContainer, RemoveContainer, MarkDestroyFailed, ForgetRow,
            ListState, RemoveOrphan, MarkStale, LateCreate
    <3> QED
      BY <3>1, <3>2, <3>3
  <2> QED
    BY <1>1, <2>1 DEF IndInv, Reconciliation
<1>2. IndInv /\ [Next]_vars =>
        [process = "reconciling" /\ process' = "serving" =>
          \A s \in Sandboxes :
            /\ Exists(s) => HasRow(s) \/ s \in strays
            /\ HasRow(s) /\ row[s].container_id = Pending
                  => row[s].status = "error"]_vars
  BY <1>1
<1> QED
  BY <1>2, Invariance, PTL DEF Spec, StartupClean

-----------------------------------------------------------------------------
(* Lifecycle implements SandboxContract.                                   *)

LivePrivate == {s \in PrivateIds : Exists(s)}

ContractStep == [Contract!ContractNext]_(Contract!contractVars)

\* Steps that tell callers nothing and leave every container existing or not
\* are invisible to the contract.
LEMMA QuietSteps ==
  ASSUME UNCHANGED history, LivePrivate' = LivePrivate
  PROVE  ContractStep
  BY DEF ContractStep, Contract!contractVars, LivePrivate, Phase, history

\* A container that goes, whoever removed it, is the contract's Lose.
LEMMA LosingSteps ==
  ASSUME UNCHANGED history, NEW c \in Containers,
         LivePrivate' = LivePrivate \ {c}
  PROVE  ContractStep
<1>1. CASE c \in PrivateIds
  <2>1. Contract!Lose(c)
    BY DEF Contract!Lose, LivePrivate, Phase, history
  <2> QED
    BY <1>1, <2>1 DEF ContractStep, Contract!ContractNext
<1>2. CASE c \notin PrivateIds
  <2>1. LivePrivate' = LivePrivate
    BY <1>2 DEF LivePrivate
  <2> QED
    BY <2>1, QuietSteps
<1> QED
  BY <1>1, <1>2

\* remove(force=True) is losing, and starting is quiet.
LEMMA RemoveLoses ==
  ASSUME TypeOK, NEW c \in Containers, Remove(c), UNCHANGED history
  PROVE  ContractStep
<1>1. LivePrivate' = LivePrivate \ {c}
  BY DEF TypeOK, DockerTypeOK, LivePrivate, PrivateIds, Containers, Exists, Remove
<1> QED
  BY <1>1, LosingSteps

LEMMA StateChangesQuiet ==
  ASSUME TypeOK, NEW c \in Containers, UNCHANGED history,
         Start(c) \/ ContainerExits(c) \/ ForeignStarts(c)
  PROVE  ContractStep
<1>1. LivePrivate' = LivePrivate
  BY IdentifiersAssumption
  DEF TypeOK, DockerTypeOK, LivePrivate, PrivateIds, Containers, Exists,
      Start, ContainerExits, ForeignStarts
<1> QED
  BY <1>1, QuietSteps

\* Steps that touch neither the daemon nor the history.
LEMMA DockerKept ==
  ASSUME UNCHANGED <<docker, history>>
  PROVE  ContractStep
  BY QuietSteps DEF LivePrivate, Exists, PrivateIds

LEMMA CreateImplements ==
  ASSUME IndInv, NEW t \in Threads, Create(t)
  PROVE  ContractStep
<1> USE DEF IndInv
<1>1. ASSUME NEW s \in Sandboxes, InsertRow(t, s) PROVE ContractStep
  <2>1. s \notin drawn /\ s \notin known /\ s \notin destroyed
    BY <1>1 DEF InsertRow, UndrawnUntouched
  <2>2. /\ drawn' = drawn \cup {s}
        /\ UNCHANGED <<docker, known, destroyed>>
    BY <1>1 DEF InsertRow
  <2>3. CASE s \in PrivateIds
    <3>1. Contract!Draw(s)
      BY <2>1, <2>2, <2>3
      DEF Contract!Draw, Contract!Move, Phase, LivePrivate, Exists, PrivateIds
    <3> QED
      BY <3>1, <2>3 DEF ContractStep, Contract!ContractNext
  <2>4. CASE s \notin PrivateIds
    BY <2>2, <2>4
    DEF ContractStep, Contract!contractVars, Phase, LivePrivate, Exists, PrivateIds
  <2> QED
    BY <2>3, <2>4
<1>2. ASSUME CreateContainer(t) PROVE ContractStep
  <2>1. CASE Step(t, "create", "start") /\ CreateAs(sid[t])
    <3>1. pc[t] = "create" /\ sid[t] \in Sandboxes
      BY <2>1 DEF Step, Targets
    <3>2. sid[t] \in drawn /\ sid[t] \notin known
      BY <3>1 DEF UndrawnUntouched, OneCreator, CreatePCs
    <3>3. UNCHANGED history
      BY <1>2 DEF CreateContainer
    <3>4. CASE sid[t] \in PrivateIds
      <4>1. sid[t] \notin destroyed
        BY <3>1, <3>4 DEF CreatorHasRow, CreatePCs
      <4>2. LivePrivate' = LivePrivate \cup {sid[t]}
        BY <2>1, <3>4 DEF CreateAs, LivePrivate, Exists, PrivateIds, Containers,
                          TypeOK, DockerTypeOK
      <4>3. Contract!Provision(sid[t])
        BY <3>2, <3>3, <3>4, <4>1, <4>2
        DEF Contract!Provision, Phase, LivePrivate, history
      <4> QED
        BY <3>4, <4>3 DEF ContractStep, Contract!ContractNext
    <3>5. CASE sid[t] \notin PrivateIds
      <4>1. LivePrivate' = LivePrivate
        BY <2>1, <3>5 DEF CreateAs, LivePrivate, Exists, TypeOK, DockerTypeOK
      <4> QED
        BY <3>3, <4>1, QuietSteps
    <3> QED
      BY <3>4, <3>5
  <2>2. CASE UNCHANGED docker
    BY <1>2, <2>2, DockerKept DEF CreateContainer
  <2> QED
    BY <1>2, <2>1, <2>2 DEF CreateContainer
<1>3. ASSUME StartContainer(t) PROVE ContractStep
  <2>1. pc[t] = "start" /\ sid[t] \in Containers
    BY <1>3 DEF StartContainer, Step, Targets, Containers
  <2>2. CASE Start(sid[t])
    BY <1>3, <2>1, <2>2, StateChangesQuiet DEF StartContainer
  <2>3. CASE UNCHANGED docker
    BY <1>3, <2>3, DockerKept DEF StartContainer
  <2> QED
    BY <1>3, <2>2, <2>3 DEF StartContainer
<1>4. ASSUME ConfirmRow(t) PROVE ContractStep
  <2>1. CASE Answer(t, "confirm") /\ HasRow(sid[t]) /\ known' = known \cup {sid[t]}
    <3>1. pc[t] = "confirm" /\ sid[t] \in Sandboxes
      BY <2>1 DEF Answer, Targets
    <3>2. sid[t] \in drawn /\ sid[t] \notin known /\ sid[t] \notin destroyed
      BY <2>1, <3>1 DEF UndrawnUntouched, OneCreator, CreatePCs, DestroyedMeansGone
    <3>3. UNCHANGED <<docker, drawn, destroyed>>
      BY <1>4 DEF ConfirmRow
    <3>4. CASE sid[t] \in PrivateIds
      <4>1. Contract!Issue(sid[t])
        BY <2>1, <3>2, <3>3, <3>4
        DEF Contract!Issue, Contract!Move, Phase, LivePrivate, Exists
      <4> QED
        BY <3>4, <4>1 DEF ContractStep, Contract!ContractNext
    <3>5. CASE sid[t] \notin PrivateIds
      BY <2>1, <3>3, <3>5
      DEF ContractStep, Contract!contractVars, Phase, Exists
    <3> QED
      BY <3>4, <3>5
  <2>2. CASE UNCHANGED known
    BY <1>4, <2>2, DockerKept DEF ConfirmRow, history
  <2> QED
    BY <1>4, <2>1, <2>2 DEF ConfirmRow
<1>5. ASSUME UnwindRemove(t) PROVE ContractStep
  <2>1. sid[t] \in Containers
    BY <1>5 DEF UnwindRemove, Answer, Targets, Containers
  <2> QED
    BY <1>5, <2>1, RemoveLoses, DockerKept DEF UnwindRemove
<1>6. ASSUME \/ RereadRow(t) \/ MarkCreateFailed(t)
             \/ AttachContainer(t) \/ UnwindFind(t)
      PROVE  ContractStep
  BY <1>6, DockerKept DEF RereadRow, MarkCreateFailed, AttachContainer, UnwindFind
<1> QED
  BY <1>1, <1>2, <1>3, <1>4, <1>5, <1>6 DEF Create

LEMMA DeleteImplements ==
  ASSUME IndInv, IndInv', NEW t \in Threads, Delete(t)
  PROVE  ContractStep
<1> USE DEF IndInv
<1>1. ASSUME RemoveContainer(t) PROVE ContractStep
  <2>1. CASE Remove(cid[t])
    BY <1>1, <2>1, RemoveLoses DEF RemoveContainer, Remove, Exists
  <2>2. CASE UNCHANGED docker
    BY <1>1, <2>2, DockerKept DEF RemoveContainer
  <2> QED
    BY <1>1, <2>1, <2>2 DEF RemoveContainer
<1>2. ASSUME ForgetRow(t) PROVE ContractStep
  <2>1. CASE destroyed' = destroyed \cup {sid[t]}
    <3>1. pc[t] = "forget" /\ sid[t] \in Sandboxes
      BY <1>2 DEF ForgetRow, Answer, Targets
    <3>2. UNCHANGED <<docker, drawn, known>>
      BY <1>2 DEF ForgetRow
    <3>3. CASE sid[t] \in PrivateIds /\ sid[t] \notin destroyed
      <4>1. sid[t] \in known /\ ~Exists(sid[t])
        BY <3>1, <3>3 DEF CallerKnows, SeenGone, HealthPCs, DeletePCs
      <4>2. Contract!Retire(sid[t])
        BY <2>1, <3>2, <3>3, <4>1
        DEF Contract!Retire, Contract!Move, Phase, LivePrivate, Exists
      <4> QED
        BY <3>3, <4>2 DEF ContractStep, Contract!ContractNext
    <3>4. CASE ~(sid[t] \in PrivateIds /\ sid[t] \notin destroyed)
      BY <2>1, <3>2, <3>4
      DEF ContractStep, Contract!contractVars, Phase, Exists
    <3> QED
      BY <3>3, <3>4
  <2>2. CASE UNCHANGED destroyed
    BY <1>2, <2>2, DockerKept DEF ForgetRow, history
  <2> QED
    BY <1>2, <2>1, <2>2 DEF ForgetRow
<1>3. ASSUME \/ \E s \in Sandboxes : ReadRow(t, s, "stopping")
             \/ MarkStopping(t) \/ FindContainer(t) \/ MarkDestroyFailed(t)
      PROVE  ContractStep
  BY <1>3, DockerKept DEF ReadRow, MarkStopping, FindContainer, MarkDestroyFailed
<1> QED
  BY <1>1, <1>2, <1>3 DEF Delete

LEMMA OtherStepsImplement ==
  ASSUME IndInv,
         \/ \E t \in Threads : Health(t)
         \/ StartUp \/ Crash \/ DockerMoves \/ UNCHANGED vars
  PROVE  ContractStep
<1>1. ASSUME NEW c \in Containers, RemoveOrphan(c) PROVE ContractStep
  <2>1. CASE Exists(c)
    BY <1>1, <2>1, RemoveLoses DEF RemoveOrphan, IndInv
  <2>2. CASE ~Exists(c)
    BY <1>1, <2>2, DockerKept DEF RemoveOrphan
  <2> QED
    BY <2>1, <2>2
<1>2. ASSUME DockerMoves PROVE ContractStep
  <2>1. CASE Environment
    BY <1>2, <2>1, RemoveLoses, StateChangesQuiet DEF DockerMoves, Environment, IndInv
  <2>2. ASSUME NEW s \in Sandboxes, LateCreate(s) PROVE ContractStep
    <3>1. s \in drawn /\ s \notin known /\ (s \in PrivateIds => s \notin destroyed)
      BY <2>2 DEF LateCreate, IndInv, UndrawnUntouched, Unanswered
    <3>2. UNCHANGED history
      BY <1>2 DEF DockerMoves
    <3>3. LivePrivate' = IF s \in PrivateIds THEN LivePrivate \cup {s} ELSE LivePrivate
      BY <2>2 DEF LateCreate, CreateAs, LivePrivate, Exists, PrivateIds, Containers,
                  IndInv, TypeOK, DockerTypeOK
    <3>4. CASE s \in PrivateIds
      <4>1. Contract!Provision(s)
        BY <3>1, <3>2, <3>3, <3>4
        DEF Contract!Provision, Phase, LivePrivate, history
      <4> QED
        BY <3>4, <4>1 DEF ContractStep, Contract!ContractNext
    <3> QED
      BY <3>2, <3>3, <3>4, QuietSteps
  <2> QED
    BY <1>2, <2>1, <2>2 DEF DockerMoves
<1>3. ASSUME \/ \E t \in Threads : Health(t)
             \/ ListState \/ Serve \/ Crash \/ UNCHANGED vars
             \/ \E s \in Sandboxes : MarkStale(s)
      PROVE  ContractStep
  BY <1>3, DockerKept
  DEF Health, ReadRow, Inspect, MarkMissing, ListState, MarkStale, Serve, Crash, vars
<1> QED
  BY <1>1, <1>2, <1>3 DEF StartUp

\* Seen through what callers were told and which containers exist, every step
\* of the orchestrator is a step of the contract, or none.
THEOREM Implementation == Spec => ImplementsContract
<1>1. Init => Contract!ContractInit
  BY DEF Init, DockerInit, Contract!ContractInit, Phase, Exists, PrivateIds, Containers
<1>2. IndInv /\ IndInv' /\ [Next]_vars => ContractStep
  BY CreateImplements, DeleteImplements, OtherStepsImplement DEF Next
<1> QED
  BY <1>1, <1>2, Invariance, PTL
  DEF Spec, ImplementsContract, Contract!ContractSpec, ContractStep
=============================================================================
