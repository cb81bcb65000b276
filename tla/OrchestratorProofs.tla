------------------------- MODULE OrchestratorProofs -------------------------
(***************************************************************************)
(* Theorems about the composed orchestrator.  Each component's invariant   *)
(* comes from its own module: every step of the whole is a step of the     *)
(* component, or leaves it alone.  What is new here is what ties the two.  *)
(***************************************************************************)
EXTENDS Orchestrator, LifecycleProofs, ExecStreamProofs

\* A command runs inside a running container.
CommandsInside ==
    \A r \in Requests :
        cmd[r] = "running" => target[r] \in Sandboxes /\ docker[target[r]] = "running"

\* A private id that an exec aims at, or has started a command in, was issued.
TargetsIssued ==
    \A r \in Requests :
        (rpc[r] # "idle" \/ cmd[r] = "running") /\ target[r] \in PrivateIds
            => target[r] \in known

\* A row leads to its own container or to none yet.
RowsOwn == \A s \in Sandboxes : row[s].container_id \in {Pending, s}

OrchInv ==
    /\ IndInv
    /\ RowsOwn
    /\ ExecInv
    /\ CommandsInside
    /\ TargetsIssued
    /\ ExecFindsContainer

-----------------------------------------------------------------------------
(* The steps of the whole are steps of its parts.                          *)

\* The daemon is moved by the exec route through nothing.
LEMMA StreamKeepsDocker ==
  ASSUME NEW r \in Requests, Stream(r) \/ TimePasses(r) \/ CommandEnds(r)
  PROVE  UNCHANGED docker
  BY DEF Stream, TimePasses, CommandEnds, Acquire, RefuseBusy, Begin, Drop,
     Resolve, Spawn, Chunk, Resume, EndOfOutput, ReadFails, InspectExit,
     EmitError, EmitExit, Finish, Disconnect

LEMMA LifecycleMoves ==
  ASSUME [OrchNext]_orchVars
  PROVE  [Next]_vars
<1>1. ASSUME LifecycleStep PROVE [Next]_vars
  BY <1>1 DEF LifecycleStep, Next
<1>2. ASSUME CrashAll PROVE [Next]_vars
  BY <1>2 DEF CrashAll, Next
<1>3. ASSUME NEW r \in Requests, NEW s \in Sandboxes, ExecSandbox(r, s)
      PROVE  [Next]_vars
  BY <1>3 DEF ExecSandbox, Lookup, lifecycleOnly, vars
<1>4. ASSUME NEW r \in Requests, ExecStep(r) PROVE [Next]_vars
  BY <1>4, StreamKeepsDocker DEF ExecStep, lifecycleOnly, vars
<1>5. ASSUME UNCHANGED orchVars PROVE [Next]_vars
  BY <1>5 DEF orchVars, allVars, lifecycleOnly, vars
<1> QED
  BY <1>1, <1>2, <1>3, <1>4, <1>5 DEF OrchNext

\* What a handler, startup or the daemon does to a container is what may
\* happen to a container in ExecStream.
LEMMA HandlersMoveContainers ==
  ASSUME IndInv,
         \/ \E t \in Threads : Create(t) \/ Health(t) \/ Delete(t)
         \/ StartUp
         \/ DockerMoves
  PROVE  \/ UNCHANGED docker
         \/ Environment
         \/ \E c \in Containers : CreateAs(c)
<1>1. ASSUME NEW c, Start(c) \/ Remove(c) PROVE Environment
  BY <1>1 DEF Start, Remove, Exists, Environment
<1>2. ASSUME NEW t \in Threads, Create(t)
      PROVE  UNCHANGED docker \/ Environment \/ \E c \in Containers : CreateAs(c)
  <2>1. ASSUME CreateContainer(t)
        PROVE  UNCHANGED docker \/ \E c \in Containers : CreateAs(c)
    BY <2>1 DEF CreateContainer, Step, IndInv, Targets, Containers
  <2>2. ASSUME StartContainer(t) \/ UnwindRemove(t)
        PROVE  UNCHANGED docker \/ Environment
    BY <1>1, <2>2 DEF StartContainer, UnwindRemove
  <2>3. ASSUME \/ \E s \in Sandboxes : InsertRow(t, s)
               \/ RereadRow(t) \/ MarkCreateFailed(t) \/ AttachContainer(t)
               \/ ConfirmRow(t) \/ UnwindFind(t)
        PROVE  UNCHANGED docker
    BY <2>3 DEF InsertRow, RereadRow, MarkCreateFailed, AttachContainer,
       ConfirmRow, UnwindFind
  <2> QED
    BY <1>2, <2>1, <2>2, <2>3 DEF Create
<1>3. ASSUME NEW t \in Threads, Delete(t) PROVE UNCHANGED docker \/ Environment
  <2>1. ASSUME RemoveContainer(t) PROVE UNCHANGED docker \/ Environment
    BY <1>1, <2>1 DEF RemoveContainer
  <2> QED
    BY <1>3, <2>1 DEF Delete, ReadRow, MarkStopping, FindContainer,
       MarkDestroyFailed, ForgetRow
<1>4. ASSUME NEW t \in Threads, Health(t) PROVE UNCHANGED docker
  BY <1>4 DEF Health, ReadRow, Inspect, MarkMissing
<1>5. ASSUME StartUp PROVE UNCHANGED docker \/ Environment
  <2>1. ASSUME NEW c \in Containers, RemoveOrphan(c)
        PROVE  UNCHANGED docker \/ Environment
    BY <1>1, <2>1 DEF RemoveOrphan
  <2> QED
    BY <1>5, <2>1 DEF StartUp, ListState, MarkStale, Serve
<1>6. ASSUME DockerMoves PROVE Environment \/ \E c \in Containers : CreateAs(c)
  BY <1>6 DEF DockerMoves, LateCreate, Containers
<1> QED
  BY <1>2, <1>3, <1>4, <1>5, <1>6

\* Where no container moves no command is killed.
LEMMA NothingKilled ==
  ASSUME ExecInv, CommandsInside, KillCommands, UNCHANGED docker
  PROVE  UNCHANGED cmd
  BY DEF ExecInv, ExecTypeOK, CommandsInside, KillCommands

LEMMA ExecMoves ==
  ASSUME IndInv, RowsOwn, ExecInv, CommandsInside, [OrchNext]_orchVars
  PROVE  [ExecNext]_allVars
<1>1. ASSUME LifecycleStep PROVE [ExecNext]_allVars
  <2>1. CASE UNCHANGED docker
    BY <1>1, <2>1, NothingKilled DEF LifecycleStep, execOnly, allVars, execVars
  <2>2. CASE Environment \/ \E c \in Containers : CreateAs(c)
    BY <1>1, <2>2 DEF LifecycleStep, execOnly, ContainerMoves, ExecNext
  <2> QED
    BY <1>1, <2>1, <2>2, HandlersMoveContainers DEF LifecycleStep
<1>2. ASSUME CrashAll PROVE [ExecNext]_allVars
  BY <1>2 DEF CrashAll, ExecNext
<1>3. ASSUME NEW r \in Requests, NEW s \in Sandboxes, ExecSandbox(r, s)
      PROVE  [ExecNext]_allVars
  BY <1>3 DEF ExecSandbox, ExecNext, RowsOwn
<1>4. ASSUME NEW r \in Requests, ExecStep(r) PROVE [ExecNext]_allVars
  BY <1>4 DEF ExecStep, ExecNext
<1>5. ASSUME UNCHANGED orchVars PROVE [ExecNext]_allVars
  BY <1>5 DEF orchVars
<1> QED
  BY <1>1, <1>2, <1>3, <1>4, <1>5 DEF OrchNext

-----------------------------------------------------------------------------
(* The invariant.                                                          *)

\* update_container is the only writer of the column, and writes the id of the
\* container that was made for the row.
LEMMA RowsStayOwn ==
  ASSUME IndInv, RowsOwn, [Next]_vars
  PROVE  RowsOwn'
<1> USE DEF IndInv, TypeOK, RegistryTypeOK, RowsOwn, HasRow, NoRow
<1>1. ASSUME UNCHANGED row PROVE RowsOwn'
  BY <1>1
<1>2. ASSUME NEW s \in Sandboxes,
             \/ InsertSandbox(s) \/ DeleteRow(s)
             \/ UpdateContainer(s, s, "running")
             \/ \E st \in Statuses : UpdateStatus(s, st)
      PROVE  RowsOwn'
  BY <1>2 DEF InsertSandbox, DeleteRow, UpdateContainer, UpdateStatus
<1>3. ASSUME NEW t \in Threads, pc[t] # "idle" PROVE sid[t] \in Sandboxes
  BY <1>3 DEF Targets
<1>4. ASSUME NEW t \in Threads, Create(t) PROVE RowsOwn'
  <2>1. ASSUME NEW s \in Sandboxes, InsertRow(t, s) PROVE RowsOwn'
    BY <1>2, <2>1 DEF InsertRow
  <2>2. ASSUME MarkCreateFailed(t) PROVE RowsOwn'
    BY <1>1, <1>2, <1>3, <2>2 DEF MarkCreateFailed, Answer, Statuses
  <2>3. ASSUME AttachContainer(t) PROVE RowsOwn'
    BY <1>1, <1>2, <1>3, <2>3 DEF AttachContainer, Step
  <2> QED
    BY <1>1, <1>4, <2>1, <2>2, <2>3
    DEF Create, RereadRow, CreateContainer, StartContainer, ConfirmRow,
        UnwindFind, UnwindRemove
<1>5. ASSUME NEW t \in Threads, Health(t) PROVE RowsOwn'
  <2>1. ASSUME MarkMissing(t) PROVE RowsOwn'
    BY <1>1, <1>2, <1>3, <2>1 DEF MarkMissing, Answer, Statuses
  <2> QED
    BY <1>1, <1>5, <2>1 DEF Health, ReadRow, Inspect
<1>6. ASSUME NEW t \in Threads, Delete(t) PROVE RowsOwn'
  <2>1. ASSUME MarkStopping(t) PROVE RowsOwn'
    BY <1>1, <1>2, <1>3, <2>1 DEF MarkStopping, Step, Answer, Statuses
  <2>2. ASSUME MarkDestroyFailed(t) PROVE RowsOwn'
    BY <1>1, <1>2, <1>3, <2>2 DEF MarkDestroyFailed, Answer, Statuses
  <2>3. ASSUME ForgetRow(t) PROVE RowsOwn'
    BY <1>1, <1>2, <1>3, <2>3 DEF ForgetRow, Answer
  <2> QED
    BY <1>1, <1>6, <2>1, <2>2, <2>3
    DEF Delete, ReadRow, FindContainer, RemoveContainer
<1>7. ASSUME NEW s \in Sandboxes, MarkStale(s) PROVE RowsOwn'
  BY <1>2, <1>7 DEF MarkStale, Statuses
<1> QED
  BY <1>1, <1>4, <1>5, <1>6, <1>7
  DEF Next, StartUp, ListState, RemoveOrphan, Serve, Crash, DockerMoves, vars

\* A command starts in the running container of its target, and goes with it.
LEMMA CommandsStayInside ==
  ASSUME ExecInv, CommandsInside, [ExecNext]_allVars
  PROVE  CommandsInside'
<1> USE IdentifiersAssumption DEF ExecInv, ExecTypeOK, CommandsInside
<1>1. ASSUME NEW r \in Requests, Spawn(r) PROVE CommandsInside'
  BY <1>1 DEF Spawn, StartCommand, Running, Exists, Go, Fail, ExecTargets,
     Containers
<1>2. ASSUME NEW r \in Requests, NEW s \in Sandboxes, NEW c, Lookup(r, s, c)
      PROVE  CommandsInside'
  BY <1>2 DEF Lookup
<1>3. ASSUME NEW r \in Requests,
             \/ Acquire(r) \/ RefuseBusy(r) \/ Begin(r) \/ Drop(r)
             \/ Resolve(r) \/ Chunk(r) \/ Resume(r) \/ EndOfOutput(r)
             \/ ReadFails(r) \/ InspectExit(r) \/ EmitError(r) \/ EmitExit(r)
             \/ Finish(r) \/ Disconnect(r) \/ TimePasses(r)
      PROVE  UNCHANGED <<docker, target, cmd>>
  BY <1>3 DEF Acquire, RefuseBusy, Begin, Drop, Resolve, Chunk, Resume,
     EndOfOutput, ReadFails, InspectExit, EmitError, EmitExit, Finish,
     Disconnect, TimePasses, Exits, Go, Fail, Over
<1>4. ASSUME NEW r \in Requests, CommandEnds(r) PROVE CommandsInside'
  BY <1>4 DEF CommandEnds, streamVars
<1>5. ASSUME ContainerMoves PROVE CommandsInside'
  BY <1>5 DEF ContainerMoves, KillCommands, streamVars
<1>6. ASSUME UNCHANGED <<docker, target, cmd>> PROVE CommandsInside'
  BY <1>6
<1> QED
  BY <1>1, <1>2, <1>3, <1>4, <1>5, <1>6
  DEF ExecNext, Stream, Restart, allVars, execVars, streamVars

\* Only ids that a caller may know are looked up, and a row of a private one
\* that is known leads to its container.
LEMMA LookupsFind ==
  ASSUME OrchInv, IndInv', ExecInv', [OrchNext]_orchVars
  PROVE  TargetsIssued' /\ ExecFindsContainer'
<1> USE DEF OrchInv, TargetsIssued, ExecFindsContainer, ExecInv, ExecTypeOK
<1>1. known \subseteq known'
  BY LifecycleMoves DEF Next, vars, history, Create, Health, Delete, StartUp,
     InsertRow, RereadRow, CreateContainer, StartContainer, MarkCreateFailed,
     AttachContainer, ConfirmRow, UnwindFind, UnwindRemove, ReadRow, Inspect,
     MarkMissing, MarkStopping, FindContainer, RemoveContainer,
     MarkDestroyFailed, ForgetRow, ListState, RemoveOrphan, MarkStale, Serve,
     Crash, DockerMoves
<1>2. ASSUME NEW r \in Requests, NEW s \in Sandboxes, ExecSandbox(r, s)
      PROVE  TargetsIssued' /\ ExecFindsContainer'
  <2>1. s \in PrivateIds => s \in known \ destroyed
    BY <1>2 DEF ExecSandbox, IndInv, DestroyedMeansGone, PrivateIds
  <2>2. s \in PrivateIds => row[s].container_id = s
    BY <2>1 DEF IndInv, DurableCreate
  <2> QED
    BY <1>1, <1>2, <2>1, <2>2 DEF ExecSandbox, Lookup
<1>3. ASSUME \A r \in Requests :
                /\ target'[r] = target[r]
                /\ rpc'[r] # "idle" => rpc[r] # "idle" /\ rcid'[r] = rcid[r]
                /\ cmd'[r] = "running" => cmd[r] = "running" \/ rpc[r] # "idle"
      PROVE  TargetsIssued' /\ ExecFindsContainer'
  BY <1>1, <1>3
<1>4. ASSUME NEW r \in Requests, ExecStep(r)
      PROVE  TargetsIssued' /\ ExecFindsContainer'
  BY <1>3, <1>4
  DEF ExecStep, Stream, TimePasses, CommandEnds, Acquire, RefuseBusy, Begin,
      Drop, Resolve, Spawn, StartCommand, Chunk, Resume, EndOfOutput, ReadFails,
      InspectExit, Exits, EmitError, EmitExit, Finish, Disconnect, Go, Fail, Over,
      streamVars
<1>5. ASSUME LifecycleStep PROVE TargetsIssued' /\ ExecFindsContainer'
  BY <1>3, <1>5 DEF LifecycleStep, KillCommands, execOnly, streamVars
<1>6. ASSUME CrashAll PROVE TargetsIssued' /\ ExecFindsContainer'
  BY <1>3, <1>6 DEF CrashAll, Restart
<1>7. ASSUME UNCHANGED orchVars PROVE TargetsIssued' /\ ExecFindsContainer'
  BY <1>3, <1>7 DEF orchVars, allVars, execVars, streamVars
<1> QED
  BY <1>2, <1>4, <1>5, <1>6, <1>7 DEF OrchNext

LEMMA InitOrchInv == OrchInit => OrchInv
<1> SUFFICES ASSUME OrchInit PROVE OrchInv
  OBVIOUS
<1>1. IndInv /\ ExecInv
  BY InitIndInv, InitExecInv DEF OrchInit
<1>2. RowsOwn /\ CommandsInside /\ TargetsIssued /\ ExecFindsContainer
  BY DEF OrchInit, Init, RegistryInit, NoRow, ExecInit, RowsOwn,
     CommandsInside, TargetsIssued, ExecFindsContainer
<1> QED
  BY <1>1, <1>2 DEF OrchInv

LEMMA OrchNextPreserves == OrchInv /\ [OrchNext]_orchVars => OrchInv'
<1> SUFFICES ASSUME OrchInv, [OrchNext]_orchVars PROVE OrchInv'
  OBVIOUS
<1>1. IndInv' /\ RowsOwn'
  BY LifecycleMoves, NextPreserves, RowsStayOwn DEF OrchInv
<1>2. [ExecNext]_allVars
  BY ExecMoves DEF OrchInv
<1>3. ExecInv' /\ CommandsInside'
  BY <1>2, ExecNextPreserves, CommandsStayInside DEF OrchInv
<1>4. TargetsIssued' /\ ExecFindsContainer'
  BY <1>1, <1>3, LookupsFind
<1> QED
  BY <1>1, <1>3, <1>4 DEF OrchInv

THEOREM OrchInvariance == OrchSpec => []OrchInv
  BY InitOrchInv, OrchNextPreserves, PTL DEF OrchSpec

-----------------------------------------------------------------------------
(* The results.                                                            *)

\* Every variable of the orchestrator keeps its type.
THEOREM OrchTypeCorrect == OrchSpec => []OrchTypeOK
  BY OrchInvariance, PTL DEF OrchInv, IndInv, ExecInv, OrchTypeOK

\* An exec of a private sandbox resolves that sandbox's container.
THEOREM ExecsFind == OrchSpec => []ExecFindsContainer
  BY OrchInvariance, PTL DEF OrchInv

\* No command runs in a private sandbox whose delete answered 200, since none
\* runs without its container.
THEOREM DestroyedAreQuiet == OrchSpec => []DestroyedIsQuiet
<1>1. OrchInv => DestroyedIsQuiet
  BY DEF OrchInv, CommandsInside, IndInv, DestroyedMeansGone, Exists,
     DestroyedIsQuiet, PrivateIds, Containers
<1> QED
  BY <1>1, OrchInvariance, PTL

\* Clean-up never removes a private container under a running command: its
\* sandbox was issued, and not destroyed, for its container is there.
THEOREM CommandsSpared == OrchSpec => []ReclaimSparesCommands
<1>1. OrchInv => ReclaimSparesCommands
  <2> SUFFICES ASSUME OrchInv, NEW r \in Requests, cmd[r] = "running",
                      target[r] \in PrivateIds
               PROVE  /\ target[r] \notin orphans
                      /\ \A t \in Threads : sid[t] = target[r] =>
                            pc[t] \notin {"unwind_find", "unwind_remove"}
    BY DEF ReclaimSparesCommands
  <2>1. target[r] \in known
    BY DEF OrchInv, TargetsIssued
  <2>2. target[r] \notin destroyed
    BY DEF OrchInv, CommandsInside, IndInv, DestroyedMeansGone, Exists, Containers
  <2> QED
    BY <2>1, <2>2, IssuedInInv DEF OrchInv, IssuedNeverReclaimed
<1> QED
  BY <1>1, OrchInvariance, PTL

\* The exec route over the real table and daemon is the one of ExecStream: what
\* ExecMoves needs for it are RowsOwn and CommandsInside.
THEOREM ExecKept == OrchSpec => ImplementsExec
<1>1. OrchInit => ExecInit
  BY DEF OrchInit
<1>2. OrchInv /\ [OrchNext]_orchVars => [ExecNext]_allVars
  BY ExecMoves DEF OrchInv
<1> QED
  BY <1>1, <1>2, OrchInvariance, PTL DEF OrchSpec, ImplementsExec, ExecSpec
=============================================================================
