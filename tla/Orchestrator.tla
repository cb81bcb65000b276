---------------------------- MODULE Orchestrator ----------------------------
(***************************************************************************)
(* The whole orchestrator: the lifecycle handlers and the exec route over  *)
(* one registry, one daemon and one process.                               *)
(*                                                                         *)
(* Lifecycle leaves out what runs in a container, and ExecStream what the  *)
(* registry holds and why containers come and go.  Here a lookup reads the *)
(* row the other handlers write, their removals kill commands, and a crash *)
(* takes handlers, locks and streams together.                             *)
(***************************************************************************)
EXTENDS Lifecycle, ExecStream

lifecycleOnly == <<row, sent, startupVars, threadVars, history>>
execOnly == <<locked, lost, streamVars>>
orchVars == <<lifecycleOnly, allVars>>

OrchTypeOK == TypeOK /\ ExecTypeOK

OrchInit == Init /\ ExecInit

\* Handlers, startup and daemon: a container that goes takes its commands along.
LifecycleStep ==
    /\ \/ \E t \in Threads : Create(t) \/ Health(t) \/ Delete(t)
       \/ StartUp
       \/ DockerMoves
    /\ KillCommands
    /\ UNCHANGED execOnly

\* Mutant: locks are kept in the table, and so outlive their streams.
CrashKeepsLocks ==
    /\ Crash
    /\ rpc' = [r \in Requests |-> "idle"]
    /\ rcid' = [r \in Requests |-> Pending]
    /\ late' = [r \in Requests |-> FALSE]
    /\ error' = [r \in Requests |-> NoError]
    /\ code' = [r \in Requests |-> NoCode]
    /\ UNCHANGED <<locked, lost, target, cmd>>

CrashAll == Crash /\ Restart

\* get_sandbox of exec_sandbox, for an id the caller may know.
ExecSandbox(r, s) ==
    /\ process = "serving"
    /\ s \in known \cup LeakedIds
    /\ HasRow(s)
    /\ Lookup(r, s, row[s].container_id)
    /\ UNCHANGED lifecycleOnly

ExecStep(r) ==
    /\ Stream(r) \/ TimePasses(r) \/ CommandEnds(r)
    /\ UNCHANGED lifecycleOnly

OrchNext ==
    \/ LifecycleStep
    \/ CrashAll
    \/ \E r \in Requests : (\E s \in Sandboxes : ExecSandbox(r, s)) \/ ExecStep(r)

OrchSpec == OrchInit /\ [][OrchNext]_orchVars

(* Fairness.  As in ExecStream, but no command need ever print or end: only *)
(* that Docker delivers the end of output when it has ended.               *)
Served(r) == (Advance(r) \/ EndOfOutput(r)) /\ UNCHANGED lifecycleOnly

Ages(r) == TimePasses(r) /\ UNCHANGED lifecycleOnly

FairOrchSpec ==
    /\ OrchSpec
    /\ \A r \in Requests : WF_orchVars(Served(r)) /\ WF_orchVars(Ages(r))

-----------------------------------------------------------------------------
(* Properties.                                                             *)

\* The exec route over the real table and daemon is the one of ExecStream, which
\* had left them open: a row leads to its own container or to none, whatever the
\* handlers did to it, containers change as they may there, and a crash takes
\* every stream along with its lock.
ImplementsExec == ExecSpec

\* An exec of a sandbox its caller learnt from a create answer never aims at
\* "pending": not while a probe, a delete or a startup works on the same row.
ExecFindsContainer ==
    \A r \in Requests :
        rpc[r] # "idle" /\ target[r] \in PrivateIds => rcid[r] = target[r]

\* After a delete answered 200 no command runs in the sandbox, whatever exec
\* was between its lookup, its lock and exec_start when the delete came by.
DestroyedIsQuiet ==
    \A r \in Requests :
        target[r] \in destroyed \cap PrivateIds => cmd[r] # "running"

\* Neither startup nor the unwinding of a create aims at a container that a
\* command runs in, though commands outlive the process that started them.
ReclaimSparesCommands ==
    \A r \in Requests : cmd[r] = "running" /\ target[r] \in PrivateIds =>
        /\ target[r] \notin orphans
        /\ \A t \in Threads :
               sid[t] = target[r] => pc[t] \notin {"unwind_find", "unwind_remove"}

\* Deleting a sandbox ends what still streams from it and frees its lock, also
\* when its command is silent and no timeout ever would.
DeleteFreesLock ==
    \A s \in PrivateIds :
        s \in destroyed /\ s \in locked ~> s \notin locked \/ s \in lost
=============================================================================
