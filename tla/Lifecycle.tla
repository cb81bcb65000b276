------------------------------ MODULE Lifecycle ------------------------------
(***************************************************************************)
(* The handlers of main.py that create, probe and delete sandboxes, the    *)
(* startup reconciliation, and the crashes between any two of their steps. *)
(*                                                                         *)
(* FastAPI runs each synchronous handler in a thread of its pool.  The     *)
(* registry and the daemon serialise single calls; nothing serialises two  *)
(* handlers, so a handler is one action per registry or Docker call.  A    *)
(* call that raises is a disjunct of the action that makes it.             *)
(***************************************************************************)
EXTENDS Registry, Docker, FiniteSets

CONSTANTS Threads,    \* the handlers that may run at once
          LeakedIds   \* ids a caller may name before a create answered them

ASSUME LifecycleAssumption == LeakedIds \subseteq Sandboxes

VARIABLES process,    \* the orchestrator process
          orphans,    \* reconcile_state: containers it has yet to remove
          stale,      \* reconcile_state: rows it has yet to mark "error"
          strays,     \* history: containers made since it listed them
          pc,         \* per thread, the next call of its handler
          sid,        \* per thread, the sandbox id of its request
          cid,        \* per thread, record.container_id as it was read
          sent,       \* create requests the daemon has though nobody waits
          drawn,      \* history: ids uuid4 has returned
          known,      \* history: ids a create request answered with 200
          destroyed   \* history: ids whose row a delete request removed

threadVars == <<pc, sid, cid>>
startupVars == <<process, orphans, stale, strays>>
history == <<drawn, known, destroyed>>
vars == <<row, docker, sent, startupVars, threadVars, history>>

CreatePCs == {"inserted", "create", "start", "mark_failed", "attach",
              "confirm", "unwind_find", "unwind_remove"}
HealthPCs == {"inspect", "missing"}
DeletePCs == {"stopping", "find", "remove", "undelete", "forget"}
PCs == {"idle"} \cup CreatePCs \cup HealthPCs \cup DeletePCs

TypeOK ==
    /\ RegistryTypeOK
    /\ DockerTypeOK
    /\ process \in {"down", "reconciling", "serving"}
    /\ orphans \subseteq Containers
    /\ stale \subseteq Sandboxes
    /\ strays \subseteq Sandboxes
    /\ sent \subseteq Sandboxes
    /\ pc \in [Threads -> PCs]
    /\ sid \in [Threads -> Sandboxes \cup {NoSandbox}]
    /\ cid \in [Threads -> ContainerIds]
    /\ drawn \subseteq Sandboxes
    /\ known \subseteq Sandboxes
    /\ destroyed \subseteq Sandboxes

Init ==
    /\ RegistryInit
    /\ DockerInit
    /\ process = "down"
    /\ orphans = {} /\ stale = {} /\ strays = {}
    /\ sent = {}
    /\ pc = [t \in Threads |-> "idle"]
    /\ sid = [t \in Threads |-> NoSandbox]
    /\ cid = [t \in Threads |-> Pending]
    /\ drawn = {} /\ known = {} /\ destroyed = {}

-----------------------------------------------------------------------------
(* The control of one handler.                                             *)

\* Thread t, about to make call `from`, goes on to call `to`.
Step(t, from, to) ==
    /\ pc[t] = from
    /\ pc' = [pc EXCEPT ![t] = to]
    /\ UNCHANGED <<sid, cid>>

\* Thread t, about to make call `from`, answers its request (200 or an error).
Answer(t, from) ==
    /\ pc[t] = from
    /\ pc' = [pc EXCEPT ![t] = "idle"]
    /\ sid' = [sid EXCEPT ![t] = NoSandbox]
    /\ cid' = [cid EXCEPT ![t] = Pending]

\* A request for sandbox s reaches an idle thread and starts at call `to`.
Accept(t, s, c, to) ==
    /\ process = "serving"
    /\ pc[t] = "idle"
    /\ pc' = [pc EXCEPT ![t] = to]
    /\ sid' = [sid EXCEPT ![t] = s]
    /\ cid' = [cid EXCEPT ![t] = c]

-----------------------------------------------------------------------------
(* create_sandbox                                                          *)

\* uuid4, then the INSERT of insert_sandbox (one that fails changes nothing).
InsertRow(t, s) ==
    /\ s \notin drawn
    /\ Accept(t, s, Pending, "inserted")
    /\ InsertSandbox(s)
    /\ drawn' = drawn \cup {s}
    /\ UNCHANGED <<docker, sent, startupVars, known, destroyed>>

\* insert_sandbox reads the row back; without it, or on a database error, it
\* raises outside create_sandbox's try blocks.
RereadRow(t) ==
    /\ \/ Step(t, "inserted", "create") /\ HasRow(sid[t])
       \/ Answer(t, "inserted")
    /\ UNCHANGED <<row, docker, sent, startupVars, history>>

\* seed_workspace and the create request of containers.run; seeding, a missing
\* image or the daemon may fail it, or it is given up with the daemon at work.
CreateContainer(t) ==
    /\ \/ Step(t, "create", "start") /\ CreateAs(sid[t]) /\ UNCHANGED sent
       \/ /\ Step(t, "create", "mark_failed")
          /\ UNCHANGED docker
          /\ sent' = sent \cup {sid[t]} \/ UNCHANGED sent
    /\ UNCHANGED <<row, startupVars, history>>

\* The start request of containers.run.  The daemon may refuse it, or start
\* the container and fail to say so; nothing removes the container then.
StartContainer(t) ==
    /\ \/ Step(t, "start", "attach") /\ Start(sid[t])
       \/ Step(t, "start", "mark_failed") /\ Start(sid[t])
       \/ Step(t, "start", "mark_failed") /\ UNCHANGED docker
    /\ UNCHANGED <<row, sent, startupVars, history>>

\* update_status("error") in the except blocks, then 424 or 500.
MarkCreateFailed(t) ==
    /\ Answer(t, "mark_failed")
    /\ UpdateStatus(sid[t], "error") \/ UNCHANGED row
    /\ UNCHANGED <<docker, sent, startupVars, history>>

\* Mutant: a failed update_container is logged and the create goes on.
AttachContainerSwallows(t) ==
    /\ Step(t, "attach", "confirm")
    /\ UpdateContainer(sid[t], sid[t], "running") \/ UNCHANGED row
    /\ UNCHANGED <<docker, sent, startupVars, history>>

\* update_container, whose `updated` is tested after get_sandbox: when no row
\* changed, get_sandbox is read only to raise all the same.
AttachContainer(t) ==
    /\ \/ /\ Step(t, "attach", "confirm")
          /\ HasRow(sid[t])
          /\ UpdateContainer(sid[t], sid[t], "running")
       \/ Step(t, "attach", "unwind_find") /\ UNCHANGED row
    /\ UNCHANGED <<docker, sent, startupVars, history>>

\* get_sandbox: a row answers 200, none (or a database error) unwinds.
ConfirmRow(t) ==
    /\ \/ /\ Answer(t, "confirm")
          /\ HasRow(sid[t])
          /\ known' = known \cup {sid[t]}
       \/ Step(t, "confirm", "unwind_find") /\ UNCHANGED known
    /\ UNCHANGED <<row, docker, sent, startupVars, drawn, destroyed>>

\* destroy_container(container.id), its containers.get.
UnwindFind(t) ==
    /\ \/ Step(t, "unwind_find", "unwind_remove") /\ Exists(sid[t])
       \/ Answer(t, "unwind_find")
    /\ UNCHANGED <<row, docker, sent, startupVars, history>>

\* destroy_container(container.id), its remove: either way a 500.
UnwindRemove(t) ==
    /\ Answer(t, "unwind_remove")
    /\ Remove(sid[t]) \/ UNCHANGED docker
    /\ UNCHANGED <<row, sent, startupVars, history>>

Create(t) ==
    \/ \E s \in Sandboxes : InsertRow(t, s)
    \/ RereadRow(t)
    \/ CreateContainer(t)
    \/ StartContainer(t)
    \/ MarkCreateFailed(t)
    \/ AttachContainer(t)
    \/ ConfirmRow(t)
    \/ UnwindFind(t)
    \/ UnwindRemove(t)

-----------------------------------------------------------------------------
(* sandbox_health and delete_sandbox                                       *)

\* get_sandbox, for an id the caller may know; no row answers 404.
ReadRow(t, s, to) ==
    /\ s \in known \cup LeakedIds
    /\ HasRow(s)
    /\ Accept(t, s, row[s].container_id, to)
    /\ UNCHANGED <<row, docker, sent, startupVars, history>>

\* Mutant: every Docker error is taken for "not found".
InspectAnyError(t) ==
    /\ Step(t, "inspect", "missing") \/ Answer(t, "inspect")
    /\ UNCHANGED <<row, docker, sent, startupVars, history>>

\* get_health: an answer, an error, or SandboxContainerNotFound.
Inspect(t) ==
    /\ \/ Step(t, "inspect", "missing") /\ ~Exists(cid[t])
       \/ Answer(t, "inspect")
    /\ UNCHANGED <<row, docker, sent, startupVars, history>>

\* update_status("error"), then 404 container_not_found.
MarkMissing(t) ==
    /\ Answer(t, "missing")
    /\ UpdateStatus(sid[t], "error") \/ UNCHANGED row
    /\ UNCHANGED <<docker, sent, startupVars, history>>

\* Mutant: a status nobody else knows.
MarkStoppingTypo(t) ==
    /\ \/ Step(t, "stopping", "find") /\ UpdateStatus(sid[t], "deleting")
       \/ Answer(t, "stopping") /\ UNCHANGED row
    /\ UNCHANGED <<docker, sent, startupVars, history>>

\* update_status("stopping"), outside the try block.
MarkStopping(t) ==
    /\ \/ Step(t, "stopping", "find") /\ UpdateStatus(sid[t], "stopping")
       \/ Answer(t, "stopping") /\ UNCHANGED row
    /\ UNCHANGED <<docker, sent, startupVars, history>>

\* Mutant: an error of containers.get counts as "already gone".
FindContainerSwallows(t) ==
    /\ \/ Step(t, "find", "forget")
       \/ Step(t, "find", "remove") /\ Exists(cid[t])
    /\ UNCHANGED <<row, docker, sent, startupVars, history>>

\* destroy_container, its containers.get: nothing to remove is success.
FindContainer(t) ==
    /\ \/ Step(t, "find", "forget") /\ ~Exists(cid[t])
       \/ Step(t, "find", "remove") /\ Exists(cid[t])
       \/ Step(t, "find", "undelete")
    /\ UNCHANGED <<row, docker, sent, startupVars, history>>

\* Mutant: an error of remove is ignored.
RemoveContainerSwallows(t) ==
    /\ Step(t, "remove", "forget")
    /\ Remove(cid[t]) \/ UNCHANGED docker
    /\ UNCHANGED <<row, sent, startupVars, history>>

\* destroy_container, its remove; a container gone since then is an error too.
RemoveContainer(t) ==
    /\ \/ Step(t, "remove", "forget") /\ Remove(cid[t])
       \/ Step(t, "remove", "undelete") /\ UNCHANGED docker
    /\ UNCHANGED <<row, sent, startupVars, history>>

\* update_status("error"), then 500.
MarkDestroyFailed(t) ==
    /\ Answer(t, "undelete")
    /\ UpdateStatus(sid[t], "error") \/ UNCHANGED row
    /\ UNCHANGED <<docker, sent, startupVars, history>>

\* registry.delete_sandbox, then 200 "destroyed"; or a database error.
ForgetRow(t) ==
    /\ Answer(t, "forget")
    /\ \/ DeleteRow(sid[t]) /\ destroyed' = destroyed \cup {sid[t]}
       \/ UNCHANGED <<row, destroyed>>
    /\ UNCHANGED <<docker, sent, startupVars, drawn, known>>

Health(t) ==
    \/ \E s \in Sandboxes : ReadRow(t, s, "inspect")
    \/ Inspect(t)
    \/ MarkMissing(t)

Delete(t) ==
    \/ \E s \in Sandboxes : ReadRow(t, s, "stopping")
    \/ MarkStopping(t)
    \/ FindContainer(t)
    \/ RemoveContainer(t)
    \/ MarkDestroyFailed(t)
    \/ ForgetRow(t)

-----------------------------------------------------------------------------
(* The process: startup reconciliation and crashes.                        *)

\* Mutant: rows in status "error" do not protect their container.
ListStateByStatus ==
    /\ process = "down"
    /\ process' = "reconciling"
    /\ strays' = {}
    /\ orphans' = {c \in Managed :
                      c \notin {s \in Sandboxes :
                                  HasRow(s) /\ row[s].status # "error"}}
    /\ stale' = {s \in Sandboxes :
                    HasRow(s) /\ row[s].container_id \notin Managed}
    /\ UNCHANGED <<row, docker, sent, threadVars, history>>

\* Mutant: rows that still say "pending" are left alone.
ListStateSkipsPending ==
    /\ process = "down"
    /\ process' = "reconciling"
    /\ strays' = {}
    /\ orphans' = {c \in Managed : c \notin {s \in Sandboxes : HasRow(s)}}
    /\ stale' = {s \in Sandboxes :
                    HasRow(s) /\ row[s].container_id \notin Managed \cup {Pending}}
    /\ UNCHANGED <<row, docker, sent, threadVars, history>>

\* initialize and the two listings of reconcile_state.  No handler runs yet,
\* so only the daemon can move between them: they are one step.
ListState ==
    /\ process = "down"
    /\ process' = "reconciling"
    /\ strays' = {}
    /\ orphans' = {c \in Managed : c \notin {s \in Sandboxes : HasRow(s)}}
    /\ stale' = {s \in Sandboxes :
                    HasRow(s) /\ row[s].container_id \notin Managed}
    /\ UNCHANGED <<row, docker, sent, threadVars, history>>

\* remove_container_by_id; one that is already gone is skipped.
RemoveOrphan(c) ==
    /\ process = "reconciling"
    /\ c \in orphans
    /\ orphans' = orphans \ {c}
    /\ IF Exists(c) THEN Remove(c) ELSE UNCHANGED docker
    /\ UNCHANGED <<row, sent, process, stale, strays, threadVars, history>>

\* The second loop, after the first.
MarkStale(s) ==
    /\ process = "reconciling"
    /\ orphans = {}
    /\ s \in stale
    /\ stale' = stale \ {s}
    /\ UpdateStatus(s, "error")
    /\ UNCHANGED <<docker, sent, process, orphans, strays, threadVars, history>>

\* lifespan yields: requests are accepted from here on.
Serve ==
    /\ process = "reconciling"
    /\ orphans = {} /\ stale = {}
    /\ process' = "serving"
    /\ strays' = {}
    /\ UNCHANGED <<row, docker, sent, orphans, stale, threadVars, history>>

\* The process is killed, or a call of initialize raises and it exits: what
\* it held in memory is lost, the table and the containers are not, and the
\* daemon may have been handed a create.
Crash ==
    /\ process # "down"
    /\ process' = "down"
    /\ orphans' = {} /\ stale' = {} /\ strays' = {}
    /\ \E unanswered \in SUBSET {sid[t] : t \in {u \in Threads : pc[u] = "create"}} :
           sent' = sent \cup unanswered
    /\ pc' = [t \in Threads |-> "idle"]
    /\ sid' = [t \in Threads |-> NoSandbox]
    /\ cid' = [t \in Threads |-> Pending]
    /\ UNCHANGED <<row, docker, history>>

StartUp ==
    \/ ListState
    \/ \E c \in Containers : RemoveOrphan(c)
    \/ \E s \in Sandboxes : MarkStale(s)
    \/ Serve

\* The daemon carries out a create that its caller has given up.
LateCreate(s) ==
    /\ s \in sent
    /\ CreateAs(s)
    /\ sent' = sent \ {s}
    /\ strays' = IF process = "reconciling" THEN strays \cup {s} ELSE strays
    /\ UNCHANGED <<process, orphans, stale>>

DockerMoves ==
    /\ \/ Environment /\ UNCHANGED <<sent, startupVars>>
       \/ \E s \in Sandboxes : LateCreate(s)
    /\ UNCHANGED <<row, threadVars, history>>

Next ==
    \/ \E t \in Threads : Create(t) \/ Health(t) \/ Delete(t)
    \/ StartUp
    \/ Crash
    \/ DockerMoves

Spec == Init /\ [][Next]_vars

-----------------------------------------------------------------------------
(* Properties.                                                             *)

PrivateIds == Sandboxes \ LeakedIds

\* A container of an id nobody could name too early always has its registry
\* row, whichever call of create, delete or reconciliation fails, wherever the
\* process dies and however late the daemon makes it: insert-before-create and
\* destroy-before-delete.
NoOrphan == \A s \in PrivateIds : Exists(s) => HasRow(s)

\* A delete request that removed the row removed it for good, and no container
\* is left under it, whatever probes and other deletes of it are in flight.
DestroyedMeansGone ==
    \A s \in destroyed : ~HasRow(s) /\ (s \in PrivateIds => ~Exists(s))

\* A sandbox whose create was answered 200 keeps its row, and the row its
\* container, across crashes and startups, until a delete request removes it;
\* this holds for ids that leaked too ("registry row disappeared").
DurableCreate == \A s \in known \ destroyed : row[s].container_id = s

\* The two paths that remove containers nobody asked to remove, startup's and
\* the unwinding of a failed create, never aim at a sandbox that was issued
\* and not destroyed.
IssuedNeverReclaimed ==
    \A s \in known \ destroyed :
        /\ s \notin orphans
        /\ \A t \in Threads :
               sid[t] = s => pc[t] \notin {"unwind_find", "unwind_remove"}

\* When a probe answers container_not_found, and marks the row, the container
\* is gone, and not merely unattached or seen too early.
MissingMeansGone ==
    \A t \in Threads :
        pc[t] = "missing" /\ sid[t] \in PrivateIds => ~Exists(sid[t])

\* When startup lets requests in, every container of this orchestrator has a
\* row, unless the daemon was late with it, and every row that never got its
\* container says "error".
StartupClean ==
    [][process = "reconciling" /\ process' = "serving" =>
        \A s \in Sandboxes :
            /\ Exists(s) => HasRow(s) \/ s \in strays
            /\ HasRow(s) /\ row[s].container_id = Pending
                  => row[s].status = "error"]_vars

\* The lifecycle, seen through what callers were told, keeps the contract.
Phase(s) == IF s \in destroyed THEN "retired"
            ELSE IF s \in known THEN "issued"
            ELSE IF s \in drawn THEN "tentative" ELSE "unborn"

Contract == INSTANCE SandboxContract
                WITH Ids <- PrivateIds,
                     phase <- [s \in PrivateIds |-> Phase(s)],
                     live <- {s \in PrivateIds : Exists(s)}

ImplementsContract == Contract!ContractSpec

\* Violated.  docker_client.py:157 says the listing is of "containers labeled
\* as managed by this orchestrator"; it is of everybody's, and startup
\* removes those without a row here.
ReclaimsOnlyOwn == orphans \subseteq Sandboxes
=============================================================================
