------------------------------ MODULE Registry ------------------------------
(***************************************************************************)
(* SandboxRegistry, the SQLite table of sandboxes.  Every method opens a   *)
(* connection, runs one statement and commits, so every method is one      *)
(* atomic action.  The table survives the process.                         *)
(***************************************************************************)
EXTENDS Identifiers

VARIABLE row  \* the columns the handlers read, per sandbox id

Statuses == {"creating", "running", "stopping", "error"}

\* What a SELECT that finds nothing stands for.
NoRow == [container_id |-> Pending, status |-> "absent"]

Rows == [container_id : ContainerIds, status : Statuses] \cup {NoRow}

RegistryTypeOK == row \in [Sandboxes -> Rows]

HasRow(s) == row[s].status # "absent"

RegistryInit == row = [s \in Sandboxes |-> NoRow]

\* Every create passes container_id "pending" and status "creating".
InsertSandbox(s) ==
    /\ ~HasRow(s)
    /\ row' = [row EXCEPT ![s] = [container_id |-> Pending,
                                  status |-> "creating"]]

\* An UPDATE whose WHERE clause matches nothing changes nothing; the method
\* returns whether it changed a row, which only update_container's caller reads.
UpdateContainer(s, c, st) ==
    row' = IF HasRow(s)
           THEN [row EXCEPT ![s] = [container_id |-> c, status |-> st]]
           ELSE row

\* Mutant: INSERT OR REPLACE in place of UPDATE.
UpdateStatusUpserts(s, st) ==
    row' = [row EXCEPT ![s] = [container_id |-> row[s].container_id,
                               status |-> st]]

UpdateStatus(s, st) ==
    row' = IF HasRow(s)
           THEN [row EXCEPT ![s] = [container_id |-> row[s].container_id,
                                    status |-> st]]
           ELSE row

DeleteRow(s) == row' = [row EXCEPT ![s] = NoRow]
=============================================================================
