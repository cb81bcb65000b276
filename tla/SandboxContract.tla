--------------------------- MODULE SandboxContract ---------------------------
(***************************************************************************)
(* What the orchestrator promises about a sandbox to a caller who learns   *)
(* its id from a create answer, whatever crashes or fails in between:      *)
(* a container appears under an id only before the id is issued, an id is  *)
(* issued once and retired once, and it is retired only when its container *)
(* is gone.  A container may be lost at any time.                          *)
(***************************************************************************)
CONSTANT Ids

VARIABLES phase,  \* per id: "unborn", "tentative", "issued" or "retired"
          live    \* the ids that have a container

contractVars == <<phase, live>>

ContractInit ==
    /\ phase = [i \in Ids |-> "unborn"]
    /\ live = {}

Move(i, from, to) == phase[i] = from /\ phase' = [phase EXCEPT ![i] = to]

Draw(i) == Move(i, "unborn", "tentative") /\ UNCHANGED live

Provision(i) ==
    /\ phase[i] = "tentative"
    /\ live' = live \cup {i}
    /\ UNCHANGED phase

Issue(i) == Move(i, "tentative", "issued") /\ UNCHANGED live

Lose(i) == live' = live \ {i} /\ UNCHANGED phase

Retire(i) == i \notin live /\ Move(i, "issued", "retired") /\ UNCHANGED live

ContractNext ==
    \E i \in Ids : Draw(i) \/ Provision(i) \/ Issue(i) \/ Lose(i) \/ Retire(i)

ContractSpec == ContractInit /\ [][ContractNext]_contractVars
=============================================================================
