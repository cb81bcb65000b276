----------------------------- MODULE Identifiers -----------------------------
(***************************************************************************)
(* The names the orchestrator's stores share.                              *)
(*                                                                         *)
(* A sandbox id is drawn once (uuid4) and create_sandbox asks Docker for   *)
(* one container under it, named "saep-<id>"; so the container of sandbox  *)
(* s is written s, and its Docker id and its name are both that identity.  *)
(***************************************************************************)
CONSTANTS Sandboxes,  \* ids this orchestrator may draw
          Foreign,    \* containers of another orchestrator on the same daemon
          Pending,    \* the placeholder stored before a container exists
          NoSandbox   \* the target of an idle thread or request

ASSUME IdentifiersAssumption ==
    /\ Sandboxes \cap Foreign = {}
    /\ Pending \notin Sandboxes \cup Foreign
    /\ NoSandbox \notin Sandboxes

Containers == Sandboxes \cup Foreign

ContainerIds == Containers \cup {Pending}
=============================================================================
