------------------------------- MODULE Docker -------------------------------
(***************************************************************************)
(* The Docker daemon, as docker_client.py uses it: the containers that     *)
(* carry the saep.managed label, their state, and what may happen to them  *)
(* without a request of the orchestrator.  The daemon survives it.         *)
(***************************************************************************)
EXTENDS Identifiers

VARIABLE docker  \* the state of every managed container

ContainerStates == {"none", "created", "running", "exited"}

DockerTypeOK == docker \in [Containers -> ContainerStates]

DockerInit == docker = [c \in Containers |-> "none"]

\* containers.get(id) finds a container; "pending" names none.
Exists(c) == c \in Containers /\ docker[c] # "none"

Running(c) == Exists(c) /\ docker[c] = "running"

\* containers.list(all=True) with the label filter, whoever made them.
Managed == {c \in Containers : Exists(c)}

\* containers.run creates the container, then starts it, with two requests.
CreateAs(c) ==
    /\ docker[c] = "none"
    /\ docker' = [docker EXCEPT ![c] = "created"]

\* Starting a running container is answered 304 and changes nothing.
Start(c) ==
    /\ Exists(c)
    /\ docker' = [docker EXCEPT ![c] = "running"]

\* remove(force=True)
Remove(c) ==
    /\ Exists(c)
    /\ docker' = [docker EXCEPT ![c] = "none"]

-----------------------------------------------------------------------------
(* What a container does by itself, or an operator or another orchestrator *)
(* does to it: docker start and docker rm are Start and Remove.             *)

ContainerExits(c) ==
    /\ docker[c] = "running"
    /\ docker' = [docker EXCEPT ![c] = "exited"]

\* The other orchestrator creates and starts a container of its own.
ForeignStarts(c) ==
    /\ c \in Foreign
    /\ docker[c] = "none"
    /\ docker' = [docker EXCEPT ![c] = "running"]

Environment ==
    \E c \in Containers :
        ContainerExits(c) \/ Start(c) \/ Remove(c) \/ ForeignStarts(c)
=============================================================================
