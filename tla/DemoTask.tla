------------------------------ MODULE DemoTask ------------------------------
(***************************************************************************)
(* run_demo_task.py: it starts an orchestrator and a Worker, has a sandbox *)
(* made through them, runs two commands in it, deletes it and stops both   *)
(* servers, whatever goes wrong.                                           *)
(*                                                                         *)
(* Of sandboxes the orchestrator does what SandboxContract allows, which   *)
(* Lifecycle implements.  The Worker keeps nothing and passes on what it   *)
(* is asked and answered, so it counts by being up.  A call fails for the  *)
(* client when it is refused, answered 502 by the Worker, cut off or timed *)
(* out, and the orchestrator may go on with it all the same; so may the    *)
(* Docker daemon, which neither of them stops, with what it was asked.     *)
(***************************************************************************)
EXTENDS SandboxContract

CONSTANT NoBox  \* what `sandbox` is before the create was answered

ASSUME DemoAssumption == NoBox \notin Ids

Servers == {"orchestrator", "worker"}
Execs == {"update", "diff"}
Calls == {"create", "delete"} \cup Execs

VARIABLES pc,      \* the step of main; a call is the wait for its answer
          at,      \* the innermost managed_process that was entered
          exc,     \* the exception on its way: none, one that main reports, another
          box,     \* sandbox["sandbox_id"]
          server,  \* the servers' processes (those main started, not their children)
          order,   \* the create request to Docker: none, sent, done
          cmd,     \* per exec, the command in the sandbox
          edited,  \* the update has made its edit and published its snapshot
          late,    \* timeout_seconds have passed since the current one started
          asked    \* the delete request has reached the orchestrator

mainVars == <<pc, at, exc, box>>
callVars == <<order, cmd, edited, late, asked>>
vars == <<contractVars, mainVars, server, callVars>>

DemoTypeOK ==
    /\ phase \in [Ids -> {"unborn", "tentative", "issued", "retired"}]
    /\ live \subseteq Ids
    /\ pc \in Calls \cup {"check", "spawn", "wait", "stop", "term", "kill", "over"}
    /\ at \in Servers \cup {"none"}
    /\ exc \in {"none", "reported", "traceback"}
    /\ box \in Ids \cup {NoBox}
    /\ server \in [Servers -> {"absent", "starting", "up", "exited"}]
    /\ order \in {"none", "sent", "done"}
    /\ cmd \in [Execs -> {"none", "running", "zero", "nonzero"}]
    /\ {edited, late, asked} \subseteq BOOLEAN

Init ==
    /\ ContractInit
    /\ pc = "check" /\ at = "none" /\ exc = "none" /\ box = NoBox
    /\ server = [s \in Servers |-> "absent"]
    /\ order = "none"
    /\ cmd = [k \in Execs |-> "none"]
    /\ edited = FALSE /\ late = FALSE /\ asked = FALSE

-----------------------------------------------------------------------------
(* main and its two context managers                                       *)

Main(from, to) == pc = from /\ pc' = to

\* An exception leaves step `from`.  The finally clauses come next: of
\* run_demo_task, once it has the sandbox, and then of the servers.
Raise(from, e) ==
    /\ Main(from, IF box # NoBox /\ from # "delete" THEN "delete" ELSE "stop")
    /\ exc' = e
    /\ UNCHANGED <<at, box>>

\* check_docker_image and require_port_free
Check ==
    /\ \/ Main("check", "spawn") /\ UNCHANGED <<at, exc, box>>
       \/ Raise("check", "reported")
    /\ UNCHANGED <<contractVars, server, callVars>>

Inner(s) == IF s = "none" THEN "orchestrator" ELSE "worker"

\* Popen, whose OSError main does not catch.
Spawn ==
    /\ \/ /\ Main("spawn", "wait")
          /\ at' = Inner(at)
          /\ server' = [server EXCEPT ![Inner(at)] = "starting"]
          /\ UNCHANGED <<exc, box>>
       \/ Raise("spawn", "traceback") /\ UNCHANGED server
    /\ UNCHANGED <<contractVars, callVars>>

\* wait_for_http: an answer, a deadline, or the process has exited; then
\* communicate(timeout=1) may raise what main does not catch.
WaitForHttp ==
    /\ \/ /\ Main("wait", IF at = "orchestrator" THEN "spawn" ELSE "create")
          /\ server[at] = "up"
          /\ UNCHANGED <<at, exc, box>>
       \/ Raise("wait", "reported")
       \/ Raise("wait", "traceback") /\ server[at] = "exited"
    /\ UNCHANGED <<contractVars, server, callVars>>

\* Mutant: the temporary directory is taken for a server too.
OuterTooFar(s) == IF s = "worker" THEN "orchestrator" ELSE "tmp"

Outer(s) == IF s = "worker" THEN "orchestrator" ELSE "none"

Left ==
    /\ pc' = "stop"
    /\ at' = Outer(at)
    /\ UNCHANGED box

\* terminate_process up to its SIGTERM; outside of all, main returns.
Stop ==
    /\ pc = "stop"
    /\ \/ at # "none" /\ server[at] = "exited" /\ Left /\ UNCHANGED exc
       \/ at # "none" /\ server[at] # "exited" /\ Main("stop", "term")
             /\ UNCHANGED <<at, exc, box>>
       \/ at = "none" /\ Main("stop", "over") /\ UNCHANGED <<at, exc, box>>
    /\ UNCHANGED <<contractVars, server, callVars>>

\* process.wait returns, after either signal.
Waited ==
    /\ pc \in {"term", "kill"}
    /\ server[at] = "exited"
    /\ Left
    /\ UNCHANGED <<contractVars, exc, server, callVars>>

\* Mutant: the wait after SIGTERM has no timeout.
KillNever ==
    /\ Main("term", "kill")
    /\ server[at] = "exited"
    /\ UNCHANGED <<contractVars, at, exc, box, server, callVars>>

\* SIGKILL after ten seconds.
Kill ==
    /\ Main("term", "kill")
    /\ UNCHANGED <<contractVars, at, exc, box, server, callVars>>

\* Even then the process may be slow to go: TimeoutExpired.
KillTimesOut ==
    /\ pc = "kill"
    /\ Left
    /\ exc' = "traceback"
    /\ UNCHANGED <<contractVars, server, callVars>>

-----------------------------------------------------------------------------
(* The calls, and what the servers make of them                            *)

Up == \A s \in Servers : server[s] = "up"

\* Mutant: _delete_sandbox does not look at the answer.
CallFailsUnlessDelete ==
    /\ pc \in Calls
    /\ IF pc = "delete" THEN Main("delete", "stop") /\ UNCHANGED <<at, exc, box>>
       ELSE Raise(pc, "reported")
    /\ UNCHANGED <<contractVars, server, callVars>>

\* _require_success, or an httpx.HTTPError.
CallFails ==
    /\ pc \in Calls
    /\ Raise(pc, "reported")
    /\ UNCHANGED <<contractVars, server, callVars>>

HandleCreate(i) ==
    /\ pc = "create" /\ Up
    /\ \A j \in Ids : phase[j] = "unborn"
    /\ Draw(i)
    /\ UNCHANGED <<mainVars, server, callVars>>

\* create_sandbox sends its request to Docker, also when the client no longer
\* waits for it.
SendCreate(i) ==
    /\ server["orchestrator"] = "up"
    /\ phase[i] = "tentative"
    /\ order = "none" /\ order' = "sent"
    /\ UNCHANGED <<contractVars, mainVars, server, cmd, edited, late, asked>>

\* The daemon makes the container, whether or not the orchestrator is still
\* there, or never does.
MakeContainer(i) ==
    /\ order = "sent" /\ order' = "done"
    /\ Provision(i)
    /\ UNCHANGED <<mainVars, server, cmd, edited, late, asked>>

\* The answer of the create reaches the client or nobody.
AnswerCreate(i) ==
    /\ server["orchestrator"] = "up"
    /\ order = "done"
    /\ Issue(i)
    /\ \/ /\ Main("create", "update") /\ Up
          /\ box' = i
          /\ UNCHANGED <<at, exc>>
       \/ UNCHANGED mainVars
    /\ UNCHANGED <<server, callVars>>

StartCommand(k) ==
    /\ pc = k /\ Up
    /\ cmd[k] = "none"
    /\ box \in live
    /\ cmd' = [cmd EXCEPT ![k] = "running"]
    /\ late' = FALSE
    /\ UNCHANGED <<contractVars, mainVars, server, order, edited, asked>>

\* The update's safe-run publishes its snapshot, after the command it wraps.
Edit ==
    /\ cmd["update"] = "running" /\ ~edited
    /\ edited' = TRUE
    /\ UNCHANGED <<contractVars, mainVars, server, order, cmd, late, asked>>

CommandEnds(k) ==
    /\ cmd[k] = "running"
    /\ \E how \in {"zero", "nonzero"} :
           /\ k = "update" /\ how = "zero" => edited
           /\ cmd' = [cmd EXCEPT ![k] = how]
    /\ UNCHANGED <<contractVars, mainVars, server, order, edited, late, asked>>

Expire ==
    /\ pc \in Execs
    /\ cmd[pc] = "running" /\ ~late
    /\ late' = TRUE
    /\ UNCHANGED <<contractVars, mainVars, server, order, cmd, edited, asked>>

\* The client has the whole stream, which ends in an exit event with this
\* code: _require_exit_code of the update, _require_expected_diff of the diff,
\* whose lines are there if the edit has been made and the output is complete.
Judge(k, code) ==
    \/ /\ k = "update" /\ code = 0
       /\ Main(k, "diff")
       /\ UNCHANGED <<at, exc, box>>
    \/ /\ k = "diff" /\ edited
       /\ Main(k, "delete")
       /\ UNCHANGED <<at, exc, box>>
    \/ /\ k = "update" => code # 0
       /\ Raise(k, "reported")

\* A chunk comes after the timeout: the stream ends with 124.
TimedOut(k) ==
    /\ pc = k /\ Up
    /\ cmd[k] = "running" /\ late
    /\ Judge(k, 124)
    /\ UNCHANGED <<contractVars, server, callVars>>

\* The output ends, with the command or cut off before; a code that Docker does
\* not know yet is told as 0.
ExitEvent(k) ==
    /\ pc = k /\ Up
    /\ cmd[k] # "none"
    /\ Judge(k, IF cmd[k] = "nonzero" THEN 1 ELSE 0)
    /\ UNCHANGED <<contractVars, server, callVars>>

AskDelete ==
    /\ pc = "delete" /\ Up
    /\ asked' = TRUE
    /\ UNCHANGED <<contractVars, mainVars, server, order, cmd, edited, late>>

KillCommands == cmd' = [k \in Execs |-> IF cmd[k] = "running" THEN "nonzero" ELSE cmd[k]]

\* The delete removes the container, or somebody does.
LoseContainer(i) ==
    /\ i \in live
    /\ Lose(i)
    /\ IF i = box THEN KillCommands ELSE UNCHANGED cmd
    /\ UNCHANGED <<mainVars, server, order, edited, late, asked>>

Destroy(i) ==
    /\ asked /\ i = box
    /\ server["orchestrator"] = "up"
    /\ Retire(i)
    /\ UNCHANGED <<mainVars, server, callVars>>

AnswerDelete ==
    /\ Main("delete", "stop") /\ Up
    /\ phase[box] = "retired"
    /\ UNCHANGED <<contractVars, at, exc, box, server, callVars>>

ServerStarts(s) ==
    /\ server[s] = "starting"
    /\ server' = [server EXCEPT ![s] = "up"]
    /\ UNCHANGED <<contractVars, mainVars, callVars>>

\* By itself, or after a signal.
ServerExits(s) ==
    /\ server[s] \in {"starting", "up"}
    /\ server' = [server EXCEPT ![s] = "exited"]
    /\ UNCHANGED <<contractVars, mainVars, callVars>>

Terminated == pc = "over" /\ UNCHANGED vars

MainMoves ==
    Check \/ Spawn \/ WaitForHttp \/ Stop \/ Waited \/ Kill \/ KillTimesOut \/ CallFails

Next ==
    \/ MainMoves
    \/ \E i \in Ids : \/ HandleCreate(i) \/ SendCreate(i) \/ MakeContainer(i) \/ AnswerCreate(i)
                      \/ LoseContainer(i) \/ Destroy(i)
    \/ \E k \in Execs : \/ StartCommand(k) \/ CommandEnds(k)
                        \/ TimedOut(k) \/ ExitEvent(k)
    \/ Edit \/ Expire
    \/ AskDelete \/ AnswerDelete
    \/ \E s \in Servers : ServerStarts(s) \/ ServerExits(s)
    \/ Terminated

Spec == Init /\ [][Next]_vars

(* Fairness.  main goes on; the clock of an exec goes on.  A call that gets *)
(* no byte for its httpx timeout fails, so that one may wait for ever only  *)
(* while a command prints; and once that command is late, what it prints    *)
(* ends the stream.                                                         *)
Waits == pc \in Execs /\ cmd[pc] = "running" /\ ~late

Settles ==
    /\ ~Waits
    /\ CallFails \/ AnswerDelete \/ \E i \in Ids : AnswerCreate(i)
       \/ \E k \in Execs : TimedOut(k) \/ ExitEvent(k)

Fairness ==
    /\ WF_vars(Check \/ Spawn \/ WaitForHttp \/ Stop \/ Waited)
    /\ WF_vars(Kill) /\ WF_vars(KillTimesOut)
    /\ WF_vars(Expire) /\ WF_vars(Settles)

FairSpec == Spec /\ Fairness

-----------------------------------------------------------------------------
(* Properties.                                                             *)

\* When main returns 0 the command it ran has made its edit, although exit
\* code 0 may come from one that still ran; the sandbox was deleted, with its
\* container and commands, and no other comes up later; and the servers have
\* exited.
SuccessIsReal ==
    pc = "over" /\ exc = "none" =>
        /\ edited
        /\ \A k \in Execs : cmd[k] # "running"
        /\ \A i \in Ids : i \notin live
        /\ phase[box] = "retired"
        /\ \A s \in Servers : server[s] = "exited"

\* main returns, whether servers hang or answers are lost, and whether the
\* command is silent (the client's timeout) or prints for ever (the
\* orchestrator's).
DemoEnds == <>(pc = "over")
=============================================================================
