----------------------------- MODULE ExecStream -----------------------------
(***************************************************************************)
(* exec_sandbox, the SSE stream it returns, the per-sandbox lock the       *)
(* stream holds, and the command inside the container.                     *)
(*                                                                         *)
(* The handler takes the lock and returns; the framework then draws the    *)
(* events of _exec_stream one by one from pool threads, and may stop       *)
(* drawing.  A request slot of Requests serves one exec after another.     *)
(* The command is a process of the container: it does not stop because     *)
(* nobody listens, and it outlives the orchestrator.                       *)
(*                                                                         *)
(* What the registry holds is left open here: a lookup may find "pending"  *)
(* or the container.                                                       *)
(***************************************************************************)
EXTENDS Docker, Integers

CONSTANTS Requests,   \* exec requests in flight at once
          Dropped,    \* requests whose body the framework may never start
          Cut,        \* requests whose output may end before their command
          Silent      \* requests whose command prints nothing and may not end

ASSUME ExecAssumption ==
    /\ Dropped \subseteq Requests
    /\ Cut \subseteq Requests
    /\ Silent \subseteq Requests

VARIABLES locked,  \* SandboxExecLocks: the sandboxes whose lock is taken
          lost,    \* history: those whose holder was dropped unstarted
          rpc,     \* per request, the next step of handler or stream
          target,  \* per request, sandbox_id
          rcid,    \* per request, record.container_id as it was read
          late,    \* per request, whether timeout_seconds have passed
          error,   \* per request, what its error event says
          code,    \* per request, the code its exit event carries
          cmd      \* per request, the command it started

events == <<error, code>>
streamVars == <<rpc, target, rcid, late, events>>
execVars == <<locked, lost, streamVars, cmd>>

\* Drawing an event leaves the stream at a yield: "output", "error", "exit".
Yields == {"output", "error", "exit"}
Active == {"accepted", "resolve", "spawn", "reading", "inspect", "failing"}
            \cup Yields
RequestPCs == {"idle", "acquire"} \cup Active

\* The except clauses of _exec_stream: the error event and the code after it.
ErrorCode == [container_not_found |-> 127, command_timed_out |-> 124, exec_failed |-> 1]
Errors == DOMAIN ErrorCode
NoError == "none"

\* The codes but 0 that a command may end with by itself: those of the error
\* path are among them, and 2 stands for the others.
OwnCodes == {1, 2, 124, 127}
NoCode == -1
Codes == {NoCode, 0} \cup OwnCodes

ExecTypeOK ==
    /\ DockerTypeOK
    /\ locked \subseteq Sandboxes
    /\ lost \subseteq Sandboxes
    /\ rpc \in [Requests -> RequestPCs]
    /\ target \in [Requests -> Sandboxes \cup {NoSandbox}]
    /\ rcid \in [Requests -> ContainerIds]
    /\ late \in [Requests -> BOOLEAN]
    /\ error \in [Requests -> Errors \cup {NoError}]
    /\ code \in [Requests -> Codes]
    /\ cmd \in [Requests -> {"none", "running", "zero", "nonzero"}]

ExecInit ==
    /\ DockerInit
    /\ locked = {} /\ lost = {}
    /\ rpc = [r \in Requests |-> "idle"]
    /\ target = [r \in Requests |-> NoSandbox]
    /\ rcid = [r \in Requests |-> Pending]
    /\ late = [r \in Requests |-> FALSE]
    /\ error = [r \in Requests |-> NoError]
    /\ code = [r \in Requests |-> NoCode]
    /\ cmd = [r \in Requests |-> "none"]

-----------------------------------------------------------------------------
(* The control of one request.                                             *)

Go(r, from, to) ==
    /\ rpc[r] = from
    /\ rpc' = [rpc EXCEPT ![r] = to]
    /\ UNCHANGED <<target, rcid>>

\* An exception of exec_command: _exec_stream yields error event e, then an
\* exit event with the code that goes with it.
Fail(r, from, e) ==
    /\ Go(r, from, "failing")
    /\ error' = [error EXCEPT ![r] = e]
    /\ code' = [code EXCEPT ![r] = ErrorCode[e]]

\* The request is over.  Its slot is free again when its command has ended.
Over(r) ==
    /\ rpc' = [rpc EXCEPT ![r] = "idle"]
    /\ rcid' = [rcid EXCEPT ![r] = Pending]
    /\ late' = [late EXCEPT ![r] = FALSE]
    /\ error' = [error EXCEPT ![r] = NoError]
    /\ code' = [code EXCEPT ![r] = NoCode]
    /\ UNCHANGED target

\* The finally clause of _exec_stream.
Release(r) == locked' = locked \ {target[r]}

-----------------------------------------------------------------------------
(* exec_sandbox                                                            *)

\* get_sandbox found a row with container id c; no row answers 404.
Lookup(r, s, c) ==
    /\ rpc[r] = "idle"
    /\ cmd[r] # "running"
    /\ rpc' = [rpc EXCEPT ![r] = "acquire"]
    /\ target' = [target EXCEPT ![r] = s]
    /\ rcid' = [rcid EXCEPT ![r] = c]
    /\ cmd' = [cmd EXCEPT ![r] = "none"]
    /\ UNCHANGED <<docker, locked, lost, late, events>>

\* Mutant: the lock is tested by the caller and not by acquire_nowait.
AcquireUnchecked(r) ==
    /\ Go(r, "acquire", "accepted")
    /\ locked' = locked \cup {target[r]}
    /\ UNCHANGED <<docker, lost, late, events, cmd>>

\* acquire_nowait: the StreamingResponse is returned, or 409 sandbox_busy.
Acquire(r) ==
    /\ Go(r, "acquire", "accepted")
    /\ target[r] \notin locked
    /\ locked' = locked \cup {target[r]}
    /\ UNCHANGED <<docker, lost, late, events, cmd>>

\* Mutant: the 409 path releases too.
RefuseBusyReleases(r) ==
    /\ rpc[r] = "acquire"
    /\ target[r] \in locked
    /\ Release(r)
    /\ Over(r)
    /\ UNCHANGED <<docker, lost, cmd>>

RefuseBusy(r) ==
    /\ rpc[r] = "acquire"
    /\ target[r] \in locked
    /\ Over(r)
    /\ UNCHANGED <<docker, locked, lost, cmd>>

\* The framework asks the body for its first event.
Begin(r) ==
    /\ Go(r, "accepted", "resolve")
    /\ UNCHANGED <<docker, locked, lost, late, events, cmd>>

\* The caller is gone before the framework asks: the generator never started,
\* so its finally clause never runs.
Drop(r) ==
    /\ r \in Dropped
    /\ rpc[r] = "accepted"
    /\ lost' = lost \cup {target[r]}
    /\ Over(r)
    /\ UNCHANGED <<docker, locked, cmd>>

-----------------------------------------------------------------------------
(* _exec_stream drawing from exec_command                                  *)

\* Mutant: the error path of a missing container knows no code.
ResolveNoCode(r) ==
    /\ \/ Go(r, "resolve", "spawn") /\ Exists(rcid[r]) /\ UNCHANGED events
       \/ /\ Go(r, "resolve", "failing") /\ ~Exists(rcid[r])
          /\ error' = [error EXCEPT ![r] = "container_not_found"]
          /\ code' = [code EXCEPT ![r] = 126]
       \/ Fail(r, "resolve", "exec_failed")
    /\ UNCHANGED <<docker, locked, lost, late, cmd>>

\* _get_container; the clock starts after it.
Resolve(r) ==
    /\ \/ Go(r, "resolve", "spawn") /\ Exists(rcid[r]) /\ UNCHANGED events
       \/ Fail(r, "resolve", "container_not_found") /\ ~Exists(rcid[r])
       \/ Fail(r, "resolve", "exec_failed")
    /\ UNCHANGED <<docker, locked, lost, late, cmd>>

StartCommand(r) ==
    /\ Running(rcid[r])
    /\ cmd' = [cmd EXCEPT ![r] = "running"]

\* exec_create and exec_start: the command runs in a running container, or
\* the call fails, or it starts the command and fails to say so.
Spawn(r) ==
    /\ \/ Go(r, "spawn", "reading") /\ StartCommand(r) /\ UNCHANGED events
       \/ Fail(r, "spawn", "exec_failed") /\ StartCommand(r)
       \/ Fail(r, "spawn", "exec_failed") /\ UNCHANGED cmd
    /\ UNCHANGED <<docker, locked, lost, late>>

\* Mutant: the clock is never read.
ChunkNoClock(r) ==
    /\ r \notin Silent
    /\ Go(r, "reading", "output")
    /\ UNCHANGED <<docker, locked, lost, late, events, cmd>>

\* A chunk arrives; only now is the clock read.
Chunk(r) ==
    /\ r \notin Silent
    /\ \/ Go(r, "reading", "output") /\ ~late[r] /\ UNCHANGED events
       \/ Fail(r, "reading", "command_timed_out") /\ late[r]
    /\ UNCHANGED <<docker, locked, lost, late, cmd>>

\* The next event is asked for after an output event.
Resume(r) ==
    /\ Go(r, "output", "reading")
    /\ UNCHANGED <<docker, locked, lost, late, events, cmd>>

\* The output ends: the command has, or its connection was cut.  The clock is
\* not read.
EndOfOutput(r) ==
    /\ Go(r, "reading", "inspect")
    /\ cmd[r] # "running" \/ r \in Cut
    /\ UNCHANGED <<docker, locked, lost, late, events, cmd>>

\* Reading the output raises.
ReadFails(r) ==
    /\ Fail(r, "reading", "exec_failed")
    /\ UNCHANGED <<docker, locked, lost, late, cmd>>

\* The stream ends with an exit event alone, of one of `codes`.
Exits(r, codes) ==
    /\ Go(r, "inspect", "exit")
    /\ \E c \in codes : code' = [code EXCEPT ![r] = c]
    /\ UNCHANGED error

\* Mutant: "and 0" for "or 0".
InspectExitAlwaysZero(r) ==
    /\ \/ Exits(r, {0})
       \/ Fail(r, "inspect", "exec_failed")
    /\ UNCHANGED <<docker, locked, lost, late, cmd>>

\* exec_inspect: the command's own code, whatever it is.  ExitCode is None while
\* the command runs, and None "or 0" is 0.
InspectExit(r) ==
    /\ \/ Exits(r, IF cmd[r] = "nonzero" THEN OwnCodes ELSE {0})
       \/ Fail(r, "inspect", "exec_failed")
    /\ UNCHANGED <<docker, locked, lost, late, cmd>>

\* The error event, and the exit event after it.
EmitError(r) ==
    /\ Go(r, "failing", "error")
    /\ UNCHANGED <<docker, locked, lost, late, events, cmd>>

EmitExit(r) ==
    /\ Go(r, "error", "exit")
    /\ UNCHANGED <<docker, locked, lost, late, events, cmd>>

\* Mutant: the finally clause is missing on the normal path.
FinishKeepsLock(r) ==
    /\ rpc[r] = "exit"
    /\ Over(r)
    /\ UNCHANGED <<docker, locked, lost, cmd>>

\* The generator returns after the exit event.
Finish(r) ==
    /\ rpc[r] = "exit"
    /\ Release(r)
    /\ Over(r)
    /\ UNCHANGED <<docker, lost, cmd>>

\* Mutant: an except clause in place of finally, which GeneratorExit passes by.
DisconnectKeepsLock(r) ==
    /\ rpc[r] \in Yields
    /\ Over(r)
    /\ UNCHANGED <<docker, locked, lost, cmd>>

\* The caller has gone: the generator is closed where it yielded.  One that
\* is inside a draw is closed at the yield the draw ends in.
Disconnect(r) ==
    /\ rpc[r] \in Yields
    /\ Release(r)
    /\ Over(r)
    /\ UNCHANGED <<docker, lost, cmd>>

\* timeout_seconds pass.
TimePasses(r) ==
    /\ rpc[r] \in {"spawn", "reading", "output", "inspect"}
    /\ ~late[r]
    /\ late' = [late EXCEPT ![r] = TRUE]
    /\ UNCHANGED <<docker, locked, lost, rpc, target, rcid, events, cmd>>

-----------------------------------------------------------------------------
(* The command, its container and the process.                             *)

CommandEnds(r) ==
    /\ cmd[r] = "running"
    /\ \E how \in {"zero", "nonzero"} : cmd' = [cmd EXCEPT ![r] = how]
    /\ UNCHANGED <<docker, locked, lost, streamVars>>

\* A container that stops or goes kills its commands.
KillCommands ==
    cmd' = [r \in Requests |->
              IF cmd[r] = "running" /\ docker'[target[r]] # "running"
              THEN "nonzero" ELSE cmd[r]]

ContainerMoves ==
    /\ Environment \/ \E c \in Containers : CreateAs(c)
    /\ KillCommands
    /\ UNCHANGED <<locked, lost, streamVars>>

\* The process dies and starts again: locks and streams are gone, commands
\* are not.
Restart ==
    /\ locked' = {} /\ lost' = {}
    /\ rpc' = [r \in Requests |-> "idle"]
    /\ rcid' = [r \in Requests |-> Pending]
    /\ late' = [r \in Requests |-> FALSE]
    /\ error' = [r \in Requests |-> NoError]
    /\ code' = [r \in Requests |-> NoCode]
    /\ UNCHANGED <<docker, target, cmd>>

Stream(r) ==
    \/ Acquire(r) \/ RefuseBusy(r) \/ Begin(r) \/ Drop(r)
    \/ Resolve(r) \/ Spawn(r) \/ Chunk(r) \/ Resume(r)
    \/ EndOfOutput(r) \/ ReadFails(r) \/ InspectExit(r)
    \/ EmitError(r) \/ EmitExit(r) \/ Finish(r) \/ Disconnect(r)

ExecNext ==
    \/ \E r \in Requests :
        \/ \E s \in Sandboxes : \E c \in {Pending, s} : Lookup(r, s, c)
        \/ Stream(r)
        \/ TimePasses(r)
        \/ CommandEnds(r)
    \/ ContainerMoves
    \/ Restart

allVars == <<docker, execVars>>

ExecSpec == ExecInit /\ [][ExecNext]_allVars

(* Fairness.  Pool threads run the handlers and the draws, the clock goes   *)
(* on, and a caller either reads on or leaves.  Docker delivers the end of  *)
(* the output, and a command that is not silent prints or ends.             *)
Advance(r) ==
    \/ Acquire(r) \/ RefuseBusy(r) \/ Begin(r) \/ Resolve(r) \/ Spawn(r)
    \/ Resume(r) \/ InspectExit(r) \/ EmitError(r) \/ EmitExit(r)
    \/ Finish(r) \/ Disconnect(r)

Output(r) == Chunk(r) \/ EndOfOutput(r) \/ CommandEnds(r)

Fairness ==
    /\ \A r \in Requests : WF_allVars(Advance(r)) /\ WF_allVars(TimePasses(r))
    /\ \A r \in Requests \ Silent : WF_allVars(Output(r))
    /\ \A r \in Silent : WF_allVars(EndOfOutput(r))

FairExecSpec == ExecSpec /\ Fairness

-----------------------------------------------------------------------------
(* Properties.                                                             *)

Holds(r, s) == rpc[r] \in Active /\ target[r] = s

\* The lock of a sandbox is taken exactly while one stream of it is alive, or
\* after one was dropped unstarted: no path releases it twice, early, or for
\* another, and none but the drop forgets it.
LockAccounted ==
    \A s \in Sandboxes :
        /\ s \in locked <=> s \in lost \/ \E r \in Requests : Holds(r, s)
        /\ \A r \in Requests : Holds(r, s) => s \notin lost

\* Two streams of one sandbox are never alive together.
StreamsExclusive ==
    \A r, q \in Requests :
        rpc[r] \in Active /\ rpc[q] \in Active /\ target[r] = target[q] => r = q

\* An exit event, read with the error event before it, tells what became of
\* the command: the container was missing and none was started; its time was
\* over; or, without an error event, it has ended, with a code of its own.  The
\* code alone tells nothing but that, for 1, 124 and 127 may be the command's.
ExitCodeMeaning ==
    \A r \in Requests : rpc[r] = "exit" =>
        /\ error[r] = "container_not_found" => cmd[r] = "none"
        /\ error[r] = "command_timed_out" => late[r]
        /\ error[r] = NoError =>
              /\ code[r] # 0 => cmd[r] = "nonzero"
              /\ code[r] = 0 /\ r \notin Cut => cmd[r] = "zero"

\* The locks, seen as who holds what, are per-sandbox mutual exclusion.
Lock == INSTANCE ExecLock
            WITH Things <- Sandboxes,
                 Holders <- Requests,
                 holders <- [s \in Sandboxes |-> {r \in Requests : Holds(r, s)}],
                 gone <- lost

ImplementsLock == Lock!LockSpec

\* A sandbox that is busy is free again some time, unless its holder was
\* dropped unstarted or its command is silent, whether commands end or print
\* for ever, and though others take the lock again and again.
LockFreed ==
    \A s \in Sandboxes :
        s \in locked ~> \/ s \notin locked \/ s \in lost
                       \/ \E r \in Silent : Holds(r, s)

\* A stream whose time is over ends, unless its command is silent: the clock
\* is looked at when a chunk comes, and the end of output needs no clock.
TimedOutStreamEnds == \A r \in Requests \ Silent : late[r] ~> ~late[r]

\* Violated.  orchestrator/README.md:86 says "Only one command can run in a
\* sandbox at a time"; the lock goes with the stream, and a command that timed
\* out or whose caller left runs on beside the next.
OneCommandAtATime ==
    \A r, q \in Requests :
        cmd[r] = "running" /\ cmd[q] = "running" /\ target[r] = target[q] => r = q

\* Violated.  main.py:212 refuses with "Another command is already running in
\* this sandbox"; after a drop every exec is refused though none runs.
BusyMeansBusy ==
    [][\A r \in Requests : RefuseBusy(r) =>
          \E q \in Requests :
              /\ target[q] = target[r]
              /\ rpc[q] \in Active \/ cmd[q] = "running"]_allVars
=============================================================================
