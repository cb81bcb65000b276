----------------------------- MODULE DemoProofs -----------------------------
(***************************************************************************)
(* Theorems about a run of the demo task, for any supply of sandbox ids.   *)
(***************************************************************************)
EXTENDS DemoTask, TLAPS

\* main stops its servers, or has returned.
Closing == pc \in {"stop", "term", "kill", "over"}

Entered(s) == at = "worker" \/ at = s

\* Where main is, in the nest of its two servers.
Nesting ==
    /\ pc = "check" => at = "none"
    /\ pc = "spawn" => at # "worker"
    /\ pc \in {"wait", "term", "kill"} => at # "none"
    /\ pc \in Calls => at = "worker"
    /\ pc = "over" => at = "none"

\* A server that main has left, or not entered yet, is down, unless main gave
\* up waiting for it.
LeftAreDown ==
    /\ \A s \in Servers :
           server[s] \in {"starting", "up"} => Entered(s) \/ exc = "traceback"
    /\ exc = "traceback" => Closing

\* What was spawned is never absent again.
EnteredWereSpawned ==
    \A s \in Servers :
        Entered(s) \/ (Closing /\ exc = "none") => server[s] # "absent"

\* The create request is handled once, by the contract.
OneSandbox ==
    /\ \A i, j \in Ids : phase[i] # "unborn" /\ phase[j] # "unborn" => i = j
    /\ \A i \in Ids : phase[i] \in {"unborn", "retired"} => i \notin live
    /\ box # NoBox => phase[box] \in {"issued", "retired"}

\* Commands run in the sandbox of this run, while it has a container.
CommandsInBox ==
    /\ pc \in {"check", "spawn", "wait", "create"} => box = NoBox
    /\ pc \in Calls \ {"create"} => box # NoBox
    /\ \A k \in Execs : cmd[k] = "running" => box \in live

\* What main knows when nothing has failed.
NoFailure ==
    /\ exc # "none" => pc = "delete" \/ Closing
    /\ pc = "delete" /\ exc = "none" => edited
    /\ Closing /\ exc = "none" =>
           edited /\ box # NoBox /\ phase[box] = "retired"

DemoInv ==
    /\ DemoTypeOK
    /\ Nesting
    /\ LeftAreDown
    /\ EnteredWereSpawned
    /\ OneSandbox
    /\ CommandsInBox
    /\ NoFailure

LEMMA InitDemoInv == Init => DemoInv
  BY DemoAssumption
  DEF Init, ContractInit, DemoInv, DemoTypeOK, Nesting, LeftAreDown,
      EnteredWereSpawned, OneSandbox, CommandsInBox, NoFailure, Closing,
      Entered, Servers, Execs, Calls

\* The steps that main takes by itself change no sandbox and no command.
LEMMA MainKeeps ==
  ASSUME DemoInv, MainMoves
  PROVE  DemoInv'
<1> USE DemoAssumption
    DEF DemoInv, DemoTypeOK, Nesting, LeftAreDown, EnteredWereSpawned, OneSandbox,
        CommandsInBox, NoFailure, Closing, Entered, Servers, Execs, Calls,
        Main, contractVars, callVars
<1>1. CASE Check
  BY <1>1 DEF Check, Raise
<1>2. CASE Spawn
  BY <1>2 DEF Spawn, Raise, Inner
<1>3. CASE WaitForHttp
  BY <1>3 DEF WaitForHttp, Raise
<1>4. CASE Stop
  BY <1>4 DEF Stop, Left, Outer
<1>5. CASE Waited
  BY <1>5 DEF Waited, Left, Outer
<1>6. CASE Kill
  BY <1>6 DEF Kill
<1>7. CASE KillTimesOut
  BY <1>7 DEF KillTimesOut, Left, Outer
<1>8. CASE CallFails
  BY <1>8 DEF CallFails, Raise
<1> QED
  BY <1>1, <1>2, <1>3, <1>4, <1>5, <1>6, <1>7, <1>8 DEF MainMoves

\* The orchestrator follows the contract for the one sandbox it was asked for.
LEMMA SandboxKeeps ==
  ASSUME DemoInv, NEW i \in Ids,
         \/ HandleCreate(i) \/ SendCreate(i) \/ MakeContainer(i) \/ AnswerCreate(i)
         \/ LoseContainer(i) \/ Destroy(i)
  PROVE  DemoInv'
<1> USE DemoAssumption
    DEF DemoInv, DemoTypeOK, Nesting, LeftAreDown, EnteredWereSpawned, OneSandbox,
        CommandsInBox, NoFailure, Closing, Entered, Servers, Execs, Calls,
        Main, mainVars, callVars, Move
<1>1. CASE HandleCreate(i)
  BY <1>1 DEF HandleCreate, Draw
<1>2. CASE SendCreate(i) \/ MakeContainer(i)
  BY <1>2 DEF SendCreate, MakeContainer, Provision, contractVars
<1>3. CASE AnswerCreate(i)
  BY <1>3 DEF AnswerCreate, Issue
<1>4. CASE LoseContainer(i)
  BY <1>4 DEF LoseContainer, Lose, KillCommands
<1>5. CASE Destroy(i)
  BY <1>5 DEF Destroy, Retire
<1> QED
  BY <1>1, <1>2, <1>3, <1>4, <1>5

LEMMA ExecKeeps ==
  ASSUME DemoInv, NEW k \in Execs,
         StartCommand(k) \/ CommandEnds(k) \/ TimedOut(k) \/ ExitEvent(k)
  PROVE  DemoInv'
<1> USE DemoAssumption
    DEF DemoInv, DemoTypeOK, Nesting, LeftAreDown, EnteredWereSpawned, OneSandbox,
        CommandsInBox, NoFailure, Closing, Entered, Servers, Execs, Calls,
        Main, mainVars, callVars, contractVars
<1>1. CASE StartCommand(k)
  BY <1>1 DEF StartCommand
<1>2. CASE CommandEnds(k)
  BY <1>2 DEF CommandEnds
<1>3. ASSUME NEW code, Judge(k, code), pc = k,
             UNCHANGED <<contractVars, server, callVars>>
      PROVE  DemoInv'
  BY <1>3 DEF Judge, Raise
<1>4. CASE TimedOut(k) \/ ExitEvent(k)
  BY <1>3, <1>4 DEF TimedOut, ExitEvent
<1> QED
  BY <1>1, <1>2, <1>4

LEMMA NextKeepsDemoInv == DemoInv /\ [Next]_vars => DemoInv'
<1> SUFFICES ASSUME DemoInv, [Next]_vars PROVE DemoInv'
  OBVIOUS
<1> USE DemoAssumption
    DEF DemoInv, DemoTypeOK, Nesting, LeftAreDown, EnteredWereSpawned, OneSandbox,
        CommandsInBox, NoFailure, Closing, Entered, Servers, Execs, Calls,
        mainVars, callVars, contractVars
<1>0. CASE Edit
  BY <1>0 DEF Edit
<1>1. CASE Expire
  BY <1>1 DEF Expire
<1>2. CASE AskDelete
  BY <1>2 DEF AskDelete
<1>3. CASE AnswerDelete
  BY <1>3 DEF AnswerDelete, Main
<1>4. ASSUME NEW s \in Servers, ServerStarts(s) PROVE DemoInv'
  BY <1>4 DEF ServerStarts
<1>5. ASSUME NEW s \in Servers, ServerExits(s) PROVE DemoInv'
  BY <1>5 DEF ServerExits
<1>6. CASE UNCHANGED vars
  BY <1>6 DEF vars
<1> QED
  BY <1>0, <1>1, <1>2, <1>3, <1>4, <1>5, <1>6, MainKeeps, SandboxKeeps, ExecKeeps
  DEF Next, Terminated

THEOREM DemoInvariance == Spec => []DemoInv
  BY InitDemoInv, NextKeepsDemoInv, PTL DEF Spec

\* Every variable of the demo keeps its type.
THEOREM DemoTypeCorrect == Spec => []DemoTypeOK
  BY DemoInvariance, PTL DEF DemoInv

\* When main returns 0 the edit was made, and sandbox and servers are gone for
\* good.
THEOREM SuccessesAreReal == Spec => []SuccessIsReal
<1>1. DemoInv => SuccessIsReal
  BY DEF DemoInv, DemoTypeOK, Nesting, LeftAreDown, EnteredWereSpawned,
     OneSandbox, CommandsInBox, NoFailure, Closing, Entered, Servers, Execs,
     SuccessIsReal
<1> QED
  BY <1>1, DemoInvariance, PTL
=============================================================================
