--------------------------- MODULE ExecStreamProofs ---------------------------
(***************************************************************************)
(* Theorems about ExecStream, for every number of requests and sandboxes,  *)
(* and whichever requests are dropped, cut off or silent.                  *)
(***************************************************************************)
EXTENDS ExecStream, TLAPS

\* A request that has been looked up has a target and a container id to go by.
ExecTargets ==
    \A r \in Requests :
        /\ rpc[r] # "idle" => target[r] \in Sandboxes
        /\ rcid[r] \in {Pending, target[r]}
        /\ cmd[r] = "running" => target[r] \in Sandboxes

\* What the stream knows of its command at each step, up to the exit event.
CodesKept ==
    \A r \in Requests :
        /\ rpc[r] \in {"acquire", "accepted", "resolve", "spawn"} => cmd[r] = "none"
        /\ rpc[r] \in {"reading", "output"} => cmd[r] # "none"
        /\ rpc[r] = "inspect" =>
              cmd[r] # "none" /\ (r \notin Cut => cmd[r] # "running")
        /\ rpc[r] \in {"failing", "error"} => error[r] # NoError
        /\ rpc[r] \notin {"failing", "error", "exit"} => error[r] = NoError
        /\ error[r] = "container_not_found" => cmd[r] = "none"
        /\ error[r] = "command_timed_out" => late[r]
        /\ rpc[r] = "exit" /\ error[r] = NoError =>
              /\ code[r] # 0 => cmd[r] = "nonzero"
              /\ code[r] = 0 /\ r \notin Cut => cmd[r] = "zero"

ExecInv ==
    /\ ExecTypeOK
    /\ ExecTargets
    /\ LockAccounted
    /\ StreamsExclusive
    /\ CodesKept

-----------------------------------------------------------------------------
(* The invariant is inductive, one step per action.                        *)

LEMMA InitExecInv == ExecInit => ExecInv
  BY IdentifiersAssumption, ExecAssumption
  DEF DockerInit, ExecInit, ExecInv, ExecTypeOK, DockerTypeOK, ExecTargets,
      LockAccounted, StreamsExclusive, CodesKept, Containers, ContainerIds,
      ContainerStates, RequestPCs, Active, Yields, Codes, OwnCodes, NoCode,
      Errors, ErrorCode, NoError, Holds

\* The handler: a lookup aims an unused slot, and the lock is tested and taken
\* in one step.
LEMMA HandlerPreserves ==
  ASSUME ExecInv, NEW r \in Requests,
         \/ \E s \in Sandboxes : \E c \in {Pending, s} : Lookup(r, s, c)
         \/ Acquire(r) \/ RefuseBusy(r) \/ Begin(r) \/ Drop(r)
  PROVE  ExecInv'
<1> USE IdentifiersAssumption, ExecAssumption
    DEF ExecInv, ExecTypeOK, DockerTypeOK, ExecTargets, LockAccounted,
        StreamsExclusive, CodesKept, Containers, ContainerIds, ContainerStates,
        RequestPCs, Active, Yields, Codes, OwnCodes, NoCode, Errors, ErrorCode,
        NoError, Holds, Exists, events
<1>1. ASSUME NEW s \in Sandboxes, NEW c \in {Pending, s}, Lookup(r, s, c) PROVE ExecInv'
  BY <1>1 DEF Lookup
<1>2. ASSUME Acquire(r) PROVE ExecInv'
  BY <1>2 DEF Acquire, Go
<1>3. ASSUME RefuseBusy(r) PROVE ExecInv'
  BY <1>3 DEF RefuseBusy, Over
<1>4. ASSUME Begin(r) PROVE ExecInv'
  BY <1>4 DEF Begin, Go
<1>5. ASSUME Drop(r) PROVE ExecInv'
  BY <1>5 DEF Drop, Over
<1> QED
  BY <1>1, <1>2, <1>3, <1>4, <1>5

\* The stream: only its end gives the lock back, and only its own.
LEMMA StreamPreserves ==
  ASSUME ExecInv, NEW r \in Requests,
         \/ Resolve(r) \/ Spawn(r) \/ Chunk(r) \/ Resume(r) \/ EndOfOutput(r)
         \/ ReadFails(r) \/ InspectExit(r) \/ EmitError(r) \/ EmitExit(r)
         \/ Finish(r) \/ Disconnect(r)
  PROVE  ExecInv'
<1> USE IdentifiersAssumption, ExecAssumption
    DEF ExecInv, ExecTypeOK, DockerTypeOK, ExecTargets, LockAccounted,
        StreamsExclusive, CodesKept, Containers, ContainerIds, ContainerStates,
        RequestPCs, Active, Yields, Codes, OwnCodes, NoCode, Errors, ErrorCode,
        NoError, Holds, Exists, events
<1>1. ASSUME Resolve(r) PROVE ExecInv'
  <2>1. ExecTypeOK' /\ ExecTargets'
    BY <1>1 DEF Resolve, Go, Fail
  <2>2. LockAccounted' /\ StreamsExclusive'
    BY <1>1 DEF Resolve, Go, Fail
  <2>3. CodesKept'
    BY <1>1 DEF Resolve, Go, Fail
  <2> QED
    BY <2>1, <2>2, <2>3
<1>2. ASSUME Spawn(r) PROVE ExecInv'
  <2>1. CASE Go(r, "spawn", "reading") /\ StartCommand(r) /\ UNCHANGED events
    <3>1. ExecTypeOK' /\ ExecTargets'
      BY <1>2, <2>1 DEF Spawn, Go, StartCommand, Running
    <3>2. LockAccounted' /\ StreamsExclusive'
      BY <1>2, <2>1 DEF Spawn, Go
    <3>3. CodesKept'
      BY <1>2, <2>1 DEF Spawn, Go, StartCommand
    <3> QED
      BY <3>1, <3>2, <3>3
  <2>2. CASE Fail(r, "spawn", "exec_failed") /\ (StartCommand(r) \/ UNCHANGED cmd)
    <3>1. ExecTypeOK' /\ ExecTargets'
      BY <1>2, <2>2 DEF Spawn, Go, Fail, StartCommand, Running
    <3>2. LockAccounted' /\ StreamsExclusive'
      BY <1>2, <2>2 DEF Spawn, Go, Fail
    <3>3. CodesKept'
      BY <1>2, <2>2 DEF Spawn, Go, Fail, StartCommand
    <3> QED
      BY <3>1, <3>2, <3>3
  <2> QED
    BY <1>2, <2>1, <2>2 DEF Spawn
<1>3. ASSUME Chunk(r) PROVE ExecInv'
  <2>1. ExecTypeOK' /\ ExecTargets'
    BY <1>3 DEF Chunk, Go, Fail
  <2>2. LockAccounted' /\ StreamsExclusive'
    BY <1>3 DEF Chunk, Go, Fail
  <2>3. CodesKept'
    BY <1>3 DEF Chunk, Go, Fail
  <2> QED
    BY <2>1, <2>2, <2>3
<1>4. ASSUME Resume(r) PROVE ExecInv'
  <2>1. ExecTypeOK' /\ ExecTargets'
    BY <1>4 DEF Resume, Go
  <2>2. LockAccounted' /\ StreamsExclusive'
    BY <1>4 DEF Resume, Go
  <2>3. CodesKept'
    BY <1>4 DEF Resume, Go
  <2> QED
    BY <2>1, <2>2, <2>3
<1>5. ASSUME EndOfOutput(r) PROVE ExecInv'
  <2>1. ExecTypeOK' /\ ExecTargets'
    BY <1>5 DEF EndOfOutput, Go
  <2>2. LockAccounted' /\ StreamsExclusive'
    BY <1>5 DEF EndOfOutput, Go
  <2>3. CodesKept'
    BY <1>5 DEF EndOfOutput, Go
  <2> QED
    BY <2>1, <2>2, <2>3
<1>6. ASSUME ReadFails(r) PROVE ExecInv'
  <2>1. ExecTypeOK' /\ ExecTargets'
    BY <1>6 DEF ReadFails, Go, Fail
  <2>2. LockAccounted' /\ StreamsExclusive'
    BY <1>6 DEF ReadFails, Go, Fail
  <2>3. CodesKept'
    BY <1>6 DEF ReadFails, Go, Fail
  <2> QED
    BY <2>1, <2>2, <2>3
<1>7. ASSUME InspectExit(r) PROVE ExecInv'
  <2>1. ExecTypeOK' /\ ExecTargets'
    BY <1>7 DEF InspectExit, Exits, Go, Fail
  <2>2. LockAccounted' /\ StreamsExclusive'
    BY <1>7 DEF InspectExit, Exits, Go, Fail
  <2>3. CodesKept'
    BY <1>7 DEF InspectExit, Exits, Go, Fail
  <2> QED
    BY <2>1, <2>2, <2>3
<1>8. ASSUME EmitError(r) PROVE ExecInv'
  <2>1. ExecTypeOK' /\ ExecTargets'
    BY <1>8 DEF EmitError, Go
  <2>2. LockAccounted' /\ StreamsExclusive'
    BY <1>8 DEF EmitError, Go
  <2>3. CodesKept'
    BY <1>8 DEF EmitError, Go
  <2> QED
    BY <2>1, <2>2, <2>3
<1>9. ASSUME EmitExit(r) PROVE ExecInv'
  <2>1. ExecTypeOK' /\ ExecTargets'
    BY <1>9 DEF EmitExit, Go
  <2>2. LockAccounted' /\ StreamsExclusive'
    BY <1>9 DEF EmitExit, Go
  <2>3. CodesKept'
    BY <1>9 DEF EmitExit, Go
  <2> QED
    BY <2>1, <2>2, <2>3
<1>10. ASSUME Finish(r) PROVE ExecInv'
  <2>1. ExecTypeOK' /\ ExecTargets'
    BY <1>10 DEF Finish, Release, Over
  <2>2. LockAccounted' /\ StreamsExclusive'
    BY <1>10 DEF Finish, Release, Over
  <2>3. CodesKept'
    BY <1>10 DEF Finish, Release, Over
  <2> QED
    BY <2>1, <2>2, <2>3
<1>11. ASSUME Disconnect(r) PROVE ExecInv'
  <2>1. ExecTypeOK' /\ ExecTargets'
    BY <1>11 DEF Disconnect, Release, Over
  <2>2. LockAccounted' /\ StreamsExclusive'
    BY <1>11 DEF Disconnect, Release, Over
  <2>3. CodesKept'
    BY <1>11 DEF Disconnect, Release, Over
  <2> QED
    BY <2>1, <2>2, <2>3
<1> QED
  BY <1>1, <1>2, <1>3, <1>4, <1>5, <1>6, <1>7, <1>8,
     <1>9, <1>10, <1>11

\* Clock, commands, containers and restarts do not touch a held lock, and a
\* command only ever leaves "running".
LEMMA WorldPreserves ==
  ASSUME ExecInv,
         \/ \E r \in Requests : TimePasses(r) \/ CommandEnds(r)
         \/ ContainerMoves \/ Restart \/ UNCHANGED allVars
  PROVE  ExecInv'
<1> USE IdentifiersAssumption, ExecAssumption
    DEF ExecInv, ExecTypeOK, DockerTypeOK, ExecTargets, LockAccounted,
        StreamsExclusive, CodesKept, Containers, ContainerIds, ContainerStates,
        RequestPCs, Active, Yields, Codes, OwnCodes, NoCode, Errors, ErrorCode,
        NoError, Holds, Exists, events
<1>1. ASSUME NEW r \in Requests, TimePasses(r) PROVE ExecInv'
  BY <1>1 DEF TimePasses
<1>2. ASSUME NEW r \in Requests, CommandEnds(r) PROVE ExecInv'
  BY <1>2 DEF CommandEnds, streamVars
<1>3. ASSUME ContainerMoves PROVE ExecInv'
  <2>1. docker' \in [Containers -> ContainerStates]
    BY <1>3 DEF ContainerMoves, Environment, ContainerExits, Start, Remove,
                ForeignStarts, CreateAs
  <2> QED
    BY <1>3, <2>1 DEF ContainerMoves, KillCommands, streamVars
<1>4. ASSUME Restart PROVE ExecInv'
  BY <1>4 DEF Restart
<1>5. ASSUME UNCHANGED allVars PROVE ExecInv'
  BY <1>5 DEF allVars, execVars, streamVars
<1> QED
  BY <1>1, <1>2, <1>3, <1>4, <1>5

LEMMA ExecNextPreserves == ExecInv /\ [ExecNext]_allVars => ExecInv'
  BY HandlerPreserves, StreamPreserves, WorldPreserves DEF ExecNext, Stream

THEOREM ExecInvariance == ExecSpec => []ExecInv
  BY InitExecInv, ExecNextPreserves, PTL DEF ExecSpec

-----------------------------------------------------------------------------
(* What follows from the invariant.                                        *)

\* Every variable keeps its type.
THEOREM ExecTypeCorrect == ExecSpec => []ExecTypeOK
  BY ExecInvariance, PTL DEF ExecInv

\* A lock is taken exactly while one stream is alive or one was dropped.
THEOREM LocksAccounted == ExecSpec => []LockAccounted
  BY ExecInvariance, PTL DEF ExecInv

\* At most one stream per sandbox, through disconnects, errors and restarts.
THEOREM StreamsAreExclusive == ExecSpec => []StreamsExclusive
  BY ExecInvariance, PTL DEF ExecInv

\* An exit event and the error event before it say what became of the command.
THEOREM ExitCodesMean == ExecSpec => []ExitCodeMeaning
<1>1. ExecInv => ExitCodeMeaning
  BY DEF ExecInv, CodesKept, ExitCodeMeaning
<1> QED
  BY <1>1, ExecInvariance, PTL

-----------------------------------------------------------------------------
(* ExecStream implements ExecLock.                                         *)

HoldersOf(s) == {r \in Requests : Holds(r, s)}

HolderMap == [s \in Sandboxes |-> HoldersOf(s)]

LockStep == [Lock!LockNext]_(Lock!lockVars)

\* A step that leaves every stream alive or not, and loses no lock.
LEMMA HoldersKept ==
  ASSUME UNCHANGED lost,
         \A r \in Requests, s \in Sandboxes : Holds(r, s)' <=> Holds(r, s)
  PROVE  LockStep
<1>1. \A s \in Sandboxes : HoldersOf(s)' = HoldersOf(s)
  BY DEF HoldersOf
<1> QED
  BY <1>1 DEF LockStep, Lock!lockVars, HoldersOf

\* A stream that moves on within its life holds what it held.
LEMMA LiveStepsKeep ==
  ASSUME ExecTypeOK, UNCHANGED lost, NEW r \in Requests, NEW from, NEW to,
         Go(r, from, to), from \in Active <=> to \in Active
  PROVE  LockStep
  BY HoldersKept DEF ExecTypeOK, Go, Holds

\* A live stream is its sandbox's only holder.
LEMMA SoleHolder ==
  ASSUME ExecInv, NEW r \in Requests, rpc[r] \in Active
  PROVE  target[r] \in Sandboxes /\ HoldersOf(target[r]) = {r}
  BY DEF ExecInv, ExecTargets, StreamsExclusive, HoldersOf, Holds, Active, Yields

\* The end of a stream empties the set of its sandbox's holders.
LEMMA OverEmpties ==
  ASSUME ExecInv, NEW r \in Requests, rpc[r] \in Active, Over(r)
  PROVE  HolderMap' = [HolderMap EXCEPT ![target[r]] = {}]
<1>1. target[r] \in Sandboxes /\ HoldersOf(target[r]) = {r}
  BY SoleHolder
<1>2. \A s \in Sandboxes : s = target[r] => HoldersOf(s)' = {}
  BY <1>1 DEF ExecInv, ExecTypeOK, Over, HoldersOf, Holds, Active, Yields
<1>3. \A s \in Sandboxes : s # target[r] => HoldersOf(s)' = HoldersOf(s)
  BY DEF ExecInv, ExecTypeOK, Over, HoldersOf, Holds
<1> QED
  BY <1>1, <1>2, <1>3 DEF HolderMap

LEMMA AcquireTakes ==
  ASSUME ExecInv, NEW r \in Requests, Acquire(r)
  PROVE  LockStep
<1> DEFINE x == target[r]
<1>1. /\ rpc[r] = "acquire" /\ x \notin locked /\ x \in Sandboxes
      /\ UNCHANGED <<target, lost>>
      /\ rpc' = [rpc EXCEPT ![r] = "accepted"]
  BY DEF Acquire, Go, ExecInv, ExecTargets
<1>2. HoldersOf(x) = {} /\ x \notin lost
  BY <1>1 DEF ExecInv, LockAccounted, HoldersOf
<1>3. HoldersOf(x)' = {r}
  BY <1>1, <1>2 DEF ExecInv, ExecTypeOK, HoldersOf, Holds, Active
<1>4. \A s \in Sandboxes \ {x} : HoldersOf(s)' = HoldersOf(s)
  BY <1>1 DEF ExecInv, ExecTypeOK, HoldersOf, Holds
<1>5. HolderMap' = [HolderMap EXCEPT ![x] = {r}]
  BY <1>1, <1>3, <1>4 DEF HolderMap
<1>6. Lock!Take(x, r)
  BY <1>1, <1>2, <1>5 DEF Lock!Take, HolderMap, HoldersOf
<1> QED
  BY <1>1, <1>6 DEF LockStep, Lock!LockNext

LEMMA DropVanishes ==
  ASSUME ExecInv, NEW r \in Requests, Drop(r)
  PROVE  LockStep
<1>1. rpc[r] \in Active /\ Over(r) /\ lost' = lost \cup {target[r]}
  BY DEF Drop, Active
<1>2. target[r] \in Sandboxes /\ HoldersOf(target[r]) = {r}
  BY <1>1, SoleHolder
<1>3. HolderMap' = [HolderMap EXCEPT ![target[r]] = {}]
  BY <1>1, OverEmpties
<1>4. Lock!Vanish(target[r], r)
  BY <1>1, <1>2, <1>3 DEF Lock!Vanish, HolderMap, HoldersOf
<1> QED
  BY <1>2, <1>4 DEF LockStep, Lock!LockNext

LEMMA EndGivesBack ==
  ASSUME ExecInv, NEW r \in Requests, Finish(r) \/ Disconnect(r)
  PROVE  LockStep
<1>1. rpc[r] \in Active /\ Over(r) /\ UNCHANGED lost
  BY DEF Finish, Disconnect, Active, Yields
<1>2. target[r] \in Sandboxes /\ HoldersOf(target[r]) = {r}
  BY <1>1, SoleHolder
<1>3. HolderMap' = [HolderMap EXCEPT ![target[r]] = {}]
  BY <1>1, OverEmpties
<1>4. Lock!GiveBack(target[r], r)
  BY <1>1, <1>2, <1>3 DEF Lock!GiveBack, HolderMap, HoldersOf
<1> QED
  BY <1>2, <1>4 DEF LockStep, Lock!LockNext

LEMMA RestartStartsAfresh ==
  ASSUME Restart
  PROVE  LockStep
<1>1. Lock!StartAfresh
  BY DEF Restart, Lock!StartAfresh, Lock!LockInit, Holds, Active, Yields
<1> QED
  BY <1>1 DEF LockStep, Lock!LockNext

\* Everything else holds what was held.
LEMMA OtherStepsHold ==
  ASSUME ExecInv, NEW r \in Requests,
         \/ \E s \in Sandboxes : \E c \in {Pending, s} : Lookup(r, s, c)
         \/ RefuseBusy(r) \/ Begin(r)
         \/ Resolve(r) \/ Spawn(r) \/ Chunk(r) \/ Resume(r) \/ EndOfOutput(r)
         \/ ReadFails(r) \/ InspectExit(r) \/ EmitError(r) \/ EmitExit(r)
         \/ TimePasses(r) \/ CommandEnds(r)
  PROVE  LockStep
<1>1. ExecTypeOK
  BY DEF ExecInv
<1>2. ASSUME \E s \in Sandboxes : \E c \in {Pending, s} : Lookup(r, s, c)
      PROVE  LockStep
  BY <1>1, <1>2, HoldersKept DEF Lookup, ExecTypeOK, Holds, Active, Yields
<1>3. ASSUME RefuseBusy(r) PROVE LockStep
  BY <1>1, <1>3, HoldersKept DEF RefuseBusy, Over, ExecTypeOK, Holds, Active, Yields
<1>4. ASSUME TimePasses(r) \/ CommandEnds(r) PROVE LockStep
  BY <1>4, HoldersKept DEF TimePasses, CommandEnds, streamVars, Holds
<1>5. ASSUME Begin(r) \/ Resume(r) \/ EndOfOutput(r) \/ EmitError(r) \/ EmitExit(r)
      PROVE  LockStep
  BY <1>1, <1>5, LiveStepsKeep
  DEF Begin, Resume, EndOfOutput, EmitError, EmitExit, Active, Yields
<1>6. ASSUME Resolve(r) \/ Spawn(r) \/ Chunk(r) \/ ReadFails(r) \/ InspectExit(r)
      PROVE  LockStep
  BY <1>1, <1>6, LiveStepsKeep
  DEF Resolve, Spawn, Chunk, ReadFails, InspectExit, Exits, Fail, Active, Yields
<1> QED
  BY <1>2, <1>3, <1>4, <1>5, <1>6

LEMMA WorldHolds ==
  ASSUME ContainerMoves \/ UNCHANGED allVars
  PROVE  LockStep
  BY HoldersKept DEF ContainerMoves, allVars, execVars, streamVars, Holds

\* Acquire, the finally clause, the drop and the restart are the only steps of
\* the locks, and they are those of mutual exclusion.
THEOREM LocksImplementExclusion == ExecSpec => ImplementsLock
<1>1. ExecInit => Lock!LockInit
  BY DEF ExecInit, Lock!LockInit, Holds, Active, Yields
<1>2. ExecInv /\ [ExecNext]_allVars => LockStep
  BY AcquireTakes, DropVanishes, EndGivesBack, RestartStartsAfresh,
     OtherStepsHold, WorldHolds DEF ExecNext, Stream
<1> QED
  BY <1>1, <1>2, ExecInvariance, PTL
  DEF ExecSpec, ImplementsLock, Lock!LockSpec, LockStep
=============================================================================
