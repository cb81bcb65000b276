------------------------------ MODULE ExecLock ------------------------------
(***************************************************************************)
(* What per-sandbox exec locks promise: only a free sandbox is taken, so   *)
(* it has one holder at a time, and only its holder gives it back.  When a *)
(* holder vanishes without giving it back the sandbox is lost to everybody *)
(* until the process, and all locks with it, starts afresh.                *)
(***************************************************************************)
CONSTANTS Things, Holders

VARIABLES holders,  \* per thing, who holds it: nobody or one
          gone      \* the things whose holder vanished

lockVars == <<holders, gone>>

LockInit ==
    /\ holders = [x \in Things |-> {}]
    /\ gone = {}

Take(x, h) ==
    /\ holders[x] = {} /\ x \notin gone
    /\ holders' = [holders EXCEPT ![x] = {h}]
    /\ UNCHANGED gone

GiveBack(x, h) ==
    /\ holders[x] = {h}
    /\ holders' = [holders EXCEPT ![x] = {}]
    /\ UNCHANGED gone

Vanish(x, h) ==
    /\ holders[x] = {h}
    /\ holders' = [holders EXCEPT ![x] = {}]
    /\ gone' = gone \cup {x}

StartAfresh == LockInit'

LockNext ==
    \/ \E x \in Things, h \in Holders : Take(x, h) \/ GiveBack(x, h) \/ Vanish(x, h)
    \/ StartAfresh

LockSpec == LockInit /\ [][LockNext]_lockVars
=============================================================================
