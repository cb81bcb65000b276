\* Three requests on one sandbox; r1 may be dropped or cut off, r3 is silent.
CONSTANTS
    s1 = s1
    Pending = Pending
    NoSandbox = NoSandbox
    r1 = r1
    r2 = r2
    r3 = r3
    Sandboxes = {s1}
    Foreign = {}
    Requests = {r1, r2, r3}
    Dropped = {r1}
    Cut = {r1}
    Silent = {r3}
SPECIFICATION FairExecSpec
INVARIANTS
    ExecTypeOK
    LockAccounted
    StreamsExclusive
    ExitCodeMeaning
PROPERTIES
    ImplementsLock
    LockFreed
    TimedOutStreamEnds
