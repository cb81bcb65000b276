\* Two handlers and two execs, one silent, on one private sandbox.
CONSTANTS
    s1 = s1
    t1 = t1
    t2 = t2
    r1 = r1
    r2 = r2
    Pending = Pending
    NoSandbox = NoSandbox
    Sandboxes = {s1}
    Foreign = {}
    LeakedIds = {}
    Threads = {t1, t2}
    Requests = {r1, r2}
    Dropped = {r1}
    Cut = {r1}
    Silent = {r2}
SPECIFICATION FairOrchSpec
INVARIANTS
    ExecFindsContainer
    DestroyedIsQuiet
    ReclaimSparesCommands
PROPERTIES
    ImplementsExec
    DeleteFreesLock
