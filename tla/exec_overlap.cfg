\* Nothing dropped, cut off or silent.
CONSTANTS
    s1 = s1
    Pending = Pending
    NoSandbox = NoSandbox
    r1 = r1
    r2 = r2
    Sandboxes = {s1}
    Foreign = {}
    Requests = {r1, r2}
    Dropped = {}
    Cut = {}
    Silent = {}
SPECIFICATION ExecSpec
INVARIANT OneCommandAtATime
