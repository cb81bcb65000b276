\* Request r1 may be dropped unstarted.
CONSTANTS
    s1 = s1
    Pending = Pending
    NoSandbox = NoSandbox
    r1 = r1
    r2 = r2
    Sandboxes = {s1}
    Foreign = {}
    Requests = {r1, r2}
    Dropped = {r1}
    Cut = {}
    Silent = {}
SPECIFICATION ExecSpec
PROPERTY BusyMeansBusy
