\* Two handlers, a private and a leaked id, one foreign container.
CONSTANTS
    s1 = s1
    s2 = s2
    f1 = f1
    t1 = t1
    t2 = t2
    Pending = Pending
    NoSandbox = NoSandbox
    Sandboxes = {s1, s2}
    Foreign = {f1}
    LeakedIds = {s2}
    Threads = {t1, t2}
SPECIFICATION Spec
SYMMETRY ThreadSymmetry
INVARIANT ReclaimsOnlyOwn
