SPECIFICATION Spec
CONSTANTS
    Runs = {r1, r2}
    Undos = {u1}
    Old = Old
    None = None
    Other = Other
INVARIANTS
    TypeOK
    StoreOrParked
PROPERTY
    NeverOverwritten
\* Every run ends.
CHECK_DEADLOCK FALSE
