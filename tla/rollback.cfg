SPECIFICATION Spec
CONSTANTS
    Paths = {"a", "b", "c"}
    Above <- MCAbove
    Entries <- ListedEntries
    Faulty = {"b"}
    Store = "store"
INVARIANTS
    TypeOK
    DiffListsChanges
    EveryDifferenceReported
    NoFalseAlarm
PROPERTIES
    RemovesOnlyNew
    ImplementsUndo
