SPECIFICATION Spec
CONSTANTS
    Paths = {"a", "b", "c"}
    Above <- MCAbove
    Entries <- HiddenEntries
    Faulty = {}
    Store = "store"
PROPERTY RemovesOnlyNew
