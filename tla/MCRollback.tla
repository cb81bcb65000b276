------------------------------ MODULE MCRollback ------------------------------
EXTENDS Rollback, TLC

\* A directory "a" that may hold "a/b", which may hold "a/b/c".
MCAbove == [p \in Paths |-> CASE p = "a" -> {} [] p = "b" -> {"a"} [] p = "c" -> {"a", "b"}]

Dir(mode)        == [type |-> "directory", data |-> "", mode |-> mode]
File(data, mode) == [type |-> "file", data |-> data, mode |-> mode]
Link             == [type |-> "symlink", data |-> "elsewhere", mode |-> Rights]
Pipe             == [type |-> "special", data |-> "", mode |-> {"r", "w"}]

\* Directories that can be listed, and every other kind of entry.
ListedEntries == {Dir(Rights), Dir({"r", "x"}), File("old", {"r", "w"}), File("new", Rights), Link, Pipe}

\* A directory that its owner has closed altogether.
HiddenEntries == {Dir(Rights), Dir({}), File("old", {"r", "w"})}
=============================================================================
