------------------------------- MODULE Capture -------------------------------
(***************************************************************************)
(* create_snapshot while something else changes the workspace: a command   *)
(* that outlived its stream, or a child a command left behind.  Every look *)
(* at the tree is an action of its own, for nothing ties one to the next.  *)
(*                                                                         *)
(* A file is read and written in two pieces, so a read may be torn.  Paths *)
(* are taken in any order (the code sorts them) and are siblings.  Where a *)
(* link leads is left open: at every look that follows it, to nothing, to  *)
(* a directory or to a file of any content.  Modes are left out.           *)
(***************************************************************************)
EXTENDS Sequences

CONSTANTS Paths,   \* the paths outside of .saep and .git
          Pieces   \* what one half of a file may hold

Contents == Pieces \X Pieces

Absent == <<"absent">>
Directory == <<"directory">>
Link == <<"symlink">>

Special == <<"special">>  \* a pipe, a socket or a device

Entries == {Absent, Directory, Link, Special} \cup Contents

\* Distinct contents have distinct digests: a digest is written as its content.
Digests == Contents

VARIABLES tree,      \* the workspace
          touched,   \* history: paths changed since the scan began
          retyped,   \* history: those that were not always of one type
          unseen,    \* paths rglob has yet to pass
          todo,      \* listed paths that have yet to be recorded
          pc,        \* the next look at the tree
          path,      \* the path it is at
          digest,    \* of the file at that path, while and after it is read
          copied,    \* what copy2 has read so far
          entries,   \* the manifest: per path its type, or its digest
          blobs      \* per digest, what is stored under it

scanVars == <<unseen, todo, path, digest, copied, entries, blobs>>
vars == <<tree, touched, retyped, pc, scanVars>>

Empty == <<>>

Over == {"captured", "published", "unpublished", "accepted", "refused", "raised"}
PCs == Over \cup {"list", "is_symlink", "readlink", "is_dir", "is_file", "hash",
                  "hashing", "find_blob", "copy", "copy_open", "copying",
                  "copystat"}

TypeOK ==
    /\ tree \in [Paths -> Entries]
    /\ retyped \subseteq touched /\ touched \subseteq Paths
    /\ unseen \subseteq Paths /\ todo \subseteq Paths
    /\ pc \in PCs
    /\ path \in Paths
    /\ digest \in Digests \cup {Empty} /\ copied \in Contents \cup {Empty}
    /\ entries \in [Paths -> Entries \ {Special}]
    /\ blobs \in [Digests -> {Absent, Link, Directory} \cup Contents]

Init ==
    /\ tree \in [Paths -> Entries]
    /\ touched = {} /\ retyped = {}
    /\ unseen = Paths /\ todo = {}
    /\ pc = "list"
    /\ path \in Paths
    /\ digest = Empty /\ copied = Empty
    /\ entries = [p \in Paths |-> Absent]
    /\ blobs = [d \in Digests |-> Absent]

-----------------------------------------------------------------------------
(* Somebody else.                                                          *)

Kind(e) == IF e \in Contents THEN <<"file">> ELSE e

\* A file is written in place, as a whole or a half, or replaced; or a path is
\* made, removed or becomes something else.  What changes once the scan is
\* over is a matter of Rollback.
Write(p, e) ==
    /\ pc \notin Over
    /\ e # tree[p]
    /\ tree' = [tree EXCEPT ![p] = e]
    /\ touched' = touched \cup {p}
    /\ retyped' = IF Kind(e) = Kind(tree[p]) THEN retyped ELSE retyped \cup {p}
    /\ UNCHANGED <<pc, scanVars>>

-----------------------------------------------------------------------------
(* create_snapshot                                                         *)

Look(from, to) ==
    /\ pc = from
    /\ pc' = to
    /\ UNCHANGED <<tree, touched, retyped>>

\* An exception leaves create_snapshot: safe-run ends, the command never runs.
Raise(from) == Look(from, "raised") /\ UNCHANGED scanVars

\* The path is done with, recorded as e or not at all, and the next one is due.
Record(from, e) ==
    /\ Look(from, "list")
    /\ entries' = [entries EXCEPT ![path] = e]
    /\ digest' = Empty /\ copied' = Empty
    /\ UNCHANGED <<unseen, todo, path>>

\* rglob, which sorted exhausts before the first path is looked at again.
List(p) ==
    /\ Look("list", "list")
    /\ p \in unseen
    /\ unseen' = unseen \ {p}
    /\ todo' = IF tree[p] = Absent THEN todo ELSE todo \cup {p}
    /\ UNCHANGED <<path, digest, copied, entries, blobs>>

\* os.lstat
Stat(p) ==
    /\ unseen = {} /\ p \in todo
    /\ \/ /\ tree[p] # Absent
          /\ Look("list", "is_symlink")
          /\ path' = p
          /\ todo' = todo \ {p}
          /\ UNCHANGED <<unseen, digest, copied, entries, blobs>>
       \/ tree[p] = Absent /\ Raise("list")

\* Mutant: links are not told from what they lead to.
IsSymlinkDropped == Look("is_symlink", "is_dir") /\ UNCHANGED scanVars

IsSymlink ==
    /\ Look("is_symlink", IF tree[path] = Link THEN "readlink" ELSE "is_dir")
    /\ UNCHANGED scanVars

\* os.readlink raises on anything but a link.
ReadLink ==
    \/ /\ tree[path] = Link
       /\ Record("readlink", Link)
       /\ UNCHANGED blobs
    \/ tree[path] # Link /\ Raise("readlink")

IsDir ==
    \/ /\ tree[path] \in {Directory, Link}
       /\ Record("is_dir", Directory)
       /\ UNCHANGED blobs
    \/ /\ tree[path] # Directory
       /\ Look("is_dir", "is_file")
       /\ UNCHANGED scanVars

\* What is none of the three is left out of the manifest.
IsFile ==
    \/ /\ tree[path] \in Contents \cup {Link}
       /\ Look("is_file", "hash")
       /\ UNCHANGED scanVars
    \/ /\ tree[path] \notin Contents
       /\ Record("is_file", Absent)
       /\ UNCHANGED blobs

\* What opening the path may find: a file, or anything through a link or out of
\* a special file.
Opened == IF tree[path] \in {Link, Special} THEN Contents ELSE {tree[path]} \cap Contents

\* The rest of a read of the current path: what was found when it began, or
\* with the second piece as it is by now.
RestOf(found) ==
    {found} \cup (IF tree[path] \in Contents
                  THEN {<<found[1], tree[path][2]>>} ELSE {})

\* Mutant: a file that cannot be opened is recorded without a digest.
OpenToHashSwallows ==
    \/ /\ Look("hash", "hashing")
       /\ digest' \in Opened
       /\ UNCHANGED <<unseen, todo, path, copied, entries, blobs>>
    \/ /\ tree[path] \notin Contents
       /\ Record("hash", Empty)
       /\ UNCHANGED blobs

\* _sha256_file opens what the path leads to, if it is no directory ...
OpenToHash ==
    \/ /\ Look("hash", "hashing")
       /\ digest' \in Opened
       /\ UNCHANGED <<unseen, todo, path, copied, entries, blobs>>
    \/ tree[path] \notin Contents /\ Raise("hash")

\* Mutant: the buffer of the first piece is hashed again for the second.
HashFirstTwice ==
    /\ Look("hashing", "find_blob")
    /\ digest' = <<digest[1], digest[1]>>
    /\ UNCHANGED <<unseen, todo, path, copied, entries, blobs>>

\* ... and reads it to the end.
Hash ==
    /\ Look("hashing", "find_blob")
    /\ digest' \in RestOf(digest)
    /\ UNCHANGED <<unseen, todo, path, copied, entries, blobs>>

\* Mutant: a blob is made with mode "x", never found.
FindBlobRaises ==
    \/ Raise("find_blob") /\ blobs[digest] \in Contents
    \/ /\ Look("find_blob", "copy")
       /\ blobs[digest] \notin Contents
       /\ UNCHANGED scanVars

\* destination.exists(), which follows a link that is there.
FindBlob ==
    \/ /\ Record("find_blob", digest)
       /\ blobs[digest] # Absent
       /\ UNCHANGED blobs
    \/ /\ Look("find_blob", "copy")
       /\ blobs[digest] \notin Contents
       /\ UNCHANGED scanVars

\* shutil.copy2 copies a link as a link, unless something is in the blob's place
\* or it is gone when it is read, and refuses a pipe.
StartCopy ==
    \/ /\ tree[path] # Link
       /\ Look("copy", "copy_open")
       /\ UNCHANGED scanVars
    \/ /\ Look("copy", "copystat")
       /\ tree[path] = Link /\ blobs[digest] = Absent
       /\ blobs' = [blobs EXCEPT ![digest] = Link]
       /\ UNCHANGED <<unseen, todo, path, digest, copied, entries>>
    \/ tree[path] \in {Link, Special} /\ Raise("copy")

OpenToCopy ==
    \/ /\ Look("copy_open", "copying")
       /\ copied' \in Opened
       /\ UNCHANGED <<unseen, todo, path, digest, entries, blobs>>
    \/ tree[path] \notin Contents /\ Raise("copy_open")

\* It writes the blob, or through a link in its place to where that may lead.
Copy ==
    \/ /\ Look("copying", "copystat")
       /\ \E content \in RestOf(copied) :
              blobs' = [blobs EXCEPT ![digest] = IF @ = Link THEN Link ELSE content]
       /\ UNCHANGED <<unseen, todo, path, digest, copied, entries>>
    \/ Raise("copying") /\ blobs[digest] = Link

\* Mutant: a path whose copy fails is left out, and not what is stored of it.
CopystatSkips ==
    \/ /\ Record("copystat", digest)
       /\ tree[path] # Absent
       /\ UNCHANGED blobs
    \/ /\ Record("copystat", Absent)
       /\ tree[path] = Absent \/ (tree[path] = Link) # (blobs[digest] = Link)
       /\ UNCHANGED blobs

\* shutil.copystat, which follows a link unless both ends are one.
Copystat ==
    \/ /\ Record("copystat", digest)
       /\ tree[path] # Absent
       /\ UNCHANGED blobs
    \/ /\ Raise("copystat")
       /\ tree[path] = Absent \/ (tree[path] = Link) # (blobs[digest] = Link)

WriteManifest ==
    /\ unseen = {} /\ todo = {}
    /\ Look("list", "captured")
    /\ UNCHANGED scanVars

-----------------------------------------------------------------------------
(* What becomes of the snapshot.                                           *)

\* What copytree makes of a blob: it follows links.
Followed(blob) == IF blob = Link THEN {Directory} \cup Contents ELSE {blob}

\* The command has run; copytree raises over a link that leads nowhere.
Persist ==
    \/ /\ Look("captured", "published")
       /\ blobs' \in [Digests -> {Absent, Directory} \cup Contents]
       /\ \A d \in Digests : blobs'[d] \in Followed(blobs[d])
       /\ UNCHANGED <<unseen, todo, path, digest, copied, entries>>
    \/ /\ Look("captured", "unpublished")
       /\ \E d \in Digests : blobs[d] = Link
       /\ UNCHANGED scanVars

RecordedFiles == {p \in Paths : entries[p] \in Digests}

\* Mutant: the blobs are looked for, and not read.
PreflightFindsOnly ==
    /\ Look("published", IF \A p \in RecordedFiles : blobs[entries[p]] \in Contents
                         THEN "accepted" ELSE "refused")
    /\ UNCHANGED scanVars

\* _preflight_snapshot of an undo
Preflight ==
    /\ Look("published", IF \A p \in RecordedFiles : blobs[entries[p]] = entries[p]
                         THEN "accepted" ELSE "refused")
    /\ UNCHANGED scanVars

Scan ==
    \/ \E p \in Paths : List(p) \/ Stat(p)
    \/ IsSymlink \/ ReadLink \/ IsDir \/ IsFile
    \/ OpenToHash \/ Hash \/ FindBlob
    \/ StartCopy \/ OpenToCopy \/ Copy \/ Copystat
    \/ WriteManifest

Next ==
    \/ \E p \in Paths, e \in Entries : Write(p, e)
    \/ Scan
    \/ Persist
    \/ Preflight

Spec == Init /\ [][Next]_vars

-----------------------------------------------------------------------------
(* Properties.                                                             *)

Captured == pc \in Over \ {"raised"}

\* What the manifest is to say of an entry: nothing of a special file.
Recorded(e) == IF e = Special THEN Absent ELSE e

\* The manifest is right about what nobody changed, whatever happened around
\* it; and a path that was only rewritten is in it as a file, so that an undo
\* never takes it for one that the command made.
ManifestTellsWhatStayed ==
    Captured => \A p \in Paths :
        /\ p \notin touched => entries[p] = Recorded(tree[p])
        /\ p \notin retyped => Kind(entries[p]) = Kind(Recorded(tree[p]))

Sharing(p) == {q \in RecordedFiles : entries[q] = entries[p]}

\* What a race spoils is the blob of the path that was changed: among files that
\* share one, a published blob is a file unless one of them did not stay a file,
\* and has their content unless one of them was changed.
SpoiltByItsOwn ==
    pc \in {"published", "accepted", "refused"} =>
        \A p \in RecordedFiles :
            /\ Sharing(p) \cap retyped = {} => blobs[entries[p]] \in Contents
            /\ Sharing(p) \cap touched = {} => blobs[entries[p]] = entries[p]

\* create_snapshot fails, and keeps the command from running, only when a path
\* was made, removed or became something else: rewriting never fails it.
RewritingNeverRaises == pc \in {"raised", "unpublished"} => retyped # {}

\* An undo that goes ahead writes back every file nobody had changed during
\* the scan as it was, though another one's race may have spoilt their blob.
UntouchedComesBack ==
    pc = "accepted" =>
        \A p \in Paths \ touched :
            tree[p] \in Contents => blobs[entries[p]] = tree[p]

\* Without a race there is nothing to refuse.
QuietScanAccepted == touched = {} => pc \notin {"raised", "unpublished", "refused"}

\* Violated.  snapshot/README.md:21 says "content-addressed file blobs"; a file
\* rewritten between hash and copy leaves its new content under the old
\* digest, where it also serves files that were never touched.
ContentAddressed ==
    pc = "published" /\ retyped = {} => \A d \in Digests : blobs[d] \in {Absent, d}
=============================================================================
