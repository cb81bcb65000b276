---------------------------- MODULE CaptureProofs ----------------------------
(***************************************************************************)
(* Theorems about a snapshot taken while the tree changes, for any set of  *)
(* paths and of contents.                                                  *)
(***************************************************************************)
EXTENDS Capture, TLAPS

\* The current path is being looked at.
Busy == pc \notin Over \cup {"list"}

Done(p) == p \notin unseen \cup todo /\ (Busy => p # path)

\* What is known of the current path once it was taken for a file.
Reading == pc \in {"hashing", "find_blob", "copy", "copy_open", "copying", "copystat"}

LocalsOK ==
    /\ Reading => digest \in Contents
    /\ pc = "copying" => copied \in Contents
    /\ Busy => path \notin unseen \cup todo

\* The manifest so far.
EntriesSoFar ==
    pc # "raised" => \A p \in Paths :
        /\ ~Done(p) => entries[p] = Absent
        /\ Done(p) /\ p \notin touched => entries[p] = Recorded(tree[p])
        /\ Done(p) /\ p \notin retyped => Kind(entries[p]) = Kind(Recorded(tree[p]))

\* What the looks so far say of a path that kept its type, or its content.
LooksSoFar ==
    /\ \A p \in todo \ retyped : tree[p] # Absent
    /\ path \notin retyped =>
        /\ pc \in {"is_symlink", "is_dir", "is_file"} => tree[path] # Absent
        /\ pc = "readlink" => tree[path] = Link
        /\ pc \in {"is_dir", "is_file"} => tree[path] # Link
        /\ pc = "is_file" => tree[path] # Directory
        /\ pc = "hash" \/ Reading => tree[path] \in Contents
    /\ path \notin touched =>
        /\ Reading => digest = tree[path]
        /\ pc = "copying" => copied = tree[path]

\* The paths a blob is stored for: recorded with that digest, or about to be.
StoredFor(d) ==
    {p \in Paths : entries[p] = d \/ (pc = "copystat" /\ p = path /\ digest = d)}

\* Every digest in the manifest has a blob; and unless the scan has failed, a
\* blob that is no file, or not what its name says, is stored for a path that
\* did not stay a file, or was changed.
BlobsSoFar ==
    /\ \A p \in Paths : entries[p] \in Digests => blobs[entries[p]] # Absent
    /\ pc = "copystat" => blobs[digest] # Absent
    /\ pc # "raised" => \A d \in Digests :
        /\ blobs[d] \in {Link, Directory} => StoredFor(d) \cap retyped # {}
        /\ blobs[d] \notin {Absent, d} => StoredFor(d) \cap touched # {}

\* How far the snapshot has come.
Outcome ==
    /\ pc \in Over \ {"raised"} => unseen = {} /\ todo = {}
    /\ pc \in {"raised", "unpublished"} => retyped # {}
    /\ pc \in {"published", "accepted", "refused"} => \A d \in Digests : blobs[d] # Link
    /\ pc = "accepted" => \A p \in RecordedFiles : blobs[entries[p]] = entries[p]
    /\ pc = "refused" => touched # {}

CaptureInv ==
    /\ TypeOK
    /\ LocalsOK
    /\ EntriesSoFar
    /\ LooksSoFar
    /\ BlobsSoFar
    /\ Outcome

-----------------------------------------------------------------------------
(* The values.                                                             *)

\* Contents are pairs; the other entries, and their kinds, are not.
LEMMA Distinct ==
    /\ Absent \notin Contents /\ Directory \notin Contents
    /\ Link \notin Contents /\ Special \notin Contents
    /\ Absent # Directory /\ Absent # Link /\ Directory # Link
    /\ Special \notin {Absent, Directory, Link}
    /\ <<"file">> \notin {Absent, Directory, Link, Special}
  BY DEF Contents, Absent, Directory, Link, Special

\* A torn read yields a content, and an undisturbed one what is there.
LEMMA RestIsContent ==
  ASSUME TypeOK, NEW found \in Contents
  PROVE  /\ RestOf(found) \subseteq Contents
         /\ found = tree[path] => RestOf(found) = {found}
  BY DEF RestOf, Contents

\* Of one kind are two contents, or equal entries.
LEMMA SameKind ==
  ASSUME NEW e \in Entries, NEW f \in Entries, Kind(e) = Kind(f)
  PROVE  /\ e = f \/ (e \in Contents /\ f \in Contents)
         /\ Kind(Recorded(e)) = Kind(Recorded(f))
  BY Distinct DEF Kind, Recorded, Entries

\* What is open for reading is a content; of a file, its own.
LEMMA OpenedIsContent ==
  ASSUME TypeOK
  PROVE  /\ Opened \subseteq Contents
         /\ tree[path] \in Contents => Opened = {tree[path]}
  BY Distinct DEF Opened

LEMMA InitCaptureInv == Init => CaptureInv
<1> SUFFICES ASSUME Init PROVE CaptureInv
  OBVIOUS
<1>1. TypeOK
  BY Distinct DEF Init, TypeOK, PCs, Over, Entries
<1>2. LocalsOK /\ EntriesSoFar /\ LooksSoFar /\ Outcome
  BY DEF Init, LocalsOK, EntriesSoFar, LooksSoFar, Outcome, Busy, Done, Reading, Over
<1>3. BlobsSoFar
  BY Distinct DEF Init, BlobsSoFar, Digests, TypeOK
<1> QED
  BY <1>1, <1>2, <1>3 DEF CaptureInv

-----------------------------------------------------------------------------
(* Steps.                                                                  *)

\* A change of the tree: what it makes false it adds to the histories.
LEMMA WriteKeeps ==
  ASSUME CaptureInv, NEW p \in Paths, NEW e \in Entries, Write(p, e)
  PROVE  CaptureInv'
<1> USE DEF CaptureInv
<1>0. /\ UNCHANGED <<pc, unseen, todo, path, digest, copied, entries, blobs>>
      /\ pc \notin Over
      /\ tree \in [Paths -> Entries]
      /\ tree' = [tree EXCEPT ![p] = e]
      /\ touched' = touched \cup {p}
      /\ retyped' \in {retyped, retyped \cup {p}}
      /\ p \notin retyped' => p \notin retyped /\ Kind(e) = Kind(tree[p])
  BY DEF Write, scanVars, TypeOK
<1>1. TypeOK'
  BY <1>0 DEF TypeOK
<1>2. LocalsOK'
  BY <1>0 DEF LocalsOK, Reading, Busy
<1>3. \A q \in Paths : q \notin retyped' =>
          /\ Kind(tree'[q]) = Kind(tree[q])
          /\ Kind(Recorded(tree'[q])) = Kind(Recorded(tree[q]))
  BY <1>0, <1>1, SameKind DEF TypeOK
<1>4. \A q \in Paths : q \notin touched' => tree'[q] = tree[q]
  BY <1>0
<1>5. EntriesSoFar'
  BY <1>0, <1>3, <1>4 DEF EntriesSoFar, Done, Busy
<1>6. \A q \in Paths : q \notin retyped' =>
          \/ tree'[q] = tree[q]
          \/ tree'[q] \in Contents /\ tree[q] \in Contents
  BY <1>0, <1>1, <1>3, SameKind DEF TypeOK
<1>7. LooksSoFar'
  BY <1>0, <1>4, <1>6, Distinct DEF LooksSoFar, Reading, TypeOK
<1>8. BlobsSoFar'
  BY <1>0 DEF BlobsSoFar, StoredFor
<1>9. Outcome'
  BY <1>0 DEF Outcome, Over, RecordedFiles
<1> QED
  BY <1>1, <1>2, <1>5, <1>7, <1>8, <1>9

\* The stored blobs are as good as before when no step of the copy is behind us.
LEMMA BlobsStay ==
  ASSUME BlobsSoFar, pc \notin {"raised", "copystat"}, pc' # "copystat",
         UNCHANGED <<touched, retyped, entries, blobs>>
  PROVE  BlobsSoFar'
<1>1. \A d \in Digests : StoredFor(d)' = StoredFor(d)
  BY DEF StoredFor
<1> QED
  BY <1>1 DEF BlobsSoFar

\* A look that only moves on, to one of the next looks at the same path.
LEMMA LookKeeps ==
  ASSUME CaptureInv, NEW from \in PCs, NEW to \in PCs, Look(from, to),
         UNCHANGED scanVars,
         Busy, from \notin {"copying", "copystat"},
         to \notin Over, to \notin {"list", "hashing", "copying", "copystat"},
         path \notin retyped =>
            /\ to = "is_symlink" => tree[path] # Absent
            /\ to = "readlink" => tree[path] = Link
            /\ to \in {"is_dir", "is_file"} => tree[path] \notin {Absent, Link}
            /\ to = "is_file" => tree[path] # Directory
            /\ to \in {"hash", "find_blob", "copy", "copy_open"} => tree[path] \in Contents,
         to \in {"find_blob", "copy", "copy_open"} => Reading
  PROVE  CaptureInv'
<1> USE DEF CaptureInv, Look, scanVars
<1>1. TypeOK'
  BY DEF TypeOK
<1>2. LocalsOK'
  BY DEF LocalsOK, Reading, Busy
<1>3. EntriesSoFar'
  BY DEF EntriesSoFar, Done, Busy, Over
<1>4. LooksSoFar'
  BY DEF LooksSoFar, Reading
<1>5. BlobsSoFar'
  BY BlobsStay DEF Busy, Over
<1>6. Outcome'
  BY DEF Outcome, Over, RecordedFiles
<1> QED
  BY <1>1, <1>2, <1>3, <1>4, <1>5, <1>6

\* create_snapshot raises over a path that was not always of one type.
LEMMA RaiseKeeps ==
  ASSUME CaptureInv, NEW from, Raise(from), retyped # {}
  PROVE  CaptureInv'
<1> USE DEF CaptureInv, Raise, Look, scanVars
<1>1. TypeOK' /\ BlobsSoFar'
  BY DEF TypeOK, PCs, Over, BlobsSoFar
<1>2. LocalsOK' /\ EntriesSoFar' /\ LooksSoFar' /\ Outcome'
  BY DEF LocalsOK, EntriesSoFar, LooksSoFar, Outcome, Reading, Busy, Over, RecordedFiles
<1> QED
  BY <1>1, <1>2

\* The current path is recorded as what it is, or as what it may have been.
LEMMA RecordKeeps ==
  ASSUME CaptureInv, Busy, NEW from, NEW e \in Entries \ {Special}, Record(from, e),
         UNCHANGED blobs,
         path \notin touched => e = Recorded(tree[path]),
         path \notin retyped => Kind(e) = Kind(Recorded(tree[path])),
         e \in Digests => blobs[e] # Absent,
         from = "copystat" => e = digest
  PROVE  CaptureInv'
<1> USE DEF CaptureInv, Record, Look
<1>1. TypeOK'
  BY DEF TypeOK, PCs
<1>2. LocalsOK' /\ LooksSoFar' /\ Outcome'
  BY DEF LocalsOK, LooksSoFar, Outcome, Reading, Busy, Over
<1>3. EntriesSoFar'
  BY DEF EntriesSoFar, Done, Busy, LocalsOK, TypeOK, Over
<1>4. entries[path] \notin Digests
  BY Distinct DEF EntriesSoFar, Done, Busy, Over, TypeOK, Digests
<1>5. \A d \in Digests : StoredFor(d) \subseteq StoredFor(d)'
  BY <1>4 DEF StoredFor, TypeOK
<1>6. BlobsSoFar'
  <2>1. \A p \in Paths : entries'[p] \in Digests => blobs'[entries'[p]] # Absent
    BY DEF BlobsSoFar, TypeOK
  <2> QED
    BY <1>5, <2>1 DEF BlobsSoFar, Busy, Over
<1> QED
  BY <1>1, <1>2, <1>3, <1>6

\* The current path is recorded as no file, or not at all.
LEMMA NoFileKeeps ==
  ASSUME CaptureInv, NEW from \in {"readlink", "is_dir", "is_file"},
         NEW e \in {Absent, Directory, Link}, Record(from, e), UNCHANGED blobs,
         path \notin retyped => e = Recorded(tree[path])
  PROVE  CaptureInv'
<1>1. Busy
  BY DEF Record, Look, Busy, Over
<1>2. e \in Entries \ {Special} /\ e \notin Digests
  BY Distinct DEF Entries, Digests
<1>3. path \notin touched => path \notin retyped
  BY DEF CaptureInv, TypeOK
<1>4. from # "copystat"
  OBVIOUS
<1> QED
  BY <1>1, <1>2, <1>3, <1>4, RecordKeeps

\* The looks at the tree that lead to a file, a link or a directory.
LEMMA WalkKeeps ==
  ASSUME CaptureInv,
         (\E p \in Paths : List(p) \/ Stat(p)) \/ IsSymlink \/ ReadLink \/ IsDir \/ IsFile
  PROVE  CaptureInv'
<1>1. ASSUME NEW p \in Paths, List(p) PROVE CaptureInv'
  <2> USE <1>1 DEF CaptureInv, List, Look
  <2>1. TypeOK'
    BY DEF TypeOK
  <2>2. LocalsOK' /\ Outcome'
    BY DEF LocalsOK, Outcome, Reading, Busy, Over
  <2>3. BlobsSoFar'
    BY BlobsStay
  <2>4. EntriesSoFar'
    BY Distinct DEF EntriesSoFar, Done, Busy, Over, TypeOK, Recorded
  <2>5. LooksSoFar'
    BY DEF LooksSoFar, Reading
  <2> QED
    BY <2>1, <2>2, <2>3, <2>4, <2>5
<1>2. ASSUME NEW p \in Paths, Stat(p), tree[p] # Absent PROVE CaptureInv'
  <2>0. /\ pc = "list" /\ pc' = "is_symlink"
        /\ path' = p /\ todo' = todo \ {p} /\ p \in todo /\ unseen = {}
        /\ UNCHANGED <<tree, touched, retyped, unseen, digest, copied, entries, blobs>>
    BY <1>2 DEF Stat, Look
  <2> USE <2>0 DEF CaptureInv
  <2>1. TypeOK'
    BY DEF TypeOK, PCs
  <2>2. LocalsOK' /\ Outcome'
    BY DEF LocalsOK, Outcome, Reading, Busy, Over
  <2>3. BlobsSoFar'
    BY BlobsStay
  <2>4. EntriesSoFar'
    BY DEF EntriesSoFar, Done, Busy, Over
  <2>5. LooksSoFar'
    BY <1>2 DEF LooksSoFar, Reading
  <2> QED
    BY <2>1, <2>2, <2>3, <2>4, <2>5
<1>3. ASSUME NEW p \in Paths, Stat(p), tree[p] = Absent PROVE CaptureInv'
  BY <1>3, RaiseKeeps DEF Stat, CaptureInv, LooksSoFar
<1>4. CASE IsSymlink
  BY <1>4, LookKeeps DEF IsSymlink, Look, CaptureInv, LooksSoFar, Busy, Over, PCs
<1>5. CASE ReadLink
  <2>1. ASSUME tree[path] = Link, Record("readlink", Link), UNCHANGED blobs
        PROVE  CaptureInv'
    BY <2>1, NoFileKeeps, Distinct DEF Recorded
  <2>2. ASSUME tree[path] # Link, Raise("readlink") PROVE CaptureInv'
    BY <2>2, RaiseKeeps DEF CaptureInv, LooksSoFar, Raise, Look
  <2> QED
    BY <1>5, <2>1, <2>2 DEF ReadLink
<1>6. CASE IsDir
  <2>1. ASSUME tree[path] \in {Directory, Link}, Record("is_dir", Directory), UNCHANGED blobs
        PROVE  CaptureInv'
    <3>1. tree[path] = Link => path \in retyped
      BY <2>1 DEF CaptureInv, LooksSoFar, Record, Look
    <3> QED
      BY <2>1, <3>1, NoFileKeeps, Distinct DEF Recorded
  <2>2. ASSUME tree[path] # Directory, Look("is_dir", "is_file"), UNCHANGED scanVars
        PROVE  CaptureInv'
    BY <2>2, LookKeeps DEF Look, CaptureInv, LooksSoFar, Busy, Over, PCs
  <2> QED
    BY <1>6, <2>1, <2>2 DEF IsDir
<1>7. CASE IsFile
  <2>1. ASSUME tree[path] \in Contents \cup {Link}, Look("is_file", "hash"),
               UNCHANGED scanVars
        PROVE  CaptureInv'
    <3>1. path \notin retyped => tree[path] \in Contents
      BY <2>1 DEF CaptureInv, LooksSoFar, Look
    <3> QED
      BY <2>1, <3>1, LookKeeps DEF Look, Busy, Over, PCs
  <2>2. ASSUME tree[path] \notin Contents, Record("is_file", Absent), UNCHANGED blobs
        PROVE  CaptureInv'
    <3>1. path \notin retyped => tree[path] = Special
      BY <2>2 DEF CaptureInv, LooksSoFar, TypeOK, Entries, Record, Look
    <3> QED
      BY <2>2, <3>1, NoFileKeeps DEF Recorded
  <2> QED
    BY <1>7, <2>1, <2>2 DEF IsFile
<1> QED
  BY <1>1, <1>2, <1>3, <1>4, <1>5, <1>6, <1>7 DEF Stat

\* The current path is recorded as a file.
LEMMA FileKeeps ==
  ASSUME CaptureInv, NEW from \in {"find_blob", "copystat"}, Record(from, digest),
         UNCHANGED blobs, blobs[digest] # Absent
  PROVE  CaptureInv'
<1>1. Busy /\ Reading
  BY DEF Record, Look, Busy, Reading, Over
<1>2. /\ digest \in Contents
      /\ path \notin touched => digest = tree[path]
      /\ path \notin retyped => tree[path] \in Contents
  BY <1>1 DEF CaptureInv, LocalsOK, LooksSoFar
<1>3. digest \in Entries \ {Special} /\ Recorded(digest) = digest
  BY <1>2, Distinct DEF Entries, Recorded
<1>4. path \notin retyped => Kind(digest) = Kind(Recorded(tree[path]))
  BY <1>2, Distinct DEF Kind, Recorded
<1> QED
  BY <1>1, <1>2, <1>3, <1>4, RecordKeeps

\* The reads of a file for its digest.
LEMMA HashKeeps ==
  ASSUME CaptureInv, OpenToHash \/ Hash \/ FindBlob
  PROVE  CaptureInv'
<1> USE DEF CaptureInv
<1>1. CASE OpenToHash
  <2>1. ASSUME Look("hash", "hashing"), digest' \in Opened,
               UNCHANGED <<unseen, todo, path, copied, entries, blobs>>
        PROVE  CaptureInv'
    <3> USE <2>1 DEF Look
    <3>0. /\ digest' \in Contents
          /\ path \notin retyped => tree[path] \in Contents
          /\ path \notin touched => digest' = tree[path]
      BY OpenedIsContent DEF LooksSoFar, TypeOK
    <3>1. TypeOK'
      BY <3>0 DEF TypeOK, PCs, Digests
    <3>2. LocalsOK' /\ Outcome'
      BY <3>0 DEF LocalsOK, Outcome, Reading, Busy, Over
    <3>3. EntriesSoFar' /\ LooksSoFar'
      BY <3>0 DEF EntriesSoFar, LooksSoFar, Reading, Done, Busy, Over
    <3>4. BlobsSoFar'
      BY BlobsStay
    <3> QED
      BY <3>1, <3>2, <3>3, <3>4
  <2>2. ASSUME tree[path] \notin Contents, Raise("hash") PROVE CaptureInv'
    BY <2>2, RaiseKeeps DEF LooksSoFar, Raise, Look
  <2> QED
    BY <1>1, <2>1, <2>2 DEF OpenToHash
<1>2. CASE Hash
  <2>0. /\ pc = "hashing" /\ pc' = "find_blob" /\ digest \in Contents
        /\ digest' \in RestOf(digest)
        /\ UNCHANGED <<tree, touched, retyped, unseen, todo, path, copied, entries, blobs>>
    BY <1>2 DEF Hash, Look, LocalsOK, Reading
  <2>1. digest' \in Contents /\ (digest = tree[path] => digest' = digest)
    BY <2>0, RestIsContent
  <2> USE <2>0, <2>1
  <2>2. TypeOK'
    BY DEF TypeOK, PCs, Digests
  <2>3. LocalsOK' /\ Outcome'
    BY DEF LocalsOK, Outcome, Reading, Busy, Over
  <2>4. EntriesSoFar' /\ LooksSoFar'
    BY DEF EntriesSoFar, LooksSoFar, Reading, Done, Busy, Over
  <2>5. BlobsSoFar'
    BY BlobsStay
  <2> QED
    BY <2>2, <2>3, <2>4, <2>5
<1>3. CASE FindBlob
  <2>1. ASSUME Look("find_blob", "copy"), UNCHANGED scanVars PROVE CaptureInv'
    BY <2>1, LookKeeps DEF Look, LooksSoFar, Reading, Busy, Over, PCs
  <2> QED
    BY <1>3, <2>1, FileKeeps DEF FindBlob
<1> QED
  BY <1>1, <1>2, <1>3

\* What the copy of the current path leaves under its digest.
LEMMA StoreKeeps ==
  ASSUME CaptureInv, pc \in {"copy", "copying"}, Look(pc, "copystat"),
         NEW blob \in {Link} \cup Contents,
         blobs' = [blobs EXCEPT ![digest] = blob],
         UNCHANGED <<unseen, todo, path, digest, copied, entries>>,
         blob = Link => blobs[digest] = Link \/ path \in retyped,
         blob # digest => StoredFor(digest) \cap touched # {} \/ path \in touched
  PROVE  CaptureInv'
<1> USE DEF CaptureInv, Look
<1>0. digest \in Contents
  BY DEF LocalsOK, Reading
<1>1. TypeOK'
  BY <1>0 DEF TypeOK, PCs, Digests
<1>2. LocalsOK' /\ Outcome'
  BY DEF LocalsOK, Outcome, Reading, Busy, Over
<1>3. EntriesSoFar' /\ LooksSoFar'
  BY DEF EntriesSoFar, LooksSoFar, Reading, Done, Busy, Over
<1>4. /\ \A d \in Digests : StoredFor(d) \subseteq StoredFor(d)'
      /\ path \in StoredFor(digest)'
  BY DEF StoredFor, TypeOK
<1>5. BlobsSoFar'
  <2>1. /\ \A d \in Digests : blobs'[d] = IF d = digest THEN blob ELSE blobs[d]
        /\ blob # Absent /\ blob # Directory
    BY <1>0, Distinct DEF TypeOK
  <2>2. \A p \in Paths : entries'[p] \in Digests => blobs'[entries'[p]] # Absent
    BY <2>1 DEF BlobsSoFar
  <2>3. pc' = "copystat" => blobs'[digest'] # Absent
    BY <1>0, <2>1 DEF Digests
  <2>4. ASSUME NEW d \in Digests
        PROVE  /\ blobs'[d] \in {Link, Directory} => StoredFor(d)' \cap retyped' # {}
               /\ blobs'[d] \notin {Absent, d} => StoredFor(d)' \cap touched' # {}
    BY <1>4, <2>1 DEF BlobsSoFar
  <2> QED
    BY <2>2, <2>3, <2>4 DEF BlobsSoFar
<1> QED
  BY <1>1, <1>2, <1>3, <1>5

\* The copy of a file to its blob.
LEMMA CopyKeeps ==
  ASSUME CaptureInv, StartCopy \/ OpenToCopy \/ Copy \/ Copystat
  PROVE  CaptureInv'
<1> USE DEF CaptureInv
<1>0. retyped \subseteq touched
  BY DEF TypeOK
<1>1. CASE StartCopy
  <2>1. ASSUME tree[path] # Link, Look("copy", "copy_open"), UNCHANGED scanVars
        PROVE  CaptureInv'
    BY <2>1, LookKeeps DEF Look, LooksSoFar, Reading, Busy, Over, PCs
  <2>2. ASSUME Look("copy", "copystat"), tree[path] = Link,
               blobs' = [blobs EXCEPT ![digest] = Link],
               UNCHANGED <<unseen, todo, path, digest, copied, entries>>
        PROVE  CaptureInv'
    <3>1. path \in retyped
      BY <2>2, Distinct DEF LooksSoFar, Reading, Look
    <3> QED
      BY <1>0, <2>2, <3>1, StoreKeeps DEF Look
  <2>3. ASSUME tree[path] \in {Link, Special}, Raise("copy") PROVE CaptureInv'
    BY <2>3, RaiseKeeps, Distinct DEF LooksSoFar, Reading, Raise, Look
  <2> QED
    BY <1>1, <2>1, <2>2, <2>3 DEF StartCopy
<1>2. CASE OpenToCopy
  <2>1. ASSUME Look("copy_open", "copying"), copied' \in Opened,
               UNCHANGED <<unseen, todo, path, digest, entries, blobs>>
        PROVE  CaptureInv'
    <3> USE <2>1 DEF Look
    <3>0. /\ copied' \in Contents
          /\ path \notin retyped => tree[path] \in Contents
          /\ path \notin touched => copied' = tree[path]
      BY OpenedIsContent DEF LooksSoFar, TypeOK, Reading
    <3>1. TypeOK'
      BY <3>0 DEF TypeOK, PCs
    <3>2. LocalsOK' /\ Outcome'
      BY <3>0 DEF LocalsOK, Outcome, Reading, Busy, Over
    <3>3. EntriesSoFar' /\ LooksSoFar'
      BY <3>0 DEF EntriesSoFar, LooksSoFar, Reading, Done, Busy, Over
    <3>4. BlobsSoFar'
      BY BlobsStay
    <3> QED
      BY <3>1, <3>2, <3>3, <3>4
  <2>2. ASSUME tree[path] \notin Contents, Raise("copy_open") PROVE CaptureInv'
    BY <2>2, RaiseKeeps DEF LooksSoFar, Reading, Raise, Look
  <2> QED
    BY <1>2, <2>1, <2>2 DEF OpenToCopy
<1>3. ASSUME pc \in {"copying", "copystat"}, blobs[digest] = Link PROVE retyped # {}
  BY <1>3 DEF BlobsSoFar, LocalsOK, Reading, Digests
<1>4. CASE Copy
  <2>1. ASSUME Look("copying", "copystat"), NEW content \in RestOf(copied),
               blobs' = [blobs EXCEPT ![digest] = IF @ = Link THEN Link ELSE content],
               UNCHANGED <<unseen, todo, path, digest, copied, entries>>
        PROVE  CaptureInv'
    <3> DEFINE blob == IF blobs[digest] = Link THEN Link ELSE content
    <3>1. /\ pc = "copying" /\ copied \in Contents /\ digest \in Contents
      BY <2>1 DEF Look, LocalsOK, Reading
    <3>2. /\ content \in Contents
          /\ path \notin touched => content = digest
      BY <2>1, <3>1, RestIsContent DEF LooksSoFar, Reading
    <3>3. blobs' = [blobs EXCEPT ![digest] = blob]
      BY <2>1, <3>1 DEF TypeOK, Digests
    <3>4. blob = Link => blobs[digest] = Link
      BY <3>2, Distinct
    <3>5. blob # digest => StoredFor(digest) \cap touched # {} \/ path \in touched
      BY <3>1, <3>2, Distinct DEF BlobsSoFar, Digests
    <3>6. blob \in {Link} \cup Contents
      BY <3>2
    <3> HIDE DEF blob
    <3> QED
      BY <2>1, <3>1, <3>3, <3>4, <3>5, <3>6, StoreKeeps
  <2> QED
    BY <1>3, <1>4, <2>1, RaiseKeeps DEF Copy, Raise, Look
<1>5. CASE Copystat
  <2>1. pc = "copystat" /\ blobs[digest] # Absent
    BY <1>5 DEF Copystat, Record, Raise, Look, BlobsSoFar
  <2>2. path \notin retyped => tree[path] \in Contents
    BY <2>1 DEF LooksSoFar, Reading
  <2>3. ASSUME Raise("copystat"),
               tree[path] = Absent \/ (tree[path] = Link) # (blobs[digest] = Link)
        PROVE  CaptureInv'
    BY <1>3, <2>1, <2>2, <2>3, RaiseKeeps, Distinct
  <2> QED
    BY <1>5, <2>1, <2>3, FileKeeps DEF Copystat
<1> QED
  BY <1>1, <1>2, <1>4, <1>5

\* The manifest is written, the store published, the blobs checked.
LEMMA EndKeeps ==
  ASSUME CaptureInv, WriteManifest \/ Persist \/ Preflight
  PROVE  CaptureInv'
<1> USE DEF CaptureInv, Look
<1>1. /\ pc \in {"list", "captured", "published"} /\ pc' \in Over \ {"raised"}
      /\ UNCHANGED <<tree, touched, retyped, unseen, todo, path, digest, copied, entries>>
      /\ unseen = {} /\ todo = {}
  BY DEF WriteManifest, Persist, Preflight, Over, Outcome, scanVars
<1>2. \A d \in Digests : StoredFor(d)' = StoredFor(d)
  BY <1>1 DEF StoredFor, Over
<1>3. /\ \A d \in Digests : blobs'[d] \in Followed(blobs[d]) \/ blobs'[d] = blobs[d]
      /\ blobs' \in [Digests -> {Absent, Link, Directory} \cup Contents]
  BY DEF WriteManifest, Persist, Preflight, scanVars, TypeOK
<1>4. TypeOK'
  BY <1>1, <1>3 DEF TypeOK, PCs
<1>5. BlobsSoFar'
  <2>1. ASSUME NEW d \in Digests
        PROVE  /\ blobs'[d] = Absent => blobs[d] = Absent
               /\ blobs'[d] \in {Link, Directory} => StoredFor(d)' \cap retyped' # {}
               /\ blobs'[d] \notin {Absent, d} => StoredFor(d)' \cap touched' # {}
    <3>1. /\ blobs[d] \in {Link, Directory} => StoredFor(d) \cap retyped # {}
          /\ blobs[d] \notin {Absent, d} => StoredFor(d) \cap touched # {}
          /\ retyped \subseteq touched
      BY <1>1 DEF BlobsSoFar, TypeOK, Over
    <3>2. blobs'[d] # blobs[d] => blobs[d] = Link /\ blobs'[d] \in {Directory} \cup Contents
      BY <1>3 DEF Followed
    <3> QED
      BY <1>1, <1>2, <3>1, <3>2, Distinct
  <2> QED
    BY <1>1, <2>1 DEF BlobsSoFar, TypeOK, Over
<1>6. EntriesSoFar'
  BY <1>1 DEF EntriesSoFar, Over, Busy, Done
<1>7. LocalsOK' /\ LooksSoFar'
  BY <1>1 DEF LocalsOK, LooksSoFar, Over, Reading, Busy
<1>8. Outcome'
  <2>1. CASE WriteManifest
    BY <1>1, <2>1 DEF WriteManifest, Outcome, Over
  <2>2. CASE Persist
    <3>1. pc' = "published" => \A d \in Digests : blobs'[d] # Link
      BY <2>2, Distinct DEF Persist, TypeOK
    <3>2. pc' = "unpublished" => retyped # {}
      BY <1>1, <2>2 DEF Persist, BlobsSoFar
    <3> QED
      BY <1>1, <2>2, <3>1, <3>2 DEF Persist, Outcome, Over
  <2>3. CASE Preflight
    <3>1. touched = {} => \A p \in RecordedFiles : blobs[entries[p]] = entries[p]
      BY <2>3 DEF Preflight, BlobsSoFar, RecordedFiles
    <3> QED
      BY <1>1, <2>3, <3>1 DEF Preflight, Outcome, Over, RecordedFiles, scanVars
  <2> QED
    BY <2>1, <2>2, <2>3
<1> QED
  BY <1>4, <1>5, <1>6, <1>7, <1>8

LEMMA NextKeepsCaptureInv == CaptureInv /\ [Next]_vars => CaptureInv'
<1> SUFFICES ASSUME CaptureInv, [Next]_vars PROVE CaptureInv'
  OBVIOUS
<1>1. CASE UNCHANGED vars
  BY <1>1 DEF vars, scanVars, CaptureInv, TypeOK, LocalsOK, EntriesSoFar,
     LooksSoFar, BlobsSoFar, StoredFor, Outcome, Reading, Busy, Done, RecordedFiles
<1> QED
  BY <1>1, WriteKeeps, WalkKeeps, HashKeeps, CopyKeeps, EndKeeps DEF Next, Scan

THEOREM CaptureInvariance == Spec => []CaptureInv
  BY InitCaptureInv, NextKeepsCaptureInv, PTL DEF Spec

-----------------------------------------------------------------------------
(* The results.                                                            *)

\* Every variable of a capture keeps its type.
THEOREM CaptureTypeCorrect == Spec => []TypeOK
  BY CaptureInvariance, PTL DEF CaptureInv

\* Whatever changes around them, paths that stay are recorded as what they are.
THEOREM ManifestsTell == Spec => []ManifestTellsWhatStayed
<1>1. CaptureInv => ManifestTellsWhatStayed
  BY DEF CaptureInv, EntriesSoFar, Outcome, Captured, Over, Done, Busy,
     ManifestTellsWhatStayed
<1> QED
  BY <1>1, CaptureInvariance, PTL

\* A race spoils only the blob of the path it was about, and a path that stayed a
\* file leaves a file there (_copy_blob, and what copytree makes of it).
THEOREM DamageIsLocal == Spec => []SpoiltByItsOwn
<1>1. CaptureInv => SpoiltByItsOwn
  <2> SUFFICES ASSUME CaptureInv, pc \in {"published", "accepted", "refused"},
                      NEW p \in RecordedFiles
               PROVE  /\ Sharing(p) \cap retyped = {} => blobs[entries[p]] \in Contents
                      /\ Sharing(p) \cap touched = {} => blobs[entries[p]] = entries[p]
    BY DEF SpoiltByItsOwn
  <2>1. /\ p \in Paths /\ entries[p] \in Digests
        /\ blobs[entries[p]] \in {Link, Directory} \cup Contents
        /\ blobs[entries[p]] # Link
    BY DEF RecordedFiles, CaptureInv, TypeOK, BlobsSoFar, Outcome
  <2>2. StoredFor(entries[p]) = Sharing(p)
    BY <2>1 DEF StoredFor, Sharing, RecordedFiles
  <2> QED
    BY <2>1, <2>2, Distinct DEF CaptureInv, BlobsSoFar
<1> QED
  BY <1>1, CaptureInvariance, PTL

\* A file that is merely rewritten never fails a snapshot.
THEOREM RewritingIsHarmless == Spec => []RewritingNeverRaises
  BY CaptureInvariance, PTL DEF CaptureInv, Outcome, RewritingNeverRaises

\* An accepted undo has the true content of every file nobody touched.
THEOREM UntouchedComeBack == Spec => []UntouchedComesBack
<1>1. CaptureInv => UntouchedComesBack
  BY Distinct DEF CaptureInv, EntriesSoFar, Outcome, Over, Done, Busy, RecordedFiles,
     Digests, Recorded, UntouchedComesBack
<1> QED
  BY <1>1, CaptureInvariance, PTL

\* A snapshot of a tree at rest is taken, published and accepted.
THEOREM QuietScansAccepted == Spec => []QuietScanAccepted
<1>1. CaptureInv => QuietScanAccepted
  BY DEF CaptureInv, TypeOK, Outcome, QuietScanAccepted
<1> QED
  BY <1>1, CaptureInvariance, PTL
=============================================================================
