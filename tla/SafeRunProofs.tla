---------------------------- MODULE SafeRunProofs ----------------------------
(***************************************************************************)
(* Proofs about SafeRun, for any number of runs and undos.                 *)
(***************************************************************************)
EXTENDS SafeRun, TLAPS

USE DEF Snapshots, Places

\* A run that found no store has parked none, and no snapshot knows of one.
NothingParked ==
    \A r \in Runs : ~had[r] => parked[r] = None /\ \A i \in Snapshots : seen[i].parked[r] = None

\* Only a run that found a store parks it or takes it back; one that has not
\* looked yet has found none.
ParksWhatItFound ==
    \A r \in Runs : /\ pc[r] \in {"park", "unpark"} => had[r]
                    /\ pc[r] \in {"start", "command", "make", "fill", "check"} => ~had[r]

\* What stands at .saep while nobody has taken the store away is no litter.
NoLitter == safe => store # Other

Inv == TypeOK /\ NothingParked /\ ParksWhatItFound /\ NoLitter /\ StoreOrParked

Steps == RunSteps \cup {"undo"}

\* A step in the control of one run or undo.
LEMMA GoType ==
    ASSUME pc \in [Runs \cup Undos -> Steps], NEW x \in Runs \cup Undos,
           NEW to \in Steps, pc' = [pc EXCEPT ![x] = to]
    PROVE  pc' \in [Runs \cup Undos -> Steps]
OBVIOUS

\* One entry of the staged or the parked stores changes.
LEMMA PlaceType ==
    ASSUME NEW f \in [Runs -> Places], NEW r \in Runs, NEW c \in Places
    PROVE  [f EXCEPT ![r] = c] \in [Runs -> Places]
OBVIOUS

\* One step of a run or an undo keeps the types.
LEMMA TypeStep == ASSUME TypeOK, Next PROVE TypeOK'
<1> USE DEF TypeOK
<1>1. ASSUME NEW r \in Runs, Run(r) PROVE TypeOK'
  <2>1. pc' \in [Runs \cup Undos -> Steps]
    <3>1. pc' = pc \/ \E to \in Steps : pc' = [pc EXCEPT ![r] = to]
      BY <1>1 DEF Run, TakeSnapshot, Meddle, CommandEnds, MakeStaged, FillStaged, CheckStore,
                  Park, Publish, Unpark, Clean, Abort, Kill, Go, Steps, RunSteps
    <3> QED BY <3>1, GoType DEF Steps
  <2>2. staged' \in [Runs -> Places]
    <3>1. staged' = staged \/ \E c \in Places : staged' = [staged EXCEPT ![r] = c]
      BY <1>1 DEF Run, TakeSnapshot, Meddle, CommandEnds, MakeStaged, FillStaged, CheckStore,
                  Park, Publish, Unpark, Clean, Abort, Kill, Halfway
    <3> QED BY <3>1, PlaceType
  <2>3. parked' \in [Runs -> Places]
    <3>1. parked' = parked \/ \E c \in Places : parked' = [parked EXCEPT ![r] = c]
      BY <1>1 DEF Run, TakeSnapshot, Meddle, CommandEnds, MakeStaged, FillStaged, CheckStore,
                  Park, Publish, Unpark, Clean, Abort, Kill, Halfway
    <3> QED BY <3>1, PlaceType
  <2>4. store' \in Places
    BY <1>1 DEF Run, TakeSnapshot, Meddle, CommandEnds, MakeStaged, FillStaged, CheckStore,
                Park, Publish, Unpark, Clean, Abort, Kill
  <2>8. safe' \in BOOLEAN
    <3>1. CASE safe' = safe BY <3>1
    <3>2. CASE Meddle(r) BY <3>2 DEF Meddle
    <3>3. CASE safe' = (staged[r] \in Snapshots) BY <3>3
    <3>4. CASE safe' = (safe /\ parked[r] \in Snapshots) BY <3>4
    <3> QED BY <1>1, <3>1, <3>2, <3>3, <3>4 DEF Run, TakeSnapshot, CommandEnds, MakeStaged,
               FillStaged, CheckStore, Park, Publish, Unpark, Clean, Abort, Kill
  <2>5. had' \in [Runs -> BOOLEAN]
    BY <1>1 DEF Run, TakeSnapshot, Meddle, CommandEnds, MakeStaged, FillStaged, CheckStore,
                Park, Publish, Unpark, Clean, Abort, Kill, Rest
  <2>6. seen' \in [Snapshots -> Sides]
    <3>1. seen' = seen \/ seen' = [seen EXCEPT ![r] = [staged |-> staged, parked |-> parked]]
      BY <1>1 DEF Run, TakeSnapshot, Meddle, CommandEnds, MakeStaged, FillStaged, CheckStore,
                  Park, Publish, Unpark, Clean, Abort, Kill, Rest
    <3>2. [staged |-> staged, parked |-> parked] \in Sides BY DEF Sides
    <3> QED BY <3>1, <3>2
  <2>7. todo' = todo /\ undoing' = undoing
    BY <1>1 DEF Run, TakeSnapshot, Meddle, CommandEnds, MakeStaged, FillStaged, CheckStore,
                Park, Publish, Unpark, Clean, Abort, Kill, Rest
  <2> QED BY <2>1, <2>2, <2>3, <2>4, <2>5, <2>6, <2>7, <2>8 DEF Steps
<1>2. ASSUME NEW u \in Undos, Undo(u) PROVE TypeOK'
  <2>1. CASE Load(u) \/ UndoEnds(u)
    <3>1. pc' \in [Runs \cup Undos -> Steps] BY <2>1, GoType DEF Load, UndoEnds, Go, Steps, RunSteps
    <3>2. undoing' \in [Undos -> Snapshots] /\ todo' \in [Undos -> SUBSET Runs]
      BY <2>1 DEF Load, UndoEnds, Rest
    <3> QED BY <2>1, <3>1, <3>2 DEF Load, UndoEnds, Rest, Steps
  <2>2. ASSUME NEW r \in Runs, RestoreSide(u, r) PROVE TypeOK'
    <3>1. seen[undoing[u]].staged[r] \in Places /\ seen[undoing[u]].parked[r] \in Places
      BY DEF Sides
    <3>2. staged' \in [Runs -> Places] /\ parked' \in [Runs -> Places]
      BY <2>2, <3>1, PlaceType DEF RestoreSide, Halfway
    <3> QED BY <2>2, <3>2 DEF RestoreSide
  <2> QED BY <1>2, <2>1, <2>2 DEF Undo
<1> QED BY <1>1, <1>2 DEF Next

\* A run touches no parked store but its own, and that one only after it has
\* found a store to park.
LEMMA OwnParked ==
    ASSUME Inv, NEW r \in Runs, Run(r), NEW s \in Runs
    PROVE  parked'[s] = parked[s] \/ (s = r /\ had[r] /\ had' = had)
<1>1. CASE Park(r) BY <1>1 DEF Park, Go, Rest, Inv, TypeOK, ParksWhatItFound
<1>2. CASE Unpark(r) BY <1>2 DEF Unpark, Go, Rest, Inv, TypeOK, ParksWhatItFound
<1>3. CASE Clean(r)
  <2>1. CASE had[r] BY <1>3, <2>1 DEF Clean, Rest, Inv, TypeOK
  <2>2. CASE ~had[r]
    <3>1. parked[r] = None BY <2>2 DEF Inv, NothingParked
    <3> QED BY <1>3, <3>1 DEF Clean, Halfway, Inv, TypeOK
  <2> QED BY <2>1, <2>2
<1>4. CASE parked' = parked BY <1>4
<1> QED BY <1>1, <1>2, <1>3, <1>4 DEF Run, TakeSnapshot, Meddle, CommandEnds, MakeStaged,
           FillStaged, CheckStore, Publish, Abort, Kill

\* What a step does to the other runs' control: nothing.
LEMMA OwnControl ==
    ASSUME TypeOK, NEW x \in Runs \cup Undos, NEW to, pc' = [pc EXCEPT ![x] = to]
    PROVE  pc'[x] = to /\ \A y \in Runs \ {x} : pc'[y] = pc[y]
BY DEF TypeOK

LEMMA RunKeepsNothingParked == ASSUME Inv, NEW r \in Runs, Run(r) PROVE NothingParked'
<1> SUFFICES ASSUME NEW s \in Runs, ~had'[s]
             PROVE  parked'[s] = None /\ \A i \in Snapshots : seen'[i].parked[s] = None
  BY DEF NothingParked
<1>1. ~had[s]
  <2>1. CASE had' = had BY <2>1
  <2>2. CASE CheckStore(r) BY <2>2 DEF CheckStore, Go, Inv, TypeOK, ParksWhatItFound
  <2> QED BY <2>1, <2>2 DEF Run, TakeSnapshot, Meddle, CommandEnds, MakeStaged, FillStaged,
             Park, Publish, Unpark, Clean, Abort, Kill, Rest
<1>2. parked[s] = None /\ \A i \in Snapshots : seen[i].parked[s] = None
  BY <1>1 DEF Inv, NothingParked
<1>3. parked'[s] = None BY <1>1, <1>2, OwnParked
<1>4. seen' = seen \/ seen' = [seen EXCEPT ![r] = [staged |-> staged, parked |-> parked]]
  BY DEF Run, TakeSnapshot, Meddle, CommandEnds, MakeStaged, FillStaged, CheckStore, Park,
         Publish, Unpark, Clean, Abort, Kill, Rest
<1>5. \A i \in Snapshots : seen'[i].parked[s] = None BY <1>2, <1>4 DEF Inv, TypeOK
<1> QED BY <1>3, <1>5

LEMMA RunKeepsWhatItFound == ASSUME Inv, NEW r \in Runs, Run(r) PROVE ParksWhatItFound'
<1> USE DEF Inv, TypeOK, ParksWhatItFound
<1>1. CASE CheckStore(r) BY <1>1 DEF CheckStore, Go
<1>2. CASE Publish(r) BY <1>2 DEF Publish, Go, Rest
<1>3. CASE had' = had /\ pc' = pc BY <1>3
<1>4. CASE /\ had' = had
           /\ \E to \in {"abort", "stranded", "failed", "clean", "returned", "killed"} :
                 pc' = [pc EXCEPT ![r] = to]
  BY <1>4
<1>5. CASE TakeSnapshot(r) \/ CommandEnds(r) \/ MakeStaged(r) \/ FillStaged(r)
  BY <1>5 DEF TakeSnapshot, CommandEnds, MakeStaged, FillStaged, Go, Rest
<1>6. CASE Park(r) BY <1>6 DEF Park, Go, Rest
<1>7. CASE Unpark(r) \/ Clean(r) \/ Abort(r) \/ Kill(r)
  BY <1>4, <1>7 DEF Unpark, Clean, Abort, Kill, Go, Rest
<1>8. CASE Meddle(r) BY <1>3, <1>8 DEF Meddle, Rest
<1> QED BY <1>1, <1>2, <1>5, <1>6, <1>7, <1>8 DEF Run

LEMMA RunKeepsNoLitter == ASSUME Inv, NEW r \in Runs, Run(r) PROVE NoLitter'
<1> USE DEF Inv, NoLitter
<1>1. CASE UNCHANGED <<store, safe>> BY <1>1
<1>2. CASE Meddle(r) BY <1>2 DEF Meddle
<1>3. CASE Park(r) BY <1>3, SafeRunAssumption DEF Park
<1>4. CASE Publish(r) BY <1>1, <1>4, SafeRunAssumption DEF Publish
<1>5. CASE Unpark(r) BY <1>1, <1>5, SafeRunAssumption DEF Unpark
<1> QED BY <1>1, <1>2, <1>3, <1>4, <1>5 DEF Run, TakeSnapshot, CommandEnds, MakeStaged,
           FillStaged, CheckStore, Clean, Abort, Kill

\* A step that leaves the store alone, and of the runs that may have it parked
\* none but r, whose own parked store it keeps within the window.
LEMMA WindowStays ==
    ASSUME StoreOrParked, store' = store, safe' => safe,
           \A s \in Runs : pc[s] \in Window /\ parked[s] \in Snapshots
                              => pc'[s] \in Window /\ parked'[s] = parked[s]
    PROVE  StoreOrParked'
BY DEF StoreOrParked

LEMMA RunKeepsStore == ASSUME Inv, NEW r \in Runs, Run(r) PROVE StoreOrParked'
<1> USE SafeRunAssumption
<1>0. TypeOK /\ StoreOrParked /\ NoLitter /\ NothingParked BY DEF Inv
<1>1. CASE TakeSnapshot(r) \/ CommandEnds(r) \/ MakeStaged(r) \/ FillStaged(r) \/ CheckStore(r)
  <2>1. pc[r] \notin Window /\ store' = store /\ safe' = safe /\ parked' = parked
    BY <1>1 DEF TakeSnapshot, CommandEnds, MakeStaged, FillStaged, CheckStore, Go, Window
  <2>2. \E to : pc' = [pc EXCEPT ![r] = to]
    BY <1>1 DEF TakeSnapshot, CommandEnds, MakeStaged, FillStaged, CheckStore, Go
  <2>3. \A s \in Runs \ {r} : pc'[s] = pc[s] BY <1>0, <2>2, OwnControl
  <2> QED BY <1>0, <2>1, <2>3, WindowStays
<1>2. CASE Meddle(r) BY <1>2 DEF Meddle, StoreOrParked
<1>3. CASE Park(r)
  <2>1. \A s \in Runs \ {r} : pc'[s] = pc[s] /\ parked'[s] = parked[s]
    BY <1>0, <1>3, OwnControl DEF Park, Go, TypeOK
  <2>2. CASE UNCHANGED <<store, parked>>
    <3>1. pc[r] \notin Window /\ store' = store /\ safe' = safe
      BY <1>0, <1>3, <2>2 DEF Park, Go, Window, TypeOK
    <3> QED BY <1>0, <2>1, <2>2, <3>1, WindowStays
  <2>3. CASE parked' = [parked EXCEPT ![r] = store] /\ pc' = [pc EXCEPT ![r] = "publish"]
    <3>1. parked'[r] = store /\ pc'[r] \in Window BY <1>0, <2>3 DEF TypeOK, Window
    <3>2. pc[r] \notin Window /\ safe' = safe BY <1>3 DEF Park, Go, Window
    <3> QED BY <1>0, <2>1, <3>1, <3>2 DEF StoreOrParked
  <2> QED BY <1>3, <2>2, <2>3 DEF Park, Go
<1>4. CASE Publish(r)
  <2>2. CASE safe' = (staged[r] \in Snapshots) /\ store' = staged[r] BY <2>2 DEF StoreOrParked
  <2>3. CASE pc' = [pc EXCEPT ![r] = IF had[r] THEN "unpark" ELSE "abort"]
             /\ UNCHANGED <<store, safe>>
    <3>1. parked' = parked BY <1>4 DEF Publish
    <3>2. pc'[r] \in Window \/ parked[r] = None
      BY <1>0, <2>3, OwnControl DEF Window, NothingParked
    <3>3. \A s \in Runs \ {r} : pc'[s] = pc[s] BY <1>0, <2>3, OwnControl
    <3> QED BY <1>0, <2>3, <3>1, <3>2, <3>3, WindowStays
  <2> QED BY <1>4, <2>2, <2>3 DEF Publish, Go
<1>5. CASE Unpark(r)
  <2>1. CASE safe' = (safe /\ parked[r] \in Snapshots) /\ store' = parked[r]
    BY <2>1 DEF StoreOrParked
  <2>2. CASE pc' = [pc EXCEPT ![r] = IF store = None THEN "stranded" ELSE "abort"]
             /\ UNCHANGED <<store, parked, safe>>
    <3>1. \A s \in Runs \ {r} : pc'[s] = pc[s] BY <1>0, <2>2, OwnControl
    <3>2. CASE store = None
      <4>1. pc'[r] \in Window BY <1>0, <2>2, <3>2, OwnControl DEF Window
      <4> QED BY <1>0, <2>2, <3>1, <4>1, WindowStays
    <3>3. CASE store # None BY <1>0, <2>2, <3>3 DEF StoreOrParked, NoLitter, TypeOK
    <3> QED BY <3>2, <3>3
  <2> QED BY <1>5, <2>1, <2>2 DEF Unpark, Go
<1>6. CASE Clean(r) \/ Abort(r) \/ Kill(r)
  <2>1. store' = store /\ safe' = safe BY <1>6 DEF Clean, Abort, Kill
  <2>2. \A s \in Runs \ {r} : pc'[s] = pc[s] /\ parked'[s] = parked[s]
    BY <1>0, <1>6, OwnControl DEF Clean, Abort, Kill, Go, TypeOK
  <2>3. pc[r] \in Window => pc'[r] \in Window /\ parked' = parked
    BY <1>0, <1>6, OwnControl DEF Clean, Abort, Kill, Go, Window
  <2> QED BY <1>0, <2>1, <2>2, <2>3, WindowStays
<1> QED BY <1>1, <1>2, <1>3, <1>4, <1>5, <1>6 DEF Run

\* An undo puts back what a snapshot knew of the runs' stores.
LEMMA UndoStep ==
    ASSUME Inv, NEW u \in Undos, Undo(u)
    PROVE  NothingParked' /\ ParksWhatItFound' /\ NoLitter' /\ StoreOrParked'
<1>0. TypeOK /\ StoreOrParked /\ NoLitter /\ NothingParked /\ ParksWhatItFound BY DEF Inv
<1>1. CASE Load(u) \/ UndoEnds(u)
  <2>1. UNCHANGED <<store, parked, had, seen, safe>> BY <1>1 DEF Load, UndoEnds, Rest
  <2>2. \A s \in Runs : pc'[s] = pc[s]
    BY <1>0, <1>1, OwnControl, SafeRunAssumption DEF Load, UndoEnds, Go, TypeOK
  <2> QED BY <1>0, <2>1, <2>2 DEF NothingParked, ParksWhatItFound, NoLitter, StoreOrParked
<1>2. ASSUME NEW r \in Runs, RestoreSide(u, r)
      PROVE  NothingParked' /\ ParksWhatItFound' /\ NoLitter' /\ StoreOrParked'
  <2>1. UNCHANGED <<store, had, pc, seen>> /\ (safe' => safe) BY <1>2 DEF RestoreSide
  <2>2. undoing[u] \in Snapshots BY <1>0 DEF TypeOK
  <2>3. /\ parked'[r] \in Halfway(parked[r], seen[undoing[u]].parked[r])
        /\ \A s \in Runs \ {r} : parked'[s] = parked[s]
    BY <1>0, <1>2 DEF RestoreSide, TypeOK
  <2>4. NothingParked' BY <1>0, <2>1, <2>2, <2>3 DEF NothingParked, Halfway
  <2>5. ParksWhatItFound' /\ NoLitter' BY <1>0, <2>1 DEF ParksWhatItFound, NoLitter
  <2>6. StoreOrParked'
    <3>1. CASE parked' = parked \/ pc[r] \notin Window
      <4>1. \A s \in Runs : pc[s] \in Window => parked'[s] = parked[s] BY <2>3, <3>1
      <4> QED BY <1>0, <2>1, <4>1, WindowStays
    <3>2. CASE safe' = FALSE BY <3>2 DEF StoreOrParked
    <3> QED BY <1>2, <3>1, <3>2 DEF RestoreSide
  <2> QED BY <2>4, <2>5, <2>6
<1> QED BY <1>1, <1>2 DEF Undo

\* The inductive invariant.
THEOREM Invariance == Spec => []Inv
<1>1. Init => Inv
  <2> SUFFICES ASSUME Init PROVE Inv OBVIOUS
  <2>1. TypeOK BY DEF Init, TypeOK, Sides, RunSteps, Nothing
  <2>2. NothingParked BY DEF Init, Nothing, NothingParked
  <2>3. ParksWhatItFound BY DEF Init, ParksWhatItFound
  <2>4. NoLitter /\ StoreOrParked BY SafeRunAssumption DEF Init, NoLitter, StoreOrParked
  <2> QED BY <2>1, <2>2, <2>3, <2>4 DEF Inv
<1>2. Inv /\ [Next]_vars => Inv'
  <2>1. ASSUME Inv, Next PROVE Inv'
    <3>1. TypeOK' BY <2>1, TypeStep DEF Inv
    <3>2. CASE \E r \in Runs : Run(r)
      BY <2>1, <3>1, <3>2, RunKeepsNothingParked, RunKeepsWhatItFound, RunKeepsNoLitter,
         RunKeepsStore DEF Inv
    <3>3. CASE \E u \in Undos : Undo(u) BY <2>1, <3>1, <3>3, UndoStep DEF Inv
    <3> QED BY <2>1, <3>2, <3>3 DEF Next
  <2>2. ASSUME Inv, UNCHANGED vars PROVE Inv'
    BY <2>2 DEF vars, Inv, TypeOK, NothingParked, ParksWhatItFound, NoLitter, StoreOrParked
  <2> QED BY <2>1, <2>2
<1> QED BY <1>1, <1>2, PTL DEF Spec

\* The variables keep their types.
THEOREM TypeCorrect == Spec => []TypeOK
<1>1. Inv => TypeOK BY DEF Inv
<1> QED BY <1>1, Invariance, PTL

\* Whatever runs and undos overlap, fail or are killed, there is a snapshot to
\* undo to at .saep or, between the renames of safe_run.py:90-95, beside it.
THEOREM SnapshotSurvives == Spec => []StoreOrParked
<1>1. Inv => StoreOrParked BY DEF Inv
<1> QED BY <1>1, Invariance, PTL

\* A rename never puts a store over another one.
THEOREM StoresGiveWay == Spec => NeverOverwritten
<1>1. ASSUME TypeOK, [Next]_vars, store \in Snapshots, store' # store, safe'
      PROVE  \E r \in Runs : parked'[r] = store
  <2>1. PICK r \in Runs : Run(r)
    BY <1>1 DEF Next, vars, Undo, Load, RestoreSide, UndoEnds
  <2>2. Park(r)
    BY <1>1, <2>1, SafeRunAssumption DEF Run, TakeSnapshot, Meddle, CommandEnds, MakeStaged,
       FillStaged, CheckStore, Publish, Unpark, Clean, Abort, Kill
  <2> QED BY <1>1, <2>2 DEF Park, TypeOK
<1>2. TypeOK /\ [Next]_vars =>
        [(store \in Snapshots /\ store' # store /\ safe') => (\E r \in Runs : parked'[r] = store)]_vars
  BY <1>1
<1> QED BY <1>2, TypeCorrect, PTL DEF Spec, NeverOverwritten

-----------------------------------------------------------------------------
(* A snapshot is not to be had before its command has ended.               *)

\* The steps of a run that has no whole store of its own yet.
Unborn == {"start", "command", "make", "fill"}

\* The snapshot of r is nowhere: neither in a place, nor in what a snapshot knows
\* of the places, nor with an undo.
Unknown(r) ==
    /\ store # r
    /\ \A s \in Runs : staged[s] # r /\ parked[s] # r
    /\ \A i \in Snapshots, s \in Runs : seen[i].staged[s] # r /\ seen[i].parked[s] # r
    /\ \A u \in Undos : undoing[u] # r

UnbornUnknown == \A r \in Runs : pc[r] \in Unborn => Unknown(r)

\* A run stages nothing but its own snapshot, and nothing else is put back there.
StagesItsOwn ==
    \A r \in Runs : /\ staged[r] \in {None, Other, r}
                    /\ \A i \in Snapshots : seen[i].staged[r] \in {None, Other, r}

\* Nobody goes back to the steps before.
LEMMA UnbornBefore ==
    ASSUME TypeOK, NEW r \in Runs, Run(r), NEW s \in Runs, pc'[s] \in Unborn
    PROVE  pc[s] \in Unborn
<1>1. pc' = pc \/ \E to : pc' = [pc EXCEPT ![r] = to]
  BY DEF Run, TakeSnapshot, Meddle, CommandEnds, MakeStaged, FillStaged, CheckStore, Park,
         Publish, Unpark, Clean, Abort, Kill, Go
<1>2. CASE pc' = pc \/ s # r BY <1>1, <1>2 DEF TypeOK
<1>3. CASE TakeSnapshot(r) \/ CommandEnds(r) \/ MakeStaged(r) \/ FillStaged(r)
  BY <1>2, <1>3 DEF TakeSnapshot, CommandEnds, MakeStaged, FillStaged, Go, Unborn
<1>4. CASE s = r /\ (CheckStore(r) \/ Park(r) \/ Publish(r) \/ Unpark(r) \/ Clean(r) \/ Abort(r) \/ Kill(r))
  <2>1. \E to \in RunSteps \ Unborn : pc' = [pc EXCEPT ![r] = to]
    BY <1>4 DEF CheckStore, Park, Publish, Unpark, Clean, Abort, Kill, Go, RunSteps, Unborn
  <2> QED BY <1>4, <2>1, OwnControl
<1> QED BY <1>2, <1>3, <1>4 DEF Run, Meddle

\* A step takes what it puts somewhere from somewhere else; only filling its
\* staged store does a run bring its snapshot in.
LEMMA RunMovesStores ==
    ASSUME TypeOK, NEW r \in Runs, Run(r)
    PROVE  /\ store' \in {store, staged[r], parked[r], None, Other}
           /\ \A s \in Runs : staged'[s] \in {staged[s], None, Other}
                              \/ (s = r /\ staged'[s] = r /\ pc[r] = "fill" /\ pc'[r] = "check")
           /\ \A s \in Runs : parked'[s] \in {parked[s], store, None, Other}
           /\ seen' = seen \/ seen' = [seen EXCEPT ![r] = [staged |-> staged, parked |-> parked]]
           /\ undoing' = undoing
<1> USE DEF TypeOK
<1>1. store' \in {store, staged[r], parked[r], None, Other}
  BY DEF Run, TakeSnapshot, Meddle, CommandEnds, MakeStaged, FillStaged, CheckStore, Park,
         Publish, Unpark, Clean, Abort, Kill
<1>2. ASSUME NEW s \in Runs
      PROVE  staged'[s] \in {staged[s], None, Other}
             \/ (s = r /\ staged'[s] = r /\ pc[r] = "fill" /\ pc'[r] = "check")
  <2>1. CASE FillStaged(r) BY <2>1 DEF FillStaged, Go
  <2>2. CASE MakeStaged(r) BY <2>2 DEF MakeStaged
  <2>3. CASE Publish(r) BY <2>3 DEF Publish
  <2>4. CASE Abort(r) BY <2>4 DEF Abort, Halfway
  <2> QED BY <2>1, <2>2, <2>3, <2>4 DEF Run, TakeSnapshot, Meddle, CommandEnds, CheckStore, Park,
             Unpark, Clean, Kill
<1>3. ASSUME NEW s \in Runs PROVE parked'[s] \in {parked[s], store, None, Other}
  BY DEF Run, TakeSnapshot, Meddle, CommandEnds, MakeStaged, FillStaged, CheckStore, Park,
         Publish, Unpark, Clean, Abort, Kill, Halfway
<1>4. /\ seen' = seen \/ seen' = [seen EXCEPT ![r] = [staged |-> staged, parked |-> parked]]
      /\ undoing' = undoing
  BY DEF Run, TakeSnapshot, Meddle, CommandEnds, MakeStaged, FillStaged, CheckStore, Park,
         Publish, Unpark, Clean, Abort, Kill, Rest
<1> QED BY <1>1, <1>2, <1>3, <1>4

LEMMA RunKeepsUnknown ==
    ASSUME TypeOK, UnbornUnknown, StagesItsOwn, NEW r \in Runs, Run(r)
    PROVE  UnbornUnknown' /\ StagesItsOwn'
<1>1. StagesItsOwn' BY RunMovesStores DEF StagesItsOwn, TypeOK
<1>2. ASSUME NEW s \in Runs, pc'[s] \in Unborn PROVE Unknown(s)'
  <2>1. Unknown(s) BY <1>2, UnbornBefore DEF UnbornUnknown
  <2>2. s # None /\ s # Other BY SafeRunAssumption
  <2>3. \A x \in Runs : staged'[x] # s
    BY <1>2, <2>1, <2>2, RunMovesStores DEF Unknown, Unborn
  <2>4. store' # s /\ \A x \in Runs : parked'[x] # s
    BY <2>1, <2>2, RunMovesStores DEF Unknown
  <2>5. \A i \in Snapshots, x \in Runs : seen'[i].staged[x] # s /\ seen'[i].parked[x] # s
    BY <2>1, RunMovesStores DEF Unknown, TypeOK
  <2>6. \A u \in Undos : undoing'[u] # s BY <2>1, RunMovesStores DEF Unknown
  <2> QED BY <2>3, <2>4, <2>5, <2>6 DEF Unknown
<1> QED BY <1>1, <1>2 DEF UnbornUnknown

\* An undo loads what is at .saep and puts back what a snapshot knew.
LEMMA UndoKeepsUnknown ==
    ASSUME TypeOK, UnbornUnknown, StagesItsOwn, NEW u \in Undos, Undo(u)
    PROVE  UnbornUnknown' /\ StagesItsOwn'
<1>1. \A s \in Runs : pc'[s] = pc[s]
  BY OwnControl, SafeRunAssumption DEF Undo, Load, RestoreSide, UndoEnds, Go, TypeOK
<1>2. store' = store /\ seen' = seen BY DEF Undo, Load, RestoreSide, UndoEnds, Rest
<1>3. \A v \in Undos : undoing'[v] \in {undoing[v], store, Old}
  BY DEF Undo, Load, RestoreSide, UndoEnds, TypeOK
<1>4. undoing[u] \in Snapshots BY DEF TypeOK
<1>5. \A s \in Runs : staged'[s] \in {staged[s], seen[undoing[u]].staged[s], Other}
  BY DEF Undo, Load, RestoreSide, UndoEnds, Halfway, TypeOK
<1>6. \A s \in Runs : parked'[s] \in {parked[s], seen[undoing[u]].parked[s], Other}
  BY DEF Undo, Load, RestoreSide, UndoEnds, Halfway, TypeOK
<1>7. StagesItsOwn' BY <1>2, <1>4, <1>5 DEF StagesItsOwn
<1>8. ASSUME NEW s \in Runs, pc'[s] \in Unborn PROVE Unknown(s)'
  <2>1. Unknown(s) BY <1>1, <1>8 DEF UnbornUnknown
  <2>2. s # Old /\ s # Other BY SafeRunAssumption
  <2> QED BY <1>2, <1>3, <1>4, <1>5, <1>6, <2>1, <2>2 DEF Unknown
<1> QED BY <1>7, <1>8 DEF UnbornUnknown

LEMMA UnbornStayUnknown == Spec => [](TypeOK /\ UnbornUnknown /\ StagesItsOwn)
<1>1. Init => UnbornUnknown /\ StagesItsOwn
  BY SafeRunAssumption DEF Init, Nothing, UnbornUnknown, Unknown, StagesItsOwn
<1>2. TypeOK /\ UnbornUnknown /\ StagesItsOwn /\ [Next]_vars => UnbornUnknown' /\ StagesItsOwn'
  <2> SUFFICES ASSUME TypeOK, UnbornUnknown, StagesItsOwn, [Next]_vars
               PROVE  UnbornUnknown' /\ StagesItsOwn'
    OBVIOUS
  <2>1. CASE Next BY <2>1, RunKeepsUnknown, UndoKeepsUnknown DEF Next
  <2>2. CASE UNCHANGED vars
    BY <2>2 DEF vars, UnbornUnknown, Unknown, StagesItsOwn
  <2> QED BY <2>1, <2>2
<1> QED BY <1>1, <1>2, TypeCorrect, PTL DEF Spec

\* What an undo works from is never the snapshot of a command that safe-run is
\* still waiting for.
UndoesWhatHasEnded == \A u \in Undos, r \in Runs : undoing[u] = r => pc[r] \notin Unborn

\* However runs overlap, an undo beside them does not take back a command that
\* has yet to end: its snapshot is published only after it (safe_run.py:114-115).
THEOREM UndosAwaitCommands == Spec => []UndoesWhatHasEnded
<1>1. UnbornUnknown => UndoesWhatHasEnded BY DEF UnbornUnknown, Unknown, UndoesWhatHasEnded
<1> QED BY <1>1, UnbornStayUnknown, PTL

\* A snapshot comes up at .saep by its own run's publication, or it has been there
\* before and is put back by the run that parked it.
PutUpOrBack ==
    [][\A r \in Runs : store' = r /\ store # r =>
          \/ pc[r] = "publish" /\ staged[r] = r
          \/ \E s \in Runs : pc[s] = "unpark" /\ parked[s] = r]_vars

\* No run publishes a snapshot of another's, whatever undos do to what is staged.
THEOREM RunsPublishTheirOwn == Spec => PutUpOrBack
<1>1. ASSUME TypeOK, StagesItsOwn, [Next]_vars, NEW r \in Runs, store' = r, store # r
      PROVE  \/ pc[r] = "publish" /\ staged[r] = r
             \/ \E s \in Runs : pc[s] = "unpark" /\ parked[s] = r
  <2>1. PICK s \in Runs : Run(s)
    BY <1>1 DEF Next, vars, Undo, Load, RestoreSide, UndoEnds
  <2>2. CASE Publish(s)
    <3>1. store' = staged[s] /\ pc[s] = "publish" BY <1>1, <2>2 DEF Publish, Go
    <3>2. s = r BY <1>1, <3>1, SafeRunAssumption DEF StagesItsOwn
    <3> QED BY <1>1, <3>1, <3>2
  <2>3. CASE Unpark(s) BY <1>1, <2>3 DEF Unpark, Go
  <2> QED BY <1>1, <2>1, <2>2, <2>3, SafeRunAssumption DEF Run, TakeSnapshot, Meddle, CommandEnds,
             MakeStaged, FillStaged, CheckStore, Park, Clean, Abort, Kill
<1>2. TypeOK /\ StagesItsOwn /\ [Next]_vars =>
        [\A r \in Runs : store' = r /\ store # r =>
            \/ pc[r] = "publish" /\ staged[r] = r
            \/ \E s \in Runs : pc[s] = "unpark" /\ parked[s] = r]_vars
  BY <1>1
<1> QED BY <1>2, UnbornStayUnknown, PTL DEF Spec, PutUpOrBack
=============================================================================
