----------------------- MODULE RunOrchestratorProofs -----------------------
(***************************************************************************)
(* Suite runs and their checkpoints (RunOrchestrator, CheckpointStore), for *)
(* any number of runs that overlap, die and resume each other's            *)
(* checkpoints, and any suite: nothing that a checkpoint counts is without *)
(* its result, no case is lost, green means clean, and a failed checkpoint *)
(* is kept until the suite was green.                                      *)
(***************************************************************************)
EXTENDS RunOrchestrator, TLAPS

(* An experiment's hash is what its checkpoint, its results and every run  *)
(* on it share; a result is what the scorer makes of that hash's inputs.   *)
VerdictInv ==
  \A id \in Ids, k \in Cases : verdict[id][k] # None =>
    experiment[id] # None /\ verdict[id][k] = Judge(experiment[id].hash, k)

(* What a run knows of its experiment.                                     *)
Knows(in) ==
  /\ experiment[in.id] # None /\ in.hash = experiment[in.id].hash
  /\ in.completed \cup in.pending = scope[in.id] /\ in.completed \cap in.pending = {}
  /\ in.work \subseteq in.pending
  /\ \A k \in in.completed : verdict[in.id][k] # None
  /\ \A k \in in.passed : Judge(in.hash, k).pass
RunInv == \A r \in Runners : run[r] # None => Knows(run[r])

(* What a checkpoint says of its experiment.                               *)
Clean(p) ==
  p.status = "completed" =>
    p.pending = {} /\ p.completed # {} /\ \A k \in p.completed : Judge(p.hash, k).pass
Holds(id, p) ==
  /\ experiment[id] # None /\ p.hash = experiment[id].hash
  /\ p.completed \cup p.pending = scope[id] /\ p.completed \cap p.pending = {}
  /\ \A k \in p.completed : verdict[id][k] # None
  /\ Clean(p)
PayloadInv == \A id \in Ids : payload[id] # None => Holds(id, payload[id])

(* Whatever says "completed" was completed, and what is doomed may go.     *)
GreenInv ==
  /\ \A id \in Ids : payload[id] # None /\ payload[id].status = "completed" => id \in greened
  /\ \A id \in Ids : row[id] # None /\ row[id].status = "completed" => id \in greened
  /\ \A r \in Runners : run[r] # None =>
       /\ run[r].at \in {"first row", "save row", "fail row"} => run[r].status # "completed"
       /\ run[r].at = "final row" /\ run[r].status = "completed" => run[r].id \in greened
       /\ run[r].at \in {"unlink", "unlink row"} =>
            \A id \in run[r].doomed : greened # {} \/ id \in reclaimed

Inv == TypeOK /\ VerdictInv /\ RunInv /\ PayloadInv /\ GreenInv
-----------------------------------------------------------------------------
(* What a move leaves alone.                                               *)
Alike(a, b) ==
  /\ a.id = b.id /\ a.hash = b.hash /\ a.started = b.started /\ a.work = b.work
  /\ a.completed = b.completed /\ a.pending = b.pending /\ a.passed = b.passed

(* The record of a run after a move, by what the move sets.                *)
ToPlace(w, place)                  == [w EXCEPT !.at = place]
ToStatus(w, place, status)         == [w EXCEPT !.at = place, !.status = status]
ToDoomed(w, place, doomed)         == [w EXCEPT !.at = place, !.doomed = doomed]
ToVictim(w, doomed, victim)        == [w EXCEPT !.at = "unlink row", !.victim = victim, !.doomed = doomed]

LEMMA MovedAt ==
  ASSUME NEW w \in Run, NEW place \in Places
  PROVE  LET to == ToPlace(w, place) IN
         /\ to \in Run /\ Alike(w, to) /\ to.at = place
         /\ to.status = w.status /\ to.doomed = w.doomed /\ to.victim = w.victim
<1> DEFINE to == ToPlace(w, place)
<1>1. to \in Run BY DEF Run, ToPlace
<1>2. Alike(w, to) BY DEF Run, Alike, ToPlace
<1>3. to.at = place /\ to.status = w.status /\ to.doomed = w.doomed /\ to.victim = w.victim
  BY DEF Run, ToPlace
<1> QED BY <1>1, <1>2, <1>3

LEMMA MovedStatus ==
  ASSUME NEW w \in Run, NEW place \in Places, NEW status \in Statuses
  PROVE  LET to == ToStatus(w, place, status) IN
         to \in Run /\ Alike(w, to) /\ to.at = place /\ to.status = status
<1> DEFINE to == ToStatus(w, place, status)
<1>1. to \in Run BY DEF Run, ToStatus
<1>2. Alike(w, to) BY DEF Run, Alike, ToStatus
<1>3. to.at = place /\ to.status = status BY DEF Run, ToStatus
<1> QED BY <1>1, <1>2, <1>3

LEMMA MovedDoomed ==
  ASSUME NEW w \in Run, NEW place \in Places, NEW doomed \in SUBSET Ids
  PROVE  LET to == ToDoomed(w, place, doomed) IN
         to \in Run /\ Alike(w, to) /\ to.at = place /\ to.doomed = doomed
<1> DEFINE to == ToDoomed(w, place, doomed)
<1>1. to \in Run BY DEF Run, ToDoomed
<1>2. Alike(w, to) BY DEF Run, Alike, ToDoomed
<1>3. to.at = place /\ to.doomed = doomed BY DEF Run, ToDoomed
<1> QED BY <1>1, <1>2, <1>3

LEMMA MovedVictim ==
  ASSUME NEW w \in Run, NEW doomed \in SUBSET Ids, NEW victim \in Ids
  PROVE  LET to == ToVictim(w, doomed, victim) IN
         to \in Run /\ Alike(w, to) /\ to.at = "unlink row" /\ to.doomed = doomed
<1> DEFINE to == ToVictim(w, doomed, victim)
<1>1. to \in Run BY DEF Run, ToVictim, Places
<1>2. Alike(w, to) BY DEF Run, Alike, ToVictim
<1>3. to.at = "unlink row" /\ to.doomed = doomed BY DEF Run, ToVictim
<1> QED BY <1>1, <1>2, <1>3

(* The record of a run that has scored a case.                             *)
ScoredRun(w, k, pass) ==
  [w EXCEPT !.at = "save", !.work = @ \ {k},
            !.completed = @ \cup {k}, !.pending = @ \ {k},
            !.passed = IF pass THEN @ \cup {k} ELSE @ \ {k}]

LEMMA ScoredIsRun ==
  ASSUME NEW w \in Run, NEW k \in Cases, NEW pass
  PROVE  LET to == ScoredRun(w, k, pass) IN
         /\ to \in Run /\ to.at = "save" /\ to.id = w.id /\ to.hash = w.hash
         /\ to.work = w.work \ {k} /\ to.completed = w.completed \cup {k}
         /\ to.pending = w.pending \ {k} /\ to.passed \subseteq w.passed \cup {k}
         /\ k \in to.passed => pass
<1> DEFINE to == ScoredRun(w, k, pass)
<1>1. to \in Run BY DEF Run, ScoredRun, Places
<1>2. to.at = "save" /\ to.id = w.id /\ to.hash = w.hash BY DEF Run, ScoredRun
<1>3. to.work = w.work \ {k} /\ to.completed = w.completed \cup {k} /\ to.pending = w.pending \ {k}
  BY DEF Run, ScoredRun
<1>4. to.passed = IF pass THEN w.passed \cup {k} ELSE w.passed \ {k} BY DEF Run, ScoredRun
<1>5. to.passed \subseteq w.passed \cup {k} /\ (k \in to.passed => pass) BY <1>4
<1> QED BY <1>1, <1>2, <1>3, <1>5

(* What the scorer says of a case is a verdict.                              *)
LEMMA JudgeIsVerdict ==
  ASSUME NEW hash \in Hashes, NEW k
  PROVE  Judge(hash, k) \in Verdict /\ Judge(hash, k).hash = hash
BY DEF Judge, Verdict, DeterministicPass, GoldenPromotionEligible

(* A run that is launched is a run.                                        *)
LEMMA LaunchedIsRun ==
  ASSUME TypeOK, NEW id \in Ids, NEW completed \in SUBSET Cases, NEW pending \in SUBSET Cases,
         NEW work \in SUBSET Cases, NEW passed \in SUBSET Cases
  PROVE  /\ Launched(id, completed, pending, work, passed) \in Run
         /\ \A status \in Statuses :
              [Launched(id, completed, pending, work, passed)
                 EXCEPT !.at = "prune", !.status = status] \in Run
BY DEF Launched, Run, TypeOK, Places, Statuses
-----------------------------------------------------------------------------
(* A step of a run that is under way and scores nothing moves its record   *)
(* or ends it.                                                             *)
Moving(r) ==
  \/ First(r) \/ FirstRow(r) \/ Save(r) \/ SaveRowNext(r) \/ Raise(r) \/ Fail(r) \/ FailRow(r)
  \/ Final(r) \/ FinalRow(r) \/ Finish(r) \/ Prune(r) \/ Unlink(r) \/ UnlinkRow(r) \/ Die(r)

Becomes(r, to) ==
  /\ run' = [run EXCEPT ![r] = to]
  /\ to # None => to \in Run /\ Alike(run[r], to)

LEMMA GotoBecomes ==
  ASSUME TypeOK, NEW r \in Runners, run[r] # None, NEW place \in Places, Goto(r, place)
  PROVE  \E to \in Run : Becomes(r, to) /\ to.at = place /\ to.status = run[r].status
                        /\ to.doomed = run[r].doomed
<1>1. run[r] \in Run BY DEF TypeOK
<1> DEFINE to == ToPlace(run[r], place)
<1>2. /\ to \in Run /\ Alike(run[r], to)
      /\ to.at = place /\ to.status = run[r].status /\ to.doomed = run[r].doomed
  BY <1>1, MovedAt
<1>3. Alike(run[r], to) BY <1>2
<1>4. run' = [run EXCEPT ![r] = to] BY DEF Goto, ToPlace
<1> QED BY <1>2, <1>3, <1>4 DEF Becomes

LEMMA SaveBecomes ==
  ASSUME TypeOK, NEW r \in Runners, run[r] # None, NEW place \in Places,
         NEW status \in Statuses, SavePayload(r, status, place)
  PROVE  \E to \in Run : /\ Becomes(r, to) /\ to.at = place /\ to.status = status
                        /\ to.id = run[r].id
<1>1. run[r] \in Run BY DEF TypeOK
<1> DEFINE to == ToStatus(run[r], place, status)
<1>2. to \in Run /\ Alike(run[r], to) /\ to.at = place /\ to.status = status
  BY <1>1, MovedStatus
<1>3. Alike(run[r], to) BY <1>2
<1>4. run' = [run EXCEPT ![r] = to] BY DEF SavePayload, ToStatus
<1>5. to.id = run[r].id BY <1>3 DEF Alike
<1> QED BY <1>2, <1>3, <1>4, <1>5 DEF Becomes

LEMMA LeaveBecomes ==
  ASSUME NEW r \in Runners, Leave(r)
  PROVE  Becomes(r, None)
BY DEF Leave, Becomes

LEMMA PruneBecomes ==
  ASSUME TypeOK, NEW r \in Runners, Prune(r)
  PROVE  \/ Becomes(r, None)
         \/ \E to \in Run, protect \in SUBSET Ids, keepLast \in KeepLasts, bound \in Bounds :
              /\ Becomes(r, to) /\ to.at = "unlink"
              /\ to.doomed = Doomed(protect, keepLast, bound, clock)
              /\ reclaimed' = reclaimed \cup Stale(protect, bound, clock)
<1>1. run[r] # None BY DEF Prune, At
<1>2. run[r] \in Run BY <1>1 DEF TypeOK
<1>3. PICK protect \in SUBSET Ids, keepLast \in KeepLasts, bound \in Bounds :
        /\ \/ Leave(r)
           \/ run' = [run EXCEPT ![r].at = "unlink",
                                 ![r].doomed = Doomed(protect, keepLast, bound, clock)]
        /\ reclaimed' = reclaimed \cup Stale(protect, bound, clock)
  <2>1. run[r].id \in Ids BY <1>2 DEF Run
  <2>2. PICK keep \in BOOLEAN, keepLast \in KeepLasts, bound \in Bounds :
          LET protect == IF keep \/ run[r].status # "completed" THEN {run[r].id} ELSE {}
              doomed  == Doomed(protect, keepLast, bound, clock)
          IN  /\ IF doomed = {} THEN Leave(r)
                 ELSE run' = [run EXCEPT ![r].at = "unlink", ![r].doomed = doomed]
              /\ reclaimed' = reclaimed \cup Stale(protect, bound, clock)
    BY DEF Prune
  <2> DEFINE protect == IF keep \/ run[r].status # "completed" THEN {run[r].id} ELSE {}
  <2>3. protect \in SUBSET Ids BY <2>1
  <2>4. /\ \/ Leave(r)
           \/ run' = [run EXCEPT ![r].at = "unlink",
                                 ![r].doomed = Doomed(protect, keepLast, bound, clock)]
        /\ reclaimed' = reclaimed \cup Stale(protect, bound, clock)
    BY <2>2
  <2> HIDE DEF protect
  <2> QED BY <2>3, <2>4
<1> DEFINE doomed == Doomed(protect, keepLast, bound, clock)
           to == ToDoomed(run[r], "unlink", doomed)
<1>4. doomed \in SUBSET Ids BY DEF Doomed, Stale, Seen
<1> HIDE DEF doomed
<1>5. to \in Run /\ Alike(run[r], to) /\ to.at = "unlink" /\ to.doomed = doomed
  <2>1. "unlink" \in Places BY DEF Places
  <2> QED BY <1>2, <1>4, <2>1, MovedDoomed
<1>6. Alike(run[r], to) BY <1>5
<1>7. CASE Leave(r) BY <1>7, LeaveBecomes
<1>8. CASE run' = [run EXCEPT ![r].at = "unlink", ![r].doomed = doomed]
  <2>1. run' = [run EXCEPT ![r] = to] BY <1>8 DEF ToDoomed
  <2>2. Becomes(r, to) BY <1>5, <1>6, <2>1 DEF Becomes
  <2> QED BY <1>3, <1>5, <2>2 DEF doomed
<1> QED BY <1>3, <1>7, <1>8 DEF doomed

LEMMA UnlinkBecomes ==
  ASSUME TypeOK, NEW r \in Runners, Unlink(r)
  PROVE  \E to \in Run, id \in run[r].doomed :
           /\ Becomes(r, to) /\ to.at = "unlink row" /\ DropPayload(id)
           /\ to.doomed \subseteq run[r].doomed
<1>1. run[r] # None BY DEF Unlink, At
<1>2. run[r] \in Run BY <1>1 DEF TypeOK
<1>3. PICK id \in run[r].doomed :
        /\ DropPayload(id)
        /\ run' = [run EXCEPT ![r].at = "unlink row", ![r].victim = id, ![r].doomed = @ \ {id}]
  BY DEF Unlink
<1> DEFINE rest == run[r].doomed \ {id}
           to   == ToVictim(run[r], rest, id)
<1>4. id \in Ids /\ rest \in SUBSET Ids /\ rest \subseteq run[r].doomed BY <1>2 DEF Run
<1>7. run' = [run EXCEPT ![r] = to] BY <1>3 DEF ToVictim
<1> HIDE DEF rest
<1>5. to \in Run /\ Alike(run[r], to) /\ to.at = "unlink row" /\ to.doomed = rest
  BY <1>2, <1>4, MovedVictim
<1>6. Alike(run[r], to) BY <1>5
<1> QED BY <1>3, <1>4, <1>5, <1>6, <1>7 DEF Becomes

LEMMA MovingBecomes ==
  ASSUME TypeOK, NEW r \in Runners, Moving(r)
  PROVE  run[r] # None /\ run[r] \in Run /\ \E to \in Run \cup {None} : Becomes(r, to)
<1>1. run[r] # None
  BY DEF Moving, At, First, FirstRow, Save, SaveRowNext, Raise, Fail, FailRow, Final, FinalRow,
         Finish, Prune, Unlink, UnlinkRow, Die
<1>2. run[r] \in Run BY <1>1 DEF TypeOK
<1>3. FinalStatus(r) \in Statuses BY DEF FinalStatus, Statuses
<1>4. CASE First(r) \/ Save(r) \/ Fail(r) \/ Final(r)
  <2>1. PICK status \in Statuses, place \in Places : SavePayload(r, status, place)
    BY <1>3, <1>4 DEF First, Save, Fail, Final, Places, Statuses
  <2> QED BY <1>1, <1>2, <2>1, SaveBecomes
<1>5. CASE FirstRow(r) \/ SaveRowNext(r) \/ Raise(r) \/ Finish(r)
  <2>1. PICK place \in Places : Goto(r, place)
    BY <1>5 DEF FirstRow, SaveRowNext, Raise, Finish, Places
  <2> QED BY <1>1, <1>2, <2>1, GotoBecomes
<1>6. CASE FailRow(r) \/ Die(r) BY <1>1, <1>2, <1>6, LeaveBecomes DEF FailRow, Die
<1>7. CASE FinalRow(r) \/ UnlinkRow(r)
  <2>1. Leave(r) \/ \E place \in Places : Goto(r, place)
    BY <1>7 DEF FinalRow, UnlinkRow, Places
  <2> QED BY <1>1, <1>2, <2>1, GotoBecomes, LeaveBecomes
<1>8. CASE Prune(r) BY <1>1, <1>2, <1>8, PruneBecomes
<1>9. CASE Unlink(r) BY <1>1, <1>2, <1>9, UnlinkBecomes
<1> QED BY <1>1, <1>2, <1>4, <1>5, <1>6, <1>7, <1>8, <1>9 DEF Moving
-----------------------------------------------------------------------------
(* What the runs write.                                                    *)
LEMMA SnapshotType ==
  ASSUME TypeOK, NEW r \in Runners, run[r] # None, NEW status \in Statuses
  PROVE  Snapshot(r, status) \in Payload /\ RowOf(Snapshot(r, status)) \in Row
BY DEF TypeOK, Snapshot, Payload, Row, RowOf, Run

(* The two files, step by step.                                            *)
Writes(r) ==
  \/ UNCHANGED store
  \/ \E status \in Statuses : PutPayload(run[r].id, Snapshot(r, status))
  \/ PutRow(run[r].id, Snapshot(r, run[r].status))
  \/ \E id \in Ids : DropPayload(id) \/ DropRow(id)

LEMMA MovingWrites ==
  ASSUME TypeOK, NEW r \in Runners, Moving(r)
  PROVE  /\ run[r] # None /\ run[r] \in Run /\ Writes(r)
         /\ UNCHANGED <<inputs, verdict, scope>>
         /\ \/ UNCHANGED experiment
            \/ experiment' = [experiment EXCEPT ![run[r].id] = [@ EXCEPT !.finished = TRUE]]
         /\ greened \subseteq greened' /\ greened' \subseteq greened \cup {run[r].id}
         /\ reclaimed \subseteq reclaimed' /\ reclaimed' \subseteq reclaimed \cup Ids
<1>1. run[r] # None /\ run[r] \in Run BY MovingBecomes
<1>2. FinalStatus(r) \in Statuses BY DEF FinalStatus, Statuses
<1>3. CASE First(r) \/ Save(r) \/ Fail(r) \/ Final(r)
  <2>1. PICK status \in Statuses, place \in Places : SavePayload(r, status, place)
    BY <1>2, <1>3 DEF First, Save, Fail, Final, Places, Statuses
  <2> QED BY <1>1, <2>1 DEF SavePayload, Writes, inputs
<1>4. CASE FirstRow(r) \/ SaveRowNext(r) \/ FailRow(r) \/ FinalRow(r)
  BY <1>1, <1>4 DEF FirstRow, SaveRowNext, FailRow, FinalRow, SaveRow, Writes, inputs
<1>5. CASE Raise(r) \/ Die(r) \/ Finish(r)
  BY <1>1, <1>5 DEF Raise, Die, Finish, Writes, inputs
<1>6. CASE Prune(r)
  <2>1. \A protect \in SUBSET Ids, bound \in Bounds : Stale(protect, bound, clock) \subseteq Ids
    BY DEF Stale, Seen
  <2>2. UNCHANGED <<store, inputs, experiment, verdict, scope, greened>> BY <1>6 DEF Prune
  <2>3. reclaimed' = reclaimed \/ \E protect \in SUBSET Ids, bound \in Bounds :
          reclaimed' = reclaimed \cup Stale(protect, bound, clock)
    <3>1. run[r].id \in Ids BY <1>1 DEF Run
    <3> QED BY <1>6, <3>1 DEF Prune
  <2> QED BY <1>1, <2>1, <2>2, <2>3 DEF Writes
<1>7. CASE Unlink(r)
  <2>1. run[r].doomed \subseteq Ids BY <1>1 DEF Run
  <2> QED BY <1>1, <1>7, <2>1 DEF Unlink, Writes, inputs
<1>8. CASE UnlinkRow(r)
  <2>1. run[r].victim \in Ids BY <1>1 DEF Run
  <2> QED BY <1>1, <1>8, <2>1 DEF UnlinkRow, Writes, inputs
<1> QED
  <2>1. Moving(r) BY DEF Moving
  <2> QED BY <1>3, <1>4, <1>5, <1>6, <1>7, <1>8, <2>1 DEF Moving

LEMMA WritesType ==
  ASSUME TypeOK, NEW r \in Runners, run[r] # None, run[r] \in Run, Writes(r), NothingAssumption
  PROVE  /\ StoreType'
         /\ \A id \in Ids : payload[id] # None /\ payload'[id] = None => DropPayload(id)
<1>1. run[r].id \in Ids /\ run[r].status \in Statuses BY DEF Run
<1>2. \A status \in Statuses :
        Snapshot(r, status) \in Payload /\ RowOf(Snapshot(r, status)) \in Row
  BY SnapshotType
<1>3. CASE UNCHANGED store BY <1>3 DEF TypeOK, StoreType, store
<1>4. CASE \E status \in Statuses : PutPayload(run[r].id, Snapshot(r, status))
  BY <1>1, <1>2, <1>4 DEF TypeOK, StoreType, PutPayload, NothingAssumption
<1>5. CASE PutRow(run[r].id, Snapshot(r, run[r].status))
  BY <1>1, <1>2, <1>5 DEF TypeOK, StoreType, PutRow
<1>6. CASE \E id \in Ids : DropPayload(id) \/ DropRow(id)
  <2>1. PICK id \in Ids : DropPayload(id) \/ DropRow(id) BY <1>6
  <2>2. CASE DropPayload(id) BY <2>2 DEF TypeOK, StoreType, DropPayload
  <2>3. CASE DropRow(id) BY <2>3 DEF TypeOK, StoreType, DropRow
  <2> QED BY <2>1, <2>2, <2>3
<1> QED BY <1>3, <1>4, <1>5, <1>6 DEF Writes
-----------------------------------------------------------------------------
(* A step is one of these.                                                 *)
LEMMA Steps ==
  ASSUME [Next]_vars
  PROVE  \/ UNCHANGED vars \/ Edit \/ Tick
         \/ \E r \in Runners : Fresh(r) \/ Recompute(r) \/ Resume(r) \/ Score(r) \/ Moving(r)
BY DEF Next, Step, Moving

(* A run is minted with what was asked for.                                *)
LEMMA Minting ==
  ASSUME TypeOK, RunAssumption, NEW r \in Runners, Fresh(r) \/ Recompute(r)
  PROVE  \E id \in Ids, filter \in SUBSET Cases : Mint(r, id, filter)
<1>1. profile.ids \subseteq Ids /\ profile.filters \subseteq SUBSET Cases
  BY DEF TypeOK, RunAssumption, ProfileType
<1> QED BY <1>1 DEF Fresh, Recompute

LEMMA TypeStep ==
  ASSUME TypeOK, RunInv, RunAssumption, StoreAssumption, NothingAssumption, [Next]_vars
  PROVE  TypeOK'
<1>1. CASE UNCHANGED vars BY <1>1 DEF vars, TypeOK, StoreType
<1>2. CASE Edit BY <1>2 DEF Edit, TypeOK, StoreType, store
<1>3. CASE Tick
  <2>1. profile.horizon \in Time BY DEF TypeOK, RunAssumption, ProfileType
  <2>2. clock + 1 \in Time BY <1>3, <2>1 DEF Tick, TypeOK, Time, StoreAssumption
  <2> QED BY <1>3, <2>2 DEF Tick, TypeOK, StoreType, store
<1>4. CASE \E r \in Runners : Fresh(r) \/ Recompute(r)
  <2>1. PICK r \in Runners, id \in Ids, filter \in SUBSET Cases : Mint(r, id, filter)
    BY <1>4, Minting
  <2>2. Launched(id, {}, filter, filter, {}) \in Run BY LaunchedIsRun
  <2>3. run' \in [Runners -> Run \cup {None}] BY <2>1, <2>2 DEF Mint, TypeOK
  <2>4. [hash |-> live, finished |-> FALSE] \in Experiment BY DEF TypeOK, Experiment
  <2>5. experiment' \in [Ids -> Experiment \cup {None}] /\ scope' \in [Ids -> SUBSET Cases]
    BY <2>1, <2>4 DEF Mint, TypeOK
  <2> QED BY <2>1, <2>3, <2>5 DEF Mint, TypeOK, StoreType, store, inputs
<1>5. CASE \E r \in Runners : Resume(r)
  <2>1. PICK r \in Runners : Resume(r) BY <1>5
  <2>2. run' \in [Runners -> Run \cup {None}]
    <3>1. PICK id \in Ids, filter \in profile.filters :
            /\ Resumable(id)
            /\ LET p     == payload[id]
                   known == PassedBefore(id, p.completed)
                   back  == Launched(id, p.completed, p.pending, p.pending \cap filter, known)
                   green == p.completed # {} /\ p.completed = known
               IN  run' = [run EXCEPT ![r] =
                     IF p.pending # {} THEN back
                     ELSE [back EXCEPT !.at = "prune",
                                       !.status = IF green THEN "completed" ELSE "failed"]]
      BY <2>1 DEF Resume
    <3> DEFINE p     == payload[id]
               known == PassedBefore(id, p.completed)
               back  == Launched(id, p.completed, p.pending, p.pending \cap filter, known)
               green == p.completed # {} /\ p.completed = known
               to    == IF p.pending # {} THEN back
                        ELSE [back EXCEPT !.at = "prune",
                                          !.status = IF green THEN "completed" ELSE "failed"]
    <3>2. p \in Payload BY <3>1 DEF Resumable, TypeOK, StoreType
    <3>3. p.completed \in SUBSET Cases /\ p.pending \in SUBSET Cases BY <3>2 DEF Payload
    <3>4. known \in SUBSET Cases BY <3>3 DEF PassedBefore
    <3>5. back \in Run /\ \A status \in Statuses :
            [back EXCEPT !.at = "prune", !.status = status] \in Run
      <4>1. p.pending \cap filter \in SUBSET Cases BY <3>3
      <4> HIDE DEF p, known
      <4> QED BY <3>3, <3>4, <4>1, LaunchedIsRun
    <3> HIDE DEF back
    <3>6. to \in Run
      <4>1. "completed" \in Statuses /\ "failed" \in Statuses BY DEF Statuses
      <4> HIDE DEF p, known
      <4> QED BY <3>5, <4>1
    <3>7. run' = [run EXCEPT ![r] = to] BY <3>1 DEF back
    <3> HIDE DEF to
    <3> QED BY <3>6, <3>7 DEF TypeOK
  <2> QED BY <2>1, <2>2 DEF Resume, TypeOK, StoreType, store, inputs
<1>6. CASE \E r \in Runners : Score(r)
  <2>1. PICK r \in Runners : Score(r) BY <1>6
  <2>2. PICK k \in Cases :
          LET in == run[r]
              v  == Judge(in.hash, k)
          IN  /\ NextCase(r, k)
              /\ verdict' = [verdict EXCEPT ![in.id][k] = v]
              /\ run' = [run EXCEPT ![r] =
                   [in EXCEPT !.at = "save", !.work = @ \ {k},
                              !.completed = @ \cup {k}, !.pending = @ \ {k},
                              !.passed = IF v.pass THEN @ \cup {k} ELSE @ \ {k}]]
    BY <2>1 DEF Score
  <2>3. run[r] \in Run BY <2>1 DEF Score, At, TypeOK
  <2>4. run[r].id \in Ids /\ run[r].hash \in Hashes BY <2>3 DEF Run
  <2>5. Judge(run[r].hash, k) \in Verdict BY <2>4, JudgeIsVerdict
  <2>6. verdict' \in [Ids -> [Cases -> Verdict \cup {None}]] BY <2>2, <2>4, <2>5 DEF TypeOK
  <2>7. run' \in [Runners -> Run \cup {None}]
    <3>1. ScoredRun(run[r], k, Judge(run[r].hash, k).pass) \in Run BY <2>3, ScoredIsRun
    <3>2. run' = [run EXCEPT ![r] = ScoredRun(run[r], k, Judge(run[r].hash, k).pass)]
      BY <2>2 DEF ScoredRun
    <3> QED BY <3>1, <3>2 DEF TypeOK
  <2> QED BY <2>1, <2>6, <2>7 DEF Score, TypeOK, StoreType, store, inputs
<1>7. CASE \E r \in Runners : Moving(r)
  <2>1. PICK r \in Runners : Moving(r) BY <1>7
  <2>2. PICK to \in Run \cup {None} : Becomes(r, to) BY <2>1, MovingBecomes
  <2>3. run' \in [Runners -> Run \cup {None}] BY <2>2 DEF Becomes, TypeOK
  <2>4. run[r] # None /\ run[r] \in Run /\ Writes(r) BY <2>1, MovingWrites
  <2>5. StoreType' BY <2>4, WritesType
  <2>6. run[r].id \in Ids BY <2>4 DEF Run
  <2>7. /\ UNCHANGED <<inputs, verdict, scope>>
        /\ \/ UNCHANGED experiment
           \/ experiment' = [experiment EXCEPT ![run[r].id] = [@ EXCEPT !.finished = TRUE]]
        /\ greened' \subseteq greened \cup {run[r].id} /\ reclaimed' \subseteq reclaimed \cup Ids
    BY <2>1, MovingWrites
  <2>8. experiment' \in [Ids -> Experiment \cup {None}]
    <3>1. experiment[run[r].id] \in Experiment BY <2>4, <2>6 DEF RunInv, Knows, TypeOK
    <3>2. [experiment[run[r].id] EXCEPT !.finished = TRUE] \in Experiment BY <3>1 DEF Experiment
    <3> QED BY <2>6, <2>7, <3>2 DEF TypeOK
  <2> QED BY <2>3, <2>5, <2>6, <2>7, <2>8 DEF TypeOK, inputs
<1> QED BY <1>1, <1>2, <1>3, <1>4, <1>5, <1>6, <1>7, Steps
-----------------------------------------------------------------------------
(* No step takes back what an experiment was minted with, or a result.     *)
Kept ==
  /\ suite' = suite
  /\ \A id \in Ids : experiment[id] # None =>
       /\ experiment'[id] # None /\ experiment'[id].hash = experiment[id].hash
       /\ scope'[id] = scope[id]
  /\ \A id \in Ids, k \in Cases : verdict[id][k] # None => verdict'[id][k] # None

LEMMA KnowsKept ==
  ASSUME Kept, NEW in \in Run, Knows(in)
  PROVE  Knows(in)'
<1>1. in.id \in Ids /\ in.completed \subseteq Cases BY DEF Run
<1> QED BY <1>1 DEF Kept, Knows, Judge

LEMMA HoldsKept ==
  ASSUME Kept, NEW id \in Ids, NEW p \in Payload, Holds(id, p)
  PROVE  Holds(id, p)'
<1>1. p.completed \subseteq Cases BY DEF Payload
<1> QED BY <1>1 DEF Kept, Holds, Clean, Judge

LEMMA AlikeKnows ==
  ASSUME NEW a \in Run, NEW b \in Run, Alike(a, b), Knows(a)
  PROVE  Knows(b)
BY DEF Alike, Knows

(* What a step of each kind changes of the history.                        *)
LEMMA MintKeeps ==
  ASSUME TypeOK, NEW r \in Runners, NEW id \in Ids, NEW filter \in SUBSET Cases,
         Mint(r, id, filter), NothingAssumption
  PROVE  /\ Kept /\ UNCHANGED verdict
         /\ experiment'[id] # None /\ experiment'[id].hash = live /\ scope'[id] = filter
<1>1. [hash |-> live, finished |-> FALSE] \in Experiment BY DEF TypeOK, Experiment
<1>2. experiment'[id] = [hash |-> live, finished |-> FALSE] BY DEF Mint, TypeOK
<1>3. experiment'[id] # None BY <1>1, <1>2 DEF NothingAssumption
<1>4. experiment'[id].hash = live BY <1>2
<1>5. \A other \in Ids : experiment[other] # None =>
        experiment'[other] = experiment[other] /\ scope'[other] = scope[other]
  BY DEF Mint, TypeOK
<1>6. scope'[id] = filter BY DEF Mint, TypeOK
<1> QED BY <1>3, <1>4, <1>5, <1>6 DEF Mint, inputs, Kept

LEMMA MovingKeeps ==
  ASSUME TypeOK, RunInv, NEW r \in Runners, Moving(r), NothingAssumption
  PROVE  /\ Kept /\ UNCHANGED verdict
<1>1. run[r] # None /\ run[r] \in Run BY MovingBecomes
<1>2. run[r].id \in Ids BY <1>1 DEF Run
<1>3. experiment[run[r].id] \in Experiment BY <1>1, <1>2 DEF RunInv, Knows, TypeOK
<1>4. UNCHANGED <<suite, verdict, scope>> BY MovingWrites DEF inputs
<1>5. \/ UNCHANGED experiment
      \/ experiment' = [experiment EXCEPT ![run[r].id] = [@ EXCEPT !.finished = TRUE]]
  BY MovingWrites
<1>6. [experiment[run[r].id] EXCEPT !.finished = TRUE] \in Experiment
  BY <1>3 DEF Experiment
<1>7. [experiment[run[r].id] EXCEPT !.finished = TRUE].hash = experiment[run[r].id].hash
  BY <1>3 DEF Experiment
<1>8. CASE UNCHANGED experiment BY <1>4, <1>8 DEF Kept
<1>9. CASE experiment' = [experiment EXCEPT ![run[r].id] = [@ EXCEPT !.finished = TRUE]]
  <2>1. experiment'[run[r].id] # None
    BY <1>2, <1>6, <1>9 DEF TypeOK, NothingAssumption
  <2>2. experiment'[run[r].id].hash = experiment[run[r].id].hash BY <1>2, <1>7, <1>9 DEF TypeOK
  <2>3. \A id \in Ids \ {run[r].id} : experiment'[id] = experiment[id] BY <1>9 DEF TypeOK
  <2> QED BY <1>4, <2>1, <2>2, <2>3 DEF Kept
<1> QED BY <1>4, <1>5, <1>8, <1>9

LEMMA Scoring ==
  ASSUME TypeOK, RunInv, NEW r \in Runners, Score(r), NothingAssumption
  PROVE  \E k \in Cases, to \in Run :
           /\ run[r] # None /\ run[r] \in Run /\ k \in run[r].work
           /\ run' = [run EXCEPT ![r] = to]
           /\ to = ScoredRun(run[r], k, Judge(run[r].hash, k).pass)
           /\ verdict'[run[r].id][k] = Judge(run[r].hash, k)
           /\ verdict'[run[r].id][k] # None
           /\ \A id \in Ids, other \in Cases :
                id # run[r].id \/ other # k => verdict'[id][other] = verdict[id][other]
           /\ UNCHANGED <<store, inputs, experiment, scope, greened, reclaimed>>
<1>1. run[r] # None /\ run[r] \in Run BY DEF Score, At, TypeOK
<1>2. PICK k \in Cases :
        LET in == run[r]
            v  == Judge(in.hash, k)
        IN  /\ NextCase(r, k)
            /\ verdict' = [verdict EXCEPT ![in.id][k] = v]
            /\ run' = [run EXCEPT ![r] =
                 [in EXCEPT !.at = "save", !.work = @ \ {k},
                            !.completed = @ \cup {k}, !.pending = @ \ {k},
                            !.passed = IF v.pass THEN @ \cup {k} ELSE @ \ {k}]]
  BY DEF Score
<1> DEFINE v  == Judge(run[r].hash, k)
           to == ScoredRun(run[r], k, v.pass)
<1>3. run[r].id \in Ids /\ run[r].hash \in Hashes BY <1>1 DEF Run
<1>4. v \in Verdict BY <1>3, JudgeIsVerdict
<1>5. to \in Run BY <1>1, ScoredIsRun
<1>6. run' = [run EXCEPT ![r] = to] BY <1>2 DEF ScoredRun
<1>7. verdict' = [verdict EXCEPT ![run[r].id][k] = v] BY <1>2
<1> HIDE DEF v
<1>8. verdict'[run[r].id][k] = v BY <1>3, <1>7 DEF TypeOK
<1>9. \A id \in Ids, other \in Cases :
        id # run[r].id \/ other # k => verdict'[id][other] = verdict[id][other]
  BY <1>3, <1>7 DEF TypeOK
<1>10. k \in run[r].work BY <1>2 DEF NextCase
<1>11. v # None BY <1>4 DEF NothingAssumption
<1>12. UNCHANGED <<store, inputs, experiment, scope, greened, reclaimed>> BY DEF Score
<1> QED BY <1>1, <1>5, <1>6, <1>8, <1>9, <1>10, <1>11, <1>12 DEF v

LEMMA StepKeeps ==
  ASSUME TypeOK, RunInv, RunAssumption, NothingAssumption, [Next]_vars
  PROVE  Kept
<1>1. CASE UNCHANGED vars BY <1>1 DEF vars, Kept
<1>2. CASE Edit \/ Tick BY <1>2 DEF Edit, Tick, Kept
<1>3. CASE \E r \in Runners : Fresh(r) \/ Recompute(r) BY <1>3, Minting, MintKeeps
<1>4. CASE \E r \in Runners : Resume(r) BY <1>4 DEF Resume, inputs, Kept
<1>5. CASE \E r \in Runners : Score(r)
  <2>1. PICK r \in Runners : Score(r) BY <1>5
  <2>2. PICK k \in Cases :
           /\ verdict'[run[r].id][k] # None
           /\ \A id \in Ids, other \in Cases :
                id # run[r].id \/ other # k => verdict'[id][other] = verdict[id][other]
           /\ UNCHANGED <<store, inputs, experiment, scope, greened, reclaimed>>
    BY <2>1, Scoring
  <2> QED BY <2>2 DEF inputs, Kept
<1>6. CASE \E r \in Runners : Moving(r) BY <1>6, MovingKeeps
<1> QED BY <1>1, <1>2, <1>3, <1>4, <1>5, <1>6, Steps
-----------------------------------------------------------------------------
LEMMA VerdictStep ==
  ASSUME Inv, RunAssumption, StoreAssumption, NothingAssumption, [Next]_vars
  PROVE  VerdictInv'
<1>1. TypeOK /\ RunInv /\ VerdictInv BY DEF Inv
<1>2. Kept BY <1>1, StepKeeps
<1>3. CASE UNCHANGED verdict
  BY <1>1, <1>2, <1>3 DEF VerdictInv, Kept, Judge
<1>4. CASE \E r \in Runners : Score(r)
  <2>1. PICK r \in Runners : Score(r) BY <1>4
  <2>2. PICK k \in Cases :
           /\ run[r] # None /\ run[r] \in Run
           /\ verdict'[run[r].id][k] = Judge(run[r].hash, k)
           /\ \A id \in Ids, other \in Cases :
                id # run[r].id \/ other # k => verdict'[id][other] = verdict[id][other]
           /\ UNCHANGED <<store, inputs, experiment, scope, greened, reclaimed>>
    BY <1>1, <2>1, Scoring
  <2>3. experiment[run[r].id] # None /\ run[r].hash = experiment[run[r].id].hash
    BY <1>1, <2>2 DEF RunInv, Knows
  <2>4. suite' = suite /\ experiment' = experiment BY <2>2 DEF inputs
  <2>5. ASSUME NEW id \in Ids, NEW other \in Cases, verdict'[id][other] # None
        PROVE  experiment'[id] # None /\ verdict'[id][other] = Judge(experiment[id].hash, other)
    <3>1. CASE id = run[r].id /\ other = k BY <2>2, <2>3, <2>4, <3>1
    <3>2. CASE id # run[r].id \/ other # k
      BY <1>1, <2>2, <2>4, <2>5, <3>2 DEF VerdictInv
    <3> QED BY <3>1, <3>2
  <2> QED BY <2>4, <2>5 DEF VerdictInv, Judge
<1>5. CASE UNCHANGED vars \/ Edit \/ Tick BY <1>3, <1>5 DEF vars, Edit, Tick
<1>6. CASE \E r \in Runners : Fresh(r) \/ Recompute(r)
  BY <1>1, <1>3, <1>6, Minting, MintKeeps
<1>7. CASE \E r \in Runners : Resume(r) BY <1>3, <1>7 DEF Resume
<1>8. CASE \E r \in Runners : Moving(r) BY <1>1, <1>3, <1>8, MovingKeeps
<1> QED BY <1>4, <1>5, <1>6, <1>7, <1>8, Steps

(* A resume goes by what the checkpoint and the results say.               *)
LEMMA ResumeKnows ==
  ASSUME Inv, NEW r \in Runners, Resume(r)
  PROVE  \E to : /\ run' = [run EXCEPT ![r] = to] /\ Knows(to)
                 /\ to.at \in {"first", "prune"}
<1>1. PICK id \in Ids, filter \in profile.filters :
        /\ Resumable(id)
        /\ LET p     == payload[id]
               known == PassedBefore(id, p.completed)
               back  == Launched(id, p.completed, p.pending, p.pending \cap filter, known)
               green == p.completed # {} /\ p.completed = known
           IN  run' = [run EXCEPT ![r] =
                 IF p.pending # {} THEN back
                 ELSE [back EXCEPT !.at = "prune",
                                   !.status = IF green THEN "completed" ELSE "failed"]]
  BY DEF Resume
<1> DEFINE p     == payload[id]
           known == PassedBefore(id, p.completed)
           back  == Launched(id, p.completed, p.pending, p.pending \cap filter, known)
           green == p.completed # {} /\ p.completed = known
           late  == [back EXCEPT !.at = "prune",
                                 !.status = IF green THEN "completed" ELSE "failed"]
<1>2. payload[id] # None /\ p.hash = live BY <1>1 DEF Resumable
<1>3. Holds(id, p) BY <1>2 DEF Inv, PayloadInv
<1>4. p \in Payload BY <1>2 DEF Inv, TypeOK, StoreType
<1>5. p.completed \subseteq Cases BY <1>4 DEF Payload
<1>6. \A k \in known : Judge(live, k).pass
  BY <1>2, <1>3, <1>5 DEF PassedBefore, Inv, VerdictInv, Holds
<1>7. Knows(back) /\ back.at = "first"
  <2>1. /\ back.id = id /\ back.hash = live /\ back.completed = p.completed
        /\ back.pending = p.pending /\ back.work = p.pending \cap filter
        /\ back.passed = known /\ back.at = "first"
    BY DEF Launched
  <2> HIDE DEF back, known, p
  <2>2. /\ experiment[id] # None /\ live = experiment[id].hash
        /\ p.completed \cup p.pending = scope[id] /\ p.completed \cap p.pending = {}
        /\ \A k \in p.completed : verdict[id][k] # None
    BY <1>2, <1>3 DEF Holds, p
  <2> QED BY <1>6, <2>1, <2>2 DEF Knows
<1>8. Knows(late) /\ late.at = "prune"
  <2>1. /\ late.id = id /\ late.hash = live /\ late.completed = p.completed
        /\ late.pending = p.pending /\ late.work = p.pending \cap filter
        /\ late.passed = known /\ late.at = "prune"
    <3> HIDE DEF green, known, p
    <3> QED BY DEF Launched
  <2> HIDE DEF late, known, p
  <2>2. /\ experiment[id] # None /\ live = experiment[id].hash
        /\ p.completed \cup p.pending = scope[id] /\ p.completed \cap p.pending = {}
        /\ \A k \in p.completed : verdict[id][k] # None
    BY <1>2, <1>3 DEF Holds, p
  <2> QED BY <1>6, <2>1, <2>2 DEF Knows
<1>9. run' = [run EXCEPT ![r] = IF p.pending # {} THEN back ELSE late] BY <1>1
<1> HIDE DEF back, late, p
<1> QED BY <1>7, <1>8, <1>9

(* Every run of the next state is one of this state, or follows from one.  *)
LEMMA RunStep ==
  ASSUME Inv, RunAssumption, StoreAssumption, NothingAssumption, [Next]_vars
  PROVE  RunInv'
<1>1. TypeOK /\ RunInv BY DEF Inv
<1>2. Kept BY <1>1, StepKeeps
<1>3. ASSUME NEW r \in Runners, run[r] # None, run'[r] = run[r] PROVE Knows(run[r])'
  <2>1. run[r] \in Run BY <1>1, <1>3 DEF TypeOK
  <2>2. PICK in \in Run : in = run[r] BY <2>1
  <2>3. Knows(in) BY <1>1, <1>3, <2>2 DEF RunInv
  <2>4. Knows(in)' BY <1>2, <2>3, KnowsKept
  <2>5. in = run'[r] BY <1>3, <2>2
  <2> QED BY <2>4, <2>5 DEF Knows
<1>4. ASSUME UNCHANGED run PROVE RunInv' BY <1>3, <1>4 DEF RunInv
<1>5. ASSUME NEW r \in Runners, NEW to, run' = [run EXCEPT ![r] = to],
             to # None => Knows(to)'
      PROVE  RunInv'
  <2>1. run'[r] = to BY <1>1, <1>5 DEF TypeOK
  <2>2. run'[r] # None => Knows(run[r])' BY <1>5, <2>1 DEF Knows
  <2>3. ASSUME NEW other \in Runners, other # r, run'[other] # None PROVE Knows(run[other])'
    <3>1. run'[other] = run[other] BY <1>1, <1>5, <2>3 DEF TypeOK
    <3> QED BY <1>3, <2>3, <3>1
  <2> QED BY <2>2, <2>3 DEF RunInv
<1>6. CASE UNCHANGED vars \/ Edit \/ Tick BY <1>4, <1>6 DEF vars, Edit, Tick
<1>7. CASE \E r \in Runners : Fresh(r) \/ Recompute(r)
  <2>1. PICK r \in Runners, id \in Ids, filter \in SUBSET Cases : Mint(r, id, filter)
    BY <1>1, <1>7, Minting
  <2>2. PICK to : to = Launched(id, {}, filter, filter, {}) OBVIOUS
  <2>3. experiment'[id] # None /\ experiment'[id].hash = live /\ scope'[id] = filter
    BY <1>1, <2>1, MintKeeps
  <2>4. /\ to.id = id /\ to.hash = live /\ to.completed = {} /\ to.pending = filter
        /\ to.work = filter /\ to.passed = {}
    BY <2>2 DEF Launched
  <2>5. Knows(to)' BY <2>3, <2>4 DEF Knows
  <2>6. run' = [run EXCEPT ![r] = to] BY <2>1, <2>2 DEF Mint
  <2> QED BY <1>5, <2>5, <2>6
<1>8. CASE \E r \in Runners : Resume(r)
  <2>1. PICK r \in Runners : Resume(r) BY <1>8
  <2>2. PICK to : run' = [run EXCEPT ![r] = to] /\ Knows(to) BY <2>1, ResumeKnows
  <2>3. UNCHANGED <<experiment, verdict, scope, suite>> BY <2>1 DEF Resume, inputs
  <2>4. Knows(to)' BY <2>2, <2>3 DEF Knows, Judge
  <2> QED BY <1>5, <2>2, <2>4
<1>9. CASE \E r \in Runners : Score(r)
  <2>1. PICK r \in Runners : Score(r) BY <1>9
  <2>2. PICK k \in Cases, to \in Run :
           /\ run[r] # None /\ run[r] \in Run /\ k \in run[r].work
           /\ run' = [run EXCEPT ![r] = to]
           /\ to = ScoredRun(run[r], k, Judge(run[r].hash, k).pass)
           /\ verdict'[run[r].id][k] # None
    BY <1>1, <2>1, Scoring
  <2>3. PICK w \in Run : w = run[r] BY <2>2
  <2>4. Knows(w)
    BY <2>2, <2>3, <1>1 DEF RunInv
  <2>5. Knows(w)' BY <1>2, <2>4, KnowsKept
  <2>6. to = ScoredRun(w, k, Judge(w.hash, k).pass) BY <2>2, <2>3
  <2>7. /\ to.id = w.id /\ to.hash = w.hash
        /\ to.work = w.work \ {k} /\ to.completed = w.completed \cup {k}
        /\ to.pending = w.pending \ {k} /\ to.passed \subseteq w.passed \cup {k}
        /\ k \in to.passed => Judge(w.hash, k).pass
    BY <2>6, ScoredIsRun
  <2>8. k \in w.work /\ verdict'[w.id][k] # None BY <2>2, <2>3
  <2>9. Judge(w.hash, k)' = Judge(w.hash, k) BY <1>2 DEF Kept, Judge
  <2>10. Knows(to)' BY <2>5, <2>7, <2>8, <2>9 DEF Knows
  <2> QED BY <1>5, <2>2, <2>10
<1>10. CASE \E r \in Runners : Moving(r)
  <2>1. PICK r \in Runners : Moving(r) BY <1>10
  <2>2. PICK to \in Run \cup {None} : Becomes(r, to) BY <1>1, <2>1, MovingBecomes
  <2>3. run[r] # None /\ run[r] \in Run BY <1>1, <2>1, MovingBecomes
  <2>4. ASSUME to # None PROVE Knows(to)'
    <3>1. PICK w \in Run : w = run[r] BY <2>3
    <3>2. Knows(w) BY <1>1, <2>3, <3>1 DEF RunInv
    <3>3. to \in Run /\ Alike(w, to) BY <2>2, <2>4, <3>1 DEF Becomes
    <3>4. Knows(to) BY <3>2, <3>3, AlikeKnows
    <3> QED BY <1>2, <3>3, <3>4, KnowsKept
  <2>5. run' = [run EXCEPT ![r] = to] BY <2>2 DEF Becomes
  <2> QED BY <1>5, <2>4, <2>5
<1> QED BY <1>6, <1>7, <1>8, <1>9, <1>10, Steps
-----------------------------------------------------------------------------
(* What a run writes into a checkpoint holds: it is what the run knows, and *)
(* "completed" only at the end.                                            *)
LEMMA SavedHolds ==
  ASSUME Inv, NEW r \in Runners, First(r) \/ Save(r) \/ Fail(r) \/ Final(r)
  PROVE  \E status \in Statuses, place \in Places :
           /\ SavePayload(r, status, place)
           /\ Holds(run[r].id, Snapshot(r, status))
           /\ place \in {"first row", "save row", "fail row"} => status # "completed"
           /\ place \notin {"unlink", "unlink row"}
<1>1. run[r] # None BY DEF First, Save, Fail, Final, At
<1>2. Knows(run[r]) BY <1>1 DEF Inv, RunInv
<1>3. ASSUME NEW status \in Statuses,
             status = "completed" => AllPass(r) /\ run[r].pending = {}
      PROVE  Holds(run[r].id, Snapshot(r, status))
  <2>1. PICK p : p = Snapshot(r, status) OBVIOUS
  <2>2. /\ p.status = status /\ p.hash = run[r].hash
        /\ p.completed = run[r].completed /\ p.pending = run[r].pending
    BY <2>1 DEF Snapshot
  <2>3. Clean(p) BY <1>2, <1>3, <2>2 DEF Clean, AllPass, Knows
  <2>4. Holds(run[r].id, p) BY <1>2, <2>2, <2>3 DEF Holds, Knows
  <2> QED BY <2>1, <2>4
<1>4. CASE First(r)
  BY <1>3, <1>4 DEF First, Statuses, Places
<1>5. CASE Save(r) BY <1>3, <1>5 DEF Save, Statuses, Places
<1>6. CASE Fail(r) BY <1>3, <1>6 DEF Fail, Statuses, Places
<1>7. CASE Final(r)
  <2>1. FinalStatus(r) \in Statuses BY DEF FinalStatus, Statuses
  <2>2. FinalStatus(r) = "completed" => AllPass(r) /\ run[r].pending = {} BY DEF FinalStatus
  <2>3. Holds(run[r].id, Snapshot(r, FinalStatus(r))) BY <1>3, <2>1, <2>2
  <2>4. "final row" \in Places BY DEF Places
  <2> QED BY <1>7, <2>1, <2>3, <2>4 DEF Final
<1> QED BY <1>4, <1>5, <1>6, <1>7

LEMMA PayloadStep ==
  ASSUME Inv, RunAssumption, StoreAssumption, NothingAssumption, [Next]_vars
  PROVE  PayloadInv'
<1>1. TypeOK /\ RunInv /\ PayloadInv BY DEF Inv
<1>2. Kept BY <1>1, StepKeeps
<1>3. TypeOK' BY <1>1, TypeStep
<1>4. ASSUME NEW id \in Ids, payload'[id] # None, payload'[id] = payload[id]
      PROVE  Holds(id, payload[id])'
  <2>1. PICK p \in Payload : p = payload[id] BY <1>1, <1>4 DEF TypeOK, StoreType
  <2>2. Holds(id, p) BY <1>1, <1>4, <2>1 DEF PayloadInv
  <2>3. Holds(id, p)' BY <1>2, <2>2, HoldsKept
  <2>4. p = payload'[id] BY <1>4, <2>1
  <2> QED BY <2>3, <2>4 DEF Holds, Clean, Judge
<1>5. ASSUME UNCHANGED payload PROVE PayloadInv' BY <1>4, <1>5 DEF PayloadInv
<1>6. CASE UNCHANGED vars \/ Edit \/ Tick BY <1>5, <1>6 DEF vars, Edit, Tick, store
<1>7. CASE \E r \in Runners : Fresh(r) \/ Recompute(r)
  BY <1>1, <1>5, <1>7, Minting DEF Mint, store
<1>8. CASE \E r \in Runners : Resume(r) \/ Score(r) BY <1>5, <1>8 DEF Resume, Score, store
<1>9. CASE \E r \in Runners : Moving(r)
  <2>1. PICK r \in Runners : Moving(r) BY <1>9
  <2>2. CASE First(r) \/ Save(r) \/ Fail(r) \/ Final(r)
    <3>1. PICK status \in Statuses, place \in Places :
            SavePayload(r, status, place) /\ Holds(run[r].id, Snapshot(r, status))
      BY <2>2, SavedHolds
    <3>2. run[r] # None /\ run[r] \in Run BY <1>1, <2>1, MovingBecomes
    <3>3. PICK p \in Payload : p = Snapshot(r, status) BY <1>1, <3>2, SnapshotType
    <3>4. PICK id \in Ids : id = run[r].id BY <3>2 DEF Run
    <3>5. Holds(id, p) BY <3>1, <3>3, <3>4
    <3>6. Holds(id, p)' BY <1>2, <3>5, HoldsKept
    <3>7. payload' = [payload EXCEPT ![id] = p]
      BY <3>1, <3>3, <3>4 DEF SavePayload, PutPayload
    <3>8. payload'[id] = p BY <1>1, <3>7 DEF TypeOK, StoreType
    <3>9. Holds(id, payload[id])' BY <3>6, <3>8 DEF Holds, Clean, Judge
    <3>10. \A other \in Ids \ {id} : payload'[other] = payload[other]
      BY <1>1, <3>7 DEF TypeOK, StoreType
    <3> QED BY <1>4, <3>9, <3>10 DEF PayloadInv
  <2>3. CASE FirstRow(r) \/ SaveRowNext(r) \/ FailRow(r) \/ FinalRow(r)
    BY <1>5, <2>3 DEF FirstRow, SaveRowNext, FailRow, FinalRow, SaveRow, PutRow
  <2>4. CASE Raise(r) \/ Die(r) \/ Finish(r) \/ Prune(r)
    BY <1>5, <2>4 DEF Raise, Die, Finish, Prune, store
  <2>5. CASE Unlink(r)
    <3>1. PICK id \in run[r].doomed : payload' = [payload EXCEPT ![id] = None]
      BY <2>5 DEF Unlink, DropPayload
    <3>2. \A other \in Ids : payload'[other] # None => payload'[other] = payload[other]
      BY <1>1, <3>1 DEF TypeOK, StoreType
    <3> QED BY <1>4, <3>2 DEF PayloadInv
  <2>6. CASE UnlinkRow(r) BY <1>5, <2>6 DEF UnlinkRow, DropRow
  <2> QED BY <2>1, <2>2, <2>3, <2>4, <2>5, <2>6 DEF Moving
<1> QED BY <1>6, <1>7, <1>8, <1>9, Steps
-----------------------------------------------------------------------------
(* What is doomed had run for too long, or the suite has been green.       *)
LEMMA DoomedMayGo ==
  ASSUME TypeOK, GreenInv, NEW protect \in SUBSET Ids, NEW keepLast, NEW bound,
         NEW id \in Doomed(protect, keepLast, bound, clock)
  PROVE  greened # {} \/ id \in Stale(protect, bound, clock)
<1>1. ASSUME NEW other \in Seen, View(other).status = "completed" PROVE greened # {}
  BY <1>1 DEF Seen, View, RowOf, GreenInv
<1>2. CASE id \in Stale(protect, bound, clock) BY <1>2
<1>3. CASE id \in Seen /\ ~ Retained(id)
  <2>1. View(id).status \in Statuses
    BY <1>3 DEF Seen, View, RowOf, TypeOK, StoreType, Payload, Row
  <2>2. View(id).status = "completed" \/ HasCompleted BY <1>3, <2>1 DEF Retained, Statuses
  <2> QED BY <1>1, <1>3, <2>2 DEF HasCompleted
<1> QED BY <1>2, <1>3 DEF Doomed

(* What GreenInv asks of one run.                                          *)
GreenRun(in) ==
  /\ in.at \in {"first row", "save row", "fail row"} => in.status # "completed"
  /\ in.at = "final row" /\ in.status = "completed" => in.id \in greened
  /\ in.at \in {"unlink", "unlink row"} =>
       \A id \in in.doomed : greened # {} \/ id \in reclaimed

GreenStore ==
  /\ \A id \in Ids : payload[id] # None /\ payload[id].status = "completed" => id \in greened
  /\ \A id \in Ids : row[id] # None /\ row[id].status = "completed" => id \in greened

LEMMA GreenParts ==
  GreenInv <=> GreenStore /\ \A r \in Runners : run[r] # None => GreenRun(run[r])
BY DEF GreenInv, GreenStore, GreenRun

(* It is enough to look at what one run becomes.                           *)
LEMMA GreenOne ==
  ASSUME TypeOK, GreenInv, greened \subseteq greened', reclaimed \subseteq reclaimed',
         GreenStore', NEW r \in Runners, NEW to, run' = [run EXCEPT ![r] = to],
         to # None => GreenRun(to)'
  PROVE  GreenInv'
<1>1. run'[r] = to BY DEF TypeOK
<1>2. run'[r] # None => GreenRun(run[r])' BY <1>1 DEF GreenRun
<1>3. ASSUME NEW other \in Runners, other # r, run'[other] # None PROVE GreenRun(run[other])'
  <2>1. run'[other] = run[other] BY <1>3 DEF TypeOK
  <2>2. GreenRun(run[other]) BY <1>3, <2>1, GreenParts
  <2> QED BY <2>1, <2>2 DEF GreenRun
<1>4. \A other \in Runners : run'[other] # None => GreenRun(run[other])' BY <1>2, <1>3
<1> QED BY <1>4 DEF GreenInv, GreenStore, GreenRun

LEMMA GreenSame ==
  ASSUME GreenInv, UNCHANGED <<store, run, greened, reclaimed>>
  PROVE  GreenInv'
BY DEF GreenInv, store

LEMMA GreenStoreSame ==
  ASSUME GreenInv, UNCHANGED store, greened \subseteq greened'
  PROVE  GreenStore'
BY DEF GreenInv, GreenStore, store

(* A run that goes where nothing is asked of it.                           *)
Free == Places \ {"first row", "save row", "fail row", "final row", "unlink", "unlink row"}

LEMMA FreeIsGreen ==
  ASSUME NEW in, in.at \in Free
  PROVE  GreenRun(in) /\ GreenRun(in)'
BY DEF Free, GreenRun

(* Only the last checkpoint of a run may say that it is completed.         *)
Tells(place, status) ==
  /\ place \in {"first row", "save row", "fail row"} => status # "completed"
  /\ place \notin {"unlink", "unlink row"}

LEMMA PutGreen ==
  ASSUME TypeOK, GreenInv, NEW r \in Runners, run[r] # None, NEW status \in Statuses,
         NEW place \in Places, SavePayload(r, status, place),
         Tells(place, status)
  PROVE  GreenInv'
<1>1. PICK to \in Run : /\ Becomes(r, to) /\ to.at = place /\ to.status = status
                        /\ to.id = run[r].id
  BY SaveBecomes
<1>2. run[r] \in Run BY DEF TypeOK
<1>3. PICK id \in Ids : id = run[r].id BY <1>2 DEF Run
<1>4. greened' = IF status = "completed" THEN greened \cup {id} ELSE greened
  BY <1>3 DEF SavePayload
<1>5. to.id = id BY <1>1, <1>3
<1>6. PICK p : p = Snapshot(r, status) OBVIOUS
<1>7. p.status = status BY <1>6 DEF Snapshot
<1>8. payload' = [payload EXCEPT ![id] = p] /\ row' = row
  BY <1>3, <1>6 DEF SavePayload, PutPayload
<1>9. GreenStore'
  <2>1. \A other \in Ids : payload'[other] = IF other = id THEN p ELSE payload[other]
    BY <1>8 DEF TypeOK, StoreType
  <2> QED BY <1>4, <1>7, <1>8, <2>1 DEF GreenInv, GreenStore
<1>10. GreenRun(to)' BY <1>1, <1>4, <1>5 DEF GreenRun, Tells
<1>11. greened \subseteq greened' /\ reclaimed' = reclaimed BY <1>4 DEF SavePayload
<1>12. run' = [run EXCEPT ![r] = to] BY <1>1 DEF Becomes
<1> QED BY <1>9, <1>10, <1>11, <1>12, GreenOne

LEMMA RowGreen ==
  ASSUME TypeOK, GreenInv, NEW r \in Runners, run[r] # None, SaveRow(r),
         run[r].at \in {"first row", "save row", "fail row", "final row"},
         Leave(r) \/ \E place \in Free : Goto(r, place)
  PROVE  GreenInv'
<1>1. run[r] \in Run BY DEF TypeOK
<1>2. PICK id \in Ids : id = run[r].id BY <1>1 DEF Run
<1>3. PICK p : p = RowOf(Snapshot(r, run[r].status)) OBVIOUS
<1>4. p.status = run[r].status BY <1>3 DEF Snapshot, RowOf
<1>5. row' = [row EXCEPT ![id] = p] /\ payload' = payload BY <1>2, <1>3 DEF SaveRow, PutRow
<1>6. p.status = "completed" => id \in greened BY <1>2, <1>4 DEF GreenInv
<1>7. greened' = greened /\ reclaimed' = reclaimed BY DEF SaveRow
<1>8. GreenStore'
  <2>1. \A other \in Ids : row'[other] = IF other = id THEN p ELSE row[other]
    BY <1>5 DEF TypeOK, StoreType
  <2> QED BY <1>5, <1>6, <1>7, <2>1 DEF GreenInv, GreenStore
<1>9. CASE Leave(r) BY <1>7, <1>8, <1>9, GreenOne DEF Leave
<1>10. CASE \E place \in Free : Goto(r, place)
  <2>1. PICK place \in Free : Goto(r, place) BY <1>10
  <2>2. PICK to \in Run : Becomes(r, to) /\ to.at = place
    BY <2>1, GotoBecomes DEF Free
  <2>3. GreenRun(to)' BY <2>2, FreeIsGreen
  <2>4. run' = [run EXCEPT ![r] = to] BY <2>2 DEF Becomes
  <2> QED BY <1>7, <1>8, <2>3, <2>4, GreenOne
<1> QED BY <1>9, <1>10

LEMMA MovingGreen ==
  ASSUME Inv, NEW r \in Runners, Moving(r), NothingAssumption
  PROVE  GreenInv'
<1>1. TypeOK /\ GreenInv BY DEF Inv
<1>2. run[r] # None /\ run[r] \in Run BY <1>1, MovingBecomes
<1>3. greened \subseteq greened' /\ reclaimed \subseteq reclaimed' BY <1>1, MovingWrites
<1>4. CASE First(r) \/ Save(r) \/ Fail(r) \/ Final(r)
  <2>1. PICK status \in Statuses, place \in Places :
          SavePayload(r, status, place) /\ Tells(place, status)
    BY <1>4, SavedHolds DEF Tells
  <2> QED BY <1>1, <1>2, <2>1, PutGreen
<1>5. CASE FirstRow(r) \/ SaveRowNext(r) \/ FailRow(r) \/ FinalRow(r)
  <2>1. SaveRow(r) /\ run[r].at \in {"first row", "save row", "fail row", "final row"}
    BY <1>5 DEF FirstRow, SaveRowNext, FailRow, FinalRow, At
  <2>2. "score" \in Free /\ "finish" \in Free BY DEF Free, Places
  <2>3. Leave(r) \/ \E place \in Free : Goto(r, place)
    BY <1>5, <2>2 DEF FirstRow, SaveRowNext, FailRow, FinalRow
  <2> QED BY <1>1, <1>2, <2>1, <2>3, RowGreen
<1>6. CASE Raise(r) \/ Finish(r)
  <2>1. "fail" \in Free /\ "prune" \in Free /\ Free \subseteq Places BY DEF Free, Places
  <2>2. PICK place \in Free : Goto(r, place) BY <1>6, <2>1 DEF Raise, Finish
  <2>3. PICK to \in Run : Becomes(r, to) /\ to.at = place BY <1>1, <1>2, <2>1, <2>2, GotoBecomes
  <2>4. GreenRun(to)' BY <2>3, FreeIsGreen
  <2>5. GreenStore' BY <1>1, <1>3, <1>6, GreenStoreSame DEF Raise, Finish
  <2> QED BY <1>1, <1>3, <2>3, <2>4, <2>5, GreenOne DEF Becomes
<1>7. CASE Die(r)
  <2>1. GreenStore' BY <1>1, <1>3, <1>7, GreenStoreSame DEF Die
  <2> QED BY <1>1, <1>3, <1>7, <2>1, GreenOne DEF Die, Leave
<1>8. CASE Prune(r)
  <2>1. UNCHANGED store /\ greened' = greened BY <1>8 DEF Prune
  <2>2. GreenStore' BY <1>1, <1>3, <2>1, GreenStoreSame
  <2>3. CASE Becomes(r, None) BY <1>1, <1>3, <2>2, <2>3, GreenOne DEF Becomes
  <2>4. CASE \E to \in Run, protect \in SUBSET Ids, keepLast \in KeepLasts, bound \in Bounds :
              /\ Becomes(r, to) /\ to.at = "unlink"
              /\ to.doomed = Doomed(protect, keepLast, bound, clock)
              /\ reclaimed' = reclaimed \cup Stale(protect, bound, clock)
    <3>1. PICK to \in Run, protect \in SUBSET Ids, keepLast \in KeepLasts, bound \in Bounds :
              /\ Becomes(r, to) /\ to.at = "unlink"
              /\ to.doomed = Doomed(protect, keepLast, bound, clock)
              /\ reclaimed' = reclaimed \cup Stale(protect, bound, clock)
      BY <2>4
    <3>2. \A id \in to.doomed : greened' # {} \/ id \in reclaimed'
      BY <1>1, <2>1, <3>1, DoomedMayGo
    <3>3. GreenRun(to)' BY <3>1, <3>2 DEF GreenRun
    <3>4. run' = [run EXCEPT ![r] = to] BY <3>1 DEF Becomes
    <3> QED BY <1>1, <1>3, <2>2, <3>3, <3>4, GreenOne
  <2> QED BY <1>1, <1>8, <2>3, <2>4, PruneBecomes
<1>9. CASE Unlink(r) \/ UnlinkRow(r)
  <2>1. greened' = greened /\ reclaimed' = reclaimed BY <1>9 DEF Unlink, UnlinkRow
  <2>2. GreenStore'
    <3>1. \E id : DropPayload(id) \/ DropRow(id) BY <1>9 DEF Unlink, UnlinkRow
    <3> QED BY <1>1, <2>1, <3>1 DEF GreenInv, GreenStore, DropPayload, DropRow, TypeOK, StoreType
  <2>3. \A id \in run[r].doomed : greened # {} \/ id \in reclaimed
    BY <1>1, <1>2, <1>9 DEF Unlink, UnlinkRow, At, GreenInv
  <2>4. CASE Leave(r) BY <1>1, <1>3, <2>2, <2>4, GreenOne DEF Leave
  <2>5. CASE \E to \in Run : /\ Becomes(r, to) /\ to.at \in {"unlink", "unlink row"}
                            /\ to.doomed \subseteq run[r].doomed
    <3>1. PICK to \in Run : /\ Becomes(r, to) /\ to.at \in {"unlink", "unlink row"}
                            /\ to.doomed \subseteq run[r].doomed
      BY <2>5
    <3>2. GreenRun(to)' BY <2>1, <2>3, <3>1 DEF GreenRun
    <3>3. run' = [run EXCEPT ![r] = to] BY <3>1 DEF Becomes
    <3> QED BY <1>1, <1>3, <2>2, <3>2, <3>3, GreenOne
  <2>6. CASE Unlink(r) BY <1>1, <2>5, <2>6, UnlinkBecomes
  <2>7. CASE UnlinkRow(r)
    <3>1. "unlink" \in Places BY DEF Places
    <3>2. Leave(r) \/ Goto(r, "unlink") BY <2>7 DEF UnlinkRow
    <3> QED BY <1>1, <1>2, <2>4, <2>5, <3>1, <3>2, GotoBecomes
  <2> QED BY <1>9, <2>6, <2>7
<1> QED BY <1>4, <1>5, <1>6, <1>7, <1>8, <1>9 DEF Moving

LEMMA GreenStep ==
  ASSUME Inv, RunAssumption, NothingAssumption, [Next]_vars
  PROVE  GreenInv'
<1>1. TypeOK /\ GreenInv /\ RunInv BY DEF Inv
<1>2. CASE UNCHANGED vars \/ Edit \/ Tick
  BY <1>1, <1>2, GreenSame DEF vars, Edit, Tick, store
<1>3. CASE \E r \in Runners : Fresh(r) \/ Recompute(r)
  <2>1. PICK r \in Runners, id \in Ids, filter \in SUBSET Cases : Mint(r, id, filter)
    BY <1>1, <1>3, Minting
  <2>2. PICK to : to = Launched(id, {}, filter, filter, {}) OBVIOUS
  <2>3. to.at \in Free BY <2>2 DEF Launched, Free, Places
  <2>4. GreenRun(to)' BY <2>3, FreeIsGreen
  <2>5. UNCHANGED store /\ greened' = greened /\ reclaimed' = reclaimed BY <2>1 DEF Mint
  <2>6. GreenStore' BY <1>1, <2>5, GreenStoreSame
  <2> QED BY <1>1, <2>1, <2>2, <2>4, <2>5, <2>6, GreenOne DEF Mint
<1>4. CASE \E r \in Runners : Resume(r)
  <2>1. PICK r \in Runners : Resume(r) BY <1>4
  <2>2. PICK to : run' = [run EXCEPT ![r] = to] /\ to.at \in {"first", "prune"}
    BY <2>1, ResumeKnows
  <2>3. GreenRun(to)' BY <2>2, FreeIsGreen DEF Free, Places
  <2>4. UNCHANGED store /\ greened' = greened /\ reclaimed' = reclaimed BY <2>1 DEF Resume
  <2>5. GreenStore' BY <1>1, <2>4, GreenStoreSame
  <2> QED BY <1>1, <2>2, <2>3, <2>4, <2>5, GreenOne
<1>5. CASE \E r \in Runners : Score(r)
  <2>1. PICK r \in Runners : Score(r) BY <1>5
  <2>2. PICK k \in Cases, to \in Run :
           /\ run[r] # None /\ run[r] \in Run
           /\ run' = [run EXCEPT ![r] = to]
           /\ to = ScoredRun(run[r], k, Judge(run[r].hash, k).pass)
           /\ UNCHANGED <<store, inputs, experiment, scope, greened, reclaimed>>
    BY <1>1, <2>1, Scoring
  <2>3. to.at = "save" BY <2>2, ScoredIsRun
  <2>4. GreenRun(to)' BY <2>3, FreeIsGreen DEF Free, Places
  <2>5. GreenStore' BY <1>1, <2>2, GreenStoreSame
  <2> QED BY <1>1, <2>2, <2>4, <2>5, GreenOne
<1>6. CASE \E r \in Runners : Moving(r) BY <1>6, MovingGreen
<1> QED BY <1>2, <1>3, <1>4, <1>5, <1>6, Steps
-----------------------------------------------------------------------------
LEMMA Inductive ==
  ASSUME Inv, RunAssumption, StoreAssumption, NothingAssumption, [Next]_vars
  PROVE  Inv'
<1>1. TypeOK /\ RunInv BY DEF Inv
<1>2. TypeOK' BY <1>1, TypeStep
<1> QED BY <1>2, VerdictStep, RunStep, PayloadStep, GreenStep DEF Inv

LEMMA Initial ==
  ASSUME Init, RunAssumption, StoreAssumption
  PROVE  Inv
<1>1. profile.suites \subseteq Suites BY DEF Init, RunAssumption, ProfileType
<1>2. 0 \in Time BY DEF Time, StoreAssumption
<1>3. TypeOK BY <1>1, <1>2 DEF Init, TypeOK, StoreType
<1>4. VerdictInv /\ RunInv /\ PayloadInv /\ GreenInv
  BY DEF Init, VerdictInv, RunInv, PayloadInv, GreenInv
<1> QED BY <1>3, <1>4 DEF Inv

(* The invariant above, in every behaviour.                                *)
THEOREM RunsKeepFaith == Spec => []Inv
<1>1. Init => Inv BY Initial, RunAssumption, StoreAssumption
<1>2. Inv /\ [Next]_vars => Inv'
  BY Inductive, RunAssumption, StoreAssumption, NothingAssumption
<1> QED BY <1>1, <1>2, PTL DEF Spec

(* The files, the locals of the runs and the inputs keep their types.      *)
THEOREM RunTypeCorrect == Spec => []TypeOK
<1>1. Inv => TypeOK BY DEF Inv
<1> QED BY <1>1, RunsKeepFaith, PTL

(* What a checkpoint counts as completed has a result on disk, scored from *)
(* the inputs the checkpoint stands for.                                   *)
THEOREM CheckpointHasResults == Spec => []ResultsBehindCheckpoint
<1>1. Inv => ResultsBehindCheckpoint
  <2>1. SUFFICES ASSUME Inv, NEW id \in Ids, payload[id] # None, NEW k \in payload[id].completed
                 PROVE  verdict[id][k] # None /\ verdict[id][k].hash = payload[id].hash
    BY DEF ResultsBehindCheckpoint
  <2>2. Holds(id, payload[id]) BY <2>1 DEF Inv, PayloadInv
  <2>3. payload[id] \in Payload BY <2>1 DEF Inv, TypeOK, StoreType
  <2>4. k \in Cases /\ payload[id].hash \in Hashes BY <2>1, <2>3 DEF Payload
  <2>5. verdict[id][k] # None /\ payload[id].hash = experiment[id].hash
    BY <2>1, <2>2 DEF Holds
  <2>6. verdict[id][k] = Judge(experiment[id].hash, k)
    BY <2>1, <2>4, <2>5 DEF Inv, VerdictInv
  <2> QED BY <2>4, <2>5, <2>6, JudgeIsVerdict
<1> QED BY <1>1, RunsKeepFaith, PTL

(* A checkpoint never loses a case, and never has it both behind it and    *)
(* ahead.                                                                  *)
THEOREM CasesAccountedFor == Spec => []NoCaseLost
<1>1. Inv => NoCaseLost BY DEF Inv, PayloadInv, Holds, NoCaseLost
<1> QED BY <1>1, RunsKeepFaith, PTL

(* Passing all that is required is having nothing wrong among it.          *)
LEMMA PassingIsClean ==
  ASSUME NEW policy \in Policy, NEW ev, DeterministicPass(policy, ev)
  PROVE  /\ "evaluator_error_free" \in policy.block => ~ EvaluatorErrors(ev)
         /\ Required(policy) \cap ev.failing \subseteq
              {"evaluator_error_free", "eval_input_nonempty"}
<1>1. ASSUME "evaluator_error_free" \in policy.block PROVE ~ EvaluatorErrors(ev)
  <2>1. "evaluator_error_free" \in Required(policy) BY <1>1 DEF Required, Advisory
  <2>2. Passes(ev, "evaluator_error_free") BY <2>1 DEF DeterministicPass
  <2>3. "evaluator_error_free" \notin S2C BY DEF S2C, MetricsOf, FamilyOf, Metrics
  <2> QED BY <2>2, <2>3 DEF Passes
<1>2. ASSUME NEW m \in Required(policy), m \in ev.failing,
             m # "evaluator_error_free", m # "eval_input_nonempty"
      PROVE  FALSE
  <2>1. Passes(ev, m) BY DEF DeterministicPass
  <2> QED BY <1>2, <2>1 DEF Passes
<1> QED BY <1>1, <1>2

(* A checkpoint that says "completed" has nothing pending, and no case of  *)
(* it had an evaluator that fell over or a required metric that said no.   *)
THEOREM GreenIsClean == Spec => []CompletedMeansClean
<1>1. Inv => CompletedMeansClean
  <2>1. SUFFICES ASSUME Inv, NEW id \in Ids, payload[id] # None,
                        payload[id].status = "completed"
                 PROVE  /\ payload[id].pending = {} /\ payload[id].completed # {}
                        /\ \A k \in payload[id].completed :
                             LET policy == suite[payload[id].hash].policy
                                 ev     == suite[payload[id].hash].bundle[k]
                             IN  /\ "evaluator_error_free" \in policy.block
                                      => ~ EvaluatorErrors(ev)
                                 /\ Required(policy) \cap ev.failing \subseteq
                                      {"evaluator_error_free", "eval_input_nonempty"}
    BY DEF CompletedMeansClean
  <2>2. PICK p \in Payload : p = payload[id] BY <2>1 DEF Inv, TypeOK, StoreType
  <2>3. Clean(p) BY <2>1, <2>2 DEF Inv, PayloadInv, Holds
  <2>4. p.pending = {} /\ p.completed # {} /\ \A k \in p.completed : Judge(p.hash, k).pass
    BY <2>1, <2>2, <2>3 DEF Clean
  <2>5. suite[p.hash].policy \in Policy
    <3>1. p.hash \in Hashes BY <2>2 DEF Payload
    <3>2. suite[p.hash] \in Suites BY <2>1, <3>1 DEF Inv, TypeOK
    <3> QED BY <3>2, RunAssumption DEF RunAssumption
  <2>6. ASSUME NEW k \in p.completed
        PROVE  /\ "evaluator_error_free" \in suite[p.hash].policy.block
                    => ~ EvaluatorErrors(suite[p.hash].bundle[k])
               /\ Required(suite[p.hash].policy) \cap suite[p.hash].bundle[k].failing \subseteq
                    {"evaluator_error_free", "eval_input_nonempty"}
    <3>1. DeterministicPass(suite[p.hash].policy, suite[p.hash].bundle[k])
      BY <2>4, <2>6 DEF Judge
    <3> QED BY <2>5, <3>1, PassingIsClean
  <2> QED BY <2>2, <2>4, <2>6
<1> QED BY <1>1, RunsKeepFaith, PTL

(* Only a deletion removes a checkpoint, and only of what was doomed.      *)
LEMMA RemovedWasDoomed ==
  ASSUME Inv, RunAssumption, NothingAssumption, [Next]_vars,
         NEW id \in Ids, payload[id] # None, payload'[id] = None
  PROVE  greened # {} \/ id \in reclaimed
<1>1. TypeOK /\ GreenInv BY DEF Inv
<1>2. payload' # payload OBVIOUS
<1>3. CASE UNCHANGED vars \/ Edit \/ Tick BY <1>2, <1>3 DEF vars, Edit, Tick, store
<1>4. CASE \E r \in Runners : Fresh(r) \/ Recompute(r)
  BY <1>1, <1>2, <1>4, Minting DEF Mint, store
<1>5. CASE \E r \in Runners : Resume(r) \/ Score(r) BY <1>2, <1>5 DEF Resume, Score, store
<1>6. CASE \E r \in Runners : Moving(r)
  <2>1. PICK r \in Runners : Moving(r) BY <1>6
  <2>2. run[r] # None /\ run[r] \in Run BY <1>1, <2>1, MovingBecomes
  <2>3. CASE First(r) \/ Save(r) \/ Fail(r) \/ Final(r)
    <3>1. PICK status \in Statuses : PutPayload(run[r].id, Snapshot(r, status))
      BY <2>3, SavedHolds DEF SavePayload
    <3>2. PICK p \in Payload : p = Snapshot(r, status) BY <1>1, <2>2, SnapshotType
    <3>3. payload'[id] = p \/ payload'[id] = payload[id]
      BY <1>1, <3>1, <3>2 DEF PutPayload, TypeOK, StoreType
    <3> QED BY <3>2, <3>3 DEF NothingAssumption
  <2>4. CASE FirstRow(r) \/ SaveRowNext(r) \/ FailRow(r) \/ FinalRow(r) \/ UnlinkRow(r)
    BY <1>2, <2>4 DEF FirstRow, SaveRowNext, FailRow, FinalRow, SaveRow, PutRow, UnlinkRow, DropRow
  <2>5. CASE Raise(r) \/ Die(r) \/ Finish(r) \/ Prune(r)
    BY <1>2, <2>5 DEF Raise, Die, Finish, Prune, store
  <2>6. CASE Unlink(r)
    <3>1. PICK victim \in run[r].doomed : payload' = [payload EXCEPT ![victim] = None]
      BY <2>6 DEF Unlink, DropPayload
    <3>2. id = victim BY <1>1, <3>1 DEF TypeOK, StoreType
    <3> QED BY <1>1, <2>2, <2>6, <3>1, <3>2 DEF Unlink, At, GreenInv
  <2> QED BY <2>1, <2>3, <2>4, <2>5, <2>6 DEF Moving
<1> QED BY <1>3, <1>4, <1>5, <1>6, Steps

(* The checkpoint of a failed run is removed only once some run of the     *)
(* suite has completed, or as one that had been running for too long.      *)
THEOREM FailedRunsKept == Spec => FailedKept
<1>1. Inv /\ [Next]_vars =>
        [\A id \in Ids :
           payload[id] # None /\ payload[id].status = "failed" /\ payload'[id] = None
             => greened # {} \/ id \in reclaimed]_vars
  BY RemovedWasDoomed, RunAssumption, NothingAssumption
<1> QED BY <1>1, RunsKeepFaith, PTL DEF Spec, FailedKept
=============================================================================
