-------------------------- MODULE RunOrchestrator --------------------------
(***************************************************************************)
(* Suite runs (run_evaluation in src/git_cg/eval/run_orchestrator.py):     *)
(* fresh runs, runs that resume a checkpoint and runs that score an older  *)
(* experiment again, over the checkpoint store (CheckpointStore) and the   *)
(* scorer (CaseScoring).                                                   *)
(*                                                                         *)
(* A run is a process: nothing locks the store, so two runs may overlap,   *)
(* even on one checkpoint, and a run may die between any two files that it *)
(* writes.  An experiment and its first checkpoint are minted together, so *)
(* one id stands for both.                                                 *)
(***************************************************************************)
EXTENDS CheckpointStore, CaseScoring

CONSTANTS
  Runners,       \* the processes that may run
  Suites,        \* what the suite may hold: a policy and a bundle per case
  KeepLasts,     \* the values of --keep-last
  Bounds,        \* the values of --reclaim-stale-running, 0 when not given
  Profiles       \* the circumstances considered

(* Circumstances, which bound what is explored: how many runs at a time,   *)
(* which experiments, the case selections asked for, when the clock stops, *)
(* whether the inputs are edited and what they may be, and whether runs    *)
(* may fall over.                                                          *)
ProfileType == [parallel : Nat, ids : SUBSET Ids,
                filters : SUBSET SUBSET Cases, horizon : Time, edits : BOOLEAN,
                faults : BOOLEAN, suites : SUBSET Suites]

ASSUME RunAssumption ==
  /\ KeepLasts \subseteq Nat /\ Bounds \subseteq Nat
  /\ Suites \subseteq [policy : Policy, bundle : [Cases -> Evidence]]
  /\ Profiles \subseteq ProfileType

Places ==
  {"first", "first row", "score", "save", "save row", "fail", "fail row",
   "final", "final row", "finish", "prune", "unlink", "unlink row"}

Verdict    == [hash : Hashes, pass : BOOLEAN, golden : BOOLEAN]
Experiment == [hash : Hashes, finished : BOOLEAN]

(* The locals of a run.  work: the cases still to be scored; passed: the   *)
(* completed cases it knows to have passed.                                *)
Run == [at : Places, id : Ids, hash : Hashes, started : Time,
         work : SUBSET Cases, completed : SUBSET Cases, pending : SUBSET Cases,
         passed : SUBSET Cases, status : Statuses,
         doomed : SUBSET Ids, victim : Ids]

(* "Nothing" is none of the files.                                         *)
ASSUME NothingAssumption ==
  None \notin Payload /\ None \notin Experiment /\ None \notin Verdict

VARIABLES
  profile,     \* the circumstances of this behaviour
  suite,       \* per hash: the inputs behind it
  live,        \* the hash a run that starts now computes
  clock,
  experiment,  \* per id: experiment.json
  verdict,     \* per id and case: the case result file
  run,         \* per process: its locals, None when it is not running
  scope,       \* history: per id, the cases it was minted for
  greened,     \* history: the ids whose checkpoint was ever completed
  reclaimed    \* history: the ids that a pruning took for stale running ones

vars == <<payload, row, profile, suite, live, clock, experiment, verdict, run, scope, greened, reclaimed>>
inputs == <<profile, suite, live, clock>>
store  == <<payload, row>>

TypeOK ==
  /\ StoreType /\ profile \in Profiles
  /\ suite \in [Hashes -> Suites] /\ live \in Hashes /\ clock \in Time
  /\ experiment \in [Ids -> Experiment \cup {None}]
  /\ verdict \in [Ids -> [Cases -> Verdict \cup {None}]]
  /\ run \in [Runners -> Run \cup {None}]
  /\ scope \in [Ids -> SUBSET Cases]
  /\ greened \subseteq Ids /\ reclaimed \subseteq Ids

Init ==
  /\ payload = [id \in Ids |-> None] /\ row = [id \in Ids |-> None]
  /\ profile \in Profiles
  /\ suite \in [Hashes -> profile.suites] /\ live \in Hashes /\ clock = 0
  /\ experiment = [id \in Ids |-> None]
  /\ verdict = [id \in Ids |-> [k \in Cases |-> None]]
  /\ run = [r \in Runners |-> None]
  /\ scope = [id \in Ids |-> {}]
  /\ greened = {} /\ reclaimed = {}
-----------------------------------------------------------------------------
At(r, place) == run[r] # None /\ run[r].at = place
Goto(r, place) == run' = [run EXCEPT ![r].at = place]
Leave(r) == run' = [run EXCEPT ![r] = None]

Idle(r) ==
  /\ run[r] = None
  /\ Cardinality({other \in Runners : run[other] # None}) < profile.parallel

(* What it would be to let a filter narrow what stays pending.             *)
LaunchedNarrowly(id, completed, pending, work, passed) ==
  [at |-> "first", id |-> id, hash |-> live, started |-> clock,
   work |-> work, completed |-> completed, pending |-> work, passed |-> passed,
   status |-> "running", doomed |-> {}, victim |-> id]

(* A run that starts now on an id, with this behind it and this ahead.     *)
Launched(id, completed, pending, work, passed) ==
  [at |-> "first", id |-> id, hash |-> live, started |-> clock,
   work |-> work, completed |-> completed, pending |-> pending, passed |-> passed,
   status |-> "running", doomed |-> {}, victim |-> id]

AllPass(r) == run[r].completed # {} /\ run[r].completed \subseteq run[r].passed

Snapshot(r, status) ==
  [status |-> status, started |-> run[r].started, hash |-> run[r].hash,
   completed |-> run[r].completed, pending |-> run[r].pending]

CompletedBefore(id, cases) == cases   \* trusts the checkpoint's word

PassedBefore(id, cases) ==
  {k \in cases : verdict[id][k] # None /\ verdict[id][k].pass}
-----------------------------------------------------------------------------
(* A fresh run mints an experiment for the cases asked for, and writes its *)
(* record before the first checkpoint.  A recompute is one that names a    *)
(* parent it can read, and has something to score.                         *)
Mint(r, id, filter) ==
  /\ experiment[id] = None
  /\ experiment' = [experiment EXCEPT ![id] = [hash |-> live, finished |-> FALSE]]
  /\ scope' = [scope EXCEPT ![id] = filter]
  /\ run' = [run EXCEPT ![r] = Launched(id, {}, filter, filter, {})]
  /\ UNCHANGED <<store, inputs, verdict, greened, reclaimed>>

Fresh(r) ==
  /\ Idle(r)
  /\ \E id \in profile.ids, filter \in profile.filters : Mint(r, id, filter)

Recompute(r) ==
  /\ Idle(r)
  /\ \E parent \in Ids : experiment[parent] # None
  /\ \E id \in profile.ids, filter \in profile.filters \ {{}} : Mint(r, id, filter)

Present(id)   == payload[id] # None   \* whatever it was written under
Resumable(id) == payload[id] # None /\ payload[id].hash = live

(* A resume takes a payload written under the same compat hash.  A filter  *)
(* narrows what is scored now, not what stays pending.  With nothing left  *)
(* it goes straight to pruning, and writes no checkpoint.                  *)
Resume(r) ==
  /\ Idle(r)
  /\ \E id \in Ids, filter \in profile.filters :
       /\ Resumable(id)
       /\ LET p     == payload[id]
              known == PassedBefore(id, p.completed)
              back  == Launched(id, p.completed, p.pending, p.pending \cap filter, known)
              green == p.completed # {} /\ p.completed = known
          IN  run' = [run EXCEPT ![r] =
                IF p.pending # {} THEN back
                ELSE [back EXCEPT !.at = "prune",
                                  !.status = IF green THEN "completed" ELSE "failed"]]
  /\ UNCHANGED <<store, inputs, experiment, verdict, scope, greened, reclaimed>>
-----------------------------------------------------------------------------
(* A checkpoint is saved as its payload, then its row.                     *)
SavePayload(r, status, place) ==
  /\ PutPayload(run[r].id, Snapshot(r, status))
  /\ run' = [run EXCEPT ![r].at = place, ![r].status = status]
  /\ greened' = IF status = "completed" THEN greened \cup {run[r].id} ELSE greened
  /\ UNCHANGED <<inputs, experiment, verdict, scope, reclaimed>>

SaveRow(r) ==
  /\ PutRow(run[r].id, Snapshot(r, run[r].status))
  /\ UNCHANGED <<inputs, experiment, verdict, scope, greened, reclaimed>>

First(r)    == At(r, "first") /\ SavePayload(r, "running", "first row")
FirstRow(r) == At(r, "first row") /\ SaveRow(r) /\ Goto(r, "score")

(* A case is scored, its result written, and only then is it counted as    *)
(* completed: in memory first, in the checkpoint next.                     *)
NextCase(r, k) == k \in run[r].work /\ \A other \in run[r].work : k <= other

Judge(hash, k) ==
  LET policy == suite[hash].policy
      ev     == suite[hash].bundle[k]
  IN  [hash |-> hash, pass |-> DeterministicPass(policy, ev),
       golden |-> GoldenPromotionEligible(policy, ev)]

Score(r) ==
  /\ At(r, "score")
  /\ \E k \in Cases :
       LET in == run[r]
           v  == Judge(in.hash, k)
       IN  /\ NextCase(r, k)
           /\ verdict' = [verdict EXCEPT ![in.id][k] = v]
           /\ run' = [run EXCEPT ![r] =
                [in EXCEPT !.at = "save", !.work = @ \ {k},
                           !.completed = @ \cup {k}, !.pending = @ \ {k},
                           !.passed = IF v.pass THEN @ \cup {k} ELSE @ \ {k}]]
  /\ UNCHANGED <<store, inputs, experiment, scope, greened, reclaimed>>

Save(r)        == At(r, "save") /\ SavePayload(r, "running", "save row")
SaveRowNext(r) == At(r, "save row") /\ SaveRow(r) /\ Goto(r, "score")

(* Scoring raises, or a write fails: the run says so in its checkpoint and *)
(* gives up.                                                               *)
Raise(r) ==
  /\ profile.faults
  /\ \/ At(r, "score") /\ run[r].work # {}
     \/ At(r, "save")
     \/ At(r, "save row")
  /\ Goto(r, "fail")
  /\ UNCHANGED <<store, inputs, experiment, verdict, scope, greened, reclaimed>>

Fail(r)    == At(r, "fail") /\ SavePayload(r, "failed", "fail row")
FailRow(r) == At(r, "fail row") /\ SaveRow(r) /\ Leave(r)
-----------------------------------------------------------------------------
FinalStatus(r) ==
  IF ~ AllPass(r) THEN "failed"
  ELSE IF run[r].pending = {} THEN "completed" ELSE "running"

Final(r) ==
  /\ At(r, "score") /\ run[r].work = {}
  /\ SavePayload(r, FinalStatus(r), "final row")

FinalRow(r) ==
  /\ At(r, "final row")
  /\ SaveRow(r)
  /\ IF run[r].status = "running" THEN Leave(r) ELSE Goto(r, "finish")

(* finished_at is written as well as can be.                               *)
Finish(r) ==
  /\ At(r, "finish")
  /\ \/ experiment' = [experiment EXCEPT ![run[r].id] = [@ EXCEPT !.finished = TRUE]]
     \/ UNCHANGED experiment
  /\ Goto(r, "prune")
  /\ UNCHANGED <<store, inputs, verdict, scope, greened, reclaimed>>

(* The terminal pruning: one look at the store, then the deletions.        *)
Prune(r) ==
  /\ At(r, "prune")
  /\ \E keep \in BOOLEAN, keepLast \in KeepLasts, bound \in Bounds :
       LET protect == IF keep \/ run[r].status # "completed" THEN {run[r].id} ELSE {}
           doomed  == Doomed(protect, keepLast, bound, clock)
       IN  /\ IF doomed = {} THEN Leave(r)
              ELSE run' = [run EXCEPT ![r].at = "unlink", ![r].doomed = doomed]
           /\ reclaimed' = reclaimed \cup Stale(protect, bound, clock)
  /\ UNCHANGED <<store, inputs, experiment, verdict, scope, greened>>

Unlink(r) ==
  /\ At(r, "unlink")
  /\ \E id \in run[r].doomed :
       /\ DropPayload(id)
       /\ run' = [run EXCEPT ![r].at = "unlink row", ![r].victim = id,
                             ![r].doomed = @ \ {id}]
  /\ UNCHANGED <<inputs, experiment, verdict, scope, greened, reclaimed>>

UnlinkRow(r) ==
  /\ At(r, "unlink row")
  /\ DropRow(run[r].victim)
  /\ IF run[r].doomed = {} THEN Leave(r) ELSE Goto(r, "unlink")
  /\ UNCHANGED <<inputs, experiment, verdict, scope, greened, reclaimed>>
-----------------------------------------------------------------------------
(* The process dies; the inputs are edited; time passes.                   *)
Die(r) ==
  /\ profile.faults
  /\ run[r] # None
  /\ Leave(r)
  /\ UNCHANGED <<store, inputs, experiment, verdict, scope, greened, reclaimed>>

Edit ==
  /\ profile.edits
  /\ live' \in Hashes \ {live}
  /\ UNCHANGED <<store, profile, suite, clock, experiment, verdict, run, scope, greened, reclaimed>>

Tick ==
  /\ clock < profile.horizon
  /\ clock' = clock + 1
  /\ UNCHANGED <<store, profile, suite, live, experiment, verdict, run, scope, greened, reclaimed>>

Step(r) ==
  \/ Fresh(r) \/ Recompute(r) \/ Resume(r)
  \/ First(r) \/ FirstRow(r)
  \/ Score(r) \/ Save(r) \/ SaveRowNext(r)
  \/ Raise(r) \/ Fail(r) \/ FailRow(r)
  \/ Final(r) \/ FinalRow(r) \/ Finish(r)
  \/ Prune(r) \/ Unlink(r) \/ UnlinkRow(r)
  \/ Die(r)

Next == Edit \/ Tick \/ \E r \in Runners : Step(r)

Spec == Init /\ [][Next]_vars
-----------------------------------------------------------------------------
(* What a checkpoint counts as completed has a result on disk, scored from *)
(* the inputs the checkpoint stands for: a run may die, be resumed, or     *)
(* overlap another, and a resume still never skips a case that has no      *)
(* result and never mixes the results of two versions of the inputs        *)
(* (run_orchestrator.py: the result is written before the checkpoint, and  *)
(* a resume asserts the compat hash).                                      *)
ResultsBehindCheckpoint ==
  \A id \in Ids : payload[id] # None =>
    \A k \in payload[id].completed :
      verdict[id][k] # None /\ verdict[id][k].hash = payload[id].hash

(* A checkpoint never loses a case: each one its run was minted for is     *)
(* either completed or pending, and not both, however often and however    *)
(* narrowly the run was resumed.                                           *)
NoCaseLost ==
  \A id \in Ids : payload[id] # None =>
    /\ payload[id].completed \cup payload[id].pending = scope[id]
    /\ payload[id].completed \cap payload[id].pending = {}

(* A checkpoint that says "completed" has nothing pending, and no case of  *)
(* it had an evaluator that fell over or a required metric that said no:   *)
(* a green run is never the product of a crash, a resume from results that *)
(* are gone, or of an exception swallowed by a family's try.               *)
CompletedMeansClean ==
  \A id \in Ids : payload[id] # None /\ payload[id].status = "completed" =>
    LET inputs_ == suite[payload[id].hash]
    IN  /\ payload[id].pending = {} /\ payload[id].completed # {}
        /\ \A k \in payload[id].completed :
             LET ev == inputs_.bundle[k]
             IN  /\ "evaluator_error_free" \in inputs_.policy.block => ~ EvaluatorErrors(ev)
                 /\ Required(inputs_.policy) \cap ev.failing \subseteq
                      {"evaluator_error_free", "eval_input_nonempty"}

(* The checkpoint of a failed run, which a resume needs, is removed only   *)
(* once some run of the suite has completed, or as one that had been       *)
(* running for too long when an operator asked to reclaim those; what any  *)
(* overlapping run saw when it set out to prune does not matter            *)
(* (prune_checkpoints).                                                    *)
FailedKept ==
  [][\A id \in Ids :
       payload[id] # None /\ payload[id].status = "failed" /\ payload'[id] = None
         => greened # {} \/ id \in reclaimed]_vars
=============================================================================
