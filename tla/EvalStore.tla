------------------------------ MODULE EvalStore ------------------------------
(***************************************************************************)
(* The files under .eval that the commands of src/git_cg/eval/cli.py share *)
(* and the processes that run the commands.  Nothing locks these files:    *)
(* every write is atomic by itself, and between two steps of one command   *)
(* any step of another may come, or the process may die.                   *)
(***************************************************************************)
EXTENDS EvalReports

CONSTANTS Procs,       \* concurrent command lines
          Exps,        \* experiments that can come to exist
          Cases, Metrics,
          Results,     \* results a case can score: [pass, failed]
          Bundles,     \* accept-path bundles
          Sources,     \* what a bundle holds: [v, shape, label, gate, redacts, profile]
          MaxCommands  \* commands started in a behaviour

(* What a case scored: the verdict of the gate, the metrics that failed.   *)
CaseRows == [pass : BOOLEAN, failed : SUBSET Metrics]

ASSUME StoreAssumption ==
  /\ MaxCommands \in Nat /\ IsFiniteSet(Cases)
  /\ Results \subseteq CaseRows
  /\ None # Broken /\ None \notin BOOLEAN \cup Nat

VARIABLES order,    \* experiment directories, the last modified last
          rows,     \* results by experiment and case
          parent,   \* experiment an experiment was recomputed from
          bundle,   \* contents of an accept-path bundle, or None
          issue,    \* rows of the issue store, by fingerprint
          snap,     \* diagnostic snapshots, by fingerprint
          files,    \* other files: exports, vault, replays, briefs, ...
          review,   \* a row of the review queue
          queue,    \* a row of the export queue
          job,      \* what each process is doing
          spent     \* commands started

desk  == <<review, queue>>
store == <<order, rows, parent, bundle, issue, snap, files, review, queue>>
vars  == <<order, rows, parent, bundle, issue, snap, files, review, queue, job, spent>>

Fingerprints == SUBSET Metrics
NoRows == [c \in Cases |-> None]

File(kind, id, of) == [kind |-> kind, id |-> id, of |-> of]
-----------------------------------------------------------------------------
(* A process: the command, where in it it is, what it has read, what it    *)
(* still has to write, and at the end its exit code and the word "ok" of   *)
(* its envelope (None: it died of an exception and printed none).          *)
Task(cmd, at) ==
  [cmd |-> cmd, id |-> spent + 1, at |-> at, exp |-> None, copy |-> None, base |-> None,
   seen |-> {}, todo |-> {}, exit |-> None, ok |-> None, wrote |-> FALSE, dry |-> FALSE]

Idle(p) == job[p] = None /\ spent < MaxCommands

Start(p, task) ==
  /\ Idle(p)
  /\ job' = [job EXCEPT ![p] = task]
  /\ spent' = spent + 1

At(p, cmd, at) == job[p] # None /\ job[p].cmd = cmd /\ job[p].at = at

Become(p, task) == job' = [job EXCEPT ![p] = task] /\ UNCHANGED spent

Ended(task, ok, exit) == [task EXCEPT !.at = "done", !.ok = ok, !.exit = exit, !.todo = {}]
Succeeded(task) == Ended(task, TRUE, 0)
Failed(task, exit) == [Ended(task, FALSE, exit) EXCEPT !.copy = None, !.seen = {}]
Crashed(task) == Ended(task, None, 1)
Wrote(task) == [task EXCEPT !.wrote = TRUE]

(* The caller sees the exit code; the process is gone.                     *)
Return(p) ==
  /\ job[p] # None /\ job[p].at = "done"
  /\ job' = [job EXCEPT ![p] = None]
  /\ UNCHANGED <<store, spent>>

(* A process may be killed between any two of its writes.                  *)
Die(p) ==
  /\ job[p] # None /\ job[p].at # "done"
  /\ job' = [job EXCEPT ![p] = None]
  /\ UNCHANGED <<store, spent>>
-----------------------------------------------------------------------------
(* The newest experiment is the directory modified last, finished or not.  *)
Newest == IF order = <<>> THEN None ELSE Last(order)
Exists(e) == e \in Range(order)
Touched(e) == Append(RemoveFirst(order, e), e)

(* _resolve_experiment_and_case: an experiment that was named need not     *)
(* exist, it then has no cases; a case that was named must be there.       *)
ResultsOf(e) == IF Exists(e) THEN rows[e] ELSE NoRows

Resolved(exp, case) ==
  LET e == IF exp = None THEN Newest ELSE exp
      found(exit, cases) == [exit |-> exit, exp |-> e, cases |-> cases] IN
  IF e = None THEN found(2, {})
  ELSE IF Unreadable(ResultsOf(e)) THEN found(4, {})
  ELSE IF case = None THEN found(0, CaseResults(ResultsOf(e)))
  ELSE IF case \in CaseResults(ResultsOf(e)) THEN found(0, {case})
  ELSE found(2, {})

(* A run: the experiment's record is written first, then one row per case, *)
(* and the record once more at the end, which makes it the newest.         *)
Begins(p, cmd, e, from) ==
  /\ ~ Exists(e)
  /\ Start(p, Wrote([Task(cmd, "scoring") EXCEPT !.exp = e, !.todo = Cases]))
  /\ order' = Touched(e)
  /\ rows' = [rows EXCEPT ![e] = NoRows]
  /\ parent' = [parent EXCEPT ![e] = from]
  /\ UNCHANGED <<bundle, issue, snap, files, desk>>

BeginRun(p) == \E e \in Exps : Begins(p, "run", e, None)

Recompute(p) == \E e \in Exps, from \in Range(order) : Begins(p, "recompute", e, from)

(* A resume scores what has no row yet.                                    *)
ResumeRun(p) ==
  \E e \in Range(order) :
    /\ \A q \in Procs : job[q] # None /\ job[q].at = "scoring" => job[q].exp # e
    /\ Start(p, Wrote([Task("resume", "scoring") EXCEPT
                        !.exp = e, !.todo = Cases \ CaseResults(rows[e])]))
    /\ order' = Touched(e)
    /\ UNCHANGED <<rows, parent, bundle, issue, snap, files, desk>>

ScoreCase(p) ==
  /\ job[p] # None /\ job[p].at = "scoring"
  /\ \E c \in job[p].todo, r \in Results :
       /\ rows' = [rows EXCEPT ![job[p].exp][c] = r]
       /\ Become(p, [job[p] EXCEPT !.todo = @ \ {c}])
  /\ UNCHANGED <<order, parent, bundle, issue, snap, files, desk>>

FinishRun(p) ==
  /\ job[p] # None /\ job[p].at = "scoring" /\ job[p].todo = {}
  /\ LET exit == IF FailingCases(rows[job[p].exp]) = {} THEN 0 ELSE 1 IN
     Become(p, Ended(job[p], exit = 0, exit))
  /\ order' = Touched(job[p].exp)
  /\ UNCHANGED <<rows, parent, bundle, issue, snap, files, desk>>

(* A case row that cannot be written ends the run where it is.             *)
AbortRun(p) ==
  /\ job[p] # None /\ job[p].at = "scoring"
  /\ Become(p, Failed(job[p], 4))
  /\ UNCHANGED store

(* What ends a run before it writes: a resume without a checkpoint, a      *)
(* recomputation without an experiment, an unresolvable repository, a      *)
(* diverging compatibility hash, a store that is not sound.                *)
RefuseRun(p) ==
  \E cmd \in {"run", "resume", "recompute"}, exit \in 1..4 :
    /\ exit = 3 => cmd = "resume"
    /\ Start(p, Failed(Task(cmd, "start"), exit))
    /\ UNCHANGED store
-----------------------------------------------------------------------------
(* The accept path, a program of its own, adds and rewrites bundles; each  *)
(* time it does counts as a command.                                       *)
Rebind(b) ==
  /\ spent < MaxCommands
  /\ IF bundle[b] = None
     THEN \E s \in Sources : bundle' = [bundle EXCEPT ![b] = s]
     ELSE bundle' = [bundle EXCEPT ![b].v = @ + 1, ![b].shape = "sound"]
  /\ spent' = spent + 1
  /\ UNCHANGED <<order, rows, parent, issue, snap, files, desk, job>>

(* gc wants to be told what and how old, then removes bundles; an error on *)
(* the way leaves what was removed so far.                                 *)
GcCmd(p) ==
  \/ \E exit \in {1, 2} : Start(p, Failed(Task("gc", "start"), exit)) /\ UNCHANGED store
  \/ \E old \in SUBSET Bundles, dry, fails \in BOOLEAN :
       LET task == [Task("gc", "start") EXCEPT !.wrote = ~ dry, !.dry = dry] IN
       /\ Start(p, IF fails THEN Failed(task, 4) ELSE Succeeded(task))
       /\ bundle' = IF dry THEN bundle
                    ELSE [b \in Bundles |-> IF b \in old THEN None ELSE bundle[b]]
       /\ UNCHANGED <<order, rows, parent, issue, snap, files, desk>>
=============================================================================
