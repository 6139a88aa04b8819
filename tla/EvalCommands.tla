----------------------------- MODULE EvalCommands -----------------------------
(***************************************************************************)
(* The command line of the evaluation harness (src/git_cg/eval/cli.py) as  *)
(* concurrent processes over one .eval directory: runs, diagnostics,       *)
(* retention, and the handlers of the review queue, the export queue and   *)
(* promotion.  The latter are one step here, with the row they leave and   *)
(* the exit code; what comes between their reads and their writes is in    *)
(* ReviewQueue, ExportQueue and Promotion.                                 *)
(***************************************************************************)
EXTENDS Diagnostics, Retention

CONSTANTS Environments,   \* configurations of the export
          Remotes,        \* what the remote service answers
          Queues,         \* what the export queue holds, by status
          Stores          \* stores the behaviours start from

ASSUME StoresAssumption ==
  \A s \in Stores :
    /\ s.order \in Seq(Exps)
    /\ s.rows \in [Exps -> [Cases -> CaseRows \cup {None, Broken}]]
    /\ s.issue \in [Fingerprints -> IssueRows \cup {None, Broken}]
    /\ s.snap \in [Fingerprints -> Nat \cup {None}]
    /\ \A f \in Fingerprints : s.snap[f] # None => s.issue[f] # None

(* A handler's answer: the exit code and the row it leaves.                *)
Answer(exit, row) == [exit |-> exit, row |-> row]
-----------------------------------------------------------------------------
(* A row of the review queue: its status, who claimed it, the outcome of   *)
(* its adjudication, and whether the two fields that name its reviewer     *)
(* disagree.                                                               *)
ReviewRow(status, by, outcome, damaged) ==
  [status |-> status, by |-> by, outcome |-> outcome, damaged |-> damaged]

ReviewOutcomes == {"approve_promote", "reject", "needs_work", "dismiss"}

ReviewMoves ==
  [pending |-> {"in_review", "dismissed"},
   in_review |-> {"adjudicated", "dismissed", "pending"},
   adjudicated |-> {}, dismissed |-> {}]

(* A row that is named must be there and readable; one that is to be       *)
(* changed must not be damaged.                                            *)
OnRow(row, answer) ==
  IF row = None THEN Answer(2, row) ELSE IF row = Broken THEN Answer(4, row) ELSE answer

OnSoundRow(row, answer) ==
  OnRow(row, IF row \in {None, Broken} \/ ~ row.damaged THEN answer ELSE Answer(4, row))

Kept(dry, row, new) == IF dry THEN row ELSE new

(* sound: the reviewer's handle, the profile, the regime and the dispute   *)
(* are words that are known, and a case or a bundle is named.  The review  *)
(* gets an id of its own.                                                  *)
ReviewEnqueue(row, sound, dry) ==
  IF ~ sound THEN Answer(2, row)
  ELSE IF row # None THEN Answer(0, row)
  ELSE Answer(0, Kept(dry, row, ReviewRow("pending", None, None, FALSE)))

(* Rows that cannot be read are passed over; the filter must be a status.  *)
ReviewList(row, filter) ==
  Answer(IF filter \in {None} \cup DOMAIN ReviewMoves THEN 0 ELSE 2, row)

(* The same rows, grouped; a filter must not be blank.                     *)
ReviewRollup(row, blank) == Answer(IF blank THEN 2 ELSE 0, row)

ReviewShow(row) == OnRow(row, Answer(0, row))

(* handle: the reviewer's, None if it is none; held: somebody else's claim *)
(* file is there.                                                          *)
ReviewClaim(row, handle, held, dry) ==
  IF handle = None \/ (held /\ ~ dry) THEN Answer(2, row)
  ELSE OnSoundRow(row,
         IF row.status = "pending"
         THEN Answer(0, Kept(dry, row, [row EXCEPT !.status = "in_review", !.by = handle]))
         ELSE IF row.status = "in_review" /\ row.by = handle THEN Answer(0, row)
         ELSE Answer(2, row))

ReviewTarget(outcome) == IF outcome = "dismiss" THEN "dismissed" ELSE "adjudicated"

ReviewAdjudicate(row, outcome, handle, dry) ==
  IF outcome \notin ReviewOutcomes THEN Answer(2, row)
  ELSE OnSoundRow(row,
         IF ReviewTarget(outcome) \notin ReviewMoves[row.status] \/ handle = None
         THEN Answer(2, row)
         ELSE Answer(0, Kept(dry, row, [row EXCEPT !.status = ReviewTarget(outcome),
                                                   !.outcome = outcome])))

ReviewDismiss(row, reason, handle, dry) ==
  IF ~ reason THEN Answer(2, row) ELSE ReviewAdjudicate(row, "dismiss", handle, dry)

ReviewAnswers(row) ==
  {ReviewEnqueue(row, sound, dry) : sound, dry \in BOOLEAN}
  \cup {ReviewList(row, filter) : filter \in {None, "pending", "nonsense"}}
  \cup {ReviewRollup(row, blank) : blank \in BOOLEAN} \cup {ReviewShow(row)}
  \cup {ReviewClaim(row, handle, held, dry) :
           handle \in {None, "me"}, held, dry \in BOOLEAN}
  \cup {ReviewAdjudicate(row, outcome, handle, dry) :
           outcome \in ReviewOutcomes \cup {"nonsense"}, handle \in {None, "me"}, dry \in BOOLEAN}
  \cup {ReviewDismiss(row, reason, handle, dry) :
           handle \in {None, "me"}, reason, dry \in BOOLEAN}
-----------------------------------------------------------------------------
(* A row of the export queue: its status and the class of its last error.  *)
QueueRow(status, error) == [status |-> status, error |-> error]

(* status reads the configuration if it can, and complains of a mode       *)
(* nobody knows; without a repository it has nothing to show.              *)
ExportStatus(env, repo, row) ==
  LET config == ResolveConfig(env) IN
  IF ~ repo THEN Answer(1, row)
  ELSE IF ~ config.raises /\ config.fallback THEN Answer(2, row) ELSE Answer(0, row)

(* retry never fails, not even without a repository or with an id nobody   *)
(* has.  room: the cap on rows is not reached.                             *)
Retryable == {"", "export_network", "export_timeout"}

ExportRetry(repo, force, room, row) ==
  Answer(0, IF /\ repo /\ room /\ row \notin {None, Broken}
               /\ row.status = "failed" /\ (force \/ row.error \in Retryable)
            THEN [row EXCEPT !.status = "pending"] ELSE row)

(* What a drain may leave of a row: it takes pending rows, failed ones it  *)
(* may retry, and those whose lease has run out.                           *)
DrainedRows(row) ==
  IF row \in {None, Broken} \/ row.status \in {"sent", "dropped"} THEN {row}
  ELSE {row, [row EXCEPT !.status = "pending"], QueueRow("sent", "")}
       \cup {QueueRow("failed", e) : e \in {"export_network", "export_auth"}}

ExportDrain(env, repo, dry, row) ==
  LET config == ResolveConfig(env) IN
  IF config.raises \/ config.fallback THEN {Answer(2, row)}
  ELSE IF config.mode = "off" \/ ~ repo \/ dry THEN {Answer(0, row)}
  ELSE {Answer(0, new) : new \in DrainedRows(row)}

(* The commands under their dashed names, which only warn.                 *)
ExportAnswers(row) ==
  {ExportStatus(env, repo, row) : env \in Environments, repo \in BOOLEAN}
  \cup {ExportRetry(repo, force, room, row) : repo, force, room \in BOOLEAN}
  \cup UNION {ExportDrain(env, repo, dry, row) :
                 env \in Environments, repo, dry \in BOOLEAN}
-----------------------------------------------------------------------------
(* Commands that leave .eval as it is, by their exit codes.                *)

(* A session id must have its shape, exist, be readable and valid, be the  *)
(* one the file claims, and be open or closed.  flaws: what is not so.     *)
TwinFlaws == {"bad_id", "missing", "broken", "other_id", "no_lifecycle"}

ReadTwin(flaws) ==
  IF flaws \cap {"bad_id", "missing"} # {} THEN 2 ELSE IF flaws # {} THEN 4 ELSE 0

SessionShow(flaws) == ReadTwin(flaws)
ThreadShow(flaws)  == ReadTwin(flaws)

(* Checkpoints that cannot be read are passed over.                        *)
CheckpointList(repo) == IF repo THEN 0 ELSE 1

(* The reference files of the corpus, outside .eval.                       *)
Materialize(builds) == IF builds THEN 0 ELSE 1

(* One of a path and a case id, not both; what it names must load, be in   *)
(* the suite and encode.                                                   *)
EncodeFixture(path, id, encodes) ==
  IF path = id THEN 2 ELSE IF encodes THEN 0 ELSE 1

ConfigShow(env) ==
  LET config == ResolveConfig(env) IN
  IF config.raises \/ Health(config) = "config_error" THEN 2 ELSE 0

ConfigAlias(env, action) == IF action = "show" THEN ConfigShow(env) ELSE 2

OpikDoctorCmd(env, key, states) == OpikDoctor(env, key, states).exit

OpikVerifyCmd(env, asked, create, remote) ==
  IF create /\ ~ asked THEN 2 ELSE OpikVerify(env, asked, create, remote).exit

ShowExits ==
  {SessionShow(flaws) : flaws \in SUBSET TwinFlaws}
  \cup {ThreadShow(flaws) : flaws \in SUBSET TwinFlaws}
  \cup {CheckpointList(repo) : repo \in BOOLEAN}
  \cup {Materialize(builds) : builds \in BOOLEAN}
  \cup {EncodeFixture(path, id, encodes) : path, id, encodes \in BOOLEAN}

OpikExits ==
  {ConfigAlias(env, action) : env \in Environments, action \in {"show", "set"}}
  \cup {OpikDoctorCmd(env, key, states) :
           env \in Environments, key \in BOOLEAN, states \in Queues}
  \cup {OpikVerifyCmd(env, asked, create, remote) :
           env \in Environments, asked, create \in BOOLEAN, remote \in Remotes}
-----------------------------------------------------------------------------
Answered(cmd, exit, wrote) ==
  [Ended(Task(cmd, "start"), exit = 0, exit) EXCEPT !.wrote = wrote]

ReviewCmd(p) ==
  \E a \in ReviewAnswers(review) :
    /\ Start(p, Answered("review", a.exit, a.row # review))
    /\ review' = a.row
    /\ UNCHANGED <<order, rows, parent, bundle, issue, snap, files, queue>>

ExportCmd(p) ==
  \E a \in ExportAnswers(queue) :
    /\ Start(p, Answered("export", a.exit, a.row # queue))
    /\ queue' = a.row
    /\ UNCHANGED <<order, rows, parent, bundle, issue, snap, files, review>>

ShowCmd(p) ==
  /\ \E exit \in ShowExits \cup OpikExits : Start(p, Answered("show", exit, FALSE))
  /\ UNCHANGED store

(* A promotion that is denied is refused (2) or a source that is not sound *)
(* (4); once the source is found it leaves its decision behind.  One that  *)
(* is accepted leaves the decision and, except for a reject, the artifact. *)
Promoted(id, accepted, rejects) ==
  {File("decision", id, {})}
  \cup IF accepted /\ ~ rejects THEN {File("artifact", id, {})} ELSE {}

PromoteCmd(p) ==
  \/ \E exit \in {2, 4} :
       Start(p, Answered("promote", exit, FALSE)) /\ UNCHANGED store
  \/ \E exit \in {0, 2}, dry, rejects \in BOOLEAN :
       /\ Start(p, [Answered("promote", exit, ~ dry) EXCEPT !.dry = dry])
       /\ files' = files \cup IF dry THEN {} ELSE Promoted(spent + 1, exit = 0, rejects)
       /\ UNCHANGED <<order, rows, parent, bundle, issue, snap, desk>>
-----------------------------------------------------------------------------
Init ==
  /\ \E s \in Stores :
       /\ order = s.order /\ rows = s.rows /\ issue = s.issue /\ snap = s.snap
       /\ bundle = s.bundle /\ review = s.review /\ queue = s.queue
  /\ parent = [e \in Exps |-> None]
  /\ files = {}
  /\ job = [p \in Procs |-> None]
  /\ spent = 0

Ends(p) == job[p] # None /\ job[p].at = "done"

Starts(p) ==
  \/ BeginRun(p) \/ Recompute(p) \/ ResumeRun(p) \/ RefuseRun(p)
  \/ DiagnosticsStarts(p) \/ RetentionStarts(p)
  \/ GcCmd(p) \/ ReviewCmd(p) \/ ExportCmd(p) \/ ShowCmd(p) \/ PromoteCmd(p)

Steps(p) ==
  \/ ScoreCase(p) \/ FinishRun(p) \/ AbortRun(p)
  \/ DiagnosticsSteps(p) \/ RetentionSteps(p) \/ Die(p)

(* A command that has come to its end touches nothing shared any more, so  *)
(* it is let go before anybody else moves.                                 *)
Next ==
  \/ \E p \in Procs : Return(p)
  \/ /\ \A p \in Procs : ~ Ends(p)
     /\ \/ \E p \in Procs : (Idle(p) /\ Starts(p)) \/ Steps(p)
        \/ \E b \in Bundles : Rebind(b)

Spec == Init /\ [][Next]_vars
-----------------------------------------------------------------------------
(* What a script concludes from a finished command is so: the envelope     *)
(* says ok exactly when the exit code is 0; a command that was refused (2) *)
(* has written nothing, the record of a denied promotion apart; and one    *)
(* that ended well, if it was to write, has left every file it names: all  *)
(* rows of the manifest, the vault's copy of every hard negative, both     *)
(* halves of a replay, the issue and its snapshot.                         *)
Named(t) ==
  IF t.cmd = "train_export"
  THEN {File("manifest", t.id, t.seen)} \cup {File("row", t.id, {b}) : b \in t.seen}
       \cup {File("vault", t.id, {b}) : b \in t.copy}
  ELSE IF t.cmd = "replay"
  THEN {File("replay_bundle", t.id, {t.exp}), File("compare", t.id, {t.exp})}
  ELSE {}

VerdictTellsTruth ==
  \A p \in Procs : Ends(p) =>
    LET t == job[p] IN
    /\ (t.ok = TRUE) <=> (t.exit = 0)
    /\ t.exit = 2 /\ t.cmd # "promote" => ~ t.wrote
    /\ t.exit = 0 /\ ~ t.dry => Named(t) \subseteq files
    /\ t.cmd = "diagnose" /\ t.exit = 0 /\ ~ t.dry =>
         issue[t.base] # None /\ snap[t.base] # None

(* The issue store has no lock.  As long as nobody writes a row from a     *)
(* copy that another command has overtaken, an issue's status moves only   *)
(* along the closed matrix, its occurrences only grow, and what is known   *)
(* of it (its cases, its evidence) is never lost.                          *)
Overtaken(f) ==
  \E p \in Procs :
    /\ At(p, "diagnose", "row") \/ At(p, "transition", "write")
    /\ job'[p] # job[p]
    /\ job[p].base = f /\ job[p].seen # {issue[f]}

Follows(old, new) ==
  /\ new.status # old.status => new.status \in TRANSITIONS[old.status]
  /\ new.count >= old.count /\ old.cases \subseteq new.cases
  /\ old.evidence => new.evidence

IssueMovesByTheMatrix ==
  [][\A f \in Fingerprints :
       issue[f] \notin {None, Broken} /\ ~ Overtaken(f) => Follows(issue[f], issue'[f])]_vars

(* Wherever a command was killed, no file refers to one that is not there: *)
(* a snapshot to its issue, a comparison to its replay, an exported row to *)
(* the manifest that names it, a copy in the vault to its row.             *)
NothingDangles ==
  /\ \A f \in Fingerprints : snap[f] # None => issue[f] # None
  /\ \A f \in files :
       /\ f.kind = "compare" => File("replay_bundle", f.id, f.of) \in files
       /\ f.kind = "row" => \E m \in files :
            m.kind = "manifest" /\ m.id = f.id /\ f.of \subseteq m.of
       /\ f.kind = "vault" => File("row", f.id, f.of) \in files

(* While runs come and go, a triage that explains the case it has itself   *)
(* found to be the only failure explains it in the experiment in which it  *)
(* found it.                                                               *)
TriageSpeaksOfOneRun ==
  \A p \in Procs : Ends(p) /\ job[p].cmd = "triage" =>
    \A x, y \in job[p].seen :
      x.part = "failures" /\ y.part = "selected" => x.exp = y.exp /\ y.cases = x.cases
=============================================================================
