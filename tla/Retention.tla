------------------------------ MODULE Retention ------------------------------
(***************************************************************************)
(* The commands that keep things: train-export (train_export.py with       *)
(* mirror/train.py), replay (replay.py), amend-brief (brief.py) and        *)
(* dogfood (dogfood/capture.py).  They read bundles that the accept path   *)
(* and gc may rewrite or remove meanwhile, and write several files.        *)
(***************************************************************************)
EXTENDS EvalStore

CONSTANTS BundleOf,   \* the bundle a case of a run was scored from
          Captures,   \* requests to dogfood
          Versions    \* histories of a session's message

(* Every profile of redaction but the raw one can be exported with.        *)
ExportProfiles == {"public_ci", "default_scrub", "private_message", "train_rich",
                   "antipattern_vault", "message_only", "meta_eval_scrub"}
-----------------------------------------------------------------------------
(* train_export.  A bundle is positive, negative or says nothing.          *)
RowLabel(b) ==
  CASE b.label = "positive" -> "positive"
    [] b.label = "negative" -> "hard_negative"
    [] OTHER -> None

(* What the redacted bundle becomes: it needs a label, and a profile on    *)
(* which its two places agree.                                             *)
TrainProfile(b) == IF b.profile \in {"unset", "unknown", "disagree"} THEN None ELSE b.profile

ProjectRow(b) == RowLabel(b) # None /\ TrainProfile(b) # None

(* capture_on = "fail" drops nothing here.                                 *)
Exported(b, captureOn) ==
  /\ RowLabel(b) # None
  /\ ~ (captureOn = "pass" /\ b.gate = FALSE)
  /\ b.redacts
  /\ ProjectRow(b)

PositiveGold(chosen, held) == {b \in chosen : RowLabel(held[b]) = "positive"}

(* Bundles that are named must be there; but where nobody has made their   *)
(* directory yet, whatever is named is an export of nothing.               *)
Chosen(ids, there, noDirectory) ==
  IF noDirectory THEN {} ELSE IF ids = None THEN there ELSE ids

TrainExportStart(p) ==
  \E ids \in SUBSET Bundles \cup {None}, profile \in {"train_rich", "raw_dev_unsafe"},
     captureOn \in {"pass", "all", "nonsense"}, dry, noDirectory \in BOOLEAN :
    LET there  == {b \in Bundles : bundle[b] # None}
        chosen == Chosen(ids, there, noDirectory)
        usable == /\ profile \in ExportProfiles
                  /\ captureOn \in {"pass", "fail", "all"}
                  /\ chosen \subseteq there
        task   == [Task("train_export", "read") EXCEPT
                     !.todo = chosen, !.base = captureOn, !.dry = dry] IN
    /\ noDirectory => there = {}
    /\ Start(p, IF usable THEN task ELSE Failed(Task("train_export", "start"), 2))
    /\ UNCHANGED store

(* A bundle that was listed and is gone, or is no JSON, ends the export.   *)
Loads(b) == bundle[b] # None /\ bundle[b].shape # "unparsable"

TrainExportRead(p) ==
  /\ At(p, "train_export", "read")
  /\ LET t    == job[p]
         kept == {b \in t.todo : Exported(bundle[b], t.base)}
         bad  == kept \ PositiveGold(kept, bundle) IN
     Become(p, IF \E b \in t.todo : ~ Loads(b) THEN Failed(t, 4)
               ELSE IF t.dry THEN Succeeded([t EXCEPT !.todo = {}])
               ELSE [t EXCEPT !.at = "manifest", !.todo = kept, !.seen = kept, !.copy = bad])
  /\ UNCHANGED store

WritesFile(f) ==
  /\ files' = files \cup {f}
  /\ UNCHANGED <<order, rows, parent, bundle, issue, snap, desk>>

(* The manifest names all rows before the first of them exists.            *)
WriteManifest(p) ==
  /\ At(p, "train_export", "manifest")
  /\ WritesFile(File("manifest", job[p].id, job[p].seen))
  /\ Become(p, Wrote([job[p] EXCEPT !.at = "rows"]))

WriteTrainRow(p) ==
  /\ At(p, "train_export", "rows")
  /\ \E b \in job[p].todo :
       /\ WritesFile(File("row", job[p].id, {b}))
       /\ Become(p, [job[p] EXCEPT !.todo = @ \ {b}])

(* Hard negatives are copied to the vault once all rows are there.         *)
RowsWritten(p) ==
  /\ At(p, "train_export", "rows") /\ job[p].todo = {}
  /\ Become(p, [job[p] EXCEPT !.at = "vault", !.todo = job[p].copy])
  /\ UNCHANGED store

WriteVault(p) ==
  /\ At(p, "train_export", "vault")
  /\ IF job[p].todo = {} THEN Become(p, Succeeded(job[p])) /\ UNCHANGED store
     ELSE \E b \in job[p].todo :
            /\ WritesFile(File("vault", job[p].id, {b}))
            /\ Become(p, [job[p] EXCEPT !.todo = @ \ {b}])
-----------------------------------------------------------------------------
(* replay: of a bundle that is named, else of the one a case of an         *)
(* experiment was scored from; for the latter both must be named.          *)
ReplayCase(exp, case) ==
  IF exp = None \/ case = None THEN None ELSE ResultsOf(exp)[case]

ReplaySource(exp, case, b) ==
  IF b # None THEN b
  ELSE IF ReplayCase(exp, case) = None THEN None ELSE BundleOf[case]

(* A source must be a bundle by its name and schema; only a case that      *)
(* cannot be read is an error of the store.                                *)
ReplayResolve(p) ==
  \E exp \in Exps \cup {None}, case \in Cases \cup {None}, b \in Bundles \cup {None},
     dry \in BOOLEAN :
    LET broken == b = None /\ ReplayCase(exp, case) = Broken
        source == ReplaySource(exp, case, b)
        found  == /\ source # None /\ bundle[source] # None
                  /\ bundle[source].shape \in {"sound", "invalid"}
        task   == [Task("replay", "bytes") EXCEPT !.dry = dry] IN
    /\ b # None => exp = None /\ case = None   \* they would not be looked at
    /\ Start(p, IF broken THEN Failed(task, 4)
                ELSE IF ~ found THEN Failed(task, 2)
                ELSE [task EXCEPT !.exp = source, !.copy = bundle[source]])
    /\ UNCHANGED store

(* The bytes that must not change are read after the bundle was parsed; if *)
(* the file is gone by then nobody catches it.  What was parsed becomes    *)
(* the replay, which must be a valid bundle, dry run or not.               *)
ReplayBytes(p) ==
  /\ At(p, "replay", "bytes")
  /\ LET t == job[p] IN
     Become(p, IF bundle[t.exp] = None THEN Crashed(t)
               ELSE IF t.copy.shape # "sound" THEN Failed(t, 4)
               ELSE IF t.dry THEN Succeeded(t)
               ELSE [t EXCEPT !.at = "bundle", !.base = bundle[t.exp]])
  /\ UNCHANGED store

(* As if the comparison were written before the replay it is about.        *)
ReplayWriteBundle_CompareFirst(p) ==
  /\ At(p, "replay", "bundle")
  /\ WritesFile(File("compare", job[p].id, {job[p].exp}))
  /\ Become(p, Wrote([job[p] EXCEPT !.at = "compare"]))

ReplayWriteBundle(p) ==
  /\ At(p, "replay", "bundle")
  /\ WritesFile(File("replay_bundle", job[p].id, {job[p].exp}))
  /\ Become(p, Wrote([job[p] EXCEPT !.at = "compare"]))

ReplayWriteCompare(p) ==
  /\ At(p, "replay", "compare")
  /\ WritesFile(File("compare", job[p].id, {job[p].exp}))
  /\ Become(p, [job[p] EXCEPT !.at = "recheck"])

ReplayRecheck(p) ==
  /\ At(p, "replay", "recheck")
  /\ LET t == job[p] IN
     Become(p, IF bundle[t.exp] = None THEN Crashed(t)
               ELSE IF bundle[t.exp] # t.base THEN Failed(t, 4)
               ELSE Succeeded(t))
  /\ UNCHANGED store
-----------------------------------------------------------------------------
(* amend-brief: of a case or of all cases of an experiment, whose name may *)
(* be left empty (None) for the newest.  An empty store is an integrity    *)
(* error here, where the other readers call it usage; and before the first *)
(* row of a run is there, no case is asked for.                            *)
BriefRows(exp, case) ==
  LET e == IF exp = None THEN Newest ELSE exp
      found(exit, cases) == [exit |-> exit, exp |-> e, cases |-> cases] IN
  IF order = <<>> THEN found(4, {})
  ELSE IF ~ Exists(e) THEN found(2, {})
  ELSE IF rows[e] = NoRows THEN found(0, {})
  ELSE IF Unreadable(rows[e]) THEN found(4, {})
  ELSE IF case = None THEN found(0, CaseResults(rows[e]))
  ELSE IF case \in CaseResults(rows[e]) THEN found(0, {case})
  ELSE found(2, {})

(* The last attachments dogfood has left.                                  *)
LastAttachments(n) ==
  LET ids == {f.id : f \in {g \in files : g.kind = "attachment"}} IN
  {i \in ids : Cardinality({j \in ids : j > i}) < n}

(* A session whose versions cannot be read is one without versions.        *)
AmendBriefCmd(p) ==
  \E exp \in Exps \cup {None}, case \in Cases \cup {None}, versions \in Versions,
     write \in BOOLEAN :
    LET found == BriefRows(exp, case)
        task  == [Task("amend_brief", "start") EXCEPT !.dry = ~ write]
        brief == [blocked |-> BriefBlocked(rows[found.exp], found.cases),
                  rollup  |-> FamilyRollup(rows[found.exp], found.cases, Metrics),
                  pair    |-> PreferencePair(versions),
                  judged  |-> LastAttachments(3)] IN
    IF found.exit # 0 THEN Start(p, Failed(task, found.exit)) /\ UNCHANGED store
    ELSE /\ Start(p, [Succeeded([task EXCEPT !.copy = brief]) EXCEPT !.wrote = write])
         /\ IF write THEN WritesFile(File("brief", spent + 1, {})) ELSE UNCHANGED store
-----------------------------------------------------------------------------
(* dogfood.  A caller of the library may leave the mode to the profile;    *)
(* the command line always gives one.                                      *)
DogfoodMode(c) ==
  IF c.mode = "unset" THEN (IF c.maintainer THEN "async" ELSE "off")
  ELSE IF c.mode \in {"off", "async", "always", "sample"} THEN c.mode ELSE None

(* A sample is the first of its members in an order the seed gives; here   *)
(* members are numbered in that order.                                     *)
Selected(n, percent) == {i \in 1..n : (i - 1) * 100 < percent * n}

(* capture_dogfood, check by check.                                        *)
SampleRefused(c) == c.seed = "blank" \/ c.percent \notin 0..100

Filtered(c) ==
  [on |-> c.captureOn, verdict |-> c.verdict] \in
    {[on |-> "pass", verdict |-> "fail"], [on |-> "fail", verdict |-> "pass"]}

CaptureOutcome(c) ==
  IF c.captureOn \notin {"pass", "fail", "all"} \/ DogfoodMode(c) = None THEN "refused"
  ELSE IF DogfoodMode(c) = "off" THEN "skipped"
  ELSE IF DogfoodMode(c) = "sample" /\ c.members = 0 THEN "skipped"
  ELSE IF DogfoodMode(c) = "sample" /\ SampleRefused(c) THEN "refused"
  ELSE IF Filtered(c) THEN "skipped" ELSE "captured"

Attachment(c) ==
  [mode |-> DogfoodMode(c), hard |-> c.verdict = "fail" /\ c.captureOn \in {"fail", "all"},
   members |-> c.members, percent |-> c.percent,
   selected |-> IF DogfoodMode(c) = "sample" THEN Selected(c.members, c.percent) ELSE {}]

(* A reader can draw the sample again from what the attachment says.       *)
Reproduces(a) ==
  a.mode = "sample" => a.selected = {} \/ a.selected = Selected(a.members, a.percent)

(* The command line checks the rate itself (and prints no envelope then)   *)
(* and that the payload is there; it never says how the gate went, so its  *)
(* filter drops nothing.                                                   *)
FromCommandLine(c) == c.mode # "unset" /\ c.verdict = "none"

DogfoodCmd(p) ==
  \E c \in {d \in Captures : FromCommandLine(d)}, write \in BOOLEAN :
    LET task    == [Task("dogfood", "start") EXCEPT !.dry = ~ write]
        outcome == IF c.payload THEN CaptureOutcome(c) ELSE "refused"
        landed  == c.percent \in 0..100 /\ outcome = "captured" /\ write IN
    /\ Start(p, IF c.percent \notin 0..100 THEN Ended(task, None, 2)
                ELSE IF outcome = "refused" THEN Failed(task, 2)
                ELSE [Succeeded(task) EXCEPT !.wrote = landed])
    /\ IF landed THEN WritesFile(File("attachment", spent + 1, {})) ELSE UNCHANGED store
-----------------------------------------------------------------------------
RetentionStarts(p) ==
  TrainExportStart(p) \/ ReplayResolve(p) \/ AmendBriefCmd(p) \/ DogfoodCmd(p)

RetentionSteps(p) ==
  \/ TrainExportRead(p) \/ WriteManifest(p) \/ WriteTrainRow(p) \/ RowsWritten(p) \/ WriteVault(p)
  \/ ReplayBytes(p) \/ ReplayWriteBundle(p) \/ ReplayWriteCompare(p) \/ ReplayRecheck(p)
=============================================================================
