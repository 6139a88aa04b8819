----------------------------- MODULE EvalReports -----------------------------
(***************************************************************************)
(* What the read-only commands of src/git_cg/eval compute: the two doctors *)
(* (doctor.py), the export configuration they look at (mirror/config.py),  *)
(* the optional remote verification (mirror/opik_verify.py), and the views *)
(* of a run's case results (explain.py, diagnose.py, brief.py).  All of it *)
(* is pure; EvalCommands runs it against files that others change.         *)
(***************************************************************************)
EXTENDS Integers, FiniteSets, Sequences, FiniteSetsExt, SequencesExt

CONSTANTS None, Broken
-----------------------------------------------------------------------------
(* The configuration.  An environment variable is "" (unset or empty),     *)
(* "blank" (only whitespace) or "p" (a name).                              *)
Lanes == {"live", "eval", "ci", "import"}

Modes == {"unset", "blank", "off", "local", "local_only", "mirror", "strict_mirror",
          "dogfood", "unknown"}

(* An unknown word means off, and leaves the word behind.                  *)
ParseMode(raw) ==
  CASE raw \in {"unset", "blank"} -> [mode |-> "off", fallback |-> FALSE]
    [] raw = "unknown" -> [mode |-> "off", fallback |-> TRUE]
    [] raw = "local" -> [mode |-> "local_only", fallback |-> FALSE]
    [] raw = "dogfood" -> [mode |-> "strict_mirror", fallback |-> FALSE]
    [] OTHER -> [mode |-> raw, fallback |-> FALSE]

Stripped(v) == v = "p"
EvalVar(env) == IF env.eval # "" THEN env.eval ELSE env.legacy

LaneVar(env, lane) == IF lane = "eval" THEN EvalVar(env) ELSE env[lane]

OnlyEval(env) == Stripped(EvalVar(env)) /\ ~ \E l \in Lanes \ {"eval"} : Stripped(env[l])

(* The lanes that name a project, as the resolver sees them: the eval lane *)
(* alone stands for all four, anything else must name all four.            *)
ResolveProjects(env) ==
  IF OnlyEval(env) \/ \A l \in Lanes : Stripped(LaneVar(env, l)) THEN Lanes ELSE None

(* The same, lane by lane and with its origin, as the doctor shows it.     *)
EvalFromLegacy(env) == env.eval = "" /\ Stripped(env.legacy)

LaneSource(env, lane) ==
  IF OnlyEval(env)
    THEN IF env.eval # "" THEN "bootstrap_eval" ELSE "bootstrap_legacy"
  ELSE IF ~ Stripped(LaneVar(env, lane)) THEN "missing"
  ELSE IF lane = "eval" /\ EvalFromLegacy(env) THEN "legacy"
  ELSE "explicit"

Active(mode) == mode \notin {"off", "local_only", "local"}

(* A mode that is not off demands its projects, local_only included.       *)
ResolveConfig(env) ==
  LET parsed == ParseMode(env.mode)
      refused == parsed.mode # "off" /\ ResolveProjects(env) = None IN
  [raises |-> refused, mode |-> parsed.mode, fallback |-> parsed.fallback,
   projects |-> IF parsed.mode = "off" THEN None ELSE ResolveProjects(env)]

Health(config) ==
  IF config.fallback THEN "config_error"
  ELSE IF config.mode = "off" THEN "skipped_off"
  ELSE IF config.mode = "local_only" THEN "deferred"
  ELSE "pending"

(* What a profile of redaction becomes: only an owner outside CI gets one  *)
(* of the owner's profiles, and the raw one nobody gets.                   *)
OwnerOnly == {"private_message", "train_rich", "antipattern_vault"}

ParseProfile(raw, owner, ci) ==
  IF raw = "default_scrub" THEN [profile |-> raw, fallback |-> FALSE]
  ELSE IF raw \in {"unset", "blank"}
    THEN [profile |-> "default_scrub", fallback |-> FALSE]
  ELSE IF raw \in OwnerOnly /\ owner /\ ~ ci
    THEN [profile |-> raw, fallback |-> FALSE]
  ELSE IF raw \in OwnerOnly \cup {"unknown", "raw_dev_unsafe"}
    THEN [profile |-> "default_scrub", fallback |-> TRUE]
  ELSE [profile |-> raw, fallback |-> FALSE]
-----------------------------------------------------------------------------
(* A check of a doctor: its name, what it weighs and how it went.          *)
Check(id, ok, severity, warnOnly) ==
  [id |-> id, severity |-> severity,
   status |-> IF ok THEN "pass" ELSE IF warnOnly THEN "warn" ELSE "fail"]

Blocking(checks) == {c \in checks : c.severity = "block" /\ c.status = "fail"}
Green(checks) == Blocking(checks) = {}

PinChecks(w) ==
  {Check("pins." \o k \o IF w[k] = "raises" THEN "_resolvable" ELSE "_pinned",
         w[k] = "pinned", "block", FALSE) : k \in {"schema_pack", "metric_catalog"}}

SuiteChecks(w) ==
  {Check("suite.load", w.suite # "raises", "block", FALSE)} \cup
  IF w.suite = "raises" THEN {} ELSE
  {Check("suite.schema_pin", w.suite # "other_schema" /\ w.schema_pack = "pinned", "block", FALSE),
   Check("suite.catalog_pin", w.suite # "other_catalog" /\ w.metric_catalog = "pinned",
         "block", FALSE)}

(* The cases of the suite, each by what is wrong with it; a case that      *)
(* raises is counted as bound to nothing and as nothing else.              *)
SuiteCases(w) == IF w.suite = "raises" THEN <<>> ELSE w.cases

FlawedCases(w, flaw) ==
  {i \in DOMAIN SuiteCases(w) :
     flaw \in w.cases[i] /\ ("raises" \notin w.cases[i] \/ flaw = "raises")}

InputChecks(w) ==
  LET all   == DOMAIN SuiteCases(w)
      empty == FlawedCases(w, "empty")
      unbound == FlawedCases(w, "missing") \cup FlawedCases(w, "raises") IN
  {Check("input_nonempty", empty = {}, "block", FALSE),
   Check("input_size_ok", FlawedCases(w, "oversize") = {}, "warn", TRUE),
   Check("error_fanout_bounded", all = {} \/ empty # all, "block", FALSE),
   Check("scored_target_bound", unbound = {}, "block", FALSE)}

PackChecks(w) ==
  IF w.pack = "raises" THEN {Check("prompt_pack_resolvable", FALSE, "warn", TRUE)}
  ELSE {Check("prompt_pack_pinned", w.pack = "pinned", "block", FALSE),
        Check("prompt_pack_suite_fresh", w.pack = "pinned" /\ w.suite # "raises",
              "warn", TRUE)}

(* Stored checkpoints against the live pins: those that cannot be read, of *)
(* another suite or without a hash do not count.                           *)
CompatOk(w) ==
  ~ /\ w.suite # "raises" /\ w.schema_pack = "pinned" /\ w.metric_catalog = "pinned"
    /\ "diverges" \in w.checkpoints

LocalDoctor(w) ==
  LET checks == PinChecks(w) \cup SuiteChecks(w) \cup InputChecks(w) \cup PackChecks(w)
                \cup {Check("hash_resume", CompatOk(w), "block", FALSE)} IN
  [green |-> Green(checks), checks |-> checks,
   exit |-> IF ~ CompatOk(w) THEN 3 ELSE IF ~ Green(checks) THEN 1 ELSE 0]

(* The score about the export configuration stays out of the verdict.      *)
ExportConfigScore(env) ==
  ~ ResolveConfig(env).raises /\ Health(ResolveConfig(env)) # "config_error"

LaneChecks(env) ==
  {LET missing == LaneSource(env, l) = "missing" IN
   [id |-> l, severity |-> "warn",
    status |-> IF ~ missing THEN "pass"
               ELSE IF env.mode \in {"off", "local_only", "local", "unset"} THEN "warn" ELSE "fail"]
   : l \in Lanes}

QueueChecks(queue) ==
  {Check("queue_readable", "unreadable" \notin queue, "warn", TRUE),
   Check("queue_failed_drainable", "failed" \notin queue, "warn", TRUE)}

OpikDoctor(env, key, queue) ==
  LET config == ResolveConfig(env)
      ok     == ExportConfigScore(env)
      checks == {Check("config_resolved", ok, "block", FALSE)} \cup LaneChecks(env) IN
  [green |-> ok, exit |-> IF ok THEN 0 ELSE 2,
   checks |-> IF config.raises THEN checks
              ELSE checks \cup QueueChecks(queue) \cup
                   {Check("api_key_present", key \/ ~ Active(config.mode), "warn", TRUE)}]

(* The table of outcomes the doctor of the export publishes.               *)
DoctorMatrix ==
  {[mode |-> "off", pins |-> "missing", exit |-> 0],
   [mode |-> "unknown", pins |-> "any", exit |-> 2],
   [mode |-> "mirror", pins |-> "complete", exit |-> 0],
   [mode |-> "mirror", pins |-> "partial", exit |-> 2]}

PinsOf(env) ==
  LET missing == {l \in Lanes : LaneSource(env, l) = "missing"} IN
  IF missing = {} THEN "complete" ELSE IF missing = Lanes THEN "missing" ELSE "partial"
-----------------------------------------------------------------------------
(* The remote verification never fails a build: whatever the remote does,  *)
(* its rows are warnings.  `remote` says what the remote answers.          *)
LaneProjects(config) == IF config.projects = None THEN {} ELSE config.projects

VerifyProjects(lanes, remote, create) ==
  [created |-> IF create /\ remote.lists /\ remote.creates /\ lanes # {} /\ ~ remote.has
               THEN lanes ELSE {},
   rows |-> {[lane |-> l,
              status |-> IF remote.lists /\ (remote.has \/ (create /\ remote.creates))
                         THEN "pass" ELSE "warn"] : l \in lanes}]

VerifyDefinitions(local, remote) ==
  LET names(d) == {x.name : x \in d}
      shared   == names(local) \cap names(remote)
      drifted  == {n \in shared : {x \in local : x.name = n} # {x \in remote : x.name = n}}
      rows     == (IF names(local) \ names(remote) # {} THEN {"missing"} ELSE {})
                  \cup (IF names(remote) \ names(local) # {} THEN {"extra"} ELSE {})
                  \cup (IF drifted # {} THEN {"mismatch"} ELSE {}) IN
  IF rows = {} THEN {"aligned"} ELSE rows

(* A listing that never gets short within its pages is refused, not cut.   *)
Paginate(pages, maxPages) ==
  LET short == {i \in 1..Len(pages) : pages[i] # "full"} IN
  IF short = {} /\ Len(pages) >= maxPages THEN "truncated" ELSE "listed"

OpikVerify(env, asked, create, remote) ==
  LET config == ResolveConfig(env)
      silent == ~ asked \/ config.raises \/ ~ remote.client
      lists  == remote.lists /\ Paginate(remote.pages, remote.maxPages) = "listed" IN
  [ok |-> TRUE, exit |-> 0,
   created |-> IF silent THEN {}
               ELSE VerifyProjects(LaneProjects(config), [remote EXCEPT !.lists = lists],
                                   create).created]
-----------------------------------------------------------------------------
(* Views of case results.  A row is [pass, failed]: the verdict of the     *)
(* gate and the metrics that did not pass, whatever their severity; None   *)
(* is a case without a result yet and Broken one that cannot be read.      *)
CaseResults(rows) == {c \in DOMAIN rows : rows[c] \notin {None, Broken}}
Unreadable(rows)  == \E c \in DOMAIN rows : rows[c] = Broken

FailingCases(rows) == {c \in CaseResults(rows) : ~ rows[c].pass}

FailingMetrics(rows, cases) == UNION {rows[c].failed : c \in cases}

(* What an issue is about: the failures of the failing cases together.     *)
ComputeFingerprint(rows, cases) == FailingMetrics(rows, cases \cap FailingCases(rows))

(* list_failures: a filter is the set of metrics it lets through, or None. *)
(* A failing case with nothing left is dropped only if something filters.  *)
ListFailures(rows, filter) ==
  {[case |-> c, metrics |-> IF filter = None THEN rows[c].failed
                            ELSE rows[c].failed \cap filter]
   : c \in {d \in FailingCases(rows) :
              filter = None \/ rows[d].failed \cap filter # {}}}

ExplainOne(rows, c) == [case |-> c, pass |-> rows[c].pass, metrics |-> rows[c].failed]

Compare(a, b, linked) ==
  [linked |-> linked, verdict |-> a.pass # b.pass,
   delta |-> (a.failed \ b.failed) \cup (b.failed \ a.failed)]

(* The brief about a commit: blocked as soon as one case is.               *)
BriefBlocked(rows, cases) == \E c \in cases : ~ rows[c].pass

FamilyRollup(rows, cases, metrics) ==
  [failed |-> {m \in metrics : \E c \in cases : m \in rows[c].failed},
   passed |-> {m \in metrics : \E c \in cases : m \notin rows[c].failed}]

(* The last accepted version is chosen, or the last; the others are        *)
(* rejected.  One version alone is no preference.                          *)
PreferencePair(versions) ==
  LET accepted == {i \in DOMAIN versions : versions[i] = "final_accept"}
      chosen   == IF accepted = {} THEN Len(versions) ELSE Max(accepted) IN
  IF Len(versions) < 2 THEN None
  ELSE [chosen |-> chosen, rejected |-> DOMAIN versions \ {chosen}]
=============================================================================
