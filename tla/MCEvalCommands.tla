---------------------------- MODULE MCEvalCommands ----------------------------
(***************************************************************************)
(* Two command lines over two experiments of two cases, two metrics and    *)
(* two bundles, from the stores that earlier commands leave behind.        *)
(***************************************************************************)
EXTENDS EvalCommands

CONSTANTS p1, p2, e1, e2, c1, c2, m1, m2, b1, b2

Symmetry == Permutations({p1, p2})

Passed == [pass |-> TRUE, failed |-> {}]
Warned == [pass |-> TRUE, failed |-> {m2}]      \* a metric that does not block
Fails  == [pass |-> FALSE, failed |-> {m1}]
FailsBoth == [pass |-> FALSE, failed |-> {m1, m2}]
MCResults == {Warned, Fails}

Bundle(label, gate, redacts, profile) ==
  [v |-> 0, shape |-> "sound", label |-> label, gate |-> gate, redacts |-> redacts, profile |-> profile]
Positive == Bundle("positive", TRUE, TRUE, "default_scrub")
Negative == Bundle("negative", FALSE, TRUE, "default_scrub")
MCSources == {Negative}
MCBundleOf == (c1 :> b1) @@ (c2 :> b2)

Rows(a, b) == (c1 :> a) @@ (c2 :> b)
NoIssues == [f \in Fingerprints |-> None]
Issues(f, row) == [NoIssues EXCEPT ![f] = row]
NoBundles == [b \in Bundles |-> None]

Store(o, r1, iss, sn, bs, rv, qu) ==
  [order |-> o, rows |-> (e1 :> r1) @@ (e2 :> NoRows), issue |-> iss, snap |-> sn,
   bundle |-> bs, review |-> rv, queue |-> qu]

Pending == ReviewRow("pending", None, None, FALSE)
Claimed(by) == ReviewRow("in_review", by, None, FALSE)
Approved == ReviewRow("adjudicated", "other", "approve_promote", FALSE)

(* Nothing yet; a run with one failing case and its issue, open or         *)
(* resolved; a run with two; a run that died half way; stores in which a   *)
(* case row, an issue row, a row of a queue or a bundle cannot be read.    *)
Open == IssueRow(OPEN, 1, {c1}, FALSE, {})
Resolved1 == IssueRow(RESOLVED, 1, {c1}, TRUE, {})
MCStores ==
  {Store(<<>>, NoRows, NoIssues, NoIssues, NoBundles, None, None),
   Store(<<e1>>, Rows(Fails, Passed), Issues({m1}, Open), [NoIssues EXCEPT ![{m1}] = 1],
         (b1 :> Positive) @@ (b2 :> Negative), Pending, QueueRow("pending", "")),
   Store(<<e1>>, Rows(Fails, Warned), Issues({m1}, Resolved1), [NoIssues EXCEPT ![{m1}] = 1],
         (b1 :> Negative) @@ (b2 :> [Positive EXCEPT !.profile = "disagree"]),
         Claimed("me"), QueueRow("failed", "export_network")),
   Store(<<e1>>, Rows(Fails, FailsBoth), NoIssues, NoIssues,
         (b1 :> [Negative EXCEPT !.label = "unlabeled"]) @@ (b2 :> [Positive EXCEPT !.redacts = FALSE]),
         Claimed("other"), QueueRow("failed", "export_auth")),
   Store(<<e1>>, Rows(Fails, None), Issues({m2}, Broken), NoIssues,
         (b1 :> [Negative EXCEPT !.shape = "invalid"]) @@ (b2 :> None), Approved, Broken),
   Store(<<e1>>, Rows(Broken, Fails), Issues({m1}, Broken), NoIssues,
         (b1 :> [Negative EXCEPT !.shape = "unparsable"])
           @@ (b2 :> [Positive EXCEPT !.shape = "other_schema"]),
         [Claimed("me") EXCEPT !.damaged = TRUE], None)}

World(s, c, suite, cases, pack, checkpoints) ==
  [schema_pack |-> s, metric_catalog |-> c, suite |-> suite, cases |-> cases, pack |-> pack,
   checkpoints |-> checkpoints]

(* One world in order and, one at a time, everything that can be wrong.    *)
Sound == World("pinned", "pinned", "ok", <<{}, {}>>, "pinned", {"match"})
MCDoctorWorlds ==
  {Sound} \cup {[Sound EXCEPT !.schema_pack = x] : x \in {"raises", "floating"}}
  \cup {[Sound EXCEPT !.metric_catalog = x] : x \in {"raises", "floating"}}
  \cup {[Sound EXCEPT !.suite = x] : x \in {"raises", "other_schema", "other_catalog"}}
  \cup {[Sound EXCEPT !.cases = x] : x \in
          {<<>>, <<{}, {"empty"}>>, <<{"empty"}, {"empty", "missing"}>>, <<{"oversize"}, {}>>,
           <<{"missing"}, {}>>, <<{"raises", "empty"}, {}>>}}
  \cup {[Sound EXCEPT !.pack = x] : x \in {"raises", "floating"}}
  \cup {[Sound EXCEPT !.checkpoints = x] : x \in
          {{}, {"diverges"}, {"unreadable", "other_suite", "no_hash"}}}
  \cup {[Sound EXCEPT !.checkpoints = {"diverges"}, !.suite = "raises"]}

MCFilters == {None, {m1}, {m2}}

Capture(mode, maintainer, on, verdict, members, percent) ==
  [payload |-> TRUE, mode |-> mode, maintainer |-> maintainer, captureOn |-> on,
   verdict |-> verdict, members |-> members, percent |-> percent, seed |-> "ok"]

(* What the command line can ask for, and what only a caller can.          *)
MCCaptures ==
  {Capture("off", FALSE, "all", "none", 0, 100), Capture("always", FALSE, "fail", "none", 0, 100),
   Capture("nonsense", TRUE, "all", "none", 0, 100), Capture("sample", FALSE, "fail", "none", 3, 50),
   Capture("sample", FALSE, "all", "none", 0, 50), Capture("sample", FALSE, "all", "none", 3, 150),
   [Capture("sample", FALSE, "all", "none", 3, 50) EXCEPT !.seed = "blank"],
   [Capture("always", FALSE, "all", "none", 0, 100) EXCEPT !.payload = FALSE]}

LibraryCaptures ==
  MCCaptures \cup
  {Capture(mode, maintainer, on, verdict, n, percent) :
     mode \in {"unset", "async", "sample"}, maintainer \in BOOLEAN, on \in {"pass", "fail", "all"},
     verdict \in {"none", "pass", "fail"}, n \in 0..3, percent \in {0, 34, 100}}

MCVersions == {<<>>, <<"generated", "final_accept", "edited">>}

Env(mode, live, eval, ci, import, legacy) ==
  [mode |-> mode, live |-> live, eval |-> eval, ci |-> ci, import |-> import,
   legacy |-> legacy]
AllEnvironments ==
  {Env(m, l, e, "p", i, g) : m \in Modes, l \in {"", "p"}, e, g \in {"", "blank", "p"}, i \in {"", "blank", "p"}}
  \cup {Env(m, "", e, "", "", g) : m \in Modes, e, g \in {"", "blank", "p"}}
MCEnvironments ==
  {Env("off", "", "", "", "", ""), Env("unknown", "", "p", "", "", ""),
   Env("mirror", "", "", "", "", "p"), Env("mirror", "", "blank", "", "", "p"),
   Env("local", "p", "p", "", "p", "")}

MCRemotes ==
  {[client |-> c, lists |-> l, creates |-> r, has |-> h, pages |-> pg, maxPages |-> 2] :
     c, l, r, h \in BOOLEAN, pg \in {<<"short">>, <<"full", "full">>}}
MCQueues == {{}, {"failed", "unreadable"}}

(* Over every configuration: the two readings of the environment agree (a  *)
(* mode that needs projects is refused exactly when the doctor shows a     *)
(* lane as missing), the doctor's exit is the one its matrix publishes, a  *)
(* sample can be drawn again from its attachment, a review moves only      *)
(* along its matrix and only when the command says so, and nothing is      *)
(* created remotely where it was not established that it was missing.      *)
ASSUME ReadingsAgree ==
  /\ \A env \in AllEnvironments :
       (ResolveProjects(env) = None) <=> \E l \in Lanes : LaneSource(env, l) = "missing"
  /\ \A env \in AllEnvironments, row \in DoctorMatrix :
       row.mode = env.mode /\ row.pins \in {"any", PinsOf(env)} =>
         OpikDoctor(env, FALSE, {}).exit = row.exit
  /\ \A c \in LibraryCaptures :
       CaptureOutcome(c) = "captured" => Reproduces(Attachment(c))
  /\ \A status \in DOMAIN ReviewMoves, by \in {None, "me", "other"}, damaged \in BOOLEAN :
       LET row == ReviewRow(status, by, None, damaged) IN
       \A a \in ReviewAnswers(row) :
         a.row # row => a.exit = 0 /\ ~ damaged /\ a.row.status \in ReviewMoves[status]
  /\ \A env \in AllEnvironments, remote \in MCRemotes :
       OpikVerify(env, TRUE, TRUE, remote).created # {} =>
         remote.lists /\ ~ remote.has /\ "short" \in Range(remote.pages)
  /\ \A raw \in OwnerOnly \cup {"unset", "raw_dev_unsafe", "public_ci"}, owner, ci \in BOOLEAN :
       LET got == ParseProfile(raw, owner, ci) IN
       got.profile \in OwnerOnly => owner /\ ~ ci /\ ~ got.fallback
  /\ VerifyDefinitions({[name |-> "a", shape |-> 1]}, {[name |-> "a", shape |-> 2]}) = {"mismatch"}
=============================================================================
