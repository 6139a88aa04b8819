-------------------------- MODULE MCBundleScoring --------------------------
(***************************************************************************)
(* Bundles that go wrong in one place each, against lanes that close at    *)
(* one gate each; two metrics of the judge.                                *)
(***************************************************************************)
EXTENDS BundleScoring

CONSTANTS craft, relevance

MCJudged == {craft, relevance}

Fine == [projects |-> TRUE, text |-> "short", card |-> FALSE, digest |-> "match",
         class |-> "final_accept", bound |-> TRUE, pinned |-> TRUE,
         raising |-> {}, invalid |-> {}, failing |-> {}]

Bundles ==
  {Fine,
   [Fine EXCEPT !.projects = FALSE], [Fine EXCEPT !.text = "over"],
   [Fine EXCEPT !.text = "long"],    [Fine EXCEPT !.text = "blank"],
   [Fine EXCEPT !.text = "blank", !.card = TRUE],
   [Fine EXCEPT !.digest = "mismatch"], [Fine EXCEPT !.digest = "malformed"],
   [Fine EXCEPT !.bound = FALSE],    [Fine EXCEPT !.class = "other"],
   [Fine EXCEPT !.class = "lab", !.bound = FALSE],
   [Fine EXCEPT !.class = "none", !.pinned = FALSE],
   [Fine EXCEPT !.failing = {"header_shape"}],
   [Fine EXCEPT !.failing = {"lifecycle_complete"}],
   [Fine EXCEPT !.failing = {"gold_report_ok"}],
   [Fine EXCEPT !.raising = {"I"}],  [Fine EXCEPT !.raising = {"C"}],
   [Fine EXCEPT !.raising = {"H"}],  [Fine EXCEPT !.raising = {"A", "D"}],
   [Fine EXCEPT !.invalid = {"type_allowed"}],
   [Fine EXCEPT !.invalid = {"lifecycle_complete", "header_shape"}],
   [Fine EXCEPT !.invalid = {"evaluator_error_free", "eval_input_nonempty"}]}

Policies ==
  {[block |-> S2A \cup {"cprime", "human"}, topology |-> FALSE],
   [block |-> S2A \ {"evaluator_error_free"}, topology |-> FALSE],
   [block |-> S2B, topology |-> TRUE]}

Open == [enabled |-> TRUE, metrics |-> <<craft, relevance>>,
         allows |-> "yes", metaAllows |-> "unset",
         override |-> "unset", metaOverride |-> "unset",
         model |-> "dated", key |-> TRUE, judge |-> TRUE, raised |-> FALSE,
         universe |-> "absent", pack |-> [m \in MCJudged |-> "ok"]]

LaneSet ==
  {Open,
   [Open EXCEPT !.enabled = FALSE],  [Open EXCEPT !.metrics = <<>>],
   [Open EXCEPT !.metrics = <<craft, craft>>],
   [Open EXCEPT !.metrics = <<craft, "unknown">>],
   [Open EXCEPT !.allows = "unset", !.metaAllows = "yes"],
   [Open EXCEPT !.allows = "no", !.metaAllows = "yes"],
   [Open EXCEPT !.override = "yes"],
   [Open EXCEPT !.metaOverride = "yes", !.metrics = <<craft, "unknown">>],
   [Open EXCEPT !.model = "alias"],  [Open EXCEPT !.key = FALSE],
   [Open EXCEPT !.judge = FALSE],    [Open EXCEPT !.raised = TRUE],
   [Open EXCEPT !.universe = "unpinned"], [Open EXCEPT !.universe = "pinned"],
   [Open EXCEPT !.pack[craft] = "missing"],
   [Open EXCEPT !.pack[relevance] = "undecodable"]}

MCCases == [policy : Policies, bundle : Bundles, lane : LaneSet]
=============================================================================
