---------------------------- MODULE CaseScoring ----------------------------
(***************************************************************************)
(* Scoring one encoded bundle offline (score_bundle in                     *)
(* src/git_cg/eval/scoring/runner.py) and the gates composed from its rows *)
(* (compose_gates in scoring/gates.py).                                    *)
(*                                                                         *)
(* A family of metrics is run inside its own try, so that an exception     *)
(* costs its rows and leaves an entry in the evaluator errors.  Metrics    *)
(* are represented by those whose handling differs; what a metric makes of *)
(* a message is part of the evidence, not computed here.                   *)
(***************************************************************************)
EXTENDS FiniteSets

Families == {"A", "B", "C", "D", "E", "F", "G", "H", "I"}

FamilyOf ==
  [bundle_schema_valid |-> "A", header_shape |-> "B", type_allowed |-> "C",
   gold_report_ok |-> "D", skeleton_fallback_final |-> "D", avoidance |-> "E",
   subject_attribution |-> "F", issue_null_policy |-> "G",
   evaluator_error_free |-> "H", eval_input_nonempty |-> "H",
   lifecycle_complete |-> "I", required_spans_present |-> "I"]

Metrics  == DOMAIN FamilyOf
Advisory == {"cprime", "human", "ops"}

MetricsOf(families) == {m \in Metrics : FamilyOf[m] \in families}

S2A == MetricsOf({"A", "B", "D", "H"})
S2B == S2A \cup MetricsOf({"C", "E", "F", "G"})
S2C == MetricsOf({"I"})

(* A suite's policy, and what a bundle will make the evaluators do.        *)
Policy   == [block : SUBSET (Metrics \cup Advisory), topology : BOOLEAN]
Evidence == [projects  : BOOLEAN,           \* project_score_context succeeds
             input     : {"ok", "missing", "oversize"},
             bound     : BOOLEAN,
             raising   : SUBSET Families,   \* evaluators that raise
             invalid   : SUBSET Metrics,    \* rows that fail their envelope
             failing   : SUBSET Metrics]    \* rows that say no
-----------------------------------------------------------------------------
(* A bundle that cannot be projected is scored as one with no message.     *)
Missing(ev)      == ~ ev.projects \/ ev.input = "missing"
ShortCircuit(ev) == Missing(ev) \/ ev.input = "oversize"

FamiliesRun(ev) == IF ShortCircuit(ev) THEN {"A", "H", "I"} ELSE Families

Emitted(ev) == MetricsOf(FamiliesRun(ev) \ ev.raising)

(* Family I answers for every metric, closed where it cannot; the others   *)
(* lose a row that is not valid.  The metric on the input itself is there  *)
(* even when family H fell over.                                           *)
Rows(ev) ==
  (Emitted(ev) \ ev.invalid) \cup S2C
  \cup (IF "H" \in ev.raising THEN {"eval_input_nonempty"} ELSE {})

EvaluatorErrors(ev) ==
  \/ ~ ev.projects
  \/ ev.raising \cap FamiliesRun(ev) # {}
  \/ ev.invalid \cap Emitted(ev) # {}

Passes(ev, m) ==
  /\ m \in Rows(ev)
  /\ CASE m = "evaluator_error_free" -> ~ EvaluatorErrors(ev)
       [] m = "eval_input_nonempty"  -> ~ Missing(ev)
       [] m \in S2C -> "I" \notin ev.raising /\ m \notin ev.invalid \cup ev.failing
       [] OTHER -> m \notin ev.failing
-----------------------------------------------------------------------------
Required(policy) ==
  (policy.block \cup (IF policy.topology THEN S2C ELSE {})) \ Advisory

DeterministicPass(policy, ev) == \A m \in Required(policy) : Passes(ev, m)

GoldenPromotionEligible(policy, ev) ==
  /\ DeterministicPass(policy, ev)
  /\ Passes(ev, "gold_report_ok") /\ Passes(ev, "skeleton_fallback_final")
  /\ ev.bound
  /\ policy.topology => \A m \in S2C : Passes(ev, m)
=============================================================================
