------------------------------- MODULE LaneC -------------------------------
(***************************************************************************)
(* What decides whether the semantic judge (Lane C') may be asked, and     *)
(* with what: src/git_cg/eval/lane_c.  Authorisation (eligibility.py),     *)
(* availability (availability.py), the prompt packs (prompt_pack.py), the  *)
(* projection of the accepted message (judge_input.py) and the closed      *)
(* vocabulary of the answers (taxonomy.py).                                *)
(*                                                                         *)
(* A lane is one configuration of the call to score_bundle; a bundle       *)
(* carries what the projection looks at.                                   *)
(***************************************************************************)
EXTENDS Sequences

CONSTANT Judged                  \* the cprime metrics of the catalog

Flag == {"unset", "yes", "no"}   \* an optional Boolean argument

Packs     == {"ok", "missing", "undecodable"}
Universes == {"absent", "pinned", "unpinned"}
Models    == {"dated", "alias", "absent"}

Lanes == [enabled  : BOOLEAN,
          metrics  : Seq(Judged \cup {"unknown"}),
          allows   : Flag,  metaAllows   : Flag,
          override : Flag,  metaOverride : Flag,
          model    : Models,
          key      : BOOLEAN,           \* an API key is configured
          judge    : BOOLEAN,           \* judge_fn is given
          raised   : BOOLEAN,           \* max_input_chars above the default
          universe : Universes,
          pack     : [Judged -> Packs]]
-----------------------------------------------------------------------------
(* The two layers of codes, and which row a refused cohort may carry.      *)
ExecutionOf ==
  [det_fail_excluded       |-> {"cohort_ineligible"},
   scope_gate_reject       |-> {"cohort_ineligible"},
   prompt_pack_missing     |-> {"pack_unresolvable", "pack_decode_error"},
   judge_unavailable       |-> {"unavailable_creds", "client_unconstructible",
                                "timeout", "transport_error"},
   lab_override_diagnostic |-> {"lab_override_diagnostic"},
   budget_cap_reached      |-> {}]

ExecutionCodes ==
  (UNION {ExecutionOf[g] : g \in DOMAIN ExecutionOf})
  \cup {"pin_invalid", "empty_input", "oversize_input", "parse_error",
        "scored", "unknown_metric", "judge_not_invoked"}

-----------------------------------------------------------------------------
(* An explicit argument wins over suite.meta; the default is no.           *)
Resolve(argument, meta) ==
  IF argument # "unset" THEN argument = "yes" ELSE meta = "yes"

AllowsLaneC(lane) == Resolve(lane.allows, lane.metaAllows)
LabOverride(lane) == Resolve(lane.override, lane.metaOverride)

(* The model must be named by a dated id; no credential is looked at.      *)
PinsResolvable(lane) == lane.model = "dated"

Eligible(lane, det) ==
  AllowsLaneC(lane) /\ (det \/ LabOverride(lane)) /\ PinsResolvable(lane)

DiagnosticOnly(lane, det) == Eligible(lane, det) /\ LabOverride(lane) /\ ~ det

(* A missing key makes the judge unavailable, never the cohort ineligible. *)
Available(lane, det) == Eligible(lane, det) /\ lane.key
-----------------------------------------------------------------------------
(* The text of the accepted message: "long" is above the judge's limit     *)
(* (32000 characters), "over" above the budget of the scoring (256000      *)
(* bytes).                                                                 *)
Texts   == {"blank", "short", "long", "over"}
Classes == {"final_accept", "lab", "other", "none"}
Digests == {"match", "mismatch", "malformed"}

(* Final-accept evidence is put together only from a complete linkage.     *)
Linked(bundle) ==
  /\ bundle.projects
  /\ bundle.text # "blank"
  /\ bundle.digest # "malformed"
  /\ bundle.class # "none"

ClassAdmitted(bundle, override) ==
  \/ bundle.class = "final_accept" /\ bundle.bound
  \/ bundle.class = "lab" /\ override

(* "absent": there is nothing to show; "ok"; or the code of the refusal.   *)
Projection(bundle, lane) ==
  CASE ~ Linked(bundle) -> "absent"
    [] Linked(bundle) /\ ~ ClassAdmitted(bundle, LabOverride(lane)) -> "parse_error"
    [] Linked(bundle) /\ ClassAdmitted(bundle, LabOverride(lane))
         -> CASE bundle.digest = "mismatch" -> "parse_error"
              [] bundle.digest = "match" /\ bundle.text = "long" /\ ~ lane.raised
                   -> "oversize_input"
              [] OTHER -> "ok"

(* The size is not an isolation matter.                                    *)
Isolated(projection) == projection \in {"ok", "empty_input", "oversize_input"}

(* run_pinned_judge measures again, against the default limit.             *)
HostGuard(bundle) == bundle.text = "long"

(* A universe of prompts that is there must be pinned; none is honest.     *)
UniverseRefused(lane) == lane.universe = "unpinned"

PackCode(lane, metric) ==
  IF metric \in Judged /\ lane.pack[metric] = "undecodable"
  THEN "pack_decode_error" ELSE "pack_unresolvable"

PackResolves(lane, metric) == metric \in Judged /\ lane.pack[metric] = "ok"

(* The refusal that precedes every pack and every call, or "none".         *)
Refusal(bundle, lane, det) ==
  IF ~ Eligible(lane, det) THEN "cohort_ineligible"
  ELSE IF DiagnosticOnly(lane, det) THEN "lab_override_diagnostic"
  ELSE IF ~ Available(lane, det) THEN "unavailable_creds"
  ELSE IF UniverseRefused(lane) THEN "pack_unresolvable"
  ELSE IF Projection(bundle, lane) \in {"absent", "ok"} THEN "none"
  ELSE Projection(bundle, lane)

CanInvoke(bundle, lane) == lane.judge /\ Projection(bundle, lane) = "ok"
-----------------------------------------------------------------------------
(* What comes back from one call, after _normalize_raw and                 *)
(* parse_judge_score: a mark, something else, or an exception.             *)
Answers == {"scored", "parse_error", "timeout", "transport_error"}

MaxRetries == 1
Retryable  == {"timeout", "transport_error", "parse_error"}
=============================================================================
