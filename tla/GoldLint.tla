------------------------------ MODULE GoldLint ------------------------------
(* The gold lint of a presented plan (commit_gold.py): thirteen checks of    *)
(* its wording, its groups and scopes, its coverage of the diff and what its *)
(* paths allow, by path predicates and tables of their own. It is called     *)
(* after the presentation, which switches off the two checks against the     *)
(* gitmoji matrix, and with the contract, of which the identity is compared. *)
(*                                                                           *)
(* Its words, beside those of the guards: an action inventory as a subject,  *)
(* talk of the process, product framing, shipping claims, claims of          *)
(* compatibility, a breaking footer, and a word for each high-risk theme.    *)
EXTENDS PresentationChecks

StrictFailCodes ==
  {"GOLD_BODY_INVENTORY", "GOLD_INCLUDED_CHANGES_MISSING",
   "GOLD_GROUP_PRIMARY_MISMATCH", "GOLD_TYPE_GROUP_INCOHERENT",
   "GOLD_SEMVER_MATRIX_MISMATCH", "GOLD_SCOPE_FILENAME",
   "GOLD_SUBJECT_TITLE_CASE", "GOLD_SUBJECT_INVENTORY",
   "GOLD_SKELETON_FALLBACK_FINAL", "GOLD_PROCESS_META_BODY",
   "GOLD_PATH_CLASS_SEMVER_CEILING", "GOLD_PATH_CLASS_TYPE_MISMATCH",
   "GOLD_FIXTURE_PRODUCT_FRAMING", "GOLD_DOCS_IMPLEMENTATION_CLAIM"}

Code(code, fired) == IF fired THEN {code} ELSE {}

----------------------------------------------------------------------------
(* Wording.                                                                  *)

BodyInventory(plan) == plan.body \cap BannedOpeners # {}

\* Three clauses that open with a verb of the list, in the subject alone.
SubjectInventory(plan) == "inventory" \in plan.primary.words

SubjectTitleCase(plan) == "title" \in plan.primary.words

ProcessMeta(plan) == "meta" \in Blob(plan)

\* A break is claimed by the flag or by the footer of the body, compatibility
\* anywhere.
BreakingMarker(plan) == plan.breaking \/ "footer" \in plan.body
CompatContradiction(plan) == BreakingMarker(plan) /\ "compat" \in Blob(plan)

----------------------------------------------------------------------------
(* Groups, scopes and identity.                                              *)

FixExplains(plan) ==
  \E i \in DOMAIN plan.secondary : plan.secondary[i].type = "fix"

GroupCoherence(plan) ==
  LET unexplained == plan.primary.group = "Fixed" /\ ~FixExplains(plan)
      of(types) == unexplained /\ plan.primary.type \in types
  IN Code("GOLD_GROUP_PRIMARY_MISMATCH", of({"feat", "perf"}))
     \cup Code("GOLD_TYPE_GROUP_INCOHERENT", of({"docs", "chore"}))

FileScopes == {"usage.kdl"}
ScopeFilename(plan) ==
  \E i \in DOMAIN Intents(plan) : Intents(plan)[i].scope \in FileScopes

\* Of the contract only the identity, here the glyph, is still compared.
ContractSmoke(plan, given) == plan.glyph # given.glyph

----------------------------------------------------------------------------
(* Coverage of the diff.                                                     *)

\* A public API or a path without a group is a product surface.
CoverageGroups(diff, public) ==
  UNION {FileGroups(diff[i]) : i \in DOMAIN diff}
  \cup Code("product_src", public \/ Some(diff, LAMBDA p : FileGroups(p) = {}))

\* Surfaces are counted by file, whatever roles a file carries.
DistinctSurfaces(diff) == Len(diff)

\* A ranked intent behind the first that is at least half as strong or strong
\* in itself; a score is one of a few marks on the scale of the ranking.
Competitive(scores) ==
  \E k \in 2..Len(scores) :
    scores[k] > 0 /\ (2 * scores[k] >= scores[1] \/ scores[k] > 20)

IncludedMissing(plan, diff, public, scores) ==
  /\ plan.secondary = << >> /\ ~plan.split
  /\ Cardinality(CoverageGroups(diff, public)) >= 2
  /\ DistinctSurfaces(diff) >= 2
  /\ Competitive(scores)

----------------------------------------------------------------------------
(* What the paths allow.                                                     *)

\* A fixture counts as a test here, and prose beside prose as docs.
PathFamily(diff) ==
  LET all(P(_)) == \A i \in DOMAIN diff : P(diff[i])
  IN IF diff = << >> THEN None
     ELSE IF all(IsFixture) THEN "fixtures"
     ELSE IF all(LAMBDA p : IsTest(p) \/ IsFixture(p)) THEN "tests"
     ELSE IF all(IsDocs) THEN "docs" ELSE None

PathClassTruth(plan, diff) ==
  LET family == PathFamily(diff)
      said(w) == w \in Blob(plan)
  IN IF family = None THEN {}
     ELSE Code("GOLD_PATH_CLASS_SEMVER_CEILING", plan.primary.impact # "NONE")
          \cup Code("GOLD_PATH_CLASS_TYPE_MISMATCH",
                    plan.primary.type \in {"feat", "fix"})
          \cup Code("GOLD_FIXTURE_PRODUCT_FRAMING",
                    family = "fixtures" /\ said("framing"))
          \cup Code("GOLD_DOCS_IMPLEMENTATION_CLAIM",
                    family = "docs" /\ said("shipping"))

----------------------------------------------------------------------------
(* High-risk surfaces and the themes a message about them must touch.        *)

SurfaceThemes ==
  [telemetry |-> {"fallback_transitions", "closed_enum_tags", "scrub_list_deltas",
                  "redaction_failure_token", "no_secret_leakage"},
   sentry_config |-> {"closed_enum_tags", "scrub_list_deltas",
                      "redaction_failure_token", "no_secret_leakage"},
   main |-> {"channel4_directive_free", "fallback_error_visibility",
             "fallback_transitions", "closed_enum_tags", "redaction_failure_token"},
   scoped_history |-> {"policy_b_lifetime", "channel4_directive_free",
                       "fallback_error_visibility"},
   intent |-> {"closed_enrichment_markers"},
   regeneration |-> {"contract_lock_visibility", "channel4_directive_free"},
   secrets |-> {"secrets_path_handling", "no_secret_leakage"}]

\* The modules themselves, never a test or a document that is named for one.
HighRiskSurface(p) ==
  IF Is(p, "src") /\ Stem[p] \in DOMAIN SurfaceThemes THEN Stem[p] ELSE None
HighRiskSurfaces(diff) == {HighRiskSurface(diff[i]) : i \in DOMAIN diff} \ {None}
Themes(diff) == UNION {SurfaceThemes[s] : s \in HighRiskSurfaces(diff)}
ThemeMissing(plan, diff) == ~(Themes(diff) \subseteq Blob(plan))

----------------------------------------------------------------------------
\* All that is found in a plan: given is the plan under the contract, marked
\* the provenance of a skeleton.
GoldCodes(plan, input, given, marked) ==
       Code("GOLD_BODY_INVENTORY", BodyInventory(plan))
  \cup Code("GOLD_SUBJECT_INVENTORY", SubjectInventory(plan))
  \cup GroupCoherence(plan)
  \cup Code("GOLD_SCOPE_FILENAME", ScopeFilename(plan))
  \cup Code("GOLD_SUBJECT_TITLE_CASE", SubjectTitleCase(plan))
  \cup Code("GOLD_INCLUDED_CHANGES_MISSING",
            IncludedMissing(plan, input.diff, input.public, input.scores))
  \cup Code("GOLD_CONTRACT_SMOKE", ContractSmoke(plan, given))
  \cup Code("GOLD_SKELETON_FALLBACK_FINAL", marked)
  \cup Code("GOLD_PROCESS_META_BODY", ProcessMeta(plan))
  \cup PathClassTruth(plan, input.diff)
  \cup Code("GOLD_BREAKING_COMPAT_CONTRADICTION", CompatContradiction(plan))
  \cup Code("GOLD_HIGH_RISK_THEME_MISSING", ThemeMissing(plan, input.diff))
============================================================================
