------------------------- MODULE PresentationChecks -------------------------
(* What is asked of a presented plan: the hallucination and craft guards,    *)
(* the deterministic repairs of their findings, and the ordered gates of the *)
(* pure evaluation (commit_quality.py).                                      *)
EXTENDS PresentationPlan

\* The wording the guards read: a claim may sit in the subject, in the body
\* or in any secondary's description; an opener is judged in the subject and
\* in the body only.
Claims == {"secret", "runtime", "actor", "mutation", "bleed", "capability"}
ClaimNouns == {"secret"}

\* Openers: of a subject, with those that are vague on any diff; of a body,
\* with those that only count on docs and tests.
InventoryOpeners == {"add", "vague"}
VagueOpeners == {"vague"}
BannedOpeners == {"banned"}
ExtendedOpeners == {"extended"}
BodyOpeners == BannedOpeners \cup ExtendedOpeners

Blob(plan) ==
  plan.body \cup UNION {Intents(plan)[i].words : i \in DOMAIN Intents(plan)}

DocsOrTests(seen) == seen.docsOnly \/ seen.testsOnly

\* Nothing staged is outside the tests, the fixtures and the prose.
TestsWithoutProduct(seen) ==
  seen.testsOnly \/ (seen.hasTest /\ ~seen.hasProduct)
NoProductRole(seen) ==
  seen.roles # {} /\ seen.roles \subseteq {"tests", "fixtures", "docs", "adr"}

\* Nouns of secrets are proved by a path only.
UnprovenNouns(words, seen) == IF seen.secret THEN {} ELSE words \cap ClaimNouns

Hallucinations(plan, seen, shipped) ==
  LET said(w) == w \in Blob(plan)
      when(code, fired) == IF fired THEN {code} ELSE {}
  IN when("SECURITY_NOUN", UnprovenNouns(Blob(plan), seen) # {})
     \cup when("DOCS_RUNTIME_VERB", said("runtime") /\ seen.docsOnly)
     \cup when("UNSHIPPED_PRODUCT_ACTOR", said("actor") /\ ~shipped)
     \cup when("EVALUATOR_MUTATION_VERB",
               said("mutation") /\ TestsWithoutProduct(seen))
     \cup when("CONTEXT_CHANGES_TEMPLATE", "template" \in plan.body)
     \cup when("ATTRIBUTION_BLEED", said("bleed") /\ NoProductRole(seen))
     \cup when("UNEARNED_CAPABILITY",
               said("capability") /\ (DocsOrTests(seen) \/ plan.primary.type = "feat"))

\* Every vague opener is an inventory opener too; on docs and tests it is
\* judged as a vague one.
Craft(plan, seen) ==
  LET subject == plan.primary.words
      when(code, fired) == IF fired THEN {code} ELSE {}
      among(words, openers) == words \cap openers # {}
  IN when("TITLE_CASE_SUBJECT", "title" \in subject)
     \cup when("TEST_DOCS_ADD_OPENER",
               /\ DocsOrTests(seen)
               /\ among(subject, InventoryOpeners \ VagueOpeners))
     \cup when("VAGUE_SUBJECT_VERB", among(subject, VagueOpeners))
     \cup when("BANNED_BODY_OPENER",
               \/ among(plan.body, BannedOpeners)
               \/ DocsOrTests(seen) /\ among(plan.body, ExtendedOpeners))

CraftCodes == {"TITLE_CASE_SUBJECT", "TEST_DOCS_ADD_OPENER",
               "VAGUE_SUBJECT_VERB", "BANNED_BODY_OPENER"}

Findings(plan, seen, shipped) ==
  Hallucinations(plan, seen, shipped) \cup Craft(plan, seen)

\* The nouns of secrets become neutral words, wherever they stand.
WithoutNouns(words) == words \ ClaimNouns
RepairNouns(plan) ==
  [plan EXCEPT !.primary.words = WithoutNouns(@),
               !.body = WithoutNouns(@),
               !.secondary = [i \in DOMAIN @ |->
                                [@[i] EXCEPT !.words = WithoutNouns(@)]]]

\* A subject loses its capitals and its opener, a body its opener; a repaired
\* opener makes way for a verb of the path class.
RepairSubject(words) == words \ ({"title"} \cup InventoryOpeners)
RepairBody(words) == words \ BodyOpeners
RepairWording(plan, seen) ==
  IF ~DocsOrTests(seen) THEN plan
  ELSE [plan EXCEPT !.primary.words = RepairSubject(@),
                    !.body = RepairBody(@),
                    !.secondary = [i \in DOMAIN @ |->
                                     [@[i] EXCEPT !.words = RepairSubject(@)]]]

\* Only a set of findings of one kind is repaired, and only when the result
\* is clean.
Repair(plan, seen, shipped) ==
  LET codes == Findings(plan, seen, shipped)
      repaired == IF codes = {"SECURITY_NOUN"} THEN RepairNouns(plan)
                  ELSE IF codes \subseteq CraftCodes THEN RepairWording(plan, seen)
                  ELSE plan
  IN IF Findings(repaired, seen, shipped) = {} THEN repaired ELSE plan

\* Why a plan is not what the model said: the weightier reason stays.
FallbackOrder ==
  << "error", "blueprint", "path_class_gate", "semver_ceiling", "type_dominance",
     "hallucination_guard", "craft_guard", "inventory_guard", "low_confidence",
     "none" >>
ReasonRank(reason) == CHOOSE i \in DOMAIN FallbackOrder : FallbackOrder[i] = reason
MergeReasons(current, incoming) ==
  IF ReasonRank(current) <= ReasonRank(incoming) THEN current ELSE incoming

GuardReason(plan, seen, shipped) ==
  IF Hallucinations(plan, seen, shipped) # {} THEN "hallucination_guard"
  ELSE IF Craft(plan, seen) # {} THEN "craft_guard" ELSE "none"

----------------------------------------------------------------------------
(* The gates, judged in their frozen order; the first that fails names the   *)
(* verdict.                                                                  *)

PathClassGate(plan, seen) ==
  LET cons == seen.cons
      shown == plan.primary.words \cup plan.body
  IN /\ cons.forbidSecurity =>
          /\ plan.primary.group # "Security"
          /\ ~(plan.primary.type = "chore" /\ "secret" \in shown)
     /\ cons.scope # None =>
          ~(plan.primary.scope # cons.scope
            /\ plan.primary.scope \in {"git_cg", "src", "main"})

\* Two surfaces need two groups: tests and docs without runtime, or product
\* and tests under a feature, a fix or a test.
DualGroups(plan, seen) ==
  LET groups == ToSet(GroupsOf(plan))
      tests == seen.hasTestModule \/ seen.hasFixture
  IN IF tests /\ seen.hasProse /\ ~seen.runtime THEN {"Tests", "Documentation"}
     ELSE IF /\ seen.hasModule /\ tests /\ "Tests" \notin groups
             /\ "test" \notin TypesOf(plan)
             /\ plan.primary.type \in {"feat", "fix", "test"}
     THEN {plan.primary.group, "Tests"} ELSE {}

TypeGate(plan, seen) ==
  LET cons == seen.cons
      groups == ToSet(GroupsOf(plan))
      dual == DualGroups(plan, seen)
  IN /\ cons.type \in {None, plan.primary.type}
     /\ plan.primary.type \notin cons.forbidTypes
     /\ cons.type = None => seen.dominant \in {None, plan.primary.type}
     /\ cons.group # None => cons.group \in groups
     /\ dual \subseteq groups
     /\ dual # {} => Cardinality(groups) > 1
     /\ \A g \in RequiredGroups(TypesOf(plan)) :
          g \in groups \/ (g = "Added" /\ "Changed" \in groups)

\* The gate is given no evidence text, so no break can raise its ceiling.
SemverGate(plan, seen) ==
  LET cons == seen.cons
      ceiling == ImpactRank[seen.tagCeiling]
  IN /\ cons.impact \in {None, plan.primary.impact}
     /\ plan.primary.impact \notin cons.forbidImpacts
     /\ \A i \in DOMAIN Intents(plan) :
          ImpactRank[Intents(plan)[i].impact] <= ceiling

\* The bullets are the secondaries; what a test bullet says is not modelled.
InventoryGate(plan, seen) ==
  LET bullets == Len(plan.secondary)
  IN /\ seen.minBullets >= 2 => bullets >= 2
     /\ ~(Cardinality(seen.tags) >= 3 /\ bullets = 1)

GateOrder == << "path_class", "type", "semver", "no_hallucination",
                "inventory", "craft" >>

GatePasses(gate, plan, seen, shipped) ==
  CASE gate = "path_class" -> PathClassGate(plan, seen)
    [] gate = "type" -> TypeGate(plan, seen)
    [] gate = "semver" -> SemverGate(plan, seen)
    [] gate = "no_hallucination" -> Hallucinations(plan, seen, shipped) = {}
    [] gate = "inventory" -> InventoryGate(plan, seen)
    [] gate = "craft" -> Craft(plan, seen) = {}

\* The first gate that fails, or None.
FirstFail(plan, seen, shipped) ==
  LET failing == SelectSeq(GateOrder,
                   LAMBDA g : ~GatePasses(g, plan, seen, shipped))
  IN IF failing = << >> THEN None ELSE Head(failing)
============================================================================
