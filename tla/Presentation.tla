---------------------------- MODULE Presentation ----------------------------
(* One invocation's presentation pipeline (main.py, around the calls of      *)
(* commit_quality.py): the operator's blueprint is read and held against the *)
(* paths; the model answers under a locked contract; the answer is seeded,   *)
(* overlaid with the blueprint, forced into the envelope of the path class,  *)
(* lifted back to the contract's impact and judged; a dirty answer is        *)
(* repaired, asked for again or replaced by the skeleton. What is presented  *)
(* is linted for gold and put before the ordered gates. The retries that     *)
(* strict gold asks for share the budget and are in CommitGeneration.        *)
EXTENDS GoldLint

CONSTANTS Inputs,      \* what an invocation is given
          Answers,     \* the plans a model may answer with
          MaxRegens    \* the wording budget (2 in the code)

Types == {"feat", "fix", "docs", "style", "refactor", "perf", "test", "build",
          "ci", "chore", "revert", "init", "release"}
ImpactNames == DOMAIN ImpactRank

ASSUME AnswersAssumption ==
  \A a \in Answers :
    /\ IsPlan(a)
    /\ a.primary.type \in Types /\ a.primary.impact \in ImpactNames
ASSUME InputsAssumption ==
  \A i \in Inputs :
    /\ i.tags \subseteq {"correctness", "carry", "dark", "capability"}
    /\ {i.low, i.breaking} \subseteq BOOLEAN
    /\ i.blueprint # None => /\ i.blueprint.type \in {None} \cup Types
                             /\ i.blueprint.impact \in {None} \cup ImpactNames

VARIABLES input,       \* diff, evidence, confidence, scope, blueprint, ranking
          seen,        \* what its paths and tags say
          blueprint,   \* the blueprint, once it was read and found legal
          plan,        \* the plan as it stands
          answer,      \* the plan the model gave, under the contract
          stage,       \* the next step of the pipeline
          regens,      \* answers asked for again
          applied,     \* the blueprint was applied to this plan
          skeleton,    \* the plan is the skeleton
          reason,      \* why it is not what the model said
          gold,        \* the codes of the gold lint
          verdict      \* the gate that fails first

given == << input, seen, blueprint >>
vars == << input, seen, blueprint, plan, answer, stage, regens, applied, skeleton,
           reason, gold, verdict >>

Stages == {"load", "answer", "seed", "blueprint", "overlay", "lift", "judge",
           "presented", "linted", "rejected", "done"}

Init == /\ input \in Inputs
        /\ seen = Reading(input.diff, input.tags, input.breaking, input.renames)
        /\ blueprint = None
        /\ plan = None
        /\ answer = None
        /\ stage = "load"
        /\ regens = 0
        /\ applied = FALSE
        /\ skeleton = FALSE
        /\ reason = IF input.low THEN "low_confidence" ELSE "none"
        /\ gold = {}
        /\ verdict = None

LegalNow == IsLegal(input.blueprint, seen.cons, seen.pathCeiling)
Fault == FirstFault(input.source)

NoBlueprintGiven == /\ stage = "load"
                    /\ input.blueprint = None
                    /\ stage' = "answer"
                    /\ UNCHANGED << given, plan, answer, regens, applied, skeleton,
                                    reason, gold, verdict >>

LoadBlueprint == /\ stage = "load"
                 /\ input.blueprint # None
                 /\ Fault = None /\ LegalNow
                 /\ blueprint' = input.blueprint
                 /\ stage' = "answer"
                 /\ UNCHANGED << input, seen, plan, answer, regens, applied, skeleton,
                                 reason, gold, verdict >>

\* A strict run at a terminal exits with 2; any other goes on without it. A
\* schema and a law that is broken are the blueprint's fault, the rest is an
\* error of reading it.
RefuseBlueprint ==
  /\ stage = "load"
  /\ input.blueprint # None
  /\ Fault # None \/ ~LegalNow
  /\ reason' = IF input.strict THEN reason
               ELSE IF Fault \in {None, "schema"} THEN "blueprint" ELSE "error"
  /\ stage' = IF input.strict THEN "rejected" ELSE "answer"
  /\ UNCHANGED << given, plan, answer, regens, applied, skeleton, gold, verdict >>

Overlaid(p) ==
  Overlay(p, seen, input.preferred)
FindingsNow(p) == Findings(p, seen, input.shipped)

\* The contract has already fixed the primary's type, impact and group.
Answer == /\ stage = "answer"
          /\ \E a \in Answers : plan' = a /\ answer' = a
          /\ stage' = "seed"
          /\ UNCHANGED << given, regens, applied, skeleton, reason, gold, verdict >>

\* A low confidence is the reason from here on, whatever was the reason before.
SeedStep == /\ stage = "seed"
            /\ plan' = Seed(plan, seen, input.low)
            /\ reason' = IF input.low THEN "low_confidence" ELSE reason
            /\ stage' = "blueprint"
            /\ UNCHANGED << given, answer, regens, applied, skeleton, gold, verdict >>

NoBlueprint == /\ stage = "blueprint"
               /\ blueprint = None
               /\ stage' = "overlay"
               /\ UNCHANGED << given, plan, answer, regens, applied, skeleton,
                               reason, gold, verdict >>

\* It is validated once more, against the same paths.
UseBlueprint == /\ stage = "blueprint"
                /\ blueprint # None
                /\ plan' = ApplyBlueprint(plan, blueprint, seen)
                /\ applied' = TRUE
                /\ stage' = "overlay"
                /\ UNCHANGED << given, answer, regens, skeleton, reason, gold, verdict >>

OverlayStep == /\ stage = "overlay"
               /\ plan' = Overlaid(plan)
               /\ stage' = "lift"
               /\ UNCHANGED << given, answer, regens, applied, skeleton, reason, gold,
                               verdict >>

\* Only the impact comes back, never below what the contract locked; the
\* advice of the scoped history to split is merged in.
Raise(impact, floor) == IF ImpactRank[impact] < ImpactRank[floor] THEN floor ELSE impact
Lift == /\ stage = "lift"
        /\ plan' = [plan EXCEPT !.primary.impact = Raise(@, answer.primary.impact),
                                !.split = @ \/ input.split]
        /\ stage' = "judge"
        /\ UNCHANGED << given, answer, regens, applied, skeleton, reason, gold, verdict >>

Repaired == Repair(plan, seen, input.shipped)
GuardedReason == MergeReasons(reason, GuardReason(plan, seen, input.shipped))

Accept == /\ stage = "judge"
          /\ FindingsNow(Repaired) = {}
          /\ plan' = Repaired
          /\ stage' = "presented"
          /\ UNCHANGED << given, answer, regens, applied, skeleton, reason, gold,
                          verdict >>

\* Of the rejected plan only its findings go into the next prompt.
Regenerate == /\ stage = "judge"
              /\ FindingsNow(Repaired) # {}
              /\ regens < MaxRegens
              /\ regens' = regens + 1
              /\ plan' = None
              /\ answer' = None
              /\ applied' = FALSE
              /\ reason' = GuardedReason
              /\ stage' = "answer"
              /\ UNCHANGED << given, skeleton, gold, verdict >>

FallBack == /\ stage = "judge"
            /\ FindingsNow(Repaired) # {}
            /\ regens = MaxRegens
            /\ plan' = Skeleton(plan, seen)
            /\ skeleton' = TRUE
            /\ reason' = GuardedReason
            /\ stage' = "presented"
            /\ UNCHANGED << given, answer, regens, applied, gold, verdict >>

\* The gold lint of what is presented.
Lint == /\ stage = "presented"
        /\ gold' = GoldCodes(plan, input, answer, skeleton)
        /\ stage' = "linted"
        /\ UNCHANGED << given, plan, answer, regens, applied, skeleton, reason, verdict >>

\* The offline evaluation of the same.
Evaluate == /\ stage = "linted"
            /\ verdict' = FirstFail(plan, seen, input.shipped)
            /\ stage' = "done"
            /\ UNCHANGED << given, plan, answer, regens, applied, skeleton, reason, gold >>

Done == stage \in {"done", "rejected"} /\ UNCHANGED vars

Next == \/ NoBlueprintGiven \/ LoadBlueprint \/ RefuseBlueprint
        \/ Answer \/ SeedStep \/ NoBlueprint \/ UseBlueprint
        \/ OverlayStep \/ Lift \/ Accept \/ Regenerate \/ FallBack
        \/ Lint \/ Evaluate \/ Done

Spec == Init /\ [][Next]_vars

----------------------------------------------------------------------------
(* Properties.                                                               *)

\* Whatever the model answered, the offline evaluation finds in what is
\* presented no fault of path class, type or craft: the pipeline and its
\* judge, two separate pieces of code, draw the same envelope. It may find
\* an impact the contract locked above the ceiling and the lift restored, or
\* one that only the evidence of a break allows, of which the judge is given
\* none; a skeleton that knows no concern tags, that keeps a secondary's
\* claim, or a secondary in whose required group only the former primary
\* was; and an inventory too short, which nothing here repairs.
Lifted == ~skeleton /\ plan.primary.impact = answer.primary.impact
Unlifted == IF Lifted THEN [plan EXCEPT !.primary.impact = "NONE"] ELSE plan
OfflineAgrees ==
  \/ verdict \in {None, "inventory"}
  \/ /\ verdict = "semver"
     /\ SemverGate(Unlifted, [seen EXCEPT !.tagCeiling = seen.ceiling])
  \/ skeleton /\ verdict = "no_hallucination"
  \/ /\ skeleton /\ verdict = "type"
     /\ input.tags # {} \/ ~Allowlisted(TypesOf(plan), GroupsOf(plan))

\* The gold lint, a third piece of code with path families of its own, finds
\* no banned opener, no title case, no file for a scope and no other identity
\* than the contract's; it knows a skeleton for what it is. A primary in a
\* group that does not fit its type is left only where a secondary is in the
\* one that does: groups are held against types as sets. An impact or a type the
\* path family forbids is left only where the lift restored the impact, or
\* where the pipeline saw a runtime surface and the lint did not: a hook
\* among the tests is a test to the one and runs for the other.
GroupElsewhere ==
  LET fitting == IF plan.primary.type = "feat" THEN {"Added", "Changed"}
                 ELSE {GroupOf(plan.primary.type)}
  IN \E i \in DOMAIN plan.secondary : plan.secondary[i].group \in fitting
GoldAgrees ==
  /\ gold \cap {"GOLD_BODY_INVENTORY", "GOLD_SUBJECT_TITLE_CASE",
                 "GOLD_SCOPE_FILENAME", "GOLD_CONTRACT_SMOKE"} = {}
  /\ "GOLD_SKELETON_FALLBACK_FINAL" \in gold <=> skeleton
  /\ gold \cap {"GOLD_GROUP_PRIMARY_MISMATCH", "GOLD_TYPE_GROUP_INCOHERENT"} # {}
     => GroupElsewhere
  /\ "GOLD_PATH_CLASS_SEMVER_CEILING" \in gold => Lifted \/ seen.runtime
  /\ "GOLD_PATH_CLASS_TYPE_MISMATCH" \in gold => seen.runtime

\* Both judges at the end of the pipeline agree with it.
JudgesAgree == stage = "done" => OfflineAgrees /\ GoldAgrees

\* The overlay is a normal form: overlaying its own result changes nothing,
\* so that the order of its repairs leaves none of them undone.
OverlayIsStable == stage = "lift" => Overlaid(plan) = plan

\* A blueprint that was found legal is what is presented: without concern
\* tags, as main calls it, the envelope asserted after it changes neither the
\* type nor the impact the operator asked for.
BlueprintHonoured ==
  (stage = "lift" /\ applied /\ input.tags = {}) =>
    /\ blueprint = input.blueprint
    /\ blueprint.type \in {None, plan.primary.type}
    /\ blueprint.impact \in {None, plan.primary.impact}

\* What is presented is clean; only a skeleton may still carry a finding,
\* and then for a claim in a secondary's description, which the skeleton
\* keeps. A skeleton always has a reason on record, and so has a blueprint
\* that was given and not followed.
CleanOrSkeleton ==
  stage \in {"presented", "linted", "done"} =>
    /\ \/ FindingsNow(plan) = {}
       \/ /\ skeleton
          /\ plan.primary.words = {} /\ plan.body = Prose
          /\ FindingsNow([plan EXCEPT !.secondary = << >>]) = {}
    /\ skeleton \/ (input.blueprint # None /\ ~applied) => reason # "none"

============================================================================
