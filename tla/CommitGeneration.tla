-------------------------- MODULE CommitGeneration --------------------------
(***************************************************************************)
(* One invocation of git-cg, from the staged diff to the commit            *)
(* (src/git_cg/main.py): _run_commit_generation with its self-correction   *)
(* loop and interactive review, the exits of _abort, and what the caller   *)
(* does with the result, main_callback running `git commit -F` or git      *)
(* itself going on after the prepare-commit-msg hook.                      *)
(*                                                                         *)
(* The program is sequential; what makes it hard is that six things feed   *)
(* the same loop (the human lock, the operator's guidance, presentation,   *)
(* guards, gold lint and the model) and that most of the loop's variables  *)
(* survive from one cycle to the next.  The model and the operator are     *)
(* free; the wording of a plan is only the set of gold codes it earns.     *)
(***************************************************************************)
EXTENDS SemanticContract, FiniteSets

CONSTANTS
  Configs,       \* the invocations considered (flags, environment, TTY)
  ContextSet,    \* the generation contexts considered
  WordCodes,     \* strict gold codes that only wording decides
  InfoCodes,     \* gold codes that never fail, but count for shrinkage
  Issues,        \* issue numbers
  Verbs,         \* issue-reference verbs
  NoFile         \* "no message written"

RegenBudget == 2              \* shared by gold and guards: gold_regen_attempts
AutoCap == RegenBudget + 2    \* where the history counter auto stops counting
NoBlueprint == -2             \* --blueprint absent; NoSemVer is an unparsable one

ConfigType ==
  [strict : BOOLEAN, goldStrict : BOOLEAN, env : {"unset", "off", "warn", "strict"},
   tty : BOOLEAN, dryRun : BOOLEAN, mixedStrict : BOOLEAN, arbitrate : BOOLEAN,
   hook : BOOLEAN, blueprint : SemVer \cup {NoSemVer, NoBlueprint}]

ASSUME GenerationAssumption ==
  /\ Configs \subseteq ConfigType
  /\ ContextSet \subseteq Contexts
  /\ "Refs" \in Verbs

SkeletonCode == "GOLD_SKELETON_FALLBACK_FINAL"
MatrixCode   == "GOLD_SEMVER_MATRIX_MISMATCH"
StrictCodes  == WordCodes \cup {SkeletonCode, MatrixCode}
AllCodes     == StrictCodes \cup InfoCodes
NoCodes      == {"no codes recorded"}       \* gold_previous_codes is None

ASSUME CodesAssumption ==
  /\ InfoCodes \cap StrictCodes = {}
  /\ "no codes recorded" \notin AllCodes

VARIABLES
  pc,            \* where the run stands
  cfg, ctx,      \* the invocation and its generation context
  locked,        \* locked_intent_id
  guidance,      \* regeneration_guidance
  directive,     \* active_directives
  refs,          \* issue_references: a set of <<number, verb>>
  contract,      \* the resolved contract of the current cycle
  plan,          \* the current plan
  prev,          \* primary intent of review_state.commit_plan, if any
  overlaid,      \* presentation_overlay_applied
  persisted,     \* plan_persisted_semver, captured before the guards
  attempts,      \* gold_regen_attempts
  feedback,      \* gold_guidance is not None
  prevPrimary,   \* gold_previous_primary_id
  prevCodes,     \* gold_previous_codes
  codes,         \* codes of the last gold report
  outcome,       \* gold_self_correction_outcome
  review,        \* the ReviewState's own guidance and directives
  file,          \* the commit message file
  telemetry,     \* "none", or what _write_telemetry_state_safe recorded
  exit,          \* exit code, -1 while running
  committed,     \* the message a commit was made with
  verdict,       \* history: the operator's last decision
  auto           \* history: model calls since the operator last decided

inputs   == <<cfg, ctx>>
steering == <<locked, guidance, directive, refs>>
cycle    == <<contract, plan, prev, overlaid, persisted>>
budget   == <<attempts, feedback, prevPrimary, prevCodes, codes, outcome>>
result   == <<file, telemetry, committed>>
history  == <<verdict, auto>>
vars == <<pc, inputs, steering, cycle, budget, review, result, exit, history>>

-----------------------------------------------------------------------------
(* Decisions derived from the invocation. *)

(* resolve_gold_mode: environment, then flags, then an interactive TTY.    *)
GoldMode ==
  IF cfg.env # "unset" THEN cfg.env
  ELSE IF cfg.strict \/ cfg.goldStrict THEN "strict"
  ELSE IF cfg.tty THEN "surface" ELSE "warn"

(* ok_for_mode: only strict mode fails, and only on its own codes.         *)
OkForMode(found) == GoldMode = "strict" => found \cap StrictCodes = {}

AbortCode(strict) == IF strict THEN 1 ELSE 0

(* A rejected blueprint is fatal. *)
HardFail == cfg.strict /\ cfg.tty

Preferred == IF directive \in Types THEN directive ELSE NoType

ParseGuidance(g) == IF g = NoGuidance THEN NoType ELSE DirectiveOf[g]

(* parse_commit_blueprint and validate_blueprint_against_constraints.      *)
BlueprintLegal ==
  /\ cfg.blueprint \in SemVer
  /\ ctx.forceSemVer # NoSemVer => cfg.blueprint = ctx.forceSemVer
  /\ cfg.blueprint <= ctx.ceiling
  /\ cfg.blueprint \notin ctx.forbidSemVer

Exit(code) == pc' = "exited" /\ exit' = code

NoPlan == [id |-> NoIntent, semver |-> 0, skeleton |-> FALSE, split |-> FALSE]

Init ==
  /\ pc = "start"
  /\ cfg \in Configs /\ ctx \in ContextSet
  /\ locked = NoIntent /\ guidance = NoGuidance /\ directive = NoType
  /\ refs = {}
  /\ contract = [id |-> Unknown, type |-> Chore, semver |-> 0, lock |-> "absent"]
  /\ plan = NoPlan /\ prev = NoIntent /\ overlaid = FALSE /\ persisted = 0
  /\ attempts = 0 /\ feedback = FALSE /\ prevPrimary = NoIntent
  /\ prevCodes = NoCodes /\ codes = {} /\ outcome = "not_needed"
  /\ review = [guidance |-> NoGuidance, directive |-> NoType]
  /\ file = NoFile /\ telemetry = "none" /\ committed = NoFile
  /\ exit = -1
  /\ verdict = "none" /\ auto = 0

-----------------------------------------------------------------------------
(* Before the loop. *)

(* GIT_CG_SKIP_PREPARE, a source that already has a message, or nothing    *)
(* staged: leave with 0 and do nothing.                                    *)
SkipGeneration ==
  /\ pc = "start"
  /\ Exit(0)
  /\ UNCHANGED <<inputs, steering, cycle, budget, review, result, history>>

(* git diff fails, or no AI client can be built. *)
SetupFails ==
  /\ pc = "start"
  /\ Exit(AbortCode(cfg.strict))
  /\ UNCHANGED <<inputs, steering, cycle, budget, review, result, history>>

(* The branch name may carry one issue number, attached with the verb      *)
(* Refs; a Low ranking opens the arbitration menu when a TTY and the flag  *)
(* allow it.                                                               *)
Setup ==
  /\ pc = "start"
  /\ \E branch \in {{}} \cup {{<<n, "Refs">>} : n \in Issues} : refs' = branch
  /\ pc' = IF ctx.low /\ cfg.arbitrate /\ cfg.tty THEN "menu" ELSE "blueprint"
  /\ UNCHANGED <<inputs, locked, guidance, directive, cycle, budget, review,
                 result, exit, history>>

(***************************************************************************)
(* The arbitration menu, by its results: module IntentArbitration has its  *)
(* frames.  The caller keeps its own guidance and directives when the      *)
(* menu returns none.                                                      *)
(***************************************************************************)
MenuAborts ==
  /\ pc = "menu"
  /\ locked' = NoIntent
  /\ telemetry' = "written"
  /\ verdict' = "cancelled"
  /\ Exit(AbortCode(TRUE))
  /\ UNCHANGED <<inputs, guidance, directive, refs, cycle, budget, review,
                 file, committed, auto>>

MenuReRanks ==
  /\ pc = "menu"
  /\ \E g \in Guidances :
       /\ DirectiveOf[g] # NoType
       /\ guidance' = g
       /\ directive' = DirectiveOf[g]
  /\ locked' = NoIntent
  /\ pc' \in {"menu", "blueprint"}
  /\ UNCHANGED <<inputs, refs, cycle, budget, review, result, exit, history>>

MenuLocksAfresh ==
  /\ pc = "menu"
  /\ locked' \in Intents
  /\ \E g \in Guidances \cup {NoGuidance} :
       guidance' = g /\ directive' = ParseGuidance(g)
  /\ pc' = "blueprint"
  /\ UNCHANGED <<inputs, refs, cycle, budget, review, result, exit, history>>

MenuLocks ==
  /\ pc = "menu"
  /\ locked' \in Intents
  /\ \E g \in Guidances \cup {NoGuidance} :
       /\ guidance' = IF g # NoGuidance THEN g ELSE guidance
       /\ directive' = IF ParseGuidance(g) # NoType THEN ParseGuidance(g)
                       ELSE directive
  /\ pc' = "blueprint"
  /\ UNCHANGED <<inputs, refs, cycle, budget, review, result, exit, history>>

(* A rejected blueprint stops only a strict run on a TTY; otherwise it is  *)
(* dropped.                                                                *)
ParseBlueprint ==
  /\ pc = "blueprint"
  /\ IF cfg.blueprint # NoBlueprint /\ ~ BlueprintLegal /\ HardFail
     THEN Exit(2)
     ELSE pc' = "resolve" /\ UNCHANGED exit
  /\ UNCHANGED <<inputs, steering, cycle, budget, review, result, history>>

-----------------------------------------------------------------------------
(* One cycle of the loop. *)

ResolveContract ==
  /\ pc = "resolve"
  /\ contract' = ResolveSemanticContract(ctx, locked, prev, Preferred)
  /\ pc' = "model"
  /\ UNCHANGED <<inputs, steering, plan, prev, overlaid, persisted, budget,
                 review, result, exit, history>>

(* generate_commit_message raises: transport, retries used up, schema.     *)
ModelFails ==
  /\ pc = "model"
  /\ Exit(AbortCode(cfg.strict))
  /\ UNCHANGED <<inputs, steering, cycle, budget, review, result, history>>

(* enforce_semantic_contract overwrites whatever primary the model chose;  *)
(* the model or scoped history may recommend a split.                      *)
ModelAnswers ==
  /\ pc = "model"
  /\ \E split \in BOOLEAN :
       plan' = [id |-> contract.id, semver |-> contract.semver,
                skeleton |-> FALSE, split |-> split]
  /\ auto' = IF auto < AutoCap THEN auto + 1 ELSE auto
  /\ pc' = "present"
  /\ UNCHANGED <<inputs, steering, contract, prev, overlaid, persisted, budget,
                 review, result, exit, verdict>>

(* The low-confidence seed: path-role priors, or PATCH for a generic       *)
(* feature presentation, or nothing.                                       *)
SeedImpacts ==
  IF ~ ctx.low THEN {plan.semver}
  ELSE IF ctx.pathRole THEN {ctx.priors} ELSE {plan.semver, 1}

BlueprintImpact(semver) ==
  IF ctx.forceSemVer # NoSemVer THEN ctx.forceSemVer
  ELSE IF BlueprintLegal THEN cfg.blueprint ELSE semver

OverlayImpact(semver) ==
  IF ctx.forceSemVer # NoSemVer THEN ctx.forceSemVer
  ELSE Clamp(semver, ctx.ceiling)

(***************************************************************************)
(* Seed, blueprint and path-class overlay, any of which may raise and be   *)
(* swallowed, then the lift to the contract's floor.                       *)
(***************************************************************************)
Present ==
  /\ pc = "present"
  /\ \E seeded \in SeedImpacts, apply \in BOOLEAN, ok \in BOOLEAN :
       LET drafted == IF apply /\ BlueprintLegal THEN BlueprintImpact(seeded)
                      ELSE seeded
       IN  \E visible \in (IF ok THEN {OverlayImpact(drafted)}
                         ELSE {plan.semver, seeded, drafted}) :
             /\ plan' = [plan EXCEPT !.semver = Lift(visible, contract.semver)]
             /\ persisted' = Lift(visible, contract.semver)
             /\ overlaid' = ok
  /\ pc' = "policy"
  /\ UNCHANGED <<inputs, steering, contract, prev, budget, review, result,
                 exit, history>>

(* apply_blueprint raises although the blueprint was legal when parsed.    *)
BlueprintApplyFails ==
  /\ pc = "present"
  /\ BlueprintLegal /\ HardFail
  /\ Exit(2)
  /\ UNCHANGED <<inputs, steering, cycle, budget, review, result, history>>

(* K-P0.3: a gold pass must come back to the primary it was asked to       *)
(* reword.                                                                 *)
ReAnchored ==
  feedback /\ prevPrimary # NoIntent => contract.id = prevPrimary

(* GIT_CG_MIXED_POLICY=strict, then the re-anchor check, then the new      *)
(* ReviewState, which takes its directives from the guidance text alone.   *)
CheckPolicy ==
  /\ pc = "policy"
  /\ IF plan.split /\ cfg.mixedStrict
     THEN Exit(AbortCode(cfg.strict)) /\ UNCHANGED <<prev, review>>
     ELSE IF ~ ReAnchored
     THEN Exit(AbortCode(TRUE)) /\ UNCHANGED <<prev, review>>
     ELSE /\ prev' = plan.id
          /\ review' = [guidance |-> guidance,
                        directive |-> ParseGuidance(guidance)]
          /\ pc' = "guards"
          /\ UNCHANGED exit
  /\ UNCHANGED <<inputs, steering, contract, plan, overlaid, persisted, budget,
                 result, history>>

(* The presentation guards are clean, repair the wording, or raise.        *)
GuardsPass ==
  /\ pc = "guards"
  /\ pc' = "gold"
  /\ UNCHANGED <<inputs, steering, cycle, budget, review, result, exit, history>>

(* gold_regen_attempts += 1, in the guards' branch and in gold's.          *)
SpendNothing == attempts < RegenBudget /\ attempts' = attempts
Spend == attempts < RegenBudget /\ attempts' = attempts + 1

(* gold_guidance = None *)
KeepGoldGuidance == feedback' = feedback
DropGoldGuidance == feedback' = FALSE

(* Dirty wording spends the budget it shares with gold and drops what gold *)
(* remembered.                                                             *)
GuardsRegenerate ==
  /\ pc = "guards"
  /\ Spend
  /\ DropGoldGuidance
  /\ prevCodes' = NoCodes
  /\ prevPrimary' = plan.id
  /\ pc' = "resolve"
  /\ UNCHANGED <<inputs, steering, cycle, codes, outcome, review, result, exit,
                 history>>

(* Budget spent: the deterministic skeleton, which keeps the intent and    *)
(* takes its SemVer from the path-class force or the path priors.          *)
GuardsFallBack ==
  /\ pc = "guards"
  /\ attempts >= RegenBudget
  /\ plan' = [plan EXCEPT
                !.semver = IF ctx.forceSemVer # NoSemVer THEN ctx.forceSemVer
                           ELSE ctx.priors,
                !.skeleton = TRUE]
  /\ DropGoldGuidance
  /\ prevCodes' = NoCodes
  /\ pc' = "gold"
  /\ UNCHANGED <<inputs, steering, contract, prev, overlaid, persisted, attempts,
                 prevPrimary, codes, outcome, review, result, exit, history>>

(* check_commit_gold: wording codes are free, provenance and matrix        *)
(* equality are decided by the plan.                                       *)
GoldReportUnmarked(found) ==
  /\ found \subseteq AllCodes \ {SkeletonCode}
  /\ MatrixCode \in found <=>
       ~ overlaid /\ MatrixSemVer(plan.id) \notin {NoSemVer, plan.semver}
GoldReport(found) ==
  /\ found \subseteq AllCodes
  /\ SkeletonCode \in found <=> plan.skeleton
  /\ MatrixCode \in found <=>
       ~ overlaid /\ MatrixSemVer(plan.id) \notin {NoSemVer, plan.semver}

(* Why strict gold gives up: the budget, or codes that did not shrink.     *)
GoldVerdict(found) ==
  IF attempts >= RegenBudget THEN "exhausted"
  ELSE IF prevCodes = NoCodes THEN "regenerate"
  ELSE IF found = prevCodes THEN "aborted_stall"
  ELSE IF found \subseteq prevCodes THEN "regenerate"
  ELSE "aborted_growth"

GoldPasses ==
  /\ pc = "gold"
  /\ \E found \in SUBSET AllCodes :
       GoldReport(found) /\ OkForMode(found) /\ codes' = found
  /\ outcome' = IF attempts > 0 THEN "cleared" ELSE outcome
  /\ DropGoldGuidance
  /\ pc' = "write"
  /\ UNCHANGED <<inputs, steering, cycle, attempts, prevPrimary, prevCodes,
                 review, result, exit, history>>

GoldRegenerates ==
  /\ pc = "gold"
  /\ \E found \in SUBSET AllCodes :
       /\ GoldReport(found) /\ ~ OkForMode(found)
       /\ GoldVerdict(found) = "regenerate"
       /\ codes' = found /\ prevCodes' = found
  /\ Spend
  /\ feedback' = TRUE
  /\ prevPrimary' = plan.id
  /\ pc' = "resolve"
  /\ UNCHANGED <<inputs, steering, cycle, outcome, review, result, exit, history>>

(* A strict gold abort always exits 1, whatever --strict says. *)
GoldAborts ==
  /\ pc = "gold"
  /\ \E found \in SUBSET AllCodes :
       /\ GoldReport(found) /\ ~ OkForMode(found)
       /\ GoldVerdict(found) # "regenerate"
       /\ codes' = found /\ outcome' = GoldVerdict(found)
  /\ DropGoldGuidance
  /\ telemetry' = "written"
  /\ Exit(AbortCode(TRUE))
  /\ UNCHANGED <<inputs, steering, cycle, attempts, prevPrimary, prevCodes,
                 review, file, committed, history>>

-----------------------------------------------------------------------------
(* Writing and reviewing the message. *)

Message(attached) ==
  [id |-> plan.id, semver |-> plan.semver, skeleton |-> plan.skeleton,
   floor |-> contract.semver, codes |-> codes, refs |-> attached,
   edited |-> FALSE]

(* _write_commit_message, which a dry run never reaches.                   *)
WrittenOnce(attached) ==
  IF cfg.dryRun \/ file # NoFile THEN file ELSE Message(attached)
Written(attached) == IF cfg.dryRun THEN file ELSE Message(attached)

(* The message is written before it is reviewed. *)
WriteMessage ==
  /\ pc = "write"
  /\ file' = Written(refs)
  /\ pc' = IF cfg.tty THEN "review" ELSE "finish"
  /\ UNCHANGED <<inputs, steering, cycle, budget, review, telemetry, committed,
                 exit, history>>

WriteFails ==
  /\ pc = "write" /\ ~ cfg.dryRun
  /\ Exit(AbortCode(cfg.strict))
  /\ UNCHANGED <<inputs, steering, cycle, budget, review, result, history>>

MayAttach(n, verb) == \A r \in refs : r[1] # n

(* A new reference rewrites the message file. *)
AddIssueReference ==
  /\ pc = "review"
  /\ \E n \in Issues, verb \in Verbs :
       /\ MayAttach(n, verb)
       /\ refs' = refs \cup {<<n, verb>>}
  /\ file' = Written(refs')
  /\ UNCHANGED <<pc, inputs, locked, guidance, directive, cycle, budget, review,
                 telemetry, committed, exit, history>>

(* The reference is in the ReviewState, but the file cannot be rewritten.   *)
AddReferenceFails ==
  /\ pc = "review"
  /\ \E n \in Issues, verb \in Verbs :
       /\ MayAttach(n, verb)
       /\ refs' = refs \cup {<<n, verb>>}
  /\ Exit(AbortCode(cfg.strict))
  /\ UNCHANGED <<inputs, locked, guidance, directive, cycle, budget, review,
                 result, history>>

SetGuidance ==
  /\ pc = "review"
  /\ \E g \in Guidances \ {review.guidance} :
       review' = [guidance |-> g, directive |-> DirectiveOf[g]]
  /\ UNCHANGED <<pc, inputs, steering, cycle, budget, result, exit, history>>

ClearGuidance ==
  /\ pc = "review"
  /\ review.guidance # NoGuidance
  /\ review' = [guidance |-> NoGuidance, directive |-> NoType]
  /\ UNCHANGED <<pc, inputs, steering, cycle, budget, result, exit, history>>

(* Every way out of the review copies the ReviewState's steering back.     *)
CopyBack ==
  /\ guidance' = review.guidance
  /\ directive' = review.directive

(* A Regenerate starts the next cycle with the budget, the codes and the   *)
(* anchor of the last one.                                                 *)
Regenerate ==
  /\ pc = "review"
  /\ CopyBack
  /\ verdict' = "regenerate" /\ auto' = 0
  /\ pc' = "resolve"
  /\ UNCHANGED <<inputs, locked, refs, cycle, budget, review, result, exit>>

Cancel ==
  /\ pc = "review"
  /\ CopyBack
  /\ verdict' = "cancelled"
  /\ Exit(AbortCode(cfg.strict))
  /\ UNCHANGED <<inputs, locked, refs, cycle, budget, review, result, auto>>

(* Commit; gum failing or being dismissed counts as Commit.                *)
Accept ==
  /\ pc = "review"
  /\ CopyBack
  /\ verdict' = "accepted"
  /\ pc' = "finish"
  /\ UNCHANGED <<inputs, locked, refs, cycle, budget, review, result, exit, auto>>

(* Edit opens the file (a throw-away copy in a dry run) and then accepts.  *)
Edit ==
  /\ pc = "review"
  /\ CopyBack
  /\ verdict' = "accepted"
  /\ file' = IF cfg.dryRun THEN file ELSE [file EXCEPT !.edited = TRUE]
  /\ pc' = "finish"
  /\ UNCHANGED <<inputs, locked, refs, cycle, budget, review, telemetry,
                 committed, exit, auto>>

-----------------------------------------------------------------------------
(* After the loop. *)

(* Telemetry is written, and the generation returns to its caller.         *)
Finish ==
  /\ pc = "finish"
  /\ telemetry' = "written"
  /\ IF cfg.hook \/ cfg.dryRun THEN Exit(0)
     ELSE pc' = "apply" /\ UNCHANGED exit
  /\ UNCHANGED <<inputs, steering, cycle, budget, review, file, committed,
                 history>>

(* _apply_standalone_commit: git commit -F, which hooks may refuse.        *)
ApplyUnchecked ==
  /\ pc = "apply"
  /\ committed' \in {file, committed}
  /\ Exit(0)
  /\ UNCHANGED <<inputs, steering, cycle, budget, review, file, telemetry,
                 history>>
ApplyCommit ==
  /\ pc = "apply"
  /\ \/ committed' = file /\ Exit(0)
     \/ committed' = committed /\ Exit(AbortCode(cfg.strict))
  /\ UNCHANGED <<inputs, steering, cycle, budget, review, file, telemetry,
                 history>>

(* git goes on to commit what the message file holds when the              *)
(* prepare-commit-msg hook exits 0 (external: git itself).                 *)
GitAfterHook ==
  /\ pc = "exited" /\ cfg.hook
  /\ committed' = IF exit = 0 THEN file ELSE NoFile
  /\ pc' = "over"
  /\ UNCHANGED <<inputs, steering, cycle, budget, review, file, telemetry, exit,
                 history>>

Over ==
  /\ pc = "over" \/ (pc = "exited" /\ ~ cfg.hook)
  /\ UNCHANGED vars

Program ==
  \/ SkipGeneration \/ SetupFails \/ Setup \/ ParseBlueprint
  \/ ResolveContract \/ ModelFails \/ ModelAnswers
  \/ Present \/ BlueprintApplyFails \/ CheckPolicy
  \/ GuardsPass \/ GuardsRegenerate \/ GuardsFallBack
  \/ GoldPasses \/ GoldRegenerates \/ GoldAborts
  \/ WriteMessage \/ WriteFails \/ Finish \/ ApplyCommit

Operator ==
  \/ MenuAborts \/ MenuReRanks \/ MenuLocks
  \/ AddIssueReference \/ AddReferenceFails \/ SetGuidance \/ ClearGuidance
  \/ Regenerate \/ Cancel \/ Accept \/ Edit

Next == Program \/ Operator \/ GitAfterHook \/ Over

Spec == Init /\ [][Next]_vars

(* The process runs whenever it can; nobody owes it an operator's answer.  *)
FairSpec == Spec /\ WF_vars(Program)
-----------------------------------------------------------------------------
(* Properties. *)

Locations == {"start", "menu", "blueprint", "resolve", "model", "present",
              "policy", "guards", "gold", "write", "review", "finish", "apply",
              "exited", "over"}
RefSet   == Issues \X Verbs
Plans    == [id : Intents \cup {Unknown, NoIntent}, semver : SemVer,
             skeleton : BOOLEAN, split : BOOLEAN]
Messages == [id : Intents \cup {Unknown}, semver : SemVer, skeleton : BOOLEAN,
             floor : SemVer, codes : SUBSET AllCodes, refs : SUBSET RefSet,
             edited : BOOLEAN]

(* "No message" is not a message. *)
ASSUME NoFileAssumption == NoFile \notin Messages

Aborted == {"exhausted", "aborted_stall", "aborted_growth"}

(* Every variable keeps its shape: the state main.py carries through its   *)
(* loop and its exits.                                                     *)
TypeOK ==
  /\ pc \in Locations
  /\ cfg \in Configs /\ ctx \in ContextSet
  /\ locked \in Intents \cup {NoIntent}
  /\ guidance \in Guidances \cup {NoGuidance}
  /\ directive \in Directives
  /\ refs \subseteq RefSet
  /\ contract \in Contracts
  /\ plan \in Plans
  /\ prev \in Intents \cup {Unknown, NoIntent}
  /\ overlaid \in BOOLEAN
  /\ persisted \in SemVer
  /\ attempts \in 0..RegenBudget
  /\ feedback \in BOOLEAN
  /\ prevPrimary \in Intents \cup {Unknown, NoIntent}
  /\ prevCodes \in (SUBSET AllCodes) \cup {NoCodes}
  /\ codes \subseteq AllCodes
  /\ outcome \in {"not_needed", "cleared"} \cup Aborted
  /\ review \in [guidance : Guidances \cup {NoGuidance}, directive : Directives]
  /\ file \in Messages \cup {NoFile}
  /\ telemetry \in {"none", "written"}
  /\ exit \in -1..2
  /\ committed \in Messages \cup {NoFile}
  /\ verdict \in {"none", "regenerate", "cancelled", "accepted"}
  /\ auto \in Nat

(* A gold pass asks for new wording only, so the contract it is resolved   *)
(* against must be the one it left; the K-P0.3 check, which calls anything *)
(* else an internal error, must never fire, whatever the operator locked,  *)
(* steered or regenerated before.                                          *)
ReAnchorAgrees == pc = "policy" => ReAnchored

(* Between two decisions of the operator the program calls the model at    *)
(* most three times: gold and the guards share one budget of two.          *)
AutoBounded == auto <= RegenBudget + 1

(* Under strict gold, whatever ends up committed unedited carries no       *)
(* strict code and is not the guards' skeleton, also when it is an older   *)
(* message that a hook left behind.                                        *)
StrictCommitsClean ==
  committed # NoFile /\ GoldMode = "strict" /\ ~ committed.edited =>
    /\ committed.codes \cap StrictCodes = {}
    /\ ~ committed.skeleton

(* An intent the operator locked in the menu and the constraints allow is  *)
(* the intent of every message written, through guidance that prefers      *)
(* another type, retries, regenerations and the skeleton.                  *)
LockHonoured ==
  file # NoFile /\ LockApplies(ctx, locked) => file.id = locked

(* A message never says less than its contract's SemVer, unless it is the  *)
(* skeleton: seed, blueprint, ceiling and overlay only demote before the   *)
(* lift.                                                                   *)
FloorOrSkeleton ==
  file # NoFile /\ file.semver < file.floor => file.skeleton

(* The exit code tells git and scripts the truth.  Without --strict a hook *)
(* fails, and so blocks the commit, only when the operator aborted the     *)
(* menu or strict gold gave up ("Leave OFF for git hooks so a failed       *)
(* generation never blocks the commit"); a --strict command that generated *)
(* a message and ends with 0 has committed it; a dry run ends without      *)
(* having touched file or history.                                         *)
ExitTellsTruth ==
  /\ cfg.hook /\ ~ cfg.strict /\ exit > 0 =>
       \/ verdict = "cancelled"
       \/ GoldMode = "strict" /\ outcome \in Aborted
  /\ cfg.strict /\ ~ cfg.hook /\ ~ cfg.dryRun /\ exit = 0 /\ plan # NoPlan =>
       committed # NoFile /\ committed = file
  /\ cfg.dryRun => file = NoFile /\ committed = NoFile

(* When strict gold gives up, nothing is committed by this invocation,     *)
(* even in a hook whose earlier message is still in the file.              *)
GoldAbortBlocks ==
  outcome \in Aborted => exit = 1 /\ committed = NoFile

(* While the run lasts, and once the operator has accepted, the message on  *)
(* disk carries the references collected so far, one verb per number: the  *)
(* branch's, and those added in review, across regenerations.              *)
RefsKept ==
  file # NoFile /\ (exit = -1 \/ verdict = "accepted") =>
    /\ file.refs = refs
    /\ \A r1, r2 \in file.refs : r1[1] = r2[1] => r1 = r2

(* An accepted message that nobody edited is committed as it was last      *)
(* presented, never as an earlier cycle left it in the file.               *)
AcceptedIsPresented ==
  committed # NoFile /\ verdict = "accepted" /\ ~ committed.edited =>
    /\ committed.id = plan.id
    /\ committed.semver = plan.semver
    /\ committed.codes = codes

(* The generation relies on the menu for no more than it promises, and     *)
(* never touches the lock afterwards.                                      *)
Promise == INSTANCE ArbitrationPromise WITH open <- pc = "menu"
MenuAsPromised == Promise!Spec

(* The program never runs on for ever by itself: it comes back to the      *)
(* operator or ends.                                                       *)
Responsive == []<>(pc \in {"menu", "review", "exited", "over"})

=============================================================================
