----------------------- MODULE CommitGenerationProofs -----------------------
(***************************************************************************)
(* Safety of the generation loop (CommitGeneration) for every matrix,      *)
(* every set of invocations, contexts and guidances, and of the menu it    *)
(* opens (IntentArbitration) for every ranking, every scores and every     *)
(* limit on cancels: the menu implements ArbitrationPromise.               *)
(***************************************************************************)
EXTENDS CommitGeneration, IntentArbitration, FiniteSetTheorems, WellFoundedInduction, TLAPS

-----------------------------------------------------------------------------
(* Facts about the operators of SemanticContract, for every matrix, every  *)
(* context, every lock and every previous plan.                            *)
LessThanOnNat == {ss \in Nat \X Nat : ss[1] < ss[2]}

LEMMA LessThanWellFounded == IsWellFoundedOn(LessThanOnNat, Nat)
<1>1. LessThanOnNat = OpToRel(<, Nat)
  BY DEF LessThanOnNat, OpToRel
<1> QED
  BY <1>1, NatLessThanWellFounded

LEMMA LeastOf ==
  ASSUME NEW S \in SUBSET Nat, S # {}
  PROVE  \E x \in S : \A y \in S : x <= y
<1>1. PICK x \in S : \A y \in S : ~ (<<y, x>> \in LessThanOnNat)
  BY LessThanWellFounded, WFMin
<1>2. ASSUME NEW y \in S PROVE x <= y
  <2>1. <<y, x>> \notin LessThanOnNat
    BY <1>1
  <2>2. y \in Nat /\ x \in Nat
    OBVIOUS
  <2>3. ~ (y < x)
    BY <2>1, <2>2 DEF LessThanOnNat
  <2> QED
    BY <2>2, <2>3
<1> QED
  BY <1>2

(* next(...) over a non-empty sequence of candidates returns one of them.  *)
LEMMA FirstInSet ==
  ASSUME NEW S \in SUBSET Nat, S # {}
  PROVE  First(S) \in S
BY LeastOf DEF First

-----------------------------------------------------------------------------
(* Which row a cycle is bound to. *)

LEMMA RowsOfAreRows ==
  ASSUME NEW id
  PROVE  /\ RowsOf(id) \in SUBSET Nat
         /\ RowsOf(id) \subseteq DOMAIN Matrix
         /\ \A i \in RowsOf(id) : Matrix[i].id = id
BY MatrixAssumption DEF RowsOf

(* An intent's own row carries the intent.                                 *)
LEMMA FirstRowOf ==
  ASSUME NEW id, RowsOf(id) # {}
  PROVE  /\ First(RowsOf(id)) \in DOMAIN Matrix
         /\ Matrix[First(RowsOf(id))].id = id
<1>1. First(RowsOf(id)) \in RowsOf(id)
  BY RowsOfAreRows, FirstInSet
<1> QED
  BY <1>1, RowsOfAreRows

(* _try_ranked_or_matrix returns nothing or a row of the matrix that the   *)
(* context allows.                                                         *)
LEMMA RankedOrMatrixRow ==
  ASSUME NEW cx \in Contexts, NEW type, RankedOrMatrix(cx, type) # 0
  PROVE  /\ RankedOrMatrix(cx, type) \in DOMAIN Matrix
         /\ IsEligible(cx, Matrix[RankedOrMatrix(cx, type)].id)
<1>1. RankedHits(cx, type) \in SUBSET Nat /\ MatrixHits(cx, type) \in SUBSET Nat
  BY MatrixAssumption DEF RankedHits, MatrixHits, Contexts
<1>2. CASE RankedHits(cx, type) # {}
  <2> DEFINE k == First(RankedHits(cx, type))
  <2>1. k \in RankedHits(cx, type)
    BY <1>1, <1>2, FirstInSet
  <2>2. IsEligible(cx, cx.ranked[k]) /\ RowsOf(cx.ranked[k]) # {}
    BY <2>1 DEF RankedHits
  <2>3. RankedOrMatrix(cx, type) = First(RowsOf(cx.ranked[k]))
    BY <1>2 DEF RankedOrMatrix
  <2> QED
    BY <2>2, <2>3, FirstRowOf
<1>3. CASE RankedHits(cx, type) = {}
  <2>1. MatrixHits(cx, type) # {}
        /\ RankedOrMatrix(cx, type) = First(MatrixHits(cx, type))
    BY <1>3 DEF RankedOrMatrix
  <2>2. First(MatrixHits(cx, type)) \in MatrixHits(cx, type)
    BY <1>1, <2>1, FirstInSet
  <2> QED
    BY <2>1, <2>2 DEF MatrixHits
<1> QED
  BY <1>2, <1>3

LEMMA ResolvedIndexIsRow ==
  ASSUME NEW cx \in Contexts, NEW lock, NEW last, NEW preferred,
         Matrix # << >>
  PROVE  ResolvedIndex(cx, lock, last, preferred) \in DOMAIN Matrix
<1>1. 1 \in DOMAIN Matrix
  BY MatrixAssumption
<1> QED
  BY <1>1, FirstRowOf, RankedOrMatrixRow
  DEF ResolvedIndex, LockApplies, PreviousApplies

(* Every contract is one: an intent of the matrix (or the stand-in for the *)
(* empty one), a known type, a known impact.                               *)
LEMMA ContractIsContract ==
  ASSUME NEW cx \in Contexts, NEW lock, NEW last, NEW preferred
  PROVE  ResolveSemanticContract(cx, lock, last, preferred) \in Contracts
<1>1. CASE Matrix = << >>
  BY <1>1, MatrixAssumption
  DEF ResolveSemanticContract, Contracts, LockResolutions, SemVer
<1>2. CASE Matrix # << >>
  <2> DEFINE row == Matrix[ResolvedIndex(cx, lock, last, preferred)]
  <2>1. row \in Rows
    BY <1>2, ResolvedIndexIsRow, MatrixAssumption
  <2>2. EnvelopeType(cx, row.type) \in Types
    BY <2>1, MatrixAssumption DEF EnvelopeType, Contexts, Rows
  <2>3. EnvelopeSemVer(cx, row.semver) \in SemVer
    BY <2>1 DEF EnvelopeSemVer, Contexts, Rows, SemVer, NoSemVer
  <2>4. ClassifyLock(cx, lock) \in LockResolutions
    BY DEF ClassifyLock, LockResolutions
  <2>5. ResolveSemanticContract(cx, lock, last, preferred) =
            [id |-> row.id, type |-> EnvelopeType(cx, row.type),
             semver |-> EnvelopeSemVer(cx, row.semver),
             lock |-> ClassifyLock(cx, lock)]
    BY <1>2 DEF ResolveSemanticContract
  <2>6. row.id \in Intents
    BY <2>1 DEF Rows
  <2> HIDE DEF row
  <2> QED
    BY <2>2, <2>3, <2>4, <2>5, <2>6 DEF Contracts
<1> QED
  BY <1>1, <1>2

LEMMA ContractId ==
  ASSUME NEW cx, NEW lock, NEW last, NEW preferred
  PROVE  ResolveSemanticContract(cx, lock, last, preferred).id =
         IF Matrix = << >> THEN Unknown
         ELSE Matrix[ResolvedIndex(cx, lock, last, preferred)].id
BY DEF ResolveSemanticContract

(* A lock that applies is the contract, whatever the guidance prefers and  *)
(* whatever was planned before.                                            *)
THEOREM LockWins ==
  ASSUME NEW cx, NEW lock, NEW last, NEW preferred, LockApplies(cx, lock)
  PROVE  ResolveSemanticContract(cx, lock, last, preferred).id = lock
<1>1. RowsOf(lock) # {}
  BY DEF LockApplies
<1>2. Matrix # << >>
  BY <1>1 DEF RowsOf
<1> QED
  BY <1>1, <1>2, ContractId, FirstRowOf DEF ResolvedIndex

(* Resolving again from the plan a contract led to gives the same intent,  *)
(* as long as the context, the lock and the preferred type stay: a gold    *)
(* pass that only rewords is resolved back to where it started.            *)
THEOREM ResolveStable ==
  ASSUME NEW cx \in Contexts, NEW lock, NEW last, NEW preferred
  PROVE  LET id == ResolveSemanticContract(cx, lock, last, preferred).id
         IN  ResolveSemanticContract(cx, lock, id, preferred).id = id
<1> DEFINE i  == ResolvedIndex(cx, lock, last, preferred)
           id == Matrix[i].id
           j  == ResolvedIndex(cx, lock, id, preferred)
<1>1. CASE Matrix = << >>
  BY <1>1, ContractId
<1>2. CASE Matrix # << >>
  <2>1. i \in DOMAIN Matrix
    BY <1>2, ResolvedIndexIsRow
  <2>2. CASE \/ LockApplies(cx, lock)
             \/ preferred # NoType /\ RankedOrMatrix(cx, preferred) # 0
    <3>1. i = j
      BY <2>2 DEF ResolvedIndex
    <3> QED
      BY <1>2, <3>1, ContractId
  <2>3. CASE /\ ~ LockApplies(cx, lock)
             /\ ~ (preferred # NoType /\ RankedOrMatrix(cx, preferred) # 0)
    <3>1. CASE PreviousApplies(cx, id)
      <4>1. j = First(RowsOf(id)) /\ RowsOf(id) # {}
        BY <2>3, <3>1 DEF ResolvedIndex, PreviousApplies
      <4>2. Matrix[j].id = id
        BY <4>1, FirstRowOf
      <4> QED
        BY <1>2, <4>2, ContractId
    <3>2. CASE ~ PreviousApplies(cx, id)
      <4>1. i \in RowsOf(id) /\ id \in Intents
        <5>1. Matrix[i] \in Rows
          BY <2>1, MatrixAssumption
        <5>2. id \in Intents
          BY <5>1 DEF Rows
        <5> QED
          BY <2>1, <5>2 DEF RowsOf
      <4>2. ~ IsEligible(cx, id)
        BY <3>2, <4>1, MatrixAssumption DEF PreviousApplies
      <4>3. ~ PreviousApplies(cx, last)
        BY <2>3, <4>2, FirstRowOf DEF ResolvedIndex, PreviousApplies
      <4>4. RankedOrMatrix(cx, NoType) = 0
        BY <2>3, <4>2, <4>3, RankedOrMatrixRow DEF ResolvedIndex
      <4>5. i = 1 /\ j = 1
        BY <2>3, <3>2, <4>3, <4>4 DEF ResolvedIndex
      <4> QED
        BY <1>2, <4>5, ContractId
    <3> QED
      BY <3>1, <3>2
  <2> QED
    BY <2>2, <2>3
<1> QED
  BY <1>1, <1>2

(* The lift stays within the impacts and never ends below its floor.       *)
LEMMA LiftReachesFloor ==
  ASSUME NEW semver \in SemVer, NEW floor \in SemVer
  PROVE  Lift(semver, floor) \in SemVer /\ Lift(semver, floor) >= floor
BY DEF Lift, SemVer

(* The path-class overlay only clamps, or sets what the path forces.       *)
LEMMA ClampIsSemVer ==
  ASSUME NEW semver \in SemVer, NEW ceiling \in SemVer
  PROVE  Clamp(semver, ceiling) \in SemVer /\ Clamp(semver, ceiling) <= semver
BY DEF Clamp, SemVer
-----------------------------------------------------------------------------
(* The generation loop.                                                    *)
Steered  == {"start", "menu", "blueprint"}
Planned  == {"present", "policy", "guards", "gold", "write", "review",
             "finish", "apply"}
Rendered == {"write", "review", "finish", "apply"}

(* What holds of the plan, the gold feedback and the file by place.        *)
Placed ==
  /\ pc \in Steered => file = NoFile /\ ~ feedback
  /\ pc \in Planned => plan.id = contract.id
  /\ pc \in Rendered => ~ feedback
  /\ pc \in Rendered \ {"write"} /\ ~ cfg.dryRun => file \in Messages

(* Resolving again from the last plan comes back to it.                    *)
Settled ==
  ResolveSemanticContract(ctx, locked, prev, Preferred).id = prev

(* Why the re-anchor check never fires: what a gold pass remembers is the  *)
(* plan's primary, that primary is where the contract's resolution starts  *)
(* from, and nothing that steers the resolution changes on the way.        *)
AnchorInv ==
  /\ pc \in {"model", "present", "policy"} =>
       contract = ResolveSemanticContract(ctx, locked, prev, Preferred)
  /\ pc \in {"guards", "gold"} => prev = plan.id /\ Settled
  /\ pc = "resolve" /\ feedback => prevPrimary = prev /\ Settled
  /\ pc \in {"model", "present", "policy"} /\ feedback =>
       contract.id = prevPrimary

(* Every model call but the first since the operator decided was paid for. *)
Unanswered == Steered \cup {"resolve", "model"}
BudgetInv ==
  /\ pc \in Unanswered => auto <= attempts
  /\ auto <= attempts + 1

(* The plan is at its contract's floor, or is the skeleton.                *)
FloorInv ==
  /\ FloorOrSkeleton
  /\ pc \in Planned \ {"present"} =>
       plan.semver >= contract.semver \/ plan.skeleton

(* From the first contract on, an applicable lock is the contract.         *)
LockInv ==
  /\ LockHonoured
  /\ pc \in Planned \cup {"model"} /\ LockApplies(ctx, locked) =>
       contract.id = locked

(* Once strict gold has passed, the plan, its codes and every message made *)
(* of them are clean; StrictCommitsClean is the last step of that.         *)
CleanInv ==
  GoldMode = "strict" =>
    /\ pc \in Rendered => codes \cap StrictCodes = {} /\ ~ plan.skeleton
    /\ file # NoFile /\ ~ file.edited =>
         file.codes \cap StrictCodes = {} /\ ~ file.skeleton
    /\ committed # NoFile /\ ~ committed.edited =>
         committed.codes \cap StrictCodes = {} /\ ~ committed.skeleton

(* Nothing is committed before the end, and giving up is an end.           *)
Ended == {"exited", "over"}
AbortInv ==
  /\ pc \notin Ended => exit = -1 /\ committed = NoFile /\ outcome \notin Aborted
  /\ GoldAbortBlocks

(* The file follows the references as long as the run lasts.               *)
RefsInv ==
  /\ \A r1, r2 \in refs : r1[1] = r2[1] => r1 = r2
  /\ cfg.dryRun => file = NoFile
  /\ verdict = "accepted" => pc \in Ended \cup {"finish", "apply"}
  /\ file # NoFile /\ (exit = -1 \/ verdict = "accepted") => file.refs = refs

(* From the write on, the file is the plan's message, unless somebody      *)
(* edits it, and a commit is of the file.                                  *)
Final == {"review", "finish", "apply"}
Shown(message) ==
  ~ message.edited =>
    message.id = plan.id /\ message.semver = plan.semver /\ message.codes = codes
PresentedInv ==
  /\ (pc \in Final \/ verdict = "accepted") /\ file # NoFile => Shown(file)
  /\ committed # NoFile => pc \in Ended /\ committed = file

(* Where each exit code comes from.                                        *)
ExitInv ==
  /\ ExitTellsTruth
  /\ pc \in Steered => plan = NoPlan
  /\ pc = "apply" => ~ cfg.hook /\ ~ cfg.dryRun

-----------------------------------------------------------------------------
(* Presentation leaves the plan with an impact between the contract's and  *)
(* the greatest.                                                           *)
LEMMA PresentedImpact ==
  ASSUME TypeOK, Present
  PROVE  /\ plan' = [plan EXCEPT !.semver = persisted']
         /\ persisted' \in SemVer
         /\ persisted' >= contract.semver
         /\ overlaid' \in BOOLEAN
<1>1. ctx \in Contexts /\ plan.semver \in SemVer /\ contract.semver \in SemVer
  BY GenerationAssumption, GuidanceAssumption DEF TypeOK, Plans, Contracts
<1>2. PICK seeded \in SeedImpacts, apply \in BOOLEAN, ok \in BOOLEAN :
        LET drafted == IF apply /\ BlueprintLegal THEN BlueprintImpact(seeded)
                       ELSE seeded
        IN  \E visible \in (IF ok THEN {OverlayImpact(drafted)}
                          ELSE {plan.semver, seeded, drafted}) :
              /\ plan' = [plan EXCEPT !.semver = Lift(visible, contract.semver)]
              /\ persisted' = Lift(visible, contract.semver)
              /\ overlaid' = ok
  BY DEF Present
<1> DEFINE drafted == IF apply /\ BlueprintLegal THEN BlueprintImpact(seeded)
                      ELSE seeded
<1>3. seeded \in SemVer
  BY <1>1 DEF SeedImpacts, Contexts, SemVer
<1>4. drafted \in SemVer
  BY <1>1, <1>3 DEF BlueprintImpact, BlueprintLegal, Contexts, SemVer, NoSemVer
<1>5. OverlayImpact(drafted) \in SemVer
  BY <1>1, <1>4, ClampIsSemVer DEF OverlayImpact, Contexts, SemVer, NoSemVer
<1> HIDE DEF drafted
<1>6. PICK visible \in SemVer :
        /\ plan' = [plan EXCEPT !.semver = Lift(visible, contract.semver)]
        /\ persisted' = Lift(visible, contract.semver)
        /\ overlaid' = ok
  BY <1>1, <1>2, <1>3, <1>4, <1>5 DEF drafted
<1>7. Lift(visible, contract.semver) \in SemVer
      /\ Lift(visible, contract.semver) >= contract.semver
  BY <1>1, LiftReachesFloor
<1> QED
  BY <1>6, <1>7

(* What is written is a message about the plan, whatever is attached.      *)
LEMMA MessageIsMessage ==
  ASSUME TypeOK, Placed, pc \in Rendered, NEW attached \in SUBSET RefSet
  PROVE  Message(attached) \in Messages
<1>1. plan.id \in Intents \cup {Unknown} /\ plan.id = contract.id
  BY DEF TypeOK, Placed, Rendered, Planned, Contracts
<1>2. plan.semver \in SemVer /\ plan.skeleton \in BOOLEAN
      /\ contract.semver \in SemVer /\ codes \in SUBSET AllCodes
  BY DEF TypeOK, Plans, Contracts
<1> QED
  BY <1>1, <1>2 DEF Message, Messages

(* One step keeps the shape of the state.                                  *)
LEMMA TypeStep ==
  TypeOK /\ Placed /\ [Next]_vars => TypeOK'
<1> SUFFICES ASSUME TypeOK, Placed, [Next]_vars PROVE TypeOK'
  OBVIOUS
<1> USE DEF TypeOK, inputs, steering, cycle, budget, result, history
<1>1. CASE SkipGeneration
  BY <1>1 DEF SkipGeneration, Exit, Locations, AbortCode
<1>2. CASE SetupFails
  BY <1>2 DEF SetupFails, Exit, Locations, AbortCode
<1>3. CASE Setup
  <2>1. refs' \subseteq RefSet
    BY <1>3, GenerationAssumption, GuidanceAssumption DEF Setup, RefSet
  <2> QED
    BY <1>3, <2>1 DEF Setup, Locations
<1>4. CASE ParseBlueprint
  BY <1>4 DEF ParseBlueprint, Exit, Locations, AbortCode
<1>5. CASE ResolveContract
  <2>1. contract' \in Contracts
    BY <1>5, GenerationAssumption, GuidanceAssumption, ContractIsContract DEF ResolveContract
  <2> QED
    BY <1>5, <2>1 DEF ResolveContract, Locations
<1>6. CASE ModelFails
  BY <1>6 DEF ModelFails, Exit, Locations, AbortCode
<1>7. CASE ModelAnswers
  <2>1. plan' \in Plans
    BY <1>7 DEF ModelAnswers, Contracts, Plans
  <2>2. auto' \in Nat
    BY <1>7 DEF ModelAnswers
  <2> QED
    BY <1>7, <2>1, <2>2 DEF ModelAnswers, Locations
<1>8. CASE Present
  <2>1. /\ plan' = [plan EXCEPT !.semver = persisted']
        /\ persisted' \in SemVer
        /\ overlaid' \in BOOLEAN
    BY <1>8, PresentedImpact
  <2>2. plan' \in Plans
    BY <2>1 DEF Plans
  <2> QED
    BY <1>8, <2>1, <2>2 DEF Present, Locations
<1>9. CASE BlueprintApplyFails
  BY <1>9 DEF BlueprintApplyFails, Exit, Locations, AbortCode
<1>10. CASE CheckPolicy
  <2>1. prev' \in Intents \cup {Unknown, NoIntent}
    BY <1>10 DEF CheckPolicy, Plans
  <2>2. ParseGuidance(guidance) \in Directives
    BY GenerationAssumption, GuidanceAssumption DEF ParseGuidance, Directives
  <2>3. review' \in [guidance : Guidances \cup {NoGuidance}, directive : Directives]
    <3>1. \/ review' = review
          \/ review' = [guidance |-> guidance, directive |-> ParseGuidance(guidance)]
      BY <1>10 DEF CheckPolicy
    <3>2. guidance \in Guidances \cup {NoGuidance}
      OBVIOUS
    <3> QED
      BY <2>2, <3>1, <3>2
  <2>4. pc' \in Locations /\ exit' \in -1..2
    BY <1>10 DEF CheckPolicy, Exit, AbortCode, Locations
  <2> QED
    BY <1>10, <2>1, <2>3, <2>4 DEF CheckPolicy
<1>11. CASE GuardsPass
  BY <1>11 DEF GuardsPass, Locations
<1>12. CASE GuardsRegenerate
  <2>1. feedback' \in BOOLEAN
    BY <1>12 DEF GuardsRegenerate, DropGoldGuidance
  <2>2. attempts' \in 0..RegenBudget
    BY <1>12 DEF GuardsRegenerate, Spend, RegenBudget
  <2>3. prevPrimary' \in Intents \cup {Unknown, NoIntent}
    BY <1>12 DEF GuardsRegenerate, Plans
  <2> QED
    BY <1>12, <2>1, <2>2, <2>3 DEF GuardsRegenerate, Locations
<1>13. CASE GuardsFallBack
  <2>1. ctx \in Contexts
    BY GenerationAssumption, GuidanceAssumption
  <2>2. plan' \in Plans
    BY <1>13, <2>1 DEF GuardsFallBack, Contexts, Plans, SemVer, NoSemVer
  <2>3. feedback' \in BOOLEAN
    BY <1>13 DEF GuardsFallBack, DropGoldGuidance
  <2> QED
    BY <1>13, <2>2, <2>3 DEF GuardsFallBack, Locations
<1>14. CASE GoldPasses
  <2>1. codes' \subseteq AllCodes
    BY <1>14 DEF GoldPasses, GoldReport
  <2>2. feedback' \in BOOLEAN
    BY <1>14 DEF GoldPasses, DropGoldGuidance
  <2> QED
    BY <1>14, <2>1, <2>2 DEF GoldPasses, Locations
<1>15. CASE GoldRegenerates
  <2>1. codes' \subseteq AllCodes /\ prevCodes' = codes'
    BY <1>15 DEF GoldRegenerates, GoldReport
  <2>2. attempts' \in 0..RegenBudget
    BY <1>15 DEF GoldRegenerates, Spend, RegenBudget
  <2>3. prevPrimary' \in Intents \cup {Unknown, NoIntent}
    BY <1>15 DEF GoldRegenerates, Plans
  <2> QED
    BY <1>15, <2>1, <2>2, <2>3 DEF GoldRegenerates, Locations
<1>16. CASE GoldAborts
  <2>1. codes' \subseteq AllCodes
    BY <1>16 DEF GoldAborts, GoldReport
  <2>2. outcome' \in Aborted
    BY <1>16 DEF GoldAborts, GoldVerdict, Aborted
  <2>3. feedback' \in BOOLEAN
    BY <1>16 DEF GoldAborts, DropGoldGuidance
  <2> QED
    BY <1>16, <2>1, <2>3, <2>2 DEF GoldAborts, Exit, AbortCode, Locations
<1>17. CASE WriteMessage
  <2>1. pc \in Rendered
    BY <1>17 DEF WriteMessage, Rendered
  <2>2. file' \in Messages \cup {NoFile}
    BY <1>17, <2>1, MessageIsMessage DEF WriteMessage, Written
  <2> QED
    BY <1>17, <2>2 DEF WriteMessage, Locations
<1>18. CASE WriteFails
  BY <1>18 DEF WriteFails, Exit, Locations, AbortCode
<1>19. CASE Finish
  BY <1>19 DEF Finish, Exit, Locations, AbortCode
<1>20. CASE ApplyCommit
  BY <1>20 DEF ApplyCommit, Exit, Locations, AbortCode
<1>21. CASE MenuAborts
  BY <1>21 DEF MenuAborts, Exit, Locations, AbortCode
<1>22. CASE MenuReRanks
  BY <1>22, GenerationAssumption, GuidanceAssumption
  DEF MenuReRanks, Locations, Directives, ParseGuidance
<1>23. CASE MenuLocks
  BY <1>23, GenerationAssumption, GuidanceAssumption
  DEF MenuLocks, Locations, Directives, ParseGuidance
<1>24. CASE AddIssueReference
  <2>1. pc \in Rendered
    BY <1>24 DEF AddIssueReference, Rendered
  <2>2. refs' \subseteq RefSet
    BY <1>24 DEF AddIssueReference, RefSet
  <2>3. file' \in Messages \cup {NoFile}
    BY <1>24, <2>1, <2>2, MessageIsMessage DEF AddIssueReference, Written
  <2> QED
    BY <1>24, <2>2, <2>3 DEF AddIssueReference
<1>25. CASE AddReferenceFails
  BY <1>25, GenerationAssumption, GuidanceAssumption
  DEF AddReferenceFails, Exit, Locations, RefSet, AbortCode
<1>26. CASE SetGuidance
  BY <1>26, GenerationAssumption, GuidanceAssumption
  DEF SetGuidance, Locations, Directives, ParseGuidance
<1>27. CASE ClearGuidance
  BY <1>27, GenerationAssumption, GuidanceAssumption
  DEF ClearGuidance, Locations, Directives, ParseGuidance
<1>28. CASE Regenerate
  BY <1>28 DEF Regenerate, CopyBack, Locations
<1>29. CASE Cancel
  BY <1>29 DEF Cancel, CopyBack, Exit, Locations, AbortCode
<1>30. CASE Accept
  BY <1>30 DEF Accept, CopyBack, Locations
<1>31. CASE Edit
  <2>1. file' \in Messages \cup {NoFile}
    BY <1>31 DEF Edit, Messages, Placed, Rendered
  <2> QED
    BY <1>31, <2>1 DEF Edit, CopyBack, Locations
<1>32. CASE GitAfterHook
  BY <1>32 DEF GitAfterHook, Locations
<1>33. CASE UNCHANGED vars
  BY <1>33 DEF vars
<1> QED
  BY
     <1>1, <1>2, <1>3, <1>4, <1>5, <1>6, <1>7, <1>8, <1>9, <1>10,
     <1>11, <1>12, <1>13, <1>14, <1>15, <1>16, <1>17, <1>18, <1>19,
     <1>20, <1>21, <1>22, <1>23, <1>24, <1>25, <1>26, <1>27, <1>28,
     <1>29, <1>30, <1>31, <1>32, <1>33
  DEF Next, Program, Operator, Over

(* One step keeps plan, feedback and file in their places.                 *)
LEMMA PlacedStep ==
  TypeOK /\ Placed /\ [Next]_vars => Placed'
<1> SUFFICES ASSUME TypeOK, Placed, [Next]_vars PROVE Placed'
  OBVIOUS
<1> USE DEF Placed, Rendered, Planned, Steered, inputs, steering, cycle,
          budget, result, history
<1>1. CASE SkipGeneration
  BY <1>1 DEF SkipGeneration, Exit
<1>2. CASE SetupFails
  BY <1>2 DEF SetupFails, Exit
<1>3. CASE Setup
  BY <1>3 DEF Setup
<1>4. CASE ParseBlueprint
  BY <1>4 DEF ParseBlueprint, Exit
<1>5. CASE ResolveContract
  BY <1>5 DEF ResolveContract
<1>6. CASE ModelFails
  BY <1>6 DEF ModelFails, Exit
<1>7. CASE ModelAnswers
  BY <1>7 DEF ModelAnswers
<1>8. CASE Present
  BY <1>8 DEF Present
<1>9. CASE BlueprintApplyFails
  BY <1>9 DEF BlueprintApplyFails, Exit
<1>10. CASE CheckPolicy
  BY <1>10 DEF CheckPolicy, Exit
<1>11. CASE GuardsPass
  BY <1>11 DEF GuardsPass
<1>12. CASE GuardsRegenerate
  BY <1>12 DEF GuardsRegenerate, Spend, DropGoldGuidance
<1>13. CASE GuardsFallBack
  BY <1>13 DEF GuardsFallBack, DropGoldGuidance
<1>14. CASE GoldPasses
  BY <1>14 DEF GoldPasses, DropGoldGuidance
<1>15. CASE GoldRegenerates
  BY <1>15 DEF GoldRegenerates, Spend
<1>16. CASE GoldAborts
  BY <1>16 DEF GoldAborts, DropGoldGuidance, Exit
<1>17. CASE WriteMessage
  <2>1. refs \in SUBSET RefSet /\ pc \in Rendered
    BY <1>17 DEF WriteMessage, TypeOK
  <2>2. ~ cfg.dryRun => file' \in Messages
    BY <1>17, <2>1, MessageIsMessage DEF WriteMessage, Written
  <2> QED
    BY <1>17, <2>2 DEF WriteMessage
<1>18. CASE WriteFails
  BY <1>18 DEF WriteFails, Exit
<1>19. CASE Finish
  BY <1>19 DEF Finish, Exit
<1>20. CASE ApplyCommit
  BY <1>20 DEF ApplyCommit, Exit
<1>21. CASE MenuAborts
  BY <1>21 DEF MenuAborts, Exit
<1>22. CASE MenuReRanks
  BY <1>22 DEF MenuReRanks
<1>23. CASE MenuLocks
  BY <1>23 DEF MenuLocks
<1>24. CASE AddIssueReference
  <2>1. refs' \in SUBSET RefSet /\ pc \in Rendered
    BY <1>24 DEF AddIssueReference, TypeOK, RefSet
  <2>2. ~ cfg.dryRun => file' \in Messages
    BY <1>24, <2>1, MessageIsMessage DEF AddIssueReference, Written
  <2> QED
    BY <1>24, <2>2 DEF AddIssueReference
<1>25. CASE AddReferenceFails
  BY <1>25 DEF AddReferenceFails, Exit
<1>26. CASE SetGuidance
  BY <1>26 DEF SetGuidance
<1>27. CASE ClearGuidance
  BY <1>27 DEF ClearGuidance
<1>28. CASE Regenerate
  BY <1>28 DEF Regenerate, CopyBack
<1>29. CASE Cancel
  BY <1>29 DEF Cancel, CopyBack, Exit
<1>30. CASE Accept
  BY <1>30 DEF Accept, CopyBack
<1>31. CASE Edit
  <2>1. ~ cfg.dryRun => file' \in Messages
    BY <1>31 DEF Edit, Messages
  <2> QED
    BY <1>31, <2>1 DEF Edit, CopyBack
<1>32. CASE GitAfterHook
  BY <1>32 DEF GitAfterHook
<1>33. CASE UNCHANGED vars
  BY <1>33 DEF vars
<1> QED
  BY
     <1>1, <1>2, <1>3, <1>4, <1>5, <1>6, <1>7, <1>8, <1>9, <1>10,
     <1>11, <1>12, <1>13, <1>14, <1>15, <1>16, <1>17, <1>18, <1>19,
     <1>20, <1>21, <1>22, <1>23, <1>24, <1>25, <1>26, <1>27, <1>28,
     <1>29, <1>30, <1>31, <1>32, <1>33
  DEF Next, Program, Operator, Over

(* One step keeps the anchor: only CheckPolicy moves prev, to a plan the   *)
(* contract resolves back to.                                              *)
LEMMA AnchorStep ==
  TypeOK /\ Placed /\ AnchorInv /\ [Next]_vars => AnchorInv'
<1> SUFFICES ASSUME TypeOK, Placed, AnchorInv, [Next]_vars PROVE AnchorInv'
  OBVIOUS
<1> USE DEF AnchorInv, Settled, inputs, steering, cycle, budget, result,
          history
<1>1. CASE SkipGeneration
  BY <1>1 DEF SkipGeneration, Exit, Preferred
<1>2. CASE SetupFails
  BY <1>2 DEF SetupFails, Exit, Preferred
<1>3. CASE Setup
  BY <1>3 DEF Setup, Preferred
<1>4. CASE ParseBlueprint
  BY <1>4 DEF ParseBlueprint, Exit, Preferred, Placed, Steered
<1>5. CASE ResolveContract
  BY <1>5 DEF ResolveContract, Preferred
<1>6. CASE ModelFails
  BY <1>6 DEF ModelFails, Exit, Preferred
<1>7. CASE ModelAnswers
  BY <1>7 DEF ModelAnswers, Preferred
<1>8. CASE Present
  BY <1>8 DEF Present, Preferred
<1>9. CASE BlueprintApplyFails
  BY <1>9 DEF BlueprintApplyFails, Exit, Preferred
<1>10. CASE CheckPolicy
  <2>1. CASE pc' = "guards"
    <3>1. prev' = plan.id /\ UNCHANGED <<ctx, locked, directive, plan, contract>>
      BY <1>10, <2>1 DEF CheckPolicy, Exit
    <3>2. pc = "policy"
      BY <1>10 DEF CheckPolicy
    <3>3. plan.id = contract.id
      BY <3>2 DEF Placed, Planned
    <3>4. contract = ResolveSemanticContract(ctx, locked, prev, Preferred)
      BY <3>2
    <3>5. ctx \in Contexts
      BY GenerationAssumption, GuidanceAssumption DEF TypeOK
    <3>6. ResolveSemanticContract(ctx, locked, plan.id, Preferred).id = plan.id
      BY <3>3, <3>4, <3>5, ResolveStable
    <3>7. Preferred' = Preferred
      BY <3>1 DEF Preferred
    <3>8. Settled'
      BY <3>1, <3>6, <3>7 DEF Settled
    <3> QED
      BY <2>1, <3>1, <3>8
  <2>2. CASE pc' # "guards"
    BY <1>10, <2>2 DEF CheckPolicy, Exit
  <2> QED
    BY <2>1, <2>2
<1>11. CASE GuardsPass
  BY <1>11 DEF GuardsPass, Preferred
<1>12. CASE GuardsRegenerate
  BY <1>12 DEF GuardsRegenerate, Spend, DropGoldGuidance, Preferred
<1>13. CASE GuardsFallBack
  BY <1>13 DEF GuardsFallBack, DropGoldGuidance, Preferred
<1>14. CASE GoldPasses
  BY <1>14 DEF GoldPasses, DropGoldGuidance, Preferred
<1>15. CASE GoldRegenerates
  BY <1>15 DEF GoldRegenerates, Spend, Preferred
<1>16. CASE GoldAborts
  BY <1>16 DEF GoldAborts, DropGoldGuidance, Exit, Preferred
<1>17. CASE WriteMessage
  BY <1>17 DEF WriteMessage, Written, Message, Preferred
<1>18. CASE WriteFails
  BY <1>18 DEF WriteFails, Exit, Preferred
<1>19. CASE Finish
  BY <1>19 DEF Finish, Exit, Preferred
<1>20. CASE ApplyCommit
  BY <1>20 DEF ApplyCommit, Exit, Preferred
<1>21. CASE MenuAborts
  BY <1>21 DEF MenuAborts, Exit, Preferred
<1>22. CASE MenuReRanks
  BY <1>22 DEF MenuReRanks, Preferred
<1>23. CASE MenuLocks
  BY <1>23 DEF MenuLocks, Preferred
<1>24. CASE AddIssueReference
  BY <1>24 DEF AddIssueReference, Written, Message, Preferred
<1>25. CASE AddReferenceFails
  BY <1>25 DEF AddReferenceFails, Exit, Preferred
<1>26. CASE SetGuidance
  BY <1>26 DEF SetGuidance, Preferred
<1>27. CASE ClearGuidance
  BY <1>27 DEF ClearGuidance, Preferred
<1>28. CASE Regenerate
  BY <1>28 DEF Regenerate, Placed, Rendered
<1>29. CASE Cancel
  BY <1>29 DEF Cancel, CopyBack, Exit, Preferred
<1>30. CASE Accept
  BY <1>30 DEF Accept, CopyBack, Preferred
<1>31. CASE Edit
  BY <1>31 DEF Edit, CopyBack, Preferred
<1>32. CASE GitAfterHook
  BY <1>32 DEF GitAfterHook, Preferred
<1>33. CASE UNCHANGED vars
  BY <1>33 DEF vars, Preferred
<1> QED
  BY
     <1>1, <1>2, <1>3, <1>4, <1>5, <1>6, <1>7, <1>8, <1>9, <1>10,
     <1>11, <1>12, <1>13, <1>14, <1>15, <1>16, <1>17, <1>18, <1>19,
     <1>20, <1>21, <1>22, <1>23, <1>24, <1>25, <1>26, <1>27, <1>28,
     <1>29, <1>30, <1>31, <1>32, <1>33
  DEF Next, Program, Operator, Over

(* One step never calls the model without having paid for it.              *)
LEMMA BudgetStep ==
  TypeOK /\ BudgetInv /\ [Next]_vars => BudgetInv'
<1> SUFFICES ASSUME TypeOK, BudgetInv, [Next]_vars PROVE BudgetInv'
  OBVIOUS
<1> USE DEF BudgetInv, Unanswered, Steered, RegenBudget, AutoCap, inputs,
          steering, cycle, budget, result, history
<1>1. CASE SkipGeneration
  BY <1>1 DEF SkipGeneration, Exit, TypeOK
<1>2. CASE SetupFails
  BY <1>2 DEF SetupFails, Exit, TypeOK
<1>3. CASE Setup
  BY <1>3 DEF Setup, TypeOK
<1>4. CASE ParseBlueprint
  BY <1>4 DEF ParseBlueprint, Exit, TypeOK
<1>5. CASE ResolveContract
  BY <1>5 DEF ResolveContract, TypeOK
<1>6. CASE ModelFails
  BY <1>6 DEF ModelFails, Exit, TypeOK
<1>7. CASE ModelAnswers
  BY <1>7 DEF ModelAnswers, TypeOK
<1>8. CASE Present
  BY <1>8 DEF Present, TypeOK
<1>9. CASE BlueprintApplyFails
  BY <1>9 DEF BlueprintApplyFails, Exit, TypeOK
<1>10. CASE CheckPolicy
  BY <1>10 DEF CheckPolicy, Exit, TypeOK
<1>11. CASE GuardsPass
  BY <1>11 DEF GuardsPass, TypeOK
<1>12. CASE GuardsRegenerate
  BY <1>12 DEF GuardsRegenerate, Spend, DropGoldGuidance, TypeOK
<1>13. CASE GuardsFallBack
  BY <1>13 DEF GuardsFallBack, DropGoldGuidance, TypeOK
<1>14. CASE GoldPasses
  BY <1>14 DEF GoldPasses, DropGoldGuidance, TypeOK
<1>15. CASE GoldRegenerates
  BY <1>15 DEF GoldRegenerates, Spend, TypeOK
<1>16. CASE GoldAborts
  BY <1>16 DEF GoldAborts, DropGoldGuidance, Exit, TypeOK
<1>17. CASE WriteMessage
  BY <1>17 DEF WriteMessage, Written, Message, TypeOK
<1>18. CASE WriteFails
  BY <1>18 DEF WriteFails, Exit, TypeOK
<1>19. CASE Finish
  BY <1>19 DEF Finish, Exit, TypeOK
<1>20. CASE ApplyCommit
  BY <1>20 DEF ApplyCommit, Exit, TypeOK
<1>21. CASE MenuAborts
  BY <1>21 DEF MenuAborts, Exit, TypeOK
<1>22. CASE MenuReRanks
  BY <1>22 DEF MenuReRanks, TypeOK
<1>23. CASE MenuLocks
  BY <1>23 DEF MenuLocks, TypeOK
<1>24. CASE AddIssueReference
  BY <1>24 DEF AddIssueReference, Written, Message, TypeOK
<1>25. CASE AddReferenceFails
  BY <1>25 DEF AddReferenceFails, Exit, TypeOK
<1>26. CASE SetGuidance
  BY <1>26 DEF SetGuidance, TypeOK
<1>27. CASE ClearGuidance
  BY <1>27 DEF ClearGuidance, TypeOK
<1>28. CASE Regenerate
  BY <1>28 DEF Regenerate, CopyBack, TypeOK
<1>29. CASE Cancel
  BY <1>29 DEF Cancel, CopyBack, Exit, TypeOK
<1>30. CASE Accept
  BY <1>30 DEF Accept, CopyBack, TypeOK
<1>31. CASE Edit
  BY <1>31 DEF Edit, CopyBack, TypeOK
<1>32. CASE GitAfterHook
  BY <1>32 DEF GitAfterHook, TypeOK
<1>33. CASE UNCHANGED vars
  BY <1>33 DEF vars
<1> QED
  BY
     <1>1, <1>2, <1>3, <1>4, <1>5, <1>6, <1>7, <1>8, <1>9, <1>10,
     <1>11, <1>12, <1>13, <1>14, <1>15, <1>16, <1>17, <1>18, <1>19,
     <1>20, <1>21, <1>22, <1>23, <1>24, <1>25, <1>26, <1>27, <1>28,
     <1>29, <1>30, <1>31, <1>32, <1>33
  DEF Next, Program, Operator, Over

(* One step keeps the plan, and the file, at the floor: the lift raises    *)
(* what presentation left.                                                 *)
LEMMA FloorStep ==
  TypeOK /\ Placed /\ FloorInv /\ [Next]_vars => FloorInv'
<1> SUFFICES ASSUME TypeOK, Placed, FloorInv, [Next]_vars PROVE FloorInv'
  OBVIOUS
<1> USE DEF FloorInv, FloorOrSkeleton, Planned, Rendered, Steered, inputs,
          steering, cycle, budget, result, history
<1>1. CASE SkipGeneration
  BY <1>1 DEF SkipGeneration, Exit
<1>2. CASE SetupFails
  BY <1>2 DEF SetupFails, Exit
<1>3. CASE Setup
  BY <1>3 DEF Setup
<1>4. CASE ParseBlueprint
  BY <1>4 DEF ParseBlueprint, Exit
<1>5. CASE ResolveContract
  BY <1>5 DEF ResolveContract
<1>6. CASE ModelFails
  BY <1>6 DEF ModelFails, Exit
<1>7. CASE ModelAnswers
  BY <1>7 DEF ModelAnswers
<1>8. CASE Present
  <2>1. plan' = [plan EXCEPT !.semver = persisted'] /\ persisted' >= contract.semver
    BY <1>8, PresentedImpact
  <2>2. plan'.semver >= contract.semver
    BY <2>1 DEF TypeOK, Plans
  <2> QED
    BY <1>8, <2>2 DEF Present
<1>9. CASE BlueprintApplyFails
  BY <1>9 DEF BlueprintApplyFails, Exit
<1>10. CASE CheckPolicy
  BY <1>10 DEF CheckPolicy, Exit
<1>11. CASE GuardsPass
  BY <1>11 DEF GuardsPass
<1>12. CASE GuardsRegenerate
  BY <1>12 DEF GuardsRegenerate, Spend, DropGoldGuidance
<1>13. CASE GuardsFallBack
  BY <1>13 DEF GuardsFallBack, DropGoldGuidance
<1>14. CASE GoldPasses
  BY <1>14 DEF GoldPasses, DropGoldGuidance
<1>15. CASE GoldRegenerates
  BY <1>15 DEF GoldRegenerates, Spend
<1>16. CASE GoldAborts
  BY <1>16 DEF GoldAborts, DropGoldGuidance, Exit
<1>17. CASE WriteMessage
  <2>1. file' = file \/ file' = Message(refs)
    BY <1>17 DEF WriteMessage, Written
  <2>2. pc \in Rendered /\ pc' \in Rendered /\ UNCHANGED <<plan, contract>>
    BY <1>17 DEF WriteMessage, Rendered
  <2>3. plan.semver \in SemVer /\ contract.semver \in SemVer
    BY DEF TypeOK, Plans, Contracts
  <2>4. FloorOrSkeleton'
    BY <2>1, <2>2, <2>3 DEF Message, FloorOrSkeleton, FloorInv, SemVer
  <2> QED
    BY <2>2, <2>4
<1>18. CASE WriteFails
  BY <1>18 DEF WriteFails, Exit
<1>19. CASE Finish
  BY <1>19 DEF Finish, Exit
<1>20. CASE ApplyCommit
  BY <1>20 DEF ApplyCommit, Exit
<1>21. CASE MenuAborts
  BY <1>21 DEF MenuAborts, Exit
<1>22. CASE MenuReRanks
  BY <1>22 DEF MenuReRanks
<1>23. CASE MenuLocks
  BY <1>23 DEF MenuLocks
<1>24. CASE AddIssueReference
  <2>1. file' = file \/ file' = Message(refs')
    BY <1>24 DEF AddIssueReference, Written
  <2>2. pc \in Rendered /\ pc' \in Rendered /\ UNCHANGED <<plan, contract>>
    BY <1>24 DEF AddIssueReference, Rendered
  <2>3. plan.semver \in SemVer /\ contract.semver \in SemVer
    BY DEF TypeOK, Plans, Contracts
  <2>4. FloorOrSkeleton'
    BY <2>1, <2>2, <2>3 DEF Message, FloorOrSkeleton, FloorInv, SemVer
  <2> QED
    BY <2>2, <2>4
<1>25. CASE AddReferenceFails
  BY <1>25 DEF AddReferenceFails, Exit
<1>26. CASE SetGuidance
  BY <1>26 DEF SetGuidance
<1>27. CASE ClearGuidance
  BY <1>27 DEF ClearGuidance
<1>28. CASE Regenerate
  BY <1>28 DEF Regenerate, CopyBack
<1>29. CASE Cancel
  BY <1>29 DEF Cancel, CopyBack, Exit
<1>30. CASE Accept
  BY <1>30 DEF Accept, CopyBack
<1>31. CASE Edit
  <2>1. file' = file \/ (file \in Messages /\ file' = [file EXCEPT !.edited = TRUE])
    BY <1>31 DEF Edit, Placed, Rendered
  <2>2. file' = file \/ (file # NoFile /\ file'.id = file.id /\ file'.semver = file.semver
          /\ file'.floor = file.floor /\ file'.skeleton = file.skeleton)
    BY <2>1, NoFileAssumption DEF Messages
  <2> QED
    BY <1>31, <2>2 DEF Edit, CopyBack
<1>32. CASE GitAfterHook
  BY <1>32 DEF GitAfterHook
<1>33. CASE UNCHANGED vars
  BY <1>33 DEF vars
<1> QED
  BY
     <1>1, <1>2, <1>3, <1>4, <1>5, <1>6, <1>7, <1>8, <1>9, <1>10,
     <1>11, <1>12, <1>13, <1>14, <1>15, <1>16, <1>17, <1>18, <1>19,
     <1>20, <1>21, <1>22, <1>23, <1>24, <1>25, <1>26, <1>27, <1>28,
     <1>29, <1>30, <1>31, <1>32, <1>33
  DEF Next, Program, Operator, Over

(* One step keeps the lock in the contract, the plan and the file.         *)
LEMMA LockStep ==
  TypeOK /\ Placed /\ LockInv /\ [Next]_vars => LockInv'
<1> SUFFICES ASSUME TypeOK, Placed, LockInv, [Next]_vars PROVE LockInv'
  OBVIOUS
<1> USE DEF LockInv, LockHonoured, Planned, Placed, Steered, inputs, steering,
          cycle, budget, result, history
<1>1. CASE SkipGeneration
  BY <1>1 DEF SkipGeneration, Exit
<1>2. CASE SetupFails
  BY <1>2 DEF SetupFails, Exit
<1>3. CASE Setup
  BY <1>3 DEF Setup
<1>4. CASE ParseBlueprint
  BY <1>4 DEF ParseBlueprint, Exit
<1>5. CASE ResolveContract
  <2>1. LockApplies(ctx, locked) => contract'.id = locked
    BY <1>5, LockWins DEF ResolveContract
  <2> QED
    BY <1>5, <2>1 DEF ResolveContract
<1>6. CASE ModelFails
  BY <1>6 DEF ModelFails, Exit
<1>7. CASE ModelAnswers
  BY <1>7 DEF ModelAnswers
<1>8. CASE Present
  BY <1>8 DEF Present
<1>9. CASE BlueprintApplyFails
  BY <1>9 DEF BlueprintApplyFails, Exit
<1>10. CASE CheckPolicy
  BY <1>10 DEF CheckPolicy, Exit
<1>11. CASE GuardsPass
  BY <1>11 DEF GuardsPass
<1>12. CASE GuardsRegenerate
  BY <1>12 DEF GuardsRegenerate, Spend, DropGoldGuidance
<1>13. CASE GuardsFallBack
  BY <1>13 DEF GuardsFallBack, DropGoldGuidance
<1>14. CASE GoldPasses
  BY <1>14 DEF GoldPasses, DropGoldGuidance
<1>15. CASE GoldRegenerates
  BY <1>15 DEF GoldRegenerates, Spend
<1>16. CASE GoldAborts
  BY <1>16 DEF GoldAborts, DropGoldGuidance, Exit
<1>17. CASE WriteMessage
  BY <1>17 DEF WriteMessage, Written, Message
<1>18. CASE WriteFails
  BY <1>18 DEF WriteFails, Exit
<1>19. CASE Finish
  BY <1>19 DEF Finish, Exit
<1>20. CASE ApplyCommit
  BY <1>20 DEF ApplyCommit, Exit
<1>21. CASE MenuAborts
  BY <1>21 DEF MenuAborts, Exit
<1>22. CASE MenuReRanks
  BY <1>22 DEF MenuReRanks
<1>23. CASE MenuLocks
  BY <1>23 DEF MenuLocks
<1>24. CASE AddIssueReference
  BY <1>24 DEF AddIssueReference, Written, Message
<1>25. CASE AddReferenceFails
  BY <1>25 DEF AddReferenceFails, Exit
<1>26. CASE SetGuidance
  BY <1>26 DEF SetGuidance
<1>27. CASE ClearGuidance
  BY <1>27 DEF ClearGuidance
<1>28. CASE Regenerate
  BY <1>28 DEF Regenerate, CopyBack
<1>29. CASE Cancel
  BY <1>29 DEF Cancel, CopyBack, Exit
<1>30. CASE Accept
  BY <1>30 DEF Accept, CopyBack
<1>31. CASE Edit
  <2>1. file' = file \/ (file \in Messages /\ file' = [file EXCEPT !.edited = TRUE])
    BY <1>31 DEF Edit, Placed, Rendered
  <2>2. file' = file \/ (file # NoFile /\ file'.id = file.id /\ file'.semver = file.semver
          /\ file'.floor = file.floor /\ file'.skeleton = file.skeleton)
    BY <2>1, NoFileAssumption DEF Messages
  <2> QED
    BY <1>31, <2>2 DEF Edit, CopyBack
<1>32. CASE GitAfterHook
  BY <1>32 DEF GitAfterHook
<1>33. CASE UNCHANGED vars
  BY <1>33 DEF vars
<1> QED
  BY
     <1>1, <1>2, <1>3, <1>4, <1>5, <1>6, <1>7, <1>8, <1>9, <1>10,
     <1>11, <1>12, <1>13, <1>14, <1>15, <1>16, <1>17, <1>18, <1>19,
     <1>20, <1>21, <1>22, <1>23, <1>24, <1>25, <1>26, <1>27, <1>28,
     <1>29, <1>30, <1>31, <1>32, <1>33
  DEF Next, Program, Operator, Over

(* One step keeps messages clean under strict gold.                        *)
LEMMA CleanStep ==
  TypeOK /\ Placed /\ CleanInv /\ [Next]_vars => CleanInv'
<1> SUFFICES ASSUME TypeOK, Placed, CleanInv, [Next]_vars PROVE CleanInv'
  OBVIOUS
<1> USE DEF CleanInv, GoldMode, Rendered, inputs, steering, cycle, budget,
          result, history
<1>1. CASE SkipGeneration
  BY <1>1 DEF SkipGeneration, Exit
<1>2. CASE SetupFails
  BY <1>2 DEF SetupFails, Exit
<1>3. CASE Setup
  BY <1>3 DEF Setup
<1>4. CASE ParseBlueprint
  BY <1>4 DEF ParseBlueprint, Exit
<1>5. CASE ResolveContract
  BY <1>5 DEF ResolveContract
<1>6. CASE ModelFails
  BY <1>6 DEF ModelFails, Exit
<1>7. CASE ModelAnswers
  BY <1>7 DEF ModelAnswers
<1>8. CASE Present
  BY <1>8 DEF Present
<1>9. CASE BlueprintApplyFails
  BY <1>9 DEF BlueprintApplyFails, Exit
<1>10. CASE CheckPolicy
  BY <1>10 DEF CheckPolicy, Exit
<1>11. CASE GuardsPass
  BY <1>11 DEF GuardsPass
<1>12. CASE GuardsRegenerate
  BY <1>12 DEF GuardsRegenerate, Spend, DropGoldGuidance
<1>13. CASE GuardsFallBack
  BY <1>13 DEF GuardsFallBack, DropGoldGuidance
<1>14. CASE GoldPasses
  <2>1. PICK found \in SUBSET AllCodes :
          GoldReport(found) /\ OkForMode(found) /\ codes' = found
    BY <1>14 DEF GoldPasses
  <2>2. GoldMode = "strict" => codes' \cap StrictCodes = {} /\ ~ plan.skeleton
    BY <2>1 DEF GoldReport, OkForMode, StrictCodes
  <2> QED
    BY <1>14, <2>2 DEF GoldPasses
<1>15. CASE GoldRegenerates
  BY <1>15 DEF GoldRegenerates, Spend
<1>16. CASE GoldAborts
  BY <1>16 DEF GoldAborts, DropGoldGuidance, Exit
<1>17. CASE WriteMessage
  BY <1>17 DEF WriteMessage, Written, Message
<1>18. CASE WriteFails
  BY <1>18 DEF WriteFails, Exit
<1>19. CASE Finish
  BY <1>19 DEF Finish, Exit
<1>20. CASE ApplyCommit
  BY <1>20 DEF ApplyCommit, Exit
<1>21. CASE MenuAborts
  BY <1>21 DEF MenuAborts, Exit
<1>22. CASE MenuReRanks
  BY <1>22 DEF MenuReRanks
<1>23. CASE MenuLocks
  BY <1>23 DEF MenuLocks
<1>24. CASE AddIssueReference
  BY <1>24 DEF AddIssueReference, Written, Message
<1>25. CASE AddReferenceFails
  BY <1>25 DEF AddReferenceFails, Exit
<1>26. CASE SetGuidance
  BY <1>26 DEF SetGuidance
<1>27. CASE ClearGuidance
  BY <1>27 DEF ClearGuidance
<1>28. CASE Regenerate
  BY <1>28 DEF Regenerate, CopyBack
<1>29. CASE Cancel
  BY <1>29 DEF Cancel, CopyBack, Exit
<1>30. CASE Accept
  BY <1>30 DEF Accept, CopyBack
<1>31. CASE Edit
  BY <1>31 DEF Edit, CopyBack
<1>32. CASE GitAfterHook
  BY <1>32 DEF GitAfterHook
<1>33. CASE UNCHANGED vars
  BY <1>33 DEF vars
<1> QED
  BY
     <1>1, <1>2, <1>3, <1>4, <1>5, <1>6, <1>7, <1>8, <1>9, <1>10,
     <1>11, <1>12, <1>13, <1>14, <1>15, <1>16, <1>17, <1>18, <1>19,
     <1>20, <1>21, <1>22, <1>23, <1>24, <1>25, <1>26, <1>27, <1>28,
     <1>29, <1>30, <1>31, <1>32, <1>33
  DEF Next, Program, Operator, Over

(* One step never commits after strict gold has given up.                  *)
LEMMA AbortStep ==
  TypeOK /\ AbortInv /\ [Next]_vars => AbortInv'
<1> SUFFICES ASSUME TypeOK, AbortInv, [Next]_vars PROVE AbortInv'
  OBVIOUS
<1> USE DEF AbortInv, GoldAbortBlocks, Aborted, Ended, AbortCode, inputs,
          steering, cycle, budget, result, history
<1>1. CASE SkipGeneration
  BY <1>1 DEF SkipGeneration, Exit
<1>2. CASE SetupFails
  BY <1>2 DEF SetupFails, Exit
<1>3. CASE Setup
  BY <1>3 DEF Setup
<1>4. CASE ParseBlueprint
  BY <1>4 DEF ParseBlueprint, Exit
<1>5. CASE ResolveContract
  BY <1>5 DEF ResolveContract
<1>6. CASE ModelFails
  BY <1>6 DEF ModelFails, Exit
<1>7. CASE ModelAnswers
  BY <1>7 DEF ModelAnswers
<1>8. CASE Present
  BY <1>8 DEF Present
<1>9. CASE BlueprintApplyFails
  BY <1>9 DEF BlueprintApplyFails, Exit
<1>10. CASE CheckPolicy
  BY <1>10 DEF CheckPolicy, Exit
<1>11. CASE GuardsPass
  BY <1>11 DEF GuardsPass
<1>12. CASE GuardsRegenerate
  BY <1>12 DEF GuardsRegenerate, Spend, DropGoldGuidance
<1>13. CASE GuardsFallBack
  BY <1>13 DEF GuardsFallBack, DropGoldGuidance
<1>14. CASE GoldPasses
  BY <1>14 DEF GoldPasses, DropGoldGuidance
<1>15. CASE GoldRegenerates
  BY <1>15 DEF GoldRegenerates, Spend
<1>16. CASE GoldAborts
  BY <1>16 DEF GoldAborts, DropGoldGuidance, Exit
<1>17. CASE WriteMessage
  BY <1>17 DEF WriteMessage, Written, Message
<1>18. CASE WriteFails
  BY <1>18 DEF WriteFails, Exit
<1>19. CASE Finish
  BY <1>19 DEF Finish, Exit
<1>20. CASE ApplyCommit
  BY <1>20 DEF ApplyCommit, Exit
<1>21. CASE MenuAborts
  BY <1>21 DEF MenuAborts, Exit
<1>22. CASE MenuReRanks
  BY <1>22 DEF MenuReRanks
<1>23. CASE MenuLocks
  BY <1>23 DEF MenuLocks
<1>24. CASE AddIssueReference
  BY <1>24 DEF AddIssueReference, Written, Message
<1>25. CASE AddReferenceFails
  BY <1>25 DEF AddReferenceFails, Exit
<1>26. CASE SetGuidance
  BY <1>26 DEF SetGuidance
<1>27. CASE ClearGuidance
  BY <1>27 DEF ClearGuidance
<1>28. CASE Regenerate
  BY <1>28 DEF Regenerate, CopyBack
<1>29. CASE Cancel
  BY <1>29 DEF Cancel, CopyBack, Exit
<1>30. CASE Accept
  BY <1>30 DEF Accept, CopyBack
<1>31. CASE Edit
  BY <1>31 DEF Edit, CopyBack
<1>32. CASE GitAfterHook
  BY <1>32 DEF GitAfterHook
<1>33. CASE UNCHANGED vars
  BY <1>33 DEF vars
<1> QED
  BY
     <1>1, <1>2, <1>3, <1>4, <1>5, <1>6, <1>7, <1>8, <1>9, <1>10,
     <1>11, <1>12, <1>13, <1>14, <1>15, <1>16, <1>17, <1>18, <1>19,
     <1>20, <1>21, <1>22, <1>23, <1>24, <1>25, <1>26, <1>27, <1>28,
     <1>29, <1>30, <1>31, <1>32, <1>33
  DEF Next, Program, Operator, Over

(* One step keeps the file in line with the references.                    *)
LEMMA RefsStep ==
  TypeOK /\ Placed /\ AbortInv /\ RefsInv /\ [Next]_vars => RefsInv'
<1> SUFFICES ASSUME TypeOK, Placed, AbortInv, RefsInv, [Next]_vars PROVE RefsInv'
  OBVIOUS
<1> USE DEF RefsInv, AbortInv, Ended, inputs, steering, cycle, budget, result,
          history
<1>1. CASE SkipGeneration
  BY <1>1 DEF SkipGeneration, Exit
<1>2. CASE SetupFails
  BY <1>2 DEF SetupFails, Exit
<1>3. CASE Setup
  <2>1. \A r1, r2 \in refs' : r1[1] = r2[1] => r1 = r2
    BY <1>3 DEF Setup
  <2>2. file = NoFile
    BY <1>3 DEF Setup, Placed, Steered
  <2> QED
    BY <1>3, <2>1, <2>2 DEF Setup
<1>4. CASE ParseBlueprint
  BY <1>4 DEF ParseBlueprint, Exit
<1>5. CASE ResolveContract
  BY <1>5 DEF ResolveContract
<1>6. CASE ModelFails
  BY <1>6 DEF ModelFails, Exit
<1>7. CASE ModelAnswers
  BY <1>7 DEF ModelAnswers
<1>8. CASE Present
  BY <1>8 DEF Present
<1>9. CASE BlueprintApplyFails
  BY <1>9 DEF BlueprintApplyFails, Exit
<1>10. CASE CheckPolicy
  BY <1>10 DEF CheckPolicy, Exit
<1>11. CASE GuardsPass
  BY <1>11 DEF GuardsPass
<1>12. CASE GuardsRegenerate
  BY <1>12 DEF GuardsRegenerate, Spend, DropGoldGuidance
<1>13. CASE GuardsFallBack
  BY <1>13 DEF GuardsFallBack, DropGoldGuidance
<1>14. CASE GoldPasses
  BY <1>14 DEF GoldPasses, DropGoldGuidance
<1>15. CASE GoldRegenerates
  BY <1>15 DEF GoldRegenerates, Spend
<1>16. CASE GoldAborts
  BY <1>16 DEF GoldAborts, DropGoldGuidance, Exit
<1>17. CASE WriteMessage
  BY <1>17 DEF WriteMessage, Written, Message
<1>18. CASE WriteFails
  BY <1>18 DEF WriteFails, Exit
<1>19. CASE Finish
  BY <1>19 DEF Finish, Exit
<1>20. CASE ApplyCommit
  BY <1>20 DEF ApplyCommit, Exit
<1>21. CASE MenuAborts
  BY <1>21 DEF MenuAborts, Exit
<1>22. CASE MenuReRanks
  BY <1>22 DEF MenuReRanks
<1>23. CASE MenuLocks
  BY <1>23 DEF MenuLocks
<1>24. CASE AddIssueReference
  BY <1>24 DEF AddIssueReference, Written, Message, MayAttach
<1>25. CASE AddReferenceFails
  <2>1. \A r1, r2 \in refs' : r1[1] = r2[1] => r1 = r2
    BY <1>25 DEF AddReferenceFails, MayAttach
  <2>2. verdict # "accepted" /\ exit' # -1
    BY <1>25 DEF AddReferenceFails, Exit, AbortCode
  <2> QED
    BY <1>25, <2>1, <2>2 DEF AddReferenceFails
<1>26. CASE SetGuidance
  BY <1>26 DEF SetGuidance
<1>27. CASE ClearGuidance
  BY <1>27 DEF ClearGuidance
<1>28. CASE Regenerate
  BY <1>28 DEF Regenerate, CopyBack
<1>29. CASE Cancel
  BY <1>29 DEF Cancel, CopyBack, Exit
<1>30. CASE Accept
  BY <1>30 DEF Accept, CopyBack
<1>31. CASE Edit
  <2>1. exit = -1 /\ refs' = refs
    BY <1>31 DEF Edit
  <2>2. file' = file \/ (file \in Messages /\ file' = [file EXCEPT !.edited = TRUE])
    BY <1>31 DEF Edit, Placed, Rendered
  <2>3. file' = file \/ (file # NoFile /\ file'.refs = file.refs)
    BY <2>2, NoFileAssumption DEF Messages
  <2>4. file' # NoFile => file'.refs = refs'
    BY <2>1, <2>3
  <2> QED
    BY <1>31, <2>4 DEF Edit, CopyBack
<1>32. CASE GitAfterHook
  BY <1>32 DEF GitAfterHook
<1>33. CASE UNCHANGED vars
  BY <1>33 DEF vars
<1> QED
  BY
     <1>1, <1>2, <1>3, <1>4, <1>5, <1>6, <1>7, <1>8, <1>9, <1>10,
     <1>11, <1>12, <1>13, <1>14, <1>15, <1>16, <1>17, <1>18, <1>19,
     <1>20, <1>21, <1>22, <1>23, <1>24, <1>25, <1>26, <1>27, <1>28,
     <1>29, <1>30, <1>31, <1>32, <1>33
  DEF Next, Program, Operator, Over
(* One step keeps the file to the plan it was written from.                *)
LEMMA PresentedStep ==
  TypeOK /\ Placed /\ AbortInv /\ RefsInv /\ PresentedInv /\ [Next]_vars => PresentedInv'
<1> SUFFICES ASSUME TypeOK, Placed, AbortInv, RefsInv, PresentedInv, [Next]_vars
             PROVE  PresentedInv'
  OBVIOUS
<1> USE DEF PresentedInv, Shown, Final, AbortInv, RefsInv, Ended, inputs, steering, cycle,
          budget, result, history
<1>1. CASE SkipGeneration
  BY <1>1 DEF SkipGeneration, Exit
<1>2. CASE SetupFails
  BY <1>2 DEF SetupFails, Exit
<1>3. CASE Setup
  BY <1>3 DEF Setup
<1>4. CASE ParseBlueprint
  BY <1>4 DEF ParseBlueprint, Exit
<1>5. CASE ResolveContract
  BY <1>5 DEF ResolveContract
<1>6. CASE ModelFails
  BY <1>6 DEF ModelFails, Exit
<1>7. CASE ModelAnswers
  BY <1>7 DEF ModelAnswers
<1>8. CASE Present
  BY <1>8 DEF Present
<1>9. CASE BlueprintApplyFails
  BY <1>9 DEF BlueprintApplyFails, Exit
<1>10. CASE CheckPolicy
  BY <1>10 DEF CheckPolicy, Exit
<1>11. CASE GuardsPass
  BY <1>11 DEF GuardsPass
<1>12. CASE GuardsRegenerate
  BY <1>12 DEF GuardsRegenerate, Spend, DropGoldGuidance
<1>13. CASE GuardsFallBack
  BY <1>13 DEF GuardsFallBack, DropGoldGuidance
<1>14. CASE GoldPasses
  BY <1>14 DEF GoldPasses, DropGoldGuidance
<1>15. CASE GoldRegenerates
  BY <1>15 DEF GoldRegenerates, Spend
<1>16. CASE GoldAborts
  BY <1>16 DEF GoldAborts, DropGoldGuidance, Exit
<1>17. CASE WriteMessage
  BY <1>17 DEF WriteMessage, Written, Message
<1>18. CASE WriteFails
  BY <1>18 DEF WriteFails, Exit
<1>19. CASE Finish
  BY <1>19 DEF Finish, Exit
<1>20. CASE ApplyCommit
  BY <1>20 DEF ApplyCommit, Exit
<1>21. CASE MenuAborts
  BY <1>21 DEF MenuAborts, Exit
<1>22. CASE MenuReRanks
  BY <1>22 DEF MenuReRanks
<1>23. CASE MenuLocks
  BY <1>23 DEF MenuLocks
<1>24. CASE AddIssueReference
  BY <1>24 DEF AddIssueReference, Written, Message
<1>25. CASE AddReferenceFails
  BY <1>25 DEF AddReferenceFails, Exit
<1>26. CASE SetGuidance
  BY <1>26 DEF SetGuidance
<1>27. CASE ClearGuidance
  BY <1>27 DEF ClearGuidance
<1>28. CASE Regenerate
  BY <1>28 DEF Regenerate, CopyBack
<1>29. CASE Cancel
  BY <1>29 DEF Cancel, CopyBack, Exit
<1>30. CASE Accept
  BY <1>30 DEF Accept, CopyBack
<1>31. CASE Edit
  BY <1>31 DEF Edit, CopyBack
<1>32. CASE GitAfterHook
  BY <1>32 DEF GitAfterHook
<1>33. CASE UNCHANGED vars
  BY <1>33 DEF vars
<1> QED
  BY
     <1>1, <1>2, <1>3, <1>4, <1>5, <1>6, <1>7, <1>8, <1>9, <1>10,
     <1>11, <1>12, <1>13, <1>14, <1>15, <1>16, <1>17, <1>18, <1>19,
     <1>20, <1>21, <1>22, <1>23, <1>24, <1>25, <1>26, <1>27, <1>28,
     <1>29, <1>30, <1>31, <1>32, <1>33
  DEF Next, Program, Operator, Over

(* One step keeps the exit code true.                                      *)
LEMMA ExitStep ==
  TypeOK /\ Placed /\ AnchorInv /\ AbortInv /\ RefsInv /\ PresentedInv /\ ExitInv
    /\ [Next]_vars => ExitInv'
<1> SUFFICES ASSUME TypeOK, Placed, AnchorInv, AbortInv, RefsInv, PresentedInv, ExitInv,
                    [Next]_vars
             PROVE  ExitInv'
  OBVIOUS
<1> USE DEF ExitInv, ExitTellsTruth, Steered, AbortInv, RefsInv, Ended, AbortCode,
          inputs, steering, cycle, budget, result, history
<1>1. CASE SkipGeneration
  BY <1>1 DEF SkipGeneration, Exit
<1>2. CASE SetupFails
  BY <1>2 DEF SetupFails, Exit
<1>3. CASE Setup
  BY <1>3 DEF Setup
<1>4. CASE ParseBlueprint
  BY <1>4 DEF ParseBlueprint, Exit, HardFail
<1>5. CASE ResolveContract
  BY <1>5 DEF ResolveContract
<1>6. CASE ModelFails
  BY <1>6 DEF ModelFails, Exit
<1>7. CASE ModelAnswers
  BY <1>7 DEF ModelAnswers
<1>8. CASE Present
  BY <1>8 DEF Present
<1>9. CASE BlueprintApplyFails
  BY <1>9 DEF BlueprintApplyFails, Exit, HardFail
<1>10. CASE CheckPolicy
  <2>1. pc = "policy" /\ ReAnchored
    BY <1>10 DEF CheckPolicy, AnchorInv, ReAnchored
  <2> QED
    BY <1>10, <2>1 DEF CheckPolicy, Exit
<1>11. CASE GuardsPass
  BY <1>11 DEF GuardsPass
<1>12. CASE GuardsRegenerate
  BY <1>12 DEF GuardsRegenerate, Spend, DropGoldGuidance
<1>13. CASE GuardsFallBack
  BY <1>13 DEF GuardsFallBack, DropGoldGuidance
<1>14. CASE GoldPasses
  BY <1>14 DEF GoldPasses, DropGoldGuidance
<1>15. CASE GoldRegenerates
  BY <1>15 DEF GoldRegenerates, Spend
<1>16. CASE GoldAborts
  <2>1. GoldMode = "strict" /\ outcome' \in Aborted
    BY <1>16 DEF GoldAborts, GoldVerdict, OkForMode, Aborted
  <2>2. GoldMode' = GoldMode
    BY <1>16 DEF GoldAborts, GoldMode
  <2> QED
    BY <1>16, <2>1, <2>2 DEF GoldAborts, Exit
<1>17. CASE WriteMessage
  BY <1>17 DEF WriteMessage, Written, Message
<1>18. CASE WriteFails
  BY <1>18 DEF WriteFails, Exit
<1>19. CASE Finish
  BY <1>19 DEF Finish, Exit
<1>20. CASE ApplyCommit
  <2>1. pc = "apply" /\ ~ cfg.hook /\ ~ cfg.dryRun /\ file # NoFile
    BY <1>20, NoFileAssumption DEF ApplyCommit, Placed, Rendered
  <2> QED
    BY <1>20, <2>1 DEF ApplyCommit, Exit
<1>21. CASE MenuAborts
  BY <1>21 DEF MenuAborts, Exit
<1>22. CASE MenuReRanks
  BY <1>22 DEF MenuReRanks
<1>23. CASE MenuLocks
  BY <1>23 DEF MenuLocks
<1>24. CASE AddIssueReference
  BY <1>24 DEF AddIssueReference, Written, Message
<1>25. CASE AddReferenceFails
  BY <1>25 DEF AddReferenceFails, Exit
<1>26. CASE SetGuidance
  BY <1>26 DEF SetGuidance
<1>27. CASE ClearGuidance
  BY <1>27 DEF ClearGuidance
<1>28. CASE Regenerate
  BY <1>28 DEF Regenerate, CopyBack
<1>29. CASE Cancel
  BY <1>29 DEF Cancel, CopyBack, Exit
<1>30. CASE Accept
  BY <1>30 DEF Accept, CopyBack
<1>31. CASE Edit
  <2>1. exit = -1 /\ exit' = exit /\ pc' = "finish"
    BY <1>31 DEF Edit
  <2> QED
    BY <1>31, <2>1 DEF Edit, CopyBack
<1>32. CASE GitAfterHook
  <2>1. GoldMode' = GoldMode
    BY <1>32 DEF GitAfterHook, GoldMode
  <2> QED
    BY <1>32, <2>1 DEF GitAfterHook
<1>33. CASE UNCHANGED vars
  <2>1. GoldMode' = GoldMode
    BY <1>33 DEF vars, GoldMode
  <2> QED
    BY <1>33, <2>1 DEF vars
<1> QED
  BY
     <1>1, <1>2, <1>3, <1>4, <1>5, <1>6, <1>7, <1>8, <1>9, <1>10,
     <1>11, <1>12, <1>13, <1>14, <1>15, <1>16, <1>17, <1>18, <1>19,
     <1>20, <1>21, <1>22, <1>23, <1>24, <1>25, <1>26, <1>27, <1>28,
     <1>29, <1>30, <1>31, <1>32, <1>33
  DEF Next, Program, Operator, Over

-----------------------------------------------------------------------------
(* The inductive invariant, and the theorems that follow from it.          *)
IInv ==
  /\ TypeOK /\ Placed /\ AnchorInv /\ BudgetInv /\ FloorInv /\ LockInv
  /\ CleanInv /\ AbortInv /\ RefsInv /\ PresentedInv /\ ExitInv

LEMMA InitHolds == Init => IInv
<1> SUFFICES ASSUME Init PROVE IInv
  OBVIOUS
<1> USE DEF Init
<1>1. TypeOK
  <2>1. contract \in Contracts
    BY MatrixAssumption DEF Contracts, LockResolutions, SemVer
  <2>2. plan \in Plans /\ persisted \in SemVer /\ attempts \in 0..RegenBudget
    BY DEF NoPlan, Plans, SemVer, RegenBudget
  <2>3. overlaid \in BOOLEAN /\ feedback \in BOOLEAN
    OBVIOUS
  <2>4. review \in [guidance : Guidances \cup {NoGuidance}, directive : Directives]
    BY DEF Directives
  <2> QED
    BY <2>1, <2>2, <2>3, <2>4 DEF TypeOK, Locations, Directives
<1>2. Placed
  BY DEF Placed, Steered, Planned, Rendered
<1>3. AnchorInv /\ BudgetInv
  BY DEF AnchorInv, BudgetInv, Unanswered, Steered
<1>4. FloorInv /\ LockInv
  BY DEF FloorInv, FloorOrSkeleton, LockInv, LockHonoured, Planned
<1>5. CleanInv
  BY DEF CleanInv, Rendered
<1>6. AbortInv
  BY DEF AbortInv, GoldAbortBlocks, Aborted, Ended
<1>7. RefsInv
  BY DEF RefsInv, Ended
<1>8. PresentedInv /\ ExitInv
  BY DEF PresentedInv, Final, ExitInv, ExitTellsTruth, Steered
<1> QED
  BY <1>1, <1>2, <1>3, <1>4, <1>5, <1>6, <1>7, <1>8 DEF IInv

(* What holds in every reachable state, for every value of the constants.  *)
THEOREM Invariance == Spec => []IInv
<1>1. Init => IInv
  BY InitHolds
<1>2. IInv /\ [Next]_vars => IInv'
    BY TypeStep, PlacedStep, AnchorStep, BudgetStep, FloorStep, LockStep,
            CleanStep,
     AbortStep, RefsStep, PresentedStep, ExitStep
  DEF IInv
<1> QED
  BY <1>1, <1>2, PTL DEF Spec

(* The variables of the loop keep their shape.                             *)
THEOREM TypeCorrect == Spec => []TypeOK
<1>1. IInv => TypeOK
  BY DEF IInv
<1> QED
  BY <1>1, Invariance, PTL

(* The K-P0.3 check of a gold pass never fires: resolving the contract is  *)
(* stable, and neither the guards, nor a regeneration, nor the operator    *)
(* leave a stale anchor behind.                                            *)
THEOREM ReAnchorSound == Spec => []ReAnchorAgrees
<1>1. IInv => ReAnchorAgrees
  BY DEF IInv, AnchorInv, ReAnchorAgrees, ReAnchored
<1> QED
  BY <1>1, Invariance, PTL

(* At most three model calls between two decisions of the operator.        *)
THEOREM AutoIsBounded == Spec => []AutoBounded
<1>1. IInv => AutoBounded
  BY DEF IInv, TypeOK, BudgetInv, AutoBounded, RegenBudget
<1> QED
  BY <1>1, Invariance, PTL

(* A message never says less than its contract's SemVer, unless it is the  *)
(* skeleton.                                                               *)
THEOREM FloorHolds == Spec => []FloorOrSkeleton
<1>1. IInv => FloorOrSkeleton
  BY DEF IInv, FloorInv
<1> QED
  BY <1>1, Invariance, PTL

(* A lock the constraints allow is the intent of every message written.    *)
THEOREM LockHolds == Spec => []LockHonoured
<1>1. IInv => LockHonoured
  BY DEF IInv, LockInv
<1> QED
  BY <1>1, Invariance, PTL

(* Strict gold lets nothing unedited be committed that has a strict code   *)
(* or is the skeleton.                                                     *)
THEOREM StrictIsClean == Spec => []StrictCommitsClean
<1>1. IInv => StrictCommitsClean
  BY DEF IInv, CleanInv, StrictCommitsClean
<1> QED
  BY <1>1, Invariance, PTL

(* When strict gold gives up, the exit code is 1 and nothing is committed. *)
THEOREM GoldAbortIsFinal == Spec => []GoldAbortBlocks
<1>1. IInv => GoldAbortBlocks
  BY DEF IInv, AbortInv
<1> QED
  BY <1>1, Invariance, PTL

(* No issue reference is lost or doubled on the way into the file.         *)
THEOREM RefsAreKept == Spec => []RefsKept
<1>1. IInv => RefsKept
  BY DEF IInv, RefsInv, RefsKept
<1> QED
  BY <1>1, Invariance, PTL

(* An accepted message that nobody edited is committed as it was last      *)
(* presented.                                                              *)
THEOREM AcceptedAsPresented == Spec => []AcceptedIsPresented
<1>1. IInv => AcceptedIsPresented
  BY DEF IInv, PresentedInv, Shown, AcceptedIsPresented
<1> QED
  BY <1>1, Invariance, PTL

(* The exit code tells git and scripts the truth.                          *)
THEOREM ExitIsTrue == Spec => []ExitTellsTruth
<1>1. IInv => ExitTellsTruth
  BY DEF IInv, ExitInv
<1> QED
  BY <1>1, Invariance, PTL
-----------------------------------------------------------------------------
(* The generation relies on the arbitration menu for what it promises.     *)
promised == <<pc = "menu", locked, guidance, directive>>

(* Every step is one of the promise's, or leaves its variables alone.      *)
LEMMA PromiseStep ==
  TypeOK /\ [Next]_vars => [Promise!Next]_promised
<1> SUFFICES ASSUME TypeOK, [Next]_vars PROVE [Promise!Next]_promised
  OBVIOUS
<1> USE DEF Promise!Open, Promise!Abort, Promise!ReRank, Promise!Settle,
          Promise!Elsewhere, Promise!Next, promised, inputs, steering, cycle,
          budget, result, history
<1>1. CASE SkipGeneration
  BY <1>1 DEF SkipGeneration, Exit
<1>2. CASE SetupFails
  BY <1>2 DEF SetupFails, Exit
<1>3. CASE Setup
  BY <1>3 DEF Setup
<1>4. CASE ParseBlueprint
  BY <1>4 DEF ParseBlueprint, Exit
<1>5. CASE ResolveContract
  BY <1>5 DEF ResolveContract
<1>6. CASE ModelFails
  BY <1>6 DEF ModelFails, Exit
<1>7. CASE ModelAnswers
  BY <1>7 DEF ModelAnswers
<1>8. CASE Present
  BY <1>8 DEF Present
<1>9. CASE BlueprintApplyFails
  BY <1>9 DEF BlueprintApplyFails, Exit
<1>10. CASE CheckPolicy
  BY <1>10 DEF CheckPolicy, Exit
<1>11. CASE GuardsPass
  BY <1>11 DEF GuardsPass
<1>12. CASE GuardsRegenerate
  BY <1>12 DEF GuardsRegenerate, Spend, DropGoldGuidance
<1>13. CASE GuardsFallBack
  BY <1>13 DEF GuardsFallBack, DropGoldGuidance
<1>14. CASE GoldPasses
  BY <1>14 DEF GoldPasses, DropGoldGuidance
<1>15. CASE GoldRegenerates
  BY <1>15 DEF GoldRegenerates, Spend
<1>16. CASE GoldAborts
  BY <1>16 DEF GoldAborts, DropGoldGuidance, Exit
<1>17. CASE WriteMessage
  BY <1>17 DEF WriteMessage, Written, Message
<1>18. CASE WriteFails
  BY <1>18 DEF WriteFails, Exit
<1>19. CASE Finish
  BY <1>19 DEF Finish, Exit
<1>20. CASE ApplyCommit
  BY <1>20 DEF ApplyCommit, Exit
<1>21. CASE MenuAborts
  BY <1>21 DEF MenuAborts, Exit
<1>22. CASE MenuReRanks
  BY <1>22 DEF MenuReRanks
<1>23. CASE MenuLocks
  <2>1. PICK g \in Guidances \cup {NoGuidance} :
          /\ guidance' = IF g # NoGuidance THEN g ELSE guidance
          /\ directive' = IF ParseGuidance(g) # NoType THEN ParseGuidance(g)
                          ELSE directive
    BY <1>23 DEF MenuLocks
  <2>2. pc = "menu" /\ pc' # "menu" /\ locked' \in Intents
    BY <1>23 DEF MenuLocks
  <2>3. CASE g = NoGuidance
    BY <2>1, <2>2, <2>3 DEF ParseGuidance
  <2>4. CASE g # NoGuidance
    BY <2>1, <2>2, <2>4 DEF ParseGuidance
  <2> QED
    BY <2>3, <2>4
<1>24. CASE AddIssueReference
  BY <1>24 DEF AddIssueReference, Written, Message
<1>25. CASE AddReferenceFails
  BY <1>25 DEF AddReferenceFails, Exit
<1>26. CASE SetGuidance
  BY <1>26 DEF SetGuidance
<1>27. CASE ClearGuidance
  BY <1>27 DEF ClearGuidance
<1>28. CASE Regenerate
  BY <1>28 DEF Regenerate, CopyBack
<1>29. CASE Cancel
  BY <1>29 DEF Cancel, CopyBack, Exit
<1>30. CASE Accept
  BY <1>30 DEF Accept, CopyBack
<1>31. CASE Edit
  BY <1>31 DEF Edit, CopyBack
<1>32. CASE GitAfterHook
  BY <1>32 DEF GitAfterHook
<1>33. CASE UNCHANGED vars
  BY <1>33 DEF vars
<1> QED
  BY
     <1>1, <1>2, <1>3, <1>4, <1>5, <1>6, <1>7, <1>8, <1>9, <1>10,
     <1>11, <1>12, <1>13, <1>14, <1>15, <1>16, <1>17, <1>18, <1>19,
     <1>20, <1>21, <1>22, <1>23, <1>24, <1>25, <1>26, <1>27, <1>28,
     <1>29, <1>30, <1>31, <1>32, <1>33
  DEF Next, Program, Operator, Over

(* The generation loop refines the promise of the arbitration: outside the *)
(* menu the lock stands, and the menu changes lock, guidance and directive *)
(* in three ways only.                                                     *)
THEOREM MenuIsAsPromised == Spec => MenuAsPromised
<1>1. Init => Promise!Init
  BY DEF Init, Promise!Init
<1>2. TypeOK /\ [Next]_vars => [Promise!Next]_promised
  BY PromiseStep
<1> QED
  BY <1>1, <1>2, TypeCorrect, PTL
  DEF Spec, MenuAsPromised, Promise!Spec, promised
-----------------------------------------------------------------------------
(* The menu.  The k-th element of a finite set of naturals exists, so that *)
(* a narrowed list is a list of its own entries.                           *)
UpTo(S, i) == {j \in S : j <= i}

LEMMA KthExists ==
  ASSUME NEW S \in SUBSET Nat, IsFiniteSet(S)
  PROVE  \A k \in 1..Cardinality(S) : \E i \in S : Cardinality(UpTo(S, i)) = k
<1>1. Cardinality(S) \in Nat
  BY FS_CardinalityType
<1> DEFINE Missing == {k \in 1..Cardinality(S) : \A i \in S : Cardinality(UpTo(S, i)) # k}
<1> SUFFICES ASSUME Missing # {} PROVE FALSE
  OBVIOUS
<1>2. Missing \in SUBSET Nat
  BY <1>1
<1> DEFINE k == First(Missing)
<1>3. k \in Missing
  BY <1>2, FirstInSet
<1>4. \A n \in Missing : k <= n
  <2>1. \E m \in Missing : \A n \in Missing : m <= n
    BY <1>2, LeastOf
  <2> QED BY <2>1 DEF First
<1>5. k \in 1..Cardinality(S) /\ \A i \in S : Cardinality(UpTo(S, i)) # k
  BY <1>3
<1> HIDE DEF Missing, k
<1>6. CASE k = 1
  <2>1. S # {}
    BY <1>1, <1>5, FS_EmptySet
  <2>2. PICK i \in S : \A j \in S : i <= j
    BY <2>1, LeastOf
  <2>3. UpTo(S, i) = {i}
    <3>1. ASSUME NEW j \in S, j <= i PROVE j = i
      <4>1. i \in Nat /\ j \in Nat /\ i <= j
        BY <2>2
      <4> QED BY <3>1, <4>1
    <3>2. i \in S /\ i <= i
      BY <2>2
    <3> QED BY <3>1, <3>2, Zenon DEF UpTo
  <2>4. Cardinality(UpTo(S, i)) = 1
    BY <2>3, FS_Singleton
  <2> QED BY <1>5, <1>6, <2>2, <2>4
<1>7. CASE k # 1
  <2>1. k - 1 \in 1..Cardinality(S) /\ ~ (k <= k - 1)
    BY <1>1, <1>5, <1>7
  <2>2. k - 1 \notin Missing
    BY <1>4, <2>1
  <2>3. PICK i \in S : Cardinality(UpTo(S, i)) = k - 1
    BY <2>1, <2>2 DEF Missing
  <2>4. UpTo(S, i) # S
    BY <1>1, <1>5, <2>3
  <2>5. PICK m \in S \ UpTo(S, i) : \A j \in S \ UpTo(S, i) : m <= j
    <3> DEFINE rest == S \ UpTo(S, i)
    <3>1. rest # {} /\ rest \in SUBSET Nat
      BY <2>4 DEF UpTo
    <3>2. \E m \in rest : \A j \in rest : m <= j
      <4> HIDE DEF rest
      <4> QED BY <3>1, LeastOf
    <3> QED BY <3>2
  <2>6. UpTo(S, m) = UpTo(S, i) \cup {m} /\ m \notin UpTo(S, i)
    <3>1. m \in Nat /\ i \in Nat /\ ~ (m <= i) /\ m \in S
      BY <2>3, <2>5 DEF UpTo
    <3>2. ASSUME NEW j \in UpTo(S, m) PROVE j \in UpTo(S, i) \cup {m}
      <4>1. j \in S /\ j <= m /\ j \in Nat
        BY DEF UpTo
      <4>2. j \in S \ UpTo(S, i) => m <= j
        BY <2>5
      <4> QED BY <3>1, <4>1, <4>2
    <3>3. ASSUME NEW j \in UpTo(S, i) PROVE j \in UpTo(S, m)
      BY <3>1 DEF UpTo
    <3>4. m \in UpTo(S, m)
      BY <3>1 DEF UpTo
    <3> QED BY <2>5, <3>2, <3>3, <3>4
  <2>7. IsFiniteSet(UpTo(S, i))
    <3>1. UpTo(S, i) \subseteq S
      BY DEF UpTo
    <3> QED BY <3>1, FS_Subset
  <2>8. Cardinality(UpTo(S, m)) = k - 1 + 1
    <3> DEFINE before == UpTo(S, i)
    <3>1. Cardinality(before \cup {m}) = Cardinality(before) + 1
      <4>1. IsFiniteSet(before) /\ m \notin before
        BY <2>6, <2>7
      <4> HIDE DEF before
      <4> QED BY <4>1, FS_AddElement
    <3> QED BY <2>3, <2>6, <3>1
  <2> QED BY <1>1, <1>5, <2>1, <2>5, <2>8
<1> QED BY <1>6, <1>7

LEMMA AmongIsList ==
  ASSUME NEW rows \in Seq(Intents), NEW ids
  PROVE  Among(rows, ids) \in Seq(Intents)
<1> DEFINE kept == {i \in DOMAIN rows : rows[i] \in ids}
           at(k) == CHOOSE i \in kept : Cardinality(UpTo(kept, i)) = k
<1>1. kept \in SUBSET Nat /\ IsFiniteSet(kept)
  <2>1. IsFiniteSet(1..Len(rows)) /\ kept \subseteq 1..Len(rows)
    BY FS_Interval
  <2> QED BY <2>1, FS_Subset
<1>2. Cardinality(kept) \in Nat
  BY <1>1, FS_CardinalityType
<1>3. ASSUME NEW k \in 1..Cardinality(kept) PROVE at(k) \in kept
  <2> HIDE DEF kept
  <2>1. \E i \in kept : Cardinality(UpTo(kept, i)) = k
    BY <1>1, KthExists
  <2> QED BY <2>1
<1>4. ASSUME NEW k \in 1..Cardinality(kept) PROVE rows[at(k)] \in Intents
  <2>1. at(k) \in kept
    BY <1>3
  <2>2. at(k) \in 1..Len(rows)
    <3> HIDE DEF at
    <3> QED BY <2>1
  <2> HIDE DEF at, kept
  <2> QED BY <2>2
<1>5. Among(rows, ids) = [k \in 1..Cardinality(kept) |-> rows[at(k)]]
  BY DEF Among, UpTo
<1> HIDE DEF at, kept
<1>6. [k \in 1..Cardinality(kept) |-> rows[at(k)]] \in Seq(Intents)
  BY <1>2, <1>4
<1> QED BY <1>5, <1>6

LEMMA NarrowedIsList ==
  ASSUME NEW rows \in Seq(Intents), NEW type
  PROVE  /\ Narrowed(rows, type) \in Seq(Intents)
         /\ rows # << >> => Narrowed(rows, type) # << >>
BY AmongIsList DEF Narrowed

LEMMA TopIsIntent ==
  ASSUME NEW rows \in Seq(Intents), rows # << >>, NEW best \in Intents
  PROVE  /\ TopOf(rows, best) \in Intents
BY DEF TopOf

LEMMA AnotherIsIntent ==
  ASSUME NEW rows \in Seq(Intents), NEW id
  PROVE  Another(rows, id) \in Intents \cup {NoIntent}
<1> DEFINE others == Among(rows, Intents \ {id})
<1>1. others \in Seq(Intents)
  BY AmongIsList
<1>2. Another(rows, id) = IF others = << >> THEN NoIntent ELSE others[1]
  BY DEF Another
<1> HIDE DEF others
<1> QED BY <1>1, <1>2

-----------------------------------------------------------------------------
(* The frames with a prompt of their own.                                  *)
Inside == {"MAIN", "LOCK", "CANDIDATES", "GUIDANCE", "SAVE", "SPECIFY", "FUZZY",
           "BROWSE", "CANCEL_MENU"}

(* What the menu will say to the caller about guidance: nothing new,       *)
(* nothing at all, or a text with the directive it parses to.              *)
Named == menu.guidance \in Guidances /\ menu.directive = DirectiveOf[menu.guidance]
Heard ==
  \/ menu.guidance = caller.guidance /\ menu.directive = caller.directive
  \/ menu.guidance = NoGuidance /\ menu.directive = NoType
  \/ Named

(* A call that shows anything has a row that the constraints allow.        *)
OnOffer == Filtered(ranking) # << >>

MenuInv ==
  /\ MenuTypeOK
  /\ frame \in Inside => OnOffer /\ top \in Intents /\ streak < StreakLimit
  /\ card.back \in {"MAIN", "CANDIDATES", "SPECIFY"}
  /\ frame = "LOCK" => card.target \in Intents
  /\ frame \in Inside \cup {"RETURNED"} => Heard
  /\ frame = "RETURNED" =>
       /\ returned.action \in {"locked", "continue_top"} => returned.id \in Intents
       /\ returned.action = "re_rank" => Named /\ menu.directive # NoType

LEMMA MenuConstants ==
  /\ StreakLimit \in Nat /\ StreakLimit >= 1
  /\ NoType \in Directives /\ \A g \in Guidances : DirectiveOf[g] \in Directives
  /\ NoGuidance \notin Guidances
<1>1. StreakLimit \in Nat /\ StreakLimit >= 1
  BY ArbitrationAssumption
<1>2. NoType \in Directives
  BY DEF Directives
<1>3. NoGuidance \notin Guidances /\ \A g \in Guidances : DirectiveOf[g] \in Directives
  BY GuidanceAssumption
<1> QED BY <1>1, <1>2, <1>3

(* What the constraints allow depends on the setting alone.                *)
LEMMA OfferStays == UNCHANGED <<setting, ranking>> /\ OnOffer => OnOffer'
BY DEF OnOffer, Filtered, Allows

LEMMA NothingAmongNothing ==
  ASSUME NEW ids
  PROVE  Among(<< >>, ids) = << >>
<1> DEFINE kept == {i \in DOMAIN << >> : << >>[i] \in ids}
           at(k) == CHOOSE i \in kept : Cardinality(UpTo(kept, i)) = k
<1>1. Among(<< >>, ids) = [k \in 1..Cardinality(kept) |-> << >>[at(k)]]
  BY DEF Among, UpTo
<1>2. Cardinality(kept) = 0
  <2>1. kept = {}
    OBVIOUS
  <2> QED BY <2>1, FS_EmptySet
<1> HIDE DEF kept, at
<1>3. [k \in 1..0 |-> << >>[at(k)]] = << >>
  OBVIOUS
<1> QED BY <1>1, <1>2, <1>3

LEMMA CatalogueOfIntents == Catalogue \subseteq Intents
<1>1. ASSUME NEW i \in DOMAIN Matrix PROVE Matrix[i].id \in Intents
  <2>1. Matrix \in Seq(Rows)
    BY MatrixAssumption
  <2>2. Matrix[i] \in Rows
    BY <2>1
  <2> QED BY <2>2 DEF Rows
<1> QED BY <1>1 DEF Catalogue, MatrixIds

LEMMA OfferedAreIntents ==
  ASSUME eligible \in Seq(Intents), NEW i \in DOMAIN Offered
  PROVE  Offered[i] \in Intents
<1> DEFINE n == IF Len(eligible) < CandidateLimit THEN Len(eligible) ELSE CandidateLimit
<1>1. n \in Nat /\ n <= Len(eligible)
  BY DEF CandidateLimit
<1> HIDE DEF n
<1>2. SubSeq(eligible, 1, n) \in Seq(Intents)
  BY <1>1
<1>3. Offered = SubSeq(eligible, 1, n)
  BY DEF Offered, n
<1> QED BY <1>2, <1>3

LEMMA MenuStarts == MenuInit => MenuInv
<1> SUFFICES ASSUME MenuInit PROVE MenuInv
  OBVIOUS
<1>1. setting.ranked \in Seq(Intents) \ {<< >>} /\ setting \in Settings
  BY ArbitrationAssumption DEF MenuInit
<1>2. /\ frame \in Frames /\ eligible \in Seq(Intents) /\ ranking \in Seq(Intents) \ {<< >>}
      /\ frame = "OPEN"
  BY <1>1 DEF MenuInit, Frames
<1>3. card \in [target : Intents \cup {NoIntent}, path : Paths, back : Frames]
  BY DEF MenuInit, NoCard, Paths, Frames
<1>4. menu \in Steering /\ 0 \in 0..StreakLimit /\ caller.directive \in Directives
  BY MenuConstants DEF MenuInit, Steering
<1>5. returned \in [action : {"none", "locked", "continue_top", "re_rank", "aborted"},
                    id : Intents \cup {NoIntent}, path : Paths, override : BOOLEAN]
  BY DEF MenuInit, NoResult, Paths
<1>6. /\ [guidance |-> caller.guidance, directive |-> caller.directive] \in Steering
      /\ caller.locked \in Intents \cup {NoIntent}
      /\ caller.choice \in Paths /\ caller.override \in BOOLEAN
  BY <1>4 DEF MenuInit, Steering, Paths
<1>7. MenuTypeOK
  BY <1>1, <1>2, <1>3, <1>4, <1>5, <1>6 DEF MenuInit, MenuTypeOK
<1> QED BY <1>7 DEF MenuInit, MenuInv, Inside, NoCard

(* A cancel counts, and the last that is allowed settles on option A.      *)
LEMMA Thrashes ==
  ASSUME MenuInv, frame \in Inside, NEW next \in {"MAIN", "CANCEL_MENU"}, Thrash(next),
         answer' \in {"selected", "cancelled", "failed"},
         UNCHANGED <<setting, ranking, screen, card, draft, menu, caller>>
  PROVE  MenuInv'
<1>1. streak \in Nat /\ StreakLimit \in Nat /\ streak < StreakLimit /\ top \in Intents
      /\ streak' = streak + 1
  BY MenuConstants DEF MenuInv, MenuTypeOK, Thrash
<1>2. streak' \in 0..StreakLimit
  BY <1>1
<1>5. OnOffer'
  BY OfferStays DEF MenuInv
<1> USE DEF MenuInv, MenuTypeOK, Inside, Heard, Named, Frames, screen
<1>3. CASE streak' >= StreakLimit
  <2>1. /\ frame' = "RETURNED"
        /\ returned' = [action |-> "continue_top", id |-> top, path |-> "ni_top_rank",
                        override |-> FALSE]
    BY <1>3 DEF Thrash, ContinueTop, Returns
  <2>2. returned' \in [action : {"none", "locked", "continue_top", "re_rank", "aborted"},
                       id : Intents \cup {NoIntent}, path : Paths, override : BOOLEAN]
    BY <1>1, <2>1 DEF Paths
  <2> QED BY <1>1, <1>2, <2>1, <2>2
<1>4. CASE ~ (streak' >= StreakLimit)
  <2>1. frame' = next /\ returned' = returned /\ streak' < StreakLimit
    BY <1>1, <1>4 DEF Thrash, Goes
  <2> QED BY <1>1, <1>2, <1>5, <2>1
<1> QED BY <1>3, <1>4

(* The call's entry: it returns at once, or shows rows.                    *)
LEMMA Opens ==
  ASSUME MenuInv, OpenMenu
  PROVE  MenuInv'
<1> DEFINE rows == Narrowed(Filtered(ranking), caller.directive)
           best == TopOf(rows, ranking[1])
<1>1. rows \in Seq(Intents) /\ ranking[1] \in Intents
  <2>1. ranking \in Seq(Intents) /\ ranking # << >>
    BY DEF MenuInv, MenuTypeOK
  <2>2. Filtered(ranking) \in Seq(Intents)
    BY <2>1, AmongIsList DEF Filtered
  <2> QED BY <2>1, <2>2, NarrowedIsList
<1>2. /\ menu' = [guidance |-> caller.guidance, directive |-> caller.directive]
      /\ card' = NoCard /\ draft' = NoGuidance /\ streak' = 0
      /\ setting' = setting /\ ranking' = ranking /\ answer' = answer /\ caller' = caller
      /\ frame = "OPEN"
  BY DEF OpenMenu
<1>3. /\ menu' \in Steering /\ streak' \in 0..StreakLimit /\ streak' < StreakLimit
      /\ card' \in [target : Intents \cup {NoIntent}, path : Paths, back : Frames]
      /\ card'.back = "MAIN"
  BY <1>2, MenuConstants DEF MenuInv, MenuTypeOK, NoCard, Paths, Frames
<1>4. menu'.guidance = caller.guidance /\ menu'.directive = caller.directive
  BY <1>2
<1>5. CASE \E path \in {"ni_top_rank", "cancel_continue_a"} :
             Returns("continue_top", ranking[1], path, FALSE) /\ UNCHANGED screen
  <2>1. PICK path \in {"ni_top_rank", "cancel_continue_a"} :
          /\ returned' = [action |-> "continue_top", id |-> ranking[1], path |-> path,
                          override |-> FALSE]
          /\ frame' = "RETURNED" /\ UNCHANGED screen
    BY <1>5 DEF Returns
  <2>2. returned' \in [action : {"none", "locked", "continue_top", "re_rank", "aborted"},
                       id : Intents \cup {NoIntent}, path : Paths, override : BOOLEAN]
    BY <1>1, <2>1 DEF Paths
  <2> QED BY <1>1, <1>2, <1>3, <1>4, <2>1, <2>2
          DEF MenuInv, MenuTypeOK, Inside, Heard, Frames, screen
<1>6. CASE /\ rows # << >> /\ eligible' = rows /\ top' = best
           /\ runner' = IF Contains(rows, RunnerUp) THEN RunnerUp ELSE Another(rows, best)
           /\ Goes("MAIN")
  <2>1. best \in Intents
    <3> HIDE DEF rows
    <3> QED BY <1>1, <1>6, TopIsIntent
  <2>2. runner' \in Intents \cup {NoIntent}
    <3>1. RunnerUp \in Intents \cup {NoIntent}
      BY DEF RunnerUp, MenuInv, MenuTypeOK
    <3>2. Another(rows, best) \in Intents \cup {NoIntent}
      <4> HIDE DEF rows, best
      <4> QED BY <1>1, AnotherIsIntent
    <3> HIDE DEF rows, best
    <3> QED BY <1>6, <3>1, <3>2
  <2>3. eligible' \in Seq(Intents) /\ top' \in Intents /\ frame' = "MAIN" /\ returned' = returned
    BY <1>1, <1>6, <2>1 DEF Goes
  <2>4. OnOffer'
    <3>1. Filtered(ranking) # << >>
      <4>1. Narrowed(<< >>, caller.directive) = << >>
        BY NothingAmongNothing DEF Narrowed
      <4> QED BY <1>6, <4>1
    <3> QED BY <1>2, <3>1, OfferStays DEF OnOffer
  <2> QED BY <1>2, <1>3, <1>4, <2>2, <2>3, <2>4 DEF MenuInv, MenuTypeOK, Inside, Heard, Frames
<1> QED BY <1>5, <1>6 DEF OpenMenu

(* A text is kept with the directive it names, and may narrow the rows.    *)
LEMMA Saves ==
  ASSUME MenuInv, SaveReturns
  PROVE  MenuInv'
<1>1. /\ frame = "SAVE" /\ draft \in Guidances /\ menu' = Saved /\ answer' = "selected"
      /\ frame' = "MAIN" /\ UNCHANGED <<returned, setting, ranking, card, draft, streak, caller>>
  BY DEF SaveReturns, Goes, MenuInv, MenuTypeOK
<1>2. menu' \in Steering /\ menu'.guidance \in Guidances
      /\ menu'.directive = DirectiveOf[menu'.guidance]
  BY <1>1, MenuConstants DEF Saved, Steering
<1>3. eligible' \in Seq(Intents) /\ top' \in Intents /\ runner' \in Intents \cup {NoIntent}
  <2>1. CASE UNCHANGED screen
    BY <1>1, <2>1 DEF MenuInv, MenuTypeOK, Inside, screen
  <2>2. CASE /\ eligible' = Narrowed(Filtered(ranking), DirectiveOf[draft])
             /\ top' = TopOf(eligible', ranking[1])
             /\ runner' = Another(eligible', top')
    <3>1. ranking \in Seq(Intents) /\ ranking[1] \in Intents
      BY DEF MenuInv, MenuTypeOK
    <3>2. Filtered(ranking) \in Seq(Intents)
      BY <3>1, AmongIsList DEF Filtered
    <3>3. eligible' \in Seq(Intents) /\ eligible' # << >>
      BY <1>1, <2>2, <3>2, NarrowedIsList DEF MenuInv, OnOffer, Inside
    <3> QED BY <2>2, <3>1, <3>3, TopIsIntent, AnotherIsIntent
  <2> QED BY <2>1, <2>2 DEF SaveReturns
<1>4. OnOffer'
  BY <1>1, OfferStays DEF MenuInv, Inside
<1> QED BY <1>1, <1>2, <1>3, <1>4 DEF MenuInv, MenuTypeOK, Inside, Heard, Named, Frames

LEMMA ReRanks ==
  ASSUME MenuInv, CallerReRanks
  PROVE  MenuInv'
<1>1. /\ frame = "RETURNED" /\ Named /\ menu.directive # NoType
      /\ ranking' = Narrowed(setting.ranked, menu.directive)
      /\ frame' \in {"OPEN", "DONE"}
      /\ UNCHANGED <<setting, screen, card, draft, menu, streak, answer, returned>>
  BY DEF MenuInv, CallerReRanks
<1>2. /\ caller'.guidance = menu.guidance /\ caller'.directive = menu.directive
      /\ caller'.locked = NoIntent /\ caller'.override = FALSE
      /\ caller'.choice \in {caller.choice, "re_rank_auto_continue"}
  BY DEF CallerReRanks
<1>3. setting.ranked \in Seq(Intents) /\ setting.ranked # << >>
  BY ArbitrationAssumption DEF MenuInv, MenuTypeOK
<1>4. ranking' \in Seq(Intents) \ {<< >>}
  BY <1>1, <1>3, NarrowedIsList
<1>5. [guidance |-> caller'.guidance, directive |-> caller'.directive] \in Steering
  BY <1>1, <1>2 DEF MenuInv, MenuTypeOK, Steering
<1>6. /\ frame' \in Frames /\ frame' \notin Inside \cup {"RETURNED"} /\ frame' # "LOCK"
      /\ caller'.choice \in Paths /\ caller'.locked \in Intents \cup {NoIntent}
      /\ caller'.override \in BOOLEAN
  BY <1>1, <1>2 DEF MenuInv, MenuTypeOK, Frames, Paths, Inside
<1>7. MenuTypeOK'
  BY <1>1, <1>4, <1>5, <1>6 DEF MenuInv, MenuTypeOK, screen
<1> QED BY <1>1, <1>6, <1>7 DEF MenuInv

LEMMA MenuStays ==
  ASSUME MenuInv, [MenuNext]_menuVars
  PROVE  MenuInv'
<1> USE DEF MenuInv, MenuTypeOK, Inside, Heard, Named, Frames, Paths, Goes, Returns, ContinueTop,
        screen
<1>0. /\ UNCHANGED <<setting, ranking>> /\ OnOffer => OnOffer'
      /\ StreakLimit \in Nat /\ StreakLimit >= 1
  BY OfferStays, MenuConstants
<1>1. CASE MainCancelled
  BY <1>0, <1>1, Thrashes DEF MainCancelled
<1>2. CASE MainFails
  BY <1>0, <1>2 DEF MainFails
<1>3. CASE MainLocks
  BY <1>0, <1>3 DEF MainLocks
<1>4. CASE MainOpens
  BY <1>0, <1>4 DEF MainOpens
<1>5. CASE CancelMenuBacks
  BY <1>0, <1>5, Thrashes DEF CancelMenuBacks
<1>6. CASE CancelMenuFails
  BY <1>0, <1>6 DEF CancelMenuFails
<1>7. CASE CancelMenuEnds
  <2>1. CASE Returns("continue_top", top, "cancel_continue_a", FALSE)
    BY <1>0, <1>7, <2>1, MenuConstants DEF CancelMenuEnds
  <2>2. CASE Returns("aborted", NoIntent, "cancel_abort", FALSE)
    BY <1>0, <1>7, <2>2, MenuConstants DEF CancelMenuEnds
  <2> QED BY <1>0, <1>7, <2>1, <2>2 DEF CancelMenuEnds
<1>8. CASE LockBacks
  BY <1>0, <1>8 DEF LockBacks, NoCard
<1>9. CASE LockFails
  BY <1>0, <1>9 DEF LockFails
<1>10. CASE LockConfirmed
  BY <1>0, <1>10 DEF LockConfirmed
<1>11. CASE CandidatesBack
  BY <1>0, <1>11 DEF CandidatesBack
<1>12. CASE CandidatesFail
  BY <1>0, <1>12 DEF CandidatesFail
<1>13. CASE CandidatePicked
  <2>1. PICK i \in DOMAIN Offered :
          card' = [target |-> Offered[i], path |-> "pick_candidate", back |-> "CANDIDATES"]
    BY <1>0, <1>13 DEF CandidatePicked
  <2>2. Offered[i] \in Intents
    BY OfferedAreIntents
  <2> QED BY <1>0, <1>13, <2>1, <2>2 DEF CandidatePicked
<1>14. CASE SpecifyLeft
  BY <1>0, <1>14 DEF SpecifyLeft
<1>15. CASE SpecifyOpens
  BY <1>0, <1>15 DEF SpecifyOpens
<1>16. CASE FuzzyUnavailable
  BY <1>0, <1>16 DEF FuzzyUnavailable
<1>17. CASE CatalogueLeft
  BY <1>0, <1>17 DEF CatalogueLeft
<1>18. CASE CataloguePicked
  <2>1. PICK id \in Catalogue, path \in {"specify_fuzzy", "specify_browse"} :
          card' = [target |-> id, back |-> "SPECIFY", path |-> path]
    BY <1>0, <1>18 DEF CataloguePicked
  <2>2. id \in Intents
    BY CatalogueOfIntents
  <2> QED BY <1>0, <1>18, <2>1, <2>2 DEF CataloguePicked
<1>19. CASE GuidanceLeft
  BY <1>0, <1>19 DEF GuidanceLeft
<1>20. CASE GuidanceDrafted
  BY <1>0, <1>20 DEF GuidanceDrafted
<1>21. CASE SaveLeft
  BY <1>0, <1>21 DEF SaveLeft
<1>22. CASE SaveClears
  <2>1. menu' \in Steering
    BY <1>0, <1>22, MenuConstants DEF SaveClears, Steering
  <2> QED BY <1>0, <1>22, <2>1 DEF SaveClears
<1>23. CASE SaveReturns
  BY <1>23, Saves
<1>24. CASE SaveReRanks
  <2>1. /\ menu' \in Steering /\ menu'.guidance \in Guidances
        /\ menu'.directive = DirectiveOf[menu'.guidance]
        /\ menu'.directive = DirectiveOf[draft]
    BY <1>0, <1>24, MenuConstants DEF SaveReRanks, Saved, Steering
  <2>2. CASE DirectiveOf[draft] = NoType
    BY <1>0, <1>24, <2>1, <2>2 DEF SaveReRanks
  <2>3. CASE DirectiveOf[draft] # NoType
    <3>1. /\ frame' = "RETURNED"
          /\ returned' = [action |-> "re_rank", id |-> NoIntent, path |-> "none",
                          override |-> FALSE]
          /\ frame = "SAVE" /\ answer' = "selected"
          /\ UNCHANGED <<setting, ranking, screen, card, draft, streak, caller>>
      BY <1>24, <2>3 DEF SaveReRanks
    <3>2. returned' \in [action : {"none", "locked", "continue_top", "re_rank", "aborted"},
                         id : Intents \cup {NoIntent}, path : Paths, override : BOOLEAN]
      BY <3>1
    <3> QED BY <1>0, <2>1, <2>3, <3>1, <3>2
  <2> QED BY <2>2, <2>3
<1>25. CASE OpenMenu
  BY <1>25, Opens
<1>26. CASE CallerAborts
  BY <1>0, <1>26 DEF CallerAborts
<1>27. CASE CallerReRanks
  BY <1>27, ReRanks
<1>28. CASE CallerAccepts
  <2>1. /\ frame' = "DONE" /\ frame = "RETURNED"
        /\ UNCHANGED <<setting, ranking, screen, card, draft, menu, streak, answer, returned>>
        /\ caller'.guidance \in {menu.guidance, caller.guidance}
        /\ caller'.directive \in {menu.directive, caller.directive}
        /\ caller'.locked = returned.id /\ caller'.choice = returned.path
        /\ caller'.override = returned.override
    BY <1>0, <1>28 DEF CallerAccepts
  <2>2. [guidance |-> caller'.guidance, directive |-> caller'.directive] \in Steering
    BY <2>1 DEF Steering
  <2> QED BY <2>1, <2>2
<1>29. CASE Done
  BY <1>0, <1>29 DEF Done, menuVars
<1>30. CASE UNCHANGED menuVars
  BY <1>0, <1>30 DEF menuVars
<1> QED BY <1>1, <1>2, <1>3, <1>4, <1>5, <1>6, <1>7, <1>8, <1>9, <1>10, <1>11,
     <1>12, <1>13, <1>14, <1>15, <1>16, <1>17, <1>18, <1>19, <1>20, <1>21,
     <1>22, <1>23, <1>24, <1>25, <1>26, <1>27, <1>28, <1>29, <1>30 DEF MenuNext, Step, Prompted

(* Only a return ends in the caller, and what it takes over is what the    *)
(* menu heard.                                                             *)
steered == <<frame # "DONE", caller.locked, caller.guidance, caller.directive>>

LEMMA MenuPromiseStep ==
  ASSUME MenuInv, [MenuNext]_menuVars
  PROVE  [MenuPromise!Next]_steered
<1>1. CASE UNCHANGED caller /\ frame # "DONE" /\ frame' # "DONE"
  BY <1>1 DEF steered
<1>2. CASE CallerAborts
  <2>1. /\ frame # "DONE" /\ frame' = "DONE" /\ caller'.locked = NoIntent
        /\ caller'.guidance = caller.guidance /\ caller'.directive = caller.directive
    BY <1>2 DEF CallerAborts
  <2> QED BY <2>1 DEF MenuPromise!Next, MenuPromise!Abort
<1>3. CASE CallerReRanks
  <2>1. /\ frame # "DONE" /\ caller'.locked = NoIntent
        /\ caller'.guidance = menu.guidance /\ caller'.directive = menu.directive
        /\ Named /\ menu.directive # NoType
    BY <1>3 DEF CallerReRanks, MenuInv
  <2> QED BY <2>1 DEF Named, MenuPromise!Next, MenuPromise!ReRank
<1>4. CASE CallerAccepts
  <2>1. /\ frame # "DONE" /\ frame' = "DONE" /\ caller'.locked = returned.id
        /\ caller'.guidance = IF menu.guidance # NoGuidance THEN menu.guidance
                              ELSE caller.guidance
        /\ caller'.directive = IF menu.directive # NoType THEN menu.directive
                               ELSE caller.directive
        /\ returned.id \in Intents /\ Heard
    BY <1>4 DEF CallerAccepts, MenuInv, Inside
  <2>2. CASE ~ Named
    <3>1. caller'.guidance = caller.guidance /\ caller'.directive = caller.directive
      BY <2>1, <2>2 DEF Heard
    <3> QED BY <2>1, <3>1 DEF MenuPromise!Next, MenuPromise!Settle
  <2>3. CASE Named
    <3>1. menu.guidance \in Guidances /\ caller'.guidance = menu.guidance
      BY <2>1, <2>3, MenuConstants DEF Named
    <3>2. caller'.directive = IF DirectiveOf[menu.guidance] = NoType THEN caller.directive
                              ELSE DirectiveOf[menu.guidance]
      BY <2>1, <2>3 DEF Named
    <3> QED BY <2>1, <3>1, <3>2 DEF MenuPromise!Next, MenuPromise!Settle
  <2> QED BY <2>2, <2>3
<1>5. CASE OpenMenu
  <2>1. frame = "OPEN" /\ frame' \in {"RETURNED", "MAIN"} /\ UNCHANGED caller
    BY <1>5 DEF OpenMenu, Returns, Goes
  <2> QED BY <1>1, <2>1
<1>6. CASE Prompted
  <2>1. frame \in Inside /\ UNCHANGED caller
    BY <1>6 DEF Prompted, Inside, MainCancelled, MainFails, MainLocks, MainOpens,
       CancelMenuBacks, CancelMenuFails, CancelMenuEnds, LockBacks, LockFails, LockConfirmed,
       CandidatesBack, CandidatesFail, CandidatePicked, SpecifyLeft, SpecifyOpens,
       FuzzyUnavailable, CatalogueLeft, CataloguePicked, GuidanceLeft, GuidanceDrafted,
       SaveLeft, SaveClears, SaveReturns, SaveReRanks
  <2>2. frame' # "DONE"
    BY <1>6 DEF Prompted, Goes, Returns, ContinueTop, Thrash, MenuInv, MainCancelled, MainFails,
       MainLocks, MainOpens, CancelMenuBacks, CancelMenuFails, CancelMenuEnds, LockBacks,
       LockFails, LockConfirmed, CandidatesBack, CandidatesFail, CandidatePicked, SpecifyLeft,
       SpecifyOpens, FuzzyUnavailable, CatalogueLeft, CataloguePicked, GuidanceLeft,
       GuidanceDrafted, SaveLeft, SaveClears, SaveReturns, SaveReRanks
  <2> QED BY <1>1, <2>1, <2>2 DEF Inside
<1>7. CASE Done \/ UNCHANGED menuVars
  BY <1>7 DEF Done, menuVars, steered
<1> QED BY <1>2, <1>3, <1>4, <1>5, <1>6, <1>7 DEF MenuNext, Step

LEMMA MenuInvariance == MenuSpec => []MenuInv
<1>1. MenuInit => MenuInv
  BY MenuStarts
<1>2. MenuInv /\ [MenuNext]_menuVars => MenuInv'
  BY MenuStays
<1> QED BY <1>1, <1>2, PTL DEF MenuSpec

(* The locals of the menu and of its caller keep their types: rows on      *)
(* offer are rows of the matrix, and the count of cancels stays within its *)
(* limit.                                                                  *)
THEOREM MenuTypeCorrect == MenuSpec => []MenuTypeOK
<1>1. MenuInv => MenuTypeOK
  BY DEF MenuInv
<1> QED BY <1>1, MenuInvariance, PTL

(* The menu with all its frames implements the promise: whatever is        *)
(* answered, dismissed or fails at a prompt, the caller's lock, guidance   *)
(* and directive change in the three promised ways only.                   *)
THEOREM MenuKeepsItsPromise == MenuSpec => MenuKeepsPromise
<1>1. MenuInit => MenuPromise!Init
  BY DEF MenuInit, MenuPromise!Init
<1>2. MenuInv /\ [MenuNext]_menuVars => [MenuPromise!Next]_steered
  BY MenuPromiseStep
<1> QED
  BY <1>1, <1>2, MenuInvariance, PTL DEF MenuSpec, MenuKeepsPromise, MenuPromise!Spec, steered
=============================================================================
