----------------------------- MODULE Promotion -----------------------------
(***************************************************************************)
(* Promotion of a captured bundle to a destination (promote in             *)
(* src/git_cg/eval/promote.py), next to the review queue whose rows a      *)
(* promotion may carry.                                                    *)
(*                                                                         *)
(* A promotion is a process that holds no lock: it reads the review, later *)
(* scans the decisions of its split group, later still records its own     *)
(* decision and writes the artifact.  A dry run writes nothing, and is     *)
(* left out; so is the reviewers' rollup, which is evidence only.          *)
(***************************************************************************)
EXTENDS ReviewQueue

CONSTANTS
  Promoters,   \* the processes
  Promotions,  \* promotion ids, drawn at random by the code
  Splits,      \* split groups
  Requests,    \* the promotions asked for
  MaxBusy      \* bound: the processes under way at once

Park         == {"quarantine", "reject"}
Destinations == Park \cup {"fixture_lane_a", "hard_negative", "preference_pair",
                           "observability_fixture"}
Labels       == {"plain", "positive", "gold"}

(* The bundle a request names is not edited: what matters of it is part of *)
(* the request.  lineage: it has a session thread and a trace.             *)
Request == [destination : Destinations, label : Labels, allow_golden : BOOLEAN,
            popularity : BOOLEAN, review : Reviews \cup {Nothing},
            split : Splits \cup {Nothing}, lineage : BOOLEAN, valid : BOOLEAN,
            synthetic : BOOLEAN, antipattern : BOOLEAN]

ASSUME PromotionAssumption == Requests \subseteq Request /\ MaxBusy \in Nat

Decision == [accepted : BOOLEAN, destination : Destinations, split : Splits,
             review : Reviews \cup {Nothing}]

ASSUME UndecidedAssumption == Nothing \notin Decision

Work == [at : {"load", "scan", "decide", "deny", "mint"}, request : Requests,
         review : Item \cup {Nothing}, id : Promotions \cup {Nothing}]

VARIABLES
  decision,    \* per promotion: its row in .eval/index/promotions
  artifact,    \* per promotion: where its artifact was written
  work,        \* per process: the promotion under way
  overlapped   \* history: two promotions were under way at once

promotionVars == <<decision, artifact, work, overlapped>>
allVars == <<reviewVars, promotionVars>>

PromotionTypeOK ==
  /\ ReviewTypeOK
  /\ decision \in [Promotions -> Decision \cup {Nothing}]
  /\ artifact \in [Promotions -> Destinations \cup {Nothing}]
  /\ work \in [Promoters -> Work \cup {Nothing}]
  /\ overlapped \in BOOLEAN

PromotionInit ==
  /\ ReviewInit
  /\ decision = [n \in Promotions |-> Nothing]
  /\ artifact = [n \in Promotions |-> Nothing]
  /\ work = [p \in Promoters |-> Nothing]
  /\ overlapped = FALSE
-----------------------------------------------------------------------------
(* The gates, in the order they are tried.                                 *)
SourceSound(q) == q.lineage /\ q.split # Nothing /\ q.valid

WantsGold(q) == q.label = "gold" \/ q.allow_golden

Positive(q) == q.label \in {"positive", "gold"} \/ q.destination = "fixture_lane_a"

Forbidden(q) ==
  \/ WantsGold(q) /\ (q.popularity \/ q.destination \notin Park)
  \/ q.synthetic /\ q.destination \notin Park
  \/ q.antipattern /\ Positive(q)

(* A decision of the split group that the request cannot stand beside.     *)
Accepted == {n \in Promotions : decision[n] # Nothing /\ decision[n].accepted}

Clashes(q, d) ==
  /\ d.split = q.split
  /\ \/ d.destination \notin Park /\ d.destination # q.destination
     \/ Positive(q) /\ d.destination = "hard_negative"

ContaminatedHere(q) ==   \* looks at the destination's own rows only
  \E n \in Accepted : /\ decision[n].destination = q.destination
                      /\ Clashes(q, decision[n])
Contaminated(q) == \E n \in Accepted : Clashes(q, decision[n])

DisputeOpen(copy) ==
  \/ copy.status \in {"pending", "in_review"}
  \/ copy.disputed /\ (copy.status # "adjudicated" \/ copy.outcome = "needs_work")

HumanLegDone(copy) == copy.status = "adjudicated"   \* whatever the outcome
HumanLeg(copy)     == copy.status = "adjudicated" /\ copy.outcome = "approve_promote"

ReviewBlocks(q, copy) ==
  /\ copy # Nothing /\ q.destination \notin Park
  /\ DisputeOpen(copy) \/ ~ HumanLeg(copy)
-----------------------------------------------------------------------------
Busy(p, place) == work[p] # Nothing /\ work[p].at = place
Move(p, place) == work' = [work EXCEPT ![p].at = place]
Stop(p)        == work' = [work EXCEPT ![p] = Nothing]

(* The arguments are checked, and the source is resolved and looked at.    *)
Ask(p) ==
  /\ work[p] = Nothing
  /\ \E q \in Requests :
       /\ work' = [work EXCEPT ![p] =
            [at |-> IF SourceSound(q) THEN "load" ELSE "deny", request |-> q,
             review |-> Nothing, id |-> Nothing]]
       /\ overlapped' = (overlapped \/ \E other \in Promoters : work[other] # Nothing)
  /\ UNCHANGED <<reviewVars, decision, artifact>>

(* The review, if one is named; a row that is not there is an error.       *)
Load(p) ==
  /\ Busy(p, "load")
  /\ LET q    == work[p].request
         copy == IF q.review = Nothing THEN Nothing ELSE item[q.review]
     IN  IF q.review # Nothing /\ copy = Nothing THEN Stop(p)
         ELSE work' = [work EXCEPT ![p].review = copy,
                ![p].at = IF Forbidden(q) THEN "deny" ELSE "scan"]
  /\ UNCHANGED <<reviewVars, decision, artifact, overlapped>>

Scan(p) ==
  /\ Busy(p, "scan")
  /\ LET q == work[p].request
     IN  Move(p, IF \/ Contaminated(q) /\ q.destination \notin Park
                    \/ ReviewBlocks(q, work[p].review)
                 THEN "deny" ELSE "decide")
  /\ UNCHANGED <<reviewVars, decision, artifact, overlapped>>

DecisionRow(q, accepted) ==
  [accepted |-> accepted, destination |-> q.destination, split |-> q.split,
   review |-> q.review]

(* A denial leaves an audit row where there is a split group to file it    *)
(* under, and never an artifact.                                           *)
Deny(p) ==
  /\ Busy(p, "deny")
  /\ \/ /\ work[p].request.split = Nothing
        /\ UNCHANGED decision
     \/ /\ work[p].request.split # Nothing
        /\ \E n \in Promotions :
             /\ decision[n] = Nothing
             /\ decision' = [decision EXCEPT ![n] = DecisionRow(work[p].request, FALSE)]
  /\ Stop(p)
  /\ UNCHANGED <<reviewVars, artifact, overlapped>>

(* Accepted: the decision first, then the artifact, except for a reject.   *)
Decided(p) ==
  /\ Busy(p, "decide")
  /\ \E n \in Promotions :
       /\ decision[n] = Nothing
       /\ decision' = [decision EXCEPT ![n] = DecisionRow(work[p].request, TRUE)]
       /\ IF work[p].request.destination = "reject" THEN Stop(p)
          ELSE work' = [work EXCEPT ![p].at = "mint", ![p].id = n]
  /\ UNCHANGED <<reviewVars, artifact, overlapped>>

Mint(p) ==
  /\ Busy(p, "mint")
  /\ artifact' = [artifact EXCEPT ![work[p].id] = work[p].request.destination]
  /\ Stop(p)
  /\ UNCHANGED <<reviewVars, decision, overlapped>>

PromoterDies(p) ==
  /\ work[p] # Nothing
  /\ Stop(p)
  /\ UNCHANGED <<reviewVars, decision, artifact, overlapped>>

PromotionStep(p) ==
  \/ Ask(p) \/ Load(p) \/ Scan(p) \/ Deny(p) \/ Decided(p) \/ Mint(p)
  \/ PromoterDies(p)

Room ==
  Cardinality({o \in Operators : task[o] # Nothing})
    + Cardinality({p \in Promoters : work[p] # Nothing}) < MaxBusy

PromotionNext ==
  \/ \E o \in Operators :
       (task[o] # Nothing \/ Room) /\ ReviewStep(o) /\ UNCHANGED promotionVars
  \/ \E p \in Promoters :
       (work[p] # Nothing \/ Room) /\ PromotionStep(p)

PromotionSpec == PromotionInit /\ [][PromotionNext]_allVars
-----------------------------------------------------------------------------
(* A split group does not cross destinations: as long as promotions run    *)
(* one at a time, whatever they leave when they die, two accepted          *)
(* decisions of one group are for the same destination, parked ones aside  *)
(* (_scan_split_contamination: "Contamination unit = split_group_id").     *)
SplitKept ==
  ~ overlapped =>
    \A a, b \in Accepted :
      LET da == decision[a]
          db == decision[b]
      IN  da.split = db.split /\ {da.destination, db.destination} \cap Park = {}
            => da.destination = db.destination

(* An artifact outside the parking lanes has an accepted decision for the  *)
(* same place, and where that decision names a review, the review was      *)
(* adjudicated approve_promote before: however reviewers and promoters     *)
(* race, and wherever a promotion dies.                                    *)
ApprovalBehindArtifact ==
  \A n \in Promotions : artifact[n] # Nothing =>
    /\ decision[n] # Nothing /\ decision[n].accepted
    /\ decision[n].destination = artifact[n]
    /\ artifact[n] \notin Park /\ decision[n].review # Nothing
         => decision[n].review \in approved
=============================================================================
