---------------------------- MODULE BundleScoring ----------------------------
(***************************************************************************)
(* score_bundle in src/git_cg/eval/scoring/runner.py, step by step: the    *)
(* projection of a bundle, its families of metrics one after the other,    *)
(* each inside its own try, the envelope of the rows, the gated judge, the *)
(* honesty rows about the judge and the gates.  CaseScoring says what the  *)
(* gates of an offline scoring are; here the judge takes part.             *)
(***************************************************************************)
EXTENDS CaseScoring, LaneC, Integers, SequencesExt

CONSTANTS Cases,                 \* [policy, bundle, lane] to be scored
          None

(* What score_bundle is called with: a suite's policy, the bundle with what *)
(* its evaluators will do, and the configuration of the judge.             *)
Bundle == [projects : BOOLEAN, text : Texts, card : BOOLEAN, digest : Digests,
           class : Classes, bound : BOOLEAN, pinned : BOOLEAN,
           raising : SUBSET Families, invalid : SUBSET Metrics, failing : SUBSET Metrics]

ASSUME CasesAssumption ==
  /\ Cases \subseteq [policy : Policy, bundle : Bundle, lane : Lanes]
  /\ "unknown" \notin Judged

HonestyIds == {"judge_input_isolated", "prompt_pack_pinned",
               "prompt_pack_hash_known", "prompt_pack_suite_fresh"}

VARIABLES case,      \* what is scored: fixed by the caller
          todo,      \* families still to run
          stage,     \* where in score_bundle the case is
          scores,    \* set of [id, ok]: the rows of families
          errors,    \* evaluator_errors, by their prefix
          cprime,    \* the rows of the judge: [metric, code, invoked, packed]
          answers,   \* what the judge answered, per row (the calls made)
          run,       \* lane_c_run_evidence
          cohort,    \* the eligibility handed to the gates, or None
          gates      \* the composed gates, or None

vars == <<case, todo, stage, scores, errors, cprime, answers, run, cohort, gates>>

policy == case.policy
bundle == case.bundle
lane   == case.lane

(* The artefact that is scored: the message, else a product card.          *)
Input(b) ==
  CASE b.text = "over" -> "oversize"
    [] b.text = "blank" /\ ~ b.card -> "missing"
    [] OTHER -> "ok"

EvidenceOf(b) ==
  [projects |-> b.projects, input |-> Input(b), bound |-> b.projects /\ b.bound,
   raising |-> b.raising, invalid |-> b.invalid, failing |-> b.failing]

ev == EvidenceOf(bundle)

Order(e) == IF ShortCircuit(e) THEN <<"A", "I", "H">>
            ELSE <<"A", "B", "C", "D", "E", "F", "G", "I", "H">>

Passing(rows, m) == [id |-> m, ok |-> TRUE] \in rows

NoRun == [enabled |-> FALSE, attempted |-> FALSE, available |-> FALSE,
          invoked |-> FALSE, scored |-> 0, ran |-> FALSE, isolated |-> "unset"]

Init ==
  /\ case \in Cases
  /\ todo = <<>> /\ stage = "project"
  /\ scores = {} /\ errors = {}
  /\ cprime = <<>> /\ answers = [i \in 1..Len(lane.metrics) |-> <<>>]
  /\ run = NoRun /\ cohort = None /\ gates = None
-----------------------------------------------------------------------------
(* A bundle that is not projected is scored as one with nothing in it.     *)
Project ==
  /\ stage = "project"
  /\ errors' = IF bundle.projects THEN {} ELSE {"context"}
  /\ todo' = Order(ev)
  /\ stage' = "families"
  /\ UNCHANGED <<case, scores, cprime, answers, run, cohort, gates>>

Ok(m) ==
  CASE m = "evaluator_error_free" -> errors = {}
    [] m = "eval_input_nonempty"  -> ~ Missing(ev)
    [] OTHER -> m \notin ev.failing

RowsOf(family) == {[id |-> m, ok |-> Ok(m)] : m \in MetricsOf({family})}

RunFamily ==
  /\ stage = "families" /\ todo # <<>> /\ Head(todo) # "I"
  /\ IF Head(todo) \in ev.raising
     THEN errors' = errors \cup {Head(todo)} /\ UNCHANGED scores
     ELSE scores' = scores \cup RowsOf(Head(todo)) /\ UNCHANGED errors
  /\ todo' = Tail(todo)
  /\ UNCHANGED <<case, stage, cprime, answers, run, cohort, gates>>

(* Family I answers for every one of its metrics: what it cannot say, or   *)
(* says in a row that is not valid, is a no.                               *)
RunFamilyI ==
  /\ stage = "families" /\ todo # <<>> /\ Head(todo) = "I"
  /\ LET broken == IF "I" \in ev.raising THEN S2C ELSE S2C \cap ev.invalid IN
     /\ scores' = scores \cup
          {[id |-> m, ok |-> m \notin broken /\ Ok(m)] : m \in S2C}
     /\ errors' = IF broken = {} THEN errors ELSE errors \cup {"I"}
  /\ todo' = Tail(todo)
  /\ UNCHANGED <<case, stage, cprime, answers, run, cohort, gates>>

(* An error that was recorded turns the row about errors.                  *)
Rewrite(rows, errs) ==
  IF errs = {} THEN rows
  ELSE {r \in rows : r.id # "evaluator_error_free"}
       \cup {[r EXCEPT !.ok = FALSE] : r \in {q \in rows : q.id = "evaluator_error_free"}}

(* The row on the input is there whatever became of family H; rows whose   *)
(* envelope is not valid are dropped.                                      *)
Envelope ==
  /\ stage = "families" /\ todo = <<>>
  /\ LET have  == {r.id : r \in scores}
         full  == IF "eval_input_nonempty" \in have THEN scores
                  ELSE scores \cup {[id |-> "eval_input_nonempty", ok |-> ~ Missing(ev)]}
         kept  == {r \in full : r.id \in S2C \/ r.id \notin ev.invalid \/ r.id \notin have}
         errs  == IF kept = full THEN errors ELSE errors \cup {"envelope"} IN
     /\ errors' = errs
     /\ scores' = Rewrite(kept, errs)
  /\ stage' = "lane"
  /\ UNCHANGED <<case, todo, cprime, answers, run, cohort, gates>>
-----------------------------------------------------------------------------
(* What the judge is told of the deterministic rows: the required block    *)
(* the caller gave, without the topology it may also require.              *)
Provisional == \A m \in policy.block \ Advisory : Passing(scores, m)

Offline ==
  /\ stage = "lane" /\ ~ lane.enabled
  /\ stage' = "honesty"
  /\ UNCHANGED <<case, todo, scores, errors, cprime, answers, run, cohort, gates>>

Row(m, code, invoked, packed) ==
  [metric |-> m, code |-> code, invoked |-> invoked, packed |-> packed]

(* A row about a metric the catalog does not know raises out of            *)
(* run_lane_c: the rows so far are lost and nothing was, on paper, asked.  *)
LaneRaises ==
  /\ errors' = errors \cup {"lane_c"}
  /\ cprime' = <<>> /\ cohort' = None
  /\ run' = [NoRun EXCEPT !.enabled = TRUE, !.attempted = TRUE]
  /\ stage' = "honesty"
  /\ UNCHANGED <<case, todo, scores, answers, gates>>

Cohort == [eligible   |-> Eligible(lane, Provisional),
           diagnostic |-> DiagnosticOnly(lane, Provisional)]

OpenRun == [NoRun EXCEPT !.enabled = TRUE, !.attempted = TRUE,
                         !.available = Available(lane, Provisional)]

(* What the run says of the projection, once it came to one.               *)
Isolation ==
  IF Available(lane, Provisional) /\ Provisional /\ ~ UniverseRefused(lane)
     /\ Projection(bundle, lane) # "absent"
  THEN IF Isolated(Projection(bundle, lane)) THEN "yes" ELSE "no"
  ELSE "unset"

NothingAsked ==
  /\ stage = "lane" /\ lane.enabled /\ lane.metrics = <<>>
  /\ run' = OpenRun /\ cohort' = Cohort
  /\ stage' = "honesty"
  /\ UNCHANGED <<case, todo, scores, errors, cprime, answers, gates>>

Refuse ==
  /\ stage = "lane" /\ lane.enabled /\ lane.metrics # <<>>
  /\ LET code == Refusal(bundle, lane, Provisional) IN
     /\ code # "none"
     /\ IF "unknown" \in ToSet(lane.metrics) THEN LaneRaises
        ELSE /\ cprime' = [i \in 1..Len(lane.metrics) |->
                             Row(lane.metrics[i], code, FALSE, FALSE)]
             /\ run' = [OpenRun EXCEPT !.isolated = Isolation]
             /\ cohort' = Cohort
             /\ stage' = "honesty"
             /\ UNCHANGED <<case, todo, scores, errors, answers, gates>>

Admit ==
  /\ stage = "lane" /\ lane.enabled /\ lane.metrics # <<>>
  /\ Refusal(bundle, lane, Provisional) = "none"
  /\ run' = [OpenRun EXCEPT !.isolated = Isolation]
  /\ cohort' = Cohort
  /\ stage' = "judge"
  /\ UNCHANGED <<case, todo, scores, errors, cprime, answers, gates>>
-----------------------------------------------------------------------------
(* One metric at a time; the row comes after at most one retry.            *)
Current == lane.metrics[Len(cprime) + 1]

InJudge == stage = "judge" /\ Len(cprime) < Len(lane.metrics)

Emit(row) ==
  /\ cprime' = Append(cprime, row)
  /\ UNCHANGED <<case, todo, stage, scores, errors, run, cohort, gates>>

PackRefused ==
  /\ InJudge /\ ~ PackResolves(lane, Current)
  /\ IF Current = "unknown" THEN LaneRaises
     ELSE Emit(Row(Current, PackCode(lane, Current), FALSE, FALSE))
          /\ UNCHANGED answers

NotInvoked ==
  /\ InJudge /\ PackResolves(lane, Current)
  /\ \/ /\ ~ CanInvoke(bundle, lane)
        /\ Emit(Row(Current, "judge_not_invoked", FALSE, TRUE))
     \/ /\ CanInvoke(bundle, lane) /\ HostGuard(bundle)
        /\ Emit(Row(Current, "oversize_input", FALSE, TRUE))
  /\ UNCHANGED answers

AskJudge ==
  /\ InJudge /\ PackResolves(lane, Current)
  /\ CanInvoke(bundle, lane) /\ ~ HostGuard(bundle)
  /\ \E a \in Answers :
       LET calls == Append(answers[Len(cprime) + 1], a) IN
       /\ answers' = [answers EXCEPT ![Len(cprime) + 1] = calls]
       /\ IF a \in Retryable /\ Len(calls) <= MaxRetries
          THEN UNCHANGED <<case, todo, stage, scores, errors, cprime, run, cohort, gates>>
          ELSE Emit(Row(Current, a, TRUE, TRUE))

ScoredAny(rows) == Cardinality({i \in DOMAIN rows : rows[i].invoked})   \* every call counts

Scored(rows) == Cardinality({i \in DOMAIN rows : rows[i].code = "scored"})

CloseLane ==
  /\ stage = "judge" /\ Len(cprime) = Len(lane.metrics)
  /\ run' = [run EXCEPT !.invoked = \E i \in DOMAIN cprime : cprime[i].invoked,
                        !.scored  = Scored(cprime),
                        !.ran     = Scored(cprime) > 0]
  /\ stage' = "honesty"
  /\ UNCHANGED <<case, todo, scores, errors, cprime, answers, cohort, gates>>
-----------------------------------------------------------------------------
(* The rows about the judge: a no each where it was not enabled.  A run    *)
(* that says nothing of the projection passes on the rows it left.         *)
PackKnown == \E i \in DOMAIN cprime : cprime[i].packed

IsolationHeld ==
  \/ run.isolated = "yes"
  \/ run.isolated = "unset" /\ cprime # <<>>

HonestyOk ==
  [judge_input_isolated    |-> run.enabled /\ IsolationHeld,
   prompt_pack_pinned      |-> run.enabled /\ PackKnown /\ ~ UniverseRefused(lane),
   prompt_pack_hash_known  |-> run.enabled /\ PackKnown,
   prompt_pack_suite_fresh |-> run.enabled /\ PackKnown /\ bundle.pinned]

Honesty ==
  /\ stage = "honesty"
  /\ scores' = Rewrite(scores \cup {[id |-> m, ok |-> HonestyOk[m]] : m \in HonestyIds},
                       errors)
  /\ stage' = "gates"
  /\ UNCHANGED <<case, todo, errors, cprime, answers, run, cohort, gates>>

(* Two rows of one metric are an error of their own: no gate is composed.  *)
Twice == \E i, j \in DOMAIN cprime : i < j /\ cprime[i].metric = cprime[j].metric

CohortGate ==
  IF cohort = None
  THEN [eligible |-> FALSE, available |-> FALSE, invoked |-> FALSE,
        scored |-> 0, ran |-> FALSE, deferred |-> TRUE]
  ELSE [eligible |-> cohort.eligible, available |-> run.available,
        invoked |-> run.invoked, scored |-> run.scored, ran |-> run.ran,
        deferred |-> FALSE]

ComposedEarly ==   \* the verdict the judge was told is taken for the last
  LET det == Provisional IN
  [deterministic |-> det,
   golden |-> det /\ Passing(scores, "gold_report_ok")
              /\ Passing(scores, "skeleton_fallback_final") /\ ev.bound,
   cohort |-> CohortGate]

Composed ==
  LET block  == policy.block \cup (IF policy.topology THEN S2C ELSE {})
      det    == \A m \in block \ Advisory : Passing(scores, m)
      golden == /\ det
                /\ Passing(scores, "gold_report_ok")
                /\ Passing(scores, "skeleton_fallback_final")
                /\ ev.bound
                /\ policy.topology => \A m \in S2C : Passing(scores, m)
  IN [deterministic |-> det, golden |-> golden, cohort |-> CohortGate]

ComposeGates ==
  /\ stage = "gates"
  /\ IF Twice THEN errors' = errors \cup {"gates"} /\ UNCHANGED gates
     ELSE gates' = Composed /\ UNCHANGED errors
  /\ stage' = "done"
  /\ UNCHANGED <<case, todo, scores, cprime, answers, run, cohort>>
-----------------------------------------------------------------------------
Next ==
  \/ Project \/ RunFamily \/ RunFamilyI \/ Envelope
  \/ Offline \/ NothingAsked \/ Refuse \/ Admit
  \/ PackRefused \/ NotInvoked \/ AskJudge \/ CloseLane
  \/ Honesty \/ ComposeGates

Spec == Init /\ [][Next]_vars
-----------------------------------------------------------------------------
Stages == {"project", "families", "lane", "judge", "honesty", "gates", "done"}

TypeOK ==
  /\ case \in Cases /\ stage \in Stages
  /\ todo \in Seq(Families)
  /\ scores \subseteq [id : Metrics \cup HonestyIds, ok : BOOLEAN]
  /\ errors \subseteq Families \cup {"context", "envelope", "lane_c", "gates"}
  /\ cprime \in Seq([metric : Judged, code : ExecutionCodes,
                     invoked : BOOLEAN, packed : BOOLEAN])
  /\ answers \in [1..Len(lane.metrics) -> Seq(Answers)]
  /\ run \in [enabled : BOOLEAN, attempted : BOOLEAN, available : BOOLEAN,
              invoked : BOOLEAN, scored : 0..Len(lane.metrics), ran : BOOLEAN,
              isolated : Flag]
  /\ cohort = None \/ cohort \in [eligible : BOOLEAN, diagnostic : BOOLEAN]

Done == stage = "done" /\ gates # None

(* The judge moves no gate but its own: whatever it answers, wherever its  *)
(* lane stops, the deterministic gate and the promotion gate are those of  *)
(* the offline scoring of the same bundle; an exception of the lane itself *)
(* costs the gates that require an evaluation free of errors.              *)
JudgeMovesNoGate ==
  Done =>
    LET spared == "lane_c" \in errors => "evaluator_error_free" \notin Required(policy) IN
    /\ gates.deterministic = (DeterministicPass(policy, ev) /\ spared)
    /\ gates.golden = (GoldenPromotionEligible(policy, ev) /\ spared)

(* The counters on the cohort gate are those of the calls made: invoked    *)
(* says a call was made, scored_count how many metrics got a mark, each of *)
(* them by its last call, and no metric was asked more than twice or asked *)
(* again after its mark.                                                   *)
CountersTellTheCalls ==
  Done /\ "lane_c" \notin errors /\ cohort # None =>
    LET asked  == {i \in DOMAIN answers : answers[i] # <<>>}
        marked == {i \in asked : Last(answers[i]) = "scored"} IN
    /\ gates.cohort.invoked = (asked # {})
    /\ gates.cohort.scored = Cardinality(marked)
    /\ gates.cohort.ran = (marked # {})
    /\ \A i \in asked : /\ Len(answers[i]) <= 2
                        /\ "scored" \notin ToSet(Front(answers[i]))
                        /\ cprime[i].code = Last(answers[i])

=============================================================================
