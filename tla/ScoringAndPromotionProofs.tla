--------------------- MODULE ScoringAndPromotionProofs ---------------------
(***************************************************************************)
(* Proofs about the road of a captured bundle to a promoted artifact.      *)
(*                                                                         *)
(* Its scoring (BundleScoring), for any policy, any bundle, any            *)
(* configuration of the judge and whatever it answers: the judge moves no  *)
(* gate but its own, and the counters on that gate are those of its calls. *)
(*                                                                         *)
(* Its review and promotion (ReviewQueue, Promotion), for any number of    *)
(* reviewers and promoters: a review is handed out once, no artifact lacks *)
(* its decision or its approval, and a split group stays in one            *)
(* destination while promotions run one at a time.                         *)
(***************************************************************************)
EXTENDS BundleScoring, Promotion, FiniteSetTheorems, SequenceTheorems, TLAPS

(* What a row says, given whether no evaluator fell over.                  *)
RowOk(e, clean, m) ==
  /\ m = "evaluator_error_free" => clean
  /\ m = "eval_input_nonempty" => ~ Missing(e)
  /\ m \notin {"evaluator_error_free", "eval_input_nonempty"} => m \notin e.failing
  /\ m \in S2C => "I" \notin e.raising /\ m \notin e.invalid

RowAs(e, clean, m)     == [id |-> m, ok |-> RowOk(e, clean, m)]
ScoredAs(e, clean, ms) == {RowAs(e, clean, m) : m \in ms}

(* The families that ran when the k-th comes next, and what they leave.    *)
Ran(e, k)    == {Order(e)[i] : i \in 1..(k - 1)}
Answered(e, fs) == MetricsOf(fs \ (e.raising \ {"I"}))
Trouble(e, fs)  == \E f \in fs : f \in e.raising \/ (f = "I" /\ S2C \cap e.invalid # {})

FamiliesAt(k) ==
  /\ todo = SubSeq(Order(ev), k, Len(Order(ev)))
  /\ scores = ScoredAs(ev, errors = {}, Answered(ev, Ran(ev, k)))
  /\ errors = {} <=> ev.projects /\ ~ Trouble(ev, Ran(ev, k))
  /\ "lane_c" \notin errors

Eef == "evaluator_error_free"

ScoresInv ==
  /\ stage = "project" => scores = {} /\ errors = {}
  /\ stage = "families" => \E k \in 1..(Len(Order(ev)) + 1) : FamiliesAt(k)
  /\ stage \in {"lane", "judge"} => "lane_c" \notin errors
  /\ stage \in {"lane", "judge", "honesty"} =>
       /\ scores = ScoredAs(ev, ~ EvaluatorErrors(ev), Rows(ev))
       /\ "lane_c" \notin errors => (errors = {} <=> ~ EvaluatorErrors(ev))
  /\ stage = "gates" =>
       \A m \in Metrics :
         Passing(scores, m) <=> Passes(ev, m) /\ ("lane_c" \in errors => m # Eef)

GatesInv ==
  /\ stage # "done" => gates = None
  /\ stage = "done" /\ gates # None => gates.cohort = CohortGate
  /\ JudgeMovesNoGate

(* What a row of the judge says of the calls that were made for it.        *)
Asked == 1..Len(lane.metrics)

Tells(row, calls) ==
  /\ row.invoked = (calls # <<>>)
  /\ calls # <<>> => /\ Len(calls) <= 2
                     /\ "scored" \notin ToSet(Front(calls))
                     /\ row.code = Last(calls)
  /\ calls = <<>> => row.code # "scored"

Pending(calls) == calls = <<>> \/ \E a \in Retryable : calls = <<a>>

Askable(i) ==
  PackResolves(lane, lane.metrics[i]) /\ CanInvoke(bundle, lane) /\ ~ HostGuard(bundle)

CallsInv ==
  /\ stage \in {"project", "families", "lane"} =>
       /\ cprime = <<>> /\ cohort = None
       /\ \A i \in Asked : answers[i] = <<>>
  /\ stage = "judge" =>
       /\ Len(cprime) <= Len(lane.metrics)
       /\ \A i \in 1..Len(cprime) : Tells(cprime[i], answers[i])
       /\ \A i \in Asked : i = Len(cprime) + 1 => Pending(answers[i])
       /\ \A i \in Asked : i = Len(cprime) + 1 => answers[i] = <<>> \/ Askable(i)
       /\ \A i \in Asked : i > Len(cprime) + 1 => answers[i] = <<>>
  /\ stage \in {"honesty", "gates", "done"} /\ cohort # None /\ "lane_c" \notin errors =>
       /\ Len(cprime) = Len(lane.metrics)
       /\ \A i \in Asked : Tells(cprime[i], answers[i])
       /\ run.invoked = (\E i \in DOMAIN cprime : cprime[i].invoked)
       /\ run.scored = Scored(cprime)
       /\ run.ran = (Scored(cprime) > 0)

Inv == TypeOK /\ ScoresInv /\ GatesInv /\ CallsInv
-----------------------------------------------------------------------------
LEMMA CaseTyped ==
  ASSUME case \in Cases
  PROVE  /\ policy \in Policy /\ bundle \in Bundle /\ lane \in Lanes
         /\ ev \in Evidence
<1>1. policy \in Policy /\ bundle \in Bundle /\ lane \in Lanes
  BY CasesAssumption DEF policy, bundle, lane
<1>2. ev \in Evidence
  BY <1>1 DEF ev, EvidenceOf, Input, Bundle, Evidence
<1> QED BY <1>1, <1>2

(* The order of the families: each once, all that run, H at the end.       *)
LEMMA OrderIs ==
  ASSUME NEW e
  PROVE  /\ Order(e) \in Seq(Families)
         /\ Len(Order(e)) \in Nat \ {0}
         /\ Order(e)[Len(Order(e))] = "H"
         /\ \A i, j \in 1..Len(Order(e)) : Order(e)[i] = Order(e)[j] => i = j
         /\ Ran(e, Len(Order(e)) + 1) = FamiliesRun(e)
<1>1. CASE ShortCircuit(e)
  <2>1. Order(e) = <<"A", "I", "H">> /\ FamiliesRun(e) = {"A", "H", "I"}
    BY <1>1 DEF Order, FamiliesRun
  <2> QED BY <2>1 DEF Families, Ran
<1>2. CASE ~ ShortCircuit(e)
  <2>1. Order(e) = <<"A", "B", "C", "D", "E", "F", "G", "I", "H">> /\ FamiliesRun(e) = Families
    BY <1>2 DEF Order, FamiliesRun
  <2>2. Len(Order(e)) = 9 /\ Order(e) \in Seq(Families)
    BY <2>1 DEF Families
  <2>3. \A i, j \in 1..9 : Order(e)[i] = Order(e)[j] => i = j
    BY <2>1
  <2>4. Ran(e, 10) = Families
    <3>1. Ran(e, 10) = {Order(e)[i] : i \in 1..9}
      BY DEF Ran
    <3>2. {Order(e)[i] : i \in 1..9} = Families
      BY <2>1 DEF Families
    <3> QED BY <3>1, <3>2
  <2> QED BY <2>1, <2>2, <2>3, <2>4
<1> QED BY <1>1, <1>2

LEMMA PassingIs ==
  ASSUME NEW e, NEW clean \in BOOLEAN, NEW ms, NEW m
  PROVE  Passing(ScoredAs(e, clean, ms), m) <=> m \in ms /\ RowOk(e, clean, m)
BY DEF Passing, ScoredAs, RowAs

LEMMA RowAsIs ==
  ASSUME NEW e, NEW clean, NEW m
  PROVE  /\ RowAs(e, clean, m).id = m
         /\ RowAs(e, clean, m).ok = RowOk(e, clean, m)
         /\ [RowAs(e, clean, m) EXCEPT !.ok = FALSE] = [id |-> m, ok |-> FALSE]
         /\ RowAs(e, clean, m) \in [id : {m}, ok : BOOLEAN]
<1> DEFINE b == RowOk(e, clean, m)
<1>1. b \in BOOLEAN /\ RowAs(e, clean, m) = [id |-> m, ok |-> b]
  BY DEF RowOk, RowAs
<1>2. b = RowOk(e, clean, m)
  OBVIOUS
<1> HIDE DEF b
<1>3. RowAs(e, clean, m).id = m /\ RowAs(e, clean, m).ok = b
  BY <1>1
<1>4. [RowAs(e, clean, m) EXCEPT !.ok = FALSE] = [id |-> m, ok |-> FALSE]
  <2>1. \A r, f : r = [id |-> m, ok |-> b] => [r EXCEPT !.ok = f] = [id |-> m, ok |-> f]
    OBVIOUS
  <2> QED BY <1>1, <2>1, Zenon
<1>5. RowAs(e, clean, m) \in [id : {m}, ok : BOOLEAN]
  BY <1>1
<1> QED BY <1>2, <1>3, <1>4, <1>5, Zenon

LEMMA ScoredUnion ==
  ASSUME NEW e, NEW clean, NEW a, NEW b
  PROVE  ScoredAs(e, clean, a \cup b) = ScoredAs(e, clean, a) \cup ScoredAs(e, clean, b)
BY DEF ScoredAs

LEMMA RowsPass ==
  ASSUME NEW e \in Evidence, NEW m \in Metrics
  PROVE  Passes(e, m) <=> m \in Rows(e) /\ RowOk(e, ~ EvaluatorErrors(e), m)
<1>1. S2C = {"lifecycle_complete", "required_spans_present"}
  BY DEF S2C, MetricsOf, Metrics, FamilyOf
<1> QED BY <1>1 DEF Passes, RowOk
-----------------------------------------------------------------------------
(* Types.                                                                  *)
CRow   == [metric : Judged, code : ExecutionCodes, invoked : BOOLEAN, packed : BOOLEAN]
RunRow == [enabled : BOOLEAN, attempted : BOOLEAN, available : BOOLEAN,
           invoked : BOOLEAN, scored : 0..Len(lane.metrics), ran : BOOLEAN, isolated : Flag]

LEMMA CodesAre ==
  {"cohort_ineligible", "pack_unresolvable", "pack_decode_error", "unavailable_creds", "timeout",
   "transport_error", "lab_override_diagnostic", "oversize_input", "parse_error", "scored",
   "judge_not_invoked"} \subseteq ExecutionCodes
<1>1. ExecutionOf.det_fail_excluded \cup ExecutionOf.prompt_pack_missing
        \cup ExecutionOf.judge_unavailable \cup ExecutionOf.lab_override_diagnostic
        \subseteq ExecutionCodes
  BY DEF ExecutionOf, ExecutionCodes
<1>2. /\ ExecutionOf.det_fail_excluded = {"cohort_ineligible"}
      /\ ExecutionOf.prompt_pack_missing = {"pack_unresolvable", "pack_decode_error"}
      /\ ExecutionOf.judge_unavailable = {"unavailable_creds", "client_unconstructible",
                                          "timeout", "transport_error"}
      /\ ExecutionOf.lab_override_diagnostic = {"lab_override_diagnostic"}
  BY DEF ExecutionOf
<1>3. {"oversize_input", "parse_error", "scored", "judge_not_invoked"} \subseteq ExecutionCodes
  BY DEF ExecutionCodes
<1> QED BY <1>1, <1>2, <1>3

LEMMA LaneTyped ==
  ASSUME case \in Cases
  PROVE  /\ lane.metrics \in Seq(Judged \cup {"unknown"})
         /\ Len(lane.metrics) \in Nat
         /\ lane.enabled \in BOOLEAN /\ lane.key \in BOOLEAN /\ lane.judge \in BOOLEAN
BY CaseTyped DEF Lanes

LEMMA CodesTyped ==
  ASSUME case \in Cases
  PROVE  /\ Refusal(bundle, lane, Provisional) \in ExecutionCodes \cup {"none"}
         /\ Refusal(bundle, lane, Provisional) # "scored"
         /\ \A m : PackCode(lane, m) \in ExecutionCodes /\ PackCode(lane, m) # "scored"
<1>1. Projection(bundle, lane) \in {"absent", "ok", "parse_error", "oversize_input"}
  BY DEF Projection
<1>2. Refusal(bundle, lane, Provisional) \in ExecutionCodes \cup {"none"}
  BY <1>1, CodesAre DEF Refusal
<1>3. Refusal(bundle, lane, Provisional) # "scored"
  BY <1>1 DEF Refusal
<1> QED BY <1>2, <1>3, CodesAre DEF PackCode

LEMMA Same ==
  ASSUME UNCHANGED case
  PROVE  ev' = ev /\ lane' = lane /\ policy' = policy /\ bundle' = bundle
BY DEF ev, lane, policy, bundle

LEMMA RunsTyped ==
  ASSUME case \in Cases
  PROVE  NoRun \in RunRow /\ OpenRun \in RunRow
         /\ [NoRun EXCEPT !.enabled = TRUE, !.attempted = TRUE] \in RunRow
         /\ \A r \in RunRow : [r EXCEPT !.isolated = Isolation] \in RunRow
<1>1. NoRun \in RunRow
  BY LaneTyped DEF NoRun, RunRow, Flag
<1>2. [NoRun EXCEPT !.enabled = TRUE, !.attempted = TRUE] \in RunRow
  BY <1>1, Zenon DEF RunRow
<1>3. Available(lane, Provisional) \in BOOLEAN
  BY DEF Available
<1>4. OpenRun \in RunRow
  <2> DEFINE r == [NoRun EXCEPT !.enabled = TRUE, !.attempted = TRUE]
  <2>1. OpenRun = [r EXCEPT !.available = Available(lane, Provisional)]
    BY DEF OpenRun
  <2>2. r \in RunRow
    BY <1>2
  <2> HIDE DEF r
  <2> QED BY <1>3, <2>1, <2>2 DEF RunRow
<1>5. Isolation \in Flag
  BY DEF Isolation, Flag
<1>6. ASSUME NEW r \in RunRow PROVE [r EXCEPT !.isolated = Isolation] \in RunRow
  BY <1>5, <1>6 DEF RunRow
<1> QED BY <1>1, <1>2, <1>4, <1>6

LEMMA ScoredTyped ==
  ASSUME NEW n \in Nat, NEW s \in Seq(CRow), Len(s) <= n
  PROVE  Scored(s) \in 0..n
<1> DEFINE hits == {i \in DOMAIN s : s[i].code = "scored"}
<1>1. IsFiniteSet(1..n) /\ Cardinality(1..n) = n
  BY FS_Interval
<1>2. hits \subseteq 1..n
  OBVIOUS
<1>3. Cardinality(hits) <= n /\ IsFiniteSet(hits)
  BY <1>1, <1>2, FS_Subset
<1>4. Cardinality(hits) \in Nat
  BY <1>3, FS_CardinalityType
<1> QED BY <1>3, <1>4 DEF Scored

LEMMA TypeInit == Init => TypeOK
<1> SUFFICES ASSUME Init PROVE TypeOK
  OBVIOUS
<1>1. answers \in [1..Len(lane.metrics) -> Seq(Answers)]
  BY DEF Init
<1>2. run \in RunRow
  BY RunsTyped DEF Init
<1> QED BY <1>1, <1>2 DEF Init, TypeOK, RunRow, Stages

LEMMA FunctionIsSeq ==
  ASSUME NEW S, NEW n \in Nat, NEW f \in [1..n -> S]
  PROVE  f \in Seq(S) /\ Len(f) = n
OBVIOUS

LEMMA HeadOfFamilies ==
  ASSUME todo \in Seq(Families), todo # <<>>
  PROVE  Head(todo) \in Families /\ Tail(todo) \in Seq(Families)
BY HeadTailProperties

(* The lane ended by an exception.                                         *)
LEMMA RaiseTyped ==
  ASSUME TypeOK, LaneRaises PROVE TypeOK'
<1>1. run' \in RunRow /\ lane' = lane
  BY RunsTyped, Same DEF TypeOK, LaneRaises
<1>2. errors' \subseteq Families \cup {"context", "envelope", "lane_c", "gates"}
  BY DEF TypeOK, LaneRaises
<1>3. cprime' \in Seq(CRow)
  BY DEF LaneRaises
<1> QED BY <1>1, <1>2, <1>3 DEF TypeOK, LaneRaises, RunRow, CRow, Stages

(* A row of the judge is appended.                                         *)
LEMMA EmitTyped ==
  ASSUME TypeOK, NEW row \in CRow, Emit(row), answers' \in [Asked -> Seq(Answers)]
  PROVE  TypeOK'
<1>1. lane' = lane
  BY Same DEF Emit
<1>2. cprime' \in Seq(CRow)
  BY DEF TypeOK, Emit, CRow
<1> QED BY <1>1, <1>2 DEF TypeOK, Emit, CRow, Asked

LEMMA RowTyped ==
  ASSUME NEW m \in Judged, NEW code \in ExecutionCodes, NEW invoked \in BOOLEAN,
         NEW packed \in BOOLEAN
  PROVE  Row(m, code, invoked, packed) \in CRow
BY DEF Row, CRow

LEMMA CurrentTyped ==
  ASSUME TypeOK, InJudge
  PROVE  /\ Current \in Judged \cup {"unknown"}
         /\ Len(cprime) \in Nat /\ Len(cprime) + 1 \in Asked
BY LaneTyped, ElementOfSeq DEF TypeOK, InJudge, Current, Asked

LEMMA HonestyTyped == \A m \in HonestyIds : HonestyOk[m] \in BOOLEAN
<1>1. HonestyOk.judge_input_isolated \in BOOLEAN
  BY DEF HonestyOk
<1>2. HonestyOk.prompt_pack_pinned \in BOOLEAN
  BY DEF HonestyOk
<1>3. HonestyOk.prompt_pack_hash_known \in BOOLEAN
  BY DEF HonestyOk
<1>4. HonestyOk.prompt_pack_suite_fresh \in BOOLEAN
  BY DEF HonestyOk
<1> QED BY <1>1, <1>2, <1>3, <1>4 DEF HonestyIds

LEMMA ScoringTypeStep ==
  ASSUME TypeOK, [Next]_vars PROVE TypeOK'
<1>1. CASE Project
  <2>1. Order(ev) \in Seq(Families)
    BY OrderIs
  <2>2. lane' = lane
    BY <1>1, Same DEF Project
  <2> QED BY <1>1, <2>1, <2>2 DEF Project, TypeOK, Stages
<1>2. CASE RunFamily
  <2>1. lane' = lane /\ Head(todo) \in Families /\ Tail(todo) \in Seq(Families)
    BY <1>2, Same, HeadOfFamilies DEF RunFamily, TypeOK
  <2>2. \A m \in Metrics : Ok(m) \in BOOLEAN
    BY DEF Ok
  <2>3. RowsOf(Head(todo)) \subseteq [id : Metrics \cup HonestyIds, ok : BOOLEAN]
    BY <2>2 DEF RowsOf, MetricsOf
  <2>4. scores' \subseteq [id : Metrics \cup HonestyIds, ok : BOOLEAN]
    BY <1>2, <2>3 DEF RunFamily, TypeOK
  <2>5. errors' \subseteq Families \cup {"context", "envelope", "lane_c", "gates"}
    BY <1>2, <2>1 DEF RunFamily, TypeOK
  <2> QED BY <1>2, <2>1, <2>4, <2>5 DEF RunFamily, TypeOK
<1>3. CASE RunFamilyI
  <2>1. lane' = lane /\ Tail(todo) \in Seq(Families)
    BY <1>3, Same, HeadOfFamilies DEF RunFamilyI, TypeOK
  <2> DEFINE broken == IF "I" \in ev.raising THEN S2C ELSE S2C \cap ev.invalid
             rows   == {[id |-> m, ok |-> m \notin broken /\ Ok(m)] : m \in S2C}
  <2>2. scores' = scores \cup rows
    BY <1>3 DEF RunFamilyI
  <2>3. S2C \subseteq Metrics
    BY DEF S2C, MetricsOf
  <2>4. ASSUME NEW r \in rows PROVE r \in [id : Metrics \cup HonestyIds, ok : BOOLEAN]
    <3>1. PICK m \in S2C : r = [id |-> m, ok |-> m \notin broken /\ Ok(m)]
      OBVIOUS
    <3> DEFINE b == m \notin broken /\ Ok(m)
    <3>2. b \in BOOLEAN /\ r = [id |-> m, ok |-> b]
      BY <3>1
    <3> HIDE DEF b, broken
    <3> QED BY <2>3, <3>2
  <2> HIDE DEF rows
  <2>6. scores' \subseteq [id : Metrics \cup HonestyIds, ok : BOOLEAN]
    BY <2>2, <2>4 DEF TypeOK
  <2>5. errors' \subseteq Families \cup {"context", "envelope", "lane_c", "gates"}
    BY <1>3 DEF RunFamilyI, TypeOK, Families
  <2> QED BY <1>3, <2>1, <2>5, <2>6 DEF RunFamilyI, TypeOK
<1>4. CASE Envelope
  <2>1. PICK kept, errs :
          /\ kept \subseteq scores \cup {[id |-> "eval_input_nonempty", ok |-> ~ Missing(ev)]}
          /\ errs \subseteq errors \cup {"envelope"}
          /\ errors' = errs /\ scores' = Rewrite(kept, errs)
    BY <1>4 DEF Envelope
  <2> DEFINE row == [id |-> "eval_input_nonempty", ok |-> ~ Missing(ev)]
  <2>4. row \in [id : Metrics \cup HonestyIds, ok : BOOLEAN]
    BY DEF Metrics, FamilyOf
  <2> HIDE DEF row
  <2>2. kept \subseteq [id : Metrics \cup HonestyIds, ok : BOOLEAN]
    BY <2>1, <2>4 DEF TypeOK, row
  <2>3. Rewrite(kept, errs) \subseteq [id : Metrics \cup HonestyIds, ok : BOOLEAN]
    BY <2>2 DEF Rewrite
  <2> QED BY <1>4, <2>1, <2>3, Same DEF Envelope, TypeOK, Stages
<1>5. CASE Offline
  BY <1>5, Same DEF Offline, TypeOK, Stages
<1>6. CASE NothingAsked
  <2>1. OpenRun \in RunRow /\ lane' = lane
    BY <1>6, RunsTyped, Same DEF NothingAsked, TypeOK
  <2>2. Cohort \in [eligible : BOOLEAN, diagnostic : BOOLEAN]
    BY DEF Cohort, Eligible, DiagnosticOnly
  <2> QED BY <1>6, <2>1, <2>2 DEF NothingAsked, TypeOK, Stages, RunRow
<1>7. CASE Refuse
  <2>1. CASE LaneRaises
    BY <2>1, RaiseTyped
  <2>2. CASE ~ LaneRaises
    <3>1. PICK code \in ExecutionCodes :
            cprime' = [i \in 1..Len(lane.metrics) |-> Row(lane.metrics[i], code, FALSE, FALSE)]
      BY <1>7, <2>2, CodesTyped DEF Refuse, TypeOK
    <3> DEFINE n == Len(lane.metrics)
    <3>6. n \in Nat /\ lane.metrics \in [1..n -> Judged \cup {"unknown"}] /\ DOMAIN lane.metrics = 1..n
      BY LaneTyped DEF TypeOK
    <3>7. "unknown" \notin ToSet(lane.metrics)
      BY <1>7, <2>2 DEF Refuse
    <3>2. \A i \in 1..n : lane.metrics[i] \in Judged
      BY <3>6, <3>7 DEF ToSet
    <3>8. \A i \in 1..n : Row(lane.metrics[i], code, FALSE, FALSE) \in CRow
      BY <3>2, RowTyped
    <3> HIDE DEF n
    <3>9. cprime' \in [1..n -> CRow]
      BY <3>1, <3>8 DEF n
    <3>3. cprime' \in Seq(CRow)
      BY <3>6, <3>9, FunctionIsSeq
    <3>4. run' \in RunRow /\ lane' = lane
      BY <1>7, <2>2, RunsTyped, Same DEF Refuse, TypeOK
    <3>5. Cohort \in [eligible : BOOLEAN, diagnostic : BOOLEAN]
      BY DEF Cohort, Eligible, DiagnosticOnly
    <3> QED BY <1>7, <2>2, <3>3, <3>4, <3>5 DEF Refuse, TypeOK, Stages, RunRow, CRow
  <2> QED BY <2>1, <2>2
<1>8. CASE Admit
  <2>1. run' \in RunRow /\ lane' = lane
    BY <1>8, RunsTyped, Same DEF Admit, TypeOK
  <2>2. Cohort \in [eligible : BOOLEAN, diagnostic : BOOLEAN]
    BY DEF Cohort, Eligible, DiagnosticOnly
  <2> QED BY <1>8, <2>1, <2>2 DEF Admit, TypeOK, Stages, RunRow
<1>9. CASE PackRefused
  <2>1. CASE LaneRaises
    BY <2>1, RaiseTyped
  <2>2. CASE ~ LaneRaises
    <3>1. Current \in Judged /\ Emit(Row(Current, PackCode(lane, Current), FALSE, FALSE))
          /\ UNCHANGED answers
      BY <1>9, <2>2, CurrentTyped DEF PackRefused
    <3>2. Row(Current, PackCode(lane, Current), FALSE, FALSE) \in CRow
      BY <3>1, RowTyped, CodesTyped DEF TypeOK
    <3> QED BY <3>1, <3>2, EmitTyped DEF TypeOK, Asked
  <2> QED BY <2>1, <2>2
<1>10. CASE NotInvoked
  <2>1. Current \in Judged
    BY <1>10 DEF NotInvoked, PackResolves
  <2>2. PICK code \in ExecutionCodes : Emit(Row(Current, code, FALSE, TRUE))
    BY <1>10, CodesAre DEF NotInvoked
  <2>3. Row(Current, code, FALSE, TRUE) \in CRow
    BY <2>1, RowTyped
  <2> QED BY <1>10, <2>2, <2>3, EmitTyped DEF TypeOK, Asked, NotInvoked
<1>11. CASE AskJudge
  <2>1. Current \in Judged /\ Len(cprime) + 1 \in Asked
    BY <1>11, CurrentTyped DEF AskJudge, PackResolves
  <2>2. PICK a \in Answers :
          /\ answers' = [answers EXCEPT ![Len(cprime) + 1] =
                           Append(answers[Len(cprime) + 1], a)]
          /\ \/ UNCHANGED <<case, todo, stage, scores, errors, cprime, run, cohort, gates>>
             \/ Emit(Row(Current, a, TRUE, TRUE))
    BY <1>11 DEF AskJudge
  <2>3. answers' \in [Asked -> Seq(Answers)]
    BY <2>1, <2>2 DEF TypeOK, Asked
  <2>4. CASE Emit(Row(Current, a, TRUE, TRUE))
    <3>1. Row(Current, a, TRUE, TRUE) \in CRow
      BY <2>1, RowTyped, CodesAre DEF Answers
    <3> QED BY <2>3, <2>4, <3>1, EmitTyped
  <2>5. CASE UNCHANGED <<case, todo, stage, scores, errors, cprime, run, cohort, gates>>
    BY <2>3, <2>5, Same DEF TypeOK, Asked
  <2> QED BY <2>2, <2>4, <2>5
<1>12. CASE CloseLane
  <2>1. lane' = lane
    BY <1>12, Same DEF CloseLane
  <2>4. cprime \in Seq(CRow) /\ Len(cprime) = Len(lane.metrics) /\ Len(lane.metrics) \in Nat
    BY <1>12, LaneTyped DEF CloseLane, TypeOK, CRow
  <2>2. Scored(cprime) \in 0..Len(lane.metrics)
    BY <2>4, ScoredTyped
  <2>3. run' \in RunRow
    <3> DEFINE i == \E k \in DOMAIN cprime : cprime[k].invoked
               r == Scored(cprime) > 0
    <3>1. run' = [run EXCEPT !.invoked = i, !.scored = Scored(cprime), !.ran = r]
      BY <1>12 DEF CloseLane
    <3>2. i \in BOOLEAN /\ r \in BOOLEAN
      OBVIOUS
    <3> HIDE DEF i, r
    <3>3. run \in RunRow
      BY DEF TypeOK, RunRow
    <3> QED BY <2>2, <3>1, <3>2, <3>3 DEF RunRow
  <2> QED BY <1>12, <2>1, <2>3 DEF CloseLane, TypeOK, RunRow, Stages
<1>13. CASE Honesty
  <2>1. PICK rows : /\ rows = {[id |-> m, ok |-> HonestyOk[m]] : m \in HonestyIds}
                    /\ scores' = Rewrite(scores \cup rows, errors)
    BY <1>13 DEF Honesty
  <2>2. \A m \in HonestyIds : HonestyOk[m] \in BOOLEAN
    BY HonestyTyped
  <2>3. scores \cup rows \subseteq [id : Metrics \cup HonestyIds, ok : BOOLEAN]
    BY <2>1, <2>2 DEF TypeOK
  <2>4. scores' \subseteq [id : Metrics \cup HonestyIds, ok : BOOLEAN]
    BY <2>1, <2>3 DEF Rewrite
  <2> QED BY <1>13, <2>4, Same DEF Honesty, TypeOK, Stages
<1>14. CASE ComposeGates
  BY <1>14, Same DEF ComposeGates, TypeOK, Stages
<1>15. CASE UNCHANGED vars
  BY <1>15, Same DEF vars, TypeOK
<1> QED BY <1>1, <1>2, <1>3, <1>4, <1>5, <1>6, <1>7, <1>8, <1>9, <1>10, <1>11, <1>12, <1>13,
     <1>14, <1>15 DEF Next

(* What score_bundle keeps of a bundle has its type throughout.            *)
THEOREM ScoringTyped == Spec => []TypeOK
BY TypeInit, ScoringTypeStep, PTL DEF Spec
-----------------------------------------------------------------------------
(* The rows of the families, up to the envelope.                           *)
LEMMA RanNext ==
  ASSUME NEW e, NEW k \in Nat \ {0}
  PROVE  Ran(e, k + 1) = Ran(e, k) \cup {Order(e)[k]}
<1>1. 1..(k + 1 - 1) = 1..(k - 1) \cup {k}
  OBVIOUS
<1> QED BY <1>1 DEF Ran

LEMMA NotYetRan ==
  ASSUME NEW e, NEW k \in 1..Len(Order(e))
  PROVE  Order(e)[k] \notin Ran(e, k) /\ "H" \notin Ran(e, k)
<1>1. Len(Order(e)) \in Nat \ {0} /\ Order(e)[Len(Order(e))] = "H"
      /\ \A i, j \in 1..Len(Order(e)) : Order(e)[i] = Order(e)[j] => i = j
  BY OrderIs
<1>2. \A j \in 1..Len(Order(e)) : j >= k => Order(e)[j] \notin Ran(e, k)
  BY <1>1 DEF Ran
<1> QED BY <1>1, <1>2

LEMMA AnsweredNext ==
  ASSUME NEW e, NEW fs, NEW f
  PROVE  Answered(e, fs \cup {f}) =
           Answered(e, fs) \cup (IF f \in e.raising \ {"I"} THEN {} ELSE MetricsOf({f}))
BY DEF Answered, MetricsOf

LEMMA EefIsLast ==
  ASSUME NEW e, NEW fs, "H" \notin fs
  PROVE  Eef \notin Answered(e, fs)
<1>1. FamilyOf[Eef] = "H"
  BY DEF FamilyOf, Eef
<1> QED BY <1>1 DEF Answered, MetricsOf

LEMMA CleanMatters ==
  ASSUME NEW e, NEW c \in BOOLEAN, NEW d \in BOOLEAN, NEW ms, Eef \notin ms \/ c = d
  PROVE  ScoredAs(e, c, ms) = ScoredAs(e, d, ms)
<1>1. \A m \in ms : RowOk(e, c, m) = RowOk(e, d, m)
  BY DEF RowOk, Eef
<1> QED BY <1>1 DEF ScoredAs, RowAs

LEMMA TroubleNext ==
  ASSUME NEW e, NEW fs, NEW f
  PROVE  Trouble(e, fs \cup {f}) <=>
           Trouble(e, fs) \/ f \in e.raising \/ (f = "I" /\ S2C \cap e.invalid # {})
BY DEF Trouble

LEMMA FamiliesOf ==
  /\ S2C = {"lifecycle_complete", "required_spans_present"}
  /\ MetricsOf({"I"}) = S2C
  /\ MetricsOf({"H"}) = {"evaluator_error_free", "eval_input_nonempty"}
  /\ \A f : f # "I" => MetricsOf({f}) \cap S2C = {}
  /\ \A f : f # "H" => Eef \notin MetricsOf({f})
BY DEF S2C, MetricsOf, Metrics, FamilyOf, Eef

LEMMA OkIs ==
  ASSUME NEW m \in Metrics, m \in S2C => m \notin ev.invalid /\ "I" \notin ev.raising
  PROVE  Ok(m) <=> RowOk(ev, errors = {}, m)
BY DEF Ok, RowOk

LEMMA RowsOfIs ==
  ASSUME NEW f, f # "I"
  PROVE  RowsOf(f) = ScoredAs(ev, errors = {}, MetricsOf({f}))
<1>1. \A m \in MetricsOf({f}) : m \in Metrics /\ m \notin S2C
  BY FamiliesOf DEF MetricsOf
<1>2. \A m \in MetricsOf({f}) : Ok(m) = RowOk(ev, errors = {}, m)
  BY <1>1, OkIs DEF Ok, RowOk
<1> QED BY <1>2 DEF RowsOf, ScoredAs, RowAs

(* The family that comes next, at its place in the order.                  *)
LEMMA NextFamily ==
  ASSUME case \in Cases, NEW k \in 1..(Len(Order(ev)) + 1), FamiliesAt(k), todo # <<>>
  PROVE  /\ k \in 1..Len(Order(ev)) /\ k + 1 \in 1..(Len(Order(ev)) + 1)
         /\ Head(todo) = Order(ev)[k]
         /\ Tail(todo) = SubSeq(Order(ev), k + 1, Len(Order(ev)))
<1>1. Order(ev) \in Seq(Families) /\ Len(Order(ev)) \in Nat
  BY OrderIs
<1>2. k # Len(Order(ev)) + 1
  <2>1. SUFFICES ASSUME k = Len(Order(ev)) + 1 PROVE FALSE
    OBVIOUS
  <2>2. todo = <<>>
    BY <1>1, <2>1, SubSeqEmpty DEF FamiliesAt
  <2> QED BY <2>2
<1>3. k \in 1..Len(Order(ev))
  BY <1>1, <1>2
<1>4. Len(Order(ev)) \in k..Len(Order(ev))
  BY <1>1, <1>3
<1> QED BY <1>1, <1>3, <1>4, HeadTailOfSubSeq DEF FamiliesAt

LEMMA AllRan ==
  ASSUME case \in Cases, NEW k \in 1..(Len(Order(ev)) + 1), FamiliesAt(k), todo = <<>>
  PROVE  Ran(ev, k) = FamiliesRun(ev)
<1>1. Order(ev) \in Seq(Families) /\ Len(Order(ev)) \in Nat
  BY OrderIs
<1>2. k = Len(Order(ev)) + 1
  <2>1. SUFFICES ASSUME k \in 1..Len(Order(ev)) PROVE FALSE
    BY <1>1
  <2>2. \A i \in k..Len(Order(ev)) : Order(ev)[i] \in Families
    BY <1>1, <2>1, ElementOfSeq
  <2>3. Len(SubSeq(Order(ev), k, Len(Order(ev)))) = Len(Order(ev)) - k + 1
    BY <1>1, <2>1, <2>2, SubSeqProperties
  <2>4. Len(todo) = 0
    OBVIOUS
  <2> QED BY <1>1, <2>1, <2>3, <2>4 DEF FamiliesAt
<1> QED BY <1>2, OrderIs

LEMMA FamilyStep ==
  ASSUME TypeOK, NEW k \in 1..(Len(Order(ev)) + 1), FamiliesAt(k), RunFamily
  PROVE  FamiliesAt(k + 1)' /\ k + 1 \in 1..(Len(Order(ev)) + 1)
<1> DEFINE f == Head(todo)
           o == Order(ev)
<1>1. case \in Cases /\ ev' = ev
  BY Same DEF TypeOK, RunFamily
<1>2. k \in 1..Len(o) /\ k + 1 \in 1..(Len(o) + 1) /\ f = o[k]
      /\ todo' = SubSeq(o, k + 1, Len(o)) /\ f # "I"
  BY <1>1, NextFamily DEF RunFamily
<1>3. f \notin Ran(ev, k) /\ "H" \notin Ran(ev, k)
  BY <1>2, NotYetRan
<1>4. Ran(ev, k + 1) = Ran(ev, k) \cup {f}
  <2>1. k \in Nat \ {0} /\ f = Order(ev)[k]
    BY <1>2
  <2> HIDE DEF f
  <2>2. Ran(ev, k + 1) = Ran(ev, k) \cup {Order(ev)[k]}
    BY <2>1, RanNext, Zenon
  <2> QED BY <2>1, <2>2
<1> DEFINE before == Answered(ev, Ran(ev, k))
           after  == Answered(ev, Ran(ev, k + 1))
<1>5. Eef \notin before
  BY <1>3, EefIsLast
<1>6. after = before \cup (IF f \in ev.raising \ {"I"} THEN {} ELSE MetricsOf({f}))
  <2> HIDE DEF f
  <2>1. Answered(ev, Ran(ev, k) \cup {f}) = Answered(ev, Ran(ev, k)) \cup
          (IF f \in ev.raising \ {"I"} THEN {} ELSE MetricsOf({f}))
    BY AnsweredNext, Zenon
  <2> QED BY <1>4, <2>1, Zenon
<1>7. Trouble(ev, Ran(ev, k + 1)) <=> Trouble(ev, Ran(ev, k)) \/ f \in ev.raising
  BY <1>2, <1>4, TroubleNext
<1>8. scores = ScoredAs(ev, errors = {}, before)
      /\ (errors = {} <=> ev.projects /\ ~ Trouble(ev, Ran(ev, k))) /\ "lane_c" \notin errors
  BY DEF FamiliesAt
<1> HIDE DEF before, after, o
<1>9. CASE f \in ev.raising
  <2>1. errors' = errors \cup {f} /\ scores' = scores
    BY <1>9 DEF RunFamily
  <2>2. after = before
    BY <1>2, <1>6, <1>9
  <2>3. scores' = ScoredAs(ev, errors' = {}, after)
    BY <1>5, <1>8, <2>1, <2>2, CleanMatters
  <2>4. "lane_c" \notin errors'
    BY <1>1, <1>8, <2>1, HeadOfFamilies DEF RunFamily, TypeOK, Families
  <2>5. errors' = {} <=> ev.projects /\ ~ Trouble(ev, Ran(ev, k + 1))
    BY <1>7, <1>9, <2>1
  <2> QED BY <1>1, <1>2, <2>3, <2>4, <2>5 DEF FamiliesAt, after, o
<1>10. CASE f \notin ev.raising
  <2>1. errors' = errors /\ scores' = scores \cup RowsOf(f)
    BY <1>10 DEF RunFamily
  <2>2. after = before \cup MetricsOf({f})
    BY <1>6, <1>10
  <2>3. scores' = ScoredAs(ev, errors' = {}, after)
    <3>1. RowsOf(f) = ScoredAs(ev, errors = {}, MetricsOf({f}))
      BY <1>2, RowsOfIs
    <3> DEFINE c == errors = {}
    <3>2. (errors' = {}) = c
      BY <2>1
    <3>5. c \in BOOLEAN
      OBVIOUS
    <3>3. scores' = ScoredAs(ev, c, before) \cup ScoredAs(ev, c, MetricsOf({f}))
      BY <1>8, <2>1, <3>1
    <3> HIDE DEF c, f
    <3>4. scores' = ScoredAs(ev, c, after)
      <4>1. PICK ms : ms = MetricsOf({f})
        OBVIOUS
      <4>2. ScoredAs(ev, c, before \cup ms) = ScoredAs(ev, c, before) \cup ScoredAs(ev, c, ms)
        BY <3>5, ScoredUnion
      <4> QED BY <2>2, <3>3, <4>1, <4>2
    <3> QED BY <3>2, <3>4
  <2>4. "lane_c" \notin errors'
    BY <1>8, <2>1
  <2>5. errors' = {} <=> ev.projects /\ ~ Trouble(ev, Ran(ev, k + 1))
    BY <1>7, <1>8, <1>10, <2>1
  <2> QED BY <1>1, <1>2, <2>3, <2>4, <2>5 DEF FamiliesAt, after, o
<1> QED BY <1>9, <1>10

LEMMA FamilyIStep ==
  ASSUME TypeOK, NEW k \in 1..(Len(Order(ev)) + 1), FamiliesAt(k), RunFamilyI
  PROVE  FamiliesAt(k + 1)' /\ k + 1 \in 1..(Len(Order(ev)) + 1)
<1> DEFINE o == Order(ev)
           broken == IF "I" \in ev.raising THEN S2C ELSE S2C \cap ev.invalid
           rows   == {[id |-> m, ok |-> m \notin broken /\ Ok(m)] : m \in S2C}
           before == Answered(ev, Ran(ev, k))
           after  == Answered(ev, Ran(ev, k + 1))
<1>1. case \in Cases /\ ev' = ev
  BY Same DEF TypeOK, RunFamilyI
<1>2. k \in 1..Len(o) /\ k + 1 \in 1..(Len(o) + 1) /\ o[k] = "I"
      /\ todo' = SubSeq(o, k + 1, Len(o))
  BY <1>1, NextFamily DEF RunFamilyI
<1>3. "H" \notin Ran(ev, k)
  BY <1>2, NotYetRan
<1>4. Ran(ev, k + 1) = Ran(ev, k) \cup {"I"}
  BY <1>2, RanNext
<1>5. Eef \notin before
  BY <1>3, EefIsLast
<1>6. after = before \cup S2C
  <2>1. Answered(ev, Ran(ev, k) \cup {"I"}) = Answered(ev, Ran(ev, k)) \cup
          (IF "I" \in ev.raising \ {"I"} THEN {} ELSE MetricsOf({"I"}))
    BY AnsweredNext, Zenon
  <2>2. MetricsOf({"I"}) = S2C
    BY FamiliesOf
  <2>3. (IF "I" \in ev.raising \ {"I"} THEN {} ELSE MetricsOf({"I"})) = S2C
    BY <2>2
  <2> QED BY <1>4, <2>1, <2>3, Zenon
<1>7. Trouble(ev, Ran(ev, k + 1)) <=>
        Trouble(ev, Ran(ev, k)) \/ "I" \in ev.raising \/ S2C \cap ev.invalid # {}
  BY <1>4, TroubleNext
<1>8. scores = ScoredAs(ev, errors = {}, before)
      /\ (errors = {} <=> ev.projects /\ ~ Trouble(ev, Ran(ev, k))) /\ "lane_c" \notin errors
  BY DEF FamiliesAt
<1>9. rows = ScoredAs(ev, errors = {}, S2C)
  <2>1. \A m \in S2C : (m \notin broken /\ Ok(m)) = RowOk(ev, errors = {}, m)
    BY FamiliesOf DEF Ok, RowOk
  <2> HIDE DEF broken
  <2> QED BY <2>1 DEF ScoredAs, RowAs
<1>10. scores' = scores \cup rows /\ errors' = (IF broken = {} THEN errors ELSE errors \cup {"I"})
  BY DEF RunFamilyI
<1>11. broken = {} <=> "I" \notin ev.raising /\ S2C \cap ev.invalid = {}
  BY FamiliesOf
<1> HIDE DEF before, after, rows, broken, o
<1>12. Eef \notin after
  BY <1>5, <1>6, FamiliesOf DEF Eef
<1>13. scores' = ScoredAs(ev, errors = {}, after)
  <2> DEFINE c == errors = {}
  <2>1. c \in BOOLEAN
    OBVIOUS
  <2>2. scores' = ScoredAs(ev, c, before) \cup ScoredAs(ev, c, S2C)
    BY <1>8, <1>9, <1>10
  <2> HIDE DEF c
  <2>3. scores' = ScoredAs(ev, c, after)
    <3>1. ScoredAs(ev, c, before \cup S2C) = ScoredAs(ev, c, before) \cup ScoredAs(ev, c, S2C)
      BY <2>1, ScoredUnion
    <3> QED BY <1>6, <2>2, <3>1
  <2> QED BY <2>3 DEF c
<1>14. scores' = ScoredAs(ev, errors' = {}, after)
  BY <1>12, <1>13, CleanMatters
<1>15. "lane_c" \notin errors'
  BY <1>8, <1>10
<1>16. errors' = {} <=> ev.projects /\ ~ Trouble(ev, Ran(ev, k + 1))
  BY <1>7, <1>8, <1>10, <1>11
<1> QED BY <1>1, <1>2, <1>14, <1>15, <1>16 DEF FamiliesAt, after, o

(* The envelope.                                                           *)
LEMMA IdsOf ==
  ASSUME NEW e, NEW c, NEW ms
  PROVE  {r.id : r \in ScoredAs(e, c, ms)} = ms
<1>1. \A m : RowAs(e, c, m).id = m
  BY DEF RowAs
<1> QED BY <1>1 DEF ScoredAs

LEMMA RewriteIs ==
  ASSUME NEW e, NEW c \in BOOLEAN, NEW ms, NEW errs, errs # {}
  PROVE  Rewrite(ScoredAs(e, c, ms), errs) = ScoredAs(e, FALSE, ms)
<1> DEFINE rows == ScoredAs(e, c, ms)
           others == {r \in rows : r.id # "evaluator_error_free"}
           turned == {[r EXCEPT !.ok = FALSE] : r \in {q \in rows : q.id = "evaluator_error_free"}}
<1>1. ASSUME NEW m, m # Eef PROVE RowAs(e, c, m) = RowAs(e, FALSE, m)
  <2>1. RowOk(e, c, m) = RowOk(e, FALSE, m)
    BY <1>1 DEF RowOk, Eef
  <2> QED BY <2>1 DEF RowAs
<1>2. [RowAs(e, c, Eef) EXCEPT !.ok = FALSE] = RowAs(e, FALSE, Eef)
  <2>1. RowOk(e, FALSE, Eef) = FALSE
    BY DEF RowOk, Eef
  <2>2. [RowAs(e, c, Eef) EXCEPT !.ok = FALSE] = [id |-> Eef, ok |-> FALSE]
    BY RowAsIs
  <2> QED BY <2>1, <2>2 DEF RowAs
<1>3. \A m : RowAs(e, c, m).id = m
  BY DEF RowAs
<1>4. Rewrite(rows, errs) = others \cup turned
  BY DEF Rewrite
<1> HIDE DEF rows
<1>5. rows = {RowAs(e, c, m) : m \in ms}
  BY DEF rows, ScoredAs
<1>6. others \subseteq ScoredAs(e, FALSE, ms)
  BY <1>1, <1>3, <1>5 DEF ScoredAs, Eef
<1>7. turned \subseteq ScoredAs(e, FALSE, ms)
  <2> SUFFICES ASSUME NEW t \in turned PROVE t \in ScoredAs(e, FALSE, ms)
    OBVIOUS
  <2>1. PICK r \in rows : r.id = Eef /\ t = [r EXCEPT !.ok = FALSE]
    BY DEF Eef
  <2>2. r = RowAs(e, c, Eef) /\ Eef \in ms
    BY <1>3, <1>5, <2>1
  <2>3. t = RowAs(e, FALSE, Eef)
    BY <1>2, <2>1, <2>2
  <2> QED BY <2>2, <2>3 DEF ScoredAs
<1>8. ASSUME NEW m \in ms PROVE RowAs(e, FALSE, m) \in others \cup turned
  <2>1. RowAs(e, c, m) \in rows
    BY <1>5
  <2>2. CASE m # Eef
    BY <1>1, <1>3, <2>1, <2>2 DEF Eef
  <2>3. CASE m = Eef
    <3>1. [RowAs(e, c, Eef) EXCEPT !.ok = FALSE] \in turned
      BY <1>3, <2>1, <2>3 DEF Eef
    <3> QED BY <1>2, <2>3, <3>1
  <2> QED BY <2>2, <2>3
<1> HIDE DEF others, turned
<1>9. ScoredAs(e, FALSE, ms) \subseteq others \cup turned
  BY <1>8 DEF ScoredAs
<1> QED BY <1>4, <1>6, <1>7, <1>9 DEF rows

Ein == "eval_input_nonempty"

LEMMA KeptRows ==
  ASSUME NEW e \in Evidence
  PROVE  /\ Rows(e) = {m \in Answered(e, FamiliesRun(e)) \cup {Ein} :
                         m \in S2C \/ m \notin e.invalid \/ m \notin Answered(e, FamiliesRun(e))}
         /\ EvaluatorErrors(e) <=>
              \/ ~ e.projects \/ Trouble(e, FamiliesRun(e))
              \/ Rows(e) # Answered(e, FamiliesRun(e)) \cup {Ein}
<1> DEFINE had == Answered(e, FamiliesRun(e))
<1>1. {"A", "H", "I"} \subseteq FamiliesRun(e)
  BY DEF FamiliesRun, Families
<1>2. had = Emitted(e) \cup S2C
  BY <1>1 DEF Answered, Emitted, MetricsOf, S2C
<1>3. Ein \in Emitted(e) <=> "H" \notin e.raising
  BY <1>1 DEF Emitted, MetricsOf, Metrics, FamilyOf, Ein
<1>4. Ein \notin S2C
  BY FamiliesOf DEF Ein
<1>5. Emitted(e) \cap S2C # {} <=> "I" \notin e.raising
  BY <1>1 DEF Emitted, MetricsOf, Metrics, FamilyOf, S2C
<1>6. S2C \subseteq Emitted(e) \/ "I" \in e.raising
  BY <1>1 DEF Emitted, MetricsOf, S2C
<1>7. Rows(e) = (Emitted(e) \ e.invalid) \cup S2C \cup (IF "H" \in e.raising THEN {Ein} ELSE {})
  BY DEF Rows, Ein
<1>8. EvaluatorErrors(e) <=> \/ ~ e.projects \/ e.raising \cap FamiliesRun(e) # {}
                             \/ e.invalid \cap Emitted(e) # {}
  BY DEF EvaluatorErrors
<1>9. Trouble(e, FamiliesRun(e)) <=>
        e.raising \cap FamiliesRun(e) # {} \/ S2C \cap e.invalid # {}
  BY <1>1 DEF Trouble
<1> HIDE DEF had
<1>10. Rows(e) = {m \in had \cup {Ein} : m \in S2C \/ m \notin e.invalid \/ m \notin had}
  BY <1>2, <1>3, <1>4, <1>7
<1>11. EvaluatorErrors(e) <=>
         ~ e.projects \/ Trouble(e, FamiliesRun(e)) \/ Rows(e) # had \cup {Ein}
  <2>1. CASE e.raising \cap FamiliesRun(e) # {}
    BY <1>8, <1>9, <2>1
  <2>2. CASE e.raising \cap FamiliesRun(e) = {}
    <3>1. had = Emitted(e) /\ S2C \subseteq Emitted(e) /\ Ein \in Emitted(e)
      BY <1>1, <1>2, <1>3, <1>6, <2>2
    <3>2. Rows(e) = had \cup {Ein} <=> \A m \in Emitted(e) : m \in S2C \/ m \notin e.invalid
      BY <1>10, <3>1
    <3> QED BY <1>4, <1>8, <1>9, <2>2, <3>1, <3>2
  <2> QED BY <2>1, <2>2
<1> QED BY <1>10, <1>11 DEF had

LEMMA EnvelopeStep ==
  ASSUME TypeOK, NEW k \in 1..(Len(Order(ev)) + 1), FamiliesAt(k), Envelope
  PROVE  /\ scores' = ScoredAs(ev, ~ EvaluatorErrors(ev), Rows(ev))
         /\ errors' = {} <=> ~ EvaluatorErrors(ev)
         /\ "lane_c" \notin errors'
<1>1. case \in Cases /\ ev \in Evidence
  BY CaseTyped DEF TypeOK
<1> DEFINE had  == Answered(ev, FamiliesRun(ev))
           c    == errors = {}
           d    == ~ EvaluatorErrors(ev)
           have == {r.id : r \in scores}
           row  == [id |-> "eval_input_nonempty", ok |-> ~ Missing(ev)]
           full == IF "eval_input_nonempty" \in have THEN scores ELSE scores \cup {row}
           kept == {r \in full : r.id \in S2C \/ r.id \notin ev.invalid \/ r.id \notin have}
           errs == IF kept = full THEN errors ELSE errors \cup {"envelope"}
<1>2. errors' = errs /\ scores' = Rewrite(kept, errs)
  BY DEF Envelope
<1>3. Ran(ev, k) = FamiliesRun(ev)
  BY <1>1, AllRan DEF Envelope
<1>4. /\ scores = ScoredAs(ev, c, had)
      /\ c <=> ev.projects /\ ~ Trouble(ev, FamiliesRun(ev))
      /\ "lane_c" \notin errors
  BY <1>3 DEF FamiliesAt
<1>5. /\ Rows(ev) = {m \in had \cup {Ein} : m \in S2C \/ m \notin ev.invalid \/ m \notin had}
      /\ EvaluatorErrors(ev) <=>
           ~ ev.projects \/ Trouble(ev, FamiliesRun(ev)) \/ Rows(ev) # had \cup {Ein}
  BY <1>1, KeptRows
<1>6. c \in BOOLEAN /\ d \in BOOLEAN
  OBVIOUS
<1>7. row = RowAs(ev, c, Ein)
  <2>1. (~ Missing(ev)) = RowOk(ev, c, Ein)
    BY FamiliesOf DEF RowOk, Ein
  <2> QED BY <2>1 DEF RowAs, Ein
<1> HIDE DEF had, c, d, row
<1>8. have = had
  <2>1. {r.id : r \in ScoredAs(ev, c, had)} = had
    BY IdsOf
  <2> QED BY <1>4, <2>1
<1> HIDE DEF have
<1>9. full = ScoredAs(ev, c, had \cup {Ein})
  <2>1. CASE Ein \in had
    <3>1. had \cup {Ein} = had
      BY <2>1
    <3> QED BY <1>4, <1>8, <2>1, <3>1 DEF Ein
  <2>2. CASE Ein \notin had
    <3>1. ScoredAs(ev, c, had \cup {Ein}) = ScoredAs(ev, c, had) \cup {RowAs(ev, c, Ein)}
      BY DEF ScoredAs
    <3> QED BY <1>4, <1>7, <1>8, <2>2, <3>1 DEF Ein
  <2> QED BY <2>1, <2>2
<1> HIDE DEF full
<1>10. \A m : RowAs(ev, c, m).id = m
  BY DEF RowAs
<1>11. kept = ScoredAs(ev, c, Rows(ev))
  <2>1. \A r \in full : \E m \in had \cup {Ein} : r = RowAs(ev, c, m) /\ r.id = m
    BY <1>9, <1>10 DEF ScoredAs
  <2>2. kept \subseteq ScoredAs(ev, c, Rows(ev))
    BY <1>5, <1>8, <2>1 DEF ScoredAs
  <2>3. ScoredAs(ev, c, Rows(ev)) \subseteq kept
    BY <1>5, <1>8, <1>9, <1>10 DEF ScoredAs
  <2> QED BY <2>2, <2>3
<1>12. kept = full <=> Rows(ev) = had \cup {Ein}
  <2>1. {r.id : r \in ScoredAs(ev, c, Rows(ev))} = Rows(ev)
    BY IdsOf
  <2>2. {r.id : r \in ScoredAs(ev, c, had \cup {Ein})} = had \cup {Ein}
    BY IdsOf
  <2> QED BY <1>9, <1>11, <2>1, <2>2
<1> HIDE DEF kept
<1>13. errs = {} <=> c /\ Rows(ev) = had \cup {Ein}
  BY <1>12 DEF c
<1>14. errs = {} <=> ~ EvaluatorErrors(ev)
  BY <1>4, <1>5, <1>13
<1>15. "lane_c" \notin errs
  BY <1>4
<1>16. scores' = ScoredAs(ev, d, Rows(ev))
  <2>1. CASE errs = {}
    <3>1. scores' = kept
      BY <1>2, <2>1 DEF Rewrite
    <3>2. c = d
      BY <1>13, <1>14, <2>1 DEF d
    <3> QED BY <1>11, <3>1, <3>2
  <2>2. CASE errs # {}
    <3>1. scores' = ScoredAs(ev, FALSE, Rows(ev))
      BY <1>2, <1>6, <1>11, <2>2, RewriteIs
    <3>2. d = FALSE
      BY <1>14, <2>2 DEF d
    <3> QED BY <3>1, <3>2
  <2> QED BY <2>1, <2>2
<1> QED BY <1>2, <1>14, <1>15, <1>16 DEF d
-----------------------------------------------------------------------------
(* The rows about the judge, and the gates.                                *)
LEMMA RewritePassing ==
  ASSUME NEW rows \in SUBSET [id : Metrics \cup HonestyIds, ok : BOOLEAN],
         NEW errs, errs # {}, NEW m
  PROVE  Passing(Rewrite(rows, errs), m) <=> m # Eef /\ Passing(rows, m)
<1> DEFINE others == {r \in rows : r.id # "evaluator_error_free"}
           turned == {[r EXCEPT !.ok = FALSE] : r \in {q \in rows : q.id = "evaluator_error_free"}}
<1>1. Rewrite(rows, errs) = others \cup turned
  BY DEF Rewrite
<1>2. ASSUME NEW t \in turned PROVE t.ok = FALSE
  BY Zenon
<1>3. ASSUME NEW t, t = [id |-> m, ok |-> TRUE] PROVE t.id = m /\ t.ok = TRUE
  BY <1>3
<1> QED BY <1>1, <1>2, <1>3 DEF Passing, Eef

LEMMA HonestyStep ==
  ASSUME TypeOK, ScoresInv, Honesty, NEW m \in Metrics
  PROVE  Passing(scores', m) <=> Passes(ev, m) /\ ("lane_c" \in errors => m # Eef)
<1> DEFINE rows == {[id |-> h, ok |-> HonestyOk[h]] : h \in HonestyIds}
           d    == ~ EvaluatorErrors(ev)
<1>1. /\ scores = ScoredAs(ev, d, Rows(ev))
      /\ "lane_c" \notin errors => (errors = {} <=> d)
  BY DEF ScoresInv, Honesty
<1>2. ev \in Evidence
  BY CaseTyped DEF TypeOK
<1>3. scores' = Rewrite(scores \cup rows, errors)
  BY DEF Honesty
<1>4. m \notin HonestyIds
  BY DEF Metrics, FamilyOf, HonestyIds
<1>5. Passing(scores \cup rows, m) <=> Passing(scores, m)
  <2>1. [id |-> m, ok |-> TRUE] \notin rows
    <3> SUFFICES ASSUME NEW h \in HonestyIds, NEW b, [id |-> m, ok |-> TRUE] = [id |-> h, ok |-> b]
                 PROVE FALSE
      OBVIOUS
    <3>1. m = h
      OBVIOUS
    <3> QED BY <1>4, <3>1
  <2> HIDE DEF rows
  <2> QED BY <2>1 DEF Passing
<1>6. Passing(scores, m) <=> Passes(ev, m)
  <2>1. d \in BOOLEAN
    OBVIOUS
  <2>2. Passes(ev, m) <=> m \in Rows(ev) /\ RowOk(ev, d, m)
    BY <1>2, RowsPass
  <2> HIDE DEF d
  <2> QED BY <1>1, <2>1, <2>2, PassingIs
<1>7. rows \subseteq [id : Metrics \cup HonestyIds, ok : BOOLEAN]
  <2>1. \A h \in HonestyIds : HonestyOk[h] \in BOOLEAN
    BY HonestyTyped
  <2> QED BY <2>1
<1>8. scores \cup rows \in SUBSET [id : Metrics \cup HonestyIds, ok : BOOLEAN]
  BY <1>7 DEF TypeOK
<1> HIDE DEF rows
<1>9. CASE errors = {}
  BY <1>3, <1>5, <1>6, <1>9 DEF Rewrite
<1>10. CASE errors # {}
  <2>1. Passing(scores', m) <=> m # Eef /\ Passes(ev, m)
    BY <1>3, <1>5, <1>6, <1>8, <1>10, RewritePassing
  <2>2. CASE "lane_c" \in errors
    BY <2>1, <2>2
  <2>3. CASE "lane_c" \notin errors
    <3>1. m = Eef => ~ RowOk(ev, d, m)
      BY <1>1, <1>10, <2>3 DEF RowOk, Eef
    <3>2. m = Eef => ~ Passes(ev, m)
      BY <1>2, <3>1, RowsPass
    <3> QED BY <2>1, <2>3, <3>2
  <2> QED BY <2>2, <2>3
<1> QED BY <1>9, <1>10

LEMMA GatesStep ==
  ASSUME TypeOK, ScoresInv, GatesInv, ComposeGates
  PROVE  GatesInv'
<1>1. ev' = ev /\ policy' = policy
  BY Same DEF ComposeGates
<1>2. policy.block \subseteq Metrics \cup Advisory /\ policy.topology \in BOOLEAN
  BY CaseTyped DEF TypeOK, Policy
<1>3. stage' = "done"
  BY DEF ComposeGates
<1>4. CASE Twice
  <2>1. gates' = None
    BY <1>4 DEF ComposeGates, GatesInv
  <2> QED BY <1>3, <2>1 DEF GatesInv, JudgeMovesNoGate, Done
<1>5. CASE ~ Twice
  <2>1. gates' = Composed /\ UNCHANGED <<errors, scores, run, cohort>>
    BY <1>5 DEF ComposeGates
  <2> DEFINE spared == "lane_c" \in errors => Eef \notin Required(policy)
             block  == policy.block \cup (IF policy.topology THEN S2C ELSE {})
             det    == \A m \in block \ Advisory : Passing(scores, m)
             golden == /\ det
                       /\ Passing(scores, "gold_report_ok")
                       /\ Passing(scores, "skeleton_fallback_final")
                       /\ ev.bound
                       /\ policy.topology => \A m \in S2C : Passing(scores, m)
  <2>2. \A m \in Metrics :
          Passing(scores, m) <=> Passes(ev, m) /\ ("lane_c" \in errors => m # Eef)
    BY DEF ComposeGates, ScoresInv
  <2>3. S2C \subseteq Metrics /\ Eef \notin S2C
    BY FamiliesOf DEF Metrics, FamilyOf, Eef
  <2>4. block \ Advisory = Required(policy) /\ Required(policy) \subseteq Metrics
    BY <1>2, <2>3 DEF Required
  <2>5. det <=> DeterministicPass(policy, ev) /\ spared
    BY <2>2, <2>4 DEF DeterministicPass
  <2>6. "gold_report_ok" \in Metrics /\ "skeleton_fallback_final" \in Metrics
        /\ Eef \notin {"gold_report_ok", "skeleton_fallback_final"}
    BY DEF Metrics, FamilyOf, Eef
  <2>7. golden <=> GoldenPromotionEligible(policy, ev) /\ spared
    BY <2>2, <2>3, <2>5, <2>6 DEF GoldenPromotionEligible
  <2>12. det = (DeterministicPass(policy, ev) /\ spared)
    BY <2>5
  <2>13. golden = (GoldenPromotionEligible(policy, ev) /\ spared)
    BY <2>7
  <2>8. Composed = [deterministic |-> det, golden |-> golden, cohort |-> CohortGate]
    BY DEF Composed
  <2> HIDE DEF det, golden
  <2>9. gates'.deterministic = det /\ gates'.golden = golden /\ gates'.cohort = CohortGate
    BY <2>1, <2>8
  <2>10. CohortGate' = CohortGate
    BY <2>1 DEF CohortGate
  <2>11. JudgeMovesNoGate'
    <3>1. gates'.deterministic = (DeterministicPass(policy, ev) /\ spared)
      BY <2>9, <2>12
    <3>2. gates'.golden = (GoldenPromotionEligible(policy, ev) /\ spared)
      BY <2>9, <2>13
    <3> QED BY <1>1, <2>1, <3>1, <3>2 DEF JudgeMovesNoGate, Eef
  <2> QED BY <1>3, <2>9, <2>10, <2>11 DEF GatesInv
<1> QED BY <1>4, <1>5

LEMMA OtherGates ==
  ASSUME GatesInv, [Next]_vars, ~ ComposeGates
  PROVE  GatesInv'
<1>1. CASE UNCHANGED vars
  BY <1>1, Same DEF vars, GatesInv, JudgeMovesNoGate, Done, CohortGate
<1>2. CASE ~ UNCHANGED vars
  <2>1. stage # "done" /\ gates' = gates /\ stage' # "done"
    BY <1>2 DEF Next, Project, RunFamily, RunFamilyI, Envelope, Offline, NothingAsked, Refuse,
       Admit, PackRefused, NotInvoked, AskJudge, CloseLane, Honesty, LaneRaises, InJudge, Emit
  <2> QED BY <2>1 DEF GatesInv, JudgeMovesNoGate, Done
<1> QED BY <1>1, <1>2

LEMMA RaiseScores ==
  ASSUME ScoresInv, LaneRaises, stage \in {"lane", "judge"}
  PROVE  ScoresInv'
BY Same DEF ScoresInv, LaneRaises

(* A step that only moves on within the lane.                              *)
LEMMA LaneScores ==
  ASSUME ScoresInv, UNCHANGED <<case, scores, errors>>, stage \in {"lane", "judge"},
         stage' \in {"judge", "honesty"}
  PROVE  ScoresInv'
BY Same DEF ScoresInv

LEMMA ScoresStep ==
  ASSUME TypeOK, ScoresInv, [Next]_vars PROVE ScoresInv'
<1>1. CASE Project
  <2> DEFINE o == Order(ev)
  <2>1. ev' = ev /\ stage' = "families" /\ todo' = o /\ scores' = {}
        /\ errors' = (IF ev.projects THEN {} ELSE {"context"})
    BY <1>1, Same DEF Project, ScoresInv, ev, EvidenceOf
  <2>2. o \in Seq(Families) /\ Len(o) \in Nat \ {0} /\ todo' = SubSeq(o, 1, Len(o))
    BY <2>1, OrderIs, SubSeqFull
  <2>3. Ran(ev, 1) = {}
    BY DEF Ran
  <2>4. Answered(ev, {}) = {} /\ ~ Trouble(ev, {})
    BY DEF Answered, MetricsOf, Trouble
  <2>5. scores' = ScoredAs(ev, errors' = {}, {})
    BY <2>1 DEF ScoredAs
  <2>6. errors' = {} <=> ev.projects
    BY <2>1
  <2>7. "lane_c" \notin errors'
    BY <2>1
  <2>8. FamiliesAt(1)'
    BY <2>1, <2>2, <2>3, <2>4, <2>5, <2>6, <2>7 DEF FamiliesAt
  <2> QED BY <2>1, <2>2, <2>8 DEF ScoresInv
<1>2. CASE RunFamily \/ RunFamilyI
  <2>1. PICK k \in 1..(Len(Order(ev)) + 1) : FamiliesAt(k)
    BY <1>2 DEF ScoresInv, RunFamily, RunFamilyI
  <2>2. FamiliesAt(k + 1)' /\ k + 1 \in 1..(Len(Order(ev)) + 1)
    BY <1>2, <2>1, FamilyStep, FamilyIStep
  <2>3. ev' = ev /\ stage' = "families"
    BY <1>2, Same DEF RunFamily, RunFamilyI
  <2> QED BY <2>2, <2>3 DEF ScoresInv
<1>3. CASE Envelope
  <2>1. PICK k \in 1..(Len(Order(ev)) + 1) : FamiliesAt(k)
    BY <1>3 DEF ScoresInv, Envelope
  <2>2. ev' = ev /\ stage' = "lane"
    BY <1>3, Same DEF Envelope
  <2> QED BY <1>3, <2>1, <2>2, EnvelopeStep DEF ScoresInv
<1>4. CASE Offline \/ NothingAsked \/ Admit
  BY <1>4, LaneScores DEF Offline, NothingAsked, Admit
<1>5. CASE Refuse
  BY <1>5, LaneScores, RaiseScores DEF Refuse
<1>6. CASE PackRefused \/ NotInvoked \/ AskJudge
  BY <1>6, LaneScores, RaiseScores DEF PackRefused, NotInvoked, AskJudge, InJudge, Emit
<1>7. CASE CloseLane
  BY <1>7, LaneScores DEF CloseLane
<1>8. CASE Honesty
  <2>1. stage' = "gates" /\ ev' = ev /\ errors' = errors
    BY <1>8, Same DEF Honesty
  <2>2. \A m \in Metrics :
          Passing(scores', m) <=> Passes(ev, m) /\ ("lane_c" \in errors => m # Eef)
    BY <1>8, HonestyStep
  <2> QED BY <2>1, <2>2 DEF ScoresInv
<1>9. CASE ComposeGates
  <2>1. stage' = "done"
    BY <1>9 DEF ComposeGates
  <2> QED BY <2>1 DEF ScoresInv
<1>10. CASE UNCHANGED vars
  BY <1>10, Same DEF vars, ScoresInv, FamiliesAt
<1> QED BY <1>1, <1>2, <1>3, <1>4, <1>5, <1>6, <1>7, <1>8, <1>9, <1>10 DEF Next
-----------------------------------------------------------------------------
(* The calls, and what the rows say of them.                               *)
LEMMA UnaskedTells ==
  ASSUME NEW row, row.invoked = FALSE, row.code # "scored"
  PROVE  Tells(row, <<>>)
<1>1. (<<>> # <<>>) = FALSE
  OBVIOUS
<1> QED BY <1>1 DEF Tells

LEMMA AskedTells ==
  ASSUME NEW calls \in Seq(Answers), Pending(calls), NEW a \in Answers, NEW m
  PROVE  Tells(Row(m, a, TRUE, TRUE), Append(calls, a))
<1> DEFINE new == Append(calls, a)
<1>1. new # <<>> /\ Len(new) = Len(calls) + 1 /\ Last(new) = a
  BY DEF Last
<1>2. Front(new) = calls
  <2>1. Front(new) = SubSeq(new, 1, Len(calls))
    BY <1>1 DEF Front
  <2> QED BY <2>1
<1>3. Len(calls) <= 1 /\ "scored" \notin ToSet(calls)
  <2>1. CASE calls = <<>>
    BY <2>1 DEF ToSet
  <2>2. CASE calls # <<>>
    <3>1. PICK b \in Retryable : calls = <<b>>
      BY <2>2 DEF Pending
    <3> QED BY <3>1 DEF ToSet, Retryable
  <2> QED BY <2>1, <2>2
<1> HIDE DEF new
<1>4. (new # <<>>) = TRUE
  BY <1>1
<1>5. Row(m, a, TRUE, TRUE).code = a
  BY DEF Row
<1>6. Row(m, a, TRUE, TRUE).invoked = TRUE
  BY Zenon DEF Row
<1>7. Len(new) <= 2
  BY <1>1, <1>3
<1>8. Row(m, a, TRUE, TRUE).invoked = (new # <<>>)
  BY <1>4, <1>6
<1> QED BY <1>1, <1>2, <1>3, <1>5, <1>7, <1>8 DEF Tells, new

LEMMA RetryPending ==
  ASSUME NEW calls \in Seq(Answers), Pending(calls), NEW a \in Retryable,
         Len(Append(calls, a)) <= MaxRetries
  PROVE  Pending(Append(calls, a))
<1>1. calls = <<>>
  BY DEF MaxRetries
<1>2. Append(calls, a) = <<a>>
  BY <1>1
<1> QED BY <1>2 DEF Pending

LEMMA EmitCalls ==
  ASSUME TypeOK, CallsInv, InJudge, NEW row, Emit(row),
         Tells(row, answers'[Len(cprime) + 1]),
         \A i \in Asked : i # Len(cprime) + 1 => answers'[i] = answers[i]
  PROVE  CallsInv'
<1> DEFINE n == Len(cprime)
<1>1. lane' = lane /\ cprime' = Append(cprime, row) /\ stage = "judge" /\ stage' = "judge"
  BY Same DEF Emit, InJudge
<1>2. n \in Nat /\ Len(lane.metrics) \in Nat /\ n < Len(lane.metrics)
  BY LaneTyped DEF InJudge, TypeOK
<1>3. /\ Len(cprime') = n + 1 /\ cprime'[n + 1] = row
      /\ \A i \in 1..n : cprime'[i] = cprime[i]
  BY <1>1 DEF TypeOK
<1>4. /\ \A i \in 1..n : Tells(cprime[i], answers[i])
      /\ \A i \in Asked : i > n + 1 => answers[i] = <<>>
  BY <1>1 DEF CallsInv
<1> HIDE DEF n
<1>5. \A i \in 1..(n + 1) : Tells(cprime'[i], answers'[i])
  <2> TAKE i \in 1..(n + 1)
  <2>1. CASE i = n + 1
    BY <1>3, <2>1 DEF n
  <2>2. CASE i # n + 1
    <3>1. i \in 1..n /\ i \in Asked
      BY <1>2, <2>2 DEF Asked
    <3> QED BY <1>3, <1>4, <2>2, <3>1 DEF n
  <2> QED BY <2>1, <2>2
<1>6. \A i \in Asked : i > n + 1 => answers'[i] = <<>>
  BY <1>2, <1>4 DEF n, Asked
<1>7. \A i \in Asked : i = n + 2 => Pending(answers'[i])
  BY <1>2, <1>6 DEF Pending, Asked
<1>8. \A i \in Asked : i > n + 2 => answers'[i] = <<>>
  BY <1>2, <1>6 DEF Asked
<1>11. \A i \in Asked : i = n + 2 => answers'[i] = <<>>
  BY <1>2, <1>6 DEF Asked
<1>9. n + 1 <= Len(lane.metrics) /\ Asked' = Asked
  BY <1>1, <1>2 DEF Asked
<1>10. n + 1 + 1 = n + 2
  BY <1>2
<1> QED BY <1>1, <1>3, <1>5, <1>7, <1>8, <1>9, <1>10, <1>11 DEF CallsInv

LEMMA RaiseCalls ==
  ASSUME CallsInv, LaneRaises PROVE CallsInv'
BY DEF CallsInv, LaneRaises

LEMMA OpenRunIs ==
  /\ OpenRun.invoked = FALSE /\ OpenRun.scored = 0 /\ OpenRun.ran = FALSE
  /\ \A f : LET r == [OpenRun EXCEPT !.isolated = f] IN
              r.invoked = FALSE /\ r.scored = 0 /\ r.ran = FALSE
BY DEF OpenRun, NoRun

(* Counters at zero tell the truth of rows without a call.                 *)
LEMMA ZeroTells ==
  ASSUME NEW rows, NEW r, r.invoked = FALSE, r.scored = 0, r.ran = FALSE,
         Scored(rows) = 0, ~ \E i \in DOMAIN rows : rows[i].invoked
  PROVE  /\ r.invoked = (\E i \in DOMAIN rows : rows[i].invoked)
         /\ r.scored = Scored(rows) /\ r.ran = (Scored(rows) > 0)
<1>1. (\E i \in DOMAIN rows : rows[i].invoked) = FALSE
  OBVIOUS
<1>2. (0 > 0) = FALSE
  OBVIOUS
<1>3. (Scored(rows) > 0) = FALSE
  BY <1>2
<1> QED BY <1>1, <1>3

(* A row without a call.                                                   *)
LEMMA UnaskedEmit ==
  ASSUME TypeOK, CallsInv, InJudge, NEW row, Emit(row), UNCHANGED answers,
         row.invoked = FALSE, row.code # "scored", ~ Askable(Len(cprime) + 1)
  PROVE  CallsInv'
<1>1. answers[Len(cprime) + 1] = <<>>
  BY CurrentTyped DEF CallsInv, InJudge
<1> QED BY <1>1, UnaskedTells, EmitCalls

LEMMA CallsStep ==
  ASSUME TypeOK, CallsInv, [Next]_vars PROVE CallsInv'
<1>1. CASE Project \/ RunFamily \/ RunFamilyI \/ Envelope
  <2>1. lane' = lane /\ UNCHANGED <<cprime, answers, cohort>>
        /\ stage \in {"project", "families"} /\ stage' \in {"project", "families", "lane"}
    BY <1>1, Same DEF Project, RunFamily, RunFamilyI, Envelope
  <2> QED BY <2>1 DEF CallsInv, Asked
<1>2. CASE Offline
  <2>1. lane' = lane /\ UNCHANGED <<cprime, answers, cohort>> /\ stage = "lane" /\ stage' = "honesty"
    BY <1>2, Same DEF Offline
  <2>2. cohort = None
    BY <2>1 DEF CallsInv
  <2> QED BY <2>1, <2>2 DEF CallsInv, Asked
<1>3. CASE NothingAsked
  <2>1. lane' = lane /\ UNCHANGED <<cprime, answers, errors>> /\ stage = "lane" /\ stage' = "honesty"
        /\ run' = OpenRun /\ cprime = <<>> /\ Len(lane.metrics) = 0
    BY <1>3, Same DEF NothingAsked, CallsInv
  <2>2. Scored(<<>>) = 0 /\ ~ (\E i \in DOMAIN <<>> : <<>>[i].invoked)
    <3>1. {i \in DOMAIN <<>> : <<>>[i].code = "scored"} = {}
      OBVIOUS
    <3> QED BY <3>1, FS_EmptySet DEF Scored
  <2>3. run'.invoked = FALSE /\ run'.scored = 0 /\ run'.ran = FALSE
    BY <2>1, OpenRunIs
  <2>4. cprime' = <<>> /\ Asked' = {} /\ Len(cprime') = Len(lane'.metrics)
    BY <2>1 DEF Asked
  <2>5. /\ run'.invoked = (\E i \in DOMAIN cprime' : cprime'[i].invoked)
        /\ run'.scored = Scored(cprime') /\ run'.ran = (Scored(cprime') > 0)
    BY <2>2, <2>3, <2>4, ZeroTells
  <2> QED BY <2>1, <2>4, <2>5 DEF CallsInv
<1>4. CASE Refuse
  <2>1. CASE LaneRaises
    BY <2>1, RaiseCalls
  <2>2. CASE ~ LaneRaises
    <3> DEFINE n == Len(lane.metrics)
               code == Refusal(bundle, lane, Provisional)
    <3>1. /\ lane' = lane /\ UNCHANGED <<answers, errors>> /\ stage = "lane" /\ stage' = "honesty"
          /\ run' = [OpenRun EXCEPT !.isolated = Isolation]
          /\ cprime' = [i \in 1..n |-> Row(lane.metrics[i], code, FALSE, FALSE)]
      BY <1>4, <2>2, Same DEF Refuse
    <3>2. code # "scored" /\ n \in Nat
      BY CodesTyped, LaneTyped DEF TypeOK
    <3> HIDE DEF code, n
    <3>3. Len(cprime') = n /\ DOMAIN cprime' = 1..n
      BY <3>1, <3>2
    <3>4. \A i \in 1..n : cprime'[i].code = code
      BY <3>1 DEF Row
    <3>5. \A i \in 1..n : cprime'[i].invoked = FALSE
      BY <3>1, Zenon DEF Row
    <3>6. \A i \in Asked : answers'[i] = <<>>
      BY <3>1 DEF CallsInv
    <3>7. \A i \in Asked : Tells(cprime'[i], answers'[i])
      BY <3>2, <3>4, <3>5, <3>6, UnaskedTells DEF Asked, n
    <3>8. Scored(cprime') = 0
      <4>1. {i \in DOMAIN cprime' : cprime'[i].code = "scored"} = {}
        BY <3>2, <3>3, <3>4
      <4> QED BY <4>1, FS_EmptySet DEF Scored
    <3>9. ~ \E i \in DOMAIN cprime' : cprime'[i].invoked
      BY <3>3, <3>5
    <3>10. run'.invoked = FALSE /\ run'.scored = 0 /\ run'.ran = FALSE
      BY <3>1, OpenRunIs
    <3>11. /\ run'.invoked = (\E i \in DOMAIN cprime' : cprime'[i].invoked)
           /\ run'.scored = Scored(cprime') /\ run'.ran = (Scored(cprime') > 0)
      BY <3>8, <3>9, <3>10, ZeroTells
    <3>12. Asked' = Asked /\ Len(cprime') = Len(lane'.metrics)
      BY <3>1, <3>3 DEF Asked, n
    <3> QED BY <3>1, <3>7, <3>11, <3>12 DEF CallsInv
  <2> QED BY <2>1, <2>2
<1>5. CASE Admit
  <2>1. lane' = lane /\ UNCHANGED <<cprime, answers>> /\ stage = "lane" /\ stage' = "judge"
    BY <1>5, Same DEF Admit
  <2>2. cprime = <<>> /\ \A i \in Asked : answers[i] = <<>>
    BY <2>1 DEF CallsInv
  <2>3. Len(lane.metrics) \in Nat
    BY LaneTyped DEF TypeOK
  <2> QED BY <2>1, <2>2, <2>3 DEF CallsInv, Asked, Pending
<1>6. CASE PackRefused
  <2>1. CASE LaneRaises
    BY <2>1, RaiseCalls
  <2>2. CASE ~ LaneRaises
    <3> DEFINE row == Row(Current, PackCode(lane, Current), FALSE, FALSE)
    <3>1. InJudge /\ Emit(row) /\ UNCHANGED answers
      BY <1>6, <2>2 DEF PackRefused
    <3>2. row.code # "scored"
      BY CodesTyped DEF TypeOK, Row
    <3>3. row.invoked = FALSE
      BY Zenon DEF Row
    <3> HIDE DEF row
    <3>4. ~ Askable(Len(cprime) + 1)
      BY <1>6 DEF PackRefused, Askable, Current
    <3> QED BY <3>1, <3>2, <3>3, <3>4, UnaskedEmit
  <2> QED BY <2>1, <2>2
<1>7. CASE NotInvoked
  <2>1. PICK code \in {"judge_not_invoked", "oversize_input"} : Emit(Row(Current, code, FALSE, TRUE))
    BY <1>7 DEF NotInvoked
  <2> DEFINE row == Row(Current, code, FALSE, TRUE)
  <2>2. row.code # "scored"
    BY DEF Row
  <2>3. row.invoked = FALSE
    BY Zenon DEF Row
  <2> HIDE DEF row
  <2>4. ~ Askable(Len(cprime) + 1) /\ InJudge /\ UNCHANGED answers
    BY <1>7 DEF NotInvoked, Askable
  <2> QED BY <2>1, <2>2, <2>3, <2>4, UnaskedEmit DEF row
<1>8. CASE AskJudge
  <2> DEFINE i == Len(cprime) + 1
  <2>1. stage = "judge" /\ i \in Asked /\ answers[i] \in Seq(Answers) /\ Pending(answers[i])
    BY <1>8, CurrentTyped DEF AskJudge, InJudge, CallsInv, TypeOK, Asked
  <2>2. PICK a \in Answers :
          /\ answers' = [answers EXCEPT ![i] = Append(answers[i], a)]
          /\ \/ /\ a \in Retryable /\ Len(Append(answers[i], a)) <= MaxRetries
                /\ UNCHANGED <<case, todo, stage, scores, errors, cprime, run, cohort, gates>>
             \/ Emit(Row(Current, a, TRUE, TRUE))
    BY <1>8 DEF AskJudge
  <2>3. answers'[i] = Append(answers[i], a) /\ \A j \in Asked : j # i => answers'[j] = answers[j]
    BY <2>1, <2>2 DEF TypeOK, Asked
  <2>4. CASE Emit(Row(Current, a, TRUE, TRUE))
    <3>1. Tells(Row(Current, a, TRUE, TRUE), answers'[i])
      BY <2>1, <2>3, AskedTells
    <3> QED BY <1>8, <2>3, <2>4, <3>1, EmitCalls DEF AskJudge
  <2>5. CASE /\ a \in Retryable /\ Len(Append(answers[i], a)) <= MaxRetries
             /\ UNCHANGED <<case, todo, stage, scores, errors, cprime, run, cohort, gates>>
    <3>1. Pending(answers'[i])
      BY <2>1, <2>3, <2>5, RetryPending
    <3>2. lane' = lane /\ UNCHANGED <<stage, cprime>> /\ Asked' = Asked
      BY <2>5, Same DEF Asked
    <3>3. Len(cprime) \in Nat /\ Len(lane.metrics) \in Nat
      BY LaneTyped DEF TypeOK
    <3>4. \A j \in 1..Len(cprime) : answers'[j] = answers[j]
      BY <2>1, <2>3, <3>3 DEF CallsInv, Asked
    <3>5. \A j \in Asked : j > i => answers'[j] = answers[j]
      BY <2>3, <3>3
    <3>6. Askable(i)
      BY <1>8 DEF AskJudge, Askable, Current
    <3>7. Askable(i)' = Askable(i)
      BY <2>5, Same DEF Askable
    <3> QED BY <2>1, <3>1, <3>2, <3>3, <3>4, <3>5, <3>6, <3>7 DEF CallsInv
  <2> QED BY <2>2, <2>4, <2>5
<1>9. CASE CloseLane
  <2> DEFINE invoked == \E i \in DOMAIN cprime : cprime[i].invoked
             ran     == Scored(cprime) > 0
  <2>1. /\ lane' = lane /\ UNCHANGED <<cprime, answers>> /\ stage = "judge" /\ stage' = "honesty"
        /\ Len(cprime) = Len(lane.metrics)
        /\ run' = [run EXCEPT !.invoked = invoked, !.scored = Scored(cprime), !.ran = ran]
    BY <1>9, Same DEF CloseLane
  <2>2. \A i \in Asked : Tells(cprime[i], answers[i])
    BY <2>1 DEF CallsInv, Asked
  <2>3. run'.invoked = invoked /\ run'.scored = Scored(cprime) /\ run'.ran = ran
    <3> HIDE DEF invoked, ran
    <3> QED BY <2>1 DEF TypeOK
  <2>4. Scored(cprime') = Scored(cprime)
    BY <2>1
  <2> QED BY <2>1, <2>2, <2>3, <2>4 DEF CallsInv, Asked
<1>10. CASE Honesty \/ ComposeGates
  <2>1. lane' = lane /\ UNCHANGED <<cprime, answers, run, cohort>> /\ errors \subseteq errors'
        /\ stage \in {"honesty", "gates"} /\ stage' \in {"gates", "done"}
    BY <1>10, Same DEF Honesty, ComposeGates
  <2> QED BY <2>1 DEF CallsInv, Asked, Scored
<1>11. CASE UNCHANGED vars
  BY <1>11, Same DEF vars, CallsInv, Asked, Askable, Scored
<1> QED BY <1>1, <1>2, <1>3, <1>4, <1>5, <1>6, <1>7, <1>8, <1>9, <1>10, <1>11 DEF Next
-----------------------------------------------------------------------------
LEMMA Initially == Init => Inv
<1> SUFFICES ASSUME Init PROVE Inv
  OBVIOUS
<1>1. ScoresInv /\ GatesInv
  BY DEF Init, ScoresInv, GatesInv, JudgeMovesNoGate, Done
<1>2. CallsInv
  BY DEF Init, CallsInv, Asked
<1> QED BY <1>1, <1>2, TypeInit DEF Inv

LEMMA ScoringInvariant == Spec => []Inv
<1>1. ASSUME Inv, [Next]_vars PROVE Inv'
  <2>1. TypeOK' /\ ScoresInv' /\ CallsInv'
    BY <1>1, ScoringTypeStep, ScoresStep, CallsStep DEF Inv
  <2>2. GatesInv'
    BY <1>1, GatesStep, OtherGates DEF Inv
  <2> QED BY <2>1, <2>2 DEF Inv
<1> QED BY <1>1, Initially, PTL DEF Spec

(* Whatever the judge answers and wherever its lane stops, the             *)
(* deterministic gate and the promotion gate are those of the offline      *)
(* scoring of the same bundle (score_bundle and compose_gates, against     *)
(* CaseScoring's functions of the evidence).                               *)
THEOREM JudgeOwnsOneGate == Spec => []JudgeMovesNoGate
<1>1. Inv => JudgeMovesNoGate
  BY DEF Inv, GatesInv
<1> QED BY <1>1, ScoringInvariant, PTL

(* The counters on the cohort gate are those of the calls that were made.  *)
THEOREM CountersAreTheCalls == Spec => []CountersTellTheCalls
<1>1. ASSUME Inv PROVE CountersTellTheCalls
  <2> SUFFICES ASSUME Done, "lane_c" \notin errors, cohort # None
               PROVE  LET asked  == {i \in DOMAIN answers : answers[i] # <<>>}
                          marked == {i \in asked : Last(answers[i]) = "scored"} IN
                      /\ gates.cohort.invoked = (asked # {})
                      /\ gates.cohort.scored = Cardinality(marked)
                      /\ gates.cohort.ran = (marked # {})
                      /\ \A i \in asked : /\ Len(answers[i]) <= 2
                                          /\ "scored" \notin ToSet(Front(answers[i]))
                                          /\ cprime[i].code = Last(answers[i])
    BY DEF CountersTellTheCalls
  <2> DEFINE asked  == {i \in DOMAIN answers : answers[i] # <<>>}
             marked == {i \in asked : Last(answers[i]) = "scored"}
             hits   == {i \in DOMAIN cprime : cprime[i].code = "scored"}
  <2>1. /\ Len(cprime) = Len(lane.metrics)
        /\ \A i \in Asked : Tells(cprime[i], answers[i])
        /\ run.invoked = (\E i \in DOMAIN cprime : cprime[i].invoked)
        /\ run.scored = Scored(cprime)
        /\ run.ran = (Scored(cprime) > 0)
    BY <1>1 DEF Inv, CallsInv, Done
  <2>2. DOMAIN answers = Asked /\ DOMAIN cprime = Asked /\ Len(lane.metrics) \in Nat
    BY <1>1, <2>1, LaneTyped DEF Inv, TypeOK, Asked
  <2>3. marked = hits
    BY <2>1, <2>2 DEF Tells
  <2>4. (asked # {}) = (\E i \in DOMAIN cprime : cprime[i].invoked)
    <3>1. \A i \in Asked : cprime[i].invoked = (answers[i] # <<>>)
      BY <2>1 DEF Tells
    <3> QED BY <2>2, <3>1
  <2>5. IsFiniteSet(hits)
    <3>1. IsFiniteSet(Asked)
      BY <2>2, FS_Interval DEF Asked
    <3>2. hits \subseteq Asked
      BY <2>2
    <3> QED BY <3>1, <3>2, FS_Subset
  <2>6. Cardinality(hits) \in Nat /\ (Cardinality(hits) = 0 <=> hits = {})
    BY <2>5, FS_CardinalityType, FS_EmptySet
  <2>7. Scored(cprime) = Cardinality(hits)
    BY DEF Scored
  <2>8. \A i \in asked : /\ Len(answers[i]) <= 2
                         /\ "scored" \notin ToSet(Front(answers[i]))
                         /\ cprime[i].code = Last(answers[i])
    BY <2>1, <2>2 DEF Tells
  <2>9. gates.cohort = CohortGate
    BY <1>1 DEF Inv, GatesInv, Done
  <2>10. gates.cohort.invoked = run.invoked /\ gates.cohort.scored = run.scored
         /\ gates.cohort.ran = run.ran
    BY <2>9 DEF CohortGate
  <2> HIDE DEF asked, marked, hits
  <2>11. gates.cohort.invoked = (asked # {})
    BY <2>1, <2>4, <2>10
  <2>12. gates.cohort.scored = Cardinality(marked)
    BY <2>1, <2>3, <2>7, <2>10
  <2>13. gates.cohort.ran = (marked # {})
    BY <2>1, <2>3, <2>6, <2>7, <2>10
  <2> QED BY <2>8, <2>11, <2>12, <2>13 DEF asked, marked
<1> QED BY <1>1, ScoringInvariant, PTL

-----------------------------------------------------------------------------
(* Review and promotion.                                                   *)

(* Whoever is inside a claim holds the claim file: it is created with      *)
(* O_EXCL, and a process that dies leaves it behind.                       *)
Claimer(o, v) ==
  task[o] # Nothing /\ task[o].at \in {"read", "claim", "release"} /\ task[o].review = v
HeldInv == \A o \in Operators, v \in Reviews : Claimer(o, v) => lock[v] = o

(* What an operator is about to write.                                     *)
ClaimingInv ==
  \A o \in Operators : Doing(o, "claim") =>
    /\ task[o].item \in Item /\ task[o].item.status = "in_review"
    /\ claimants[task[o].review] = {}
WritingInv ==
  \A o \in Operators : Doing(o, "write") =>
    /\ task[o].item \in Item /\ task[o].item.status \in {"adjudicated", "dismissed"}
    /\ task[o].item.status = "adjudicated" => claimants[task[o].review] # {}

(* Who was given a review, against its file.                               *)
HandedInv ==
  \A v \in Reviews :
    /\ \A a, b \in claimants[v] : a = b
    /\ item[v] = Nothing \/ item[v].status = "pending" => claimants[v] = {}
    /\ item[v] # Nothing /\ item[v].status \in {"in_review", "adjudicated"} => claimants[v] # {}

ApprovedInv ==
  \A v \in Reviews : item[v] # Nothing /\ HumanLeg(item[v]) => v \in approved

RInv == ReviewTypeOK /\ HeldInv /\ ClaimingInv /\ WritingInv /\ HandedInv /\ ApprovedInv

(* What a promotion knows at each place.                                   *)
CopyInv ==
  \A p \in Promoters : work[p] # Nothing =>
    /\ work[p].at # "deny" => work[p].request.split # Nothing
    /\ work[p].at \in {"scan", "decide"} /\ work[p].request.review # Nothing
         => work[p].review # Nothing
    /\ work[p].at \in {"scan", "decide"} /\ work[p].review # Nothing /\ HumanLeg(work[p].review)
         => work[p].request.review \in approved

NeedsApproval(q) == q.destination \notin Park /\ q.review # Nothing
ClearedInv ==
  \A p \in Promoters :
    (Busy(p, "decide") \/ Busy(p, "mint")) /\ NeedsApproval(work[p].request) =>
      work[p].request.review \in approved

MintingInv ==
  \A p \in Promoters : Busy(p, "mint") =>
    /\ work[p].id \in Promotions
    /\ decision[work[p].id] = DecisionRow(work[p].request, TRUE)

(* While promotions run one at a time, nothing is decided after the scan.  *)
AloneInv ==
  ~ overlapped => \A p, q \in Promoters : work[p] # Nothing /\ work[q] # Nothing => p = q
ScannedInv ==
  ~ overlapped =>
    \A p \in Promoters : Busy(p, "decide") /\ work[p].request.destination \notin Park =>
      \A n \in Accepted :
        decision[n].split = work[p].request.split /\ decision[n].destination \notin Park
          => decision[n].destination = work[p].request.destination

PInv ==
  /\ PromotionTypeOK /\ CopyInv /\ ClearedInv /\ MintingInv /\ AloneInv /\ ScannedInv
  /\ SplitKept /\ ApprovalBehindArtifact
-----------------------------------------------------------------------------
(* Reviews.                                                                *)
(* Every step of the review queue keeps its files and tasks in shape.      *)
LEMMA ReviewTypes ==
  ASSUME ReviewTypeOK, WritingInv, ClaimingInv, NEW o \in Operators, ReviewStep(o)
  PROVE  ReviewTypeOK'
<1> USE NothingAssumption DEF ReviewTypeOK, Task, Begin, End, Doing
<1>1. CASE Enqueue(o) BY <1>1 DEF Enqueue, Item, Statuses
<1>2. CASE Claim(o) BY <1>2 DEF Claim
<1>3. CASE ClaimRead(o)
  <2> DEFINE v == task[o].review
  <2>1. v \in Reviews BY <1>3 DEF ClaimRead
  <2>2. CASE item[v] # Nothing /\ item[v].status = "pending"
    <3>1. item[v] \in Item BY <2>1, <2>2
    <3>2. [item[v] EXCEPT !.status = "in_review", !.claimed_by = o] \in Item
      BY <3>1 DEF Item, Statuses
    <3> QED BY <1>3, <2>1, <2>2, <3>2 DEF ClaimRead
  <2>3. CASE ~ (item[v] # Nothing /\ item[v].status = "pending")
    BY <1>3, <2>1, <2>3 DEF ClaimRead
  <2> QED BY <2>2, <2>3
<1>4. CASE ClaimWrite(o) BY <1>4 DEF ClaimWrite, ClaimingInv
<1>5. CASE ClaimRelease(o) BY <1>5 DEF ClaimRelease
<1>6. CASE Decide(o)
  <2>1. PICK v \in Reviews, outcome \in Outcomes :
          /\ item[v] # Nothing
          /\ Begin(o, "write", v, [item[v] EXCEPT !.status = Target(outcome),
                                                  !.outcome = outcome])
    BY <1>6 DEF Decide
  <2>2. [item[v] EXCEPT !.status = Target(outcome), !.outcome = outcome] \in Item
    BY <2>1 DEF Item, Target, Statuses
  <2> QED BY <1>6, <2>1, <2>2 DEF Decide
<1>7. CASE DecideWrite(o) BY <1>7 DEF DecideWrite, WritingInv
<1>8. CASE OperatorDies(o) BY <1>8 DEF OperatorDies
<1> QED BY <1>1, <1>2, <1>3, <1>4, <1>5, <1>6, <1>7, <1>8 DEF ReviewStep

(* The claim file has one holder inside a claim.                           *)
LEMMA ReviewHeld ==
  ASSUME RInv, NEW o \in Operators, ReviewStep(o)
  PROVE  HeldInv'
<1> USE NothingAssumption DEF RInv, ReviewTypeOK, Task, Begin, End, Doing, HeldInv, Claimer
<1>1. CASE Enqueue(o) BY <1>1 DEF Enqueue
<1>2. CASE Claim(o)
  <2>1. PICK w \in Reviews : /\ lock[w] = Nothing /\ lock' = [lock EXCEPT ![w] = o]
                             /\ task' = [task EXCEPT ![o] =
                                  [at |-> "read", review |-> w, item |-> Nothing]]
    BY <1>2 DEF Claim, LockFree
  <2> QED BY <2>1
<1>3. CASE ClaimRead(o) BY <1>3 DEF ClaimRead
<1>4. CASE ClaimWrite(o) BY <1>4 DEF ClaimWrite
<1>5. CASE ClaimRelease(o) BY <1>5 DEF ClaimRelease
<1>6. CASE Decide(o) BY <1>6 DEF Decide
<1>7. CASE DecideWrite(o) BY <1>7 DEF DecideWrite
<1>8. CASE OperatorDies(o) BY <1>8 DEF OperatorDies
<1> QED BY <1>1, <1>2, <1>3, <1>4, <1>5, <1>6, <1>7, <1>8 DEF ReviewStep

(* What is about to be written was true of the review when it was read, and *)
(* nobody else can be given the review meanwhile.                          *)
LEMMA ReviewWrites ==
  ASSUME RInv, NEW o \in Operators, ReviewStep(o)
  PROVE  ClaimingInv' /\ WritingInv'
<1> USE NothingAssumption
    DEF RInv, ReviewTypeOK, Task, Begin, End, Doing, ClaimingInv, WritingInv
<1>1. CASE Enqueue(o) BY <1>1 DEF Enqueue
<1>2. CASE Claim(o) BY <1>2 DEF Claim
<1>3. CASE ClaimRead(o)
  <2> DEFINE v == task[o].review
  <2>1. v \in Reviews BY <1>3 DEF ClaimRead
  <2>2. CASE item[v] # Nothing /\ item[v].status = "pending"
    <3>1. item[v] \in Item /\ claimants[v] = {} BY <2>1, <2>2 DEF HandedInv
    <3>2. [item[v] EXCEPT !.status = "in_review", !.claimed_by = o] \in Item
      BY <3>1 DEF Item, Statuses
    <3>3. [item[v] EXCEPT !.status = "in_review", !.claimed_by = o].status = "in_review"
      BY <3>1 DEF Item
    <3> HIDE DEF v
    <3>4. PICK copy \in Item : /\ copy.status = "in_review"
                              /\ task' = [task EXCEPT ![o] =
                                   [at |-> "claim", review |-> v, item |-> copy]]
      BY <1>3, <2>2, <3>2, <3>3 DEF ClaimRead, v
    <3>5. UNCHANGED claimants BY <1>3 DEF ClaimRead
    <3>6. ClaimingInv' BY <2>1, <3>1, <3>4, <3>5
    <3>7. WritingInv' BY <2>1, <3>4, <3>5
    <3> QED BY <3>6, <3>7
  <2>3. CASE ~ (item[v] # Nothing /\ item[v].status = "pending")
    BY <1>3, <2>1, <2>3 DEF ClaimRead
  <2> QED BY <2>2, <2>3
<1>4. CASE ClaimWrite(o)
  <2> DEFINE v == task[o].review
  <2>1. v \in Reviews /\ lock[v] = o BY <1>4 DEF ClaimWrite, HeldInv, Claimer
  <2>2. \A other \in Operators \ {o} : Doing(other, "claim") => task[other].review # v
    BY <2>1 DEF HeldInv, Claimer
  <2> QED BY <1>4, <2>1, <2>2 DEF ClaimWrite
<1>5. CASE ClaimRelease(o) BY <1>5 DEF ClaimRelease
<1>6. CASE Decide(o)
  <2>1. PICK v \in Reviews, outcome \in Outcomes :
          /\ item[v] # Nothing
          /\ Target(outcome) \in Transitions[item[v].status]
          /\ task' = [task EXCEPT ![o] = [at |-> "write", review |-> v,
                item |-> [item[v] EXCEPT !.status = Target(outcome), !.outcome = outcome]]]
    BY <1>6 DEF Decide
  <2> DEFINE copy == [item[v] EXCEPT !.status = Target(outcome), !.outcome = outcome]
  <2> item[v] \in Item BY <2>1
  <2>2. copy \in Item /\ copy.status = Target(outcome)
    <3>1. copy \in Item BY DEF Item, Target, Statuses
    <3>2. copy.status = Target(outcome) BY DEF Item
    <3> QED BY <3>1, <3>2
  <2>3. task' = [task EXCEPT ![o] = [at |-> "write", review |-> v, item |-> copy]]
    BY <2>1
  <2> HIDE DEF copy
  <2>4. Target(outcome) = "adjudicated" => item[v].status = "in_review"
    BY <2>1 DEF Transitions, Item, Statuses
  <2>5. Target(outcome) = "adjudicated" => claimants[v] # {}
    BY <2>1, <2>4 DEF HandedInv
  <2>6. Target(outcome) \in {"adjudicated", "dismissed"} BY DEF Target
  <2>7. copy.status \in {"adjudicated", "dismissed"}
        /\ (copy.status = "adjudicated" => claimants[v] # {})
    BY <2>2, <2>5, <2>6
  <2>8. UNCHANGED claimants BY <1>6 DEF Decide
  <2>9. ClaimingInv' BY <2>3, <2>8
  <2>10. WritingInv' BY <2>2, <2>3, <2>7, <2>8
  <2> QED BY <2>9, <2>10
<1>7. CASE DecideWrite(o) BY <1>7 DEF DecideWrite
<1>8. CASE OperatorDies(o) BY <1>8 DEF OperatorDies
<1> QED BY <1>1, <1>2, <1>3, <1>4, <1>5, <1>6, <1>7, <1>8 DEF ReviewStep

(* The file says whether somebody was given the review; and nobody is      *)
(* given it after somebody else.                                           *)
LEMMA ReviewHanded ==
  ASSUME RInv, NEW o \in Operators, ReviewStep(o)
  PROVE  HandedInv' /\ ApprovedInv'
<1> USE NothingAssumption
    DEF RInv, ReviewTypeOK, Task, Begin, End, Doing, HandedInv, ApprovedInv, HumanLeg
<1>1. CASE Enqueue(o) BY <1>1 DEF Enqueue, Item
<1>2. CASE Claim(o) BY <1>2 DEF Claim
<1>3. CASE ClaimRead(o) BY <1>3 DEF ClaimRead
<1>4. CASE ClaimWrite(o)
  <2> DEFINE v == task[o].review
  <2>1. /\ v \in Reviews /\ claimants[v] = {}
        /\ task[o].item \in Item /\ task[o].item.status = "in_review"
    BY <1>4 DEF ClaimWrite, ClaimingInv
  <2>2. /\ item' = [item EXCEPT ![v] = task[o].item]
        /\ claimants' = [claimants EXCEPT ![v] = {o}]
        /\ UNCHANGED approved
    BY <1>4, <2>1 DEF ClaimWrite
  <2> DEFINE copy == task[o].item
  <2> HIDE DEF v, copy
  <2>3. /\ v \in Reviews /\ copy \in Item /\ copy.status = "in_review"
        /\ item' = [item EXCEPT ![v] = copy]
        /\ claimants' = [claimants EXCEPT ![v] = {o}] /\ UNCHANGED approved
    BY <2>1, <2>2 DEF v, copy
  <2>4. HandedInv' BY <2>3
  <2>5. ApprovedInv' BY <2>3
  <2> QED BY <2>4, <2>5
<1>5. CASE ClaimRelease(o) BY <1>5 DEF ClaimRelease
<1>6. CASE Decide(o) BY <1>6 DEF Decide
<1>7. CASE DecideWrite(o) BY <1>7 DEF DecideWrite, WritingInv
<1>8. CASE OperatorDies(o) BY <1>8 DEF OperatorDies
<1> QED BY <1>1, <1>2, <1>3, <1>4, <1>5, <1>6, <1>7, <1>8 DEF ReviewStep

(* Together: the reviews' invariant is kept.                               *)
LEMMA ReviewStepKeeps ==
  ASSUME RInv, NEW o \in Operators, ReviewStep(o)
  PROVE  RInv'
BY ReviewTypes, ReviewHeld, ReviewWrites, ReviewHanded DEF RInv

(* A step elsewhere keeps it too.                                          *)
LEMMA ReviewsUntouched == RInv /\ UNCHANGED reviewVars => RInv'
BY DEF RInv, reviewVars, ReviewTypeOK, HeldInv, Claimer, ClaimingInv, WritingInv, Doing,
       HandedInv, ApprovedInv, HumanLeg
-----------------------------------------------------------------------------
(* Promotions.                                                             *)
(* A review's step leaves what the promotions know true: their files are   *)
(* theirs alone, and approved only grows.                                  *)
LEMMA ApprovedGrows ==
  ASSUME NEW o \in Operators, ReviewStep(o)
  PROVE  approved \subseteq approved'
BY DEF ReviewStep, Enqueue, Claim, ClaimRead, ClaimWrite, ClaimRelease, Decide, DecideWrite,
       OperatorDies

(* So what holds of the promotions holds after a review step.              *)
LEMMA ReviewsLeavePromotions ==
  ASSUME PInv, ReviewTypeOK', approved \subseteq approved', UNCHANGED promotionVars
  PROVE  PInv'
<1> USE DEF PInv, PromotionTypeOK, promotionVars
<1>1. PromotionTypeOK' BY DEF PromotionTypeOK
<1>2. CopyInv' BY DEF CopyInv, HumanLeg
<1>3. ClearedInv' BY DEF ClearedInv, NeedsApproval, Busy
<1>4. MintingInv' BY DEF MintingInv, Busy, DecisionRow
<1>5. AloneInv' BY DEF AloneInv
<1>6. ScannedInv' BY DEF ScannedInv, Busy, Accepted
<1>7. SplitKept' BY DEF SplitKept, Accepted
<1>8. ApprovalBehindArtifact' BY DEF ApprovalBehindArtifact
<1> QED BY <1>1, <1>2, <1>3, <1>4, <1>5, <1>6, <1>7, <1>8

(* The record of a process after a move, written out.                      *)
LEMMA Moved ==
  ASSUME NEW w \in Work,
         NEW place \in {"load", "scan", "decide", "deny", "mint"},
         NEW copy \in Item \cup {Nothing}, NEW n \in Promotions \cup {Nothing}
  PROVE  /\ [w EXCEPT !.at = place]
              = [at |-> place, request |-> w.request, review |-> w.review, id |-> w.id]
         /\ [w EXCEPT !.review = copy, !.at = place]
              = [at |-> place, request |-> w.request, review |-> copy, id |-> w.id]
         /\ [w EXCEPT !.at = place, !.id = n]
              = [at |-> place, request |-> w.request, review |-> w.review, id |-> n]
<1> DEFINE loaded == [w EXCEPT !.review = copy, !.at = place]
           minted == [w EXCEPT !.at = place, !.id = n]
<1>1. \A r \in Work : r = [at |-> r.at, request |-> r.request, review |-> r.review, id |-> r.id]
  BY DEF Work
<1>2. [w EXCEPT !.at = place]
        = [at |-> place, request |-> w.request, review |-> w.review, id |-> w.id]
  BY DEF Work
<1>3. loaded \in Work BY DEF Work
<1>4. loaded.at = place /\ loaded.request = w.request /\ loaded.review = copy
        /\ loaded.id = w.id
  BY DEF Work
<1>5. minted \in Work BY DEF Work
<1>6. minted.at = place /\ minted.request = w.request /\ minted.review = w.review
        /\ minted.id = n
  BY DEF Work
<1> HIDE DEF loaded, minted
<1>7. loaded = [at |-> place, request |-> w.request, review |-> copy, id |-> w.id]
  BY <1>1, <1>3, <1>4
<1>8. minted = [at |-> place, request |-> w.request, review |-> w.review, id |-> n]
  BY <1>1, <1>5, <1>6
<1> QED BY <1>2, <1>7, <1>8 DEF loaded, minted

Put(p, place, q, copy, n) ==
  work' = [work EXCEPT ![p] = [at |-> place, request |-> q, review |-> copy, id |-> n]]

(* What each step of a promotion does to it.                               *)
LEMMA LoadFlat ==
  ASSUME PromotionTypeOK, NEW p \in Promoters, Load(p)
  PROVE  /\ work[p] \in Work /\ work[p].at = "load"
         /\ \/ Stop(p)
            \/ \E copy \in Item \cup {Nothing} :
                 /\ copy = IF work[p].request.review = Nothing THEN Nothing
                           ELSE item[work[p].request.review]
                 /\ work[p].request.review # Nothing => copy # Nothing
                 /\ \/ Put(p, "deny", work[p].request, copy, work[p].id)
                    \/ Put(p, "scan", work[p].request, copy, work[p].id)
<1>1. work[p] \in Work /\ work[p].at = "load" BY DEF PromotionTypeOK, Load, Busy
<1>2. work[p].request.review \in Reviews \cup {Nothing}
  BY <1>1, PromotionAssumption DEF Work, Request
<1> DEFINE copy == IF work[p].request.review = Nothing THEN Nothing
                   ELSE item[work[p].request.review]
<1>3. copy \in Item \cup {Nothing} BY <1>2 DEF PromotionTypeOK, ReviewTypeOK
<1>4. CASE work[p].request.review # Nothing /\ copy = Nothing
  BY <1>1, <1>4 DEF Load
<1>5. CASE ~ (work[p].request.review # Nothing /\ copy = Nothing)
  <2>1. work' = [work EXCEPT ![p] =
          [work[p] EXCEPT !.review = copy,
                          !.at = IF Forbidden(work[p].request) THEN "deny" ELSE "scan"]]
    BY <1>5 DEF Load
  <2> HIDE DEF copy
  <2>2. CASE Forbidden(work[p].request)
    <3>1. Put(p, "deny", work[p].request, copy, work[p].id)
      BY <1>1, <1>3, <2>1, <2>2, Moved DEF Put, Work
    <3> QED BY <1>1, <1>3, <1>5, <3>1 DEF copy
  <2>3. CASE ~ Forbidden(work[p].request)
    <3>1. Put(p, "scan", work[p].request, copy, work[p].id)
      BY <1>1, <1>3, <2>1, <2>3, Moved DEF Put, Work
    <3> QED BY <1>1, <1>3, <1>5, <3>1 DEF copy
  <2> QED BY <2>2, <2>3
<1> QED BY <1>4, <1>5

(* A promotion that goes on to decide has passed both late gates.          *)
LEMMA ScanFlat ==
  ASSUME PromotionTypeOK, NEW p \in Promoters, Scan(p)
  PROVE  /\ work[p] \in Work /\ work[p].at = "scan"
         /\ \/ Put(p, "deny", work[p].request, work[p].review, work[p].id)
            \/ /\ Put(p, "decide", work[p].request, work[p].review, work[p].id)
               /\ ~ (Contaminated(work[p].request) /\ work[p].request.destination \notin Park)
               /\ ~ ReviewBlocks(work[p].request, work[p].review)
<1>1. work[p] \in Work /\ work[p].at = "scan" BY DEF PromotionTypeOK, Scan, Busy
<1> DEFINE blocked == \/ Contaminated(work[p].request) /\ work[p].request.destination \notin Park
                      \/ ReviewBlocks(work[p].request, work[p].review)
<1>2. Move(p, IF blocked THEN "deny" ELSE "decide") BY DEF Scan
<1>3. CASE blocked
  <2>1. work' = [work EXCEPT ![p] = [work[p] EXCEPT !.at = "deny"]] BY <1>2, <1>3 DEF Move
  <2>2. Put(p, "deny", work[p].request, work[p].review, work[p].id)
    BY <1>1, <2>1, Moved DEF Put, Work
  <2> QED BY <1>1, <2>2
<1>4. CASE ~ blocked
  <2> HIDE DEF blocked
  <2>1. work' = [work EXCEPT ![p] = [work[p] EXCEPT !.at = "decide"]] BY <1>2, <1>4 DEF Move
  <2>2. Put(p, "decide", work[p].request, work[p].review, work[p].id)
    BY <1>1, <2>1, Moved DEF Put, Work
  <2> QED BY <1>1, <1>4, <2>2 DEF blocked
<1> QED BY <1>3, <1>4

(* An acceptance writes one free row.                                      *)
LEMMA DecidedFlat ==
  ASSUME PromotionTypeOK, NEW p \in Promoters, Decided(p)
  PROVE  /\ work[p] \in Work /\ work[p].at = "decide"
         /\ \E n \in Promotions :
              /\ decision[n] = Nothing
              /\ decision' = [decision EXCEPT ![n] = DecisionRow(work[p].request, TRUE)]
              /\ \/ Stop(p)
                 \/ Put(p, "mint", work[p].request, work[p].review, n)
<1>1. work[p] \in Work /\ work[p].at = "decide" BY DEF PromotionTypeOK, Decided, Busy
<1>2. PICK n \in Promotions :
        /\ decision[n] = Nothing
        /\ decision' = [decision EXCEPT ![n] = DecisionRow(work[p].request, TRUE)]
        /\ \/ Stop(p)
           \/ work' = [work EXCEPT ![p] = [work[p] EXCEPT !.at = "mint", !.id = n]]
  BY DEF Decided
<1>3. [work[p] EXCEPT !.at = "mint", !.id = n]
        = [at |-> "mint", request |-> work[p].request, review |-> work[p].review, id |-> n]
  BY <1>1, Moved, NothingAssumption DEF Work
<1> QED BY <1>1, <1>2, <1>3 DEF Put

(* If the process goes on after that, it is to write the artifact.         *)
LEMMA DecidedGoesOn ==
  ASSUME PromotionTypeOK, NEW p \in Promoters, Decided(p), work'[p] # Nothing
  PROVE  \E n \in Promotions :
           /\ decision' = [decision EXCEPT ![n] = DecisionRow(work[p].request, TRUE)]
           /\ Put(p, "mint", work[p].request, work[p].review, n)
           /\ work'[p].at = "mint" /\ work'[p].request = work[p].request /\ work'[p].id = n
<1>1. PICK n \in Promotions :
        /\ decision' = [decision EXCEPT ![n] = DecisionRow(work[p].request, TRUE)]
        /\ Stop(p) \/ Put(p, "mint", work[p].request, work[p].review, n)
  BY DecidedFlat
<1>2. ~ Stop(p) BY DEF Stop, PromotionTypeOK
<1>3. Put(p, "mint", work[p].request, work[p].review, n) BY <1>1, <1>2
<1>4. work'[p].at = "mint" /\ work'[p].request = work[p].request /\ work'[p].id = n
  BY <1>3 DEF Put, PromotionTypeOK
<1> QED BY <1>1, <1>3, <1>4

(* A row can be made of a request that has a split group.                  *)
LEMMA RowOfRequest ==
  ASSUME PromotionTypeOK, NEW p \in Promoters, work[p] # Nothing, work[p].request.split # Nothing,
         NEW accepted \in BOOLEAN
  PROVE  DecisionRow(work[p].request, accepted) \in Decision
<1>1. work[p].request \in Request BY PromotionAssumption DEF PromotionTypeOK, Work
<1> QED BY <1>1 DEF DecisionRow, Decision, Request

(* Every step of a promotion keeps its files and processes in shape.       *)
LEMMA PromotionTypes ==
  ASSUME PInv, NEW p \in Promoters, PromotionStep(p)
  PROVE  PromotionTypeOK'
<1>0. PromotionTypeOK /\ CopyInv /\ MintingInv BY DEF PInv
<1>a. ReviewTypeOK'
  BY <1>0 DEF PromotionStep, Ask, Load, Scan, Deny, Decided, Mint, PromoterDies, PromotionTypeOK,
              ReviewTypeOK, reviewVars
<1> USE DEF PromotionTypeOK
<1>1. CASE Ask(p)
  <2>1. PICK q \in Requests, place \in {"load", "deny"} :
          work' = [work EXCEPT ![p] =
            [at |-> place, request |-> q, review |-> Nothing, id |-> Nothing]]
    BY <1>1 DEF Ask
  <2> QED BY <1>0, <1>a, <1>1, <2>1 DEF Ask, Work
<1>2. CASE Load(p) BY <1>0, <1>a, <1>2, LoadFlat DEF Load, Put, Stop, Work
<1>3. CASE Scan(p) BY <1>0, <1>a, <1>3, ScanFlat DEF Scan, Put, Stop, Work
<1>4. CASE Deny(p) BY <1>0, <1>a, <1>4, RowOfRequest DEF Deny, Busy, Stop
<1>5. CASE Decided(p)
  <2>1. PICK n \in Promotions :
          /\ decision' = [decision EXCEPT ![n] = DecisionRow(work[p].request, TRUE)]
          /\ \/ Stop(p)
             \/ Put(p, "mint", work[p].request, work[p].review, n)
    BY <1>0, <1>5, DecidedFlat
  <2>2. work[p] \in Work /\ work[p].at = "decide" BY <1>0, <1>5, DecidedFlat
  <2>3. work[p] # Nothing BY <1>5 DEF Decided, Busy
  <2>4. DecisionRow(work[p].request, TRUE) \in Decision
    BY <1>0, <2>2, <2>3, RowOfRequest DEF CopyInv
  <2>5. decision' \in [Promotions -> Decision \cup {Nothing}] BY <1>0, <2>1, <2>4
  <2>6. work' \in [Promoters -> Work \cup {Nothing}]
    BY <1>0, <2>1, <2>2 DEF Put, Stop, Work
  <2> QED BY <1>0, <1>a, <1>5, <2>5, <2>6 DEF Decided
<1>6. CASE Mint(p)
  <2>1. work[p].request.destination \in Destinations
    BY <1>0, <1>6, PromotionAssumption DEF Mint, Busy, Work, Request
  <2> QED BY <1>0, <1>a, <1>6, <2>1 DEF Mint, MintingInv, Busy, Stop
<1>7. CASE PromoterDies(p) BY <1>0, <1>a, <1>7 DEF PromoterDies, Stop
<1> QED BY <1>1, <1>2, <1>3, <1>4, <1>5, <1>6, <1>7 DEF PromotionStep

(* A promotion begins with nothing read.                                   *)
LEMMA AskFlat ==
  ASSUME NEW p \in Promoters, Ask(p)
  PROVE  /\ work[p] = Nothing
         /\ \E q \in Requests, place \in {"load", "deny"} :
              /\ Put(p, place, q, Nothing, Nothing)
              /\ place = "load" => q.split # Nothing
         /\ overlapped' = (overlapped \/ \E other \in Promoters : work[other] # Nothing)
BY DEF Ask, Put, SourceSound

(* Only its own record moves with a step of p, and only to where the code  *)
(* goes next.                                                              *)
LEMMA OthersStay ==
  ASSUME PInv, NEW p \in Promoters, PromotionStep(p), NEW other \in Promoters, other # p
  PROVE  work'[other] = work[other]
<1>1. PromotionTypeOK BY DEF PInv
<1>2. CASE Ask(p) BY <1>1, <1>2, AskFlat DEF Put, PromotionTypeOK
<1>3. CASE Load(p) BY <1>1, <1>3, LoadFlat DEF Put, Stop, PromotionTypeOK
<1>4. CASE Scan(p) BY <1>1, <1>4, ScanFlat DEF Put, PromotionTypeOK
<1>5. CASE Deny(p) BY <1>1, <1>5 DEF Deny, Stop, PromotionTypeOK
<1>6. CASE Decided(p) BY <1>1, <1>6, DecidedFlat DEF Put, Stop, PromotionTypeOK
<1>7. CASE Mint(p) BY <1>1, <1>7 DEF Mint, Stop, PromotionTypeOK
<1>8. CASE PromoterDies(p) BY <1>1, <1>8 DEF PromoterDies, Stop, PromotionTypeOK
<1> QED BY <1>2, <1>3, <1>4, <1>5, <1>6, <1>7, <1>8 DEF PromotionStep

(* What the process has read is what it was asked about.                   *)
LEMMA CopyKept ==
  ASSUME RInv, PInv, NEW p \in Promoters, PromotionStep(p)
  PROVE  CopyInv'
<1>1. PromotionTypeOK /\ CopyInv /\ UNCHANGED <<item, approved>>
  BY DEF PInv, PromotionStep, Ask, Load, Scan, Deny, Decided, Mint, PromoterDies, reviewVars
<1>2. SUFFICES ASSUME work'[p] # Nothing
               PROVE  /\ work'[p].at # "deny" => work'[p].request.split # Nothing
                      /\ work'[p].at \in {"scan", "decide"} /\ work'[p].request.review # Nothing
                           => work'[p].review # Nothing
                      /\ work'[p].at \in {"scan", "decide"} /\ work'[p].review # Nothing
                         /\ HumanLeg(work'[p].review)
                           => work'[p].request.review \in approved
  BY <1>1, OthersStay DEF CopyInv, HumanLeg
<1>3. CASE Ask(p) BY <1>1, <1>2, <1>3, AskFlat DEF Put, PromotionTypeOK
<1>4. CASE Load(p)
  <2>1. work[p] \in Work /\ work[p].at = "load" BY <1>1, <1>4, LoadFlat
  <2>2. work[p].request.split # Nothing
    BY <1>4, <1>1, <2>1 DEF CopyInv, Load, Busy
  <2>3. PICK copy \in Item \cup {Nothing} :
          /\ copy = IF work[p].request.review = Nothing THEN Nothing
                    ELSE item[work[p].request.review]
          /\ work[p].request.review # Nothing => copy # Nothing
          /\ \/ Put(p, "deny", work[p].request, copy, work[p].id)
             \/ Put(p, "scan", work[p].request, copy, work[p].id)
    BY <1>1, <1>2, <1>4, LoadFlat DEF Stop, PromotionTypeOK
  <2>4. work'[p].request = work[p].request /\ work'[p].review = copy
    BY <1>1, <2>3 DEF Put, PromotionTypeOK
  <2>5. work[p].request.review \in Reviews \cup {Nothing}
    BY <2>1, PromotionAssumption DEF Work, Request
  <2>6. copy # Nothing /\ HumanLeg(copy) => work[p].request.review \in approved
    BY <2>3, <2>5 DEF RInv, ApprovedInv
  <2> QED BY <2>2, <2>3, <2>4, <2>6
<1>5. CASE Scan(p)
  <2>1. work[p] # Nothing BY <1>5 DEF Scan, Busy
  <2> QED BY <1>1, <1>5, <2>1, ScanFlat DEF Put, PromotionTypeOK, CopyInv
<1>6. CASE Deny(p) BY <1>1, <1>2, <1>6 DEF Deny, Stop, PromotionTypeOK
<1>7. CASE Decided(p)
  <2>1. work[p] # Nothing BY <1>7 DEF Decided, Busy
  <2>3. work'[p].at = "mint" /\ work'[p].request = work[p].request
    BY <1>1, <1>2, <1>7, DecidedGoesOn
  <2>4. work[p].at = "decide" BY <1>1, <1>7, DecidedFlat
  <2> QED BY <1>1, <2>1, <2>3, <2>4 DEF CopyInv
<1>8. CASE Mint(p) BY <1>1, <1>2, <1>8 DEF Mint, Stop, PromotionTypeOK
<1>9. CASE PromoterDies(p) BY <1>1, <1>2, <1>9 DEF PromoterDies, Stop, PromotionTypeOK
<1> QED BY <1>3, <1>4, <1>5, <1>6, <1>7, <1>8, <1>9 DEF PromotionStep

(* Past the gates, a review that the request names was approved.           *)
LEMMA ClearedKept ==
  ASSUME RInv, PInv, NEW p \in Promoters, PromotionStep(p)
  PROVE  ClearedInv'
<1>1. PromotionTypeOK /\ CopyInv /\ ClearedInv /\ UNCHANGED approved
  BY DEF PInv, PromotionStep, Ask, Load, Scan, Deny, Decided, Mint, PromoterDies, reviewVars
<1>2. SUFFICES ASSUME work'[p] # Nothing, work'[p].at \in {"decide", "mint"},
                      NeedsApproval(work'[p].request)
               PROVE  work'[p].request.review \in approved
  BY <1>1, OthersStay DEF ClearedInv, Busy, NeedsApproval
<1>3. CASE Ask(p) BY <1>1, <1>2, <1>3, AskFlat DEF Put, PromotionTypeOK
<1>4. CASE Load(p) BY <1>1, <1>2, <1>4, LoadFlat DEF Put, Stop, PromotionTypeOK
<1>5. CASE Scan(p)
  <2>1. work[p] # Nothing /\ work[p].at = "scan" BY <1>5 DEF Scan, Busy
  <2>2. /\ work'[p].request = work[p].request
        /\ ~ ReviewBlocks(work[p].request, work[p].review)
    BY <1>1, <1>2, <1>5, ScanFlat DEF Put, PromotionTypeOK
  <2> QED BY <1>1, <1>2, <2>1, <2>2 DEF CopyInv, NeedsApproval, ReviewBlocks
<1>6. CASE Deny(p) BY <1>1, <1>2, <1>6 DEF Deny, Stop, PromotionTypeOK
<1>7. CASE Decided(p)
  <2>1. Busy(p, "decide") BY <1>7 DEF Decided
  <2>3. work'[p].request = work[p].request BY <1>1, <1>2, <1>7, DecidedGoesOn
  <2> QED BY <1>1, <1>2, <2>1, <2>3 DEF ClearedInv
<1>8. CASE Mint(p) BY <1>1, <1>2, <1>8 DEF Mint, Stop, PromotionTypeOK
<1>9. CASE PromoterDies(p) BY <1>1, <1>2, <1>9 DEF PromoterDies, Stop, PromotionTypeOK
<1> QED BY <1>3, <1>4, <1>5, <1>6, <1>7, <1>8, <1>9 DEF PromotionStep

(* The rows of the index: only a free id is written, and it says whose     *)
(* request was accepted.                                                   *)
LEMMA RowsWritten ==
  ASSUME PInv, NEW p \in Promoters, PromotionStep(p)
  PROVE  \/ UNCHANGED decision
         \/ /\ work[p] # Nothing /\ work[p].request.split # Nothing
            /\ \E n \in Promotions, accepted \in BOOLEAN :
                 /\ decision[n] = Nothing
                 /\ DecisionRow(work[p].request, accepted) \in Decision
                 /\ decision' = [decision EXCEPT ![n] = DecisionRow(work[p].request, accepted)]
                 /\ accepted => Busy(p, "decide")
                 /\ work'[p] # Nothing => /\ work'[p].at = "mint" /\ work'[p].id = n
                                       /\ work'[p].request = work[p].request /\ accepted
<1>1. PromotionTypeOK /\ CopyInv BY DEF PInv
<1>2. CASE Ask(p) \/ Load(p) \/ Scan(p) \/ Mint(p) \/ PromoterDies(p)
  BY <1>2 DEF Ask, Load, Scan, Mint, PromoterDies
<1>3. CASE Deny(p)
  <2>1. work[p] # Nothing BY <1>3 DEF Deny, Busy
  <2>2. work'[p] = Nothing BY <1>1, <1>3 DEF Deny, Stop, PromotionTypeOK
  <2> QED BY <1>1, <1>3, <2>1, <2>2, RowOfRequest DEF Deny
<1>4. CASE Decided(p)
  <2>1. Busy(p, "decide") /\ work[p] # Nothing /\ work[p].request.split # Nothing
    BY <1>1, <1>4 DEF Decided, Busy, CopyInv
  <2>2. PICK n \in Promotions :
          /\ decision[n] = Nothing
          /\ decision' = [decision EXCEPT ![n] = DecisionRow(work[p].request, TRUE)]
          /\ \/ Stop(p)
             \/ Put(p, "mint", work[p].request, work[p].review, n)
    BY <1>1, <1>4, DecidedFlat
  <2>3. work'[p] # Nothing => /\ work'[p].at = "mint" /\ work'[p].id = n
                          /\ work'[p].request = work[p].request
    BY <1>1, <2>2 DEF Put, Stop, PromotionTypeOK
  <2>4. DecisionRow(work[p].request, TRUE) \in Decision BY <1>1, <2>1, RowOfRequest
  <2> QED BY <2>1, <2>2, <2>3, <2>4
<1> QED BY <1>2, <1>3, <1>4 DEF PromotionStep

(* A minting process has its accepted row, which nobody overwrites.        *)
LEMMA MintingKept ==
  ASSUME PInv, NEW p \in Promoters, PromotionStep(p)
  PROVE  MintingInv'
<1>1. PromotionTypeOK /\ MintingInv /\ PromotionTypeOK' BY PromotionTypes DEF PInv
<1>2. \A n \in Promotions : decision[n] # Nothing => decision'[n] = decision[n]
  BY <1>1, RowsWritten DEF PromotionTypeOK
<1>3. \A other \in Promoters \ {p} : Busy(other, "mint")' =>
        /\ work'[other].id \in Promotions
        /\ decision'[work'[other].id] = DecisionRow(work'[other].request, TRUE)
  <2> SUFFICES ASSUME NEW other \in Promoters \ {p}, Busy(other, "mint")'
               PROVE  /\ work'[other].id \in Promotions
                      /\ decision'[work'[other].id] = DecisionRow(work'[other].request, TRUE)
    OBVIOUS
  <2>1. work'[other] = work[other] BY OthersStay
  <2>2. /\ work[other].id \in Promotions
        /\ decision[work[other].id] = DecisionRow(work[other].request, TRUE)
    BY <1>1, <2>1 DEF MintingInv, Busy
  <2>3. work[other] \in Work /\ work[other].at = "mint"
    BY <1>1, <2>1 DEF PromotionTypeOK, Busy
  <2>4. work[other].request.split # Nothing BY <2>1, <2>3 DEF PInv, CopyInv, Busy
  <2>5. decision[work[other].id] # Nothing
    BY <1>1, <2>1, <2>2, <2>4, RowOfRequest, UndecidedAssumption DEF Busy
  <2> QED BY <1>2, <2>1, <2>2, <2>5
<1>4. Busy(p, "mint")' => /\ work'[p].id \in Promotions
                         /\ decision'[work'[p].id] = DecisionRow(work'[p].request, TRUE)
  <2> SUFFICES ASSUME work'[p] # Nothing, work'[p].at = "mint"
               PROVE  /\ work'[p].id \in Promotions
                      /\ decision'[work'[p].id] = DecisionRow(work'[p].request, TRUE)
    BY DEF Busy
  <2>1. Decided(p)
    <3>1. ~ Ask(p) BY <1>1, AskFlat DEF Put, PromotionTypeOK
    <3>2. ~ Load(p) BY <1>1, LoadFlat DEF Put, Stop, PromotionTypeOK
    <3>3. ~ Scan(p) BY <1>1, ScanFlat DEF Put, PromotionTypeOK
    <3>4. ~ (Deny(p) \/ Mint(p) \/ PromoterDies(p))
      BY <1>1 DEF Deny, Mint, PromoterDies, Stop, PromotionTypeOK
    <3> QED BY <3>1, <3>2, <3>3, <3>4 DEF PromotionStep
  <2>2. PICK n \in Promotions :
          /\ decision' = [decision EXCEPT ![n] = DecisionRow(work[p].request, TRUE)]
          /\ Put(p, "mint", work[p].request, work[p].review, n)
    BY <1>1, <2>1, DecidedGoesOn
  <2>3. work'[p].id = n /\ work'[p].request = work[p].request
    BY <1>1, <2>2 DEF Put, PromotionTypeOK
  <2>4. decision'[n] = DecisionRow(work[p].request, TRUE) BY <1>1, <2>2 DEF PromotionTypeOK
  <2> QED BY <2>3, <2>4
<1> QED BY <1>3, <1>4 DEF MintingInv

(* A promotion that begins beside another one is remembered.               *)
LEMMA AloneKept ==
  ASSUME PInv, NEW p \in Promoters, PromotionStep(p)
  PROVE  AloneInv' /\ (~ overlapped' => ~ overlapped)
<1>1. PromotionTypeOK /\ AloneInv BY DEF PInv
<1>2. CASE Ask(p)
  <2>1. overlapped' = (overlapped \/ \E other \in Promoters : work[other] # Nothing)
    BY <1>2, AskFlat
  <2> QED BY <2>1, OthersStay DEF AloneInv
<1>3. CASE ~ Ask(p)
  <2>1. UNCHANGED overlapped /\ work[p] # Nothing
    BY <1>3 DEF PromotionStep, Load, Scan, Deny, Decided, Mint, PromoterDies, Busy
  <2> QED BY <1>1, <2>1, OthersStay DEF AloneInv
<1> QED BY <1>2, <1>3

(* While promotions run one at a time, what the scan saw still stands when *)
(* the decision is written.                                                *)
LEMMA ScannedKept ==
  ASSUME PInv, NEW p \in Promoters, PromotionStep(p)
  PROVE  ScannedInv'
<1>1. PromotionTypeOK /\ AloneInv /\ ScannedInv BY DEF PInv
<1>2. SUFFICES ASSUME ~ overlapped', NEW q \in Promoters, Busy(q, "decide")',
                      work'[q].request.destination \notin Park,
                      NEW n \in Accepted', decision'[n].split = work'[q].request.split,
                      decision'[n].destination \notin Park
               PROVE  decision'[n].destination = work'[q].request.destination
  BY DEF ScannedInv
<1>3. ~ overlapped BY <1>2, AloneKept
<1>4. UNCHANGED decision
  <2>1. SUFFICES ASSUME decision' # decision PROVE FALSE
    OBVIOUS
  <2>2. /\ work[p] # Nothing
        /\ work'[p] # Nothing => work'[p].at = "mint"
    BY <2>1, RowsWritten
  <2>3. q = p
    BY <1>1, <1>2, <1>3, <2>2, OthersStay DEF AloneInv, Busy
  <2> QED BY <1>2, <2>2, <2>3 DEF Busy
<1>5. n \in Accepted BY <1>4 DEF Accepted
<1>6. CASE work'[q] = work[q]
  BY <1>1, <1>2, <1>3, <1>4, <1>5, <1>6 DEF ScannedInv, Busy
<1>7. CASE work'[q] # work[q]
  <2>1. q = p BY <1>7, OthersStay
  <2>2. Scan(p)
    <3> USE <1>2, <2>1 DEF Busy
    <3>1. ~ Ask(p) BY <1>1, AskFlat DEF Put, PromotionTypeOK
    <3>2. ~ Load(p) BY <1>1, LoadFlat DEF Put, Stop, PromotionTypeOK
    <3>3. ~ Decided(p) BY <1>1, DecidedGoesOn
    <3>4. ~ (Deny(p) \/ Mint(p) \/ PromoterDies(p))
      BY <1>1 DEF Deny, Mint, PromoterDies, Stop, PromotionTypeOK
    <3> QED BY <3>1, <3>2, <3>3, <3>4 DEF PromotionStep
  <2>3. /\ work'[p].request = work[p].request
        /\ ~ (Contaminated(work[p].request) /\ work[p].request.destination \notin Park)
    BY <1>1, <1>2, <2>1, <2>2, ScanFlat DEF Put, PromotionTypeOK, Busy
  <2>4. ~ Clashes(work[p].request, decision[n])
    BY <1>2, <1>5, <2>1, <2>3 DEF Contaminated
  <2> QED BY <1>2, <1>4, <2>1, <2>3, <2>4 DEF Clashes
<1> QED BY <1>6, <1>7

(* A new accepted row agrees with the rows its scan saw.                   *)
LEMMA SplitStaysInPlace ==
  ASSUME PInv, NEW p \in Promoters, PromotionStep(p)
  PROVE  SplitKept'
<1>1. PromotionTypeOK /\ SplitKept /\ ScannedInv BY DEF PInv
<1> SUFFICES ASSUME ~ overlapped', NEW a \in Accepted', NEW b \in Accepted',
                    decision'[a].split = decision'[b].split,
                    {decision'[a].destination, decision'[b].destination} \cap Park = {}
             PROVE  decision'[a].destination = decision'[b].destination
  BY DEF SplitKept
<1>2. ~ overlapped BY AloneKept
<1>3. CASE UNCHANGED decision BY <1>1, <1>2, <1>3 DEF SplitKept, Accepted
<1>4. CASE decision' # decision
  <2>1. PICK n \in Promotions, accepted \in BOOLEAN :
          /\ decision[n] = Nothing
          /\ decision' = [decision EXCEPT ![n] = DecisionRow(work[p].request, accepted)]
          /\ accepted => Busy(p, "decide")
    BY <1>4, RowsWritten
  <2> DEFINE row == DecisionRow(work[p].request, accepted)
  <2>2. /\ decision'[n] = row /\ \A m \in Promotions \ {n} : decision'[m] = decision[m]
    BY <1>1, <2>1 DEF PromotionTypeOK
  <2>3. \A m \in Accepted' : m # n => m \in Accepted /\ decision'[m] = decision[m]
    BY <2>2 DEF Accepted
  <2>4. n \in Accepted' => Busy(p, "decide") BY <2>1, <2>2 DEF Accepted, DecisionRow
  <2>5. row.split = work[p].request.split /\ row.destination = work[p].request.destination
    BY DEF DecisionRow
  <2> HIDE DEF row
  <2>6. ASSUME NEW m, m \in Accepted', n \in Accepted', m # n,
               decision'[m].split = row.split,
               decision'[m].destination \notin Park, row.destination \notin Park
        PROVE  decision'[m].destination = row.destination
    <3>1. m \in Accepted /\ decision'[m] = decision[m] BY <2>3, <2>6
    <3>2. Busy(p, "decide") /\ work[p].request.destination \notin Park
      BY <2>4, <2>5, <2>6
    <3>3. /\ decision[m].split = work[p].request.split
          /\ decision[m].destination \notin Park
      BY <2>5, <2>6, <3>1
    <3>4. decision[m].destination = work[p].request.destination
      BY <1>1, <1>2, <3>1, <3>2, <3>3 DEF ScannedInv
    <3> QED BY <2>5, <3>1, <3>4
  <2>7. CASE a # n /\ b # n BY <1>1, <1>2, <2>3, <2>7 DEF SplitKept
  <2>8. CASE a = n \/ b = n BY <2>2, <2>6, <2>8
  <2> QED BY <2>7, <2>8
<1> QED BY <1>3, <1>4

(* An artifact is written from an accepted row of a cleared request.       *)
LEMMA ApprovalStaysBehind ==
  ASSUME PInv, NEW p \in Promoters, PromotionStep(p)
  PROVE  ApprovalBehindArtifact'
<1>1. PromotionTypeOK /\ MintingInv /\ ClearedInv /\ ApprovalBehindArtifact BY DEF PInv
<1>2. UNCHANGED approved
  BY DEF PromotionStep, Ask, Load, Scan, Deny, Decided, Mint, PromoterDies, reviewVars
<1>3. CASE Mint(p)
  <2> DEFINE n == work[p].id
             q == work[p].request
  <2>1. /\ n \in Promotions /\ decision[n] = DecisionRow(q, TRUE)
        /\ NeedsApproval(q) => q.review \in approved
    BY <1>1, <1>3 DEF Mint, MintingInv, ClearedInv
  <2>2. decision[n] # Nothing
    <3>1. q.split # Nothing BY <1>3 DEF Mint, Busy, PInv, CopyInv
    <3> QED BY <1>1, <1>3, <2>1, <3>1, RowOfRequest, UndecidedAssumption DEF Mint, Busy
  <2>3. /\ artifact' = [artifact EXCEPT ![n] = q.destination] /\ UNCHANGED decision
    BY <1>3 DEF Mint
  <2> HIDE DEF n, q
  <2>4. decision[n].accepted /\ decision[n].destination = q.destination
        /\ decision[n].review = q.review
    BY <2>1 DEF DecisionRow
  <2>5. \A m \in Promotions :
          artifact'[m] = (IF m = n THEN q.destination ELSE artifact[m])
    BY <1>1, <2>3 DEF PromotionTypeOK
  <2> QED
    BY <1>1, <1>2, <2>1, <2>2, <2>3, <2>4, <2>5 DEF ApprovalBehindArtifact, NeedsApproval
<1>4. CASE ~ Mint(p)
  <2>1. UNCHANGED artifact
    BY <1>4 DEF PromotionStep, Ask, Load, Scan, Deny, Decided, PromoterDies
  <2>2. \A n \in Promotions : decision[n] # Nothing => decision'[n] = decision[n]
    BY <1>1, RowsWritten DEF PromotionTypeOK
  <2> QED BY <1>1, <1>2, <2>1, <2>2 DEF ApprovalBehindArtifact
<1> QED BY <1>3, <1>4
-----------------------------------------------------------------------------
(* Both invariants hold at the start and are kept by every step.           *)
LEMMA PromotionInitial == PromotionInit => RInv /\ PInv
<1> SUFFICES ASSUME PromotionInit PROVE RInv /\ PInv OBVIOUS
<1> USE DEF PromotionInit, ReviewInit
<1>1. RInv
  BY DEF RInv, ReviewTypeOK, HeldInv, Claimer, ClaimingInv, WritingInv, Doing, HandedInv,
         ApprovedInv
<1>2. PromotionTypeOK /\ CopyInv /\ ClearedInv /\ MintingInv
  BY <1>1 DEF RInv, PromotionTypeOK, CopyInv, ClearedInv, MintingInv, Busy
<1>3. AloneInv /\ ScannedInv /\ SplitKept /\ ApprovalBehindArtifact
  BY DEF AloneInv, ScannedInv, SplitKept, ApprovalBehindArtifact, Busy, Accepted
<1> QED BY <1>1, <1>2, <1>3 DEF PInv

(* By cases over the next-state relation.                                  *)
LEMMA PromotionKeeps ==
  ASSUME RInv, PInv, [PromotionNext]_allVars
  PROVE  RInv' /\ PInv'
<1>1. CASE PromotionNext
  <2>1. CASE \E o \in Operators : ReviewStep(o) /\ UNCHANGED promotionVars
    <3>1. PICK o \in Operators : ReviewStep(o) /\ UNCHANGED promotionVars BY <2>1
    <3>2. RInv' BY <3>1, ReviewStepKeeps
    <3>3. approved \subseteq approved' BY <3>1, ApprovedGrows
    <3>4. ReviewTypeOK' BY <3>2 DEF RInv
    <3> QED BY <3>1, <3>2, <3>3, <3>4, ReviewsLeavePromotions
  <2>2. CASE \E p \in Promoters : PromotionStep(p)
    <3>1. PICK p \in Promoters : PromotionStep(p) BY <2>2
    <3>2. UNCHANGED reviewVars
      BY <3>1 DEF PromotionStep, Ask, Load, Scan, Deny, Decided, Mint, PromoterDies
    <3>3. RInv' BY <3>2, ReviewsUntouched
    <3>4. PromotionTypeOK' BY <3>1, PromotionTypes
    <3>5. CopyInv' /\ ClearedInv' BY <3>1, CopyKept, ClearedKept
    <3>6. MintingInv' /\ AloneInv' /\ ScannedInv'
      BY <3>1, MintingKept, AloneKept, ScannedKept
    <3>7. SplitKept' /\ ApprovalBehindArtifact'
      BY <3>1, SplitStaysInPlace, ApprovalStaysBehind
    <3> QED BY <3>3, <3>4, <3>5, <3>6, <3>7 DEF PInv
  <2> QED BY <1>1, <2>1, <2>2 DEF PromotionNext
<1>2. CASE UNCHANGED allVars
  <2>1. UNCHANGED reviewVars /\ UNCHANGED promotionVars BY <1>2 DEF allVars
  <2>2. RInv' BY <2>1, ReviewsUntouched
  <2>3. ReviewTypeOK' /\ approved \subseteq approved' BY <2>1, <2>2 DEF RInv, reviewVars
  <2> QED BY <2>1, <2>2, <2>3, ReviewsLeavePromotions
<1> QED BY <1>1, <1>2

(* Hence both always hold.                                                 *)
LEMMA PromotionInvariant == PromotionSpec => [](RInv /\ PInv)
BY PromotionInitial, PromotionKeeps, PTL DEF PromotionSpec
-----------------------------------------------------------------------------
(* Files, locks, rows and processes keep their shapes.                     *)
THEOREM PromotionTypeCorrect == PromotionSpec => []PromotionTypeOK
<1>1. PInv => PromotionTypeOK BY DEF PInv
<1> QED BY <1>1, PromotionInvariant, PTL

(* claim gives a review to at most one operator, ever, and nobody          *)
(* adjudicates a review that was given to no one.                          *)
THEOREM HandedOutOnce == PromotionSpec => []OneClaimant
<1>1. RInv => OneClaimant
  <2> SUFFICES ASSUME RInv, NEW v \in Reviews
               PROVE  /\ Cardinality(claimants[v]) <= 1
                      /\ item[v] # Nothing /\ item[v].status = "adjudicated"
                           => claimants[v] # {}
    BY DEF OneClaimant
  <2>1. /\ \A a, b \in claimants[v] : a = b
        /\ item[v] # Nothing /\ item[v].status = "adjudicated" => claimants[v] # {}
    BY DEF RInv, HandedInv
  <2>2. CASE claimants[v] = {} BY <2>1, <2>2, FS_EmptySet
  <2>3. CASE claimants[v] # {}
    <3>1. PICK a : claimants[v] = {a} BY <2>1, <2>3
    <3>2. Cardinality(claimants[v]) = 1 BY <3>1, FS_Singleton
    <3> QED BY <2>1, <3>2
  <2> QED BY <2>2, <2>3
<1> QED BY <1>1, PromotionInvariant, PTL

(* No artifact lies outside the parking lanes without its accepted         *)
(* decision and, where that names a review, the review's approval.         *)
THEOREM ArtifactsApproved == PromotionSpec => []ApprovalBehindArtifact
<1>1. PInv => ApprovalBehindArtifact BY DEF PInv
<1> QED BY <1>1, PromotionInvariant, PTL

(* As long as promotions run one at a time, a split group's accepted       *)
(* decisions agree on the destination.                                     *)
THEOREM SplitGroupsKept == PromotionSpec => []SplitKept
<1>1. PInv => SplitKept BY DEF PInv
<1> QED BY <1>1, PromotionInvariant, PTL
=============================================================================
