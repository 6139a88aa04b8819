---------------------------- MODULE SpanTopology ----------------------------
(***************************************************************************)
(* The topology metrics of a bundle (Family I,                             *)
(* src/git_cg/eval/scoring/family_i.py): the evidence projected from what  *)
(* a bundle says of its trace, what is claimed by it, and the verdict of   *)
(* each of the sixteen metrics.  The search for a cycle among the spans is *)
(* not an operator: it is stepped by SuiteScoring, whose answer is the     *)
(* argument cyclic.                                                        *)
(***************************************************************************)
EXTENDS Naturals, FiniteSets, SequencesExt

CONSTANTS None, Ids, Threads

(* Names a producer may give a span, and the closed taxonomy behind them.  *)
SpanAliases ==
  [generation |-> "llm_generation", score_emit |-> "final_render",
   plan_normalization |-> "plan_normalisation"]

BoundAlwaysRequired ==
  {"diff_extraction", "path_classification", "intent_ranking",
   "contract_resolution", "gold_evaluation", "presentation_guard", "final_render"}

ClosedTaxonomy ==
  BoundAlwaysRequired \cup
  {"llm_generation", "accept_path_finalization", "regeneration", "fallback",
   "plan_normalisation", "opik_export"}

DefaultRepeatable == {"regeneration", "fallback"}

Alias(name) == IF name \in DOMAIN SpanAliases THEN SpanAliases[name] ELSE name

(* finalized means ok; open and unknown are no terminal, like any other    *)
(* word.                                                                   *)
Terminals == {"missing", "open", "unknown", "finalized", "ok", "product_error",
              "export_error", "cancelled", "other"}

LegalTerminal(raw) ==
  raw \in {"finalized", "ok", "product_error", "export_error", "cancelled"}

Claims == {"generation", "plan", "fallback", "finalization", "accept",
           "thread_required", "multi_attempt", "export_attempted"}

Span == [name   : ClosedTaxonomy \cup DOMAIN SpanAliases \cup {"strange"},
         id     : Ids \cup {None},
         parent : Ids \cup {None},
         order  : Nat \cup {None}]

Topology ==
  [shell       : BOOLEAN,                    \* a topology object is there
   root        : BOOLEAN,
   thread      : Threads \cup {None},
   terminal    : Terminals,
   spans       : Seq(Span),
   counts      : UNION {[names -> Nat] : names \in SUBSET ClosedTaxonomy},
   repeatable  : SUBSET ClosedTaxonomy,
   required    : {None} \cup SUBSET ClosedTaxonomy,
   counters    : [llm : Nat \cup {None}, regen : Nat \cup {None},
                  fallback : Nat \cup {None}],
   replay      : {"none", "no", "full", "partial", "waived"},
   correlation : {"none", "id", "joined", "unjoined", "no_id"},
   pinned      : BOOLEAN,                    \* the graph is only named
   nodes       : {None} \cup SUBSET ClosedTaxonomy,
   edges       : SUBSET (ClosedTaxonomy \X ClosedTaxonomy),
   export      : {"none", "known", "strange"},
   attempts    : Seq(Nat),
   claims      : SUBSET Claims]
-----------------------------------------------------------------------------
(* project_topology_evidence: with neither an object nor a claim beside it *)
(* there is no evidence at all.                                            *)
Counted(t) == \E k \in DOMAIN t.counters : t.counters[k] # None

Present(t) ==
  \/ t.shell
  \/ t.replay # "none" \/ t.correlation # "none" \/ t.pinned \/ t.nodes # None
  \/ Counted(t) \/ t.counts # <<>> \/ t.thread # None \/ t.export # "none"

NameOf(t, i) == Alias(t.spans[i].name)
NamesOf(t)   == {NameOf(t, i) : i \in DOMAIN t.spans}

(* The spans, or where there are none the numbers given for them.          *)
Observed(t, name) ==
  IF t.spans # <<>> THEN Cardinality({i \in DOMAIN t.spans : NameOf(t, i) = name})
  ELSE IF name \in DOMAIN t.counts THEN t.counts[name] ELSE 0

ObservedNames(t) ==
  {n \in NamesOf(t) \cup DOMAIN t.counts : Observed(t, n) > 0}

Mentioned(t, name) == name \in NamesOf(t) \cup DOMAIN t.counts

Positive(n) == n # None /\ n > 0

GenerationClaimed(t) ==
  Positive(t.counters.llm) \/ Mentioned(t, "llm_generation") \/ "generation" \in t.claims

PlanClaimed(t)  == "plan" \in t.claims \/ Mentioned(t, "plan_normalisation")
RegenClaimed(t) == Positive(t.counters.regen) \/ "regeneration" \in NamesOf(t)

FallbackClaimed(t) ==
  Positive(t.counters.fallback) \/ "fallback" \in NamesOf(t) \/ "fallback" \in t.claims

ExportClaimed(t) ==
  \/ t.export # "none" \/ "export_attempted" \in t.claims
  \/ Mentioned(t, "opik_export")

(* A bound final accept claims its finalization whether it says so or not. *)
FinalizationClaimed(t, c) ==
  \/ {"finalization", "accept"} \cap t.claims # {}
  \/ Mentioned(t, "accept_path_finalization")
  \/ t.required # None /\ "accept_path_finalization" \in t.required
  \/ c.bound /\ c.final

MultiAttempt(t) == Cardinality(ToSet(t.attempts)) > 1 \/ "multi_attempt" \in t.claims

ThreadClaimed(t, c) ==
  t.thread # None \/ MultiAttempt(t) \/ "thread_required" \in t.claims \/ c.final
-----------------------------------------------------------------------------
(* Spans that carry ids form a graph, the others a list of names.          *)
HasIds(t) == \E i \in DOMAIN t.spans : t.spans[i].id # None \/ t.spans[i].parent # None

Identified(t) == {i \in DOMAIN t.spans : t.spans[i].id # None}
IdsOf(t)      == {t.spans[i].id : i \in Identified(t)}

ParentOf(t) ==
  [s \in IdsOf(t) |->
     LET i == CHOOSE i \in Identified(t) : t.spans[i].id = s IN
     IF t.spans[i].parent \in IdsOf(t) THEN t.spans[i].parent ELSE None]

DuplicateIds(t) == Cardinality(IdsOf(t)) # Cardinality(Identified(t))
SelfParent(t)   == \E i \in Identified(t) : t.spans[i].parent = t.spans[i].id

DanglingParents(t) ==
  {t.spans[i].parent : i \in DOMAIN t.spans} \ (IdsOf(t) \cup {None})

RootsOf(t) == {s \in IdsOf(t) : ParentOf(t)[s] = None}

NameTwice(t) ==
  \E n \in ClosedTaxonomy \ (DefaultRepeatable \cup t.repeatable) : Observed(t, n) > 1

(* Only a graph that is not refused out of hand is searched for a cycle.   *)
Searched(t) == HasIds(t) /\ ~ DuplicateIds(t) /\ ~ SelfParent(t)

TreeOk(t, cyclic) ==
  IF ~ HasIds(t) THEN ~ NameTwice(t)
  ELSE /\ Searched(t) /\ ~ cyclic
       /\ Cardinality(RootsOf(t)) <= 1
       /\ DanglingParents(t) # {} \/ ~ NameTwice(t)

ParentageOk(t, cyclic) ==
  HasIds(t) => Searched(t) /\ ~ cyclic /\ DanglingParents(t) = {}
-----------------------------------------------------------------------------
(* _resolve_required_set: what was declared, else what a bound accept path *)
(* always has and what it claims; None where nothing can be asked.         *)
ClaimedAlways(t, c) ==   \* the claims are not looked at
  BoundAlwaysRequired \cup {"accept_path_finalization"}

Claimed(t, c) ==
  BoundAlwaysRequired \cup {"accept_path_finalization"}
  \cup (IF GenerationClaimed(t) THEN {"llm_generation"} ELSE {})
  \cup (IF PlanClaimed(t) THEN {"plan_normalisation"} ELSE {})
  \cup (IF RegenClaimed(t) THEN {"regeneration"} ELSE {})
  \cup (IF FallbackClaimed(t) THEN {"fallback"} ELSE {})
  \cup (IF ExportClaimed(t) THEN {"opik_export"} ELSE {})

RequiredSet(t, c) ==
  IF t.required # None THEN t.required
  ELSE IF c.bound /\ (t.spans # <<>> \/ t.counts # <<>>) THEN Claimed(t, c)
  ELSE None

RequiredOk(t, c, topology) ==
  IF RequiredSet(t, c) = None THEN ~ topology
  ELSE \A n \in RequiredSet(t, c) : Observed(t, n) > 0

SpansOf(t, name) == IF name \in DOMAIN t.counts THEN t.counts[name] ELSE Observed(t, name)

RegenAgrees(t) ==
  t.counters.regen # None => ((t.counters.regen > 0) <=> (SpansOf(t, "regeneration") > 0))

(* Calls are held against a number of generation spans only if there is one.*)
LlmAgrees(t) ==
  Positive(t.counters.llm) /\ "llm_generation" \in DOMAIN t.counts
    => t.counts["llm_generation"] > 0

FinalizationOk(t, c, topology) ==
  FinalizationClaimed(t, c) \/ (topology /\ (c.final \/ c.bound))
    => Observed(t, "accept_path_finalization") > 0

CorrelationOk(t) == t.correlation \in {"none", "id", "joined"}

ExportOk(t) == ExportClaimed(t) => t.export = "known"

(* Between names, by parents where there are ids, else as they are listed. *)
ObservedEdges(t) ==
  IF HasIds(t)
  THEN {<<NameOf(t, p[1]), NameOf(t, p[2])>> : p \in
          {q \in Identified(t) \X Identified(t) : t.spans[q[2]].parent = t.spans[q[1]].id}}
  ELSE {<<NameOf(t, i), NameOf(t, i + 1)>> : i \in 1..(Len(t.spans) - 1)}

GraphOk(t) ==
  t.nodes # None => t.nodes \subseteq ObservedNames(t) /\ t.edges \subseteq ObservedEdges(t)

(* A span that does not say its place has that of the list; of two spans   *)
(* of one name the last counts.                                            *)
OrderOf(t, i) == IF t.spans[i].order # None THEN t.spans[i].order ELSE i - 1

PlaceOf(t, name) ==
  OrderOf(t, CHOOSE i \in DOMAIN t.spans :
               /\ NameOf(t, i) = name
               /\ \A j \in DOMAIN t.spans : NameOf(t, j) = name => j <= i)

OrderOk(t) ==
  IF t.nodes # None
  THEN \A e \in t.edges : {e[1], e[2]} \subseteq NamesOf(t) => PlaceOf(t, e[1]) <= PlaceOf(t, e[2])
  ELSE \A i, j \in DOMAIN t.spans : i < j => OrderOf(t, i) <= OrderOf(t, j)

AttemptsOk(t) == \A i, j \in DOMAIN t.attempts : i < j => t.attempts[i] <= t.attempts[j]

ContinuityOk(t, topology) ==
  MultiAttempt(t) => IF t.thread # None THEN AttemptsOk(t) ELSE ~ topology

(* foreign: the other cases the index knows under the thread of this one.  *)
Verdicts(t, c, topology, foreign, cyclic) ==
  [attempt_order_valid           |-> AttemptsOk(t),
   correlation_envelope_valid    |-> CorrelationOk(t),
   counter_span_consistent       |-> RegenAgrees(t) /\ LlmAgrees(t),
   export_status_classified      |-> ExportOk(t),
   finalization_observed         |-> FinalizationOk(t, c, topology),
   graph_observed_matches_declared |-> GraphOk(t),
   lifecycle_complete            |-> LegalTerminal(t.terminal),
   no_cross_case_contamination   |-> foreign = {},
   replay_lineage_valid          |-> t.replay # "partial",
   required_spans_present        |-> RequiredOk(t, c, topology),
   span_order_valid              |-> OrderOk(t),
   span_parentage_valid          |-> ParentageOk(t, cyclic),
   span_tree_valid               |-> TreeOk(t, cyclic),
   thread_continuity             |-> ContinuityOk(t, topology),
   thread_id_present             |-> ThreadClaimed(t, c) \/ (topology /\ c.bound) => t.thread # None,
   trace_root_present            |-> t.root]

FamilyI ==
  {"attempt_order_valid", "correlation_envelope_valid", "counter_span_consistent",
   "export_status_classified", "finalization_observed",
   "graph_observed_matches_declared", "lifecycle_complete",
   "no_cross_case_contamination", "replay_lineage_valid", "required_spans_present",
   "span_order_valid", "span_parentage_valid", "span_tree_valid",
   "thread_continuity", "thread_id_present", "trace_root_present"}

TopologyBlock ==
  FamilyI \ {"attempt_order_valid", "export_status_classified",
             "graph_observed_matches_declared", "span_order_valid"}

(* Without evidence everything fails but what nobody claimed.              *)
Unclaimed(indexed) ==
  {"correlation_envelope_valid", "replay_lineage_valid", "export_status_classified"}
  \cup (IF indexed THEN {} ELSE {"no_cross_case_contamination"})
=============================================================================
