-------------------------- MODULE MCSuiteScoring ---------------------------
(***************************************************************************)
(* Suites of one case with every graph of up to four spans, suites of one  *)
(* case that goes wrong in one place, and suites of two or three cases     *)
(* that may share a thread, scored whole or in part.                       *)
(***************************************************************************)
EXTENDS SuiteScoring

CONSTANTS s1, s2, s3, s4, gone, th1, th2

MCIds == {s1, s2, s3, s4, gone}
MCThreads == {th1, th2}

Id == <<s1, s2, s3, s4>>

AcceptPath == <<"diff_extraction", "path_classification", "intent_ranking",
                "contract_resolution", "llm_generation", "gold_evaluation",
                "presentation_guard", "final_render", "accept_path_finalization">>

Named(names) ==
  [i \in DOMAIN names |-> [name |-> names[i], id |-> None, parent |-> None, order |-> None]]

NoCounters == [llm |-> None, regen |-> None, fallback |-> None]

Full ==
  [shell |-> TRUE, root |-> TRUE, thread |-> th1, terminal |-> "finalized",
   spans |-> Named(AcceptPath), counts |-> <<>>, repeatable |-> {}, required |-> None,
   counters |-> [NoCounters EXCEPT !.llm = 1], replay |-> "no", correlation |-> "id",
   pinned |-> FALSE, nodes |-> None, edges |-> {}, export |-> "none",
   attempts |-> <<>>, claims |-> {"accept"}]

Bare ==
  [Full EXCEPT !.shell = FALSE, !.root = FALSE, !.thread = None, !.terminal = "missing",
               !.spans = <<>>, !.counters = NoCounters, !.replay = "none",
               !.correlation = "none", !.claims = {}]

(* All parents of n spans with ids; "generation" is the alias of one name. *)
Tree(n, parent) ==
  [i \in 1..n |-> [name |-> <<"regeneration", "generation", "regeneration", "fallback">>[i],
                   id |-> Id[i], parent |-> parent[i], order |-> None]]

Graphs(n) ==
  {[Full EXCEPT !.spans = Tree(n, p), !.counters = NoCounters, !.required = {}] :
     p \in [1..n -> {Id[i] : i \in 1..n} \cup {None, gone}]}

OneUp == [Full EXCEPT !.spans = Tree(3, <<None, s1, s2>>), !.counters = NoCounters]

Odd ==
  {Full, Bare, OneUp,
   [Bare EXCEPT !.thread = th1], [Bare EXCEPT !.replay = "partial"],
   [Bare EXCEPT !.counters.regen = 0], [Full EXCEPT !.spans = <<>>],
   [Full EXCEPT !.spans = <<>>, !.counts = [n \in ToSet(AcceptPath) |-> 1]],
   [Full EXCEPT !.spans = <<>>, !.counts = [n \in ToSet(AcceptPath) |-> 2]],
   [Full EXCEPT !.counts = ("llm_generation" :> 0)],
   [Full EXCEPT !.spans = Named(SelectSeq(AcceptPath, LAMBDA n : n # "llm_generation"))],
   [Full EXCEPT !.spans = Named(Front(AcceptPath))],
   [Full EXCEPT !.spans = Named(Front(AcceptPath)), !.required = {"final_render"}],
   [Full EXCEPT !.spans = Named(Front(AcceptPath)), !.required = {"final_render"}, !.claims = {}],
   [Full EXCEPT !.spans = Named(AcceptPath \o <<"strange", "strange">>)],
   [Full EXCEPT !.spans = Named(AcceptPath \o <<"score_emit">>)],
   [Full EXCEPT !.spans = Named(AcceptPath \o <<"score_emit">>), !.repeatable = {"final_render"}],
   [Full EXCEPT !.spans = Named(AcceptPath \o <<"regeneration", "regeneration">>)],
   [Full EXCEPT !.spans = Named(AcceptPath \o <<"regeneration">>), !.counters.regen = 2],
   [Full EXCEPT !.counters.regen = 1], [Full EXCEPT !.counters.fallback = 1],
   [Full EXCEPT !.spans = Named(AcceptPath \o <<"regeneration">>), !.counters.regen = 0],
   [Full EXCEPT !.spans = Named(AcceptPath \o <<"regeneration">>), !.counters.regen = 0,
                !.counts = ("regeneration" :> 0)],
   [Full EXCEPT !.claims = {"accept", "plan"}], [Full EXCEPT !.claims = {"fallback"}],
   [Full EXCEPT !.claims = {"export_attempted"}], [Full EXCEPT !.export = "known"],
   [Full EXCEPT !.export = "strange"], [Full EXCEPT !.root = FALSE],
   [Full EXCEPT !.thread = None], [Full EXCEPT !.thread = None, !.claims = {"multi_attempt"}],
   [Full EXCEPT !.attempts = <<1, 2, 2>>], [Full EXCEPT !.attempts = <<2, 1>>],
   [Full EXCEPT !.replay = "partial"], [Full EXCEPT !.replay = "waived"],
   [Full EXCEPT !.correlation = "unjoined"], [Full EXCEPT !.correlation = "no_id"],
   [Full EXCEPT !.pinned = TRUE], [Full EXCEPT !.nodes = {"fallback"}],
   [Full EXCEPT !.nodes = {"llm_generation"}, !.edges = {<<"llm_generation", "gold_evaluation">>}],
   [Full EXCEPT !.nodes = {"llm_generation"}, !.edges = {<<"final_render", "diff_extraction">>}],
   [Full EXCEPT !.spans[1].order = 5],
   [OneUp EXCEPT !.spans[3].id = s1], [OneUp EXCEPT !.spans[2].id = None]}
  \cup {[Full EXCEPT !.terminal = w] : w \in Terminals}

Case(t, bound, final) == [bound |-> bound, final |-> final, clean |-> TRUE, topo |-> t]

Alone(t, bound, final, topology) ==
  [topology |-> topology, cases |-> <<Case(t, bound, final)>>, work |-> {1}]

MCSuites ==
  {Alone(t, TRUE, TRUE, TRUE) : t \in Graphs(3) \cup Graphs(4)}
  \cup {Alone(t, b, f, r) : t \in Odd, b \in BOOLEAN, f \in BOOLEAN, r \in BOOLEAN}
  \cup {[topology |-> TRUE,
         cases |-> <<Case(x, TRUE, TRUE), Case(y, TRUE, TRUE), Case(z, TRUE, TRUE)>>,
         work |-> w] :
         x \in {Full, OneUp}, w \in (SUBSET {1, 2, 3}) \ {{}},
         y \in {Full, [Full EXCEPT !.thread = th2], Bare},
         z \in {Full, [Full EXCEPT !.thread = th2], [Full EXCEPT !.thread = None]}}
=============================================================================
