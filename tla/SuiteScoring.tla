---------------------------- MODULE SuiteScoring ----------------------------
(***************************************************************************)
(* A suite scored case by case (prepare_suite_cases and score_suite in     *)
(* src/git_cg/eval/scoring/runner.py; the work set of run_orchestrator.py) *)
(* as far as the topology of the traces goes: the index of session threads *)
(* is built over the whole suite, then each case of the work set is        *)
(* searched for a cycle among its spans, the depth-first search of         *)
(* _tree_and_parentage step by step, and given its sixteen rows.           *)
(***************************************************************************)
EXTENDS SpanTopology

CONSTANTS Suites    \* [topology, cases, work]; a case has bound, final, clean and topo

(* Spans are given in the topology object or not at all; an operator       *)
(* selects among the cases of the suite.                                   *)
ASSUME SuitesAssumption ==
  /\ None \notin Ids
  /\ \A s \in Suites :
       /\ s.cases \in Seq(Range(s.cases)) /\ s.work \subseteq DOMAIN s.cases
       /\ \A k \in DOMAIN s.cases :
            LET t == s.cases[k].topo IN
            /\ t.spans \in Seq(Span) /\ (t.spans # <<>> => t.shell)
            /\ \A n \in DOMAIN t.counts : t.counts[n] \in Nat
            /\ t.thread \in Threads \cup {None}
            /\ t.root \in BOOLEAN

VARIABLES suite,    \* the suite, and the cases an operator selected
          stage,    \* "prepare", "pick", "search", "rows", "done"
          index,    \* thread -> the cases that name it
          left,     \* cases still to score
          walk,     \* the search: starts left, stack, visiting, visited, cyclic
          rows      \* case -> metric -> verdict

vars == <<suite, stage, index, left, walk, rows>>

CaseIds == DOMAIN suite.cases
TopoOf(k) == suite.cases[k].topo
At == Min(left)     \* they are scored in the order of the suite

NoWalk == [starts |-> {}, stack |-> <<>>, visiting |-> {}, visited |-> {}, cyclic |-> FALSE]

Init ==
  /\ suite \in Suites
  /\ stage = "prepare"
  /\ index = [t \in Threads |-> {}]
  /\ left = {} /\ walk = NoWalk
  /\ rows = <<>>
-----------------------------------------------------------------------------
(* Every case of the suite enters the index, whatever the work set is.     *)
ThreadIndexOfWork(s) ==   \* over what is to be scored only
  [t \in Threads |-> {k \in s.work : s.cases[k].topo.thread = t}]

ThreadIndex(s) ==
  [t \in Threads |-> {k \in DOMAIN s.cases : s.cases[k].topo.thread = t}]

Prepare ==
  /\ stage = "prepare"
  /\ index' = ThreadIndex(suite)
  /\ left' = suite.work
  /\ stage' = "pick"
  /\ UNCHANGED <<suite, walk, rows>>

(* Spans without ids, and those refused at sight, are not searched.        *)
Pick ==
  /\ stage = "pick" /\ left # {}
  /\ IF Present(TopoOf(At)) /\ Searched(TopoOf(At))
     THEN /\ walk' = [NoWalk EXCEPT !.starts = Identified(TopoOf(At))]
          /\ stage' = "search"
     ELSE walk' = NoWalk /\ stage' = "rows"
  /\ UNCHANGED <<suite, index, left, rows>>
-----------------------------------------------------------------------------
(* The spans are started from in their order.  A step is entered or left;  *)
(* a span leads to its parent, if that is one.                             *)
Step(id, phase) == [id |-> id, phase |-> phase]

Top  == Last(walk.stack)
Rest == Front(walk.stack)

Searching == stage = "search" /\ ~ walk.cyclic

Start ==
  /\ Searching /\ walk.stack = <<>> /\ walk.starts # {}
  /\ LET i == Min(walk.starts)
         s == TopoOf(At).spans[i].id IN
     walk' = [walk EXCEPT !.starts = @ \ {i},
                          !.stack = IF s \in walk.visited THEN <<>> ELSE <<Step(s, "enter")>>]
  /\ UNCHANGED <<suite, stage, index, left, rows>>

Enter ==
  /\ Searching /\ walk.stack # <<>> /\ Top.phase = "enter"
  /\ Top.id \notin walk.visiting \cup walk.visited
  /\ LET up == ParentOf(TopoOf(At))[Top.id] IN
     walk' = [walk EXCEPT !.visiting = @ \cup {Top.id},
                          !.stack = Append(Rest, Step(Top.id, "exit"))
                                    \o (IF up = None THEN <<>> ELSE <<Step(up, "enter")>>)]
  /\ UNCHANGED <<suite, stage, index, left, rows>>

MeetAny ==   \* whatever is met again is a cycle
  /\ Searching /\ walk.stack # <<>> /\ Top.phase = "enter"
  /\ Top.id \in walk.visiting \cup walk.visited
  /\ walk' = [walk EXCEPT !.cyclic = TRUE]
  /\ UNCHANGED <<suite, stage, index, left, rows>>

MeetAgain ==
  /\ Searching /\ walk.stack # <<>> /\ Top.phase = "enter"
  /\ \/ Top.id \in walk.visiting /\ walk' = [walk EXCEPT !.cyclic = TRUE]
     \/ /\ Top.id \in walk.visited \ walk.visiting
        /\ walk' = [walk EXCEPT !.stack = Rest]
  /\ UNCHANGED <<suite, stage, index, left, rows>>

Exit ==
  /\ Searching /\ walk.stack # <<>> /\ Top.phase = "exit"
  /\ walk' = [walk EXCEPT !.visiting = @ \ {Top.id}, !.visited = @ \cup {Top.id},
                          !.stack = Rest]
  /\ UNCHANGED <<suite, stage, index, left, rows>>

EndWhenEmpty ==   \* a cycle ends the inner loop only
  /\ stage = "search"
  /\ walk.stack = <<>> /\ walk.starts = {}
  /\ stage' = "rows"
  /\ UNCHANGED <<suite, index, left, walk, rows>>

EndSearch ==
  /\ stage = "search"
  /\ walk.cyclic \/ (walk.stack = <<>> /\ walk.starts = {})
  /\ stage' = "rows"
  /\ UNCHANGED <<suite, index, left, walk, rows>>
-----------------------------------------------------------------------------
Foreign(k) ==
  IF TopoOf(k).thread = None THEN {} ELSE index[TopoOf(k).thread] \ {k}

Indexed == \E t \in Threads : index[t] # {}

RowsOf(k) ==
  IF Present(TopoOf(k))
  THEN Verdicts(TopoOf(k), suite.cases[k], suite.topology, Foreign(k), walk.cyclic)
  ELSE [m \in FamilyI |-> m \in Unclaimed(Indexed)]

Score ==
  /\ stage = "rows"
  /\ rows' = [k \in DOMAIN rows \cup {At} |-> IF k = At THEN RowsOf(At) ELSE rows[k]]
  /\ left' = left \ {At}
  /\ stage' = "pick"
  /\ UNCHANGED <<suite, index, walk>>

Finish ==
  /\ stage = "pick" /\ left = {}
  /\ stage' = "done"
  /\ UNCHANGED <<suite, index, left, walk, rows>>

(* What the gates make of the rows; clean is the case's other rows.        *)
Golden(k) ==
  /\ suite.cases[k].clean /\ suite.cases[k].bound
  /\ suite.topology => \A m \in TopologyBlock : rows[k][m]

Next == Prepare \/ Pick \/ Start \/ Enter \/ MeetAgain \/ Exit \/ EndSearch \/ Score \/ Finish

Spec == Init /\ [][Next]_vars /\ WF_vars(Next)
-----------------------------------------------------------------------------
TypeOK ==
  /\ stage \in {"prepare", "pick", "search", "rows", "done"}
  /\ index \in [Threads -> SUBSET CaseIds]
  /\ left \subseteq CaseIds /\ walk.starts \subseteq Nat
  /\ walk.visiting \cap walk.visited = {} /\ walk.visiting \cup walk.visited \subseteq Ids
  /\ walk.stack \in Seq([id : Ids, phase : {"enter", "exit"}])
  /\ DOMAIN rows \subseteq CaseIds
  /\ \A k \in DOMAIN rows : rows[k] \in [FamilyI -> BOOLEAN]

(* A chain of parents from a span, no longer than there are spans: the     *)
(* definition the search is held against.                                  *)
Climbs(t, s, r, n) ==
  \E chain \in [0..n -> IdsOf(t)] :
    /\ chain[0] = s /\ chain[n] = r
    /\ \A i \in 0..(n - 1) : chain[i + 1] = ParentOf(t)[chain[i]]

Above(t, r, s) == \E n \in 0..Cardinality(IdsOf(t)) : Climbs(t, s, r, n)

OneTree(t) == \E r \in RootsOf(t) : \A s \in IdsOf(t) : Above(t, r, s)

(* Spans with ids are called a tree whose parents all resolve exactly when *)
(* they are one: every id once, one root above all of them however deep    *)
(* and in whatever order they were given, and no name of the taxonomy      *)
(* twice that may be there once.                                           *)
TreeSound ==
  \A k \in DOMAIN rows : HasIds(TopoOf(k)) =>
    LET t == TopoOf(k) IN
    (rows[k]["span_tree_valid"] /\ rows[k]["span_parentage_valid"])
      <=> /\ ~ DuplicateIds(t) /\ ~ SelfParent(t) /\ ~ NameTwice(t)
          /\ DanglingParents(t) = {} /\ OneTree(t)

(* "two case_ids never share session thread": each of two cases that do is *)
(* caught, also when the other one is scored by another run of the suite,  *)
(* and nobody else is.                                                     *)
SharedThreadCaught ==
  \A k \in DOMAIN rows : Present(TopoOf(k)) =>
    (rows[k]["no_cross_case_contamination"] <=>
       ~ \E j \in CaseIds \ {k} :
           TopoOf(k).thread # None /\ TopoOf(j).thread = TopoOf(k).thread)

(* Where a suite asks for topology, a bound final accept is golden only    *)
(* with a trace that shows it: a thread, a legal end, its finalization     *)
(* and, unless the producer declared what is required, a span for every    *)
(* stage of the accept path and for everything its counters claim; and no  *)
(* regeneration they do not claim, unless the counts of spans beside the   *)
(* spans, which take precedence, deny it too.                              *)
Denied(t, name) == name \in DOMAIN t.counts /\ t.counts[name] = 0

GoldenIsWitnessed ==
  \A k \in DOMAIN rows : suite.topology /\ Golden(k) =>
    LET t == TopoOf(k) IN
    /\ t.root /\ LegalTerminal(t.terminal) /\ Observed(t, "accept_path_finalization") > 0
    /\ t.thread # None
    /\ t.required = None =>
         /\ BoundAlwaysRequired \subseteq ObservedNames(t)
         /\ Positive(t.counters.llm) => "llm_generation" \in ObservedNames(t)
         /\ Positive(t.counters.fallback) => "fallback" \in ObservedNames(t)
         /\ t.counters.regen # None =>
              (Positive(t.counters.regen) <=>
                 "regeneration" \in ObservedNames(t) /\ ~ Denied(t, "regeneration"))

(* Every suite is scored to its end: the search of a graph with a cycle    *)
(* ends too.                                                               *)
SuiteEnds == <>(stage = "done")
=============================================================================
