-------------------------- MODULE MCPresentation ---------------------------
(***************************************************************************)
(* One path of every kind the predicates tell apart, every diff of up to   *)
(* two of them and some of three, each with every set of concern tags,     *)
(* each circumstance and each blueprint; answers of every type, clean and  *)
(* with each claim; blueprints legal somewhere and refused elsewhere.      *)
(***************************************************************************)
EXTENDS Presentation, TLC

MCFacts ==
  ("main" :> {"src"}) @@ ("semantic" :> {"src"}) @@
  ("secrets" :> {"src", "secret"}) @@ ("json" :> {"src", "config"}) @@
  ("license" :> {}) @@ ("test_main" :> {"test"}) @@
  ("test_scoped" :> {"test", "scoped"}) @@
  ("case" :> {"fixtures", "test", "config"}) @@ ("usage" :> {"docs", "usage"}) @@
  ("adr" :> {"docs", "adr"}) @@ ("changelog" :> {"docs", "release"}) @@
  ("workflow" :> {"ci", "config"}) @@
  ("pyproject" :> {"build", "config", "release", "manifest"}) @@
  ("version" :> {"release", "manifest"}) @@ ("hk" :> {"hook", "config"}) @@
  ("test_hook" :> {"test", "hook"})

MCStem ==
  [p \in DOMAIN MCFacts |->
     CASE p = "test_main" -> "main"
       [] p = "test_scoped" -> "scoped_history"
       [] p = "adr" -> "001"
       [] OTHER -> p]

(***************************************************************************)
(* git lists a path once, in one order; three paths only where three       *)
(* surfaces meet.                                                          *)
(***************************************************************************)
Listed == <<"workflow", "changelog", "license", "version", "adr", "json", "usage",
            "hk", "pyproject", "main", "secrets", "semantic", "case", "test_hook",
            "test_main", "test_scoped">>
Pairs == {<<Listed[ij[1]], Listed[ij[2]]>> :
            ij \in {k \in (1..16) \X (1..16) : k[1] < k[2]}}
MCDiffs ==
  {<< >>} \cup {<<p>> : p \in DOMAIN MCFacts}
  \cup Pairs
  \cup {<<"usage", "main", "test_main">>, <<"main", "semantic", "test_main">>,
        <<"adr", "secrets", "test_scoped">>, <<"case", "test_main", "test_scoped">>,
        <<"changelog", "usage", "case">>}

Plain ==
  [diff |-> <<"main">>, tags |-> {}, breaking |-> FALSE, shipped |-> TRUE,
   renames |-> FALSE, low |-> FALSE, preferred |-> None, blueprint |-> None,
   source |-> [file |-> TRUE, faults |-> {}], strict |-> FALSE,
   split |-> FALSE, public |-> FALSE, scores |-> <<30>>]

TagSets == {{"correctness"}, {"carry"}, {"dark"}, {"capability"},
            {"carry", "capability"}, {"correctness", "dark", "capability"}}

NoBp == [type |-> None, impact |-> None, scope |-> None, types |-> << >>,
         groups |-> << >>, stubs |-> << >>, hint |-> FALSE, body |-> {}]
Blueprints ==
  {[NoBp EXCEPT !.hint = TRUE, !.body = {"banned"}],
   [NoBp EXCEPT !.type = "fix", !.impact = "PATCH", !.groups = <<"Fixed">>,
                !.types = <<"fix">>],
   [NoBp EXCEPT !.type = "test", !.impact = "NONE"],
   [NoBp EXCEPT !.impact = "MINOR"],
   [NoBp EXCEPT !.types = <<"feat", "test">>, !.groups = <<"Changed", "Tests">>],
   [NoBp EXCEPT !.types = <<"fix", "docs">>, !.groups = <<"Fixed", "Documentation">>,
                !.scope = "usage"],
   [NoBp EXCEPT !.types = <<"chore">>, !.groups = <<"Miscellaneous">>],
   [NoBp EXCEPT !.groups = <<"Security">>],
   [NoBp EXCEPT !.type = "feat", !.groups = <<"Fixed">>,
                !.stubs = <<[role |-> "prod", surface |-> "api"]>>],
   [NoBp EXCEPT !.stubs = <<[role |-> "test", surface |-> "tests"],
                            [role |-> "security", surface |-> "secrets"],
                            [role |-> "prod", surface |-> "main"]>>]}

\* Each fault alone, and two together.
Faults == {{}, {"outside", "no json"}} \cup {{x} : x \in ToSet(FileChecks \o TextChecks)}

MCInputs ==
  {[Plain EXCEPT !.diff = d] : d \in MCDiffs}
  \cup {[Plain EXCEPT !.diff = d, !.low = TRUE] : d \in MCDiffs}
  \cup {[Plain EXCEPT !.diff = d, !.tags = t] : d \in MCDiffs, t \in TagSets}
  \cup {[Plain EXCEPT !.diff = d, !.breaking = TRUE] : d \in MCDiffs}
  \cup {[Plain EXCEPT !.diff = d, !.shipped = FALSE] : d \in MCDiffs}
  \cup {[Plain EXCEPT !.diff = d, !.renames = TRUE] : d \in MCDiffs}
  \cup {[Plain EXCEPT !.diff = d, !.preferred = s] :
          d \in MCDiffs, s \in {"src", "tests", "api"}}
  \cup {[Plain EXCEPT !.diff = d, !.blueprint = b, !.strict = (d = <<"main">>)] :
          d \in MCDiffs, b \in Blueprints}
  \cup {[Plain EXCEPT !.diff = d, !.scores = s] :
          d \in {<<"main">>, <<"main", "test_main">>, <<"changelog">>, <<"case", "usage">>},
          s \in {<<30, 15>>, <<50, 21>>, <<50, 20>>, <<0, 0>>}}
  \cup {[Plain EXCEPT !.diff = <<"adr", "usage">>, !.scores = <<30, 15>>, !.public = b,
                      !.split = s] : b, s \in BOOLEAN}
  \cup {[Plain EXCEPT !.blueprint = [NoBp EXCEPT !.impact = "PATCH"], !.strict = s,
                      !.low = ~s, !.source = [file |-> f, faults |-> x]] :
          s, f \in BOOLEAN, x \in Faults}

(***************************************************************************)
(* Answers under a locked contract.                                        *)
(***************************************************************************)
Clean(type, impact, group, scope) ==
  [primary |-> Intent(type, impact, group, scope, {}), secondary |-> << >>,
   body |-> Prose, breaking |-> FALSE, glyph |-> FALSE, split |-> FALSE]

Feature == Clean("feat", "MINOR", "Added", "git_cg")
Break == [Clean("feat", "MAJOR", "Added", "main") EXCEPT !.breaking = TRUE]
Hole == [Clean("fix", "PATCH", "Security", None) EXCEPT !.glyph = TRUE]

MCAnswers ==
  {Feature, Break, Hole, [Feature EXCEPT !.body = {}],
   Clean("fix", "PATCH", "Fixed", "main"),
   Clean("docs", "NONE", "Documentation", "docs"),
   Clean("test", "NONE", "Tests", "tests"),
   Clean("chore", "NONE", "Miscellaneous", None),
   Clean("refactor", "PATCH", "Fixed", "src"),
   [Feature EXCEPT !.secondary = <<Intent("test", "NONE", "Tests", "tests", {})>>],
   [Feature EXCEPT !.secondary = <<Intent("fix", "MINOR", "Changed", "main", {}),
                                   Intent("docs", "NONE", "Documentation", None, {"runtime"})>>],
   [Hole EXCEPT !.secondary = <<Intent("chore", "NONE", "Miscellaneous", None, {"secret"})>>,
                !.primary.words = {"secret"}],
   [Feature EXCEPT !.primary.words = {"title"}],
   [Feature EXCEPT !.primary.words = {"add", "capability"}],
   [Feature EXCEPT !.primary.words = {"vague"}, !.body = {"banned", "extended"}],
   [Feature EXCEPT !.body = {"secret"}],
   [Feature EXCEPT !.body = {"template", "actor"}],
   [Feature EXCEPT !.body = {"mutation", "bleed"}, !.primary.words = {"actor"}],
   [Break EXCEPT !.secondary = <<Intent("refactor", "MINOR", "Fixed", "main", {})>>,
                 !.body = {"template"}],
   [Feature EXCEPT !.primary.group = "Changed", !.body = {"template"},
                   !.secondary = <<Intent("refactor", "NONE", "Fixed", None, {})>>],
   [Feature EXCEPT !.primary.group = "Fixed",
                   !.secondary = <<Intent("feat", "MINOR", "Added", "api", {})>>],
   [Break EXCEPT !.primary.scope = "usage.kdl", !.split = TRUE,
                 !.body = {"framing", "compat"} \cup SurfaceThemes.main],
   [Feature EXCEPT !.primary.words = {"inventory", "add"}, !.primary.group = "Fixed",
                   !.body = {"meta", "footer", "shipping", "compat"}]}
============================================================================
