------------------------ MODULE MCIntentArbitration -------------------------
(***************************************************************************)
(* The menu over the rankings of two diffs: one that says little, after    *)
(* which two rows of one type are close, and one that moves fixtures,      *)
(* which rules rows out but leaves one of them above a row it allows.      *)
(* Guidance may name a type with two close rows, a type with one row, a    *)
(* scope, or nothing.                                                      *)
(***************************************************************************)
EXTENDS IntentArbitration

R == INSTANCE IntentRanking WITH NoFacts <- NoIntent

MCIntents == {"feature", "flag", "tests", "failing", "move", "misc"}
MCTypeOf ==
  [feature |-> "feat", flag |-> "feat", tests |-> "test", failing |-> "test",
   move |-> "refactor", misc |-> "chore"]
MCTypes == {"feat", "test", "refactor", "chore"}
MCSemVer == [id \in MCIntents |-> IF MCTypeOf[id] = "feat" THEN 2 ELSE 0]

Row(id, group, priority, specificity, positive, negative) ==
  [id |-> id, group |-> group, priority |-> priority, specificity |-> specificity,
   positive |-> positive, negative |-> negative]

(* Rows of config/gitops_agent_sop.json, with what a diff can match there. *)
MCRows ==
  << Row("feature", "feature", 85, 60, {"new_user_facing_capability", "new_command", "new_api"},
         {"docs_only", "test_only"}),
     Row("tests", "tests", 50, 60, {"tests_added", "tests_updated", "test_fixtures_changed"},
         {"docs_only"}),
     Row("move", "refactor_architecture", 60, 85,
         {"git_rename_detected", "path_moved", "resource_renamed", "module_renamed"}, {}),
     Row("misc", "miscellaneous", 10, 85, {}, {"docs_only", "test_only"}),
     Row("failing", "tests", 50, 90, {}, {"docs_only"}),
     Row("flag", "feature", 78, 90, {}, {"docs_only", "test_only"}) >>

MoreRows ==
  MCRows \o
  << Row("docs", "docs", 40, 55,
         {"docs_only", "readme_changed", "markdown_changed", "documentation_expanded"},
         {"functional_code_changed"}),
     Row("typo", "docs", 30, 80, {"documentation_typo_only"}, {}),
     Row("dependency", "runtime_build_package", 72, 85,
         {"dependency_added", "new_package_in_pyproject", "lockfile_new_dependency"},
         {"dependency_removed", "docs_only"}),
     Row("pin", "runtime_build_package", 68, 85, {}, {"docs_only"}),
     Row("gitignore", "config_chore", 45, 90,
         {"gitignore_changed", "ignore_pattern_added", "ignore_pattern_removed", "vcs_ignore_updated"},
         {"docs_only"}),
     Row("breaking", "breaking", 100, 90,
         {"breaking_change_declared", "breaking_change_footer", "backwards_incompatible_behavior"},
         {"docs_only", "test_only"}),
     Row("security", "security", 95, 85, {"security_vulnerability_fixed", "privacy_issue_fixed"},
         {"docs_only", "security_tooling_only_without_fix"}),
     Row("remove", "refactor_architecture", 60, 90, {"dead_code_removed", "unused_code_removed"},
         {"docs_only"}) >>

MCMatrix == [i \in DOMAIN MCRows |->
               [id |-> MCRows[i].id, type |-> MCTypeOf[MCRows[i].id],
                semver |-> MCSemVer[MCRows[i].id]]]

File(is, change) == [is |-> is, change |-> change]
Diff(files, terms) == [files |-> files, terms |-> terms]

Setting(diff) ==
  LET signals == R!SignalsOf(diff)
      order   == R!Ranking(signals, MCRows, NoIntent, FALSE)
      scores  == R!Scores(signals, MCRows, NoIntent, FALSE) IN
  [ranked  |-> [k \in DOMAIN order |-> MCRows[order[k]].id],
   allowed |-> R!Constraints(signals, MCRows).allowed,
   score   |-> [id \in MCIntents |-> scores[CHOOSE i \in DOMAIN MCRows : MCRows[i].id = id]]]

MCSettings ==
  {Setting(Diff({File({}, "modified")}, {})),
   Setting(Diff({File({"fixture"}, "renamed")}, {}))}

MCGuidances == {"feat", "chore", "scope", "prose"}
MCDirectiveOf == [g \in MCGuidances |-> IF g = "prose" THEN "notype" ELSE g]
-----------------------------------------------------------------------------
(* Every diff of at most two files and two families of words, with and     *)
(* without facts.                                                          *)
Files ==
  {File(is, change) :
     is \in {{}, {"docs"}, {"docs", "security"}, {"test"}, {"fixture"}, {"docs", "fixture"},
             {"manifest", "build", "config", "release"}, {"vcs", "gitignore"}},
     change \in {"modified", "deleted", "renamed"}}
TermSets == {{}, {"public_api", "breaking"}, {"dependency_added", "dependency_removed"},
             {"secrets", "secret_scanning"}}
Diffs == {Diff({f, g}, t) : f, g \in Files, t \in TermSets}

Facts ==
  {NoIntent,
   [graph |-> [outcome |-> "ok", impacted |-> 25], prints |-> NoIntent],
   [graph |-> NoIntent,
    prints |-> [classes |-> {"identifier_or_literal_only", "new_command"}, alike |-> TRUE,
                markers |-> {"runtime_logic_changed", "new_api"}]]}

Pure(diff) == \E c \in {"docs", "test", "fixture"} : \A f \in diff.files : c \in f.is

(* A diff of docs, tests or fixtures alone never counts as a change of the *)
(* product, whatever it says and whatever the facts are; a row is ruled    *)
(* out exactly if one of the gates' vetoes takes points from it; and the   *)
(* row that ranks first is one the diff allows.                            *)
ASSUME RankingStaysInItsLane ==
  \A diff \in Diffs, facts \in Facts :
    LET signals == R!SignalsOf(diff)
        active  == R!ActiveMarkers(signals, facts, TRUE, R!Vocabulary(MoreRows))
        got     == R!Constraints(signals, MoreRows)
        best    == MoreRows[R!Ranking(signals, MoreRows, facts, TRUE)[1]] IN
    /\ Pure(diff) => active \cap R!ProductOnly = {}
    /\ \A i \in DOMAIN MoreRows :
         MoreRows[i].id \in got.disallowed <=>
           R!Vetoes(MoreRows[i], signals) \ {"only_gitignore"} # {}
    /\ Allows(got.allowed, best.id)

(* A veto is not an order: moving a fixture leaves a row that is ruled out *)
(* above one that is allowed.                                              *)
ASSUME VetoedRowsInBetween ==
  \E s \in MCSettings : \E i, j \in DOMAIN s.ranked :
    i < j /\ ~ Allows(s.allowed, s.ranked[i]) /\ Allows(s.allowed, s.ranked[j])
=============================================================================
