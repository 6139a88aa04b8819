---------------------------- MODULE IntentRanking ----------------------------
(***************************************************************************)
(* The deterministic ranking of src/git_cg/intent.py: what a staged diff   *)
(* signals (extract_diff_signals), the markers those signals and the       *)
(* optional semantic facts turn into (collect_active_markers), the gates   *)
(* that rule rows of the SOP matrix out, and the score of every row.       *)
(* Nothing here has a state: IntentArbitration starts from its result.     *)
(*                                                                         *)
(* A diff is [files, terms]: a file is [is, change], the classes its path  *)
(* falls into and what was done to it; the terms are the families of words *)
(* found in the lines that are not a changelog's.  Signals are the names   *)
(* of the flags of DiffSignals that are set; evidence texts are left out.  *)
(***************************************************************************)
EXTENDS Integers, FiniteSets, Sequences

CONSTANT NoFacts      \* no semantic facts were assembled

(* The names of the conditions that hold.                                  *)
Flags(cond) == {name \in DOMAIN cond : cond[name]}

(* One class of path, one flag; a renamed file also moves a resource.      *)
ClassSignal ==
  [docs |-> "touches_docs", test |-> "touches_tests", ci |-> "touches_ci",
   build |-> "touches_build", vcs |-> "vcs_dotfile_changed", gitignore |-> "gitignore_changed",
   hook |-> "touches_hooks", config |-> "touches_config", release |-> "touches_release",
   security |-> "touches_security", manifest |-> "package_metadata_changed",
   packaged |-> "packaged_data_changed"]

ChangeSignals ==
  [added |-> {"adds_files"}, deleted |-> {"deletes_files"}, modified |-> {},
   renamed |-> {"moves_or_renames_files", "resource_moves"}]

FileSignals(files) ==
  {ClassSignal[c] : c \in DOMAIN ClassSignal \cap UNION {f.is : f \in files}}
  \cup UNION {ChangeSignals[f.change] : f \in files}

AllOf(files, classes) == files # {} /\ \A f \in files : f.is \cap classes # {}

(* Prose, tests and fixtures may say anything without it being a change of *)
(* the product, even if they come together.                                *)
NonProductOnly(files) == AllOf(files, {"docs", "test", "fixture"})

TermSignals ==
  [breaking |-> {"has_breaking_change"}, public_api |-> {"adds_public_api"},
   architecture |-> {"changes_architecture"},
   sop_loader |-> {"new_shared_module", "centralized_config_resolution"},
   cwd_loader |-> {"removed_duplicate_logic", "centralized_config_resolution"},
   hook |-> {"hook_portability", "touches_hooks"},
   validation |-> {"validation_added"}, error_handling |-> {"error_handling_added"},
   logging |-> {"logging_changed"},
   secret_scanning |-> {"secret_scanning_changed", "touches_security"},
   secrets |-> {"secrets_management_changed"},
   dependency_added |-> {"dependency_added"}, dependency_removed |-> {"dependency_removed"}]

ContentSignals(files, terms) ==
  IF NonProductOnly(files) THEN {} ELSE UNION {TermSignals[t] : t \in terms}

(* Fixtures are tests and never docs.                                      *)
OnlySignals(files) ==
  Flags([only_fixtures |-> AllOf(files, {"fixture"}),
         only_docs |-> AllOf(files, {"docs"}) /\ ~ AllOf(files, {"fixture"}),
         only_tests |-> AllOf(files, {"test", "fixture"}),
         only_config |-> AllOf(files, {"config"}),
         only_dependency_changes |-> AllOf(files, {"manifest"}),
         only_vcs_dotfiles |-> AllOf(files, {"vcs"}),
         only_gitignore |-> AllOf(files, {"gitignore"})])

SignalsOf(diff) ==
  FileSignals(diff.files) \cup ContentSignals(diff.files, diff.terms) \cup OnlySignals(diff.files)
-----------------------------------------------------------------------------
(* The markers that belong to a change of the product.                     *)
ProductOnly ==
  {"runtime_logic_changed", "functional_code_changed", "new_api",
   "new_user_facing_capability", "new_command", "major_subsystem_restructured",
   "core_architecture_changed", "exception_handling_added", "error_handling_improved",
   "try_except_added", "internal_restructure", "security_vulnerability_fixed",
   "privacy_issue_fixed", "validation_added", "validation_hardened",
   "schema_validation_changed", "security_tooling_only_without_fix",
   "secret_reference_changed", "centralize_logic", "deduplicate_code",
   "extract_shared_helper"}

LoaderMarkers ==
  {"centralize_logic", "deduplicate_code", "extract_shared_helper", "internal_restructure"}
SecretMarkers == {"security_tooling_only_without_fix", "secret_reference_changed"}

(* _generate_signal_markers, without the flags that nobody sets.           *)
MarkersOf ==
  [has_breaking_change |->
     {"breaking_change_declared", "breaking_change_footer", "backwards_incompatible_behavior"},
   touches_docs |-> {"readme_changed", "markdown_changed", "documentation_expanded"},
   only_docs |-> {"docs_only", "documentation_typo_only", "docs_text_only"},
   touches_tests |-> {"tests_added", "tests_updated", "test_fixtures_changed"},
   only_tests |-> {"test_only", "tests_only", "test_logic_primary"},
   moves_or_renames_files |->
     {"git_rename_detected", "path_moved", "resource_renamed", "module_renamed"},
   deletes_files |->
     {"files_deleted", "code_removed", "dead_code_removed", "unused_code_removed"},
   adds_files |-> {"files_added", "new_project_scaffold", "initial_structure"},
   dependency_added |->
     {"dependency_added", "new_package_in_pyproject", "lockfile_new_dependency"},
   dependency_removed |-> {"dependency_removed", "package_removed_from_manifest"},
   only_dependency_changes |-> {"dependency_only", "non_dependency_version_change"},
   package_metadata_changed |-> {"package_metadata_only", "package_artifact_changed"},
   packaged_data_changed |-> {"packaged_data_changed", "wheel_or_sdist_config_changed"},
   touches_security |-> {"security_vulnerability_fixed", "privacy_issue_fixed"},
   validation_added |->
     {"validation_added", "validation_hardened", "schema_validation_changed"},
   error_handling_added |->
     {"exception_handling_added", "error_handling_improved", "try_except_added"},
   secret_scanning_changed |-> SecretMarkers, secrets_management_changed |-> SecretMarkers,
   adds_public_api |-> {"new_api", "new_user_facing_capability", "functional_code_changed"},
   changes_architecture |-> {"major_subsystem_restructured", "core_architecture_changed"},
   centralized_config_resolution |-> LoaderMarkers, new_shared_module |-> LoaderMarkers,
   gitignore_changed |-> {"gitignore_changed", "vcs_ignore_updated"},
   only_gitignore |-> {"ignore_pattern_added", "ignore_pattern_removed"},
   touches_ci |-> {"ci_workflow_updated", "github_actions_changed", "pipeline_fix"},
   touches_hooks |-> {"git_hook_configuration", "automation_script_changed"}]

(* Pure docs, tests or fixtures carry no product marker.                   *)
Quarantined(signals, markers) ==
  IF signals \cap {"only_docs", "only_tests", "only_fixtures"} # {}
  THEN markers \ ProductOnly ELSE markers

SignalMarkers(signals) ==
  Quarantined(signals, UNION {MarkersOf[s] : s \in signals \cap DOMAIN MarkersOf})
-----------------------------------------------------------------------------
(* Facts are [graph, prints], each of them possibly NoFacts.               *)
Closed ==
  {"major_subsystem_restructured", "core_architecture_changed", "internal_restructure",
   "formatting_only", "whitespace_or_style_cleanup", "comments_only",
   "inline_comment_changed", "source_comments_added", "exception_handling_added",
   "error_handling_improved", "try_except_added", "new_api",
   "new_user_facing_capability", "functional_code_changed", "new_command"}

GraphMarkers(graph) ==
  IF graph = NoFacts \/ graph.outcome # "ok" \/ graph.impacted = NoFacts THEN {}
  ELSE IF graph.impacted >= 25
  THEN {"major_subsystem_restructured", "core_architecture_changed"}
  ELSE IF graph.impacted >= 10 THEN {"internal_restructure"} ELSE {}

(* classes: those that were counted; alike: every body is nearly the same. *)
PrintMarkers(prints) ==
  IF prints = NoFacts THEN {}
  ELSE (prints.classes \cup prints.markers)
       \cup IF prints.alike /\ "identifier_or_literal_only" \in prints.classes
            THEN {"formatting_only"} ELSE {}

Vocabulary(matrix) == UNION {matrix[i].positive \cup matrix[i].negative : i \in DOMAIN matrix}

Enriched(facts, vocabulary) ==
  IF facts = NoFacts THEN {}
  ELSE (GraphMarkers(facts.graph) \cup PrintMarkers(facts.prints)) \cap Closed \cap vocabulary

ActiveMarkers(signals, facts, semantic, vocabulary) ==
  SignalMarkers(signals)
  \cup IF semantic THEN Quarantined(signals, Enriched(facts, vocabulary)) ELSE {}
-----------------------------------------------------------------------------
(* A row is [id, group, priority, specificity, positive, negative].  The   *)
(* groups a diff of one kind leaves a row free to be of.                   *)
VetoGroups ==
  [only_docs |-> {"docs", "miscellaneous"}, only_tests |-> {"tests", "miscellaneous"},
   only_dependency_changes |-> {"runtime_build_package", "miscellaneous"},
   only_gitignore |-> {"config_chore", "miscellaneous"}]

Vetoes(row, signals) == {s \in signals \cap DOMAIN VetoGroups : row.group \notin VetoGroups[s]}

(* In tenths of the code's points, which keeps them whole.                 *)
Score(row, signals, active) ==
  4 * row.priority + row.specificity
  + 200 * Cardinality(row.positive \cap active)
  - 300 * Cardinality(row.negative \cap active)
  - 1000 * Cardinality(Vetoes(row, signals))

(* rank_commit_intents: by score, priority and specificity; rows that tie  *)
(* in all of them stay in the order of the matrix.                         *)
Above(i, j, matrix, score) ==
  LET a == matrix[i]  b == matrix[j] IN
  \/ score[i] > score[j]
  \/ score[i] = score[j] /\ a.priority > b.priority
  \/ score[i] = score[j] /\ a.priority = b.priority /\ a.specificity > b.specificity
  \/ /\ score[i] = score[j] /\ a.priority = b.priority /\ a.specificity = b.specificity
     /\ i < j

Scores(signals, matrix, facts, semantic) ==
  LET active == ActiveMarkers(signals, facts, semantic, Vocabulary(matrix)) IN
  [i \in DOMAIN matrix |-> Score(matrix[i], signals, active)]

Ranking(signals, matrix, facts, semantic) ==
  LET score == Scores(signals, matrix, facts, semantic)
      before(i) == {j \in DOMAIN matrix : Above(j, i, matrix, score)} IN
  [k \in DOMAIN matrix |-> CHOOSE i \in DOMAIN matrix : Cardinality(before(i)) = k - 1]

(* derive_intent_selection_constraints: the gates a diff passes each leave *)
(* fewer groups; without a gate nothing is restricted.  A diff of nothing  *)
(* but .gitignore passes none.                                             *)
Gates(signals) == signals \cap {"only_docs", "only_tests", "only_dependency_changes"}

Admitted(row, signals) == \A g \in Gates(signals) : row.group \in VetoGroups[g]

Constraints(signals, matrix) ==
  LET ids(admitted) == {matrix[i].id : i \in {j \in DOMAIN matrix :
                                               Admitted(matrix[j], signals) = admitted}} IN
  IF Gates(signals) = {} THEN [allowed |-> {}, disallowed |-> {}]
  ELSE [allowed |-> ids(TRUE), disallowed |-> ids(FALSE)]
=============================================================================
