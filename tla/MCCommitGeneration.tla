------------------------- MODULE MCCommitGeneration -------------------------
(***************************************************************************)
(* A small instance of CommitGeneration: three intents with the matrix     *)
(* impacts MINOR, PATCH and NONE, three kinds of staged diff and a         *)
(* hand-picked set of invocations that reaches every branch.               *)
(***************************************************************************)
EXTENDS CommitGeneration

MCIntents == {"feat", "fix", "docs"}
MCTypes   == {"feat", "fix", "docs", "chore"}
MCMatrix  == << [id |-> "feat", type |-> "feat", semver |-> 2],
                [id |-> "fix",  type |-> "fix",  semver |-> 1],
                [id |-> "docs", type |-> "docs", semver |-> 0] >>

(* product_src: no path-class force, PATCH ceiling, soft priors.           *)
Product == [ranked |-> <<"feat", "fix", "docs">>, allowed |-> {},
            forceType |-> "notype", forbidTypes |-> {},
            forceSemVer |-> -1, forbidSemVer |-> {},
            ceiling |-> 1, priors |-> 0, pathRole |-> FALSE, low |-> TRUE]

(* docs only: type and impact forced.                                      *)
DocsOnly == [ranked |-> <<"docs", "feat">>, allowed |-> {},
             forceType |-> "docs", forbidTypes |-> {"feat", "fix"},
             forceSemVer |-> 0, forbidSemVer |-> {1, 2, 3},
             ceiling |-> 0, priors |-> 0, pathRole |-> TRUE, low |-> FALSE]

(* a confident ranking, restricted to two intents.                         *)
Restricted == [Product EXCEPT !.ranked = <<"fix", "feat">>,
                              !.allowed = {"fix", "docs"}, !.low = FALSE]

MCContexts == {Product, DocsOnly, Restricted}
MCGuidances == {"prefer docs", "prefer scope"}
MCDirectiveOf == [g \in MCGuidances |->
                    IF g = "prefer docs" THEN "docs" ELSE "scope"]

Base == [strict |-> FALSE, goldStrict |-> FALSE, env |-> "unset", tty |-> TRUE,
         dryRun |-> FALSE, mixedStrict |-> FALSE, arbitrate |-> TRUE,
         hook |-> TRUE, blueprint |-> -2]

(* Hooks, as git runs them: never --strict.                                *)
HookConfigs ==
  {Base,
   [Base EXCEPT !.goldStrict = TRUE, !.blueprint = 1, !.arbitrate = FALSE],
   [Base EXCEPT !.tty = FALSE, !.env = "strict", !.blueprint = 3],
   [Base EXCEPT !.mixedStrict = TRUE, !.blueprint = -1, !.arbitrate = FALSE]}

(* git-cg called by hand.                                                  *)
CommandConfigs ==
  {[Base EXCEPT !.hook = FALSE, !.strict = TRUE, !.blueprint = 1,
                !.mixedStrict = TRUE],
   [Base EXCEPT !.hook = FALSE, !.strict = TRUE, !.env = "off",
                !.blueprint = 3],
   [Base EXCEPT !.hook = FALSE, !.dryRun = TRUE, !.arbitrate = FALSE],
   [Base EXCEPT !.hook = FALSE, !.tty = FALSE, !.env = "warn"]}

AllConfigs == HookConfigs \cup CommandConfigs
=============================================================================
