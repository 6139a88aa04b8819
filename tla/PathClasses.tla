---------------------------- MODULE PathClasses ----------------------------
(* What the staged paths alone decide about a commit message: the role of    *)
(* every path, the class of the diff, the constraints and priors of that     *)
(* class, the highest SemVer impact that may be presented, the groups a set  *)
(* of change types needs and the inventory of changes (commit_quality.py,    *)
(* with the path predicates of intent.py and commit_gold.py).                *)
(*                                                                           *)
(* A path is what those predicates say of it: Facts[p] is a set of labels.   *)
(* A diff is the sequence of its paths, in the order git lists them.         *)
EXTENDS Naturals, Sequences, FiniteSets, SequencesExt

CONSTANTS Facts,     \* path |-> its labels
          Stem,      \* path |-> the scope its file name stands for
          None       \* no value

Labels == {"src", "test", "fixtures", "docs", "adr", "ci", "build", "hook",
           "config", "release", "manifest", "secret",
           "scoped", "usage"}

ASSUME FactsAssumption ==
  /\ \A p \in DOMAIN Facts : Facts[p] \subseteq Labels
  /\ DOMAIN Stem = DOMAIN Facts

Impacts == <<"NONE", "PATCH", "MINOR", "MAJOR">>
ImpactRank == [NONE |-> 0, PATCH |-> 1, MINOR |-> 2, MAJOR |-> 3]
Clamp(impact, ceiling) ==
  IF ImpactRank[impact] > ImpactRank[ceiling] THEN ceiling ELSE impact

Is(p, label) == label \in Facts[p]
Some(diff, P(_)) == \E i \in DOMAIN diff : P(diff[i])

IsDocs(p) == Is(p, "docs")
IsTest(p) == Is(p, "test")
IsFixture(p) == Is(p, "fixtures")
IsAdr(p) == Is(p, "adr")
IsProse(p) == (IsDocs(p) \/ IsAdr(p)) /\ ~IsFixture(p)
IsTestModule(p) == IsTest(p) /\ ~IsFixture(p)
IsProduct(p) == ~IsTest(p) /\ ~IsDocs(p) /\ ~IsFixture(p)

\* The paths that may justify an impact: never docs, always src/, scripts/,
\* hooks and the version manifests.
IsRuntime(p) == ~IsDocs(p) /\ (Is(p, "src") \/ Is(p, "hook") \/ Is(p, "manifest"))

\* A path that names secrets is evidence unless it is prose.
IsSecurityEvidence(p) == Is(p, "secret") /\ ~IsDocs(p) /\ ~IsAdr(p)
SecurityEvidence(diff) == Some(diff, IsSecurityEvidence)

\* Every coverage group one file falls into.
FileGroups(p) ==
    (IF IsTest(p) THEN {"tests"} ELSE {})
  \cup (IF IsDocs(p) THEN {"docs"} ELSE {})
  \cup (IF \E l \in {"ci", "config", "hook", "build"} : Is(p, l)
        THEN {"config_ci"} ELSE {})
  \cup (IF Is(p, "release") THEN {"release"} ELSE {})

\* Fixtures and ADRs have one role; a file of no group is product source.
PathRoles(p) ==
  IF IsFixture(p) THEN {"fixtures"}
  ELSE IF IsAdr(p) /\ IsDocs(p) THEN {"adr"}
  ELSE IF FileGroups(p) = {} THEN {"product_src"}
  ELSE FileGroups(p)

Roles(diff) == UNION {PathRoles(diff[i]) : i \in DOMAIN diff}

PureClasses == {"tests_only", "fixtures_only", "docs_only", "adr_only"}

DiffClass(diff) ==
  LET roles == Roles(diff)
      prose == {"adr", "docs", "release"}
  IN IF diff = << >> THEN "empty"
     ELSE IF roles \in {{"adr"}, {"adr", "release"}} THEN "adr_only"
     ELSE IF roles \subseteq prose /\ roles \cap {"docs", "adr"} # {}
       THEN "docs_only"
     ELSE IF roles = {"fixtures"} THEN "fixtures_only"
     ELSE IF roles = {"tests"} THEN "tests_only"
     ELSE IF roles \in {{"config_ci"}, {"config_ci", "release"}}
       THEN "config_ci_only"
     ELSE IF roles = {"release"} THEN "release_only"
     ELSE IF roles = {"product_src"} THEN "product_src"
     ELSE "mixed"

HasRuntime(diff) == Some(diff, IsRuntime)

\* The behaviour slug the file names spell, and the scope of a docs diff.
BehaviourScope(diff) ==
  IF Some(diff, LAMBDA p : Is(p, "scoped")) THEN "scoped-history" ELSE None

DocsScope(diff) ==
  IF Some(diff, IsAdr) THEN "adr"
  ELSE IF Some(diff, LAMBDA p : Is(p, "usage")) THEN "usage"
  ELSE IF Some(diff, IsFixture) THEN "fixtures" ELSE "docs"

\* The aliases of scope_canon; of a dotted name the last part stays, and every
\* other token passes through.
Canonical(scope) ==
  CASE scope = None -> None
    [] scope = "scoped_history" -> "scoped-history"
    [] scope = "tests" -> "test"
    [] scope = "sentry_config" -> "sentry"
    [] scope = "usage.kdl" -> "kdl"
    [] OTHER -> scope

Or(a, b) == IF a = None THEN b ELSE a

\* The one product module of the diff, when there is one.
IsPureProduct(p) ==
  \A l \in {"test", "docs", "ci", "build", "hook", "config", "release",
            "fixtures"} : ~Is(p, l)
ProductScope(diff) ==
  LET stems == {Stem[diff[i]] : i \in {j \in DOMAIN diff : IsPureProduct(diff[j])}}
  IN IF Cardinality(stems) = 1 THEN Canonical(CHOOSE s \in stems : TRUE) ELSE None

----------------------------------------------------------------------------
(* Constraints: what the class of the diff forces and forbids.               *)

Impossible == {"PATCH", "MINOR", "MAJOR"}

ForcedImpact(class, diff) ==
  LET none == [type |-> None, group |-> None, scope |-> None,
               forbid |-> {}]
      tests(scope) == [type |-> "test", group |-> "Tests", scope |-> scope,
                       forbid |-> {"feat", "fix"}]
      docs(scope) == [type |-> "docs", group |-> "Documentation",
                      scope |-> scope, forbid |-> {"feat", "fix"}]
  IN CASE class = "tests_only" -> tests(Or(BehaviourScope(diff), "test"))
       [] class = "fixtures_only" -> tests("fixtures")
       [] class = "docs_only" -> docs(DocsScope(diff))
       [] class = "adr_only" ->
            [docs("adr") EXCEPT !.forbid = @ \cup {"chore"}]
       [] (class = "mixed" /\ ~HasRuntime(diff)) ->
            IF Some(diff, LAMBDA p : IsTestModule(p) \/ IsFixture(p))
            THEN tests(BehaviourScope(diff))
            ELSE IF Some(diff, IsProse) THEN docs(DocsScope(diff)) ELSE none
       [] OTHER -> none

Constraints(diff) ==
  LET class == DiffClass(diff)
      force == ForcedImpact(class, diff)
      \* Unknown paths prove nothing; without a runtime surface the impact
      \* is NONE.
      noImpact == class # "empty" /\ (class \in PureClasses \/ ~HasRuntime(diff))
  IN [class |-> class, type |-> force.type, group |-> force.group,
      scope |-> force.scope, forbidTypes |-> force.forbid,
      impact |-> IF noImpact THEN "NONE" ELSE None,
      forbidImpacts |-> IF noImpact THEN Impossible ELSE {},
      forbidSecurity |-> class \in PureClasses \cup {"empty"}
                         \/ ~SecurityEvidence(diff)]

\* The type and scope of a diff of configuration only.
AllAre(diff, labels) ==
  \A i \in DOMAIN diff : \E l \in labels : Is(diff[i], l)
NoneIs(diff, labels) ==
  \A i \in DOMAIN diff : Is(diff[i], "ci") \/ \A l \in labels : ~Is(diff[i], l)
ConfigDefaults(diff) ==
  IF AllAre(diff, {"ci"}) THEN "ci"
  ELSE IF AllAre(diff, {"build"}) THEN "build"
  ELSE IF AllAre(diff, {"hook"}) THEN "chore"
  ELSE IF Some(diff, LAMBDA p : Is(p, "ci"))
          /\ NoneIs(diff, {"build", "hook", "config"})
          /\ AllAre(diff, {"ci", "config"}) THEN "ci"
  ELSE IF Some(diff, LAMBDA p : Is(p, "build"))
          /\ AllAre(diff, {"build", "config"}) THEN "build"
  ELSE "chore"

\* The presentation a role implies when nothing else is known. Product and
\* mixed diffs get soft values.
Priors(diff) ==
  LET class == DiffClass(diff)
      prior(role, type, group, scope) ==
        [role |-> role, type |-> type, impact |-> "NONE", group |-> group,
         scope |-> scope]
      soft(role, scope) == prior(role, "chore", "Miscellaneous", scope)
  IN CASE class = "empty" -> soft("mixed", None)
       [] class = "tests_only" ->
            prior("tests", "test", "Tests", Or(BehaviourScope(diff), "test"))
       [] class = "fixtures_only" -> prior("fixtures", "test", "Tests", "fixtures")
       [] class = "adr_only" -> prior("adr", "docs", "Documentation", "adr")
       [] class = "docs_only" ->
            prior("docs", "docs", "Documentation", DocsScope(diff))
       [] class = "release_only" -> soft("release", "release")
       [] class = "config_ci_only" ->
            prior("config_ci", ConfigDefaults(diff), "Miscellaneous",
                  ConfigDefaults(diff))
       [] OTHER -> soft(class, ProductScope(diff))

----------------------------------------------------------------------------
(* Ceiling, dominance and the groups the types need. A concern tag stands    *)
(* for its family; a carry-through tag is a dark launch too.                 *)

DarkLaunch == {"dark", "carry"}

Ceiling(diff, tags, breaking) ==
  LET class == DiffClass(diff)
  IN IF class = "empty" THEN "MAJOR"
     ELSE IF class \in PureClasses \/ (~HasRuntime(diff) /\ class # "product_src")
       THEN "NONE"
     ELSE IF breaking THEN "MAJOR"
     ELSE IF "correctness" \in tags \/ tags \cap DarkLaunch # {} THEN "PATCH"
     ELSE IF "capability" \in tags THEN "MINOR"
     ELSE "PATCH"

DominantType(diff, tags) ==
  LET forced == Constraints(diff).type
      free == Priors(diff).role \in {"product_src", "mixed"}
  IN IF forced # None THEN forced
     ELSE IF "correctness" \in tags /\ free THEN "fix"
     ELSE IF "capability" \in tags /\ free THEN "feat"
     ELSE None

GroupOf(type) ==
  CASE type = "test" -> "Tests"
    [] type = "docs" -> "Documentation"
    [] type = "fix" -> "Fixed"
    [] type = "feat" -> "Added"
    [] type \in {"refactor", "perf", "style"} -> "Changed"
    [] OTHER -> "Miscellaneous"

RequiredGroups(types) == {GroupOf(t) : t \in types}

\* Whether the listed groups cover the types; a feature may be Added or
\* Changed, and Miscellaneous alone is refused whatever the types need.
Allowlisted(types, groups) ==
  /\ types # {} => groups # <<"Miscellaneous">>
  /\ \A g \in RequiredGroups(types) :
       ToSet(groups) \cap (IF g = "Added" THEN {"Added", "Changed"} ELSE {g}) # {}

----------------------------------------------------------------------------
(* The inventory of included changes.                                        *)

TestModules(diff) == SelectSeq(diff, IsTestModule)

IsProductModule(p) ==
  /\ ~IsTestModule(p) /\ ~IsFixture(p) /\ ~IsDocs(p) /\ ~IsAdr(p)
  /\ (IsRuntime(p) \/ \E l \in {"src", "ci", "build", "hook", "config"} : Is(p, l))
ProductModules(diff) == SelectSeq(diff, IsProductModule)

IsDocSurface(p) == IsFixture(p) \/ IsAdr(p) \/ IsDocs(p)
DocSurfaces(diff) == SelectSeq(diff, IsDocSurface)
SurfaceRole(p) ==
  IF IsFixture(p) THEN "fixtures" ELSE IF IsAdr(p) THEN "adr" ELSE "docs"

\* The fewest bullets a diff should list.
Sum3(a, b, c) == (IF a THEN 1 ELSE 0) + (IF b THEN 1 ELSE 0) + (IF c THEN 1 ELSE 0)
MinBullets(diff, tags) ==
  LET hasTest == Some(diff, IsTestModule)
      hasProd == Some(diff, IsProduct)
      surfaces == Sum3(hasTest,
                       Some(diff, IsProse) \/ Some(diff, IsFixture), hasProd)
      atLeast == {surfaces, Cardinality(tags), 1}
                 \cup (IF hasTest /\ hasProd THEN {2} ELSE {})
                 \cup {Len(TestModules(diff))}
  IN IF diff = << >> THEN 0
     ELSE CHOOSE n \in atLeast : \A m \in atLeast : m <= n

\* Diffs that must not seed a runtime change.
IsPure(diff) ==
  \/ DiffClass(diff) \in PureClasses
  \/ (~HasRuntime(diff) /\ DiffClass(diff) # "product_src")

StubScope(role, surface, diff) ==
  LET behaviour == BehaviourScope(diff)
  IN IF behaviour # None /\ role \in {"prod", "test"} THEN behaviour
     ELSE IF role \in {"adr", "fixtures"} THEN role
     ELSE Canonical(surface)

\* Several surfaces, several modules or several concerns: only then is there
\* an inventory at all.
Pressure(diff, tags) ==
  LET tests == Len(TestModules(diff))
      prods == Len(ProductModules(diff))
      docs == Len(DocSurfaces(diff))
  IN \/ tests >= 2 \/ prods >= 2 \/ docs >= 2
     \/ Sum3(tests > 0, prods > 0, docs > 0) >= 2
     \/ /\ Cardinality(tags) >= 2
        /\ (prods > 0 \/ DiffClass(diff) \in {"product_src", "mixed"})

ConcernSeeds(tags) ==
  LET seed(tag, surface) ==
        IF tag \in tags THEN << [role |-> "prod", surface |-> surface] >> ELSE << >>
  IN seed("carry", "scoped-history") \o seed("dark", "semantic")
     \o seed("correctness", "scoped-history")

Stubs(diff, tags, renames) ==
  LET pure == IsPure(diff)
      stub(role, surface) ==
        [role |-> role, scope |-> StubScope(role, surface, diff)]
      seeds == ConcernSeeds(tags)
      concerns == [i \in DOMAIN seeds |-> stub(seeds[i].role, seeds[i].surface)]
      seeded == {seeds[i].surface : i \in DOMAIN seeds}
      modules == SelectSeq(ProductModules(diff),
                           LAMBDA p : Canonical(Stem[p]) \notin seeded)
      prods == [i \in DOMAIN modules |-> stub("prod", Stem[modules[i]])]
      tests == [i \in DOMAIN TestModules(diff) |->
                  stub("test", Stem[TestModules(diff)[i]])]
      docs == [i \in DOMAIN DocSurfaces(diff) |->
                 stub(SurfaceRole(DocSurfaces(diff)[i]),
                      IF Is(DocSurfaces(diff)[i], "usage") THEN "usage" ELSE "docs")]
      moved == IF renames THEN << stub("prod", "main") >> ELSE << >>
  IN IF diff = << >> \/ ~Pressure(diff, tags) THEN << >>
     ELSE IF pure THEN tests \o docs
     ELSE concerns \o prods \o tests \o docs \o moved

\* The type a stub suggests; only test and docs are ever filled in.
SuggestedType(role, pure) ==
  IF role \in {"test", "fixtures"} THEN "test"
  ELSE IF role \in {"docs", "adr"} \/ pure THEN "docs"
  ELSE "chore"

----------------------------------------------------------------------------
(* Everything the rewrites and the guards ask of the paths and the concern    *)
(* tags: the code asks again at every call, here it is asked once, since the  *)
(* staged paths of an invocation do not change.                               *)

DocsOnly(diff) == DiffClass(diff) \in {"docs_only", "adr_only"}
TestsOnly(diff) == Roles(diff) \in {{"tests"}, {"fixtures"}, {"tests", "fixtures"}}

ResidualScopes(diff) ==
  LET product == SelectSeq(diff, IsProduct)
      roles == Roles(diff)
  IN << ProductScope(diff),
        BehaviourScope(IF product = << >> THEN diff ELSE product),
        BehaviourScope(diff),
        IF "tests" \in roles THEN "test"
        ELSE IF "adr" \in roles THEN "adr"
        ELSE IF "docs" \in roles THEN DocsScope(diff)
        ELSE IF "fixtures" \in roles THEN "fixtures"
        ELSE None >>

Reading(diff, tags, breaking, renames) ==
  [tags |-> tags,
   roles |-> Roles(diff),
   cons |-> Constraints(diff),
   priors |-> Priors(diff),
   runtime |-> HasRuntime(diff),
   secret |-> SecurityEvidence(diff),
   docsOnly |-> DocsOnly(diff),
   testsOnly |-> TestsOnly(diff),
   hasTest |-> Some(diff, IsTest),
   hasTestModule |-> Some(diff, IsTestModule),
   hasFixture |-> Some(diff, IsFixture),
   hasProse |-> Some(diff, IsProse),
   hasProduct |-> Some(diff, IsProduct),
   hasModule |-> Some(diff, IsProductModule),
   behaviour |-> BehaviourScope(diff),
   docsScope |-> DocsScope(diff),
   residual |-> ResidualScopes(diff),
   dominant |-> DominantType(diff, tags),
   \* under the tags and evidence, under the tags alone, under neither
   ceiling |-> Ceiling(diff, tags, breaking),
   tagCeiling |-> Ceiling(diff, tags, FALSE),
   pathCeiling |-> Ceiling(diff, {}, FALSE),
   stubs |-> Stubs(diff, tags, renames),
   pathStubs |-> Stubs(diff, {}, renames),
   minBullets |-> MinBullets(diff, tags)]
============================================================================
