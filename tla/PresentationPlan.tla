-------------------------- MODULE PresentationPlan --------------------------
(* The rewrites of a commit plan between the model's answer and the message: *)
(* the low-confidence seed, the operator's blueprint, the overlay of the     *)
(* path class, the fill of missing families and the skeleton                 *)
(* (commit_quality.py). Only presentation fields are touched; the ranked     *)
(* intent and its gitmoji are no part of these records except for the one    *)
(* fact the overlay asks, whether the glyph is a security one.               *)
(*                                                                           *)
(* Wording is the set of judged tokens a text carries; "text" stands for a   *)
(* body that carries none, for a body of no wording is one left out.         *)
EXTENDS PathClasses

\* An intent: its type, impact, changelog group, scope and the wording of its
\* description. A plan: the primary intent, the secondaries, the wording of
\* the body, the breaking flag, the security glyph and the advice to split.
Intent(type, impact, group, scope, words) ==
  [type |-> type, impact |-> impact, group |-> group, scope |-> scope,
   words |-> words]

PlanFields == {"primary", "secondary", "body", "breaking", "glyph", "split"}
IntentFields == {"type", "impact", "group", "scope", "words"}
IsPlan(p) == /\ p = [f \in PlanFields |-> p[f]]
             /\ p.primary = [f \in IntentFields |-> p.primary[f]]

FirstGiven(candidates) ==
  LET given == SelectSeq(candidates, LAMBDA s : s # None)
  IN IF given = << >> THEN None ELSE Head(given)

Named(scopes) == Canonical(FirstGiven(scopes))

Prose == {"text"}

Intents(plan) == << plan.primary >> \o plan.secondary
TypesOf(plan) == {Intents(plan)[i].type : i \in DOMAIN Intents(plan)}
GroupsOf(plan) == [i \in DOMAIN Intents(plan) |-> Intents(plan)[i].group]

\* A cap that reaches the primary only.
CapPrimary(plan, force, ceiling) ==
  [plan EXCEPT !.primary.impact =
                 IF force # None THEN force ELSE Clamp(@, ceiling)]

\* The impact of every intent, forced or clamped.
CapImpacts(plan, force, ceiling) ==
  LET cap(impact) == IF force # None THEN force ELSE Clamp(impact, ceiling)
  IN [plan EXCEPT !.primary.impact = cap(@),
                  !.secondary = [i \in DOMAIN @ |->
                                   [@[i] EXCEPT !.impact = cap(@)]]]

----------------------------------------------------------------------------
(* Low confidence.                                                           *)

IsGenericFeature(plan) ==
  plan.primary.type = "feat" /\ plan.primary.impact \in {"MINOR", "NONE"}

PriorRoles == {"tests", "docs", "adr", "fixtures", "config_ci"}

\* A forced role takes its priors whole; a generic feature only loses its
\* impact; any other plan is left to the prompt.
Seed(plan, seen, low) ==
  LET priors == seen.priors
      forced == priors.role \in PriorRoles
      impact == IF forced THEN priors.impact ELSE "PATCH"
      retyped == IF forced
                 THEN [plan EXCEPT !.primary.type = priors.type,
                                   !.primary.group = priors.group]
                 ELSE plan
      lowered == [retyped EXCEPT
                    !.primary.impact = impact,
                    !.primary.scope = Or(@, priors.scope),
                    !.secondary = [i \in DOMAIN @ |->
                       [@[i] EXCEPT !.impact = Clamp(@, impact)]]]
  IN IF low /\ (forced \/ IsGenericFeature(plan)) THEN lowered ELSE plan

----------------------------------------------------------------------------
(* Secondaries.                                                              *)

\* One more secondary unless the type is presented already; then the group
\* of the intents of that type is put right, and their impact set.
EnsureType(plan, type, group, scope, impact) ==
  LET put(s) == IF s.type = type
                THEN [s EXCEPT !.group = group, !.impact = impact] ELSE s
  IN IF type \in TypesOf(plan)
     THEN [plan EXCEPT
             !.primary.group = IF plan.primary.type = type THEN group ELSE @,
             !.secondary = [i \in DOMAIN @ |-> put(@[i])]]
     ELSE [plan EXCEPT !.secondary =
             Append(@, Intent(type, impact, group,
                              Canonical(scope), {}))]

\* The same for an inventory stub, which is told apart by its scope as well
\* and never touches a primary that already covers it.
WithStub(primary, list, type, group, scope, cons) ==
  LET impact == Or(cons.impact, "NONE")
      same == {i \in DOMAIN list : list[i].type = type /\ list[i].scope = scope}
      first == CHOOSE i \in same : \A j \in same : i <= j
      covered == primary.type = type /\ primary.scope = scope
  IN IF covered \/ type \in cons.forbidTypes THEN list
     ELSE IF same # {}
     THEN [list EXCEPT ![first].group = group, ![first].impact = impact]
     ELSE Append(list, Intent(type, impact, group, scope, {}))

MergeStub(plan, type, group, scope, cons) ==
  [plan EXCEPT !.secondary =
     WithStub(plan.primary, @, type, group, scope, cons)]

\* Only a missing test or docs family is filled in, from its first stub.
FillFamily(plan, family, seen, stubs) ==
  LET pure == seen.docsOnly \/ seen.testsOnly
      hits == SelectSeq(stubs, LAMBDA s : SuggestedType(s.role, pure) = family)
      group == IF family = "test" THEN "Tests" ELSE "Documentation"
  IN IF hits = << >> \/ family \in TypesOf(plan) THEN plan
     ELSE MergeStub(plan, family, group, Head(hits).scope, seen.cons)

Fill(plan, seen, stubs) ==
  LET both == FillFamily(FillFamily(plan, "test", seen, stubs), "docs", seen, stubs)
      force == seen.cons.impact
  IN IF stubs = << >> \/ force = None
     THEN both ELSE CapImpacts(both, force, force)

----------------------------------------------------------------------------
(* The overlay, in the order of the code.                                    *)

\* 1. The type: forced or dominant, then the fallback of a forbidden one,
\* then the demotion of a security framing without evidence.
OverlayType(plan, seen) ==
  LET cons == seen.cons
      forced == seen.dominant
      group(type) == Or(cons.group, GroupOf(type))
      typed == IF forced = None THEN plan
               ELSE [plan EXCEPT !.primary.type = forced,
                                 !.primary.group = group(forced)]
      carried == IF typed.primary.type = "feat" /\ "carry" \in seen.tags
                 THEN [typed EXCEPT !.primary.group = "Changed"] ELSE typed
      fallback == Or(cons.type, seen.priors.type)
      legal == IF carried.primary.type \in cons.forbidTypes
               THEN [carried EXCEPT !.primary.type = fallback,
                                    !.primary.group = group(fallback)]
               ELSE carried
      shown == Or(cons.type, legal.primary.type)
  IN IF cons.forbidSecurity /\ (legal.primary.group = "Security" \/ plan.glyph)
     THEN [legal EXCEPT !.primary.type = shown, !.primary.group = group(shown)]
     ELSE legal

\* 3. The scope: forced, preferred, kept, hinted; a package scope gives way
\* to anything better.
InvalidScopes == {"git_cg", "src", "lifecycle"}

FirstValid(candidates) ==
  LET valid == SelectSeq(candidates, LAMBDA s : s # None /\ s \notin InvalidScopes)
  IN IF valid = << >> THEN None ELSE Head(valid)

OverlayScope(plan, seen, preferred) ==
  LET force == seen.cons.scope
      hint == seen.priors.scope
      now == Named(<< force, preferred, plan.primary.scope, hint >>)
      better == Or(FirstValid(<< force, preferred, hint >>), FirstGiven(seen.residual))
      final == IF now \in InvalidScopes /\ better # None
                  /\ better \notin InvalidScopes
               THEN Canonical(better) ELSE now
      tidy(s) == [s EXCEPT !.scope = Canonical(@)]
  IN [plan EXCEPT !.primary.scope = final,
                  !.secondary = [i \in DOMAIN @ |-> tidy(@[i])]]

\* 4. The groups: when the types are not covered every intent takes the group
\* of its type, which leaves no required group to inject but the Added of a
\* carry-through feature, and that one is undone below; then a forced group
\* and a carry-through come last.
CarriesThrough(plan, tags) ==
  plan.primary.type = "feat" /\ plan.primary.group = "Changed" /\ "carry" \in tags

RepairGroups(plan, tags) ==
  IF Allowlisted(TypesOf(plan), GroupsOf(plan)) THEN plan
  ELSE [plan EXCEPT
          !.primary.group = IF CarriesThrough(plan, tags) THEN @
                            ELSE GroupOf(plan.primary.type),
          !.secondary = [i \in DOMAIN @ |->
                           [@[i] EXCEPT !.group = GroupOf(plan.secondary[i].type)]]]

OverlayGroups(plan, seen) ==
  LET cons == seen.cons
      repaired == RepairGroups(plan, seen.tags)
      forced == IF cons.type # None
                THEN [repaired EXCEPT !.primary.group = cons.group] ELSE repaired
  IN IF forced.primary.type = "feat" /\ "carry" \in seen.tags
     THEN [forced EXCEPT !.primary.group = "Changed"] ELSE forced

\* 5. The families of the surfaces: tests, fixtures, docs.
Cover(plan, needed, type, group, scope, seen) ==
  IF needed /\ type \notin TypesOf(plan)
  THEN EnsureType(plan, type, group, scope, Or(seen.cons.impact, "NONE"))
  ELSE plan

CoverSurfaces(plan, seen) ==
  LET tests == Cover(plan, seen.hasTestModule, "test", "Tests",
                     Or(seen.behaviour, "test"), seen)
      fixtures == Cover(tests, seen.hasFixture, "test", "Tests", "fixtures", seen)
  IN Cover(fixtures, seen.hasProse, "docs", "Documentation", seen.docsScope, seen)

\* 6. Only a plan shown as MAJOR may be breaking; or, mutated, one that came
\* as MAJOR.
MarkedStale(given, shown) ==
  [shown EXCEPT !.breaking = @ /\ given.primary.impact = "MAJOR"]
Marked(given, shown) ==
  [shown EXCEPT !.breaking = @ /\ shown.primary.impact = "MAJOR"]

Overlay(plan, seen, preferred) ==
  LET force == seen.cons.impact
      typed == CapImpacts(OverlayType(plan, seen), force, seen.ceiling)
      scoped == OverlayScope(typed, seen, preferred)
      grouped == OverlayGroups(scoped, seen)
      filled == Fill(CoverSurfaces(grouped, seen), seen, seen.stubs)
  IN Marked(plan, CapImpacts(filled, force, seen.ceiling))

----------------------------------------------------------------------------
(* The operator's blueprint: [type, impact, scope, types, groups, stubs,     *)
(* hint, body]; a missing field is None, empty or FALSE. It comes inline or  *)
(* from a file; a source is [file, faults], what is wrong with it.           *)

\* What is asked of a file, what is asked of a text, in the order of the code:
\* the path is resolved and held against the root before it is opened.
FileChecks == << "no path", "nul", "no root", "missing", "outside", "no file",
                 "link outside", "large file", "unreadable" >>
TextChecks == << "large text", "no json", "no object", "schema" >>

FirstFault(source) ==
  LET checks == (IF source.file THEN FileChecks ELSE << "blank" >>) \o TextChecks
      found == SelectSeq(checks, LAMBDA c : c \in source.faults)
  IN IF found = << >> THEN None ELSE Head(found)

\* The impact it may ask for; a mutant forgets the ceiling.
ImpactUncapped(impact, cons, ceiling) ==
  cons.impact \in {None, impact} /\ impact \notin cons.forbidImpacts
ImpactAllowed(impact, cons, ceiling) ==
  /\ cons.impact \in {None, impact}
  /\ ImpactRank[impact] <= ImpactRank[Or(cons.impact, ceiling)]
  /\ impact \notin cons.forbidImpacts

\* Fail closed before anything is changed.
IsLegal(bp, cons, ceiling) ==
  LET primary == IF bp.type = None /\ bp.types # << >> THEN Head(bp.types) ELSE bp.type
  IN /\ bp.type # None => /\ bp.type \notin cons.forbidTypes
                           /\ cons.type \in {None, bp.type}
     /\ ToSet(bp.types) \cap cons.forbidTypes = {}
     /\ bp.impact # None => ImpactAllowed(bp.impact, cons, ceiling)
     /\ cons.forbidSecurity => "Security" \notin ToSet(bp.groups)
     /\ cons.group # None => ToSet(bp.groups) \cap {"Security", "Added"} = {}
     /\ bp.scope # None => cons.scope \in {None, Canonical(bp.scope)}
     /\ bp.types # << >> /\ bp.groups # << >> =>
          /\ Allowlisted(ToSet(bp.types), bp.groups)
          /\ primary = "fix" => "Fixed" \in ToSet(bp.groups)

RoleType(role, primary) ==
  CASE role \in {"test", "fixtures"} -> "test"
    [] role \in {"docs", "adr"} -> "docs"
    [] role \in {"perf", "refactor"} -> role
    [] role \in {"security", "telemetry", "sentry"} -> "fix"
    [] role = "prod" -> primary
    [] OTHER -> "chore"

RoleGroup(role, type) ==
  CASE role \in {"docs", "adr"} -> "Documentation"
    [] role \in {"test", "fixtures"} -> "Tests"
    [] OTHER -> GroupOf(type)

\* The secondaries the change types ask for: those not presented yet, each in
\* the group of its type or, for a feature, in the one the blueprint names.
GroupFor(type, groups) ==
  LET named == SelectSeq(groups, LAMBDA g :
                 \/ g = GroupOf(type)
                 \/ (type = "feat" /\ g \in {"Added", "Changed"}))
  IN IF named = << >> THEN GroupOf(type) ELSE Head(named)

CoverTypes(plan, bp) ==
  LET primary == plan.primary
      presented(list) == {primary.type} \cup {list[i].type : i \in DOMAIN list}
      add(type, list) ==
        IF type \in presented(list) THEN list
        ELSE Append(list, Intent(type, primary.impact, GroupFor(type, bp.groups),
                                 Canonical(primary.scope), {}))
  IN [plan EXCEPT !.secondary =
        FoldLeft(LAMBDA list, t : add(t, list), @, bp.types)]

MergeStubs(plan, bp, cons) ==
  LET with(list, stub) ==
        LET type == RoleType(stub.role, plan.primary.type)
        IN WithStub(plan.primary, list, type, RoleGroup(stub.role, type),
                    Canonical(stub.surface), cons)
  IN [plan EXCEPT !.secondary = FoldLeft(with, @, bp.stubs)]

\* A legal blueprint; its body is for an answer that left it out. The
\* envelope of the path class is asserted last.
ApplyBlueprint(plan, bp, seen) ==
  LET cons == seen.cons
      ceiling == seen.pathCeiling
      type == Or(bp.type, plan.primary.type)
      retyped == [plan EXCEPT
                    !.primary.type = type,
                    !.primary.group = IF bp.groups # << >>
                                      THEN Or(cons.group, Head(bp.groups))
                                      ELSE IF bp.type # None THEN GroupOf(type) ELSE @,
                    !.primary.scope = Named(<< cons.scope, bp.scope, @ >>),
                    !.primary.words = IF bp.hint THEN {} ELSE @,
                    !.body = IF @ = {} THEN bp.body ELSE @]
      lowered == IF cons.impact # None THEN CapImpacts(retyped, cons.impact, ceiling)
                 ELSE IF bp.impact = None THEN retyped
                 ELSE [CapImpacts(retyped, None, bp.impact)
                         EXCEPT !.primary.impact = bp.impact]
      merged == MergeStubs(CoverTypes(lowered, bp), bp, cons)
      forced == [merged EXCEPT !.primary.type = Or(cons.type, @),
                               !.primary.group = Or(cons.group, @)]
  IN CapImpacts(forced, cons.impact, ceiling)

----------------------------------------------------------------------------
(* The skeleton that replaces subject and body when the budget of            *)
(* regenerations is spent. The secondaries keep their descriptions; the      *)
(* mutant keeps the body as well.                                            *)

BlankSubject(plan, intent) == [plan EXCEPT !.primary = intent]
Blank(plan, intent) == [plan EXCEPT !.primary = intent, !.body = Prose]

Skeleton(plan, seen) ==
  LET cons == seen.cons
      priors == seen.priors
      scope == Named(<< cons.scope, priors.scope, plan.primary.scope >>)
      primary == Intent(Or(cons.type, priors.type), Or(cons.impact, priors.impact),
                        Or(cons.group, priors.group), scope, {})
  IN Fill(Blank(plan, primary), seen, seen.pathStubs)
============================================================================
