-------------------- MODULE PresentationAndReleaseProofs --------------------
(***************************************************************************)
(* Theorems about what a presented message keeps (Presentation) and about  *)
(* what a tag advised by the release command holds (Release), for any      *)
(* values of their constants.                                              *)
(*                                                                         *)
(* Presentation: every stage from the seed plan to the guards leaves the   *)
(* primary intent a type and an impact that the active blueprint allows    *)
(* (BlueprintInv), and ends in a clean message or in the skeleton of the   *)
(* plan (PresentedInv).                                                    *)
(* Release: the files of a tag agree because, as long as no file is torn,  *)
(* what a run has written follows from the place it is at, and an advice   *)
(* that nothing has disturbed still starts at the nearest tag (ReleaseInv).*)
(***************************************************************************)
EXTENDS Presentation, Release, FiniteSetTheorems, WellFoundedInduction, TLAPS

\* Whatever keeps the primary's type, impact and wording, and the body.
Keeps(p, q) ==
  /\ IsPlan(q)
  /\ q.primary.type = p.primary.type
  /\ q.primary.impact = p.primary.impact
  /\ q.primary.words = p.primary.words
  /\ q.body = p.body

----------------------------------------------------------------------------
\* A rewrite of the secondaries leaves all that is asked of the primary.
LEMMA SecondaryKeeps ==
  ASSUME NEW p, IsPlan(p), NEW list
  PROVE  Keeps(p, [p EXCEPT !.secondary = list])
  BY DEF Keeps, IsPlan, PlanFields

LEMMA MergeStubKeeps ==
  ASSUME NEW p, IsPlan(p), NEW type, NEW group, NEW scope, NEW cons
  PROVE  Keeps(p, MergeStub(p, type, group, scope, cons))
  BY SecondaryKeeps DEF MergeStub

LEMMA EnsureTypeKeeps ==
  ASSUME NEW p, IsPlan(p), NEW type, NEW group, NEW scope, NEW impact
  PROVE  Keeps(p, EnsureType(p, type, group, scope, impact))
<1>1. CASE type \in TypesOf(p)
  <2> DEFINE put(s) == IF s.type = type
                THEN [s EXCEPT !.group = group, !.impact = impact] ELSE s
             g == IF p.primary.type = type THEN group ELSE p.primary.group
             list == [i \in DOMAIN p.secondary |-> put(p.secondary[i])]
             q == [p EXCEPT !.primary.group = g]
  <2>1. EnsureType(p, type, group, scope, impact) = [q EXCEPT !.secondary = list]
    BY <1>1 DEF EnsureType, IsPlan, PlanFields
  <2>2. Keeps(p, q)
    BY DEF Keeps, IsPlan, PlanFields, IntentFields
  <2>3. Keeps(q, [q EXCEPT !.secondary = list])
    <3> HIDE DEF q, list
    <3> QED BY <2>2, SecondaryKeeps DEF Keeps
  <2> QED BY <2>1, <2>2, <2>3 DEF Keeps
<1>2. CASE type \notin TypesOf(p)
  BY <1>2, SecondaryKeeps DEF EnsureType
<1> QED BY <1>1, <1>2

LEMMA KeepsTransitive ==
  ASSUME NEW p, NEW q, NEW r, Keeps(p, q), Keeps(q, r)
  PROVE  Keeps(p, r)
  BY DEF Keeps

LEMMA KeepsItself ==
  ASSUME NEW p, IsPlan(p)
  PROVE  Keeps(p, p)
  BY DEF Keeps

LEMMA CoverKeeps ==
  ASSUME NEW p, IsPlan(p), NEW needed, NEW type, NEW group, NEW scope, NEW s
  PROVE  Keeps(p, Cover(p, needed, type, group, scope, s))
  BY EnsureTypeKeeps, KeepsItself DEF Cover

LEMMA CoverSurfacesKeeps ==
  ASSUME NEW p, IsPlan(p), NEW s
  PROVE  Keeps(p, CoverSurfaces(p, s))
<1> DEFINE tests == Cover(p, s.hasTestModule, "test", "Tests",
                          Or(s.behaviour, "test"), s)
           fixtures == Cover(tests, s.hasFixture, "test", "Tests", "fixtures", s)
           docs == Cover(fixtures, s.hasProse, "docs", "Documentation", s.docsScope, s)
<1>1. Keeps(p, tests)
  BY CoverKeeps
<1>2. Keeps(tests, fixtures)
  <2> HIDE DEF tests
  <2> QED BY <1>1, CoverKeeps DEF Keeps
<1>3. Keeps(fixtures, docs)
  <2>1. IsPlan(fixtures)
    BY <1>2 DEF Keeps
  <2> HIDE DEF fixtures
  <2> QED BY <2>1, CoverKeeps
<1>4. CoverSurfaces(p, s) = docs
  BY DEF CoverSurfaces
<1> HIDE DEF tests, fixtures, docs
<1> QED BY <1>1, <1>2, <1>3, <1>4, KeepsTransitive

LEMMA FillFamilyKeeps ==
  ASSUME NEW p, IsPlan(p), NEW family, NEW s, NEW stubs
  PROVE  Keeps(p, FillFamily(p, family, s, stubs))
<1> DEFINE hits == SelectSeq(stubs, LAMBDA x :
                      SuggestedType(x.role, s.docsOnly \/ s.testsOnly) = family)
           group == IF family = "test" THEN "Tests" ELSE "Documentation"
           scope == Head(hits).scope
           merged == MergeStub(p, family, group, scope, s.cons)
<1>1. FillFamily(p, family, s, stubs) \in {p, merged}
  BY DEF FillFamily
<1>2. Keeps(p, merged)
  <2> HIDE DEF group, scope
  <2> QED BY MergeStubKeeps
<1> HIDE DEF merged
<1> QED BY <1>1, <1>2, KeepsItself

\* A cap reaches the impacts only, the primary's as it reaches every other.
Capped(impact, force, ceiling) ==
  IF force # None THEN force ELSE Clamp(impact, ceiling)

LEMMA CapKeeps ==
  ASSUME NEW p, IsPlan(p), NEW force, NEW ceiling
  PROVE  LET q == CapImpacts(p, force, ceiling)
         IN /\ IsPlan(q)
            /\ q.primary.type = p.primary.type
            /\ q.primary.impact = Capped(p.primary.impact, force, ceiling)
            /\ q.primary.group = p.primary.group
            /\ q.primary.words = p.primary.words
            /\ q.body = p.body
<1> DEFINE impact == Capped(p.primary.impact, force, ceiling)
<1>1. PICK list :
        CapImpacts(p, force, ceiling)
        = [p EXCEPT !.primary.impact = impact, !.secondary = list]
  BY DEF CapImpacts, Capped
<1> HIDE DEF impact
<1> QED BY <1>1 DEF IsPlan, PlanFields, IntentFields, impact

LEMMA OverlayScopeKeeps ==
  ASSUME NEW p, IsPlan(p), NEW s, NEW preferred
  PROVE  Keeps(p, OverlayScope(p, s, preferred))
<1>1. PICK scope, list :
        OverlayScope(p, s, preferred)
        = [p EXCEPT !.primary.scope = scope, !.secondary = list]
  BY DEF OverlayScope
<1> QED BY <1>1 DEF Keeps, IsPlan, PlanFields, IntentFields

LEMMA GroupKeeps ==
  ASSUME NEW p, IsPlan(p), NEW group
  PROVE  Keeps(p, [p EXCEPT !.primary.group = group])
  BY DEF Keeps, IsPlan, PlanFields, IntentFields

LEMMA RepairGroupsKeeps ==
  ASSUME NEW p, IsPlan(p), NEW marks
  PROVE  Keeps(p, RepairGroups(p, marks))
<1> DEFINE group == IF CarriesThrough(p, marks) THEN p.primary.group
                    ELSE GroupOf(p.primary.type)
           list == [i \in DOMAIN p.secondary |->
                      [p.secondary[i] EXCEPT !.group = GroupOf(p.secondary[i].type)]]
           one == [p EXCEPT !.primary.group = group]
<1>1. RepairGroups(p, marks) \in {p, [one EXCEPT !.secondary = list]}
  BY DEF RepairGroups, IsPlan, PlanFields
<1>2. Keeps(p, one)
  BY GroupKeeps
<1> HIDE DEF one, list
<1>3. Keeps(p, [one EXCEPT !.secondary = list])
  BY <1>2, SecondaryKeeps DEF Keeps
<1> QED BY <1>1, <1>3, KeepsItself

LEMMA OverlayGroupsKeeps ==
  ASSUME NEW p, IsPlan(p), NEW s
  PROVE  Keeps(p, OverlayGroups(p, s))
<1> DEFINE repaired == RepairGroups(p, s.tags)
           forced == IF s.cons.type # None
                     THEN [repaired EXCEPT !.primary.group = s.cons.group]
                     ELSE repaired
<1>1. Keeps(p, repaired)
  BY RepairGroupsKeeps
<1>2. Keeps(repaired, forced)
  <2> HIDE DEF repaired
  <2> QED BY <1>1, GroupKeeps, KeepsItself DEF Keeps
<1>3. OverlayGroups(p, s) \in {forced, [forced EXCEPT !.primary.group = "Changed"]}
  BY DEF OverlayGroups
<1>4. IsPlan(forced)
  BY <1>2 DEF Keeps
<1> HIDE DEF repaired, forced
<1>5. Keeps(forced, [forced EXCEPT !.primary.group = "Changed"])
  BY <1>4, GroupKeeps
<1> QED BY <1>1, <1>2, <1>3, <1>4, <1>5, KeepsTransitive, KeepsItself

\* The fill caps once more, but only with a forced impact.
LEMMA FillKeeps ==
  ASSUME NEW p, IsPlan(p), NEW s, NEW stubs
  PROVE  LET q == Fill(p, s, stubs)
         IN /\ IsPlan(q)
            /\ q.primary.type = p.primary.type
            /\ q.primary.impact \in {p.primary.impact, s.cons.impact}
            /\ s.cons.impact = None => q.primary.impact = p.primary.impact
            /\ q.primary.words = p.primary.words
            /\ q.body = p.body
<1> DEFINE one == FillFamily(p, "test", s, stubs)
           both == FillFamily(one, "docs", s, stubs)
           force == s.cons.impact
<1>1. Keeps(p, one)
  BY FillFamilyKeeps
<1>2. Keeps(one, both)
  <2> HIDE DEF one
  <2> QED BY <1>1, FillFamilyKeeps DEF Keeps
<1>3. Fill(p, s, stubs) = IF stubs = << >> \/ force = None THEN both
                          ELSE CapImpacts(both, force, force)
  BY DEF Fill
<1>4. Keeps(p, both)
  <2> HIDE DEF one, both
  <2> QED BY <1>1, <1>2, KeepsTransitive
<1> HIDE DEF one, both, force
<1>5. CASE stubs = << >> \/ force = None
  BY <1>3, <1>4, <1>5 DEF Keeps, force
<1>6. CASE ~(stubs = << >> \/ force = None)
  <2>1. IsPlan(both)
    BY <1>4 DEF Keeps
  <2>2. /\ IsPlan(CapImpacts(both, force, force))
        /\ CapImpacts(both, force, force).primary.type = both.primary.type
        /\ CapImpacts(both, force, force).primary.impact = force
        /\ CapImpacts(both, force, force).primary.words = both.primary.words
        /\ CapImpacts(both, force, force).body = both.body
    BY <1>6, <2>1, CapKeeps DEF Capped
  <2> QED BY <1>3, <1>4, <1>6, <2>2 DEF Keeps, force
<1> QED BY <1>5, <1>6

\* The skeleton has no judged wording of its own.
LEMMA SkeletonIsBlank ==
  ASSUME NEW p, IsPlan(p), NEW s
  PROVE  /\ IsPlan(Skeleton(p, s))
         /\ Skeleton(p, s).primary.words = {}
         /\ Skeleton(p, s).body = Prose
<1>1. PICK type, impact, group, scope :
        Skeleton(p, s)
        = Fill(Blank(p, Intent(type, impact, group, scope, {})), s, s.pathStubs)
  BY DEF Skeleton
<1> DEFINE blank == Blank(p, Intent(type, impact, group, scope, {}))
<1>2. /\ IsPlan(blank)
      /\ blank.primary.words = {}
      /\ blank.body = Prose
  BY DEF Blank, Intent, IsPlan, PlanFields, IntentFields
<1> HIDE DEF blank
<1> QED BY <1>1, <1>2, FillKeeps DEF blank

LEMMA ClampWithin ==
  ASSUME NEW impact, NEW ceiling, ImpactRank[impact] \in Nat,
         ImpactRank[ceiling] \in Nat, ImpactRank[impact] <= ImpactRank[ceiling]
  PROVE  Clamp(impact, ceiling) = impact
  BY DEF Clamp

----------------------------------------------------------------------------
(* The overlay, for a primary the paths allow.                               *)

\* Nothing about the paths speaks against the type.
TypeAllowed(type, s) ==
  /\ s.cons.type \in {None, type}
  /\ s.dominant \in {None, type}
  /\ type \notin s.cons.forbidTypes

\* Nothing about them speaks against the impact.
ImpactFits(impact, s) ==
  /\ impact \in ImpactNames
  /\ s.cons.impact \in {None, impact}
  /\ s.cons.impact = None =>
       /\ s.ceiling \in ImpactNames
       /\ ImpactRank[impact] <= ImpactRank[s.ceiling]

Retyped(p, type, group) ==
  [p EXCEPT !.primary.type = type, !.primary.group = group]

LEMMA RetypeKeeps ==
  ASSUME NEW p, IsPlan(p), NEW type, NEW group
  PROVE  /\ IsPlan(Retyped(p, type, group))
         /\ Retyped(p, type, group).primary.impact = p.primary.impact
         /\ Retyped(p, type, group).primary.type = type
<1> DEFINE one == [p EXCEPT !.primary.type = type]
           two == [one EXCEPT !.primary.group = group]
<1>1. two = Retyped(p, type, group)
  BY DEF Retyped
<1>2. IsPlan(one) /\ one.primary.impact = p.primary.impact /\ one.primary.type = type
  BY DEF IsPlan, PlanFields, IntentFields
<1>3. Keeps(one, two)
  <2> HIDE DEF one
  <2> QED BY <1>2, GroupKeeps
<1> HIDE DEF one, two
<1> QED BY <1>1, <1>2, <1>3 DEF Keeps

LEMMA OverlayTypeKeeps ==
  ASSUME NEW p, IsPlan(p), NEW s
  PROVE  LET q == OverlayType(p, s)
         IN /\ IsPlan(q)
            /\ q.primary.impact = p.primary.impact
            /\ TypeAllowed(p.primary.type, s) => q.primary.type = p.primary.type
<1> DEFINE cons == s.cons
           forced == s.dominant
           group(type) == Or(cons.group, GroupOf(type))
           typed == IF forced = None THEN p
                    ELSE [p EXCEPT !.primary.type = forced,
                                   !.primary.group = group(forced)]
           carried == IF typed.primary.type = "feat" /\ "carry" \in s.tags
                      THEN [typed EXCEPT !.primary.group = "Changed"] ELSE typed
           fallback == Or(cons.type, s.priors.type)
           legal == IF carried.primary.type \in cons.forbidTypes
                    THEN [carried EXCEPT !.primary.type = fallback,
                                         !.primary.group = group(fallback)]
                    ELSE carried
           shown == Or(cons.type, legal.primary.type)
           last == [legal EXCEPT !.primary.type = shown,
                                 !.primary.group = group(shown)]
           same(q, r) == /\ IsPlan(r)
                         /\ r.primary.impact = q.primary.impact
                         /\ TypeAllowed(q.primary.type, s) =>
                              r.primary.type = q.primary.type
<1>1. OverlayType(p, s) \in {legal, last}
  BY DEF OverlayType
<1>3. same(p, typed)
  <2> DEFINE g == group(forced)
             retyped == Retyped(p, forced, g)
  <2>1. typed = IF forced = None THEN p ELSE retyped
    BY DEF Retyped
  <2> HIDE DEF g, forced
  <2>2. /\ IsPlan(retyped)
        /\ retyped.primary.impact = p.primary.impact
        /\ retyped.primary.type = forced
    BY RetypeKeeps
  <2> HIDE DEF typed, retyped
  <2> QED BY <2>1, <2>2 DEF TypeAllowed, forced
<1>4. same(typed, carried)
  <2> HIDE DEF typed
  <2> QED BY <1>3, GroupKeeps DEF Keeps
<1>5. same(carried, legal)
  <2> DEFINE g == group(fallback)
             retyped == Retyped(carried, fallback, g)
  <2>1. legal = IF carried.primary.type \in cons.forbidTypes THEN retyped ELSE carried
    BY DEF Retyped
  <2>2. IsPlan(carried)
    BY <1>4
  <2> HIDE DEF carried, g, fallback
  <2>3. IsPlan(retyped) /\ retyped.primary.impact = carried.primary.impact
    BY <2>2, RetypeKeeps
  <2> HIDE DEF legal, retyped
  <2> QED BY <2>1, <2>2, <2>3 DEF TypeAllowed
<1>6. same(legal, last)
  <2> DEFINE g == group(shown)
  <2>1. IsPlan(legal)
    BY <1>5
  <2>2. TypeAllowed(legal.primary.type, s) => shown = legal.primary.type
    BY DEF TypeAllowed, Or
  <2>3. last = Retyped(legal, shown, g)
    BY DEF Retyped
  <2> HIDE DEF legal, g, shown, last
  <2>4. /\ IsPlan(last)
        /\ last.primary.impact = legal.primary.impact
        /\ last.primary.type = shown
    BY <2>1, <2>3, RetypeKeeps
  <2> QED BY <2>2, <2>4
<1> HIDE DEF typed, carried, legal, last
<1> QED BY <1>1, <1>3, <1>4, <1>5, <1>6

LEMMA OverlayKeeps ==
  ASSUME NEW p, IsPlan(p), NEW s, NEW preferred
  PROVE  LET q == Overlay(p, s, preferred)
         IN /\ IsPlan(q)
            /\ TypeAllowed(p.primary.type, s) => q.primary.type = p.primary.type
            /\ ImpactFits(p.primary.impact, s) => q.primary.impact = p.primary.impact
<1> DEFINE force == s.cons.impact
           type == OverlayType(p, s)
           typed == CapImpacts(type, force, s.ceiling)
           scoped == OverlayScope(typed, s, preferred)
           grouped == OverlayGroups(scoped, s)
           covered == CoverSurfaces(grouped, s)
           filled == Fill(covered, s, s.stubs)
           capped == CapImpacts(filled, force, s.ceiling)
           now == p.primary.impact
<1>1. ImpactFits(now, s) => Capped(now, force, s.ceiling) = now
  <2> DEFINE rank == ImpactRank
  <2>1. \A x \in ImpactNames : rank[x] \in Nat
    BY DEF ImpactNames, ImpactRank
  <2>2. ASSUME ImpactFits(now, s), force = None
        PROVE  Clamp(now, s.ceiling) = now
    BY <2>1, <2>2, ClampWithin DEF ImpactFits
  <2> QED BY <2>2 DEF ImpactFits, Capped
<1>2. /\ IsPlan(typed)
      /\ TypeAllowed(p.primary.type, s) => typed.primary.type = p.primary.type
      /\ ImpactFits(now, s) => typed.primary.impact = now
  <2>1. /\ IsPlan(type)
        /\ type.primary.impact = now
        /\ TypeAllowed(p.primary.type, s) => type.primary.type = p.primary.type
    BY OverlayTypeKeeps
  <2> HIDE DEF type, now, force
  <2> QED BY <2>1, <1>1, CapKeeps
<1>3. Keeps(typed, scoped)
  <2> HIDE DEF typed
  <2> QED BY <1>2, OverlayScopeKeeps
<1>4. Keeps(scoped, grouped)
  <2>1. IsPlan(scoped)
    BY <1>3 DEF Keeps
  <2> HIDE DEF scoped
  <2> QED BY <2>1, OverlayGroupsKeeps
<1>5. Keeps(grouped, covered)
  <2>1. IsPlan(grouped)
    BY <1>4 DEF Keeps
  <2> HIDE DEF grouped
  <2> QED BY <2>1, CoverSurfacesKeeps
<1>6. /\ IsPlan(filled)
      /\ filled.primary.type = covered.primary.type
      /\ filled.primary.impact \in {covered.primary.impact, force}
      /\ force = None => filled.primary.impact = covered.primary.impact
  <2>1. IsPlan(covered)
    BY <1>5 DEF Keeps
  <2> HIDE DEF covered
  <2> QED BY <2>1, FillKeeps
<1>7. Keeps(typed, covered)
  <2> HIDE DEF typed, scoped, grouped, covered
  <2> QED BY <1>3, <1>4, <1>5, KeepsTransitive
<1>8. ImpactFits(now, s) => filled.primary.impact = now
  <2> HIDE DEF typed, covered, filled
  <2> QED BY <1>2, <1>6, <1>7 DEF Keeps, ImpactFits
<1>9. /\ IsPlan(capped)
      /\ capped.primary.type = filled.primary.type
      /\ ImpactFits(now, s) => capped.primary.impact = now
  <2> HIDE DEF filled, now, force
  <2> QED BY <1>1, <1>6, <1>8, CapKeeps
<1>10. Overlay(p, s, preferred) = Marked(p, capped)
  BY DEF Overlay
<1> HIDE DEF typed, covered, filled, capped
<1>11. /\ IsPlan(Marked(p, capped))
       /\ Marked(p, capped).primary = capped.primary
  BY <1>9 DEF Marked, IsPlan, PlanFields
<1> QED BY <1>2, <1>6, <1>7, <1>9, <1>10, <1>11 DEF Keeps

----------------------------------------------------------------------------
(* A legal blueprint, applied.                                               *)

ImpactField(p, impact) == [p EXCEPT !.primary.impact = impact]

LEMMA ImpactSet ==
  ASSUME NEW p, IsPlan(p), NEW impact
  PROVE  LET q == ImpactField(p, impact)
         IN /\ IsPlan(q)
            /\ q.primary.type = p.primary.type
            /\ q.primary.impact = impact
  BY DEF ImpactField, IsPlan, PlanFields, IntentFields

\* The fields a blueprint rewrites before the impact.
Rewritten(p, type, group, scope, words, body) ==
  [p EXCEPT !.primary.type = type, !.primary.group = group,
            !.primary.scope = scope, !.primary.words = words, !.body = body]

LEMMA RewriteKeeps ==
  ASSUME NEW p, IsPlan(p), NEW type, NEW group, NEW scope, NEW words, NEW body
  PROVE  LET q == Rewritten(p, type, group, scope, words, body)
         IN /\ IsPlan(q)
            /\ q.primary.type = type
            /\ q.primary.impact = p.primary.impact
<1> DEFINE one == Retyped(p, type, group)
           two == [one EXCEPT !.primary.scope = scope]
           three == [two EXCEPT !.primary.words = words]
           four == [three EXCEPT !.body = body]
<1>1. four = Rewritten(p, type, group, scope, words, body)
  BY DEF Retyped, Rewritten
<1>2. IsPlan(one) /\ one.primary.type = type /\ one.primary.impact = p.primary.impact
  BY RetypeKeeps
<1>3. /\ IsPlan(two)
      /\ two.primary.type = one.primary.type
      /\ two.primary.impact = one.primary.impact
  <2> HIDE DEF one
  <2> QED BY <1>2 DEF IsPlan, PlanFields, IntentFields
<1>4. /\ IsPlan(three)
      /\ three.primary.type = two.primary.type
      /\ three.primary.impact = two.primary.impact
  <2> HIDE DEF two
  <2> QED BY <1>3 DEF IsPlan, PlanFields, IntentFields
<1>5. IsPlan(four) /\ four.primary = three.primary
  <2> HIDE DEF three
  <2> QED BY <1>4 DEF IsPlan, PlanFields
<1> HIDE DEF one, two, three, four
<1> QED BY <1>1, <1>2, <1>3, <1>4, <1>5

LEMMA CoverTypesKeeps ==
  ASSUME NEW p, IsPlan(p), NEW b
  PROVE  Keeps(p, CoverTypes(p, b))
<1>1. PICK list : CoverTypes(p, b) = [p EXCEPT !.secondary = list]
  BY DEF CoverTypes
<1> QED BY <1>1, SecondaryKeeps

LEMMA MergeStubsKeeps ==
  ASSUME NEW p, IsPlan(p), NEW b, NEW cons
  PROVE  Keeps(p, MergeStubs(p, b, cons))
<1>1. PICK list : MergeStubs(p, b, cons) = [p EXCEPT !.secondary = list]
  BY DEF MergeStubs
<1> QED BY <1>1, SecondaryKeeps

LEMMA BlueprintApplied ==
  ASSUME NEW p, IsPlan(p), NEW b, NEW s,
         IsLegal(b, s.cons, s.pathCeiling),
         b.impact \in {None} \cup ImpactNames,
         s.pathCeiling \in ImpactNames
  PROVE  LET q == ApplyBlueprint(p, b, s)
         IN /\ IsPlan(q)
            /\ b.type \in {None, q.primary.type}
            /\ b.impact \in {None, q.primary.impact}
<1> DEFINE cons == s.cons
           ceiling == s.pathCeiling
           type == Or(b.type, p.primary.type)
           group == IF b.groups # << >> THEN Or(cons.group, Head(b.groups))
                    ELSE IF b.type # None THEN GroupOf(type) ELSE p.primary.group
           scope == Named(<< cons.scope, b.scope, p.primary.scope >>)
           words == IF b.hint THEN {} ELSE p.primary.words
           body == IF p.body = {} THEN b.body ELSE p.body
           retyped == Rewritten(p, type, group, scope, words, body)
           asked == CapImpacts(retyped, None, b.impact)
           lowered == IF cons.impact # None
                      THEN CapImpacts(retyped, cons.impact, ceiling)
                      ELSE IF b.impact = None THEN retyped
                      ELSE ImpactField(asked, b.impact)
           covered == CoverTypes(lowered, b)
           merged == MergeStubs(covered, b, cons)
           forced == Retyped(merged, Or(cons.type, merged.primary.type),
                             Or(cons.group, merged.primary.group))
           capped == CapImpacts(forced, cons.impact, ceiling)
<1>1. ApplyBlueprint(p, b, s) = capped
  BY DEF ApplyBlueprint, Retyped, Rewritten, ImpactField
<1>2. IsPlan(retyped) /\ retyped.primary.type = type
  <2> HIDE DEF type, group, scope, words, body
  <2> QED BY RewriteKeeps
<1>3. /\ IsPlan(lowered)
      /\ lowered.primary.type = type
      /\ cons.impact # None => lowered.primary.impact = cons.impact
      /\ cons.impact = None /\ b.impact # None => lowered.primary.impact = b.impact
  <2> HIDE DEF retyped, type
  <2>1. IsPlan(asked) /\ asked.primary.type = type
    BY <1>2, CapKeeps
  <2>2. LET q == CapImpacts(retyped, cons.impact, ceiling)
        IN /\ IsPlan(q)
           /\ q.primary.type = type
           /\ cons.impact # None => q.primary.impact = cons.impact
    BY <1>2, CapKeeps DEF Capped
  <2> HIDE DEF asked
  <2>3. LET q == ImpactField(asked, b.impact)
        IN IsPlan(q) /\ q.primary.type = type /\ q.primary.impact = b.impact
    BY <2>1, ImpactSet
  <2> QED BY <1>2, <2>2, <2>3
<1>4. Keeps(lowered, covered)
  <2> HIDE DEF lowered
  <2> QED BY <1>3, CoverTypesKeeps
<1>5. Keeps(covered, merged)
  <2>1. IsPlan(covered)
    BY <1>4 DEF Keeps
  <2> HIDE DEF covered
  <2> QED BY <2>1, MergeStubsKeeps
<1>6. /\ IsPlan(forced)
      /\ forced.primary.type = Or(cons.type, merged.primary.type)
      /\ forced.primary.impact = merged.primary.impact
  <2>1. IsPlan(merged)
    BY <1>5 DEF Keeps
  <2> HIDE DEF merged
  <2> QED BY <2>1, RetypeKeeps
<1>7. /\ IsPlan(capped)
      /\ capped.primary.type = forced.primary.type
      /\ capped.primary.impact = Capped(forced.primary.impact, cons.impact, ceiling)
  <2>1. IsPlan(forced)
    BY <1>6
  <2> HIDE DEF lowered, covered, merged, forced, cons, ceiling
  <2> QED BY <2>1, CapKeeps
<1>8. b.type # None => capped.primary.type = b.type
  <2>1. b.type # None => cons.type \in {None, b.type}
    BY DEF IsLegal
  <2>2. b.type # None => type = b.type
    BY DEF Or
  <2>3. b.type # None => merged.primary.type = b.type
    <3> HIDE DEF lowered, covered, merged, type
    <3> QED BY <1>3, <1>4, <1>5, <2>2 DEF Keeps
  <2> HIDE DEF merged, forced, capped, type
  <2> QED BY <1>6, <1>7, <2>1, <2>3 DEF Or
<1>9. b.impact # None => capped.primary.impact = b.impact
  <2> SUFFICES ASSUME b.impact # None PROVE capped.primary.impact = b.impact
    OBVIOUS
  <2>1. ImpactAllowed(b.impact, cons, ceiling)
    BY DEF IsLegal
  <2>2. b.impact \in ImpactNames
    OBVIOUS
  <2>3. lowered.primary.impact = b.impact
    <3> HIDE DEF lowered
    <3> QED BY <1>3, <2>1 DEF ImpactAllowed
  <2>4. forced.primary.impact = b.impact
    <3> HIDE DEF lowered, covered, merged, forced
    <3> QED BY <1>4, <1>5, <1>6, <2>3 DEF Keeps
  <2>5. cons.impact = None => Clamp(b.impact, ceiling) = b.impact
    <3>1. \A x \in ImpactNames : ImpactRank[x] \in Nat
      BY DEF ImpactNames, ImpactRank
    <3> QED BY <2>1, <2>2, <3>1, ClampWithin DEF ImpactAllowed, Or
  <2>6. Capped(b.impact, cons.impact, ceiling) = b.impact
    BY <2>1, <2>5 DEF Capped, ImpactAllowed
  <2> HIDE DEF forced, capped
  <2> QED BY <1>7, <2>4, <2>6
<1> HIDE DEF capped
<1> QED BY <1>1, <1>7, <1>8, <1>9

----------------------------------------------------------------------------
(* The seed, the lift and what the paths say.                                *)

LEMMA SeedKeepsShape ==
  ASSUME NEW p, IsPlan(p), NEW s, NEW low
  PROVE  IsPlan(Seed(p, s, low))
<1> DEFINE forced == s.priors.role \in PriorRoles
           retyped == IF forced THEN Retyped(p, s.priors.type, s.priors.group) ELSE p
<1>1. PICK impact, scope, list :
        Seed(p, s, low)
        \in {p, [retyped EXCEPT !.primary.impact = impact, !.primary.scope = scope,
                                !.secondary = list]}
  BY DEF Seed, Retyped
<1>2. IsPlan(retyped)
  BY RetypeKeeps
<1> HIDE DEF retyped
<1>3. IsPlan([retyped EXCEPT !.primary.impact = impact, !.primary.scope = scope,
                             !.secondary = list])
  <2> DEFINE one == ImpactField(retyped, impact)
             two == [one EXCEPT !.primary.scope = scope]
             three == [two EXCEPT !.secondary = list]
  <2>1. three = [retyped EXCEPT !.primary.impact = impact, !.primary.scope = scope,
                                !.secondary = list]
    BY DEF ImpactField
  <2>2. IsPlan(one)
    BY <1>2, ImpactSet
  <2> HIDE DEF one
  <2>3. IsPlan(two)
    BY <2>2 DEF IsPlan, PlanFields, IntentFields
  <2> HIDE DEF two
  <2>4. IsPlan(three)
    BY <2>3, SecondaryKeeps DEF Keeps
  <2> HIDE DEF three
  <2> QED BY <2>1, <2>4
<1> QED BY <1>1, <1>3

LEMMA LiftKeepsShape ==
  ASSUME NEW p, IsPlan(p), NEW impact, NEW split
  PROVE  IsPlan([p EXCEPT !.primary.impact = impact, !.split = split])
  BY DEF IsPlan, PlanFields, IntentFields

LEMMA ReadingFields ==
  ASSUME NEW diff, NEW marks, NEW breaking, NEW renames
  PROVE  LET r == Reading(diff, marks, breaking, renames)
         IN /\ r.cons = Constraints(diff)
            /\ r.dominant = DominantType(diff, marks)
            /\ r.ceiling = Ceiling(diff, marks, breaking)
            /\ r.pathCeiling = Ceiling(diff, {}, FALSE)
  BY DEF Reading

\* Without tags only the path class speaks, and evidence of a break only
\* raises the ceiling.
LEMMA UntaggedReading ==
  ASSUME NEW diff, NEW breaking, NEW renames
  PROVE  LET r == Reading(diff, {}, breaking, renames)
         IN /\ r.dominant = r.cons.type
            /\ r.ceiling \in ImpactNames
            /\ r.pathCeiling \in ImpactNames
            /\ ImpactRank[r.pathCeiling] <= ImpactRank[r.ceiling]
<1>1. DominantType(diff, {}) = Constraints(diff).type
  BY DEF DominantType
<1>2. /\ Ceiling(diff, {}, breaking) \in {"NONE", "PATCH", "MAJOR"}
      /\ Ceiling(diff, {}, FALSE) \in {"NONE", "PATCH", "MAJOR"}
      /\ Ceiling(diff, {}, FALSE) # "MAJOR" \/ Ceiling(diff, {}, breaking) = "MAJOR"
      /\ Ceiling(diff, {}, breaking) = "NONE" => Ceiling(diff, {}, FALSE) = "NONE"
  BY DEF Ceiling, DarkLaunch
<1>3. ASSUME NEW low \in {"NONE", "PATCH", "MAJOR"}, NEW high \in {"NONE", "PATCH", "MAJOR"},
             low # "MAJOR" \/ high = "MAJOR", high = "NONE" => low = "NONE"
      PROVE  /\ {low, high} \subseteq ImpactNames
             /\ ImpactRank[low] <= ImpactRank[high]
  <2>1. low = "NONE" \/ low = "PATCH" \/ low = "MAJOR"
    OBVIOUS
  <2>2. high = "NONE" \/ high = "PATCH" \/ high = "MAJOR"
    OBVIOUS
  <2> QED BY <1>3, <2>1, <2>2 DEF ImpactNames, ImpactRank
<1>4. /\ Ceiling(diff, {}, breaking) \in ImpactNames
      /\ Ceiling(diff, {}, FALSE) \in ImpactNames
      /\ ImpactRank[Ceiling(diff, {}, FALSE)] <= ImpactRank[Ceiling(diff, {}, breaking)]
  BY <1>2, <1>3
<1> QED BY <1>1, <1>4, ReadingFields

LEMMA PathCeilingIsImpact ==
  ASSUME NEW diff, NEW marks, NEW breaking, NEW renames
  PROVE  Reading(diff, marks, breaking, renames).pathCeiling \in ImpactNames
<1>1. Ceiling(diff, {}, FALSE) \in {"NONE", "PATCH", "MAJOR"}
  BY DEF Ceiling, DarkLaunch
<1>2. {"NONE", "PATCH", "MAJOR"} \subseteq ImpactNames
  BY DEF ImpactNames, ImpactRank
<1>3. Reading(diff, marks, breaking, renames).pathCeiling = Ceiling(diff, {}, FALSE)
  BY ReadingFields
<1> QED BY <1>1, <1>2, <1>3

----------------------------------------------------------------------------
(* The blueprint from its reading to the lift.                               *)

Building == {"seed", "blueprint", "overlay", "lift", "judge"}
Past == {"overlay", "lift", "judge", "presented", "linted", "done"}

\* The invocation's input stays, and so does what its paths say.
SameReading ==
  /\ input \in Inputs
  /\ seen = Reading(input.diff, input.tags, input.breaking, input.renames)

\* A blueprint that was read is the operator's, and legal.
LegalBlueprint ==
  blueprint # None => blueprint = input.blueprint /\ LegalNow

\* A plan under way is a plan, and the blueprint is applied once past it.
PlanUnderWay ==
  /\ stage \in Building => IsPlan(plan)
  /\ applied => blueprint # None /\ stage \in Past
  /\ stage \in Past /\ blueprint # None => applied

\* What the operator asked for is in the plan that enters the overlay.
AskedFor ==
  (stage = "overlay" /\ applied) =>
    /\ blueprint.type \in {None, plan.primary.type}
    /\ blueprint.impact \in {None, plan.primary.impact}

BlueprintInv == /\ SameReading /\ LegalBlueprint /\ PlanUnderWay /\ AskedFor
                /\ BlueprintHonoured

LEMMA BlueprintInit ==
  ASSUME Init
  PROVE  BlueprintInv
  BY DEF Init, BlueprintInv, SameReading, LegalBlueprint, PlanUnderWay, AskedFor,
         BlueprintHonoured, Building, Past

\* The overlay of an untagged diff leaves a legal blueprint's choice alone.
LEMMA OverlayHonours ==
  ASSUME NEW i \in Inputs, i.tags = {}, i.blueprint # None,
         NEW p, IsPlan(p), NEW s,
         s = Reading(i.diff, i.tags, i.breaking, i.renames),
         IsLegal(i.blueprint, s.cons, s.pathCeiling),
         i.blueprint.type \in {None, p.primary.type},
         i.blueprint.impact \in {None, p.primary.impact}
  PROVE  LET q == Overlay(p, s, i.preferred)
         IN /\ i.blueprint.type \in {None, q.primary.type}
            /\ i.blueprint.impact \in {None, q.primary.impact}
<1> DEFINE b == i.blueprint
           q == Overlay(p, s, i.preferred)
<1>1. /\ s.dominant = s.cons.type
      /\ s.ceiling \in ImpactNames
      /\ s.pathCeiling \in ImpactNames
      /\ ImpactRank[s.pathCeiling] <= ImpactRank[s.ceiling]
  BY UntaggedReading
<1>2. b.impact \in {None} \cup ImpactNames
  BY InputsAssumption
<1>3. /\ TypeAllowed(p.primary.type, s) => q.primary.type = p.primary.type
      /\ ImpactFits(p.primary.impact, s) => q.primary.impact = p.primary.impact
  BY OverlayKeeps
<1>4. b.type # None => TypeAllowed(p.primary.type, s)
  BY <1>1 DEF TypeAllowed, IsLegal
<1>5. b.impact # None => ImpactFits(b.impact, s)
  <2> SUFFICES ASSUME b.impact # None PROVE ImpactFits(b.impact, s)
    OBVIOUS
  <2>1. ImpactAllowed(b.impact, s.cons, s.pathCeiling)
    BY DEF IsLegal
  <2>2. \A x \in ImpactNames : ImpactRank[x] \in Nat
    BY DEF ImpactNames, ImpactRank
  <2>3. s.cons.impact = None => ImpactRank[b.impact] <= ImpactRank[s.ceiling]
    BY <1>1, <1>2, <2>1, <2>2 DEF ImpactAllowed, Or
  <2> QED BY <1>1, <1>2, <2>1, <2>3 DEF ImpactAllowed, ImpactFits
<1>6. /\ b.type \in {None, q.primary.type}
      /\ b.impact \in {None, q.primary.impact}
  <2> HIDE DEF q
  <2> QED BY <1>3, <1>4, <1>5
<1> QED BY <1>6

LEMMA BlueprintStep ==
  ASSUME BlueprintInv, [Next]_vars
  PROVE  BlueprintInv'
<1> USE DEF BlueprintInv, given
<1>1. SameReading'
  BY DEF SameReading, Next, NoBlueprintGiven, LoadBlueprint, RefuseBlueprint, Answer,
         SeedStep, NoBlueprint, UseBlueprint, OverlayStep, Lift, Accept, Regenerate,
         FallBack, Lint, Evaluate, Done, vars
<1>2. CASE NoBlueprintGiven
  BY <1>1, <1>2 DEF NoBlueprintGiven, LegalBlueprint, LegalNow, PlanUnderWay, AskedFor,
         BlueprintHonoured, Building, Past
<1>3. CASE LoadBlueprint
  BY <1>1, <1>3 DEF LoadBlueprint, LegalBlueprint, LegalNow, PlanUnderWay, AskedFor,
         BlueprintHonoured, Building, Past
<1>4. CASE RefuseBlueprint
  BY <1>1, <1>4 DEF RefuseBlueprint, LegalBlueprint, LegalNow, PlanUnderWay, AskedFor,
         BlueprintHonoured, Building, Past
<1>5. CASE Answer
  <2>1. IsPlan(plan')
    BY <1>5, AnswersAssumption DEF Answer
  <2> QED
    BY <1>1, <1>5, <2>1 DEF Answer, LegalBlueprint, LegalNow, PlanUnderWay, AskedFor,
         BlueprintHonoured, Building, Past
<1>6. CASE SeedStep
  <2>1. IsPlan(plan')
    BY <1>6, SeedKeepsShape DEF SeedStep, PlanUnderWay, Building
  <2> QED
    BY <1>1, <1>6, <2>1 DEF SeedStep, LegalBlueprint, LegalNow, PlanUnderWay, AskedFor,
         BlueprintHonoured, Building, Past
<1>7. CASE NoBlueprint
  BY <1>1, <1>7 DEF NoBlueprint, LegalBlueprint, LegalNow, PlanUnderWay, AskedFor,
         BlueprintHonoured, Building, Past
<1>8. CASE UseBlueprint
  <2>1. /\ IsPlan(plan)
        /\ blueprint = input.blueprint
        /\ IsLegal(blueprint, seen.cons, seen.pathCeiling)
        /\ blueprint.impact \in {None} \cup ImpactNames
        /\ seen.pathCeiling \in ImpactNames
    BY <1>8, InputsAssumption, PathCeilingIsImpact
       DEF UseBlueprint, PlanUnderWay, LegalBlueprint, LegalNow, SameReading, Building
  <2>2. /\ IsPlan(plan')
        /\ blueprint.type \in {None, plan'.primary.type}
        /\ blueprint.impact \in {None, plan'.primary.impact}
    BY <1>8, <2>1, BlueprintApplied DEF UseBlueprint
  <2> QED
    BY <1>1, <1>8, <2>2 DEF UseBlueprint, LegalBlueprint, LegalNow, PlanUnderWay,
         AskedFor, BlueprintHonoured, Building, Past
<1>9. CASE OverlayStep
  <2>1. IsPlan(plan)
    BY <1>9 DEF OverlayStep, PlanUnderWay, Building
  <2>2. IsPlan(plan')
    BY <1>9, <2>1, OverlayKeeps DEF OverlayStep, Overlaid
  <2>3. ASSUME applied, input.tags = {}
        PROVE  /\ blueprint.type \in {None, plan'.primary.type}
               /\ blueprint.impact \in {None, plan'.primary.impact}
    <3>1. /\ blueprint = input.blueprint /\ blueprint # None
          /\ IsLegal(input.blueprint, seen.cons, seen.pathCeiling)
          /\ input.blueprint.type \in {None, plan.primary.type}
          /\ input.blueprint.impact \in {None, plan.primary.impact}
      BY <1>9, <2>3 DEF OverlayStep, PlanUnderWay, LegalBlueprint, LegalNow, AskedFor
    <3> QED BY <1>9, <2>1, <2>3, <3>1, OverlayHonours DEF OverlayStep, Overlaid, SameReading
  <2> QED
    BY <1>1, <1>9, <2>2, <2>3 DEF OverlayStep, LegalBlueprint, LegalNow, PlanUnderWay,
         AskedFor, BlueprintHonoured, Building, Past
<1>10. CASE Lift
  <2>1. IsPlan(plan')
    BY <1>10, LiftKeepsShape DEF Lift, PlanUnderWay, Building
  <2> QED
    BY <1>1, <1>10, <2>1 DEF Lift, LegalBlueprint, LegalNow, PlanUnderWay, AskedFor,
         BlueprintHonoured, Building, Past
<1>11. CASE Accept
  BY <1>1, <1>11 DEF Accept, LegalBlueprint, LegalNow, PlanUnderWay, AskedFor,
         BlueprintHonoured, Building, Past
<1>12. CASE Regenerate
  BY <1>1, <1>12 DEF Regenerate, LegalBlueprint, LegalNow, PlanUnderWay, AskedFor,
         BlueprintHonoured, Building, Past
<1>13. CASE FallBack
  BY <1>1, <1>13 DEF FallBack, LegalBlueprint, LegalNow, PlanUnderWay, AskedFor,
         BlueprintHonoured, Building, Past
<1>14. CASE Lint
  BY <1>1, <1>14 DEF Lint, LegalBlueprint, LegalNow, PlanUnderWay, AskedFor,
         BlueprintHonoured, Building, Past
<1>15. CASE Evaluate
  BY <1>1, <1>15 DEF Evaluate, LegalBlueprint, LegalNow, PlanUnderWay, AskedFor,
         BlueprintHonoured, Building, Past
<1>16. CASE UNCHANGED vars
  BY <1>1, <1>16 DEF vars, LegalBlueprint, LegalNow, PlanUnderWay, AskedFor,
         BlueprintHonoured, Building, Past
<1> QED BY <1>2, <1>3, <1>4, <1>5, <1>6, <1>7, <1>8, <1>9, <1>10, <1>11, <1>12, <1>13,
           <1>14, <1>15, <1>16 DEF Next, Done

\* A blueprint found legal is what the lift receives, whatever the model
\* answered: the overlay after it changes neither its type nor its impact.
THEOREM BlueprintIsHonoured == Spec => []BlueprintHonoured
<1>1. Init => BlueprintInv
  BY BlueprintInit
<1>2. BlueprintInv /\ [Next]_vars => BlueprintInv'
  BY BlueprintStep
<1>3. BlueprintInv => BlueprintHonoured
  BY DEF BlueprintInv
<1> QED BY <1>1, <1>2, <1>3, PTL DEF Spec

----------------------------------------------------------------------------
(* The reason on record.                                                     *)

LEMMA RankOfReason ==
  ASSUME NEW i \in 1..10
  PROVE  ReasonRank(FallbackOrder[i]) = i
<1>1. DOMAIN FallbackOrder = 1..10
  BY DEF FallbackOrder
<1>2. \A j \in 1..10 : FallbackOrder[j] = FallbackOrder[i] => j = i
  BY DEF FallbackOrder
<1> HIDE DEF FallbackOrder
<1> QED BY <1>1, <1>2 DEF ReasonRank

Reasons == {FallbackOrder[i] : i \in 1..10}

LEMMA NoReasonIsLast ==
  ASSUME NEW r \in Reasons
  PROVE  /\ ReasonRank(r) \in 1..10
         /\ r = "none" <=> ReasonRank(r) = 10
<1>1. PICK i \in 1..10 : r = FallbackOrder[i]
  BY DEF Reasons
<1>2. ReasonRank(r) = i
  BY <1>1, RankOfReason
<1>3. FallbackOrder[i] = "none" <=> i = 10
  BY DEF FallbackOrder
<1> QED BY <1>1, <1>2, <1>3

\* A merge forgets no reason.
LEMMA MergeKeepsAReason ==
  ASSUME NEW r \in Reasons, NEW s \in Reasons
  PROVE  /\ MergeReasons(r, s) \in Reasons
         /\ r # "none" \/ s # "none" => MergeReasons(r, s) # "none"
  BY NoReasonIsLast DEF MergeReasons

LEMMA NamedReasons ==
  {"error", "blueprint", "hallucination_guard", "craft_guard", "low_confidence",
   "none"} \subseteq Reasons
<1>1. /\ FallbackOrder[1] = "error" /\ FallbackOrder[2] = "blueprint"
      /\ FallbackOrder[6] = "hallucination_guard" /\ FallbackOrder[7] = "craft_guard"
      /\ FallbackOrder[9] = "low_confidence" /\ FallbackOrder[10] = "none"
  BY DEF FallbackOrder
<1> HIDE DEF FallbackOrder
<1> QED BY <1>1 DEF Reasons

\* A plan whose repair is dirty was dirty, and a guard names the reason.
LEMMA DirtyHasReason ==
  ASSUME NEW p, NEW s, NEW shipped,
         Findings(Repair(p, s, shipped), s, shipped) # {}
  PROVE  GuardReason(p, s, shipped) # "none"
<1>1. Findings(p, s, shipped) # {}
  BY DEF Repair
<1> QED BY <1>1 DEF Findings, GuardReason

LEMMA GuardReasonNamed ==
  ASSUME NEW p, NEW s, NEW shipped
  PROVE  GuardReason(p, s, shipped) \in Reasons
  BY NamedReasons DEF GuardReason

----------------------------------------------------------------------------
(* What is presented.                                                        *)

\* No word and no secondary: nothing a guard could find.
LEMMA WordlessIsClean ==
  ASSUME NEW p, IsPlan(p), p.primary.words = {}, p.body = Prose, p.secondary = << >>,
         NEW s, NEW shipped
  PROVE  Findings(p, s, shipped) = {}
<1>1. Intents(p) = << p.primary >>
  BY DEF Intents
<1>2. Blob(p) = {"text"} /\ p.body = {"text"}
  <2>1. \A i \in DOMAIN Intents(p) : Intents(p)[i].words = {}
    BY <1>1
  <2> QED BY <2>1 DEF Blob, Prose
<1>3. Hallucinations(p, s, shipped) = {}
  BY <1>2 DEF Hallucinations, UnprovenNouns, ClaimNouns
<1>4. Craft(p, s) = {}
  BY <1>2 DEF Craft, BannedOpeners, ExtendedOpeners
<1> QED BY <1>3, <1>4 DEF Findings

Reasoned ==
  /\ reason \in Reasons
  /\ stage \notin {"load", "rejected"} /\ input.blueprint # None
     => blueprint # None \/ reason # "none"
  /\ skeleton => reason # "none"

\* A clean plan, or a skeleton without wording of its own.
Presented ==
  stage \in {"presented", "linted", "done"} =>
    \/ FindingsNow(plan) = {}
    \/ /\ skeleton
       /\ plan.primary.words = {} /\ plan.body = Prose
       /\ FindingsNow([plan EXCEPT !.secondary = << >>]) = {}

PresentedInv == BlueprintInv /\ Reasoned /\ Presented

LEMMA ReasonedStep ==
  ASSUME BlueprintInv, Reasoned, [Next]_vars
  PROVE  Reasoned'
<1> USE NamedReasons DEF Reasoned, given
<1>1. CASE NoBlueprintGiven
  BY <1>1 DEF NoBlueprintGiven
<1>2. CASE LoadBlueprint
  BY <1>2 DEF LoadBlueprint
<1>3. CASE RefuseBlueprint
  BY <1>3 DEF RefuseBlueprint
<1>4. CASE Answer
  BY <1>4 DEF Answer
<1>5. CASE SeedStep
  BY <1>5 DEF SeedStep
<1>6. CASE NoBlueprint
  BY <1>6 DEF NoBlueprint
<1>7. CASE UseBlueprint
  BY <1>7 DEF UseBlueprint
<1>8. CASE OverlayStep
  BY <1>8 DEF OverlayStep
<1>9. CASE Lift
  BY <1>9 DEF Lift
<1>10. CASE Accept
  BY <1>10 DEF Accept
<1>11. ASSUME FindingsNow(Repaired) # {}
       PROVE  GuardedReason \in Reasons /\ GuardedReason # "none"
  <2> DEFINE g == GuardReason(plan, seen, input.shipped)
  <2>1. g # "none"
    BY <1>11, DirtyHasReason DEF FindingsNow, Repaired
  <2>2. g \in Reasons
    BY GuardReasonNamed
  <2> HIDE DEF g
  <2>3. MergeReasons(reason, g) \in Reasons /\ MergeReasons(reason, g) # "none"
    BY <2>1, <2>2, MergeKeepsAReason
  <2> QED BY <2>3 DEF GuardedReason, g
<1>12. CASE Regenerate
  BY <1>11, <1>12 DEF Regenerate
<1>13. CASE FallBack
  BY <1>11, <1>13 DEF FallBack
<1>14. CASE Lint
  BY <1>14 DEF Lint
<1>15. CASE Evaluate
  BY <1>15 DEF Evaluate
<1>16. CASE UNCHANGED vars
  BY <1>16 DEF vars
<1> QED BY <1>1, <1>2, <1>3, <1>4, <1>5, <1>6, <1>7, <1>8, <1>9, <1>10, <1>12, <1>13,
           <1>14, <1>15, <1>16 DEF Next, Done

LEMMA PresentedStep ==
  ASSUME BlueprintInv, Presented, [Next]_vars
  PROVE  Presented'
<1>1. SameReading /\ UNCHANGED << input, seen >>
  BY DEF BlueprintInv, Next, NoBlueprintGiven, LoadBlueprint, RefuseBlueprint, Answer,
         SeedStep, NoBlueprint, UseBlueprint, OverlayStep, Lift, Accept, Regenerate,
         FallBack, Lint, Evaluate, Done, vars, given
<1>2. CASE Accept
  BY <1>1, <1>2 DEF Accept, Presented, FindingsNow
<1>3. CASE FallBack
  <2>1. IsPlan(plan)
    BY <1>3 DEF FallBack, BlueprintInv, PlanUnderWay, Building
  <2> DEFINE bare == [plan' EXCEPT !.secondary = << >>]
  <2>2. /\ IsPlan(plan')
        /\ plan'.primary.words = {}
        /\ plan'.body = Prose
    BY <1>3, <2>1, SkeletonIsBlank DEF FallBack
  <2>3. /\ IsPlan(bare)
        /\ bare.primary.words = {}
        /\ bare.body = Prose
        /\ bare.secondary = << >>
    BY <2>2 DEF IsPlan, PlanFields
  <2> HIDE DEF bare
  <2>4. Findings(bare, seen, input.shipped) = {}
    BY <2>3, WordlessIsClean
  <2> QED BY <1>1, <1>3, <2>2, <2>4 DEF FallBack, Presented, FindingsNow, bare
<1>4. CASE Lint
  BY <1>1, <1>4 DEF Lint, Presented, FindingsNow
<1>5. CASE Evaluate
  BY <1>1, <1>5 DEF Evaluate, Presented, FindingsNow
<1>6. CASE UNCHANGED vars
  BY <1>6 DEF vars, Presented, FindingsNow
<1>7. CASE \/ NoBlueprintGiven \/ LoadBlueprint \/ RefuseBlueprint \/ Answer \/ SeedStep
           \/ NoBlueprint \/ UseBlueprint \/ OverlayStep \/ Lift \/ Regenerate
  BY <1>7 DEF NoBlueprintGiven, LoadBlueprint, RefuseBlueprint, Answer, SeedStep,
              NoBlueprint, UseBlueprint, OverlayStep, Lift, Regenerate, Presented
<1> QED BY <1>2, <1>3, <1>4, <1>5, <1>6, <1>7 DEF Next, Done

LEMMA PresentedInit ==
  ASSUME Init
  PROVE  PresentedInv
  BY BlueprintInit, NamedReasons DEF PresentedInv, Init, Reasoned, Presented

\* What is presented is clean or a skeleton that only a secondary soils, and
\* a skeleton or a blueprint that was not followed has its reason on record.
THEOREM PresentedIsClean == Spec => []CleanOrSkeleton
<1>1. Init => PresentedInv
  BY PresentedInit
<1>2. PresentedInv /\ [Next]_vars => PresentedInv'
  BY BlueprintStep, ReasonedStep, PresentedStep DEF PresentedInv
<1>3. PresentedInv => CleanOrSkeleton
  BY DEF PresentedInv, BlueprintInv, PlanUnderWay, Reasoned, Presented, CleanOrSkeleton,
         Past
<1> QED BY <1>1, <1>2, <1>3, PTL DEF Spec

----------------------------------------------------------------------------
(* Release: the inductive invariant.                                       *)
\* The tags lie behind the log's end, and tags of one commit have its files.
TagsBehind ==
  /\ \A t \in tags : t.at = Len(log) => t.tree = head
  /\ \A t, u \in tags : t.at = u.at => t.tree = u.tree
  /\ \A t \in tags : t.at <= Len(log)

\* The changelog, wherever it is: a run that has opened the file has it.
Ledger == IF At("write") THEN run.old ELSE disk.changelog

Listed(blocks, version) == \E i \in DOMAIN blocks : blocks[i].tag = version
FilesWhole ==
  /\ disk.pyproject # Nothing /\ disk.lock # Nothing /\ disk.header # Nothing
  /\ \A i, j \in DOMAIN Ledger : Ledger[i].tag = Ledger[j].tag => i = j
  /\ \A u \in Cuts : Listed(Ledger, u.version)
  /\ \A i \in DOMAIN head.changelog : Listed(Ledger, head.changelog[i].tag)

AfterPyproject == {"lock", "header", "changelog", "write", "notes", "publish"}
AfterLock      == AfterPyproject \ {"lock"}
AfterHeader    == AfterLock \ {"header"}
AfterChangelog == {"notes", "publish"}

\* What a run has done by the place it is at.
Injects(r) ==
  /\ r.at \in AfterPyproject => "pyproject" \in r.left \/ disk.pyproject = r.tag
  /\ r.at \in AfterLock => "lock" \in r.left \/ disk.lock = r.tag
  /\ r.at \in AfterChangelog => Listed(disk.changelog, r.tag)

OldHeader(h) ==
  /\ tags = {} => h = Origin
  /\ \A t \in tags : (\A u \in tags : u.at <= t.at) => t.tree.header = h

Due(r) == r.touched /\ (r.bump # "NONE" \/ r.request.pre # 0)
FromNearest(r) ==
  /\ r.fresh <=> tags = {}
  /\ \A t \in tags : t.at <= r.since
  /\ IF tags = {} THEN r.since = 0 ELSE \E t \in tags : t.at = r.since

Undisturbed(r) ==
  /\ FromNearest(r)
  /\ r.at # "validate" => (r.touched <=> r.fresh \/ \E i \in r.commits : log[i].header)
  /\ r.at \in AfterHeader =>
       \E h \in {Origin} \cup {t.tree.header : t \in tags} :
          /\ OldHeader(h)
          /\ disk.header = IF Due(r) THEN Bump(h, r.bump, r.request.pre) ELSE h
  /\ r.at \in AfterChangelog =>
       \A i \in Heads(disk.changelog, r.tag) : disk.changelog[i].commits = r.commits

RunInv == run # Nothing =>
  /\ advice = Nothing
  /\ ~ collided /\ run.at # "validate" =>
       /\ run.tag \notin elsewhere
       /\ \A t \in tags : t.version = run.tag => ~ t.cut
  /\ ~ torn => Injects(run)
  /\ ~ torn /\ run.whole =>
       /\ Undisturbed(run)
       /\ run.since <= Len(log) /\ run.commits = Since(run.since)
       /\ run.at \in AfterChangelog => ~ Listed(head.changelog, run.tag)

AdviceInv == advice # Nothing =>
  /\ run = Nothing /\ advice.at \in AfterChangelog
  /\ ~ torn => Injects(advice)
  /\ ~ torn /\ advice.whole =>
       /\ Undisturbed(advice)
       /\ IF disk = head
          THEN advice.since < Len(log) /\ advice.commits = advice.since + 1 .. Len(log) - 1
          ELSE advice.since <= Len(log) /\ advice.commits = Since(advice.since)

HeaderInv == ~ torn /\ ~ bumped => OldHeader(disk.header) /\ OldHeader(head.header)

ReleaseInv ==
  /\ TypeOK /\ TagsBehind /\ (~ torn => FilesWhole)
  /\ RunInv /\ AdviceInv /\ HeaderInv /\ TagsAreCuts

LessThanOnNat == {ss \in Nat \X Nat : ss[1] < ss[2]}

(* Every set of naturals has a least element.                              *)
LEMMA Least ==
  ASSUME NEW S \in SUBSET Nat, S # {}
  PROVE  \E x \in S : \A y \in S : x <= y
<1>1. LessThanOnNat = OpToRel(<, Nat)
  BY DEF LessThanOnNat, OpToRel
<1>2. IsWellFoundedOn(LessThanOnNat, Nat)
  BY <1>1, NatLessThanWellFounded
<1>3. PICK x \in S : \A y \in S : ~ (<<y, x>> \in LessThanOnNat)
  BY <1>2, WFMin
<1>4. ASSUME NEW y \in S PROVE x <= y
  <2>1. <<y, x>> \notin LessThanOnNat /\ y \in Nat /\ x \in Nat
    BY <1>3
  <2>2. ~ (y < x)
    BY <2>1 DEF LessThanOnNat
  <2> QED BY <2>1, <2>2
<1> QED BY <1>4

----------------------------------------------------------------------------
(* Type correctness.                                                       *)

LEMMA OriginIsVersion == Origin \in Version
BY ReleaseAssumption DEF Origin, Version, Part, Tokens

LEMMA BumpShape ==
  ASSUME NEW v \in Version, NEW impact \in SemverImpacts, NEW pre \in Tokens,
         Small(Bump(v, impact, pre))
  PROVE  Bump(v, impact, pre) \in Version
<1> DEFINE new == Bump(v, impact, pre)
<1>1. /\ new = [major |-> new.major, minor |-> new.minor, patch |-> new.patch,
                pre |-> new.pre, n |-> new.n]
      /\ new.pre \in Tokens
      /\ new.pre = 0 => new.n = 0
  BY DEF Bump, EffectiveBump, Raised, Final, PreRelease, Version, SemverImpacts, Tokens
<1>2. /\ new.major \in Part /\ new.minor \in Part /\ new.patch \in Part /\ new.n \in Part
  BY DEF Small
<1> HIDE DEF new
<1>3. new \in [major : Part, minor : Part, patch : Part, pre : Tokens, n : Part]
  BY <1>1, <1>2
<1>4. new \in Version
  BY <1>1, <1>3 DEF Version
<1> QED BY <1>4 DEF new

LEMMA FirstIsVersion ==
  ASSUME NEW pre \in Tokens
  PROVE  FirstVersion(pre) \in Version
BY ReleaseAssumption DEF FirstVersion, Version, Part, Tokens

LEMMA GlobalBumpIsImpact == ASSUME NEW c PROVE GlobalBump(c) \in SemverImpacts
BY DEF GlobalBump, SemverImpacts

LEMMA Bounds == MaxLog \in Nat /\ MaxTries \in Nat
BY ReleaseAssumption

LEMMA LogTyped ==
  ASSUME TypeOK
  PROVE  /\ log \in Seq(Commit) /\ Len(log) \in Nat /\ Len(log) <= MaxLog
         /\ \A i \in 1 .. Len(log) : log[i] \in Commit
<1>1. log \in Seq(Commit) /\ Len(log) <= MaxLog
  BY DEF TypeOK
<1> QED BY <1>1

(* A commit more, while there is room.                                     *)
LEMMA LogGrows ==
  ASSUME TypeOK, NEW c \in Commit
  PROVE  /\ Append(log, c) \in Seq(Commit) /\ Len(Append(log, c)) = Len(log) + 1
         /\ \A i \in 1 .. Len(log) : Append(log, c)[i] = log[i]
         /\ Append(log, c)[Len(log) + 1] = c
<1>1. log \in Seq(Commit)
  BY LogTyped
<1> QED BY <1>1

LEMMA RunFields ==
  ASSUME NEW r \in Run
  PROVE  /\ r.at \in Places /\ r.tag \in Version /\ r.bump \in SemverImpacts
         /\ r.since \in 0 .. MaxLog /\ r.commits \in SUBSET (1 .. MaxLog)
         /\ r.fresh \in BOOLEAN /\ r.touched \in BOOLEAN /\ r.named \in BOOLEAN
         /\ r.left \in SUBSET Files /\ r.old \in Seq(Block)
         /\ r.whole \in BOOLEAN /\ r.request \in Request
         /\ r.request.pre \in Tokens
<1>1. /\ r.at \in Places /\ r.tag \in Version /\ r.bump \in SemverImpacts
      /\ r.since \in 0 .. MaxLog /\ r.commits \in SUBSET (1 .. MaxLog)
      /\ r.fresh \in BOOLEAN /\ r.touched \in BOOLEAN /\ r.named \in BOOLEAN
      /\ r.left \in SUBSET Files /\ r.old \in Seq(Block)
      /\ r.whole \in BOOLEAN
  BY DEF Run
<1>2. r.request \in Request
  BY ReleaseAssumption DEF Run
<1>3. r.request.pre \in Tokens
  BY <1>2 DEF Request
<1> QED BY <1>1, <1>2, <1>3

LEMMA SinceIsSet ==
  ASSUME TypeOK, NEW at \in 0 .. MaxLog
  PROVE  Since(at) \in SUBSET (1 .. MaxLog)
BY Bounds, LogTyped DEF Since

(* What a tag on the log's end is.                                         *)
LEMMA TagTyped ==
  ASSUME TypeOK, NEW r \in Run, NEW cut \in BOOLEAN
  PROVE  [version |-> r.tag, at |-> Len(log), cut |-> cut, whole |-> cut /\ r.whole,
          bump |-> r.bump, pre |-> r.request.pre, left |-> r.left, tree |-> head] \in Tag
<1>1. /\ r.tag \in Version /\ r.whole \in BOOLEAN /\ r.bump \in SemverImpacts
      /\ r.request.pre \in Tokens /\ r.left \in SUBSET Files
  BY RunFields
<1>2. Len(log) \in 0 .. MaxLog /\ head \in Tree
  <2>1. head \in Tree
    BY DEF TypeOK
  <2> QED BY <2>1, Bounds, LogTyped
<1>3. (cut /\ r.whole) \in BOOLEAN
  BY <1>1
<1> DEFINE w == cut /\ r.whole
<1> HIDE DEF w
<1>4. w \in BOOLEAN
  BY <1>3 DEF w
<1>5. [version |-> r.tag, at |-> Len(log), cut |-> cut, whole |-> w,
          bump |-> r.bump, pre |-> r.request.pre, left |-> r.left, tree |-> head] \in Tag
  BY <1>1, <1>2, <1>4 DEF Tag
<1> QED BY <1>5 DEF w

LEMMA DisturbedTyped ==
  ASSUME NEW r \in Run \cup {Nothing}
  PROVE  Disturbed(r) \in Run \cup {Nothing}
BY DEF Disturbed, Run

LEMMA TreeTyped ==
  ASSUME TypeOK
  PROVE  /\ disk.pyproject \in Version \cup {Nothing} /\ disk.lock \in Version \cup {Nothing}
         /\ disk.header \in Version \cup {Nothing} /\ disk.changelog \in Seq(Block)
BY DEF TypeOK, Tree

LEMMA RunTyped ==
  ASSUME TypeOK, NEW place, At(place)
  PROVE  run \in Run
BY DEF TypeOK, At

(* A run begins from no tag or from the nearest.                           *)
LEMMA BegunIsRun ==
  ASSUME TypeOK, NEW q \in Requests, NEW failed, NEW last \in LastTags(failed),
         NEW commits \in SUBSET (1 .. MaxLog), NEW whole \in BOOLEAN,
         Begins(q, last, commits, whole)
  PROVE  /\ run' \in Run /\ run'.at = "validate" /\ run'.whole = whole
         /\ run'.commits = commits /\ (run'.fresh <=> last = Nothing)
         /\ run'.since = IF last = Nothing THEN 0 ELSE last.at
<1> DEFINE since == IF last = Nothing THEN 0 ELSE last.at
           bump == GlobalBump(commits)
           new == IF last = Nothing THEN FirstVersion(q.pre) ELSE Bump(last.version, bump, q.pre)
           fresh == last = Nothing
<1>1. last # Nothing => last.version \in Version /\ last.at \in 0 .. MaxLog
  BY DEF LastTags, TypeOK, Tag
<1>2. since \in 0 .. MaxLog /\ bump \in SemverImpacts /\ q.pre \in Tokens /\ fresh \in BOOLEAN
  BY <1>1, Bounds, GlobalBumpIsImpact, ReleaseAssumption DEF Request
<1>3. Small(new)
  BY DEF Begins
<1>4. new \in Version
  <2>1. CASE last = Nothing
    BY <1>2, <2>1, FirstIsVersion
  <2>2. CASE last # Nothing
    <3> HIDE DEF bump
    <3> QED BY <1>1, <1>2, <1>3, <2>2, BumpShape
  <2> QED BY <2>1, <2>2
<1>5. run' = [at |-> "validate", request |-> q, tag |-> new, bump |-> bump, since |-> since,
              commits |-> commits, fresh |-> fresh, touched |-> FALSE,
              named |-> FALSE, left |-> {}, old |-> <<>>, whole |-> whole]
  BY DEF Begins
<1>6. <<>> \in Seq(Block) /\ "validate" \in Places
  BY DEF Places
<1>7. fresh <=> last = Nothing
  OBVIOUS
<1> HIDE DEF new, bump, since, fresh
<1>8. run' \in Run /\ run'.since = since /\ run'.at = "validate" /\ run'.whole = whole
      /\ run'.commits = commits /\ run'.fresh = fresh
  BY <1>2, <1>4, <1>5, <1>6 DEF Run
<1> QED BY <1>7, <1>8 DEF since

LEMMA PlanBegins ==
  ASSUME TypeOK, Plan
  PROVE  \E q \in Requests, failed \in SUBSET {"describe", "log"} :
           \E last \in LastTags(failed), commits \in SUBSET (1 .. MaxLog), whole \in BOOLEAN :
             /\ Begins(q, last, commits, whole)
             /\ whole <=> failed = {}
             /\ whole => commits = Since(IF last = Nothing THEN 0 ELSE last.at)
<1>0. PICK q \in Requests, failed \in SUBSET {"describe", "log"} :
        \E last \in LastTags(failed) :
          LET since == IF last = Nothing THEN 0 ELSE last.at
          IN  Begins(q, last, IF "log" \in failed THEN {} ELSE Since(since), failed = {})
  BY DEF Plan
<1>1. PICK last \in LastTags(failed) :
        LET since == IF last = Nothing THEN 0 ELSE last.at
        IN  Begins(q, last, IF "log" \in failed THEN {} ELSE Since(since), failed = {})
  BY <1>0
<1> DEFINE since == IF last = Nothing THEN 0 ELSE last.at
           commits == IF "log" \in failed THEN {} ELSE Since(since)
<1>2. since \in 0 .. MaxLog
  BY Bounds DEF LastTags, TypeOK, Tag
<1>3. commits \in SUBSET (1 .. MaxLog)
  <2> HIDE DEF since
  <2> QED BY <1>2, SinceIsSet
<1>4. PICK whole \in BOOLEAN : whole = (failed = {})
  OBVIOUS
<1>5. Begins(q, last, commits, whole)
  BY <1>1, <1>4
<1>6. whole => commits = Since(since)
  BY <1>4
<1>7. whole <=> failed = {}
  BY <1>4
<1> HIDE DEF commits, since
<1>8. \E x \in SUBSET (1 .. MaxLog), w \in BOOLEAN :
        /\ Begins(q, last, x, w) /\ (w <=> failed = {}) /\ (w => x = Since(since))
  BY <1>3, <1>5, <1>6, <1>7
<1> QED BY <1>0, <1>8 DEF since

LEMMA SpentTyped ==
  ASSUME TypeOK, NEW n \in Nat, Spends(n)
  PROVE  tries' \in 0 .. MaxTries
<1>1. tries \in 0 .. MaxTries
  BY DEF TypeOK
<1> QED BY <1>1, Bounds DEF Spends

LEMMA SwallowedTyped ==
  ASSUME TypeOK, NEW failed, Swallows(failed)
  PROVE  tries' \in 0 .. MaxTries
<1>1. Cost(failed) \in Nat
  BY DEF Cost
<1> QED BY <1>1, SpentTyped DEF Swallows

(* What stays of a run when it goes on to another place.                   *)
SameRun(r, old) ==
  /\ r.tag = old.tag /\ r.since = old.since /\ r.commits = old.commits
  /\ r.fresh = old.fresh
  /\ r.touched = old.touched /\ r.bump = old.bump /\ r.request = old.request

LEMMA ValidatedFields ==
  ASSUME run \in Run, NEW failed,
         run' = [run EXCEPT !.at = "pyproject", !.touched = Modified /\ "diff" \notin failed,
                           !.whole = @ /\ "diff" \notin failed]
  PROVE  /\ run' \in Run /\ run'.at = "pyproject" /\ run'.tag = run.tag
         /\ run'.since = run.since /\ run'.commits = run.commits /\ run'.fresh = run.fresh
         /\ run'.whole => run.whole /\ (run'.touched <=> Modified)
<1>1. PICK b \in BOOLEAN, w \in BOOLEAN :
        /\ b = (Modified /\ "diff" \notin failed)
        /\ w = (run.whole /\ "diff" \notin failed)
  OBVIOUS
<1>2. run' = [run EXCEPT !.at = "pyproject", !.touched = b, !.whole = w]
  BY <1>1
<1>3. /\ run' \in Run /\ run'.at = "pyproject" /\ run'.tag = run.tag
      /\ run'.since = run.since /\ run'.commits = run.commits /\ run'.fresh = run.fresh
      /\ run'.touched = b /\ run'.whole = w
  BY <1>2 DEF Run, Places
<1> QED BY <1>1, <1>3

LEMMA PyprojectFields ==
  ASSUME run \in Run, disk \in Tree, PutPyproject
  PROVE  /\ run' \in Run /\ run'.at = "lock" /\ SameRun(run', run) /\ run'.whole = run.whole
         /\ disk' \in Tree /\ disk'.lock = disk.lock /\ disk'.header = disk.header
         /\ disk'.changelog = disk.changelog
         /\ \/ disk'.pyproject = disk.pyproject /\ "pyproject" \in run'.left
            \/ disk.pyproject = Nothing /\ disk'.pyproject = Nothing
            \/ disk'.pyproject = run.tag
<1>1. PICK failed \in SUBSET {"name", "content"} :
        /\ disk' = IF "content" \in failed THEN disk ELSE [disk EXCEPT !.pyproject = Injected(@)]
        /\ run' = [run EXCEPT !.at = "lock",
                             !.named = disk.pyproject # Nothing /\ "name" \notin failed,
                             !.left = IF "content" \in failed THEN {"pyproject"} ELSE {}]
  BY DEF PutPyproject
<1>2. PICK b \in BOOLEAN : b = (disk.pyproject # Nothing /\ "name" \notin failed)
  OBVIOUS
<1>3. PICK left \in SUBSET Files : left = IF "content" \in failed THEN {"pyproject"} ELSE {}
  BY DEF Files
<1>4. run' = [run EXCEPT !.at = "lock", !.named = b, !.left = left]
  BY <1>1, <1>2, <1>3
<1>5. /\ run' \in Run /\ run'.at = "lock" /\ SameRun(run', run) /\ run'.whole = run.whole
      /\ run'.left = left
  BY <1>4 DEF Run, Places, SameRun
<1>6. run.tag \in Version
  BY DEF Run
<1>7. /\ disk' \in Tree /\ disk'.lock = disk.lock /\ disk'.header = disk.header
      /\ disk'.changelog = disk.changelog
      /\ disk'.pyproject = IF "content" \in failed THEN disk.pyproject
                          ELSE IF disk.pyproject = Nothing THEN Nothing ELSE run.tag
  BY <1>1, <1>6 DEF Tree, Injected, CanonicalVersion
<1> QED BY <1>3, <1>5, <1>7

LEMMA LockFields ==
  ASSUME run \in Run, disk \in Tree, PutLock
  PROVE  /\ run' \in Run /\ run'.at = "header" /\ SameRun(run', run) /\ run'.whole = run.whole
         /\ run.left \subseteq run'.left
         /\ disk' \in Tree /\ disk'.pyproject = disk.pyproject /\ disk'.header = disk.header
         /\ disk'.changelog = disk.changelog
         /\ \/ disk'.lock = disk.lock /\ "lock" \in run'.left
            \/ disk.lock = Nothing /\ disk'.lock = Nothing
            \/ disk'.lock = run.tag
         /\ "pyproject" \in run'.left => "pyproject" \in run.left
<1>1. PICK put \in BOOLEAN :
        /\ disk' = IF put THEN [disk EXCEPT !.lock = Injected(@)] ELSE disk
        /\ run' = [run EXCEPT !.at = "header", !.named = FALSE,
                             !.left = IF put THEN @ ELSE @ \cup {"lock"}]
  BY DEF PutLock, Run
<1>2. PICK left \in SUBSET Files : left = IF put THEN run.left ELSE run.left \cup {"lock"}
  BY DEF Files, Run
<1>3. run' = [run EXCEPT !.at = "header", !.named = FALSE, !.left = left]
  BY <1>1, <1>2
<1>4. /\ run' \in Run /\ run'.at = "header" /\ SameRun(run', run) /\ run'.whole = run.whole
      /\ run'.left = left
  BY <1>3 DEF Run, Places, SameRun
<1>5. run.tag \in Version
  BY DEF Run
<1>6. /\ disk' \in Tree /\ disk'.pyproject = disk.pyproject /\ disk'.header = disk.header
      /\ disk'.changelog = disk.changelog
      /\ disk'.lock = IF put THEN IF disk.lock = Nothing THEN Nothing ELSE run.tag ELSE disk.lock
  BY <1>1, <1>5 DEF Tree, Injected, CanonicalVersion
<1> QED BY <1>2, <1>4, <1>6

LEMMA TypeStep ==
  ASSUME TypeOK, [ReleaseNext]_releaseVars
  PROVE  TypeOK'
<1>1. CASE Plan
  <2>1. run' \in Run
    BY <1>1, PlanBegins, BegunIsRun
  <2>2. tries' \in 0 .. MaxTries
    <3>1. PICK n \in {1, 2} : Spends(n)
      BY <1>1 DEF Plan, Cost
    <3> QED BY <3>1, SpentTyped
  <2> QED BY <1>1, <2>1, <2>2 DEF Plan, TypeOK, repository
<1>2. CASE Validate
  <2>1. run \in Run
    BY <1>2, RunTyped DEF Validate
  <2>2. /\ run' \in Run \cup {Nothing} /\ advice' \in Run \cup {Nothing}
        /\ tries' \in 0 .. MaxTries /\ collided' \in BOOLEAN
    <3>1. CASE GiveUp /\ UNCHANGED <<tries, collided>>
      BY <3>1 DEF GiveUp, TypeOK
    <3>2. ASSUME NEW failed, Swallows(failed),
                 collided' = (collided \/ ~ Available(run.tag)),
                 run' = [run EXCEPT !.at = "pyproject",
                           !.touched = Modified /\ "diff" \notin failed,
                           !.whole = @ /\ "diff" \notin failed],
                 UNCHANGED advice
          PROVE  /\ run' \in Run /\ advice' \in Run \cup {Nothing}
                 /\ tries' \in 0 .. MaxTries /\ collided' \in BOOLEAN
      <4>1. run' \in Run
        BY <2>1, <3>2, ValidatedFields
      <4> QED BY <3>2, <4>1, SwallowedTyped DEF TypeOK
    <3> QED BY <1>2, <3>1, <3>2 DEF Validate
  <2> QED BY <1>2, <2>2 DEF Validate, TypeOK, repository
<1>3. CASE PutPyproject
  <2>1. run \in Run
    BY <1>3, RunTyped DEF PutPyproject
  <2>2. /\ run' \in Run /\ disk' \in Tree
    BY <1>3, <2>1, PyprojectFields DEF TypeOK
  <2>3. tries' \in 0 .. MaxTries
    BY <1>3, SwallowedTyped DEF PutPyproject
  <2> QED BY <1>3, <2>2, <2>3 DEF PutPyproject, TypeOK, repository
<1>4. CASE PutLock
  <2>1. run \in Run
    BY <1>4, RunTyped DEF PutLock
  <2>2. /\ run' \in Run /\ disk' \in Tree
    BY <1>4, <2>1, LockFields DEF TypeOK
  <2>3. tries' \in 0 .. MaxTries
    BY <1>4, SwallowedTyped DEF PutLock
  <2> QED BY <1>4, <2>2, <2>3 DEF PutLock, TypeOK, repository
<1>5. CASE PutHeader
  <2>1. run \in Run
    BY <1>5, RunTyped DEF PutHeader
  <2>2. run' \in Run
    <3>1. \E w \in BOOLEAN : run' = [run EXCEPT !.at = "changelog", !.whole = w]
      BY <1>5, <2>1 DEF PutHeader, TypeOK, Run
    <3> QED BY <2>1, <3>1 DEF Run, Places
  <2>3. disk' \in Tree
    <3>1. ASSUME HeadersDue, disk.header # Nothing,
                 disk' = [disk EXCEPT !.header = Bump(disk.header, run.bump, run.request.pre)]
          PROVE  disk' \in Tree
      <4> DEFINE new == Bump(disk.header, run.bump, run.request.pre)
      <4>1. disk' = [disk EXCEPT !.header = new] /\ Small(new)
        BY <1>5, <3>1 DEF PutHeader
      <4>2. disk.header \in Version /\ run.bump \in SemverImpacts /\ run.request.pre \in Tokens
          <5>1. disk.header \in Version \cup {Nothing} /\ disk.header # Nothing
          BY <3>1, TreeTyped
        <5> QED BY <2>1, <5>1, RunFields
      <4>3. new \in Version
        BY <4>1, <4>2, BumpShape
      <4> HIDE DEF new
      <4> QED BY <4>1, <4>3 DEF TypeOK, Tree
    <3>2. CASE disk' = disk
      BY <3>2 DEF TypeOK
    <3>3. CASE disk' = [disk EXCEPT !.header = Nothing]
      BY <3>3 DEF TypeOK, Tree
    <3> QED BY <1>5, <3>1, <3>2, <3>3 DEF PutHeader
  <2>4. bumped' \in BOOLEAN /\ torn' \in BOOLEAN
    BY <1>5 DEF PutHeader, TypeOK
  <2>5. tries' \in 0 .. MaxTries
    <3>1. CASE UNCHANGED tries
      BY <3>1 DEF TypeOK
    <3> QED BY <1>5, <3>1, SwallowedTyped DEF PutHeader
  <2> QED BY <1>5, <2>2, <2>3, <2>4, <2>5 DEF PutHeader, TypeOK, repository
<1>6. CASE OpenChangelog
  <2>1. run \in Run
    BY <1>6, RunTyped DEF OpenChangelog
  <2>2. /\ run' \in Run \cup {Nothing} /\ advice' \in Run \cup {Nothing}
        /\ disk' \in Tree
    <3>1. disk.changelog \in Seq(Block) /\ <<>> \in Seq(Block)
      BY TreeTyped
    <3>2. CASE GiveUp /\ UNCHANGED disk
      BY <3>2 DEF GiveUp, TypeOK
    <3>3. CASE /\ disk' = [disk EXCEPT !.changelog = <<>>]
               /\ run' = [run EXCEPT !.at = "write", !.old = disk.changelog]
               /\ UNCHANGED advice
      <4> DEFINE old == disk.changelog
      <4>1. run' = [run EXCEPT !.at = "write", !.old = old] /\ old \in Seq(Block)
        BY <3>1, <3>3
      <4> HIDE DEF old
      <4>2. run' \in Run
        BY <2>1, <4>1 DEF Run, Places
      <4>3. disk \in Tree /\ advice \in Run \cup {Nothing}
        BY DEF TypeOK
      <4>4. disk' \in Tree
        BY <3>1, <3>3, <4>3 DEF Tree
      <4> QED BY <3>3, <4>2, <4>3, <4>4
    <3> QED BY <1>6, <3>2, <3>3 DEF OpenChangelog
  <2> QED BY <1>6, <2>2 DEF OpenChangelog, TypeOK, repository, history
<1>7. CASE WriteChangelog
  <2>1. run \in Run /\ run.old \in Seq(Block) /\ run.tag \in Version
        /\ run.commits \in SUBSET (1 .. MaxLog)
    BY <1>7, RunTyped DEF WriteChangelog, Run
  <2>2. Prepended(run.old) \in Seq(Block)
    <3>1. <<[tag |-> run.tag, commits |-> run.commits]>> \in Seq(Block)
      BY <2>1 DEF Block
    <3> QED BY <2>1, <3>1 DEF Prepended
  <2>3. ASSUME NEW w \in BOOLEAN
        PROVE  [run EXCEPT !.at = "notes", !.old = <<>>, !.whole = w] \in Run
    <3>1. <<>> \in Seq(Block) /\ "notes" \in Places
      BY DEF Places
    <3> QED BY <2>1, <3>1 DEF Run
  <2>4. /\ run' \in Run \cup {Nothing} /\ advice' \in Run \cup {Nothing}
        /\ disk' \in Tree /\ torn' \in BOOLEAN
    <3>1. CASE /\ disk' = [disk EXCEPT !.changelog = Prepended(run.old)]
               /\ LET done == [run EXCEPT !.at = "notes", !.old = <<>>,
                                   !.whole = @ /\ Heads(run.old, run.tag) = {}]
                  IN  IF run.request.notes THEN run' = done /\ UNCHANGED advice
                      ELSE run' = Nothing /\ advice' = done
               /\ UNCHANGED torn
      <4>1. PICK w \in BOOLEAN : w = (run.whole /\ Heads(run.old, run.tag) = {})
        BY <2>1 DEF Run
      <4> DEFINE done == [run EXCEPT !.at = "notes", !.old = <<>>, !.whole = w]
      <4>2. IF run.request.notes THEN run' = done /\ UNCHANGED advice
            ELSE run' = Nothing /\ advice' = done
        BY <2>1, <3>1, <4>1 DEF Run
      <4>3. done \in Run
        BY <2>3
      <4> HIDE DEF done
      <4>4. disk' \in Tree
        BY <2>2, <3>1 DEF TypeOK, Tree
      <4> QED BY <3>1, <4>2, <4>3, <4>4 DEF TypeOK
    <3>2. CASE GiveUp /\ UNCHANGED disk /\ torn' = TRUE
      BY <3>2 DEF GiveUp, TypeOK
    <3> QED BY <1>7, <3>1, <3>2 DEF WriteChangelog
  <2> QED BY <1>7, <2>4 DEF WriteChangelog, TypeOK, repository
<1>8. CASE PutNotes
  <2>1. run \in Run
    BY <1>8, RunTyped DEF PutNotes
  <2>2. run' \in Run \cup {Nothing} /\ advice' \in Run \cup {Nothing}
    BY <1>8, <2>1 DEF PutNotes, Goto, HandOver, GiveUp, TypeOK, Run, Places
  <2> QED BY <1>8, <2>2 DEF PutNotes, TypeOK, repository, history
<1>9. CASE Publish
  <2>1. run \in Run /\ run.tag \in Version
    BY <1>9, RunTyped DEF Publish, Run
  <2>2. run' = Nothing /\ advice' \in Run
    BY <1>9, <2>1 DEF Publish, HandOver
  <2> QED BY <1>9, <2>1, <2>2 DEF Publish, TypeOK, repository, history
<1>10. CASE Die
  <2>1. disk' \in Tree /\ torn' \in BOOLEAN
    BY <1>10 DEF Die, TypeOK, Tree
  <2> QED BY <1>10, <2>1 DEF Die, GiveUp, TypeOK, repository
<1>11. CASE Work
  <2>1. log' \in Seq(Commit) /\ Len(log') <= MaxLog
    <3>1. PICK c \in Commits : log' = Append(log, c)
      BY <1>11 DEF Work
    <3>2. c \in Commit /\ Len(log) < MaxLog
      BY <1>11, ReleaseAssumption DEF Work
    <3> QED BY <3>1, <3>2, LogGrows, LogTyped, Bounds
  <2>2. run' \in Run \cup {Nothing} /\ advice' \in Run \cup {Nothing}
    BY <1>11, DisturbedTyped DEF Work, TypeOK
  <2> QED BY <1>11, <2>1, <2>2 DEF Work, TypeOK, history
<1>12. CASE TagElsewhere
  <2>1. run \in Run
    BY <1>12 DEF TagElsewhere, TypeOK
  <2>2. tags' \subseteq Tag
    BY <1>12, <2>1, TagTyped DEF TagElsewhere, Tagged, TypeOK
  <2>3. run' \in Run \cup {Nothing} /\ advice' \in Run \cup {Nothing}
    BY <1>12, DisturbedTyped DEF TagElsewhere, TypeOK
  <2> QED BY <1>12, <2>2, <2>3 DEF TagElsewhere, TypeOK, history
<1>13. CASE CommitCut
  <2>1. CutCommit \in Commit
    BY DEF CutCommit, Commit, SemverImpacts
  <2>2. log' \in Seq(Commit) /\ Len(log') <= MaxLog
    BY <1>13, <2>1, LogGrows, LogTyped, Bounds DEF CommitCut
  <2> QED BY <1>13, <2>2 DEF CommitCut, TypeOK, history
<1>14. CASE TagCut
  <2>1. advice \in Run
    BY <1>14 DEF TagCut, TypeOK
  <2>2. tags' \subseteq Tag
    BY <1>14, <2>1, TagTyped DEF TagCut, Tagged, TypeOK
  <2> QED BY <1>14, <2>2 DEF TagCut, TypeOK
<1>15. CASE UNCHANGED releaseVars
  BY <1>15 DEF releaseVars, TypeOK
<1> QED BY <1>1, <1>2, <1>3, <1>4, <1>5, <1>6, <1>7, <1>8, <1>9, <1>10, <1>11, <1>12,
           <1>13, <1>14, <1>15 DEF ReleaseNext

LEMMA TypeInit == ReleaseInit => TypeOK
<1> SUFFICES ASSUME ReleaseInit PROVE TypeOK
  OBVIOUS
<1>1. PICK v \in Starts :
       /\ head = Start(v)
       /\ tags = IF v = Nothing THEN {}
                 ELSE {[version |-> v, at |-> 0, cut |-> TRUE, whole |-> FALSE,
                        bump |-> "NONE", pre |-> 0, left |-> {}, tree |-> head]}
  BY DEF ReleaseInit
<1>2. v \in Version \cup {Nothing}
  BY ReleaseAssumption
<1>3. head \in Tree
  <2>1. <<>> \in Seq(Block)
    OBVIOUS
  <2>2. v # Nothing => <<[tag |-> v, commits |-> {}]>> \in Seq(Block)
    BY <1>2 DEF Block
  <2> QED BY <1>1, <1>2, <2>1, <2>2, OriginIsVersion DEF Start, Tree
<1>4. tags \subseteq Tag
  <2>1. 0 \in 0 .. MaxLog /\ 0 \in Tokens /\ "NONE" \in SemverImpacts
    BY ReleaseAssumption DEF Tokens, SemverImpacts
  <2>2. ASSUME v # Nothing
        PROVE  [version |-> v, at |-> 0, cut |-> TRUE, whole |-> FALSE,
                bump |-> "NONE", pre |-> 0, left |-> {}, tree |-> head] \in Tag
    BY <1>2, <1>3, <2>1, <2>2 DEF Tag
  <2> QED BY <1>1, <2>2
<1>5. log \in Seq(Commit) /\ Len(log) <= MaxLog
  BY ReleaseAssumption DEF ReleaseInit
<1>6. 0 \in 0 .. MaxTries /\ elsewhere \subseteq Version
  BY ReleaseAssumption DEF ReleaseInit
<1>7. /\ disk = head /\ released = {} /\ run = Nothing /\ advice = Nothing
      /\ tries = 0 /\ bumped = FALSE /\ torn = FALSE /\ collided = FALSE
  BY DEF ReleaseInit
<1> QED BY <1>3, <1>4, <1>5, <1>6, <1>7 DEF TypeOK

----------------------------------------------------------------------------
(* What every action but a few leaves alone.                               *)
LEMMA QuietTags ==
  ASSUME TagsBehind, log' = log, tags' = tags, head' = head
  PROVE  TagsBehind'
BY DEF TagsBehind

LEMMA QuietCuts ==
  ASSUME TagsAreCuts, log' = log, tags' = tags, released' = released,
         torn => torn', collided => collided'
  PROVE  TagsAreCuts'
<1>1. Cuts' = Cuts /\ ReleasedByChance' = ReleasedByChance
  BY DEF Cuts, ReleasedByChance
<1>2. ASSUME NEW t PROVE CutAgrees(t)' = CutAgrees(t)
  BY <1>1 DEF CutAgrees, Heads
<1>3. ASSUME NEW t PROVE CutIsComplete(t)' = CutIsComplete(t)
  BY DEF CutIsComplete, Before, Previous, Heads
<1> QED BY <1>1, <1>2, <1>3 DEF TagsAreCuts

LEMMA QuietHeader ==
  ASSUME HeaderInv, tags' = tags, head' = head, bumped' = bumped \/ bumped' = TRUE,
         torn => torn',
         ~ torn' => disk'.header = disk.header
  PROVE  HeaderInv'
<1>1. ~ torn' /\ ~ bumped' => ~ torn /\ ~ bumped
  OBVIOUS
<1>2. \A h : OldHeader(h) <=> OldHeader(h)'
  BY DEF OldHeader
<1> QED BY <1>1, <1>2 DEF HeaderInv, OldHeader

LEMMA QuietFiles ==
  ASSUME FilesWhole, tags' = tags, head' = head, Ledger' = Ledger,
         disk'.pyproject # Nothing, disk'.lock # Nothing, disk'.header # Nothing
  PROVE  FilesWhole'
<1>1. Cuts' = Cuts
  BY DEF Cuts
<1> DEFINE old == Ledger
<1>2. Ledger' = old /\ Ledger = old
  OBVIOUS
<1> HIDE DEF old
<1> QED BY <1>1, <1>2 DEF FilesWhole, Listed

(* A block before the others.                                              *)
LEMMA PrependFacts ==
  ASSUME NEW b \in Block, NEW blocks \in Seq(Block)
  PROVE  LET new == <<b>> \o blocks
         IN  /\ new \in Seq(Block) /\ DOMAIN new = 1 .. Len(blocks) + 1
             /\ DOMAIN blocks = 1 .. Len(blocks) /\ Len(blocks) \in Nat
             /\ new[1] = b
             /\ \A i \in 1 .. Len(blocks) : new[i + 1] = blocks[i]
             /\ \A i \in 2 .. Len(blocks) + 1 : new[i] = blocks[i - 1]
OBVIOUS

LEMMA PrependListed ==
  ASSUME NEW b \in Block, NEW blocks \in Seq(Block), ~ Listed(blocks, b.tag),
         \A i, j \in DOMAIN blocks : blocks[i].tag = blocks[j].tag => i = j
  PROVE  LET new == <<b>> \o blocks
         IN  /\ \A i, j \in DOMAIN new : new[i].tag = new[j].tag => i = j
             /\ \A v : Listed(blocks, v) => Listed(new, v)
             /\ Listed(new, b.tag)
             /\ \A i \in Heads(new, b.tag) : new[i] = b
<1> DEFINE new == <<b>> \o blocks
           n == Len(blocks)
<1>1. /\ DOMAIN new = 1 .. n + 1
      /\ DOMAIN blocks = 1 .. n /\ n \in Nat
      /\ new[1] = b
      /\ \A i \in 1 .. n : new[i + 1] = blocks[i]
      /\ \A i \in 2 .. n + 1 : new[i] = blocks[i - 1]
  BY PrependFacts
<1> HIDE DEF new, n
<1>2. ASSUME NEW i \in DOMAIN new, new[i].tag = b.tag
      PROVE  i = 1
  <2>1. i \in 2 .. n + 1 => i - 1 \in DOMAIN blocks /\ blocks[i - 1].tag = b.tag
    BY <1>1, <1>2
  <2> QED BY <1>1, <2>1 DEF Listed
<1>3. ASSUME NEW i \in DOMAIN new, NEW j \in DOMAIN new, new[i].tag = new[j].tag
      PROVE  i = j
  <2>1. CASE i = 1 \/ j = 1
    BY <1>1, <1>2, <1>3, <2>1
  <2>2. CASE i # 1 /\ j # 1
    <3>1. i \in 2 .. n + 1 /\ j \in 2 .. n + 1
      BY <1>1, <2>2
    <3>2. i - 1 \in DOMAIN blocks /\ j - 1 \in DOMAIN blocks
      BY <1>1, <3>1
    <3>3. blocks[i - 1].tag = blocks[j - 1].tag
      BY <1>1, <1>3, <3>1
    <3> QED BY <3>1, <3>2, <3>3
  <2> QED BY <2>1, <2>2
<1>4. ASSUME NEW v, Listed(blocks, v) PROVE Listed(new, v)
  <2>1. PICK i \in 1 .. n : blocks[i].tag = v
    BY <1>1, <1>4 DEF Listed
  <2>2. i + 1 \in DOMAIN new /\ new[i + 1].tag = v
    BY <1>1, <2>1
  <2> QED BY <2>2 DEF Listed
<1>5. Listed(new, b.tag)
  BY <1>1 DEF Listed
<1>6. \A i \in Heads(new, b.tag) : new[i] = b
  BY <1>1, <1>2 DEF Heads
<1> QED BY <1>3, <1>4, <1>5, <1>6 DEF new

(* A bounded set of naturals has a greatest element.                       *)
LEMMA Greatest ==
  ASSUME NEW S \in SUBSET Nat, S # {}, NEW n \in Nat, \A a \in S : a <= n
  PROVE  \E x \in S : \A y \in S : y <= x
<1> DEFINE rest == {k \in Nat : n - k \in S}
<1>1. \A a \in S : n - a \in Nat /\ n - (n - a) = a
  OBVIOUS
<1>2. \A a \in S : n - a \in rest
  BY <1>1
<1>3. rest \in SUBSET Nat /\ rest # {}
  BY <1>2
<1>4. PICK x \in rest : \A y \in rest : x <= y
  <2> HIDE DEF rest
  <2> QED BY <1>3, Least
<1>5. n - x \in S /\ x \in Nat
  BY <1>4
<1>6. ASSUME NEW a \in S PROVE a <= n - x
  <2>1. x <= n - a
    BY <1>2, <1>4
  <2> QED BY <2>1, <1>5
<1> QED BY <1>5, <1>6

(* Some tag is behind no other.                                            *)
LEMMA LastTag ==
  ASSUME TypeOK, tags # {}
  PROVE  \E i \in {t.at : t \in tags} : \A t \in tags : t.at <= i
<1> DEFINE ats == {t.at : t \in tags}
<1>1. \A t \in tags : t.at \in 0 .. MaxLog
  BY DEF TypeOK, Tag
<1>2. ats \in SUBSET Nat /\ ats # {} /\ \A a \in ats : a <= MaxLog
  BY <1>1, Bounds
<1>3. \E i \in ats : \A a \in ats : a <= i
  <2> HIDE DEF ats
  <2> QED BY <1>2, Bounds, Greatest
<1> QED BY <1>3

(* The nearest tag is behind no other.                                     *)
LEMMA NearestIsLast ==
  ASSUME TypeOK, tags # {}
  PROVE  \A t \in tags : t.at <= NearestAt
BY LastTag DEF NearestAt

(* The old header is the nearest tag's, or the first of all.               *)
LEMMA HeaderIsKnown ==
  ASSUME TypeOK, NEW h, OldHeader(h)
  PROVE  h \in {Origin} \cup {t.tree.header : t \in tags}
<1>1. CASE tags = {}
  BY <1>1 DEF OldHeader
<1>2. CASE tags # {}
  <2>1. \E i \in {t.at : t \in tags} : \A u \in tags : u.at <= i
    BY <1>2, LastTag
  <2>2. PICK t \in tags : \A u \in tags : u.at <= t.at
    BY <2>1
  <2> QED BY <2>2 DEF OldHeader
<1> QED BY <1>1, <1>2

----------------------------------------------------------------------------
(* The steps of a run.                                                     *)
Phases == {"pyproject", "lock", "header", "changelog", "write", "notes", "publish"}

LEMMA Idle ==
  ASSUME run' = Nothing, advice' = Nothing
  PROVE  RunInv' /\ AdviceInv'
BY DEF RunInv, AdviceInv

LEMMA NoAdvice ==
  ASSUME RunInv, NEW place, At(place)
  PROVE  advice = Nothing
BY DEF RunInv, At

LEMMA PlanStep ==
  ASSUME ReleaseInv, Plan
  PROVE  ReleaseInv'
<1>0. TypeOK' /\ TypeOK
  BY TypeStep DEF ReleaseNext, ReleaseInv
<1>1. /\ log' = log /\ head' = head /\ disk' = disk /\ tags' = tags
      /\ elsewhere' = elsewhere /\ released' = released /\ advice' = Nothing
      /\ bumped' = bumped /\ torn' = torn /\ collided' = collided /\ run = Nothing
  BY DEF Plan, repository
<1>p. PICK q \in Requests, failed \in SUBSET {"describe", "log"} :
           \E last \in LastTags(failed), commits \in SUBSET (1 .. MaxLog), whole \in BOOLEAN :
             /\ Begins(q, last, commits, whole)
             /\ whole <=> failed = {}
             /\ whole => commits = Since(IF last = Nothing THEN 0 ELSE last.at)
  BY <1>0, PlanBegins
<1>2. PICK last \in LastTags(failed), commits \in SUBSET (1 .. MaxLog), whole \in BOOLEAN :
        /\ Begins(q, last, commits, whole)
        /\ whole <=> failed = {}
        /\ whole => commits = Since(IF last = Nothing THEN 0 ELSE last.at)
  BY <1>p
<1> DEFINE since == IF last = Nothing THEN 0 ELSE last.at
<1>3. /\ run'.at = "validate" /\ run'.since = since /\ run'.commits = commits
      /\ run'.whole = whole /\ (run'.fresh <=> last = Nothing) /\ run' # Nothing
  <2>1. /\ run' \in Run /\ run'.at = "validate" /\ run'.since = since
        /\ run'.commits = commits
        /\ run'.whole = whole /\ (run'.fresh <=> last = Nothing)
    BY <1>0, <1>2, BegunIsRun
  <2> QED BY <2>1, NothingAssumption
<1>4. TagsBehind' /\ TagsAreCuts' /\ HeaderInv'
  BY <1>1, QuietTags, QuietCuts, QuietHeader DEF ReleaseInv
<1>5. (~ torn => FilesWhole)'
  <2>1. Ledger' = disk.changelog /\ Ledger = disk.changelog
    BY <1>1, <1>3 DEF Ledger, At
  <2> QED BY <1>1, <2>1, QuietFiles DEF ReleaseInv, FilesWhole
<1>6. RunInv'
  <2>1. ASSUME whole
        PROVE  /\ since <= Len(log) /\ (last = Nothing <=> tags = {})
               /\ \A t \in tags : t.at <= since
               /\ IF tags = {} THEN since = 0 ELSE \E t \in tags : t.at = since
    <3>1. CASE tags = {}
      BY <1>0, <1>2, <3>1, LogTyped DEF LastTags
    <3>2. CASE tags # {}
      <4>1. last \in tags /\ last.at = NearestAt
        BY <1>2, <2>1, <3>2 DEF LastTags
      <4>2. last # Nothing
        BY <1>0, <4>1, NothingAssumption DEF TypeOK
      <4>3. \A t \in tags : t.at <= last.at
        BY <1>0, <3>2, <4>1, NearestIsLast
      <4>4. last.at <= Len(log)
        BY <4>1 DEF ReleaseInv, TagsBehind
      <4> QED BY <3>2, <4>1, <4>2, <4>3, <4>4
    <3> QED BY <3>1, <3>2
  <2>2. ASSUME whole
        PROVE  /\ Undisturbed(run)' /\ run'.since <= Len(log)
               /\ run'.commits = Since(run.since)'
    <3>1. commits = Since(since)
      BY <1>2, <2>2
    <3>2. FromNearest(run)'
      <4> HIDE DEF since
      <4> QED BY <1>1, <1>3, <2>1, <2>2 DEF FromNearest
    <3> HIDE DEF since
    <3>3. Undisturbed(run)'
      BY <1>3, <3>2 DEF Undisturbed, AfterHeader, AfterLock, AfterPyproject, AfterChangelog
    <3> QED BY <1>1, <1>3, <2>1, <2>2, <3>1, <3>3 DEF Since
  <2>3. Injects(run)'
    BY <1>3 DEF Injects, AfterLock, AfterPyproject, AfterChangelog
  <2> HIDE DEF since
  <2> QED BY <1>1, <1>3, <2>2, <2>3 DEF RunInv, AfterChangelog
<1>7. AdviceInv'
  BY <1>1 DEF AdviceInv
<1> QED BY <1>0, <1>4, <1>5, <1>6, <1>7 DEF ReleaseInv

LEMMA ValidateStep ==
  ASSUME ReleaseInv, Validate
  PROVE  ReleaseInv'
<1>0. TypeOK' /\ TypeOK /\ run \in Run /\ run # Nothing /\ run.at = "validate"
  BY TypeStep, RunTyped DEF ReleaseNext, ReleaseInv, Validate, At
<1>1. /\ log' = log /\ head' = head /\ disk' = disk /\ tags' = tags
      /\ elsewhere' = elsewhere /\ released' = released
      /\ bumped' = bumped /\ torn' = torn /\ advice = Nothing
  BY NoAdvice DEF Validate, repository, ReleaseInv
<1>c. collided => collided'
  BY DEF Validate
<1>2. TagsBehind' /\ TagsAreCuts' /\ HeaderInv'
  BY <1>1, <1>c, QuietTags, QuietCuts, QuietHeader DEF ReleaseInv
<1>3. CASE GiveUp
  <2>1. Ledger' = disk.changelog /\ Ledger = disk.changelog
    BY <1>0, <1>1, <1>3 DEF Ledger, At, GiveUp
  <2>2. (~ torn => FilesWhole)'
    BY <1>1, <2>1, QuietFiles DEF ReleaseInv, FilesWhole
  <2> QED BY <1>0, <1>1, <1>2, <1>3, <2>2, Idle DEF ReleaseInv, GiveUp
<1>4. ASSUME NEW failed, UNCHANGED advice,
             collided' = (collided \/ ~ Available(run.tag)),
             run' = [run EXCEPT !.at = "pyproject", !.touched = Modified /\ "diff" \notin failed,
                               !.whole = @ /\ "diff" \notin failed]
      PROVE  ReleaseInv'
  <2>3. /\ run' # Nothing /\ run'.at = "pyproject" /\ run'.tag = run.tag
        /\ run'.since = run.since /\ run'.commits = run.commits /\ run'.fresh = run.fresh
        /\ run'.whole => run.whole /\ (run'.touched <=> Modified)
    <3>1. /\ run' \in Run /\ run'.at = "pyproject" /\ run'.tag = run.tag
          /\ run'.since = run.since /\ run'.commits = run.commits /\ run'.fresh = run.fresh
          /\ run'.whole => run.whole /\ (run'.touched <=> Modified)
      BY <1>0, <1>4, ValidatedFields
    <3> QED BY <3>1, NothingAssumption
  <2>4. Ledger' = disk.changelog /\ Ledger = disk.changelog
    BY <1>0, <1>1, <2>3 DEF Ledger, At
  <2>5. (~ torn => FilesWhole)'
    BY <1>1, <2>4, QuietFiles DEF ReleaseInv, FilesWhole
  <2>6. ~ collided' => /\ run'.tag \notin elsewhere'
                       /\ \A t \in tags' : t.version = run'.tag => ~ t.cut
    <3>1. ~ collided' => Available(run.tag)
      BY <1>4
    <3> QED BY <1>1, <2>3, <3>1 DEF Available, Versions
  <2>7. Injects(run)'
    BY <2>3 DEF Injects, AfterLock, AfterPyproject, AfterChangelog
  <2>8. ASSUME ~ torn', run'.whole
        PROVE  /\ Undisturbed(run)'
               /\ run'.since <= Len(log') /\ run'.commits = Since(run.since)'
    <3>1. /\ Undisturbed(run)
          /\ run.since <= Len(log) /\ run.commits = Since(run.since)
      BY <1>0, <1>1, <2>3, <2>8 DEF ReleaseInv, RunInv
    <3>2. run'.commits = Since(run.since)' /\ run'.since <= Len(log')
      BY <1>1, <2>3, <3>1 DEF Since
    <3>3. FromNearest(run)'
      BY <1>1, <2>3, <3>1 DEF Undisturbed, FromNearest
    <3>4. run'.touched <=> run'.fresh \/ \E i \in run'.commits : log'[i].header
      BY <1>1, <2>3, <2>8, <3>1 DEF Modified
    <3> QED BY <2>3, <3>2, <3>3, <3>4 DEF Undisturbed, AfterHeader, AfterLock,
                AfterPyproject, AfterChangelog
  <2>9. RunInv'
    BY <1>1, <1>4, <2>3, <2>6, <2>7, <2>8 DEF RunInv, AfterChangelog
  <2>10. AdviceInv'
    BY <1>1, <1>4 DEF AdviceInv
  <2> QED BY <1>0, <1>2, <2>5, <2>9, <2>10 DEF ReleaseInv
<1> QED BY <1>3, <1>4 DEF Validate

LEMMA PutPyprojectStep ==
  ASSUME ReleaseInv, PutPyproject
  PROVE  ReleaseInv'
<1>0. TypeOK' /\ TypeOK /\ run \in Run /\ run # Nothing /\ run.at = "pyproject"
  BY TypeStep, RunTyped DEF ReleaseNext, ReleaseInv, PutPyproject, At
<1>1. /\ log' = log /\ head' = head /\ tags' = tags
      /\ elsewhere' = elsewhere /\ released' = released
      /\ bumped' = bumped /\ torn' = torn /\ collided' = collided /\ advice = Nothing /\ advice' = Nothing
  BY NoAdvice DEF PutPyproject, repository, ReleaseInv
<1>2. /\ run' # Nothing /\ run'.at = "lock"
      /\ SameRun(run', run) /\ run'.whole = run.whole
      /\ disk'.lock = disk.lock /\ disk'.header = disk.header
      /\ disk'.changelog = disk.changelog
  BY <1>0, PyprojectFields, NothingAssumption DEF TypeOK
<1>3. \/ disk'.pyproject = disk.pyproject /\ "pyproject" \in run'.left
      \/ disk.pyproject = Nothing /\ disk'.pyproject = Nothing
      \/ disk'.pyproject = run.tag
  BY <1>0, PyprojectFields DEF TypeOK
<1>4. run.tag # Nothing
  BY <1>0, RunFields, NothingAssumption
<1>5. TagsBehind' /\ TagsAreCuts' /\ HeaderInv'
  BY <1>1, <1>2, QuietTags, QuietCuts, QuietHeader DEF ReleaseInv
<1>6. (~ torn => FilesWhole)'
  <2>1. Ledger' = Ledger
    BY <1>0, <1>2 DEF Ledger, At
  <2> QED BY <1>1, <1>2, <1>3, <1>4, <2>1, QuietFiles DEF ReleaseInv, FilesWhole
<1>7. RunInv'
  <2>1. ~ torn' => Injects(run)'
    BY <1>1, <1>2, <1>3 DEF ReleaseInv, FilesWhole, Injects, AfterLock, AfterPyproject,
           AfterChangelog, SameRun
  <2>2. ASSUME ~ torn', run'.whole
        PROVE  /\ Undisturbed(run)'
               /\ run'.since <= Len(log') /\ run'.commits = Since(run.since)'
    <3>1. /\ Undisturbed(run)
          /\ run.since <= Len(log) /\ run.commits = Since(run.since)
      BY <1>0, <1>1, <1>2, <2>2 DEF ReleaseInv, RunInv
    <3> QED BY <1>0, <1>1, <1>2, <3>1 DEF Undisturbed, FromNearest, AfterHeader,
                AfterLock, AfterPyproject, AfterChangelog, SameRun, Since
  <2> QED BY <1>0, <1>1, <1>2, <2>1, <2>2 DEF RunInv, AfterChangelog, ReleaseInv, SameRun
<1>8. AdviceInv'
  BY <1>1 DEF AdviceInv
<1> QED BY <1>0, <1>5, <1>6, <1>7, <1>8 DEF ReleaseInv

LEMMA PutLockStep ==
  ASSUME ReleaseInv, PutLock
  PROVE  ReleaseInv'
<1>0. TypeOK' /\ TypeOK /\ run \in Run /\ run # Nothing /\ run.at = "lock"
  BY TypeStep, RunTyped DEF ReleaseNext, ReleaseInv, PutLock, At
<1>1. /\ log' = log /\ head' = head /\ tags' = tags
      /\ elsewhere' = elsewhere /\ released' = released
      /\ bumped' = bumped /\ torn' = torn /\ collided' = collided /\ advice = Nothing /\ advice' = Nothing
  BY NoAdvice DEF PutLock, repository, ReleaseInv
<1>2. /\ run' # Nothing /\ run'.at = "header" /\ run.left \subseteq run'.left
      /\ SameRun(run', run) /\ run'.whole = run.whole
      /\ disk'.pyproject = disk.pyproject /\ disk'.header = disk.header
      /\ disk'.changelog = disk.changelog
  BY <1>0, LockFields, NothingAssumption DEF TypeOK
<1>3. \/ disk'.lock = disk.lock /\ "lock" \in run'.left
      \/ disk.lock = Nothing /\ disk'.lock = Nothing
      \/ disk'.lock = run.tag
  BY <1>0, LockFields DEF TypeOK
<1>4. run.tag # Nothing
  BY <1>0, RunFields, NothingAssumption
<1>5. TagsBehind' /\ TagsAreCuts' /\ HeaderInv'
  BY <1>1, <1>2, QuietTags, QuietCuts, QuietHeader DEF ReleaseInv
<1>6. (~ torn => FilesWhole)'
  <2>1. Ledger' = Ledger
    BY <1>0, <1>2 DEF Ledger, At
  <2> QED BY <1>1, <1>2, <1>3, <1>4, <2>1, QuietFiles DEF ReleaseInv, FilesWhole
<1>7. RunInv'
  <2>1. ~ torn' => Injects(run)'
    <3>1. ~ torn => Injects(run) /\ disk.lock # Nothing
      BY <1>0 DEF ReleaseInv, RunInv, FilesWhole
    <3> QED BY <1>0, <1>1, <1>2, <1>3, <3>1 DEF Injects, AfterLock, AfterPyproject,
                AfterChangelog, SameRun
  <2>2. ASSUME ~ torn', run'.whole
        PROVE  /\ Undisturbed(run)'
               /\ run'.since <= Len(log') /\ run'.commits = Since(run.since)'
    <3>1. /\ Undisturbed(run)
          /\ run.since <= Len(log) /\ run.commits = Since(run.since)
      BY <1>0, <1>1, <1>2, <2>2 DEF ReleaseInv, RunInv
    <3> QED BY <1>0, <1>1, <1>2, <3>1 DEF Undisturbed, FromNearest, AfterHeader,
                AfterLock, AfterPyproject, AfterChangelog, SameRun, Since
  <2> QED BY <1>0, <1>1, <1>2, <2>1, <2>2 DEF RunInv, AfterChangelog, ReleaseInv, SameRun
<1>8. AdviceInv'
  BY <1>1 DEF AdviceInv
<1> QED BY <1>0, <1>5, <1>6, <1>7, <1>8 DEF ReleaseInv

(* A run that is still whole is the first to move the version comment on,  *)
(* and moves it on from the nearest tag's.                                 *)
LEMMA PutHeaderStep ==
  ASSUME ReleaseInv, PutHeader
  PROVE  ReleaseInv'
<1>0. TypeOK' /\ TypeOK /\ run \in Run /\ run # Nothing /\ run.at = "header"
  BY TypeStep, RunTyped DEF ReleaseNext, ReleaseInv, PutHeader, At
<1>1. /\ log' = log /\ head' = head /\ tags' = tags
      /\ elsewhere' = elsewhere /\ released' = released
      /\ collided' = collided /\ advice = Nothing /\ advice' = Nothing
  BY NoAdvice DEF PutHeader, repository, ReleaseInv
<1>2. PICK w \in BOOLEAN : run' = [run EXCEPT !.at = "changelog", !.whole = w]
  BY <1>0 DEF PutHeader, TypeOK, Run
<1>3. /\ run' # Nothing /\ run'.at = "changelog" /\ run'.left = run.left
      /\ SameRun(run', run) /\ run'.whole = w
  <2>1. run' \in Run
    BY <1>0, <1>2 DEF Run, Places
  <2> QED BY <1>0, <1>2, <2>1, NothingAssumption DEF Run, SameRun
<1> DEFINE new == Bump(disk.header, run.bump, run.request.pre)
           moved == HeadersDue /\ disk.header # Nothing
<1>4. moved => /\ bumped' = TRUE
               /\ \/ /\ disk' = [disk EXCEPT !.header = new] /\ torn' = torn
                     /\ run'.whole => run.whole /\ ~ bumped
                  \/ disk' = disk /\ torn' = torn /\ ~ run'.whole
                  \/ disk' = [disk EXCEPT !.header = Nothing] /\ torn'
  BY <1>0 DEF PutHeader, Run
<1>5. ~ moved => /\ bumped' = bumped /\ disk' = disk /\ torn' = torn
                 /\ (run'.whole => run.whole /\ ~ bumped)
  BY <1>0 DEF PutHeader, Run
<1>6. /\ disk'.pyproject = disk.pyproject /\ disk'.lock = disk.lock
      /\ disk'.changelog = disk.changelog /\ (torn => torn')
      /\ ~ torn' => disk'.header = disk.header \/ (moved /\ bumped' /\ disk'.header = new)
  <2>1. disk \in Tree
    BY <1>0 DEF TypeOK
  <2> HIDE DEF new, moved
  <2> QED BY <1>4, <1>5, <2>1 DEF Tree
<1>7. ~ torn' => disk'.header # Nothing
  <2>1. ASSUME moved, disk'.header = new PROVE disk'.header # Nothing
    <3>1. disk.header \in Version /\ Small(new)
      <4>1. disk.header \in Version \cup {Nothing}
        BY <1>0, TreeTyped
      <4> QED BY <2>1, <4>1 DEF PutHeader
    <3>2. new \in Version
      BY <1>0, <3>1, BumpShape, RunFields
    <3> HIDE DEF new
    <3> QED BY <2>1, <3>2, NothingAssumption
  <2>2. ~ torn => disk.header # Nothing
    BY DEF ReleaseInv, FilesWhole
  <2> HIDE DEF moved, new
  <2> QED BY <1>6, <2>1, <2>2
<1>8. HeaderInv'
  <2> HIDE DEF moved, new
  <2> QED BY <1>1, <1>4, <1>5, <1>6 DEF ReleaseInv, HeaderInv, OldHeader
<1>9. TagsBehind' /\ TagsAreCuts'
  BY <1>1, <1>6, QuietTags, QuietCuts DEF ReleaseInv
<1>10. (~ torn => FilesWhole)'
  <2>1. Ledger' = Ledger
    BY <1>0, <1>3, <1>6 DEF Ledger, At
  <2> QED BY <1>1, <1>6, <1>7, <2>1, QuietFiles DEF ReleaseInv, FilesWhole
<1>11. RunInv'
  <2>1. ~ torn' => Injects(run)'
    <3>1. ~ torn => Injects(run)
      BY <1>0 DEF ReleaseInv, RunInv
    <3> QED BY <1>0, <1>1, <1>3, <1>6, <3>1 DEF Injects, AfterLock, AfterPyproject,
                AfterChangelog, SameRun
  <2>2. ASSUME ~ torn', run'.whole
        PROVE  /\ Undisturbed(run)'
               /\ run'.since <= Len(log') /\ run'.commits = Since(run.since)'
    <3>1. ~ torn /\ run.whole /\ ~ bumped
      <4> HIDE DEF moved, new
      <4>1. ~ torn
        BY <1>6, <2>2
      <4>2. CASE moved
        BY <1>4, <2>2, <4>2
      <4>3. CASE ~ moved
        BY <1>5, <2>2, <4>3
      <4> QED BY <4>1, <4>2, <4>3
    <3>2. /\ Undisturbed(run)
          /\ run.since <= Len(log) /\ run.commits = Since(run.since)
          /\ OldHeader(disk.header) /\ disk.header # Nothing
      BY <1>0, <3>1 DEF ReleaseInv, RunInv, HeaderInv, FilesWhole
    <3>3. disk'.header = IF Due(run) THEN new ELSE disk.header
      <4>1. moved <=> Due(run)
        BY <3>2 DEF HeadersDue, Due
      <4>2. disk' = IF moved THEN [disk EXCEPT !.header = new] ELSE disk
        <5> HIDE DEF moved, new
        <5> QED BY <1>4, <1>5, <2>2, <3>1
      <4> HIDE DEF moved, new
      <4> QED BY <1>0, <4>1, <4>2 DEF TypeOK, Tree
    <3>4. disk.header \in {Origin} \cup {t.tree.header : t \in tags}
      BY <1>0, <3>2, HeaderIsKnown
    <3>5. Due(run)' = Due(run)
      BY <1>3 DEF Due, SameRun
    <3>6. \E h \in {Origin} \cup {t.tree.header : t \in tags'} :
            /\ OldHeader(h)'
            /\ disk'.header = IF Due(run)' THEN Bump(h, run'.bump, run'.request.pre) ELSE h
      <4>1. OldHeader(disk.header) => \A h : h = disk.header => OldHeader(h)'
        BY <1>1 DEF OldHeader
      <4> QED BY <1>1, <1>3, <3>2, <3>3, <3>4, <3>5, <4>1 DEF SameRun
    <3>7. run'.touched <=> run'.fresh \/ \E i \in run'.commits : log'[i].header
      BY <1>0, <1>1, <1>3, <3>2 DEF Undisturbed, SameRun
    <3>8. FromNearest(run)'
      BY <1>1, <1>3, <3>2 DEF Undisturbed, FromNearest, SameRun
    <3>9. run'.commits = Since(run.since)' /\ run'.since <= Len(log')
      BY <1>1, <1>3, <3>2 DEF Since, SameRun
    <3>10. run'.at \notin AfterChangelog
      BY <1>3 DEF AfterChangelog
    <3> QED BY <3>6, <3>7, <3>8, <3>9, <3>10 DEF Undisturbed
  <2> QED BY <1>0, <1>1, <1>3, <2>1, <2>2 DEF RunInv, AfterChangelog, ReleaseInv, SameRun
<1>12. AdviceInv'
  BY <1>1 DEF AdviceInv
<1> QED BY <1>0, <1>8, <1>9, <1>10, <1>11, <1>12 DEF ReleaseInv

LEMMA OpenChangelogStep ==
  ASSUME ReleaseInv, OpenChangelog
  PROVE  ReleaseInv'
<1>0. TypeOK' /\ TypeOK /\ run \in Run /\ run # Nothing /\ run.at = "changelog"
  BY TypeStep, RunTyped DEF ReleaseNext, ReleaseInv, OpenChangelog, At
<1>1. /\ log' = log /\ head' = head /\ tags' = tags
      /\ elsewhere' = elsewhere /\ released' = released
      /\ bumped' = bumped /\ torn' = torn /\ collided' = collided /\ advice = Nothing
  BY NoAdvice DEF OpenChangelog, repository, history, ReleaseInv
<1>2. TagsBehind' /\ TagsAreCuts'
  BY <1>1, QuietTags, QuietCuts DEF ReleaseInv
<1>3. CASE GiveUp /\ UNCHANGED disk
  <2>1. Ledger' = disk.changelog /\ Ledger = disk.changelog
    BY <1>0, <1>1, <1>3 DEF Ledger, At, GiveUp
  <2>2. (~ torn => FilesWhole)'
    BY <1>1, <1>3, <2>1, QuietFiles DEF ReleaseInv, FilesWhole
  <2>3. HeaderInv'
    BY <1>1, <1>3, QuietHeader DEF ReleaseInv
  <2> QED BY <1>0, <1>1, <1>2, <1>3, <2>2, <2>3, Idle DEF ReleaseInv, GiveUp
<1>4. CASE /\ disk' = [disk EXCEPT !.changelog = <<>>]
           /\ run' = [run EXCEPT !.at = "write", !.old = disk.changelog]
           /\ UNCHANGED advice
  <2> DEFINE old == disk.changelog
  <2>1. old \in Seq(Block)
    BY <1>0, TreeTyped
  <2>2. run' = [run EXCEPT !.at = "write", !.old = old]
    BY <1>4
  <2>3. /\ run' # Nothing /\ run'.at = "write" /\ run'.left = run.left /\ run'.old = old
        /\ SameRun(run', run) /\ run'.whole = run.whole
    <3> HIDE DEF old
    <3>1. run' \in Run
      BY <1>0, <2>1, <2>2 DEF Run, Places
    <3> QED BY <1>0, <2>2, <3>1, NothingAssumption DEF Run, SameRun
  <2>4. /\ disk'.lock = disk.lock
        /\ disk'.pyproject = disk.pyproject /\ disk'.header = disk.header
    BY <1>0, <1>4 DEF TypeOK, Tree
  <2>5. HeaderInv'
    BY <1>1, <2>4, QuietHeader DEF ReleaseInv
  <2>6. (~ torn => FilesWhole)'
    <3>1. Ledger' = Ledger
      BY <1>0, <2>3 DEF Ledger, At
    <3> QED BY <1>1, <2>4, <3>1, QuietFiles DEF ReleaseInv, FilesWhole
  <2>7. RunInv'
    <3>1. ~ torn' => Injects(run)'
      <4>1. ~ torn => Injects(run)
        BY <1>0 DEF ReleaseInv, RunInv
      <4> QED BY <1>0, <1>1, <2>3, <2>4, <4>1 DEF Injects, AfterLock, AfterPyproject,
                  AfterHeader, AfterChangelog, SameRun
    <3>2. ASSUME ~ torn', run'.whole
          PROVE  /\ Undisturbed(run)'
                 /\ run'.since <= Len(log') /\ run'.commits = Since(run.since)'
      <4>1. /\ Undisturbed(run)
            /\ run.since <= Len(log) /\ run.commits = Since(run.since)
        BY <1>0, <1>1, <2>3, <3>2 DEF ReleaseInv, RunInv
      <4> QED BY <1>0, <1>1, <2>3, <2>4, <4>1 DEF Undisturbed, FromNearest, AfterHeader,
                  AfterLock, AfterPyproject, AfterChangelog, SameRun, Since, Due, OldHeader
    <3> QED BY <1>0, <1>1, <1>4, <2>3, <3>1, <3>2 DEF RunInv, AfterChangelog, ReleaseInv, SameRun
  <2>8. AdviceInv'
    BY <1>1, <1>4 DEF AdviceInv
  <2> QED BY <1>0, <1>2, <2>5, <2>6, <2>7, <2>8 DEF ReleaseInv
<1> QED BY <1>3, <1>4 DEF OpenChangelog

(* The changelog with the run's block: listed once, and in a whole run     *)
(* listed for the first time, which sets the disk apart from the head.     *)
LEMMA PrependedFacts ==
  ASSUME TypeOK, FilesWhole, At("write")
  PROVE  LET new == Prepended(run.old)
         IN  /\ \A i, j \in DOMAIN new : new[i].tag = new[j].tag => i = j
             /\ \A v : Listed(run.old, v) => Listed(new, v)
             /\ Listed(new, run.tag)
             /\ Heads(run.old, run.tag) = {} =>
                  /\ \A i \in Heads(new, run.tag) : new[i].commits = run.commits
                  /\ ~ Listed(head.changelog, run.tag)
<1>1. Ledger = run.old
  BY DEF Ledger
<1>2. /\ \A i, j \in DOMAIN run.old : run.old[i].tag = run.old[j].tag => i = j
      /\ \A i \in DOMAIN head.changelog : Listed(run.old, head.changelog[i].tag)
  BY <1>1 DEF FilesWhole
<1>3. Heads(run.old, run.tag) = {} <=> ~ Listed(run.old, run.tag)
  BY DEF Heads, Listed
<1>4. CASE Listed(run.old, run.tag)
  BY <1>2, <1>3, <1>4 DEF Prepended
<1>5. CASE ~ Listed(run.old, run.tag)
  <2> DEFINE b == [tag |-> run.tag, commits |-> run.commits]
  <2>1. run.old \in Seq(Block) /\ b \in Block
    BY RunTyped, RunFields DEF Block
  <2>2. b.tag = run.tag /\ b.commits = run.commits
    OBVIOUS
  <2>3. Prepended(run.old) = <<b>> \o run.old
    BY <1>3, <1>5 DEF Prepended
  <2>4. ~ Listed(head.changelog, run.tag)
    BY <1>2, <1>5 DEF Listed
  <2> HIDE DEF b
  <2>5. LET new == <<b>> \o run.old
        IN  /\ \A i, j \in DOMAIN new : new[i].tag = new[j].tag => i = j
            /\ \A v : Listed(run.old, v) => Listed(new, v)
            /\ Listed(new, b.tag)
            /\ \A i \in Heads(new, b.tag) : new[i] = b
    BY <1>2, <1>5, <2>1, <2>2, PrependListed
  <2> QED BY <2>2, <2>3, <2>4, <2>5
<1> QED BY <1>4, <1>5

(* A written changelog leaves the rest of an undisturbed run as it was.    *)
LEMMA WrittenKeeps ==
  ASSUME NEW r, NEW s, Undisturbed(r), SameRun(s, r), r.at = "write", s.at = "notes",
         tags' = tags, log' = log, disk'.header = disk.header,
         \A i \in Heads(disk'.changelog, s.tag) : disk'.changelog[i].commits = s.commits
  PROVE  Undisturbed(s)'
<1>1. FromNearest(s)'
  BY DEF Undisturbed, FromNearest, SameRun
<1>2. s.touched <=> s.fresh \/ \E i \in s.commits : log'[i].header
  BY DEF Undisturbed, SameRun
<1>3. PICK h \in {Origin} \cup {t.tree.header : t \in tags} :
         /\ OldHeader(h)
         /\ disk.header = IF Due(r) THEN Bump(h, r.bump, r.request.pre) ELSE h
  BY DEF Undisturbed, AfterHeader, AfterLock, AfterPyproject
<1>4. OldHeader(h)'
  BY <1>3 DEF OldHeader
<1>5. disk'.header = IF Due(s) THEN Bump(h, s.bump, s.request.pre) ELSE h
  BY <1>3 DEF Due, SameRun
<1>6. h \in ({Origin} \cup {t.tree.header : t \in tags})'
  BY <1>3
<1>7. \A i \in Heads(disk.changelog, s.tag)' : disk'.changelog[i].commits = s.commits
  BY DEF Heads
<1> HIDE DEF Undisturbed
<1> QED BY <1>1, <1>2, <1>4, <1>5, <1>6, <1>7 DEF Undisturbed


LEMMA WriteChangelogStep ==
  ASSUME ReleaseInv, WriteChangelog
  PROVE  ReleaseInv'
<1>0. TypeOK' /\ TypeOK /\ run \in Run /\ run # Nothing /\ run.at = "write" /\ At("write")
  BY TypeStep, RunTyped DEF ReleaseNext, ReleaseInv, WriteChangelog, At
<1>1. /\ log' = log /\ head' = head /\ tags' = tags
      /\ elsewhere' = elsewhere /\ released' = released
      /\ bumped' = bumped /\ collided' = collided /\ advice = Nothing
  BY NoAdvice DEF WriteChangelog, repository, ReleaseInv
<1>2. CASE GiveUp /\ UNCHANGED disk /\ torn' = TRUE
  <2>1. TagsBehind' /\ TagsAreCuts' /\ HeaderInv'
    BY <1>1, <1>2, QuietTags, QuietCuts, QuietHeader DEF ReleaseInv
  <2> QED BY <1>0, <1>1, <1>2, <2>1, Idle DEF ReleaseInv, GiveUp
<1>3. CASE /\ disk' = [disk EXCEPT !.changelog = Prepended(run.old)]
           /\ LET done == [run EXCEPT !.at = "notes", !.old = <<>>,
                               !.whole = @ /\ Heads(run.old, run.tag) = {}]
              IN  IF run.request.notes THEN run' = done /\ UNCHANGED advice
                  ELSE run' = Nothing /\ advice' = done
           /\ UNCHANGED torn
  <2> DEFINE new == Prepended(run.old)
  <2>1. PICK w \in BOOLEAN : w = (run.whole /\ Heads(run.old, run.tag) = {})
    BY <1>0, RunFields
  <2> DEFINE done == [run EXCEPT !.at = "notes", !.old = <<>>, !.whole = w]
  <2>2. \/ run' = done /\ advice' = Nothing
        \/ run' = Nothing /\ advice' = done
    BY <1>0, <1>1, <1>3, <2>1 DEF Run
  <2>3. /\ done # Nothing /\ done.at = "notes" /\ done.left = run.left
        /\ SameRun(done, run) /\ done.whole = w
    <3>1. <<>> \in Seq(Block)
      OBVIOUS
    <3>2. done \in Run
      BY <1>0, <3>1 DEF Run, Places
    <3> QED BY <1>0, <3>2, NothingAssumption DEF Run, SameRun
  <2>4. /\ disk'.lock = disk.lock /\ disk'.changelog = new
        /\ disk'.pyproject = disk.pyproject /\ disk'.header = disk.header
    <3> HIDE DEF new
    <3>1. disk' = [disk EXCEPT !.changelog = new]
      BY <1>3 DEF new
    <3> QED BY <1>0, <3>1 DEF TypeOK, Tree
  <2>5. ASSUME ~ torn
        PROVE /\ FilesWhole
              /\ \A i, j \in DOMAIN new : new[i].tag = new[j].tag => i = j
              /\ \A v : Listed(run.old, v) => Listed(new, v)
              /\ Listed(new, run.tag)
              /\ w => /\ \A i \in Heads(new, run.tag) : new[i].commits = run.commits
                      /\ ~ Listed(head.changelog, run.tag)
    <3>1. FilesWhole
      BY <2>5 DEF ReleaseInv
    <3> QED BY <1>0, <2>1, <3>1, PrependedFacts
  <2>6. torn' = torn
    BY <1>3
  <2> HIDE DEF new, done
  <2>7. TagsBehind' /\ TagsAreCuts' /\ HeaderInv'
    BY <1>1, <2>4, <2>6, QuietTags, QuietCuts, QuietHeader DEF ReleaseInv
  <2>8. (~ torn => FilesWhole)'
    <3> SUFFICES ASSUME ~ torn' PROVE FilesWhole'
      OBVIOUS
    <3>1. Ledger = run.old /\ Ledger' = new
      BY <1>0, <2>2, <2>3, <2>4 DEF Ledger, At
    <3>2. Cuts' = Cuts
      BY <1>1 DEF Cuts
    <3>3. \A v : Listed(Ledger, v) => Listed(new, v)
      BY <2>5, <2>6, <3>1
    <3>4. \A u \in Cuts : Listed(new, u.version)
      BY <2>5, <2>6, <3>3 DEF FilesWhole
    <3>5. \A i \in DOMAIN head.changelog : Listed(new, head.changelog[i].tag)
      BY <2>5, <2>6, <3>3 DEF FilesWhole
    <3>6. \A v : Listed(Ledger, v)' <=> Listed(new, v)
      BY <3>1 DEF Listed
    <3>7. \A i, j \in DOMAIN Ledger' : Ledger'[i].tag = Ledger'[j].tag => i = j
      BY <2>5, <2>6, <3>1
    <3>8. disk'.pyproject # Nothing /\ disk'.lock # Nothing /\ disk'.header # Nothing
      BY <2>4, <2>5, <2>6 DEF FilesWhole
    <3>9. \A v : Listed(Ledger', v) <=> Listed(new, v)
      BY <3>1
    <3> QED BY <1>1, <3>2, <3>4, <3>5, <3>7, <3>8, <3>9 DEF FilesWhole
  <2>9. ASSUME ~ torn, w
        PROVE  /\ Undisturbed(run)
               /\ run.since <= Len(log) /\ run.commits = Since(run.since)
    BY <1>0, <2>1, <2>9 DEF ReleaseInv, RunInv
  <2>10. ~ torn => Injects(run)
    BY <1>0 DEF ReleaseInv, RunInv
  <2>11. CASE run' = done /\ advice' = Nothing
    <3>1. ~ torn' => Injects(run)'
      BY <1>0, <2>3, <2>4, <2>5, <2>6, <2>10, <2>11 DEF Injects, AfterLock, AfterPyproject,
           AfterHeader, AfterChangelog, SameRun
    <3>2. ASSUME ~ torn', run'.whole
          PROVE  /\ Undisturbed(run)'
                 /\ run'.since <= Len(log') /\ run'.commits = Since(run.since)'
                 /\ ~ Listed(head.changelog, run.tag)'
      <4>1. w /\ ~ torn
        BY <2>3, <2>6, <2>11, <3>2
      <4>2. /\ \A i \in Heads(new, run.tag) : new[i].commits = run.commits
            /\ ~ Listed(head.changelog, run.tag)
        BY <2>5, <4>1
      <4>3. \A i \in Heads(disk.changelog, run.tag)' : disk'.changelog[i].commits = run'.commits
        BY <2>3, <2>4, <2>11, <4>2 DEF Heads, SameRun
      <4>4. Undisturbed(run)'
        <5>1. PICK x : x = done
          OBVIOUS
        <5>2. PICK r : r = run
          OBVIOUS
        <5>3. Undisturbed(r) /\ SameRun(x, r) /\ r.at = "write" /\ x.at = "notes"
          BY <1>0, <2>3, <2>9, <4>1, <5>1, <5>2
        <5>4. \A i \in Heads(disk'.changelog, x.tag) : disk'.changelog[i].commits = x.commits
          BY <2>11, <4>3, <5>1 DEF Heads
        <5>5. Undisturbed(x)'
          BY <1>1, <2>4, <5>3, <5>4, WrittenKeeps
        <5> QED BY <2>11, <5>1, <5>5
      <4> QED BY <1>1, <2>3, <2>9, <2>11, <4>1, <4>2, <4>4 DEF SameRun, Since, Listed
    <3>3. ~ collided' => /\ run'.tag \notin elsewhere'
                         /\ \A t \in tags' : t.version = run'.tag => ~ t.cut
      BY <1>0, <1>1, <2>3, <2>11 DEF ReleaseInv, RunInv, SameRun
    <3>4. RunInv'
      BY <2>11, <3>1, <3>2, <3>3 DEF RunInv
    <3>5. AdviceInv'
      BY <2>11 DEF AdviceInv
    <3> QED BY <1>0, <2>7, <2>8, <3>4, <3>5 DEF ReleaseInv
  <2>12. CASE run' = Nothing /\ advice' = done
    <3>1. ~ torn' => Injects(advice)'
      BY <1>0, <2>3, <2>4, <2>5, <2>6, <2>10, <2>12 DEF Injects, AfterLock, AfterPyproject,
           AfterHeader, AfterChangelog, SameRun
    <3>2. ASSUME ~ torn', advice'.whole
          PROVE  /\ Undisturbed(advice)' /\ disk' # head'
                 /\ advice'.since <= Len(log') /\ advice'.commits = Since(advice.since)'
      <4>1. w /\ ~ torn
        BY <2>3, <2>6, <2>12, <3>2
      <4>2. /\ \A i \in Heads(new, run.tag) : new[i].commits = run.commits
            /\ ~ Listed(head.changelog, run.tag) /\ Listed(new, run.tag)
        BY <2>5, <4>1
      <4>3. \A i \in Heads(disk.changelog, advice.tag)' :
              disk'.changelog[i].commits = advice'.commits
        BY <2>3, <2>4, <2>12, <4>2 DEF Heads, SameRun
      <4>4. Undisturbed(advice)'
        <5>1. PICK x : x = done
          OBVIOUS
        <5>2. PICK r : r = run
          OBVIOUS
        <5>3. Undisturbed(r) /\ SameRun(x, r) /\ r.at = "write" /\ x.at = "notes"
          BY <1>0, <2>3, <2>9, <4>1, <5>1, <5>2
        <5>4. \A i \in Heads(disk'.changelog, x.tag) : disk'.changelog[i].commits = x.commits
          BY <2>12, <4>3, <5>1 DEF Heads
        <5>5. Undisturbed(x)'
          BY <1>1, <2>4, <5>3, <5>4, WrittenKeeps
        <5> QED BY <2>12, <5>1, <5>5
      <4>5. disk' # head'
        BY <1>1, <2>4, <4>2
      <4> QED BY <1>1, <2>3, <2>9, <2>12, <4>1, <4>4, <4>5 DEF SameRun, Since
    <3>3. AdviceInv'
      BY <2>3, <2>12, <3>1, <3>2 DEF AdviceInv, AfterChangelog
    <3>4. RunInv'
      BY <2>12 DEF RunInv
    <3> QED BY <1>0, <2>7, <2>8, <3>3, <3>4 DEF ReleaseInv
  <2> QED BY <2>2, <2>11, <2>12
<1> QED BY <1>2, <1>3 DEF WriteChangelog

(* The command ends: what it promised of the files is now its advice.      *)
LEMMA HandedOver ==
  ASSUME RunInv, run # Nothing, run.at \in AfterChangelog, run' = Nothing, advice' = run,
         log' = log, head' = head, disk' = disk, tags' = tags, torn' = torn,
         collided' = collided
  PROVE  RunInv' /\ AdviceInv'
<1>1. RunInv'
  BY DEF RunInv
<1>2. ~ torn' => Injects(advice)'
  BY DEF RunInv, Injects
<1>3. ASSUME ~ torn', advice'.whole
      PROVE  /\ Undisturbed(advice)' /\ disk' # head'
             /\ advice'.since <= Len(log') /\ advice'.commits = Since(advice.since)'
  <2>1. /\ Undisturbed(run) /\ Listed(disk.changelog, run.tag)
        /\ run.since <= Len(log) /\ run.commits = Since(run.since)
        /\ ~ Listed(head.changelog, run.tag)
    BY <1>3 DEF RunInv, Injects
  <2>2. Undisturbed(advice)'
    BY <2>1 DEF Undisturbed, FromNearest, Due, OldHeader, Heads
  <2>3. disk' # head'
    BY <2>1
  <2> QED BY <2>1, <2>2, <2>3 DEF Since
<1> QED BY <1>1, <1>2, <1>3 DEF AdviceInv

(* It ends or dies and leaves the files as they are.                       *)
LEMMA RunEnds ==
  ASSUME ReleaseInv, ~ At("write"), run' = Nothing, log' = log, head' = head, disk' = disk,
         tags' = tags, released' = released, torn' = torn, bumped' = bumped,
         collided' = collided
  PROVE  TagsBehind' /\ TagsAreCuts' /\ HeaderInv' /\ (~ torn => FilesWhole)'
<1>1. TagsBehind' /\ TagsAreCuts' /\ HeaderInv'
  BY QuietTags, QuietCuts, QuietHeader DEF ReleaseInv
<1>2. Ledger' = Ledger
  BY DEF Ledger, At
<1>3. (~ torn => FilesWhole)'
  BY <1>2, QuietFiles DEF ReleaseInv, FilesWhole
<1> QED BY <1>1, <1>3

LEMMA PutNotesStep ==
  ASSUME ReleaseInv, PutNotes
  PROVE  ReleaseInv'
<1>0. TypeOK' /\ TypeOK /\ run \in Run /\ run # Nothing /\ run.at = "notes"
  BY TypeStep, RunTyped DEF ReleaseNext, ReleaseInv, PutNotes, At
<1>1. /\ log' = log /\ head' = head /\ tags' = tags /\ disk' = disk
      /\ elsewhere' = elsewhere /\ released' = released
      /\ bumped' = bumped /\ torn' = torn /\ collided' = collided /\ advice = Nothing
  BY NoAdvice DEF PutNotes, repository, history, ReleaseInv
<1>2. CASE run' = Nothing
  <2>1. RunInv' /\ AdviceInv'
    <3>1. CASE HandOver
      BY <1>0, <1>1, <3>1, HandedOver DEF HandOver, ReleaseInv, AfterChangelog
    <3>2. CASE GiveUp
      BY <1>1, <1>2, <3>2, Idle DEF GiveUp
    <3>3. CASE run.request.publish /\ Goto("publish") /\ UNCHANGED advice
      BY <1>1, <1>2, <3>3, Idle
    <3> QED BY <3>1, <3>2, <3>3 DEF PutNotes
  <2>2. ~ At("write")
    BY <1>0 DEF At
  <2> QED BY <1>0, <1>1, <1>2, <2>1, <2>2, RunEnds DEF ReleaseInv
<1>3. CASE Goto("publish") /\ UNCHANGED advice
  <2>1. /\ run' # Nothing /\ run'.at = "publish" /\ run'.left = run.left
        /\ SameRun(run', run) /\ run'.whole = run.whole
    <3>1. run' = [run EXCEPT !.at = "publish"]
      BY <1>3 DEF Goto
    <3>2. run' \in Run
      BY <1>0, <3>1 DEF Run, Places
    <3> QED BY <1>0, <3>1, <3>2, NothingAssumption DEF Run, SameRun
  <2>2. TagsBehind' /\ TagsAreCuts' /\ HeaderInv'
    BY <1>1, QuietTags, QuietCuts, QuietHeader DEF ReleaseInv
  <2>3. (~ torn => FilesWhole)'
    <3>1. Ledger' = Ledger
      BY <1>0, <1>1, <2>1 DEF Ledger, At
    <3> QED BY <1>1, <3>1, QuietFiles DEF ReleaseInv, FilesWhole
  <2>4. ~ torn' => Injects(run)'
    <3>1. ~ torn => Injects(run)
      BY <1>0 DEF ReleaseInv, RunInv
    <3> QED BY <1>0, <1>1, <2>1, <3>1 DEF Injects, AfterLock, AfterPyproject,
                AfterHeader, AfterChangelog, SameRun
  <2>5. ASSUME ~ torn', run'.whole
        PROVE  /\ Undisturbed(run)' /\ ~ Listed(head.changelog, run.tag)'
               /\ run'.since <= Len(log') /\ run'.commits = Since(run.since)'
    <3>1. /\ Undisturbed(run) /\ ~ Listed(head.changelog, run.tag)
          /\ run.since <= Len(log) /\ run.commits = Since(run.since)
      BY <1>0, <1>1, <2>1, <2>5 DEF ReleaseInv, RunInv, AfterChangelog
    <3>2. Undisturbed(run)'
      BY <1>0, <1>1, <2>1, <3>1 DEF Undisturbed, FromNearest, AfterHeader, AfterLock,
         AfterPyproject, AfterChangelog, SameRun, Due, OldHeader, Heads
    <3> QED BY <1>1, <2>1, <3>1, <3>2 DEF SameRun, Since, Listed
  <2>6. RunInv'
    BY <1>0, <1>1, <1>3, <2>1, <2>4, <2>5 DEF RunInv, ReleaseInv, SameRun
  <2>7. AdviceInv'
    BY <1>1, <1>3 DEF AdviceInv
  <2> QED BY <1>0, <2>2, <2>3, <2>6, <2>7 DEF ReleaseInv
<1> QED BY <1>2, <1>3 DEF PutNotes, HandOver, GiveUp

(* Only a tag that came while the run was under way lets it publish.       *)
LEMMA PublishStep ==
  ASSUME ReleaseInv, Publish
  PROVE  ReleaseInv'
<1>0. TypeOK' /\ TypeOK /\ run \in Run /\ run # Nothing /\ run.at = "publish"
  BY TypeStep, RunTyped DEF ReleaseNext, ReleaseInv, Publish, At
<1>1. /\ log' = log /\ head' = head /\ tags' = tags /\ disk' = disk
      /\ elsewhere' = elsewhere /\ run' = Nothing /\ advice' = run
      /\ bumped' = bumped /\ torn' = torn /\ collided' = collided
  BY DEF Publish, repository, history, HandOver
<1>2. RunInv' /\ AdviceInv'
  BY <1>0, <1>1, HandedOver DEF ReleaseInv, AfterChangelog
<1>3. TagsBehind' /\ HeaderInv'
  BY <1>1, QuietTags, QuietHeader DEF ReleaseInv
<1>4. (~ torn => FilesWhole)'
  <2>1. Ledger' = Ledger
    BY <1>0, <1>1 DEF Ledger, At
  <2> QED BY <1>1, <2>1, QuietFiles DEF ReleaseInv, FilesWhole
<1>5. TagsAreCuts'
  <2>1. ASSUME ~ collided' PROVE ReleasedByChance'
    <3>1. ReleasedByChance
      BY <1>1, <2>1 DEF ReleaseInv, TagsAreCuts
    <3>2. CASE released' = released
      BY <1>1, <3>1, <3>2 DEF ReleasedByChance
    <3>3. CASE Exists(run.tag) /\ released' = released \cup {run.tag}
      <4>1. /\ run.tag \notin elsewhere
            /\ \A t \in tags : t.version = run.tag => ~ t.cut
        BY <1>0, <1>1, <2>1 DEF ReleaseInv, RunInv
      <4>2. \E t \in tags : t.version = run.tag
        BY <3>3, <4>1 DEF Exists, Versions
      <4> QED BY <1>1, <3>1, <3>3, <4>1, <4>2 DEF ReleasedByChance
    <3> QED BY <3>2, <3>3 DEF Publish
  <2>2. Cuts' = Cuts
    BY <1>1 DEF Cuts
  <2>3. ASSUME NEW t PROVE CutAgrees(t)' = CutAgrees(t)
    BY <2>2 DEF CutAgrees, Heads
  <2>4. ASSUME NEW t PROVE CutIsComplete(t)' = CutIsComplete(t)
    BY <1>1 DEF CutIsComplete, Before, Previous, Heads
  <2> QED BY <1>1, <2>1, <2>2, <2>3, <2>4 DEF TagsAreCuts, ReleaseInv
<1> QED BY <1>0, <1>2, <1>3, <1>4, <1>5 DEF ReleaseInv

LEMMA DieStep ==
  ASSUME ReleaseInv, Die
  PROVE  ReleaseInv'
<1>0. TypeOK' /\ TypeOK /\ run # Nothing
  BY TypeStep DEF ReleaseNext, ReleaseInv, Die
<1>1. /\ log' = log /\ head' = head /\ tags' = tags
      /\ elsewhere' = elsewhere /\ released' = released /\ bumped' = bumped
      /\ collided' = collided /\ run' = Nothing /\ advice' = Nothing
  BY <1>0 DEF Die, repository, GiveUp, ReleaseInv, RunInv
<1>2. RunInv' /\ AdviceInv'
  BY <1>1, Idle
<1>3. CASE torn' = TRUE
  <2>1. TagsBehind' /\ TagsAreCuts' /\ HeaderInv'
    BY <1>1, <1>3, QuietTags, QuietCuts, QuietHeader DEF ReleaseInv
  <2> QED BY <1>0, <1>2, <1>3, <2>1 DEF ReleaseInv
<1>4. CASE ~ At("write") /\ disk' = disk /\ torn' = torn
  BY <1>0, <1>1, <1>2, <1>4, RunEnds DEF ReleaseInv
<1> QED BY <1>3, <1>4 DEF Die

----------------------------------------------------------------------------
(* The log and the tags grow.                                              *)
LEMMA TagAt ==
  ASSUME TypeOK
  PROVE  \A t \in tags : t.at \in Nat
<1>1. \A t \in tags : t.at \in 0 .. MaxLog
  BY DEF TypeOK, Tag
<1> QED BY <1>1, Bounds

LEMMA PreviousIsBefore ==
  ASSUME TypeOK, NEW t, Before(t) # {}
  PROVE  Previous(t) \in Before(t) /\ \A w \in Before(t) : w.at <= Previous(t).at
<1> DEFINE ats == {u.at : u \in Before(t)}
<1>1. \A u \in Before(t) : u.at \in 0 .. MaxLog
  BY DEF TypeOK, Tag, Before
<1>2. ats \in SUBSET Nat /\ ats # {} /\ \A a \in ats : a <= MaxLog
  BY <1>1, Bounds
<1>3. \E i \in ats : \A a \in ats : a <= i
  <2> HIDE DEF ats
  <2> QED BY <1>2, Bounds, Greatest
<1>4. \E u \in Before(t) : \A w \in Before(t) : w.at <= u.at
  BY <1>3
<1> QED BY <1>4 DEF Previous

LEMMA LogKeepsCuts ==
  ASSUME TypeOK, TagsBehind, TagsAreCuts, NEW c \in Commit, log' = Append(log, c),
         tags' = tags, released' = released, torn' = torn, collided' = collided
  PROVE  TagsAreCuts'
<1>1. Cuts' = Cuts /\ ReleasedByChance' = ReleasedByChance
  BY DEF Cuts, ReleasedByChance
<1>2. ASSUME NEW t PROVE CutAgrees(t)' = CutAgrees(t)
  BY <1>1 DEF CutAgrees, Heads
<1>3. ASSUME NEW t \in Cuts, CutIsComplete(t) PROVE CutIsComplete(t)'
  <2>1. Before(t)' = Before(t) /\ Previous(t)' = Previous(t)
    BY DEF Before, Previous
  <2> DEFINE since == IF Before(t) = {} THEN 0 ELSE Previous(t).at
             old == IF Before(t) = {} THEN Origin ELSE Previous(t).tree.header
             new == since + 1 .. t.at - 1
  <2>2. since \in Nat
    BY <1>3, PreviousIsBefore, TagAt DEF Before
  <2>3. t.at \in Nat /\ t.at <= Len(log)
    BY TagAt DEF TagsBehind, Cuts
  <2>4. \A i \in new : log'[i] = log[i]
    <3> HIDE DEF since
    <3>1. \A i \in new : i \in 1 .. Len(log)
      BY <2>2, <2>3, LogTyped
    <3> HIDE DEF new
    <3> QED BY <3>1, LogGrows
  <2>5. /\ \A i \in Heads(t.tree.changelog, t.version) : t.tree.changelog[i].commits = new
        /\ t.tree.header = IF /\ Before(t) = {} \/ \E i \in new : log[i].header
                              /\ t.bump # "NONE" \/ t.pre # 0
                           THEN Bump(old, t.bump, t.pre) ELSE old
    BY <1>3 DEF CutIsComplete
  <2>6. (\E i \in new : log[i].header) <=> (\E i \in new : log'[i].header)
    BY <2>4
  <2>7. /\ \A i \in Heads(t.tree.changelog, t.version) : t.tree.changelog[i].commits = new
        /\ t.tree.header = IF /\ Before(t) = {} \/ \E i \in new : log'[i].header
                              /\ t.bump # "NONE" \/ t.pre # 0
                           THEN Bump(old, t.bump, t.pre) ELSE old
    <3> HIDE DEF new, old
    <3> QED BY <2>5, <2>6
  <2> QED BY <2>1, <2>7 DEF CutIsComplete, Heads
<1> QED BY <1>1, <1>2, <1>3 DEF TagsAreCuts

LEMMA LogKeepsTags ==
  ASSUME TypeOK, TagsBehind, NEW c \in Commit, log' = Append(log, c), tags' = tags
  PROVE  TagsBehind'
<1>1. Len(log') = Len(log) + 1 /\ Len(log) \in Nat
  BY LogGrows, LogTyped
<1>2. \A t \in tags : t.at \in Nat
  BY TagAt
<1> QED BY <1>1, <1>2 DEF TagsBehind

LEMMA DisturbedFacts ==
  ASSUME NEW r \in Run \cup {Nothing}
  PROVE  /\ Disturbed(r) = Nothing <=> r = Nothing
         /\ r # Nothing => /\ SameRun(Disturbed(r), r) /\ Disturbed(r).at = r.at
                        /\ Disturbed(r).left = r.left /\ Disturbed(r).old = r.old
                        /\ Disturbed(r).whole = FALSE
<1>1. CASE r = Nothing
  BY <1>1 DEF Disturbed
<1>2. CASE r # Nothing
  <2>1. r \in Run /\ Disturbed(r) = [r EXCEPT !.whole = FALSE]
    BY <1>2 DEF Disturbed
  <2>2. Disturbed(r) \in Run
    BY <2>1 DEF Run
  <2> QED BY <1>2, <2>1, <2>2, NothingAssumption DEF Run, SameRun
<1> QED BY <1>1, <1>2

(* A disturbed run or advice promises nothing but what is in the files.    *)
LEMMA DisturbedKeeps ==
  ASSUME TypeOK, RunInv, AdviceInv, run' = Disturbed(run), advice' = Disturbed(advice),
         disk' = disk, torn' = torn, collided' = collided, elsewhere' = elsewhere,
         \A t \in tags' : t \in tags \/ ~ t.cut
  PROVE  /\ RunInv' /\ AdviceInv' /\ Ledger' = Ledger
<1>1. run \in Run \cup {Nothing} /\ advice \in Run \cup {Nothing}
  BY DEF TypeOK
<1>2. /\ run' = Nothing <=> run = Nothing
      /\ run # Nothing => /\ SameRun(run', run) /\ run'.at = run.at
                       /\ run'.left = run.left /\ run'.old = run.old
                       /\ run'.whole = FALSE
  BY <1>1, DisturbedFacts
<1>3. /\ advice' = Nothing <=> advice = Nothing
      /\ advice # Nothing => /\ SameRun(advice', advice) /\ advice'.at = advice.at
                          /\ advice'.left = advice.left /\ advice'.whole = FALSE
  BY <1>1, DisturbedFacts
<1>4. run # Nothing /\ Injects(run) => Injects(run)'
  BY <1>2 DEF Injects, SameRun, Listed
<1>5. advice # Nothing /\ Injects(advice) => Injects(advice)'
  BY <1>3 DEF Injects, SameRun, Listed
<1>6. RunInv'
  BY <1>2, <1>3, <1>4 DEF RunInv, SameRun
<1>7. AdviceInv'
  BY <1>2, <1>3, <1>5 DEF AdviceInv
<1>8. Ledger' = Ledger
  BY <1>2 DEF Ledger, At
<1> QED BY <1>6, <1>7, <1>8

LEMMA WorkStep ==
  ASSUME ReleaseInv, Work
  PROVE  ReleaseInv'
<1>0. TypeOK' /\ TypeOK
  BY TypeStep DEF ReleaseNext, ReleaseInv
<1>1. /\ head' = head /\ tags' = tags /\ disk' = disk
      /\ elsewhere' = elsewhere /\ released' = released
      /\ bumped' = bumped /\ torn' = torn /\ collided' = collided
      /\ run' = Disturbed(run) /\ advice' = Disturbed(advice)
  BY DEF Work, history
<1>2. PICK c \in Commit : log' = Append(log, c)
  BY ReleaseAssumption DEF Work
<1>3. TagsBehind' /\ TagsAreCuts'
  BY <1>0, <1>1, <1>2, LogKeepsTags, LogKeepsCuts DEF ReleaseInv
<1>4. HeaderInv'
  BY <1>1, QuietHeader DEF ReleaseInv
<1>5. RunInv' /\ AdviceInv' /\ Ledger' = Ledger
  BY <1>0, <1>1, DisturbedKeeps DEF ReleaseInv
<1>6. (~ torn => FilesWhole)'
  BY <1>1, <1>5, QuietFiles DEF ReleaseInv, FilesWhole
<1> QED BY <1>0, <1>3, <1>4, <1>5, <1>6 DEF ReleaseInv

(* The old header is one.                                                  *)
LEMMA HeaderIsOne ==
  ASSUME TypeOK, NEW g, NEW h, OldHeader(g), OldHeader(h)
  PROVE  g = h
<1>1. CASE tags = {}
  BY <1>1 DEF OldHeader
<1>2. CASE tags # {}
  <2>1. \E i \in {t.at : t \in tags} : \A u \in tags : u.at <= i
    BY <1>2, LastTag
  <2>2. PICK t \in tags : \A u \in tags : u.at <= t.at
    BY <2>1
  <2> QED BY <2>2 DEF OldHeader
<1> QED BY <1>1, <1>2

(* A tag more, on the log's end.                                           *)
LEMMA TagMore ==
  ASSUME TypeOK, TagsBehind, NEW n, n.at = Len(log), n.tree = head,
         tags' = tags \cup {n}, log' = log, head' = head
  PROVE  /\ TagsBehind'
         /\ \A t \in tags : Before(t)' = Before(t)
         /\ OldHeader(head.header)'
         /\ Before(n)' = {t \in tags : t.at < Len(log)}
<1>1. Len(log) \in Nat /\ \A t \in tags : t.at \in Nat /\ t.at <= Len(log)
  BY LogTyped, TagAt DEF TagsBehind
<1>2. TagsBehind'
  BY <1>1 DEF TagsBehind
<1>3. \A t \in tags : Before(t)' = Before(t)
  BY <1>1 DEF Before
<1>4. OldHeader(head.header)'
  <2>1. ASSUME NEW t \in tags', \A u \in tags' : u.at <= t.at
        PROVE  t.tree = head
    <3>1. n.at <= t.at
      BY <2>1
    <3>2. t.at = Len(log)
      BY <1>1, <3>1
    <3> QED BY <3>2 DEF TagsBehind
  <2>2. n \in tags'
    OBVIOUS
  <2> QED BY <2>1, <2>2 DEF OldHeader
<1>5. Before(n)' = {t \in tags : t.at < Len(log)}
  BY <1>1 DEF Before
<1> QED BY <1>2, <1>3, <1>4, <1>5

LEMMA CompleteStays ==
  ASSUME NEW t, CutIsComplete(t), log' = log, Before(t)' = Before(t)
  PROVE  CutIsComplete(t)'
<1>1. Previous(t)' = Previous(t)
  BY DEF Previous
<1> QED BY <1>1 DEF CutIsComplete, Heads

LEMMA TagElsewhereStep ==
  ASSUME ReleaseInv, TagElsewhere
  PROVE  ReleaseInv'
<1>0. TypeOK' /\ TypeOK /\ run # Nothing
  BY TypeStep DEF ReleaseNext, ReleaseInv, TagElsewhere
<1>1. /\ log' = log /\ head' = head /\ disk' = disk
      /\ elsewhere' = elsewhere /\ released' = released
      /\ bumped' = bumped /\ torn' = torn /\ collided' = collided
      /\ run' = Disturbed(run) /\ advice' = Disturbed(advice)
  BY DEF TagElsewhere, history
<1>2. PICK n : /\ tags' = tags \cup {n} /\ n.at = Len(log) /\ n.tree = head
               /\ n.cut = FALSE
  <2> DEFINE n == [version |-> run.tag, at |-> Len(log), cut |-> FALSE,
                   whole |-> FALSE /\ run.whole, bump |-> run.bump,
                   pre |-> run.request.pre, left |-> run.left, tree |-> head]
  <2>1. tags' = tags \cup {n}
    BY DEF TagElsewhere, Tagged
  <2>2. n.at = Len(log) /\ n.tree = head /\ n.cut = FALSE
    OBVIOUS
  <2> HIDE DEF n
  <2> QED BY <2>1, <2>2
<1>3. /\ TagsBehind' /\ OldHeader(head.header)'
      /\ \A t \in tags : Before(t)' = Before(t)
  BY <1>0, <1>1, <1>2, TagMore DEF ReleaseInv
<1>4. HeaderInv'
  <2>1. ~ torn /\ ~ bumped => head.header = disk.header
    BY <1>0, HeaderIsOne DEF ReleaseInv, HeaderInv
  <2> QED BY <1>1, <1>3, <2>1 DEF HeaderInv, OldHeader
<1>5. RunInv' /\ AdviceInv' /\ Ledger' = Ledger
  BY <1>0, <1>1, <1>2, DisturbedKeeps DEF ReleaseInv
<1>6. Cuts' = Cuts
  BY <1>2 DEF Cuts
<1>7. (~ torn => FilesWhole)'
  <2>1. \A v : Listed(Ledger, v) <=> Listed(Ledger', v)
    BY <1>5
  <2> QED BY <1>1, <1>5, <1>6, <2>1 DEF ReleaseInv, FilesWhole
<1>8. TagsAreCuts'
  <2>1. ASSUME NEW t PROVE CutAgrees(t)' = CutAgrees(t)
    BY <1>6 DEF CutAgrees, Heads
  <2>2. ASSUME NEW t \in Cuts, CutIsComplete(t) PROVE CutIsComplete(t)'
    BY <1>1, <1>3, <2>2, CompleteStays DEF Cuts
  <2>3. ~ collided' => ReleasedByChance'
    BY <1>1, <1>2 DEF ReleaseInv, TagsAreCuts, ReleasedByChance
  <2> QED BY <1>1, <1>6, <2>1, <2>2, <2>3 DEF ReleaseInv, TagsAreCuts
<1> QED BY <1>0, <1>3, <1>4, <1>5, <1>7, <1>8 DEF ReleaseInv

(* The commit of the cut comes right after those of its block.             *)
LEMMA CommitCutStep ==
  ASSUME ReleaseInv, CommitCut
  PROVE  ReleaseInv'
<1>0. TypeOK' /\ TypeOK /\ run = Nothing /\ advice # Nothing /\ disk # head
  BY TypeStep DEF ReleaseNext, ReleaseInv, CommitCut
<1>1. /\ head' = disk /\ tags' = tags /\ disk' = disk
      /\ elsewhere' = elsewhere /\ released' = released
      /\ bumped' = bumped /\ torn' = torn /\ collided' = collided
      /\ run' = run /\ advice' = advice
      /\ log' = Append(log, CutCommit)
  BY DEF CommitCut, history
<1>2. CutCommit \in Commit
  BY DEF CutCommit, Commit, SemverImpacts
<1>3. TagsBehind' /\ TagsAreCuts'
  BY <1>0, <1>1, <1>2, LogKeepsTags, LogKeepsCuts DEF ReleaseInv
<1>4. HeaderInv'
  BY <1>1 DEF ReleaseInv, HeaderInv, OldHeader
<1>5. RunInv'
  BY <1>0, <1>1 DEF RunInv
<1>6. (~ torn => FilesWhole)'
  <2>1. Ledger' = disk.changelog /\ Ledger = disk.changelog
    BY <1>0, <1>1 DEF Ledger, At
  <2>2. Cuts' = Cuts
    BY <1>1 DEF Cuts
  <2>3. \A i \in DOMAIN disk.changelog : Listed(disk.changelog, disk.changelog[i].tag)
    BY DEF Listed
  <2> QED BY <1>1, <2>1, <2>2, <2>3 DEF ReleaseInv, FilesWhole
<1>7. AdviceInv'
  <2>1. Len(log') = Len(log) + 1 /\ Len(log) \in Nat
    BY <1>1, <1>2, LogGrows, LogTyped
  <2>2. ~ torn' => Injects(advice)'
    BY <1>0, <1>1 DEF ReleaseInv, AdviceInv, Injects
  <2>3. ASSUME ~ torn', advice'.whole
        PROVE  /\ Undisturbed(advice)' /\ advice'.since < Len(log')
               /\ advice'.commits = advice'.since + 1 .. Len(log') - 1
    <3>1. /\ Undisturbed(advice)
          /\ advice.since <= Len(log) /\ advice.commits = Since(advice.since)
      BY <1>0, <1>1, <2>3 DEF ReleaseInv, AdviceInv
    <3>2. advice.since \in Nat
      <4>1. advice \in Run
        BY <1>0 DEF TypeOK
      <4>2. advice.since \in 0 .. MaxLog
        BY <4>1, RunFields
      <4> QED BY <4>2
    <3>3. \A i \in advice.commits : i \in 1 .. Len(log)
      BY <2>1, <3>1, <3>2 DEF Since
    <3>4. \A i \in advice.commits : log'[i] = log[i]
      BY <1>0, <1>1, <1>2, <3>3, LogGrows
    <3>5. (\E i \in advice.commits : log'[i].header) <=> (\E i \in advice.commits : log[i].header)
      BY <3>4
    <3>6. Undisturbed(advice)'
      BY <1>1, <3>1, <3>5 DEF Undisturbed, FromNearest, OldHeader, Due, Heads
    <3> QED BY <1>1, <2>1, <3>1, <3>2, <3>6 DEF Since
  <2> QED BY <1>0, <1>1, <2>2, <2>3 DEF ReleaseInv, AdviceInv
<1> QED BY <1>0, <1>3, <1>4, <1>5, <1>6, <1>7 DEF ReleaseInv

(* The tag of a whole run's advice is a whole cut.                         *)
LEMMA TagCutStep ==
  ASSUME ReleaseInv, TagCut
  PROVE  ReleaseInv'
<1>0. /\ TypeOK' /\ TypeOK /\ run = Nothing /\ advice # Nothing /\ advice \in Run
      /\ disk = head /\ ~ Exists(advice.tag)
  BY TypeStep DEF ReleaseNext, ReleaseInv, TagCut, TypeOK
<1>1. /\ log' = log /\ head' = head /\ disk' = disk
      /\ elsewhere' = elsewhere /\ released' = released
      /\ torn' = torn /\ collided' = collided /\ run' = Nothing /\ advice' = Nothing
  BY <1>0 DEF TagCut
<1>2. PICK n : /\ tags' = tags \cup {n} /\ n.at = Len(log) /\ n.tree = head
               /\ n.cut = TRUE /\ n.version = advice.tag
               /\ n.whole = (TRUE /\ advice.whole) /\ n.bump = advice.bump
               /\ n.pre = advice.request.pre /\ n.left = advice.left
  <2> DEFINE n == [version |-> advice.tag, at |-> Len(log), cut |-> TRUE,
                   whole |-> TRUE /\ advice.whole, bump |-> advice.bump,
                   pre |-> advice.request.pre, left |-> advice.left, tree |-> head]
  <2>1. tags' = tags \cup {n}
    BY DEF TagCut, Tagged
  <2>2. /\ n.at = Len(log) /\ n.tree = head /\ n.cut = TRUE /\ n.version = advice.tag
        /\ n.whole = (TRUE /\ advice.whole) /\ n.bump = advice.bump
        /\ n.pre = advice.request.pre /\ n.left = advice.left
    OBVIOUS
  <2> HIDE DEF n
  <2> QED BY <2>1, <2>2
<1>4. /\ TagsBehind' /\ OldHeader(head.header)'
      /\ \A t \in tags : Before(t)' = Before(t)
      /\ Before(n)' = {t \in tags : t.at < Len(log)}
  BY <1>0, <1>1, <1>2, TagMore DEF ReleaseInv
<1>5. RunInv' /\ AdviceInv'
  BY <1>1, Idle
<1>6. HeaderInv'
  BY <1>0, <1>1, <1>4 DEF HeaderInv, OldHeader
<1>7. Cuts' = Cuts \cup {n} /\ n \in tags'
  BY <1>2 DEF Cuts
<1>8. Ledger' = disk.changelog /\ Ledger = disk.changelog
  BY <1>0, <1>1 DEF Ledger, At
<1>9. ~ torn => Injects(advice) /\ advice.at \in AfterChangelog
  BY <1>0 DEF ReleaseInv, AdviceInv
<1>10. ~ torn => /\ \A f \in Files \ advice.left : disk[f] = advice.tag
                /\ Listed(disk.changelog, advice.tag)
  BY <1>9 DEF Injects, AfterLock, AfterPyproject, AfterHeader, AfterChangelog, Files
<1>11. (~ torn => FilesWhole)'
  BY <1>1, <1>2, <1>7, <1>8, <1>10 DEF ReleaseInv, FilesWhole
<1>12. ASSUME ~ torn
       PROVE  \A u \in Cuts' : Cardinality(Heads(disk.changelog, u.version)) = 1
  <2> SUFFICES ASSUME NEW u \in Cuts'
               PROVE  Cardinality(Heads(disk.changelog, u.version)) = 1
    OBVIOUS
  <2>1. Listed(disk.changelog, u.version)
    BY <1>2, <1>7, <1>8, <1>10, <1>12 DEF ReleaseInv, FilesWhole
  <2>2. \A i, j \in DOMAIN disk.changelog :
          disk.changelog[i].tag = disk.changelog[j].tag => i = j
    BY <1>8, <1>12 DEF ReleaseInv, FilesWhole
  <2>3. PICK i \in DOMAIN disk.changelog : disk.changelog[i].tag = u.version
    BY <2>1 DEF Listed
  <2>4. Heads(disk.changelog, u.version) = {i}
    BY <2>2, <2>3 DEF Heads
  <2> QED BY <2>4, FS_Singleton
<1>13. ASSUME ~ torn PROVE CutAgrees(n)'
  BY <1>0, <1>1, <1>2, <1>10, <1>12, <1>13 DEF CutAgrees, Heads
<1>15. ASSUME ~ torn, NEW t \in Cuts PROVE CutAgrees(t)'
  <2>1. /\ CutAgrees(t) /\ t \in tags /\ t.at \in Nat /\ t.at <= Len(log)
        /\ Len(log) \in Nat
    BY <1>0, <1>15, LogTyped, TagAt DEF ReleaseInv, TagsAreCuts, TagsBehind, Cuts
  <2>2. ASSUME NEW u \in Cuts', u.at <= t.at
        PROVE  Cardinality(Heads(t.tree.changelog, u.version)) = 1
    <3>1. CASE u \in Cuts
      BY <2>1, <2>2, <3>1 DEF CutAgrees
    <3>2. CASE u = n
      <4>1. t.at = Len(log)
        BY <1>2, <2>1, <2>2, <3>2
      <4>2. t.tree = disk
        BY <1>0, <2>1, <4>1 DEF ReleaseInv, TagsBehind
      <4> QED BY <1>12, <1>15, <2>2, <4>2
    <3> QED BY <1>7, <3>1, <3>2
  <2> QED BY <2>1, <2>2 DEF CutAgrees, Heads
<1>16. ASSUME ~ torn, advice.whole PROVE CutIsComplete(n)'
  <2>1. /\ Undisturbed(advice) /\ advice.since < Len(log)
        /\ advice.commits = advice.since + 1 .. Len(log) - 1
    BY <1>0, <1>16 DEF ReleaseInv, AdviceInv
  <2>2. advice.since \in Nat /\ Len(log) \in Nat
    <3>1. advice.since \in 0 .. MaxLog
      BY <1>0, RunFields
    <3> QED BY <1>0, <3>1, LogTyped, Bounds
  <2>3. /\ \A t \in tags : t.at <= advice.since
        /\ IF tags = {} THEN advice.since = 0 ELSE \E t \in tags : t.at = advice.since
    BY <2>1 DEF Undisturbed, FromNearest
  <2>4. Before(n)' = tags
    BY <1>0, <1>4, <2>1, <2>2, <2>3, TagAt
  <2>5. tags # {} => /\ Previous(n)' \in tags
                     /\ \A w \in tags : w.at <= Previous(n)'.at
    <3>1. tags # {} => \E t \in tags : \A w \in tags : w.at <= t.at
      BY <2>3
    <3>2. Previous(n)' = CHOOSE t \in tags : \A w \in tags : w.at <= t.at
      BY <2>4 DEF Previous
    <3> QED BY <3>1, <3>2
  <2>6. tags # {} => Previous(n)'.at = advice.since
    BY <1>0, <2>2, <2>3, <2>5, TagAt
  <2> DEFINE since == IF Before(n)' = {} THEN 0 ELSE Previous(n)'.at
             old == IF Before(n)' = {} THEN Origin ELSE Previous(n)'.tree.header
             new == since + 1 .. n.at - 1
  <2>7. since = advice.since /\ new = advice.commits
    BY <1>2, <2>1, <2>3, <2>4, <2>6
  <2>8. PICK h : /\ OldHeader(h)
                 /\ disk.header = IF Due(advice)
                                  THEN Bump(h, advice.bump, advice.request.pre) ELSE h
    BY <1>9, <1>16, <2>1 DEF Undisturbed, AfterHeader, AfterLock, AfterPyproject, AfterChangelog
  <2>9. old = h
    BY <2>4, <2>5, <2>8 DEF OldHeader
  <2>10. advice.touched <=> Before(n)' = {} \/ \E i \in advice.commits : log[i].header
    BY <1>9, <1>16, <2>1, <2>4 DEF Undisturbed, FromNearest, AfterChangelog
  <2>11. \A i \in Heads(disk.changelog, advice.tag) :
           disk.changelog[i].commits = advice.commits
    BY <1>9, <1>16, <2>1 DEF Undisturbed
  <2> HIDE DEF since, old, new
  <2>12. /\ \A i \in Heads(n.tree.changelog, n.version) : n.tree.changelog[i].commits = new
         /\ n.tree.header = IF /\ Before(n)' = {} \/ \E i \in new : log'[i].header
                               /\ n.bump # "NONE" \/ n.pre # 0
                            THEN Bump(old, n.bump, n.pre) ELSE old
    BY <1>0, <1>1, <1>2, <2>7, <2>8, <2>9, <2>10, <2>11 DEF Due
  <2> QED BY <2>12 DEF CutIsComplete, Heads, since, old, new
<1>17. TagsAreCuts'
  <2>1. ~ collided' => ReleasedByChance'
    BY <1>1, <1>2 DEF ReleaseInv, TagsAreCuts, ReleasedByChance
  <2>2. ASSUME ~ torn, NEW t \in Cuts, t.whole PROVE CutIsComplete(t)'
    <3>1. CutIsComplete(t)
      BY <2>2 DEF ReleaseInv, TagsAreCuts
    <3> QED BY <1>1, <1>4, <3>1, CompleteStays DEF Cuts
  <2> QED BY <1>1, <1>2, <1>7, <1>13, <1>15, <1>16, <2>1, <2>2 DEF TagsAreCuts
<1> QED BY <1>0, <1>4, <1>5, <1>6, <1>11, <1>17 DEF ReleaseInv

----------------------------------------------------------------------------
LEMMA InitCuts == ReleaseInit => ReleaseInv
<1> SUFFICES ASSUME ReleaseInit PROVE ReleaseInv
  OBVIOUS
<1>0. TypeOK
  BY TypeInit
<1>1. PICK v \in Starts :
       /\ head = Start(v)
       /\ tags = IF v = Nothing THEN {}
                 ELSE {[version |-> v, at |-> 0, cut |-> TRUE, whole |-> FALSE,
                        bump |-> "NONE", pre |-> 0, left |-> {}, tree |-> head]}
  BY DEF ReleaseInit
<1>2. /\ log = <<>> /\ disk = head /\ released = {} /\ run = Nothing /\ advice = Nothing
      /\ Len(log) = 0
  BY DEF ReleaseInit
<1>3. /\ head.header = Origin
      /\ head.pyproject = IF v = Nothing THEN Origin ELSE v
      /\ head.lock = IF v = Nothing THEN Origin ELSE v
      /\ head.changelog = IF v = Nothing THEN <<>> ELSE <<[tag |-> v, commits |-> {}]>>
  BY <1>1 DEF Start
<1>4. \A t \in tags : /\ v # Nothing /\ t.version = v /\ t.at = 0 /\ t.cut = TRUE
                       /\ t.whole = FALSE /\ t.left = {} /\ t.tree = head
  BY <1>1
<1>5. Ledger = head.changelog
  BY <1>2 DEF Ledger, At
<1>6. v # Nothing => DOMAIN head.changelog = {1} /\ head.changelog[1].tag = v
  BY <1>3
<1>7. v = Nothing => DOMAIN head.changelog = {}
  BY <1>3
<1>8. TagsBehind
  BY <1>2, <1>4 DEF TagsBehind
<1>9. FilesWhole
  <2>1. v \in Version \cup {Nothing} /\ Origin # Nothing
    BY OriginIsVersion, NothingAssumption, ReleaseAssumption
  <2> QED BY <1>2, <1>3, <1>4, <1>5, <1>6, <1>7, <2>1 DEF FilesWhole, Listed, Cuts
<1>10. HeaderInv
  BY <1>2, <1>3, <1>4 DEF HeaderInv, OldHeader
<1>11. RunInv /\ AdviceInv
  BY <1>2 DEF RunInv, AdviceInv
<1>12. TagsAreCuts
  <2>1. ASSUME NEW t \in Cuts PROVE CutAgrees(t)
    <3>1. v # Nothing /\ t.tree = head /\ t.version = v
      BY <1>4 DEF Cuts
    <3>2. ASSUME NEW u \in Cuts PROVE Cardinality(Heads(head.changelog, u.version)) = 1
      <4>1. u.version = v
        BY <1>4 DEF Cuts
      <4>2. Heads(head.changelog, u.version) = {1}
        BY <1>6, <3>1, <4>1 DEF Heads
      <4> QED BY <4>2, FS_Singleton
    <3> QED BY <1>3, <3>1, <3>2 DEF CutAgrees, Files
  <2>2. \A t \in Cuts : ~ t.whole
    BY <1>4 DEF Cuts
  <2> QED BY <1>2, <2>1, <2>2 DEF TagsAreCuts, ReleasedByChance
<1> QED BY <1>0, <1>8, <1>9, <1>10, <1>11, <1>12 DEF ReleaseInv

LEMMA ReleaseStep ==
  ASSUME ReleaseInv, [ReleaseNext]_releaseVars
  PROVE  ReleaseInv'
<1>1. CASE UNCHANGED releaseVars
  <2>1. TypeOK'
    BY TypeStep DEF ReleaseInv
  <2>2. /\ log' = log /\ head' = head /\ disk' = disk /\ tags' = tags
        /\ elsewhere' = elsewhere /\ released' = released /\ run' = run
        /\ advice' = advice /\ bumped' = bumped /\ torn' = torn /\ collided' = collided
    BY <1>1 DEF releaseVars
  <2>3. TagsBehind' /\ TagsAreCuts' /\ HeaderInv'
    BY <2>2, QuietTags, QuietCuts, QuietHeader DEF ReleaseInv
  <2>4. (~ torn => FilesWhole)'
    <3>1. Ledger' = Ledger
      BY <2>2 DEF Ledger, At
    <3> QED BY <2>2, <3>1, QuietFiles DEF ReleaseInv, FilesWhole
  <2>5. RunInv'
    BY <2>2 DEF ReleaseInv, RunInv, Injects, Undisturbed, FromNearest, OldHeader, Due,
       Since, Listed, Heads
  <2>6. AdviceInv'
    BY <2>2 DEF ReleaseInv, AdviceInv, Injects, Undisturbed, FromNearest, OldHeader, Due,
       Since, Listed, Heads
  <2> QED BY <2>1, <2>3, <2>4, <2>5, <2>6 DEF ReleaseInv
<1> QED BY <1>1, PlanStep, ValidateStep, PutPyprojectStep, PutLockStep, PutHeaderStep,
     OpenChangelogStep, WriteChangelogStep, PutNotesStep, PublishStep, DieStep, WorkStep,
     TagElsewhereStep, CommitCutStep, TagCutStep DEF ReleaseNext

THEOREM ReleaseTypeCorrect == ReleaseSpec => []TypeOK
<1>1. TypeOK /\ [ReleaseNext]_releaseVars => TypeOK'
  BY TypeStep
<1> QED BY <1>1, TypeInit, PTL DEF ReleaseSpec

THEOREM TaggedVersionsAreCuts == ReleaseSpec => []TagsAreCuts
<1>1. ReleaseInv /\ [ReleaseNext]_releaseVars => ReleaseInv'
  BY ReleaseStep
<1>2. ReleaseInv => TagsAreCuts
  BY DEF ReleaseInv
<1> QED BY <1>1, <1>2, InitCuts, PTL DEF ReleaseSpec
=============================================================================
