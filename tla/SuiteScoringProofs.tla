------------------------- MODULE SuiteScoringProofs -------------------------
(***************************************************************************)
(* Proofs about the scoring of a suite, for any suite and any graph of     *)
(* spans: the depth-first search tells trees from everything else, a       *)
(* shared thread is caught, and golden stands on a trace that shows it.    *)
(***************************************************************************)
EXTENDS SuiteScoring, FiniteSetTheorems, SequenceTheorems, WellFoundedInduction, TLAPS

Trace == TopoOf(At)
Up   == ParentOf(Trace)
Here == IdsOf(Trace)

(* Every span stands under some root: what the search is to find out.      *)
Rooted(t) == \A s \in IdsOf(t) : \E r \in RootsOf(t) : Above(t, r, s)

(* A set of spans that parents do not lead out of.                         *)
Closed(t, v) == v # {} /\ v \subseteq IdsOf(t) /\ \A s \in v : ParentOf(t)[s] \in v

(* The stack q is the way from a start to where the search is: steps to be *)
(* left, each the child of the next, and perhaps one to be entered on top. *)
StepsIn(t)    == [id : IdsOf(t), phase : {"enter", "exit"}]
LeavesAt(q)   == {i \in 1..Len(q) : q[i].phase = "exit"}
OnStack(q)    == {q[i].id : i \in 1..Len(q)}
ToBeLeft(q)   == {q[i].id : i \in LeavesAt(q)}

StackOk(t, q, visiting, visited) ==
  /\ q \in Seq(StepsIn(t))
  /\ \A i \in 1..Len(q) : i < Len(q) => /\ q[i].phase = "exit"
                                        /\ q[i + 1].id = ParentOf(t)[q[i].id]
  /\ \A i, j \in LeavesAt(q) : q[i].id = q[j].id => i = j
  /\ visiting = ToBeLeft(q)
  /\ Len(q) \in LeavesAt(q) => ParentOf(t)[q[Len(q)].id] \in visited \cup {None}

(* Whoever was left stands under a root, no further than spans were left.  *)
VisitedOk(t, visiting, visited) ==
  /\ visited \subseteq IdsOf(t) /\ visiting \cap visited = {}
  /\ \A s \in visited : \E r \in RootsOf(t) :
       \E n \in 0..Cardinality(visited) : Climbs(t, s, r, n)

(* No start is lost.                                                       *)
StartsOk(t, starts, q, visited) ==
  /\ starts \subseteq Identified(t)
  /\ \A i \in Identified(t) \ starts : t.spans[i].id \in visited \cup OnStack(q)

WalkOk(t, w) ==
  /\ DOMAIN w = {"starts", "stack", "visiting", "visited", "cyclic"}
  /\ StackOk(t, w.stack, w.visiting, w.visited)
  /\ VisitedOk(t, w.visiting, w.visited)
  /\ StartsOk(t, w.starts, w.stack, w.visited)
  /\ w.cyclic \in BOOLEAN
  /\ w.cyclic => Closed(t, w.visiting)

SearchInv ==
  stage = "search" => /\ left # {} /\ Present(Trace) /\ Searched(Trace)
                      /\ WalkOk(Trace, walk)

Typed(w) ==
  /\ w.starts \subseteq Nat
  /\ w.visiting \cap w.visited = {} /\ w.visiting \cup w.visited \subseteq Ids
  /\ w.stack \in Seq([id : Ids, phase : {"enter", "exit"}])

(* What the search found, and the rows that rest on it.                    *)
Found(t, cyclic) == Present(t) /\ Searched(t) => (cyclic <=> ~ Rooted(t))

RowsFor(k, cyclic) ==
  IF Present(TopoOf(k))
  THEN Verdicts(TopoOf(k), suite.cases[k], suite.topology, Foreign(k), cyclic)
  ELSE [m \in FamilyI |-> m \in Unclaimed(Indexed)]

RowsInv ==
  /\ suite \in Suites
  /\ stage \in {"prepare", "pick", "search", "rows", "done"}
  /\ left \subseteq CaseIds
  /\ stage = "prepare" => rows = <<>>
  /\ index \in [Threads -> SUBSET CaseIds]
  /\ stage # "prepare" => index = ThreadIndex(suite)
  /\ stage = "rows" => /\ left # {} /\ walk.cyclic \in BOOLEAN
                       /\ Found(Trace, walk.cyclic)
  /\ DOMAIN rows \subseteq CaseIds
  /\ \A k \in DOMAIN rows : \E cyclic \in BOOLEAN :
       Found(TopoOf(k), cyclic) /\ rows[k] = RowsFor(k, cyclic)

Inv == RowsInv /\ SearchInv /\ Typed(walk)
-----------------------------------------------------------------------------
LessThanOnNat == {ss \in Nat \X Nat : ss[1] < ss[2]}

(* Every set of naturals has a least element.                              *)
LEMMA Least ==
  ASSUME NEW S \in SUBSET Nat, S # {}
  PROVE  \E x \in S : \A y \in S : x <= y
<1>1. LessThanOnNat = OpToRel(<, Nat)
  BY DEF LessThanOnNat, OpToRel
<1>2. IsWellFoundedOn(LessThanOnNat, Nat)
  BY <1>1, NatLessThanWellFounded
<1>3. PICK x \in S : \A y \in S : ~ (<<y, x>> \in LessThanOnNat)
  BY <1>2, WFMin
<1>4. ASSUME NEW y \in S PROVE x <= y
  <2>1. <<y, x>> \notin LessThanOnNat /\ y \in Nat /\ x \in Nat
    BY <1>3
  <2>2. ~ (y < x)
    BY <2>1 DEF LessThanOnNat
  <2> QED BY <2>1, <2>2
<1> QED BY <1>4

LEMMA MinIn ==
  ASSUME NEW S \in SUBSET Nat, S # {}
  PROVE  Min(S) \in S
BY Least DEF Min

(* The graph of the spans.                                                 *)
Spans(t) == t.spans \in Seq(Span)

LEMMA GraphTyped ==
  ASSUME NEW t, Spans(t)
  PROVE  /\ Identified(t) \subseteq 1..Len(t.spans) /\ Identified(t) \in SUBSET Nat
         /\ IdsOf(t) \subseteq Ids /\ None \notin IdsOf(t)
         /\ IsFiniteSet(IdsOf(t)) /\ Cardinality(IdsOf(t)) \in Nat
         /\ RootsOf(t) \subseteq IdsOf(t) /\ IsFiniteSet(RootsOf(t))
         /\ \A s \in IdsOf(t) : ParentOf(t)[s] \in IdsOf(t) \cup {None}
<1>1. /\ Identified(t) \subseteq 1..Len(t.spans) /\ Identified(t) \in SUBSET Nat
      /\ \A i \in DOMAIN t.spans : t.spans[i] \in Span
  BY DEF Spans, Identified
<1>2. IdsOf(t) \subseteq Ids /\ None \notin IdsOf(t)
  BY <1>1, SuitesAssumption DEF IdsOf, Identified, Span
<1>3. IsFiniteSet(IdsOf(t))
  <2> DEFINE f == [i \in Identified(t) |-> t.spans[i].id]
  <2>1. f \in Surjection(Identified(t), IdsOf(t))
    BY DEF IdsOf, Surjection
  <2>2. IsFiniteSet(1..Len(t.spans))
    BY FS_Interval DEF Spans
  <2>3. IsFiniteSet(Identified(t))
    BY <1>1, <2>2, FS_Subset
  <2> HIDE DEF f
  <2> QED BY <2>1, <2>3, FS_Surjection
<1>4. RootsOf(t) \subseteq IdsOf(t)
  BY DEF RootsOf
<1>5. \A s \in IdsOf(t) : ParentOf(t)[s] \in IdsOf(t) \cup {None}
  BY DEF ParentOf
<1> QED BY <1>1, <1>2, <1>3, <1>4, <1>5, FS_CardinalityType, FS_Subset

(* Chains of parents.                                                      *)
LEMMA ClimbRoot ==
  ASSUME NEW t, NEW s \in IdsOf(t) PROVE Climbs(t, s, s, 0)
<1> DEFINE chain == [i \in 0..0 |-> s]
<1>1. chain \in [0..0 -> IdsOf(t)] /\ chain[0] = s
  OBVIOUS
<1>2. \A i \in 0..(0 - 1) : chain[i + 1] = ParentOf(t)[chain[i]]
  OBVIOUS
<1> QED BY <1>1, <1>2 DEF Climbs

LEMMA ClimbStep ==
  ASSUME NEW t, NEW s \in IdsOf(t), NEW u \in IdsOf(t), ParentOf(t)[s] = u,
         NEW r, NEW n \in Nat, Climbs(t, u, r, n)
  PROVE  Climbs(t, s, r, n + 1)
<1>1. PICK old \in [0..n -> IdsOf(t)] :
        /\ old[0] = u /\ old[n] = r
        /\ \A i \in 0..(n - 1) : old[i + 1] = ParentOf(t)[old[i]]
  BY DEF Climbs
<1> DEFINE chain == [i \in 0..(n + 1) |-> IF i = 0 THEN s ELSE old[i - 1]]
<1>2. chain \in [0..(n + 1) -> IdsOf(t)]
  OBVIOUS
<1>3. chain[0] = s /\ chain[n + 1] = r /\ chain[1] = u
  BY <1>1
<1>4. ASSUME NEW i \in 0..(n + 1 - 1) PROVE chain[i + 1] = ParentOf(t)[chain[i]]
  <2>1. CASE i = 0
    BY <1>3, <2>1
  <2>2. CASE i # 0
    <3>1. i - 1 \in 0..(n - 1) /\ (i - 1) + 1 = i
      BY <2>2
    <3>2. chain[i + 1] = old[i] /\ chain[i] = old[i - 1]
      BY <2>2
    <3>3. old[(i - 1) + 1] = ParentOf(t)[old[i - 1]]
      BY <1>1, <3>1
    <3> QED BY <3>1, <3>2, <3>3
  <2> QED BY <2>1, <2>2
<1> HIDE DEF chain
<1> QED BY <1>2, <1>3, <1>4 DEF Climbs

LEMMA ClimbStays ==
  ASSUME NEW t, NEW v, Closed(t, v), NEW s \in v, NEW r, NEW n \in Nat, Climbs(t, s, r, n)
  PROVE  r \in v
<1>1. PICK chain \in [0..n -> IdsOf(t)] :
        /\ chain[0] = s /\ chain[n] = r
        /\ \A i \in 0..(n - 1) : chain[i + 1] = ParentOf(t)[chain[i]]
  BY DEF Climbs
<1> DEFINE out == {i \in 0..n : chain[i] \notin v}
<1>2. SUFFICES ASSUME out # {} PROVE FALSE
  BY <1>1
<1>9. out \in SUBSET Nat
  OBVIOUS
<1> HIDE DEF out
<1>3. PICK i \in out : \A j \in out : i <= j
  BY <1>2, <1>9, Least
<1> USE DEF out
<1>4. i # 0
  BY <1>1
<1>5. i - 1 \in 0..(n - 1) /\ i - 1 \notin out /\ (i - 1) + 1 = i
  BY <1>3, <1>4
<1>6. chain[i - 1] \in v
  BY <1>5
<1>7. chain[i] = ParentOf(t)[chain[i - 1]]
  BY <1>1, <1>5
<1> QED BY <1>6, <1>7 DEF Closed

(* A set that parents do not lead out of has no root above it.             *)
LEMMA ClosedUnrooted ==
  ASSUME NEW t, Spans(t), NEW v, Closed(t, v)
  PROVE  ~ Rooted(t)
<1>1. PICK s \in v : s \in IdsOf(t)
  BY DEF Closed
<1>2. SUFFICES ASSUME NEW r \in RootsOf(t), Above(t, r, s) PROVE FALSE
  BY <1>1 DEF Rooted
<1>3. PICK n \in 0..Cardinality(IdsOf(t)) : Climbs(t, s, r, n)
  BY <1>2 DEF Above
<1>4. r \in v
  BY <1>3, ClimbStays, GraphTyped
<1>5. ParentOf(t)[r] = None
  BY <1>2 DEF RootsOf
<1> QED BY <1>4, <1>5, GraphTyped DEF Closed

(* One tree is as much as: a root above everyone, and no second one.       *)
LEMMA RootAlone ==
  ASSUME NEW t, Spans(t), NEW r \in RootsOf(t), NEW q \in IdsOf(t), Above(t, q, r)
  PROVE  q = r
<1>1. PICK n \in 0..Cardinality(IdsOf(t)) : Climbs(t, r, q, n)
  BY DEF Above
<1>2. PICK chain \in [0..n -> IdsOf(t)] :
        /\ chain[0] = r /\ chain[n] = q
        /\ \A i \in 0..(n - 1) : chain[i + 1] = ParentOf(t)[chain[i]]
  BY <1>1 DEF Climbs
<1>3. n \in Nat
  BY GraphTyped
<1>4. CASE n = 0
  BY <1>2, <1>4
<1>5. CASE n # 0
  <2>1. chain[1] = ParentOf(t)[r] /\ chain[1] \in IdsOf(t)
    BY <1>2, <1>3, <1>5
  <2> QED BY <2>1, GraphTyped DEF RootsOf
<1> QED BY <1>4, <1>5

LEMMA OneTreeIs ==
  ASSUME NEW t, Spans(t), IdsOf(t) # {}
  PROVE  OneTree(t) <=> Rooted(t) /\ Cardinality(RootsOf(t)) <= 1
<1>1. ASSUME OneTree(t) PROVE Rooted(t) /\ Cardinality(RootsOf(t)) <= 1
  <2>1. PICK r \in RootsOf(t) : \A s \in IdsOf(t) : Above(t, r, s)
    BY <1>1 DEF OneTree
  <2>2. \A q \in RootsOf(t) : q = r
    BY <2>1, RootAlone, GraphTyped
  <2>3. RootsOf(t) = {r}
    BY <2>2
  <2>4. Cardinality(RootsOf(t)) = 1
    BY <2>3, FS_Singleton
  <2> QED BY <2>1, <2>4 DEF Rooted
<1>2. ASSUME Rooted(t), Cardinality(RootsOf(t)) <= 1 PROVE OneTree(t)
  <2>1. PICK s \in IdsOf(t) : TRUE
    OBVIOUS
  <2>2. PICK r \in RootsOf(t) : Above(t, r, s)
    BY <1>2, <2>1 DEF Rooted
  <2>3. IsFiniteSet(RootsOf(t)) /\ Cardinality(RootsOf(t)) \in Nat
    BY GraphTyped, FS_CardinalityType
  <2>4. Cardinality(RootsOf(t)) # 0
    BY <2>2, <2>3, FS_EmptySet
  <2>5. PICK x : RootsOf(t) = {x}
    BY <1>2, <2>3, <2>4, FS_Singleton
  <2> QED BY <1>2, <2>2, <2>5 DEF Rooted, OneTree
<1> QED BY <1>1, <1>2
-----------------------------------------------------------------------------
(* What a suite is.                                                        *)
LEMMA SuiteTyped ==
  ASSUME suite \in Suites
  PROVE  /\ CaseIds = 1..Len(suite.cases) /\ CaseIds \in SUBSET Nat
         /\ suite.work \subseteq CaseIds
         /\ \A k \in CaseIds :
              /\ Spans(TopoOf(k)) /\ (TopoOf(k).spans # <<>> => TopoOf(k).shell)
              /\ \A n \in DOMAIN TopoOf(k).counts : TopoOf(k).counts[n] \in Nat
              /\ TopoOf(k).thread \in Threads \cup {None}
              /\ TopoOf(k).root \in BOOLEAN
<1>1. suite.cases \in Seq(Range(suite.cases)) /\ suite.work \subseteq DOMAIN suite.cases
  BY SuitesAssumption
<1>2. CaseIds = 1..Len(suite.cases) /\ CaseIds \in SUBSET Nat
  BY <1>1 DEF CaseIds
<1>3. \A k \in CaseIds :
        /\ Spans(TopoOf(k)) /\ (TopoOf(k).spans # <<>> => TopoOf(k).shell)
        /\ \A n \in DOMAIN TopoOf(k).counts : TopoOf(k).counts[n] \in Nat
        /\ TopoOf(k).thread \in Threads \cup {None}
        /\ TopoOf(k).root \in BOOLEAN
  BY SuitesAssumption DEF CaseIds, TopoOf, Spans
<1> QED BY <1>1, <1>2, <1>3 DEF CaseIds

LEMMA AtIs ==
  ASSUME suite \in Suites, left \subseteq CaseIds, left # {}
  PROVE  At \in left /\ At \in CaseIds
BY SuiteTyped, MinIn DEF At

LEMMA TraceIs ==
  ASSUME suite \in Suites, left \subseteq CaseIds, left # {}
  PROVE  /\ Spans(Trace)
         /\ Identified(Trace) \subseteq 1..Len(Trace.spans) /\ Identified(Trace) \in SUBSET Nat
         /\ Here \subseteq Ids /\ None \notin Here
         /\ IsFiniteSet(Here) /\ Cardinality(Here) \in Nat
         /\ \A s \in Here : Up[s] \in Here \cup {None}
         /\ \A s \in Here : s \in RootsOf(Trace) <=> Up[s] = None
<1>1. Spans(Trace)
  BY AtIs, SuiteTyped DEF Trace
<1>2. \A s \in Here : s \in RootsOf(Trace) <=> Up[s] = None
  BY DEF RootsOf, Here, Up
<1> QED BY <1>1, <1>2, GraphTyped DEF Here, Up

(* The same suite and the same cases left: the same trace is searched.     *)
LEMMA SameTrace ==
  ASSUME UNCHANGED <<suite, left>>
  PROVE  At' = At /\ Trace' = Trace /\ Up' = Up /\ Here' = Here /\ CaseIds' = CaseIds
BY DEF At, Trace, Up, Here, CaseIds, TopoOf

(* Stacks.                                                                 *)
LEMMA Shorter ==
  ASSUME NEW S, NEW q \in Seq(S), q # <<>>
  PROVE  /\ Front(q) \in Seq(S) /\ Len(Front(q)) = Len(q) - 1
         /\ \A i \in 1..(Len(q) - 1) : Front(q)[i] = q[i]
         /\ Len(q) \in Nat \ {0}
<1>1. Len(q) \in Nat \ {0}
  OBVIOUS
<1>2. Front(q) = SubSeq(q, 1, Len(q) - 1)
  BY DEF Front
<1>3. Len(q) - 1 \in Nat /\ \A i \in 1..(Len(q) - 1) : q[i] \in S
  BY <1>1
<1> DEFINE n == Len(q) - 1
           f == SubSeq(q, 1, n)
<1>4. n \in Int /\ 1 \in Int /\ \A i \in 1..n : q[i] \in S
  BY <1>3
<1> HIDE DEF n
<1>5. /\ f \in Seq(S) /\ Len(f) = IF 1 <= n THEN n - 1 + 1 ELSE 0
      /\ \A i \in 1..(n - 1 + 1) : f[i] = q[1 + i - 1]
  BY <1>4, SubSeqProperties
<1> HIDE DEF f
<1>6. n \in Nat
  BY <1>3 DEF n
<1>7. Len(f) = n /\ \A i \in 1..n : f[i] = q[i]
  BY <1>5, <1>6
<1>8. Front(q) = f
  BY <1>2 DEF f, n
<1> QED BY <1>1, <1>5, <1>7, <1>8 DEF n

LEMMA Entered ==
  ASSUME NEW S, NEW q \in Seq(S), q # <<>>, NEW e \in S
  PROVE  LET p == Append(Front(q), e) \o <<>>
         IN  /\ p \in Seq(S) /\ Len(p) = Len(q) /\ p[Len(q)] = e
             /\ \A i \in 1..(Len(q) - 1) : p[i] = q[i]
<1> DEFINE f == Front(q)
<1>1. f \in Seq(S) /\ Len(f) = Len(q) - 1 /\ Len(q) \in Nat \ {0}
      /\ \A i \in 1..(Len(q) - 1) : f[i] = q[i]
  BY Shorter
<1> HIDE DEF f
<1>2. Append(f, e) \o <<>> = Append(f, e)
  BY <1>1
<1>3. /\ Append(f, e) \in Seq(S) /\ Len(Append(f, e)) = Len(q) /\ Append(f, e)[Len(q)] = e
      /\ \A i \in 1..(Len(q) - 1) : Append(f, e)[i] = q[i]
  BY <1>1
<1> QED BY <1>2, <1>3 DEF f

LEMMA EnteredAndUp ==
  ASSUME NEW S, NEW q \in Seq(S), q # <<>>, NEW e \in S, NEW u \in S
  PROVE  LET p == Append(Front(q), e) \o <<u>>
         IN  /\ p \in Seq(S) /\ Len(p) = Len(q) + 1 /\ p[Len(q)] = e /\ p[Len(q) + 1] = u
             /\ \A i \in 1..(Len(q) - 1) : p[i] = q[i]
<1> DEFINE f == Append(Front(q), e)
<1>1. f \in Seq(S) /\ Len(f) = Len(q) /\ Len(q) \in Nat \ {0} /\ f[Len(q)] = e
      /\ \A i \in 1..(Len(q) - 1) : f[i] = q[i]
  BY Shorter
<1> HIDE DEF f
<1>2. /\ f \o <<u>> \in Seq(S) /\ Len(f \o <<u>>) = Len(q) + 1
      /\ (f \o <<u>>)[Len(q) + 1] = u
      /\ \A i \in 1..Len(q) : (f \o <<u>>)[i] = f[i]
  BY <1>1
<1> QED BY <1>1, <1>2 DEF f
(* What is left of a stack without its top.                                *)
LEMMA Popped ==
  ASSUME NEW t, NEW q, NEW visiting, NEW visited, StackOk(t, q, visiting, visited),
         q # <<>>
  PROVE  LET f == Front(q)
             x == q[Len(q)].id
         IN  /\ Len(q) \in Nat \ {0} /\ x \in IdsOf(t)
             /\ f \in Seq(StepsIn(t)) /\ Len(f) = Len(q) - 1
             /\ \A i \in 1..Len(f) : f[i] = q[i]
             /\ LeavesAt(f) = 1..Len(f) /\ LeavesAt(f) = LeavesAt(q) \ {Len(q)}
             /\ OnStack(q) = OnStack(f) \cup {x}
             /\ \A i \in 1..Len(f) : i < Len(f) => f[i + 1].id = ParentOf(t)[f[i].id]
             /\ \A i, j \in LeavesAt(f) : f[i].id = f[j].id => i = j
             /\ f # <<>> => Len(f) \in 1..Len(f) /\ ParentOf(t)[f[Len(f)].id] = x
<1> DEFINE f == Front(q)
           n == Len(q)
           S == StepsIn(t)
<1>1. q \in Seq(S)
  BY DEF StackOk
<1> HIDE DEF S
<1>2. /\ f \in Seq(S) /\ Len(f) = n - 1 /\ n \in Nat \ {0}
      /\ \A i \in 1..(n - 1) : f[i] = q[i]
  BY <1>1, Shorter
<1> HIDE DEF f
<1>3. \A i \in 1..n : q[i] \in S
  BY <1>1
<1>4. q[n].id \in IdsOf(t)
  BY <1>2, <1>3 DEF S, StepsIn
<1>5. \A i \in 1..(n - 1) : q[i].phase = "exit" /\ q[i + 1].id = ParentOf(t)[q[i].id]
  <2>1. \A i \in 1..Len(q) : i < Len(q) => /\ q[i].phase = "exit"
                                           /\ q[i + 1].id = ParentOf(t)[q[i].id]
    BY DEF StackOk
  <2>2. \A i \in 1..(n - 1) : i \in 1..Len(q) /\ i < Len(q)
    BY <1>2
  <2> QED BY <2>1, <2>2
<1>6. LeavesAt(f) = 1..(n - 1) /\ LeavesAt(f) = LeavesAt(q) \ {n}
  BY <1>2, <1>5 DEF LeavesAt
<1>7. OnStack(q) = OnStack(f) \cup {q[n].id}
  BY <1>2 DEF OnStack
<1>8. \A i \in 1..(n - 1) : i < n - 1 => f[i + 1].id = ParentOf(t)[f[i].id]
  BY <1>2, <1>5
<1>9. \A i, j \in LeavesAt(f) : f[i].id = f[j].id => i = j
  <2>1. \A i, j \in LeavesAt(q) : q[i].id = q[j].id => i = j
    BY DEF StackOk
  <2> QED BY <2>1, <1>2, <1>6
<1>10. f # <<>> => Len(f) \in 1..Len(f) /\ ParentOf(t)[f[Len(f)].id] = q[n].id
  <2>1. ASSUME f # <<>> PROVE Len(f) \in 1..Len(f) /\ ParentOf(t)[f[Len(f)].id] = q[n].id
    <3>1. Len(f) \in 1..Len(f)
      BY <1>2, <2>1
    <3>2. n - 1 \in 1..(n - 1) /\ (n - 1) + 1 = n
      BY <1>2, <3>1
    <3> QED BY <1>2, <1>5, <3>1, <3>2
  <2> QED BY <2>1
<1> QED BY <1>2, <1>4, <1>6, <1>7, <1>8, <1>9, <1>10 DEF f, S

(* A span met again, when it was left already, only goes.                  *)
LEMMA MeetLeft ==
  ASSUME NEW t, Spans(t), NEW q, NEW visiting, NEW visited, NEW starts,
         StackOk(t, q, visiting, visited), VisitedOk(t, visiting, visited),
         StartsOk(t, starts, q, visited),
         q # <<>>, q[Len(q)].phase = "enter", q[Len(q)].id \in visited
  PROVE  StackOk(t, Front(q), visiting, visited) /\ StartsOk(t, starts, Front(q), visited)
<1> DEFINE f == Front(q)
           x == q[Len(q)].id
<1>1. /\ Len(q) \in Nat \ {0} /\ x \in IdsOf(t)
      /\ f \in Seq(StepsIn(t)) /\ Len(f) = Len(q) - 1
      /\ \A i \in 1..Len(f) : f[i] = q[i]
      /\ LeavesAt(f) = 1..Len(f) /\ LeavesAt(f) = LeavesAt(q) \ {Len(q)}
      /\ OnStack(q) = OnStack(f) \cup {x}
      /\ \A i \in 1..Len(f) : i < Len(f) => f[i + 1].id = ParentOf(t)[f[i].id]
      /\ \A i, j \in LeavesAt(f) : f[i].id = f[j].id => i = j
      /\ f # <<>> => Len(f) \in 1..Len(f) /\ ParentOf(t)[f[Len(f)].id] = x
  BY Popped
<1> HIDE DEF f
<1>2. Len(q) \notin LeavesAt(q)
  BY DEF LeavesAt
<1>3. LeavesAt(f) = LeavesAt(q)
  <2>1. LeavesAt(f) = LeavesAt(q) \ {Len(q)}
    BY <1>1
  <2> QED BY <1>2, <2>1
<1>4. ToBeLeft(f) = ToBeLeft(q)
  BY <1>1, <1>3 DEF ToBeLeft
<1>5. visiting = ToBeLeft(f)
  BY <1>4 DEF StackOk
<1>6. \A i \in 1..Len(f) : f[i].phase = "exit"
  BY <1>1 DEF LeavesAt
<1>7. ASSUME Len(f) \in LeavesAt(f) PROVE ParentOf(t)[f[Len(f)].id] \in visited \cup {None}
  <2>1. f # <<>>
    BY <1>1, <1>7
  <2> QED BY <1>1, <2>1
<1>8. StackOk(t, f, visiting, visited)
  BY <1>1, <1>5, <1>6, <1>7 DEF StackOk
<1>9. StartsOk(t, starts, f, visited)
  BY <1>1 DEF StartsOk
<1> QED BY <1>8, <1>9 DEF f

(* A span that is left has its parent left already, or is a root.          *)
LEMMA Leave ==
  ASSUME NEW t, Spans(t), NEW q, NEW visiting, NEW visited, NEW starts,
         StackOk(t, q, visiting, visited), VisitedOk(t, visiting, visited),
         StartsOk(t, starts, q, visited),
         q # <<>>, q[Len(q)].phase = "exit"
  PROVE  LET x == q[Len(q)].id IN
         /\ StackOk(t, Front(q), visiting \ {x}, visited \cup {x})
         /\ VisitedOk(t, visiting \ {x}, visited \cup {x})
         /\ StartsOk(t, starts, Front(q), visited \cup {x})
<1> DEFINE f == Front(q)
           x == q[Len(q)].id
<1>1. /\ Len(q) \in Nat \ {0} /\ x \in IdsOf(t)
      /\ f \in Seq(StepsIn(t)) /\ Len(f) = Len(q) - 1
      /\ \A i \in 1..Len(f) : f[i] = q[i]
      /\ LeavesAt(f) = 1..Len(f) /\ LeavesAt(f) = LeavesAt(q) \ {Len(q)}
      /\ OnStack(q) = OnStack(f) \cup {x}
      /\ \A i \in 1..Len(f) : i < Len(f) => f[i + 1].id = ParentOf(t)[f[i].id]
      /\ \A i, j \in LeavesAt(f) : f[i].id = f[j].id => i = j
      /\ f # <<>> => Len(f) \in 1..Len(f) /\ ParentOf(t)[f[Len(f)].id] = x
  BY Popped
<1> HIDE DEF f
<1>2. Len(q) \in LeavesAt(q)
  BY <1>1 DEF LeavesAt
<1>3. x \in visiting /\ x \notin visited
  BY <1>2 DEF StackOk, VisitedOk, ToBeLeft
<1>4. visiting \ {x} = ToBeLeft(f)
  <2>1. ToBeLeft(q) = ToBeLeft(f) \cup {x}
    BY <1>1, <1>2 DEF ToBeLeft
  <2>2. x \notin ToBeLeft(f)
    <3>1. SUFFICES ASSUME NEW i \in LeavesAt(f), f[i].id = x PROVE FALSE
      BY DEF ToBeLeft
    <3>2. i \in LeavesAt(q) /\ i # Len(q) /\ q[i].id = q[Len(q)].id
      BY <1>1, <3>1
    <3> QED BY <1>2, <3>2 DEF StackOk
  <2> QED BY <2>1, <2>2 DEF StackOk
<1>5. \A i \in 1..Len(f) : f[i].phase = "exit"
  BY <1>1 DEF LeavesAt
<1>6. ASSUME Len(f) \in LeavesAt(f)
      PROVE  ParentOf(t)[f[Len(f)].id] \in (visited \cup {x}) \cup {None}
  <2>1. f # <<>>
    BY <1>1, <1>6
  <2> QED BY <1>1, <2>1
<1>7. StackOk(t, f, visiting \ {x}, visited \cup {x})
  BY <1>1, <1>4, <1>5, <1>6 DEF StackOk
<1>8. StartsOk(t, starts, f, visited \cup {x})
  BY <1>1 DEF StartsOk
<1>9. VisitedOk(t, visiting \ {x}, visited \cup {x})
  <2>1. visited \subseteq IdsOf(t) /\ (visiting \ {x}) \cap (visited \cup {x}) = {}
    BY DEF VisitedOk
  <2>2. IsFiniteSet(visited) /\ Cardinality(visited) \in Nat
    BY <2>1, GraphTyped, FS_Subset, FS_CardinalityType
  <2>3. Cardinality(visited \cup {x}) = Cardinality(visited) + 1
    BY <1>3, <2>2, FS_AddElement
  <2>4. ASSUME NEW s \in visited
        PROVE  \E r \in RootsOf(t) : \E n \in 0..Cardinality(visited \cup {x}) : Climbs(t, s, r, n)
    <3>1. PICK r \in RootsOf(t) : \E n \in 0..Cardinality(visited) : Climbs(t, s, r, n)
      BY DEF VisitedOk
    <3>2. PICK n \in 0..Cardinality(visited) : Climbs(t, s, r, n)
      BY <3>1
    <3>3. n \in 0..Cardinality(visited \cup {x})
      BY <2>2, <2>3
    <3> QED BY <3>2, <3>3
  <2>5. \E r \in RootsOf(t) : \E n \in 0..Cardinality(visited \cup {x}) : Climbs(t, x, r, n)
    <3>1. ParentOf(t)[x] \in visited \cup {None}
      BY <1>2 DEF StackOk
    <3>2. CASE ParentOf(t)[x] = None
      <4>1. x \in RootsOf(t)
        BY <1>1, <3>2 DEF RootsOf
      <4>2. Climbs(t, x, x, 0)
        BY <1>1, ClimbRoot
      <4>3. 0 \in 0..Cardinality(visited \cup {x})
        BY <2>2, <2>3
      <4> QED BY <4>1, <4>2, <4>3
    <3>3. CASE ParentOf(t)[x] \in visited
      <4> DEFINE u == ParentOf(t)[x]
      <4>1. PICK r \in RootsOf(t) : \E n \in 0..Cardinality(visited) : Climbs(t, u, r, n)
        BY <3>3 DEF VisitedOk
      <4>2. PICK n \in 0..Cardinality(visited) : Climbs(t, u, r, n)
        BY <4>1
      <4>3. n \in Nat /\ n + 1 \in 0..Cardinality(visited \cup {x})
        BY <2>2, <2>3
      <4>4. u \in IdsOf(t)
        BY <2>1, <3>3
      <4>5. Climbs(t, x, r, n + 1)
        BY <1>1, <4>2, <4>3, <4>4, ClimbStep
      <4> QED BY <4>3, <4>5
    <3> QED BY <3>1, <3>2, <3>3
  <2>6. \A s \in visited \cup {x} :
          \E r \in RootsOf(t) : \E n \in 0..Cardinality(visited \cup {x}) : Climbs(t, s, r, n)
    BY <2>4, <2>5
  <2>7. visited \cup {x} \subseteq IdsOf(t)
    BY <1>1, <2>1
  <2> QED BY <2>1, <2>6, <2>7 DEF VisitedOk
<1> QED BY <1>7, <1>8, <1>9 DEF f
(* A span entered is on the way, and its parent is next.                   *)
LEMMA EnterOk ==
  ASSUME NEW t, Spans(t), NEW q, NEW visiting, NEW visited, NEW starts,
         StackOk(t, q, visiting, visited), VisitedOk(t, visiting, visited),
         StartsOk(t, starts, q, visited), q # <<>>, q[Len(q)].phase = "enter",
         q[Len(q)].id \notin visiting \cup visited
  PROVE  LET x == q[Len(q)].id
             u == ParentOf(t)[x]
             p == Append(Front(q), Step(x, "exit"))
                  \o (IF u = None THEN <<>> ELSE <<Step(u, "enter")>>)
         IN  /\ StackOk(t, p, visiting \cup {x}, visited)
             /\ VisitedOk(t, visiting \cup {x}, visited)
             /\ StartsOk(t, starts, p, visited)
<1> DEFINE x == q[Len(q)].id
           u == ParentOf(t)[x]
           S == StepsIn(t)
           e == Step(x, "exit")
           p == Append(Front(q), e) \o (IF u = None THEN <<>> ELSE <<Step(u, "enter")>>)
<1>1. x \in IdsOf(t)
  BY Popped
<1>2. u \in IdsOf(t) \cup {None}
  BY <1>1, GraphTyped
<1>3. q \in Seq(S)
  BY DEF StackOk
<1>4. e \in S /\ (u # None => Step(u, "enter") \in S)
  BY <1>1, <1>2 DEF Step, StepsIn
<1> HIDE DEF S, e
<1>5. /\ p \in Seq(S) /\ Len(p) = IF u = None THEN Len(q) ELSE Len(q) + 1
      /\ \A i \in 1..(Len(q) - 1) : p[i] = q[i]
      /\ p[Len(q)] = e
      /\ u # None => p[Len(q) + 1] = Step(u, "enter")
  <2>1. CASE u = None
    <3>1. p = Append(Front(q), e) \o <<>>
      BY <2>1
    <3> HIDE DEF p, u
    <3> QED BY <1>3, <1>4, <2>1, <3>1, Entered
  <2>2. CASE u # None
    <3> DEFINE v == Step(u, "enter")
    <3>1. p = Append(Front(q), e) \o <<v>>
      BY <2>2
    <3>2. v \in S
      BY <1>4, <2>2
    <3> HIDE DEF p, u, v
    <3>3. /\ p \in Seq(S) /\ Len(p) = Len(q) + 1 /\ p[Len(q)] = e /\ p[Len(q) + 1] = v
          /\ \A i \in 1..(Len(q) - 1) : p[i] = q[i]
      BY <1>3, <1>4, <3>1, <3>2, EnteredAndUp
    <3> QED BY <2>2, <3>3 DEF v
  <2> QED BY <2>1, <2>2
<1>6. p[Len(q)] = Step(x, "exit") /\ p \in Seq(StepsIn(t))
  BY <1>5 DEF e, S
<1>7. x = q[Len(q)].id /\ u = ParentOf(t)[x] /\ x \notin visiting \cup visited
  OBVIOUS
<1>8. q[Len(q)].phase = "enter"
  OBVIOUS
<1> DEFINE n == Len(q)
<1> HIDE DEF p, u, x
<1>9. n \in Nat \ {0} /\ x \in IdsOf(t)
  BY <1>1, Popped
<1>10. p[n].id = x /\ p[n].phase = "exit"
  BY <1>6 DEF Step
<1>11. u # None => p[n + 1].id = u /\ p[n + 1].phase = "enter"
  BY <1>5 DEF Step
<1>12. \A i \in 1..(n - 1) : q[i].phase = "exit" /\ q[i + 1].id = ParentOf(t)[q[i].id]
  <2>1. \A i \in 1..Len(q) : i < Len(q) => /\ q[i].phase = "exit"
                                           /\ q[i + 1].id = ParentOf(t)[q[i].id]
    BY DEF StackOk
  <2>2. \A i \in 1..(n - 1) : i \in 1..Len(q) /\ i < Len(q)
    BY <1>9
  <2> QED BY <2>1, <2>2
<1>13. \A i \in 1..n : p[i].id = q[i].id /\ p[i].phase = "exit"
  <2> TAKE i \in 1..n
  <2>1. CASE i = n
    BY <1>7, <1>10, <2>1
  <2>2. CASE i # n
    <3>1. i \in 1..(n - 1)
      BY <1>9, <2>2
    <3> QED BY <1>5, <1>12, <3>1
  <2> QED BY <2>1, <2>2
<1>14. LeavesAt(p) = 1..n
  <2>1. n \in 1..n /\ 1..Len(p) \subseteq 1..(n + 1) /\ 1..n \subseteq 1..Len(p)
    BY <1>5, <1>9
  <2>2. u # None => p[n + 1].phase # "exit"
    BY <1>11
  <2>3. ASSUME NEW i \in LeavesAt(p) PROVE i \in 1..n
    <3>1. i \in 1..Len(p) /\ p[i].phase = "exit"
      BY DEF LeavesAt
    <3>2. CASE u = None
      BY <1>5, <3>1, <3>2
    <3>3. CASE u # None
      <4>1. i # n + 1
        BY <2>2, <3>1, <3>3
      <4> QED BY <1>5, <1>9, <2>1, <3>1, <4>1
    <3> QED BY <3>2, <3>3
  <2>4. \A i \in 1..n : i \in LeavesAt(p)
    BY <1>13, <2>1 DEF LeavesAt
  <2> QED BY <2>3, <2>4
<1>15. LeavesAt(q) = 1..(n - 1)
  <2>1. n \notin LeavesAt(q)
    BY <1>8 DEF LeavesAt
  <2>2. \A i \in 1..n : i = n \/ i \in 1..(n - 1)
    BY <1>9
  <2>3. 1..(n - 1) \subseteq 1..n
    BY <1>9
  <2> QED BY <1>12, <2>1, <2>2, <2>3 DEF LeavesAt
<1>16. 1..n = (1..(n - 1)) \cup {n}
  BY <1>9
<1>17. visiting = {q[i].id : i \in 1..(n - 1)}
  BY <1>15 DEF StackOk, ToBeLeft
<1>18. ToBeLeft(p) = visiting \cup {x}
  <2>1. ToBeLeft(p) = {q[i].id : i \in 1..n}
    BY <1>13, <1>14 DEF ToBeLeft
  <2> QED BY <1>7, <1>16, <1>17, <2>1
<1>19. \A i, j \in LeavesAt(p) : p[i].id = p[j].id => i = j
  <2>1. \A i \in 1..(n - 1) : q[i].id # x
    <3>1. \A i \in 1..(n - 1) : q[i].id \in visiting
      BY <1>17
    <3> QED BY <1>7, <3>1
  <2>2. \A i, j \in 1..(n - 1) : q[i].id = q[j].id => i = j
    BY <1>15 DEF StackOk
  <2>3. \A i, j \in 1..n : q[i].id = q[j].id => i = j
    BY <1>7, <1>16, <2>1, <2>2
  <2> QED BY <1>7, <1>13, <1>14, <2>3
<1>20. \A i \in 1..Len(p) : i < Len(p) => /\ p[i].phase = "exit"
                                          /\ p[i + 1].id = ParentOf(t)[p[i].id]
  <2> TAKE i \in 1..Len(p)
  <2> HAVE i < Len(p)
  <2>1. i \in 1..n
    BY <1>5, <1>9
  <2>2. CASE i = n
    <3>1. u # None
      BY <1>5, <1>9, <2>2
    <3> QED BY <1>7, <1>10, <1>11, <2>2, <3>1
  <2>3. CASE i # n
    <3>1. i \in 1..(n - 1) /\ i + 1 \in 1..n
      BY <1>9, <2>1, <2>3
    <3>2. p[i + 1].id = q[i + 1].id /\ p[i].id = q[i].id /\ p[i].phase = "exit"
      BY <1>13, <2>1, <3>1
    <3> QED BY <1>12, <3>1, <3>2
  <2> QED BY <2>2, <2>3
<1>21. ASSUME Len(p) \in LeavesAt(p)
       PROVE  ParentOf(t)[p[Len(p)].id] \in visited \cup {None}
  <2>1. u = None
    BY <1>5, <1>9, <1>14, <1>21
  <2> QED BY <1>5, <1>7, <1>10, <2>1
<1>22. StackOk(t, p, visiting \cup {x}, visited)
  BY <1>6, <1>18, <1>19, <1>20, <1>21 DEF StackOk
<1>23. VisitedOk(t, visiting \cup {x}, visited)
  BY <1>7 DEF VisitedOk
<1>24. StartsOk(t, starts, p, visited)
  <2>1. 1..n \subseteq 1..Len(p)
    BY <1>5, <1>9
  <2>2. OnStack(q) \subseteq OnStack(p)
    BY <1>13, <2>1 DEF OnStack
  <2> QED BY <2>2 DEF StartsOk
<1>25. /\ StackOk(t, p, visiting \cup {x}, visited)
       /\ VisitedOk(t, visiting \cup {x}, visited)
       /\ StartsOk(t, starts, p, visited)
  BY <1>22, <1>23, <1>24
<1> QED BY <1>25 DEF p, e, u, x

(* A span met on the way to where it is met stands on a cycle.             *)
LEMMA MeetOpen ==
  ASSUME NEW t, Spans(t), NEW q, NEW visiting, NEW visited,
         StackOk(t, q, visiting, visited),
         q # <<>>, q[Len(q)].phase = "enter", q[Len(q)].id \in visiting
  PROVE  Closed(t, visiting)
<1> DEFINE n == Len(q)
<1>1. n \in Nat \ {0} /\ q \in Seq(StepsIn(t))
  BY Popped DEF StackOk
<1>2. \A i \in 1..n : q[i].id \in IdsOf(t)
  <2>1. \A i \in 1..n : q[i] \in StepsIn(t)
    BY <1>1
  <2> QED BY <2>1 DEF StepsIn
<1>3. visiting \subseteq IdsOf(t) /\ visiting # {}
  BY <1>2 DEF StackOk, ToBeLeft, LeavesAt
<1>4. ASSUME NEW s \in visiting PROVE ParentOf(t)[s] \in visiting
  <2>1. PICK i \in LeavesAt(q) : q[i].id = s
    BY DEF StackOk, ToBeLeft
  <2>2. i \in 1..n /\ i # n
    BY <2>1 DEF LeavesAt
  <2>3. i < n /\ i + 1 \in 1..n
    BY <1>1, <2>2
  <2>4. ParentOf(t)[s] = q[i + 1].id
    BY <2>1, <2>2, <2>3 DEF StackOk
  <2>5. CASE i + 1 = n
    BY <2>4, <2>5
  <2>6. CASE i + 1 # n
    <3>1. i + 1 < n
      BY <1>1, <2>3, <2>6
    <3>2. i + 1 \in LeavesAt(q)
      BY <2>3, <3>1 DEF StackOk, LeavesAt
    <3> QED BY <2>4, <3>2 DEF StackOk, ToBeLeft
  <2> QED BY <2>5, <2>6
<1> QED BY <1>3, <1>4 DEF Closed

(* The next span in their order is started from, unless it was left.       *)
LEMMA StartOk ==
  ASSUME NEW t, Spans(t), NEW visiting, NEW visited, NEW starts, NEW i \in starts,
         StackOk(t, <<>>, visiting, visited), VisitedOk(t, visiting, visited),
         StartsOk(t, starts, <<>>, visited)
  PROVE  LET s == t.spans[i].id
             p == IF s \in visited THEN <<>> ELSE <<Step(s, "enter")>>
         IN  StackOk(t, p, visiting, visited) /\ StartsOk(t, starts \ {i}, p, visited)
<1> DEFINE s == t.spans[i].id
           p == IF s \in visited THEN <<>> ELSE <<Step(s, "enter")>>
<1>1. s \in IdsOf(t)
  BY DEF StartsOk, IdsOf
<1>2. OnStack(<<>>) = {} /\ LeavesAt(<<>>) = {}
  BY DEF OnStack, LeavesAt
<1>3. visiting = {}
  BY <1>2 DEF StackOk, ToBeLeft
<1>4. CASE s \in visited
  <2>1. StartsOk(t, starts \ {i}, <<>>, visited)
    BY <1>4 DEF StartsOk
  <2> QED BY <1>4, <2>1
<1>5. CASE s \notin visited
  <2>1. p = <<Step(s, "enter")>> /\ Step(s, "enter") \in StepsIn(t)
    BY <1>1, <1>5 DEF Step, StepsIn
  <2> HIDE DEF p
  <2>2. p \in Seq(StepsIn(t)) /\ Len(p) = 1 /\ p[1].id = s /\ p[1].phase = "enter"
    BY <2>1 DEF Step
  <2>3. LeavesAt(p) = {}
    BY <2>2 DEF LeavesAt
  <2>4. s \in OnStack(p)
    BY <2>2 DEF OnStack
  <2>5. visiting = ToBeLeft(p)
    BY <1>3, <2>3 DEF ToBeLeft
  <2>6. StackOk(t, p, visiting, visited)
    BY <2>2, <2>3, <2>5 DEF StackOk
  <2>7. StartsOk(t, starts \ {i}, p, visited)
    BY <1>2, <2>4 DEF StartsOk
  <2> QED BY <2>6, <2>7 DEF p
<1> QED BY <1>4, <1>5

(* Nothing left to search: every span was left, so stands under a root.    *)
LEMMA AllLeft ==
  ASSUME NEW t, Spans(t), NEW visiting, NEW visited,
         VisitedOk(t, visiting, visited), StartsOk(t, {}, <<>>, visited)
  PROVE  Rooted(t)
<1>1. OnStack(<<>>) = {}
  BY DEF OnStack
<1>2. IdsOf(t) \subseteq visited
  BY <1>1 DEF StartsOk, IdsOf
<1>3. visited = IdsOf(t)
  BY <1>2 DEF VisitedOk
<1> QED BY <1>3 DEF VisitedOk, Rooted, Above

LEMMA FirstWalk ==
  ASSUME NEW t, Spans(t)
  PROVE  WalkOk(t, [NoWalk EXCEPT !.starts = Identified(t)])
<1> DEFINE w == [NoWalk EXCEPT !.starts = Identified(t)]
<1>1. /\ DOMAIN NoWalk = {"starts", "stack", "visiting", "visited", "cyclic"}
      /\ NoWalk.stack = <<>> /\ NoWalk.visiting = {} /\ NoWalk.visited = {}
  BY DEF NoWalk
<1>2. NoWalk.cyclic = FALSE
  BY DEF NoWalk
<1>3. /\ DOMAIN w = {"starts", "stack", "visiting", "visited", "cyclic"}
      /\ w.starts = Identified(t) /\ w.stack = <<>> /\ w.visiting = {} /\ w.visited = {}
  BY <1>1
<1>4. w.cyclic = NoWalk.cyclic
  BY <1>1
<1> HIDE DEF w
<1>5. w.cyclic = FALSE
  BY <1>2, <1>4
<1>6. LeavesAt(<<>>) = {}
  BY DEF LeavesAt
<1>7. StackOk(t, <<>>, {}, {})
  BY <1>6 DEF StackOk, ToBeLeft
<1>8. VisitedOk(t, {}, {}) /\ StartsOk(t, Identified(t), <<>>, {})
  BY DEF VisitedOk, StartsOk
<1> QED BY <1>3, <1>5, <1>7, <1>8 DEF WalkOk, w
-----------------------------------------------------------------------------
(* One step of the program at a time.                                      *)
LEMMA WalkTyped ==
  ASSUME NEW t, Spans(t), NEW w, WalkOk(t, w)
  PROVE  Typed(w)
<1> DEFINE q == w.stack
<1>1. w.starts \subseteq Nat
  BY GraphTyped DEF WalkOk, StartsOk
<1>2. IdsOf(t) \subseteq Ids
  BY GraphTyped
<1>3. q \in Seq(StepsIn(t)) /\ w.visiting = ToBeLeft(q)
  BY DEF WalkOk, StackOk
<1>4. w.visited \subseteq Ids /\ w.visiting \cap w.visited = {}
  BY <1>2 DEF WalkOk, VisitedOk
<1> HIDE DEF q
<1>5. \A i \in 1..Len(q) : q[i] \in StepsIn(t)
  BY <1>3
<1>6. \A i \in 1..Len(q) : q[i].id \in Ids
  BY <1>2, <1>5 DEF StepsIn
<1>7. w.visiting \subseteq Ids
  BY <1>3, <1>6 DEF ToBeLeft, LeavesAt
<1>8. StepsIn(t) \subseteq [id : Ids, phase : {"enter", "exit"}]
  BY <1>2 DEF StepsIn
<1>9. q \in Seq([id : Ids, phase : {"enter", "exit"}])
  <2> DEFINE A == StepsIn(t)
             B == [id : Ids, phase : {"enter", "exit"}]
  <2>1. q \in Seq(A) /\ A \subseteq B
    BY <1>3, <1>8
  <2> HIDE DEF A, B
  <2>2. q \in Seq(B)
    BY <2>1
  <2> QED BY <2>2 DEF B
<1> QED BY <1>1, <1>4, <1>7, <1>9 DEF Typed, q

LEMMA RowsKept ==
  ASSUME RowsInv, UNCHANGED <<suite, index, rows>>, left' \subseteq CaseIds,
         stage # "prepare", stage' \in {"pick", "search", "rows", "done"},
         stage' = "rows" => /\ left' # {} /\ walk'.cyclic \in BOOLEAN
                            /\ Found(Trace', walk'.cyclic)
  PROVE  RowsInv'
<1>1. CaseIds' = CaseIds /\ ThreadIndex(suite)' = ThreadIndex(suite)
  BY DEF CaseIds, ThreadIndex
<1>2. Indexed' = Indexed
  BY DEF Indexed
<1>3. \A k : TopoOf(k)' = TopoOf(k) /\ Foreign(k)' = Foreign(k)
  BY DEF TopoOf, Foreign
<1>4. \A k, cyclic : RowsFor(k, cyclic)' = RowsFor(k, cyclic)
  BY <1>2, <1>3 DEF RowsFor
<1>5. \A k, cyclic : Found(TopoOf(k), cyclic)' <=> Found(TopoOf(k), cyclic)
  BY <1>3 DEF Found
<1>6. \A k \in DOMAIN rows' : \E cyclic \in BOOLEAN :
        Found(TopoOf(k), cyclic)' /\ rows'[k] = RowsFor(k, cyclic)'
  BY <1>4, <1>5 DEF RowsInv
<1>7. stage' = "rows" => (left # {} /\ walk.cyclic \in BOOLEAN /\ Found(Trace, walk.cyclic))'
  OBVIOUS
<1> QED BY <1>1, <1>6, <1>7 DEF RowsInv

LEMMA Searches ==
  ASSUME Inv, stage = "search"
  PROVE  /\ suite \in Suites /\ left \subseteq CaseIds /\ left # {}
         /\ Spans(Trace) /\ Present(Trace) /\ Searched(Trace) /\ WalkOk(Trace, walk)
BY TraceIs DEF Inv, RowsInv, SearchInv

LEMMA SearchesOn ==
  ASSUME Inv, stage = "search", UNCHANGED <<suite, stage, index, left, rows>>,
         WalkOk(Trace, walk')
  PROVE  Inv'
<1>1. Trace' = Trace
  BY SameTrace
<1>2. RowsInv'
  BY RowsKept DEF Inv, RowsInv
<1>3. WalkOk(Trace, walk)' /\ Present(Trace)' /\ Searched(Trace)' /\ left' # {}
  BY <1>1, Searches DEF WalkOk, Present, Searched
<1>4. Typed(walk')
  BY Searches, WalkTyped
<1>5. Typed(walk)'
  BY <1>4 DEF Typed
<1> QED BY <1>2, <1>3, <1>5 DEF Inv, SearchInv

LEMMA PrepareKeeps == Inv /\ Prepare => Inv'
<1> SUFFICES ASSUME Inv, Prepare PROVE Inv'
  OBVIOUS
<1>1. suite \in Suites /\ rows = <<>>
  BY DEF Inv, RowsInv, Prepare
<1>2. CaseIds' = CaseIds /\ ThreadIndex(suite)' = ThreadIndex(suite) /\ suite.work \subseteq CaseIds
  BY <1>1, SuiteTyped DEF Prepare, CaseIds, ThreadIndex
<1>3. DOMAIN rows' = {} /\ index' \in [Threads -> SUBSET CaseIds]
  BY <1>1 DEF Prepare, ThreadIndex, CaseIds
<1>4. RowsInv'
  BY <1>1, <1>2, <1>3 DEF Prepare, RowsInv
<1>5. SearchInv' /\ Typed(walk)'
  BY DEF Prepare, SearchInv, Inv, Typed
<1> QED BY <1>4, <1>5 DEF Inv

LEMMA PickKeeps == Inv /\ Pick => Inv'
<1> SUFFICES ASSUME Inv, Pick PROVE Inv'
  OBVIOUS
<1>1. /\ suite \in Suites /\ left \subseteq CaseIds /\ left # {} /\ stage = "pick"
      /\ UNCHANGED <<suite, index, left, rows>>
  BY DEF Inv, RowsInv, Pick
<1>2. Spans(Trace) /\ Trace' = Trace /\ CaseIds' = CaseIds
  BY <1>1, TraceIs, SameTrace
<1>3. CASE Present(Trace) /\ Searched(Trace)
  <2>1. walk' = [NoWalk EXCEPT !.starts = Identified(Trace)] /\ stage' = "search"
    BY <1>3 DEF Pick, Trace
  <2>2. WalkOk(Trace, walk')
    BY <1>2, <2>1, FirstWalk
  <2>3. Typed(walk')
    BY <1>2, <2>2, WalkTyped
  <2>4. RowsInv'
    BY <1>1, <2>1, RowsKept DEF Inv
  <2>5. WalkOk(Trace, walk)' /\ Present(Trace)' /\ Searched(Trace)' /\ left' # {}
    BY <1>1, <1>2, <1>3, <2>2 DEF WalkOk, Present, Searched
  <2> QED BY <2>3, <2>4, <2>5 DEF Inv, SearchInv, Typed
<1>4. CASE ~ (Present(Trace) /\ Searched(Trace))
  <2>1. walk' = NoWalk /\ stage' = "rows"
    BY <1>4 DEF Pick, Trace
  <2>2. walk'.cyclic = FALSE
    BY <2>1 DEF NoWalk
  <2>3. Found(Trace', walk'.cyclic)
    BY <1>2, <1>4 DEF Found
  <2>4. RowsInv'
    BY <1>1, <2>1, <2>2, <2>3, RowsKept DEF Inv
  <2>5. Typed(walk')
    <3>1. walk'.starts = {} /\ walk'.stack = <<>> /\ walk'.visiting = {} /\ walk'.visited = {}
      BY <2>1 DEF NoWalk
    <3> QED BY <3>1 DEF Typed
  <2> QED BY <2>1, <2>4, <2>5 DEF Inv, SearchInv, Typed
<1> QED BY <1>3, <1>4

LEMMA StartKeeps == Inv /\ Start => Inv'
<1> SUFFICES ASSUME Inv, Start PROVE Inv'
  OBVIOUS
<1>1. /\ stage = "search" /\ ~ walk.cyclic /\ walk.stack = <<>> /\ walk.starts # {}
      /\ UNCHANGED <<suite, stage, index, left, rows>>
  BY DEF Start, Searching
<1>2. Spans(Trace) /\ WalkOk(Trace, walk)
  BY <1>1, Searches
<1>3. PICK i : i = Min(walk.starts)
  OBVIOUS
<1>4. i \in walk.starts
  BY <1>1, <1>2, <1>3, GraphTyped, MinIn DEF WalkOk, StartsOk
<1> DEFINE t == Trace
           s == t.spans[i].id
           p == IF s \in walk.visited THEN <<>> ELSE <<Step(s, "enter")>>
<1>5. walk' = [walk EXCEPT !.starts = walk.starts \ {i}, !.stack = p]
  BY <1>3 DEF Start, Trace
<1>6. StackOk(t, <<>>, walk.visiting, walk.visited) /\ VisitedOk(t, walk.visiting, walk.visited)
      /\ StartsOk(t, walk.starts, <<>>, walk.visited)
  BY <1>1, <1>2 DEF WalkOk
<1>7. StackOk(t, p, walk.visiting, walk.visited)
      /\ StartsOk(t, walk.starts \ {i}, p, walk.visited)
  BY <1>2, <1>4, <1>6, StartOk
<1> HIDE DEF p, t
<1>8. /\ DOMAIN walk' = DOMAIN walk /\ walk'.starts = walk.starts \ {i} /\ walk'.stack = p
      /\ walk'.visiting = walk.visiting /\ walk'.visited = walk.visited
      /\ walk'.cyclic = walk.cyclic
  BY <1>2, <1>5 DEF WalkOk
<1>9. WalkOk(t, walk')
  BY <1>1, <1>2, <1>6, <1>7, <1>8 DEF WalkOk
<1> QED BY <1>1, <1>9, SearchesOn DEF t

LEMMA EnterKeeps == Inv /\ Enter => Inv'
<1> SUFFICES ASSUME Inv, Enter PROVE Inv'
  OBVIOUS
<1> DEFINE t == Trace
           q == walk.stack
           x == q[Len(q)].id
           u == ParentOf(t)[x]
           p == Append(Front(q), Step(x, "exit"))
                  \o (IF u = None THEN <<>> ELSE <<Step(u, "enter")>>)
<1>1. /\ stage = "search" /\ ~ walk.cyclic /\ q # <<>> /\ q[Len(q)].phase = "enter"
      /\ x \notin walk.visiting \cup walk.visited
      /\ UNCHANGED <<suite, stage, index, left, rows>>
  BY DEF Enter, Searching, Top, Last
<1>2. Spans(t) /\ WalkOk(t, walk)
  BY <1>1, Searches
<1>3. walk' = [walk EXCEPT !.visiting = walk.visiting \cup {x}, !.stack = p]
  BY DEF Enter, Trace, Top, Rest, Last
<1>4. /\ StackOk(t, q, walk.visiting, walk.visited)
      /\ VisitedOk(t, walk.visiting, walk.visited)
      /\ StartsOk(t, walk.starts, q, walk.visited)
  BY <1>2 DEF WalkOk
<1>5. /\ StackOk(t, p, walk.visiting \cup {x}, walk.visited)
      /\ VisitedOk(t, walk.visiting \cup {x}, walk.visited)
      /\ StartsOk(t, walk.starts, p, walk.visited)
  BY <1>1, <1>2, <1>4, EnterOk
<1> HIDE DEF p, t, x
<1>6. /\ DOMAIN walk' = DOMAIN walk /\ walk'.starts = walk.starts /\ walk'.stack = p
      /\ walk'.visiting = walk.visiting \cup {x} /\ walk'.visited = walk.visited
      /\ walk'.cyclic = walk.cyclic
  BY <1>2, <1>3 DEF WalkOk
<1>7. WalkOk(t, walk')
  BY <1>1, <1>2, <1>5, <1>6 DEF WalkOk
<1> QED BY <1>1, <1>7, SearchesOn DEF t

LEMMA MeetAgainKeeps == Inv /\ MeetAgain => Inv'
<1> SUFFICES ASSUME Inv, MeetAgain PROVE Inv'
  OBVIOUS
<1> DEFINE t == Trace
           q == walk.stack
           x == q[Len(q)].id
<1>1. /\ stage = "search" /\ ~ walk.cyclic /\ q # <<>> /\ q[Len(q)].phase = "enter"
      /\ UNCHANGED <<suite, stage, index, left, rows>>
  BY DEF MeetAgain, Searching, Top, Last
<1>2. Spans(t) /\ WalkOk(t, walk)
  BY <1>1, Searches
<1>3. /\ StackOk(t, q, walk.visiting, walk.visited)
      /\ VisitedOk(t, walk.visiting, walk.visited)
      /\ StartsOk(t, walk.starts, q, walk.visited)
  BY <1>2 DEF WalkOk
<1>4. CASE x \in walk.visiting /\ walk' = [walk EXCEPT !.cyclic = TRUE]
  <2>1. Closed(t, walk.visiting)
    BY <1>1, <1>2, <1>3, <1>4, MeetOpen
  <2>2. PICK b : b = TRUE
    OBVIOUS
  <2>3. walk' = [walk EXCEPT !.cyclic = b]
    BY <1>4, <2>2, Zenon
  <2>4. /\ DOMAIN walk' = DOMAIN walk /\ walk'.starts = walk.starts
        /\ walk'.stack = walk.stack
        /\ walk'.visiting = walk.visiting /\ walk'.visited = walk.visited
        /\ walk'.cyclic = b
    BY <1>2, <2>3 DEF WalkOk
  <2>5. WalkOk(t, walk')
    BY <1>2, <1>3, <2>1, <2>2, <2>4 DEF WalkOk
  <2> QED BY <1>1, <2>5, SearchesOn
<1>5. CASE x \in walk.visited \ walk.visiting /\ walk' = [walk EXCEPT !.stack = Front(q)]
  <2>1. /\ StackOk(t, Front(q), walk.visiting, walk.visited)
        /\ StartsOk(t, walk.starts, Front(q), walk.visited)
    BY <1>1, <1>2, <1>3, <1>5, MeetLeft
  <2>2. /\ DOMAIN walk' = DOMAIN walk /\ walk'.starts = walk.starts
        /\ walk'.stack = Front(q)
        /\ walk'.visiting = walk.visiting /\ walk'.visited = walk.visited
        /\ walk'.cyclic = walk.cyclic
    BY <1>2, <1>5 DEF WalkOk
  <2>3. WalkOk(t, walk')
    BY <1>1, <1>2, <1>3, <2>1, <2>2 DEF WalkOk
  <2> QED BY <1>1, <2>3, SearchesOn
<1> QED BY <1>4, <1>5 DEF MeetAgain, Top, Rest, Last

LEMMA ExitKeeps == Inv /\ Exit => Inv'
<1> SUFFICES ASSUME Inv, Exit PROVE Inv'
  OBVIOUS
<1> DEFINE t == Trace
           q == walk.stack
           x == q[Len(q)].id
<1>1. /\ stage = "search" /\ ~ walk.cyclic /\ q # <<>> /\ q[Len(q)].phase = "exit"
      /\ UNCHANGED <<suite, stage, index, left, rows>>
  BY DEF Exit, Searching, Top, Last
<1>2. Spans(t) /\ WalkOk(t, walk)
  BY <1>1, Searches
<1>3. walk' = [walk EXCEPT !.visiting = walk.visiting \ {x},
                           !.visited = walk.visited \cup {x}, !.stack = Front(q)]
  BY DEF Exit, Top, Rest, Last
<1>4. /\ StackOk(t, q, walk.visiting, walk.visited)
      /\ VisitedOk(t, walk.visiting, walk.visited)
      /\ StartsOk(t, walk.starts, q, walk.visited)
  BY <1>2 DEF WalkOk
<1>5. /\ StackOk(t, Front(q), walk.visiting \ {x}, walk.visited \cup {x})
      /\ VisitedOk(t, walk.visiting \ {x}, walk.visited \cup {x})
      /\ StartsOk(t, walk.starts, Front(q), walk.visited \cup {x})
  BY <1>1, <1>2, <1>4, Leave
<1> HIDE DEF t, x
<1>6. /\ DOMAIN walk' = DOMAIN walk /\ walk'.starts = walk.starts /\ walk'.stack = Front(q)
      /\ walk'.visiting = walk.visiting \ {x} /\ walk'.visited = walk.visited \cup {x}
      /\ walk'.cyclic = walk.cyclic
  BY <1>2, <1>3 DEF WalkOk
<1>7. WalkOk(t, walk')
  BY <1>1, <1>2, <1>5, <1>6 DEF WalkOk
<1> QED BY <1>1, <1>7, SearchesOn DEF t

LEMMA EndSearchKeeps == Inv /\ EndSearch => Inv'
<1> SUFFICES ASSUME Inv, EndSearch PROVE Inv'
  OBVIOUS
<1>1. /\ stage = "search" /\ stage' = "rows" /\ UNCHANGED <<suite, index, left, walk, rows>>
      /\ walk.cyclic \/ (walk.stack = <<>> /\ walk.starts = {})
  BY DEF EndSearch
<1>2. Spans(Trace) /\ WalkOk(Trace, walk) /\ left \subseteq CaseIds /\ left # {}
  BY <1>1, Searches
<1>3. Trace' = Trace /\ CaseIds' = CaseIds
  BY <1>1, SameTrace
<1>4. walk.cyclic <=> ~ Rooted(Trace)
  <2>1. CASE walk.cyclic
    BY <1>2, <2>1, ClosedUnrooted DEF WalkOk
  <2>2. CASE ~ walk.cyclic
    <3>1. VisitedOk(Trace, walk.visiting, walk.visited) /\ StartsOk(Trace, {}, <<>>, walk.visited)
      BY <1>1, <1>2, <2>2 DEF WalkOk
    <3>2. Rooted(Trace)
      BY <1>2, <3>1, AllLeft
    <3> QED BY <2>2, <3>2
  <2> QED BY <2>1, <2>2
<1>5. Found(Trace', walk'.cyclic) /\ walk'.cyclic \in BOOLEAN
  <2>1. walk'.cyclic = walk.cyclic
    BY <1>1
  <2> QED BY <1>2, <1>3, <1>4, <2>1 DEF Found, WalkOk
<1>6. RowsInv'
  BY <1>1, <1>2, <1>3, <1>5, RowsKept DEF Inv
<1> QED BY <1>1, <1>6 DEF Inv, SearchInv, Typed

LEMMA ScoreKeeps == Inv /\ Score => Inv'
<1> SUFFICES ASSUME Inv, Score PROVE Inv'
  OBVIOUS
<1>1. /\ stage = "rows" /\ stage' = "pick" /\ UNCHANGED <<suite, index, walk>>
      /\ left' = left \ {At}
      /\ rows' = [k \in DOMAIN rows \cup {At} |-> IF k = At THEN RowsOf(At) ELSE rows[k]]
  BY DEF Score
<1>2. /\ suite \in Suites /\ left \subseteq CaseIds /\ left # {}
      /\ walk.cyclic \in BOOLEAN /\ Found(Trace, walk.cyclic)
      /\ index = ThreadIndex(suite) /\ DOMAIN rows \subseteq CaseIds
  BY <1>1 DEF Inv, RowsInv
<1>3. At \in CaseIds
  BY <1>2, AtIs
<1>4. CaseIds' = CaseIds /\ ThreadIndex(suite)' = ThreadIndex(suite)
  BY <1>1 DEF CaseIds, ThreadIndex
<1>5. \A k : TopoOf(k)' = TopoOf(k) /\ Foreign(k)' = Foreign(k)
  BY <1>1 DEF TopoOf, Foreign
<1>6. Indexed' = Indexed
  BY <1>1 DEF Indexed
<1>7. \A k, cyclic : RowsFor(k, cyclic)' = RowsFor(k, cyclic)
  BY <1>1, <1>5, <1>6 DEF RowsFor
<1>8. \A k, cyclic : Found(TopoOf(k), cyclic)' <=> Found(TopoOf(k), cyclic)
  BY <1>5 DEF Found
<1>9. RowsOf(At) = RowsFor(At, walk.cyclic)
  BY DEF RowsOf, RowsFor
<1>10. PICK a, r, c : a = At /\ r = RowsOf(At) /\ c = walk.cyclic
  OBVIOUS
<1>11. rows' = [k \in DOMAIN rows \cup {a} |-> IF k = a THEN r ELSE rows[k]]
  BY <1>1, <1>10
<1>12. DOMAIN rows' = DOMAIN rows \cup {a} /\ rows'[a] = r
       /\ \A k \in DOMAIN rows : k # a => rows'[k] = rows[k]
  BY <1>11
<1>13. ASSUME NEW k \in DOMAIN rows'
       PROVE  \E cyclic \in BOOLEAN : Found(TopoOf(k), cyclic)' /\ rows'[k] = RowsFor(k, cyclic)'
  <2>1. CASE k = a
    <3>1. rows'[k] = RowsFor(k, c)
      BY <1>9, <1>10, <1>12, <2>1
    <3>2. Found(TopoOf(k), c)
      BY <1>2, <1>10, <2>1 DEF Trace
    <3>3. c \in BOOLEAN
      BY <1>2, <1>10
    <3> QED BY <1>7, <1>8, <3>1, <3>2, <3>3
  <2>2. CASE k # a
    <3>1. k \in DOMAIN rows /\ rows'[k] = rows[k]
      BY <1>12, <2>2
    <3>2. PICK cyclic \in BOOLEAN : Found(TopoOf(k), cyclic) /\ rows[k] = RowsFor(k, cyclic)
      BY <3>1 DEF Inv, RowsInv
    <3> QED BY <1>7, <1>8, <3>1, <3>2
  <2> QED BY <2>1, <2>2
<1>14. DOMAIN rows' \subseteq CaseIds'
  BY <1>2, <1>3, <1>4, <1>10, <1>12
<1>15. suite' \in Suites /\ left' \subseteq CaseIds' /\ index' \in [Threads -> SUBSET CaseIds']
  BY <1>1, <1>2, <1>4 DEF Inv, RowsInv
<1>16. index' = ThreadIndex(suite)'
  BY <1>1, <1>2, <1>4
<1>17. RowsInv'
  BY <1>1, <1>13, <1>14, <1>15, <1>16 DEF RowsInv
<1> QED BY <1>1, <1>17 DEF Inv, SearchInv, Typed

LEMMA FinishKeeps == Inv /\ Finish => Inv'
<1> SUFFICES ASSUME Inv, Finish PROVE Inv'
  OBVIOUS
<1>1. /\ stage = "pick" /\ stage' = "done" /\ UNCHANGED <<suite, index, left, walk, rows>>
  BY DEF Finish
<1>2. left' \subseteq CaseIds
  BY <1>1 DEF Inv, RowsInv
<1>3. RowsInv'
  BY <1>1, <1>2, RowsKept DEF Inv
<1> QED BY <1>1, <1>3 DEF Inv, SearchInv, Typed

LEMMA StutterKeeps == Inv /\ UNCHANGED vars => Inv'
<1> SUFFICES ASSUME Inv, UNCHANGED vars PROVE Inv'
  OBVIOUS
<1>1. UNCHANGED <<suite, stage, index, left, walk, rows>>
  BY DEF vars
<1>2. Trace' = Trace /\ CaseIds' = CaseIds
  BY <1>1, SameTrace
<1>3. CASE stage = "prepare"
  <2>1. DOMAIN rows' = {}
    BY <1>1, <1>3 DEF Inv, RowsInv
  <2>2. RowsInv'
    BY <1>1, <1>2, <1>3, <2>1 DEF Inv, RowsInv
  <2> QED BY <1>1, <1>3, <2>2 DEF Inv, SearchInv, Typed
<1>4. CASE stage # "prepare"
  <2>1. left' \subseteq CaseIds /\ stage' \in {"pick", "search", "rows", "done"}
    BY <1>1, <1>4 DEF Inv, RowsInv
  <2>2. stage' = "rows" => left' # {} /\ walk'.cyclic \in BOOLEAN /\ Found(Trace', walk'.cyclic)
    BY <1>1, <1>2 DEF Inv, RowsInv
  <2>3. RowsInv'
    BY <1>1, <1>4, <2>1, <2>2, RowsKept DEF Inv
  <2>4. SearchInv'
    BY <1>1, <1>2 DEF Inv, SearchInv, WalkOk, Present, Searched
  <2> QED BY <1>1, <2>3, <2>4 DEF Inv, Typed
<1> QED BY <1>3, <1>4

LEMMA InitInv == Init => Inv
<1> SUFFICES ASSUME Init PROVE Inv
  OBVIOUS
<1>1. DOMAIN rows = {} /\ rows = <<>> /\ stage = "prepare" /\ left = {} /\ suite \in Suites
  BY DEF Init
<1>2. index \in [Threads -> SUBSET CaseIds]
  BY DEF Init
<1>3. RowsInv /\ SearchInv
  BY <1>1, <1>2 DEF RowsInv, SearchInv
<1>4. walk.starts = {} /\ walk.stack = <<>> /\ walk.visiting = {} /\ walk.visited = {}
  BY DEF Init, NoWalk
<1>5. Typed(walk)
  BY <1>4 DEF Typed
<1> QED BY <1>5, <1>3 DEF Inv

LEMMA SpecInv == Spec => []Inv
<1>1. Inv /\ [Next]_vars => Inv'
  BY PrepareKeeps, PickKeeps, StartKeeps, EnterKeeps, MeetAgainKeeps, ExitKeeps,
     EndSearchKeeps, ScoreKeeps, FinishKeeps, StutterKeeps DEF Next
<1> QED BY <1>1, InitInv, PTL DEF Spec
-----------------------------------------------------------------------------
(* The rows as they are read: the fields the properties speak of.          *)
LEMMA VerdictFields ==
  ASSUME NEW t, NEW c, NEW topology, NEW foreign, NEW cyclic
  PROVE  LET v == Verdicts(t, c, topology, foreign, cyclic) IN
         /\ v["span_tree_valid"] = TreeOk(t, cyclic)
         /\ v["span_parentage_valid"] = ParentageOk(t, cyclic)
         /\ v["no_cross_case_contamination"] = (foreign = {})
         /\ v["counter_span_consistent"] = (RegenAgrees(t) /\ LlmAgrees(t))
         /\ v["finalization_observed"] = FinalizationOk(t, c, topology)
         /\ v["lifecycle_complete"] = LegalTerminal(t.terminal)
         /\ v["required_spans_present"] = RequiredOk(t, c, topology)
         /\ v["thread_id_present"]
              = (ThreadClaimed(t, c) \/ (topology /\ c.bound) => t.thread # None)
         /\ v["trace_root_present"] = t.root
BY Zenon DEF Verdicts

LEMMA FieldsTyped ==
  ASSUME NEW a, NEW b, NEW c, NEW d, NEW e, NEW f, NEW g, NEW h,
         NEW i, NEW j, NEW k, NEW l, NEW m, NEW n, NEW o, NEW p,
         {a, b, c, d, e, f, g, h, i, j, k, l, m, n, o, p} \subseteq BOOLEAN
  PROVE  [attempt_order_valid |-> a, correlation_envelope_valid |-> b,
          counter_span_consistent |-> c, export_status_classified |-> d,
          finalization_observed |-> e, graph_observed_matches_declared |-> f,
          lifecycle_complete |-> g, no_cross_case_contamination |-> h,
          replay_lineage_valid |-> i, required_spans_present |-> j,
          span_order_valid |-> k, span_parentage_valid |-> l, span_tree_valid |-> m,
          thread_continuity |-> n, thread_id_present |-> o, trace_root_present |-> p]
           \in [FamilyI -> BOOLEAN]
BY DEF FamilyI

LEMMA VerdictsTyped ==
  ASSUME NEW t, t.root \in BOOLEAN, NEW s, NEW topology, NEW foreign, NEW cyclic
  PROVE  Verdicts(t, s, topology, foreign, cyclic) \in [FamilyI -> BOOLEAN]
<1> DEFINE a == AttemptsOk(t)
           b == CorrelationOk(t)
           c == RegenAgrees(t) /\ LlmAgrees(t)
           d == ExportOk(t)
           e == FinalizationOk(t, s, topology)
           f == GraphOk(t)
           g == LegalTerminal(t.terminal)
           h == foreign = {}
           i == t.replay # "partial"
           j == RequiredOk(t, s, topology)
           k == OrderOk(t)
           l == ParentageOk(t, cyclic)
           m == TreeOk(t, cyclic)
           n == ContinuityOk(t, topology)
           o == ThreadClaimed(t, s) \/ (topology /\ s.bound) => t.thread # None
           p == t.root
<1>1. a \in BOOLEAN /\ c \in BOOLEAN /\ d \in BOOLEAN
  BY Zenon DEF AttemptsOk, ExportOk
<1>2. b \in BOOLEAN
  BY DEF CorrelationOk
<1>3. e \in BOOLEAN /\ f \in BOOLEAN /\ h \in BOOLEAN
  BY Zenon DEF FinalizationOk, GraphOk
<1>4. g \in BOOLEAN
  BY DEF LegalTerminal
<1>5. i \in BOOLEAN /\ l \in BOOLEAN /\ o \in BOOLEAN /\ p \in BOOLEAN
  BY Zenon DEF ParentageOk
<1>6. j \in BOOLEAN
  BY Zenon DEF RequiredOk
<1>7. k \in BOOLEAN
  BY Zenon DEF OrderOk
<1>8. m \in BOOLEAN
  BY Zenon DEF TreeOk
<1>9. n \in BOOLEAN
  BY Zenon DEF ContinuityOk
<1>10. Verdicts(t, s, topology, foreign, cyclic)
        = [attempt_order_valid |-> a, correlation_envelope_valid |-> b,
           counter_span_consistent |-> c, export_status_classified |-> d,
           finalization_observed |-> e, graph_observed_matches_declared |-> f,
           lifecycle_complete |-> g, no_cross_case_contamination |-> h,
           replay_lineage_valid |-> i, required_spans_present |-> j,
           span_order_valid |-> k, span_parentage_valid |-> l, span_tree_valid |-> m,
           thread_continuity |-> n, thread_id_present |-> o, trace_root_present |-> p]
  BY Zenon DEF Verdicts
<1> HIDE DEF a, b, c, d, e, f, g, h, i, j, k, l, m, n, o, p
<1> QED BY <1>1, <1>2, <1>3, <1>4, <1>5, <1>6, <1>7, <1>8, <1>9, <1>10, FieldsTyped

(* The case of a row.                                                      *)
LEMMA Scored ==
  ASSUME Inv, NEW k \in DOMAIN rows
  PROVE  /\ k \in CaseIds /\ suite \in Suites /\ index = ThreadIndex(suite)
         /\ Spans(TopoOf(k)) /\ (TopoOf(k).spans # <<>> => TopoOf(k).shell)
         /\ \A n \in DOMAIN TopoOf(k).counts : TopoOf(k).counts[n] \in Nat
         /\ TopoOf(k).thread \in Threads \cup {None}
         /\ TopoOf(k).root \in BOOLEAN
         /\ \E cyclic \in BOOLEAN : Found(TopoOf(k), cyclic) /\ rows[k] = RowsFor(k, cyclic)
<1>1. /\ k \in CaseIds /\ suite \in Suites
      /\ \E cyclic \in BOOLEAN : Found(TopoOf(k), cyclic) /\ rows[k] = RowsFor(k, cyclic)
  BY DEF Inv, RowsInv
<1>2. stage # "prepare"
  <2>1. SUFFICES ASSUME rows = <<>> PROVE FALSE
    BY DEF Inv, RowsInv
  <2> QED BY <2>1
<1>3. index = ThreadIndex(suite)
  BY <1>2 DEF Inv, RowsInv
<1> QED BY <1>1, <1>3, SuiteTyped

(* A suite is always in a state its types allow: the index names cases of  *)
(* the suite, the search stays among the spans, and every case scored has  *)
(* a verdict for each of the sixteen metrics.                              *)
THEOREM SuiteTypes == Spec => []TypeOK
<1>1. Inv => TypeOK
  <2> SUFFICES ASSUME Inv PROVE TypeOK
    OBVIOUS
  <2>1. /\ stage \in {"prepare", "pick", "search", "rows", "done"} /\ left \subseteq CaseIds
        /\ DOMAIN rows \subseteq CaseIds /\ Typed(walk)
    BY DEF Inv, RowsInv
  <2>2. ASSUME NEW k \in DOMAIN rows PROVE rows[k] \in [FamilyI -> BOOLEAN]
    <3>1. PICK cyclic \in BOOLEAN : rows[k] = RowsFor(k, cyclic)
      BY Scored
    <3>2. CASE Present(TopoOf(k))
      <4>1. rows[k] = Verdicts(TopoOf(k), suite.cases[k], suite.topology, Foreign(k), cyclic)
        BY <3>1, <3>2 DEF RowsFor
      <4>2. TopoOf(k).root \in BOOLEAN
        BY Scored
      <4> QED BY <4>1, <4>2, VerdictsTyped
    <3>3. CASE ~ Present(TopoOf(k))
      <4>1. rows[k] = [m \in FamilyI |-> m \in Unclaimed(Indexed)]
        BY <3>1, <3>3 DEF RowsFor
      <4> QED BY <4>1
    <3> QED BY <3>2, <3>3
  <2>3. index \in [Threads -> SUBSET CaseIds]
    BY DEF Inv, RowsInv
  <2> QED BY <2>1, <2>2, <2>3 DEF TypeOK, Typed
<1> QED BY <1>1, SpecInv, PTL

(* Spans with ids pass as a tree exactly when they are one: the search,    *)
(* which follows parents depth first from wherever it starts, agrees with  *)
(* the definition by chains, for every graph of any size.                  *)
THEOREM SearchTellsTrees == Spec => []TreeSound
<1>1. Inv => TreeSound
  <2> SUFFICES ASSUME Inv, NEW k \in DOMAIN rows, HasIds(TopoOf(k))
               PROVE  LET t == TopoOf(k) IN
                      (rows[k]["span_tree_valid"] /\ rows[k]["span_parentage_valid"])
                        <=> /\ ~ DuplicateIds(t) /\ ~ SelfParent(t) /\ ~ NameTwice(t)
                            /\ DanglingParents(t) = {} /\ OneTree(t)
    BY DEF TreeSound
  <2> DEFINE t == TopoOf(k)
  <2>1. PICK cyclic \in BOOLEAN : Found(t, cyclic) /\ rows[k] = RowsFor(k, cyclic)
    BY Scored
  <2>2. Spans(t) /\ (t.spans # <<>> => t.shell)
    BY Scored
  <2>3. PICK i \in DOMAIN t.spans : t.spans[i].id # None \/ t.spans[i].parent # None
    BY DEF HasIds
  <2>4. Present(t)
    BY <2>2, <2>3 DEF Present
  <2>5. rows[k] = Verdicts(t, suite.cases[k], suite.topology, Foreign(k), cyclic)
    BY <2>1, <2>4 DEF RowsFor
  <2>6. /\ rows[k]["span_tree_valid"] = TreeOk(t, cyclic)
        /\ rows[k]["span_parentage_valid"] = ParentageOk(t, cyclic)
    BY <2>5, VerdictFields
  <2>7. /\ TreeOk(t, cyclic) <=> /\ Searched(t) /\ ~ cyclic /\ Cardinality(RootsOf(t)) <= 1
                                 /\ DanglingParents(t) # {} \/ ~ NameTwice(t)
        /\ ParentageOk(t, cyclic) <=> Searched(t) /\ ~ cyclic /\ DanglingParents(t) = {}
    BY DEF TreeOk, ParentageOk
  <2>8. Searched(t) <=> ~ DuplicateIds(t) /\ ~ SelfParent(t)
    BY DEF Searched
  <2>9. Searched(t) => (cyclic <=> ~ Rooted(t))
    BY <2>1, <2>4 DEF Found
  <2>10. CASE IdsOf(t) = {}
    <3>1. t.spans[i].id = None
      BY <2>3, <2>10 DEF IdsOf, Identified
    <3>2. t.spans[i].parent \in DanglingParents(t)
      BY <2>3, <2>10, <3>1 DEF DanglingParents
    <3> QED BY <2>6, <2>7, <3>2
  <2>11. CASE IdsOf(t) # {}
    <3>1. OneTree(t) <=> Rooted(t) /\ Cardinality(RootsOf(t)) <= 1
      BY <2>2, <2>11, OneTreeIs
    <3> QED BY <2>6, <2>7, <2>8, <2>9, <3>1
  <2> QED BY <2>10, <2>11
<1> QED BY <1>1, SpecInv, PTL

(* Two cases under one thread are both caught, whichever of them is scored *)
(* and in whatever order, and no other case is.                            *)
THEOREM ThreadsAreNotShared == Spec => []SharedThreadCaught
<1>1. Inv => SharedThreadCaught
  <2> SUFFICES ASSUME Inv, NEW k \in DOMAIN rows, Present(TopoOf(k))
               PROVE  rows[k]["no_cross_case_contamination"] <=>
                        ~ \E j \in CaseIds \ {k} :
                            TopoOf(k).thread # None /\ TopoOf(j).thread = TopoOf(k).thread
    BY DEF SharedThreadCaught
  <2>1. PICK cyclic \in BOOLEAN : rows[k] = RowsFor(k, cyclic)
    BY Scored
  <2>2. rows[k] = Verdicts(TopoOf(k), suite.cases[k], suite.topology, Foreign(k), cyclic)
    BY <2>1 DEF RowsFor
  <2>3. rows[k]["no_cross_case_contamination"] = (Foreign(k) = {})
    BY <2>2, VerdictFields
  <2>4. index = ThreadIndex(suite) /\ TopoOf(k).thread \in Threads \cup {None}
    BY Scored
  <2>5. CASE TopoOf(k).thread = None
    BY <2>3, <2>5 DEF Foreign
  <2>6. CASE TopoOf(k).thread # None
    <3>1. Foreign(k) = index[TopoOf(k).thread] \ {k}
      BY <2>6 DEF Foreign
    <3>2. index[TopoOf(k).thread] = {j \in CaseIds : TopoOf(j).thread = TopoOf(k).thread}
      BY <2>4, <2>6 DEF ThreadIndex, CaseIds, TopoOf
    <3> QED BY <2>3, <2>6, <3>1, <3>2
  <2> QED BY <2>5, <2>6
<1> QED BY <1>1, SpecInv, PTL

(* What is observed was named.                                             *)
LEMMA SeenIsNamed ==
  ASSUME NEW t, NEW n, Observed(t, n) > 0
  PROVE  n \in ObservedNames(t)
<1>1. n \in NamesOf(t) \cup DOMAIN t.counts
  <2>1. CASE t.spans # <<>>
    <3> DEFINE S == {i \in DOMAIN t.spans : NameOf(t, i) = n}
    <3>1. Cardinality(S) > 0
      BY <2>1 DEF Observed
    <3>2. S # {}
      <4>1. Cardinality({}) = 0 /\ ~ (0 > 0)
        BY FS_EmptySet
      <4> HIDE DEF S
      <4> QED BY <3>1, <4>1
    <3> QED BY <3>2 DEF NamesOf
  <2>2. CASE t.spans = <<>>
    <3>1. n \notin DOMAIN t.counts => Observed(t, n) = 0
      BY <2>2 DEF Observed
    <3>2. ~ (0 > 0)
      OBVIOUS
    <3> QED BY <3>1, <3>2
  <2> QED BY <2>1, <2>2
<1> QED BY <1>1 DEF ObservedNames

(* Golden, where topology is asked for, stands on a trace that shows what  *)
(* the accept path does and what its counters claim.                       *)
THEOREM GoldenStandsOnATrace == Spec => []GoldenIsWitnessed
<1>1. Inv => GoldenIsWitnessed
  <2> SUFFICES ASSUME Inv, NEW k \in DOMAIN rows, suite.topology, Golden(k)
               PROVE  LET t == TopoOf(k) IN
                      /\ t.root /\ LegalTerminal(t.terminal)
                      /\ Observed(t, "accept_path_finalization") > 0
                      /\ t.thread # None
                      /\ t.required = None =>
                           /\ BoundAlwaysRequired \subseteq ObservedNames(t)
                           /\ Positive(t.counters.llm) => "llm_generation" \in ObservedNames(t)
                           /\ Positive(t.counters.fallback) => "fallback" \in ObservedNames(t)
                           /\ t.counters.regen # None =>
                                (Positive(t.counters.regen) <=>
                                   /\ "regeneration" \in ObservedNames(t)
                                   /\ ~ Denied(t, "regeneration"))
    BY DEF GoldenIsWitnessed
  <2> DEFINE t == TopoOf(k)
             c == suite.cases[k]
             asked == suite.topology
  <2>1. PICK cyclic \in BOOLEAN : rows[k] = RowsFor(k, cyclic)
    BY Scored
  <2>2. \A m \in TopologyBlock : rows[k][m]
    BY DEF Golden
  <2>3. c.bound /\ asked
    BY DEF Golden
  <2>4. /\ "trace_root_present" \in TopologyBlock /\ "lifecycle_complete" \in TopologyBlock
        /\ "finalization_observed" \in TopologyBlock /\ "thread_id_present" \in TopologyBlock
        /\ "required_spans_present" \in TopologyBlock
        /\ "counter_span_consistent" \in TopologyBlock
    BY DEF TopologyBlock, FamilyI
  <2>5. Present(t)
    <3>1. SUFFICES ASSUME ~ Present(t) PROVE FALSE
      OBVIOUS
    <3>2. rows[k] = [m \in FamilyI |-> m \in Unclaimed(Indexed)]
      BY <2>1, <3>1 DEF RowsFor
    <3>3. "trace_root_present" \in FamilyI
      BY DEF FamilyI
    <3>4. "trace_root_present" \notin Unclaimed(Indexed)
      BY DEF Unclaimed
    <3>5. rows[k]["trace_root_present"] = ("trace_root_present" \in Unclaimed(Indexed))
      BY <3>2, <3>3
    <3> QED BY <2>2, <2>4, <3>4, <3>5
  <2>6. rows[k] = Verdicts(t, c, asked, Foreign(k), cyclic)
    BY <2>1, <2>5 DEF RowsFor
  <2> HIDE DEF t, c, asked
  <2>7. /\ rows[k]["counter_span_consistent"] = (RegenAgrees(t) /\ LlmAgrees(t))
        /\ rows[k]["finalization_observed"] = FinalizationOk(t, c, asked)
        /\ rows[k]["lifecycle_complete"] = LegalTerminal(t.terminal)
        /\ rows[k]["required_spans_present"] = RequiredOk(t, c, asked)
        /\ rows[k]["thread_id_present"]
             = (ThreadClaimed(t, c) \/ (asked /\ c.bound) => t.thread # None)
        /\ rows[k]["trace_root_present"] = t.root
    BY <2>6, VerdictFields
  <2>8. /\ RegenAgrees(t) /\ FinalizationOk(t, c, asked) /\ LegalTerminal(t.terminal)
        /\ RequiredOk(t, c, asked) /\ t.root
        /\ ThreadClaimed(t, c) \/ (asked /\ c.bound) => t.thread # None
    BY <2>2, <2>4, <2>7
  <2>9. Observed(t, "accept_path_finalization") > 0
    BY <2>3, <2>8 DEF FinalizationOk
  <2>10. t.thread # None
    BY <2>3, <2>8
  <2>11. ASSUME t.required = None
         PROVE  /\ BoundAlwaysRequired \subseteq ObservedNames(t)
                /\ Positive(t.counters.llm) => "llm_generation" \in ObservedNames(t)
                /\ Positive(t.counters.fallback) => "fallback" \in ObservedNames(t)
                /\ t.counters.regen # None =>
                     (Positive(t.counters.regen) <=>
                        "regeneration" \in ObservedNames(t) /\ ~ Denied(t, "regeneration"))
    <3>1. RequiredSet(t, c) # None
      BY <2>3, <2>8 DEF RequiredOk
    <3>2. RequiredSet(t, c) = Claimed(t, c)
      BY <2>11, <3>1 DEF RequiredSet
    <3>3. \A n \in Claimed(t, c) : Observed(t, n) > 0
      BY <2>8, <3>1, <3>2 DEF RequiredOk
    <3>4. Claimed(t, c) \subseteq ObservedNames(t)
      BY <3>3, SeenIsNamed
    <3>5. BoundAlwaysRequired \subseteq Claimed(t, c)
      BY DEF Claimed
    <3>6. Positive(t.counters.llm) => "llm_generation" \in Claimed(t, c)
      BY DEF Claimed, GenerationClaimed
    <3>7. Positive(t.counters.fallback) => "fallback" \in Claimed(t, c)
      BY DEF Claimed, FallbackClaimed
    <3>8. Positive(t.counters.regen) => "regeneration" \in Claimed(t, c)
      BY DEF Claimed, RegenClaimed
    <3>9. ASSUME t.counters.regen # None
          PROVE  Positive(t.counters.regen) <=>
                   "regeneration" \in ObservedNames(t) /\ ~ Denied(t, "regeneration")
      <4> DEFINE r == "regeneration"
      <4>1. Positive(t.counters.regen) <=> SpansOf(t, r) > 0
        BY <2>8, <3>9 DEF RegenAgrees, Positive
      <4>2. \A n \in DOMAIN t.counts : t.counts[n] \in Nat
        BY Scored DEF t
      <4>3. r \in DOMAIN t.counts => (SpansOf(t, r) > 0 <=> ~ Denied(t, r))
        BY <4>2 DEF SpansOf, Denied
      <4>4. r \notin DOMAIN t.counts => SpansOf(t, r) = Observed(t, r) /\ ~ Denied(t, r)
        BY DEF SpansOf, Denied
      <4>5. r \in ObservedNames(t) => Observed(t, r) > 0
        BY DEF ObservedNames
      <4>6. Positive(t.counters.regen) => r \in ObservedNames(t)
        BY <3>4, <3>8
      <4> QED BY <4>1, <4>3, <4>4, <4>5, <4>6
    <3> QED BY <3>4, <3>5, <3>6, <3>7, <3>9
  <2> QED BY <2>8, <2>9, <2>10, <2>11 DEF t
<1> QED BY <1>1, SpecInv, PTL
=============================================================================
