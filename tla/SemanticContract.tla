-------------------------- MODULE SemanticContract --------------------------
(***************************************************************************)
(* The Python-owned semantic contract of a commit (src/git_cg/             *)
(* regeneration.py): which SOP matrix row a generation cycle is bound to,  *)
(* what the path-class envelope does to it, and the lift that restores its *)
(* SemVer floor after presentation.  Pure operators, no state: the module  *)
(* CommitGeneration applies them once per cycle.                           *)
(*                                                                         *)
(* SemVer impacts are ranks: 0 NONE, 1 PATCH, 2 MINOR, 3 MAJOR             *)
(* (_CONTRACT_SEMVER_RANK).  A context is the record the generation loop   *)
(* keeps in GenerationContext: the ranked intents, the allowed intents     *)
(* ({} stands for "unrestricted", as the code's falsy list does) and the   *)
(* path-class constraints.                                                 *)
(***************************************************************************)
EXTENDS Integers, Sequences

CONSTANTS
  Intents,      \* intent identifiers a plan, a lock or a ranking may name
  Types,        \* conventional-commit types
  Matrix,       \* the SOP gitmoji matrix: a sequence of rows
  NoIntent,     \* "no lock", "no previous plan", "no row"
  NoType,       \* "no preferred_type directive", "no forced type"
  Unknown,      \* the intent of the contract when the matrix is empty
  Chore,        \* the fallback type
  Guidances,    \* regeneration guidance texts
  NoGuidance,
  DirectiveOf,  \* the directive _extract_directives finds in a guidance
  ScopeOnly     \* a directive that names a scope and no type

SemVer == 0..3
NoSemVer == -1

Rows == [id : Intents, type : Types, semver : SemVer]

Contexts == [ranked       : Seq(Intents),
             allowed      : SUBSET Intents,
             forceType    : Types \cup {NoType},
             forbidTypes  : SUBSET Types,
             forceSemVer  : SemVer \cup {NoSemVer},
             forbidSemVer : SUBSET SemVer,
             ceiling      : SemVer,
             priors       : SemVer,
             pathRole     : BOOLEAN,
             low          : BOOLEAN]

LockResolutions ==
  {"absent", "accepted", "rejected_not_allowed", "rejected_hard_veto"}

Contracts == [id : Intents \cup {Unknown}, type : Types, semver : SemVer,
              lock : LockResolutions]

ASSUME MatrixAssumption ==
  /\ Matrix \in Seq(Rows)
  /\ Chore \in Types
  /\ NoIntent \notin Intents
  /\ NoType \notin Types
  /\ Unknown \notin Intents
  /\ Unknown # NoIntent

Directives == Types \cup {NoType, ScopeOnly}

ASSUME GuidanceAssumption ==
  /\ NoGuidance \notin Guidances
  /\ ScopeOnly \notin Types
  /\ ScopeOnly # NoType
  /\ DirectiveOf \in [Guidances -> Directives]

MatrixIds == {Matrix[i].id : i \in DOMAIN Matrix}

(* next(r for r in matrix if ...): the first index of a non-empty set.     *)
First(S) == CHOOSE i \in S : \A j \in S : i <= j

RowsOf(id) == {i \in DOMAIN Matrix : Matrix[i].id = id}

IsEligible(ctx, id) == ctx.allowed = {} \/ id \in ctx.allowed

(***************************************************************************)
(* _try_lock: a lock is applied when it is allowed and names a matrix row; *)
(* otherwise it is classified, never silently replaced.                    *)
(***************************************************************************)
LockApplies(ctx, lock) ==
  lock # NoIntent /\ IsEligible(ctx, lock) /\ RowsOf(lock) # {}

ClassifyLock(ctx, lock) ==
  CASE lock = NoIntent            -> "absent"
    [] LockApplies(ctx, lock)     -> "accepted"
    [] ~ IsEligible(ctx, lock)    -> "rejected_not_allowed"
    [] OTHER                      -> "rejected_hard_veto"

(* _try_previous_plan *)
PreviousApplies(ctx, prev) ==
  prev # NoIntent /\ IsEligible(ctx, prev) /\ RowsOf(prev) # {}

(***************************************************************************)
(* _try_ranked_or_matrix: the best ranked intent that is allowed, of the   *)
(* wanted type and in the matrix; else the first such matrix row.  The     *)
(* result is a matrix index, or 0 when there is none.                      *)
(***************************************************************************)
OfType(i, type) == type = NoType \/ Matrix[i].type = type

RankedHits(ctx, type) ==
  {k \in DOMAIN ctx.ranked :
     /\ IsEligible(ctx, ctx.ranked[k])
     /\ RowsOf(ctx.ranked[k]) # {}
     /\ OfType(First(RowsOf(ctx.ranked[k])), type)}

MatrixHits(ctx, type) ==
  {i \in DOMAIN Matrix : IsEligible(ctx, Matrix[i].id) /\ OfType(i, type)}

RankedOrMatrix(ctx, type) ==
  IF RankedHits(ctx, type) # {}
  THEN First(RowsOf(ctx.ranked[First(RankedHits(ctx, type))]))
  ELSE IF MatrixHits(ctx, type) # {} THEN First(MatrixHits(ctx, type)) ELSE 0

(***************************************************************************)
(* The precedence of resolve_semantic_contract.  An eligible lock beats    *)
(* everything; a preferred type with a hit beats the previous plan; the    *)
(* previous plan beats the ranking; and when nothing is eligible the first *)
(* matrix row is taken.                                                    *)
(***************************************************************************)
ResolvedIndexPreferredFirst(ctx, lock, prev, preferred) ==
  IF preferred # NoType /\ RankedOrMatrix(ctx, preferred) # 0
  THEN RankedOrMatrix(ctx, preferred)
  ELSE IF LockApplies(ctx, lock) THEN First(RowsOf(lock))
  ELSE IF PreviousApplies(ctx, prev) THEN First(RowsOf(prev))
  ELSE IF RankedOrMatrix(ctx, NoType) # 0 THEN RankedOrMatrix(ctx, NoType)
  ELSE 1

ResolvedIndex(ctx, lock, prev, preferred) ==
  IF LockApplies(ctx, lock) THEN First(RowsOf(lock))
  ELSE IF preferred # NoType /\ RankedOrMatrix(ctx, preferred) # 0
  THEN RankedOrMatrix(ctx, preferred)
  ELSE IF PreviousApplies(ctx, prev) THEN First(RowsOf(prev))
  ELSE IF RankedOrMatrix(ctx, NoType) # 0 THEN RankedOrMatrix(ctx, NoType)
  ELSE 1

(* _apply_path_class_envelope *)
EnvelopeType(ctx, type) ==
  IF ctx.forceType # NoType THEN ctx.forceType
  ELSE IF type \in ctx.forbidTypes THEN Chore ELSE type

EnvelopeSemVerUnset(ctx, semver) ==
  IF semver \in ctx.forbidSemVer THEN 0 ELSE ctx.forceSemVer

EnvelopeSemVer(ctx, semver) ==
  IF ctx.forceSemVer # NoSemVer THEN ctx.forceSemVer
  ELSE IF semver \in ctx.forbidSemVer THEN 0 ELSE semver

(* The early return for an empty matrix comes before the envelope and      *)
(* before any lock is looked at.                                           *)
ResolveSemanticContract(ctx, lock, prev, preferred) ==
  IF Matrix = << >>
  THEN [id |-> Unknown, type |-> Chore, semver |-> 0, lock |-> "absent"]
  ELSE LET row == Matrix[ResolvedIndex(ctx, lock, prev, preferred)]
       IN  [id     |-> row.id,
            type   |-> EnvelopeType(ctx, row.type),
            semver |-> EnvelopeSemVer(ctx, row.semver),
            lock   |-> ClassifyLock(ctx, lock)]

(* The matrix's own impact for an intent, which gold compares a plan with. *)
MatrixSemVer(id) ==
  IF RowsOf(id) = {} THEN NoSemVer ELSE Matrix[First(RowsOf(id))].semver

(* lift_plan_to_contract_semver *)
LiftFromNone(semver, floor) == IF semver = 0 THEN floor ELSE semver
Lift(semver, floor) == IF semver < floor THEN floor ELSE semver

(* _clamp_semver *)
Clamp(semver, ceiling) == IF semver > ceiling THEN ceiling ELSE semver
=============================================================================
