------------------------- MODULE IntentArbitration --------------------------
(***************************************************************************)
(* The low-confidence menu (src/git_cg/intent_arbitrate.py,                *)
(* run_intent_arbitration) with every frame of its nested navigation, and  *)
(* the loop in main.py that calls it, re-ranks and calls it again.         *)
(*                                                                         *)
(* The operator may select, press Esc or lose the terminal at every        *)
(* prompt.  Scores matter only for the order and for whether the two best  *)
(* rows are close; labels, cards and notes are left out.  A preferred      *)
(* scope never narrows anything: every ranked row has the scope "core", so *)
(* a scope either matches all rows or none and none keeps the list.        *)
(***************************************************************************)
EXTENDS SemanticContract, SequencesExt, FiniteSets

CONSTANTS
  Settings,      \* [ranked, score, allowed]: rank passes and constraints
  TypeOf,        \* conventional type of each intent
  StreakLimit    \* cancel_streak_limit, 8 in the code

LowMargin == 120        \* LOW_CONFIDENCE_MARGIN, in tenths as IntentRanking has it
CandidateLimit == 5

Allows(allowed, id) == IsEligible([allowed |-> allowed], id)

ASSUME ArbitrationAssumption ==
  /\ StreakLimit \in Nat \ {0}
  /\ TypeOf \in [Intents -> Types]
  /\ \A s \in Settings :
       /\ s.ranked \in Seq(Intents) \ {<< >>}
       /\ s.score \in [Intents -> Int]
       /\ s.allowed \subseteq MatrixIds

(* rank_commit_intents sorts by score, and a row that the constraints rule *)
(* out has lost 100 points.  That does not put it below every row that is  *)
(* allowed, but with the rows of the shipped matrix never on top.          *)
ASSUME TopIsAllowed ==
  \A s \in Settings :
    /\ \A i, j \in DOMAIN s.ranked :
         i < j => s.score[s.ranked[i]] >= s.score[s.ranked[j]]
    /\ Allows(s.allowed, s.ranked[1])

VARIABLES
  setting,       \* the rank pass and the constraints
  ranking,       \* the ranking the menu was called with
  frame,
  eligible, top, runner,
  card,          \* lock_target, lock_path, lock_back
  draft,         \* guidance typed but not yet saved
  menu,          \* guidance and directives inside the call
  streak,        \* cancel_streak
  answer,        \* how the last prompt ended
  returned,      \* the ArbitrationResult of the call
  caller         \* main.py's steering and what it records

screen == <<eligible, top, runner>>
menuVars == <<setting, ranking, frame, screen, card, draft, menu, streak, answer,
              returned, caller>>

NoCard   == [target |-> NoIntent, path |-> "none", back |-> "MAIN"]
NoResult == [action |-> "none", id |-> NoIntent, path |-> "none",
             override |-> FALSE]

-----------------------------------------------------------------------------
(* The entries of a list that are among ids, in their order.               *)
Among(rows, ids) ==
  LET kept == {i \in DOMAIN rows : rows[i] \in ids}
      upTo(i) == Cardinality({j \in kept : j <= i})
  IN  [k \in 1..Cardinality(kept) |-> rows[CHOOSE i \in kept : upTo(i) = k]]

Filtered(ranked) == Among(ranked, {id \in Intents : Allows(setting.allowed, id)})

(* Rows of the preferred type, if it has any: narrow_eligible_by_directives *)
(* on eligible rows, ranked_intents_for_directives on ranked rows.          *)
Narrowed(rows, directive) ==
  LET typed == Among(rows, {id \in Intents : TypeOf[id] = directive})
  IN  IF directive \in Types /\ typed # << >> THEN typed ELSE rows

(* Option A is the ranker's top when it is on offer, else the first row.   *)
TopOf(rows, best) == IF Contains(rows, best) THEN best ELSE rows[1]

Another(rows, id) ==
  LET others == Among(rows, Intents \ {id})
  IN  IF others = << >> THEN NoIntent ELSE others[1]

RunnerUp == IF Len(ranking) > 1 THEN ranking[2] ELSE NoIntent

(* compute_ranking_confidence: a tie, a near tie of three and mixed groups *)
(* all need a margin below LowMargin, so the margin decides.               *)
Low(ranked) ==
  Len(ranked) > 1 /\ setting.score[ranked[1]] - setting.score[ranked[2]] < LowMargin

Catalogue == {id \in MatrixIds : Allows(setting.allowed, id)}

Returns(action, id, path, override) ==
  /\ returned' = [action |-> action, id |-> id, path |-> path,
                  override |-> override]
  /\ frame' = "RETURNED"

(* Infrastructure failures and thrashing settle on A without the user.     *)
ContinueTop == Returns("continue_top", top, "ni_top_rank", FALSE)

Goes(next) == frame' = next /\ UNCHANGED returned

MenuInit ==
  /\ setting \in Settings
  /\ Low(setting.ranked)
  /\ ranking = setting.ranked
  /\ frame = "OPEN"
  /\ eligible = << >> /\ top = NoIntent /\ runner = NoIntent
  /\ card = NoCard /\ draft = NoGuidance
  /\ menu = [guidance |-> NoGuidance, directive |-> NoType]
  /\ streak = 0 /\ answer = "selected"
  /\ returned = NoResult
  /\ caller = [guidance |-> NoGuidance, directive |-> NoType,
               locked |-> NoIntent, choice |-> "none", override |-> FALSE]

(***************************************************************************)
(* The entry of a call.  Without a terminal, or with nothing legal to      *)
(* offer, it returns the ranking's top at once.                            *)
(***************************************************************************)
OpenMenu ==
  /\ frame = "OPEN"
  /\ LET rows == Narrowed(Filtered(ranking), caller.directive)
         best == TopOf(rows, ranking[1])
     IN  \/ /\ Returns("continue_top", ranking[1], "ni_top_rank", FALSE)
            /\ UNCHANGED screen
         \/ /\ rows = << >>
            /\ Returns("continue_top", ranking[1], "cancel_continue_a", FALSE)
            /\ UNCHANGED screen
         \/ /\ rows # << >>
            /\ eligible' = rows
            /\ top' = best
            /\ runner' = IF Contains(rows, RunnerUp) THEN RunnerUp
                         ELSE Another(rows, best)
            /\ Goes("MAIN")
  /\ menu' = [guidance |-> caller.guidance, directive |-> caller.directive]
  /\ card' = NoCard /\ draft' = NoGuidance /\ streak' = 0
  /\ UNCHANGED <<setting, ranking, answer, caller>>

-----------------------------------------------------------------------------
(* MAIN and CANCEL_MENU share the count of cancels in a row. *)

ThrashUncounted(next) == streak' = 0 /\ Goes(next)
Thrash(next) ==
  /\ streak' = streak + 1
  /\ IF streak' >= StreakLimit THEN ContinueTop ELSE Goes(next)

MainCancelled ==
  /\ frame = "MAIN"
  /\ answer' = "cancelled"
  /\ Thrash("CANCEL_MENU")
  /\ UNCHANGED <<setting, ranking, screen, card, draft, menu, caller>>

MainFails ==
  /\ frame = "MAIN"
  /\ answer' = "failed"
  /\ streak' = 0
  /\ ContinueTop
  /\ UNCHANGED <<setting, ranking, screen, card, draft, menu, caller>>

(* Use A (or its shortcut "Lock best ranked"), or Use B. *)
MainLocks ==
  /\ frame = "MAIN"
  /\ \E option \in {<<top, "pick_a">>, <<runner, "pick_b">>} :
       /\ option[1] # NoIntent
       /\ card' = [target |-> option[1], path |-> option[2], back |-> "MAIN"]
  /\ answer' = "selected" /\ streak' = 0
  /\ Goes("LOCK")
  /\ UNCHANGED <<setting, ranking, screen, draft, menu, caller>>

MainOpens ==
  /\ frame = "MAIN"
  /\ \E next \in {"CANDIDATES", "GUIDANCE", "SPECIFY", "CANCEL_MENU"} :
       /\ next = "CANDIDATES" => Len(eligible) > 2
       /\ Goes(next)
  /\ answer' = "selected" /\ streak' = 0
  /\ UNCHANGED <<setting, ranking, screen, card, draft, menu, caller>>

CancelMenuBacks ==
  /\ frame = "CANCEL_MENU"
  /\ answer' \in {"cancelled", "selected"}
  /\ Thrash("MAIN")
  /\ UNCHANGED <<setting, ranking, screen, card, draft, menu, caller>>

CancelMenuFails ==
  /\ frame = "CANCEL_MENU"
  /\ answer' = "failed"
  /\ streak' = 0
  /\ ContinueTop
  /\ UNCHANGED <<setting, ranking, screen, card, draft, menu, caller>>

CancelMenuEnds ==
  /\ frame = "CANCEL_MENU"
  /\ answer' = "selected" /\ streak' = 0
  /\ \/ Returns("continue_top", top, "cancel_continue_a", FALSE)
     \/ Returns("aborted", NoIntent, "cancel_abort", FALSE)
  /\ UNCHANGED <<setting, ranking, screen, card, draft, menu, caller>>

-----------------------------------------------------------------------------
(* The lock card, reached from four places. *)

LockBacks ==
  /\ frame = "LOCK"
  /\ answer' \in {"cancelled", "selected"}
  /\ Goes(card.back)
  /\ card' = NoCard
  /\ UNCHANGED <<setting, ranking, screen, draft, menu, streak, caller>>

LockFails ==
  /\ frame = "LOCK"
  /\ answer' = "failed"
  /\ ContinueTop
  /\ UNCHANGED <<setting, ranking, screen, card, draft, menu, streak, caller>>

LockConfirmed ==
  /\ frame = "LOCK"
  /\ answer' = "selected"
  /\ Returns("locked", card.target, card.path, card.target # ranking[1])
  /\ UNCHANGED <<setting, ranking, screen, card, draft, menu, streak, caller>>

Offered == SubSeq(eligible, 1, IF Len(eligible) < CandidateLimit
                               THEN Len(eligible) ELSE CandidateLimit)

CandidatesBack ==
  /\ frame = "CANDIDATES"
  /\ answer' \in {"cancelled", "selected"}
  /\ Goes("MAIN")
  /\ UNCHANGED <<setting, ranking, screen, card, draft, menu, streak, caller>>

CandidatesFail ==
  /\ frame = "CANDIDATES"
  /\ answer' = "failed"
  /\ ContinueTop
  /\ UNCHANGED <<setting, ranking, screen, card, draft, menu, streak, caller>>

CandidatePicked ==
  /\ frame = "CANDIDATES"
  /\ \E i \in DOMAIN Offered :
       card' = [target |-> Offered[i], path |-> "pick_candidate",
                back |-> "CANDIDATES"]
  /\ answer' = "selected"
  /\ Goes("LOCK")
  /\ UNCHANGED <<setting, ranking, screen, draft, menu, streak, caller>>

SpecifyLeft ==
  /\ frame = "SPECIFY"
  /\ answer' \in {"cancelled", "failed", "selected"}
  /\ Goes("MAIN")
  /\ UNCHANGED <<setting, ranking, screen, card, draft, menu, streak, caller>>

SpecifyOpens ==
  /\ frame = "SPECIFY"
  /\ answer' = "selected"
  /\ \E next \in {"FUZZY", "BROWSE"} : Goes(next)
  /\ UNCHANGED <<setting, ranking, screen, card, draft, menu, streak, caller>>

(* gum filter went away between the hub and the search. *)
FuzzyUnavailable ==
  /\ frame = "FUZZY"
  /\ Goes("BROWSE")
  /\ UNCHANGED <<setting, ranking, screen, card, draft, menu, streak, answer,
                 caller>>

(* Esc, a failure, Back, or a value that is not a listed row. *)
CatalogueLeft ==
  /\ frame \in {"FUZZY", "BROWSE"}
  /\ answer' \in {"cancelled", "failed", "selected"}
  /\ Goes("SPECIFY")
  /\ UNCHANGED <<setting, ranking, screen, card, draft, menu, streak, caller>>

CataloguePicked ==
  /\ frame \in {"FUZZY", "BROWSE"}
  /\ \E id \in Catalogue :
       card' = [target |-> id, back |-> "SPECIFY",
                path |-> IF frame = "FUZZY" THEN "specify_fuzzy"
                         ELSE "specify_browse"]
  /\ answer' = "selected"
  /\ Goes("LOCK")
  /\ UNCHANGED <<setting, ranking, screen, draft, menu, streak, caller>>

-----------------------------------------------------------------------------
(* GUIDANCE: a text, then what to do with it. *)

GuidanceLeft ==
  /\ frame = "GUIDANCE"
  /\ answer' \in {"cancelled", "failed"}
  /\ Goes("MAIN")
  /\ UNCHANGED <<setting, ranking, screen, card, draft, menu, streak, caller>>

GuidanceDrafted ==
  /\ frame = "GUIDANCE"
  /\ draft' \in Guidances \cup {NoGuidance}
  /\ answer' = "selected"
  /\ Goes("SAVE")
  /\ UNCHANGED <<setting, ranking, screen, card, menu, streak, caller>>

SaveLeft ==
  /\ frame = "SAVE"
  /\ answer' \in {"cancelled", "failed", "selected"}
  /\ Goes("MAIN")
  /\ UNCHANGED <<setting, ranking, screen, card, draft, menu, streak, caller>>

(* An empty draft clears, whichever way it is saved; the rows on offer     *)
(* stay as the old guidance narrowed them.                                 *)
SaveClears ==
  /\ frame = "SAVE" /\ draft = NoGuidance
  /\ menu' = [guidance |-> NoGuidance, directive |-> NoType]
  /\ answer' = "selected"
  /\ Goes("MAIN")
  /\ UNCHANGED <<setting, ranking, screen, card, draft, streak, caller>>

Saved == [guidance |-> draft, directive |-> DirectiveOf[draft]]

(* Saved for the next generation; a mapped text narrows the rows again.    *)
SaveReturns ==
  /\ frame = "SAVE" /\ draft # NoGuidance
  /\ menu' = Saved
  /\ IF DirectiveOf[draft] = NoType THEN UNCHANGED screen
     ELSE /\ eligible' = Narrowed(Filtered(ranking), DirectiveOf[draft])
          /\ top' = TopOf(eligible', ranking[1])
          /\ runner' = Another(eligible', top')
  /\ answer' = "selected"
  /\ Goes("MAIN")
  /\ UNCHANGED <<setting, ranking, card, draft, streak, caller>>

SaveReRanksAlways ==
  /\ frame = "SAVE" /\ draft # NoGuidance
  /\ menu' = Saved
  /\ Returns("re_rank", NoIntent, "none", FALSE)
  /\ answer' = "selected"
  /\ UNCHANGED <<setting, ranking, screen, card, draft, streak, caller>>

(* A text that maps to no directive cannot re-rank; it is kept, announced  *)
(* as a no-op and acknowledged.                                            *)
SaveReRanks ==
  /\ frame = "SAVE" /\ draft # NoGuidance
  /\ menu' = Saved
  /\ IF DirectiveOf[draft] = NoType THEN Goes("MAIN")
     ELSE Returns("re_rank", NoIntent, "none", FALSE)
  /\ answer' = "selected"
  /\ UNCHANGED <<setting, ranking, screen, card, draft, streak, caller>>

-----------------------------------------------------------------------------
(* main.py after a call. *)

CallerAborts ==
  /\ frame = "RETURNED" /\ returned.action = "aborted"
  /\ caller' = [caller EXCEPT !.locked = NoIntent, !.override = FALSE,
                              !.choice = "cancel_abort"]
  /\ frame' = "DONE"
  /\ UNCHANGED <<setting, ranking, screen, card, draft, menu, streak, answer,
                 returned>>

(* The ranking is rebuilt from the same diff, narrowed for presentation,   *)
(* and the menu opens again unless the narrowed pair is no longer low.     *)
CallerReRanks ==
  /\ frame = "RETURNED" /\ returned.action = "re_rank"
  /\ ranking' = Narrowed(setting.ranked, menu.directive)
  /\ frame' = IF Low(ranking') THEN "OPEN" ELSE "DONE"
  /\ caller' = [guidance |-> menu.guidance, directive |-> menu.directive,
                locked |-> NoIntent,
                choice |-> IF Low(ranking') THEN caller.choice
                           ELSE "re_rank_auto_continue",
                override |-> FALSE]
  /\ UNCHANGED <<setting, screen, card, draft, menu, streak, answer, returned>>

CallerAccepts ==
  /\ frame = "RETURNED" /\ returned.action \in {"locked", "continue_top"}
  /\ caller' = [guidance |-> IF menu.guidance # NoGuidance THEN menu.guidance
                             ELSE caller.guidance,
                directive |-> IF menu.directive # NoType THEN menu.directive
                              ELSE caller.directive,
                locked |-> returned.id, choice |-> returned.path,
                override |-> returned.override]
  /\ frame' = "DONE"
  /\ UNCHANGED <<setting, ranking, screen, card, draft, menu, streak, answer,
                 returned>>

Done == frame = "DONE" /\ UNCHANGED menuVars

Prompted ==
  \/ MainCancelled \/ MainFails \/ MainLocks \/ MainOpens
  \/ CancelMenuBacks \/ CancelMenuFails \/ CancelMenuEnds
  \/ LockBacks \/ LockFails \/ LockConfirmed
  \/ CandidatesBack \/ CandidatesFail \/ CandidatePicked
  \/ SpecifyLeft \/ SpecifyOpens
  \/ FuzzyUnavailable \/ CatalogueLeft \/ CataloguePicked
  \/ GuidanceLeft \/ GuidanceDrafted
  \/ SaveLeft \/ SaveClears \/ SaveReturns \/ SaveReRanks

Step == OpenMenu \/ Prompted \/ CallerAborts \/ CallerReRanks \/ CallerAccepts

MenuNext == Step \/ Done

MenuSpec == MenuInit /\ [][MenuNext]_menuVars

(* Every prompt returns: gum answers, is dismissed, or fails or times out. *)
MenuFairSpec == MenuSpec /\ WF_menuVars(Step)
-----------------------------------------------------------------------------
(* Properties. *)

Frames == {"OPEN", "MAIN", "LOCK", "CANDIDATES", "GUIDANCE", "SAVE", "SPECIFY",
           "FUZZY", "BROWSE", "CANCEL_MENU", "RETURNED", "DONE"}
Paths  == {"none", "pick_a", "pick_b", "pick_candidate", "specify_fuzzy",
           "specify_browse", "ni_top_rank", "cancel_continue_a", "cancel_abort",
           "re_rank_auto_continue"}
Steering == [guidance : Guidances \cup {NoGuidance},
             directive : Directives]

(* The local variables of run_intent_arbitration and of its caller.        *)
MenuTypeOK ==
  /\ setting \in Settings
  /\ ranking \in Seq(Intents) \ {<< >>}
  /\ frame \in Frames
  /\ eligible \in Seq(Intents)
  /\ {top, runner} \subseteq Intents \cup {NoIntent}
  /\ card \in [target : Intents \cup {NoIntent}, path : Paths, back : Frames]
  /\ draft \in Guidances \cup {NoGuidance}
  /\ menu \in Steering
  /\ streak \in 0..StreakLimit
  /\ answer \in {"selected", "cancelled", "failed"}
  /\ returned \in [action : {"none", "locked", "continue_top", "re_rank", "aborted"},
                  id : Intents \cup {NoIntent}, path : Paths, override : BOOLEAN]
  /\ [guidance |-> caller.guidance, directive |-> caller.directive] \in Steering
  /\ caller.locked \in Intents \cup {NoIntent}
  /\ caller.choice \in Paths /\ caller.override \in BOOLEAN

(* The menu does to the caller's steering only what the generation loop    *)
(* relies on.                                                              *)
MenuPromise == INSTANCE ArbitrationPromise WITH
  open <- frame # "DONE", locked <- caller.locked,
  guidance <- caller.guidance, directive <- caller.directive
MenuKeepsPromise == MenuPromise!Spec

(* Somebody who only dismisses prompts, or a terminal that only fails,     *)
(* cannot keep the menu open: the count of cancels in a row closes it.     *)
UnattendedEnds == []<>(answer = "selected") \/ <>(frame = "DONE")

=============================================================================
