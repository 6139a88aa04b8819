---------------------------- MODULE ReviewQueue ----------------------------
(***************************************************************************)
(* The human review queue (src/git_cg/eval/review_queue.py): a file per    *)
(* review, written whole by an atomic replace.                             *)
(*                                                                         *)
(* A command reads the file, checks the transition on what it read and     *)
(* writes its copy back.  Only claim does so under a lock, which claim     *)
(* alone respects, and which outlives a process that dies with it.         *)
(***************************************************************************)
EXTENDS Naturals, FiniteSets

CONSTANTS
  Reviews,     \* review ids
  Operators,   \* the processes that work on the queue, each of one reviewer
  Nothing      \* nothing

Statuses == {"pending", "in_review", "adjudicated", "dismissed"}
Outcomes == {"approve_promote", "reject", "needs_work", "dismiss"}
Transitions ==
  [s \in Statuses |->
     CASE s = "pending"   -> {"in_review", "dismissed"}
       [] s = "in_review" -> {"adjudicated", "dismissed", "pending"}
       [] OTHER           -> {}]

Item == [status : Statuses, disputed : BOOLEAN, claimed_by : Operators \cup {Nothing},
         outcome : Outcomes \cup {Nothing}]

(* Nothing is neither an operator nor a review.                          *)
ASSUME NothingAssumption == Nothing \notin Operators /\ Nothing \notin Item

Task == [at : {"read", "claim", "release", "write"}, review : Reviews,
         item : Item \cup {Nothing}]

VARIABLES
  item,        \* per review: its file
  lock,        \* per review: who holds its .claim file
  task,        \* per operator: the command under way
  claimants,   \* history: per review, who was told that it is now theirs
  approved     \* history: the reviews that were once adjudicated approve_promote

reviewVars == <<item, lock, task, claimants, approved>>

ReviewTypeOK ==
  /\ item \in [Reviews -> Item \cup {Nothing}]
  /\ lock \in [Reviews -> Operators \cup {Nothing}]
  /\ task \in [Operators -> Task \cup {Nothing}]
  /\ claimants \in [Reviews -> SUBSET Operators]
  /\ approved \subseteq Reviews

ReviewInit ==
  /\ item = [v \in Reviews |-> Nothing]
  /\ lock = [v \in Reviews |-> Nothing]
  /\ task = [o \in Operators |-> Nothing]
  /\ claimants = [v \in Reviews |-> {}]
  /\ approved = {}
-----------------------------------------------------------------------------
Doing(o, place) == task[o] # Nothing /\ task[o].at = place
Begin(o, place, v, copy) ==
  task' = [task EXCEPT ![o] = [at |-> place, review |-> v, item |-> copy]]
End(o) == task' = [task EXCEPT ![o] = Nothing]

(* enqueue: the id is new.                                                 *)
Enqueue(o) ==
  /\ task[o] = Nothing
  /\ \E v \in Reviews, disputed \in BOOLEAN :
       /\ item[v] = Nothing
       /\ item' = [item EXCEPT ![v] =
            [status |-> "pending", disputed |-> disputed, claimed_by |-> Nothing,
             outcome |-> Nothing]]
  /\ UNCHANGED <<lock, task, claimants, approved>>

(* claim: a lock file that must not exist yet, whether or not the review   *)
(* does; then the file is read, and written unless it is not pending.      *)
LockAny(v)  == TRUE   \* what it would be to open it without O_EXCL
LockFree(v) == lock[v] = Nothing

Claim(o) ==
  /\ task[o] = Nothing
  /\ \E v \in Reviews :
       /\ LockFree(v)
       /\ lock' = [lock EXCEPT ![v] = o]
       /\ Begin(o, "read", v, Nothing)
  /\ UNCHANGED <<item, claimants, approved>>

ClaimRead(o) ==
  /\ Doing(o, "read")
  /\ LET v == task[o].review
     IN  IF item[v] # Nothing /\ item[v].status = "pending"
         THEN Begin(o, "claim", v,
                    [item[v] EXCEPT !.status = "in_review", !.claimed_by = o])
         ELSE Begin(o, "release", v, Nothing)
  /\ UNCHANGED <<item, lock, claimants, approved>>

ClaimWrite(o) ==
  /\ Doing(o, "claim")
  /\ LET v == task[o].review
     IN  /\ item' = [item EXCEPT ![v] = task[o].item]
         /\ claimants' = [claimants EXCEPT ![v] = @ \cup {o}]
         /\ Begin(o, "release", v, Nothing)
  /\ UNCHANGED <<lock, approved>>

(* The lock file is unlinked, whosever it is.                              *)
ClaimRelease(o) ==
  /\ Doing(o, "release")
  /\ lock' = [lock EXCEPT ![task[o].review] = Nothing]
  /\ End(o)
  /\ UNCHANGED <<item, claimants, approved>>

(* adjudicate and dismiss: the transition is checked on what was read.     *)
Target(outcome) == IF outcome = "dismiss" THEN "dismissed" ELSE "adjudicated"

Decide(o) ==
  /\ task[o] = Nothing
  /\ \E v \in Reviews, outcome \in Outcomes :
       /\ item[v] # Nothing
       /\ Target(outcome) \in Transitions[item[v].status]
       /\ Begin(o, "write", v,
                [item[v] EXCEPT !.status = Target(outcome), !.outcome = outcome])
  /\ UNCHANGED <<item, lock, claimants, approved>>

DecideWrite(o) ==
  /\ Doing(o, "write")
  /\ item' = [item EXCEPT ![task[o].review] = task[o].item]
  /\ approved' = IF task[o].item.outcome = "approve_promote"
                 THEN approved \cup {task[o].review} ELSE approved
  /\ End(o)
  /\ UNCHANGED <<lock, claimants>>

(* The process dies.  Its lock stays, and nothing breaks it.               *)
OperatorDies(o) ==
  /\ task[o] # Nothing
  /\ End(o)
  /\ UNCHANGED <<item, lock, claimants, approved>>

ReviewStep(o) ==
  \/ Enqueue(o)
  \/ Claim(o) \/ ClaimRead(o) \/ ClaimWrite(o) \/ ClaimRelease(o)
  \/ Decide(o) \/ DecideWrite(o)
  \/ OperatorDies(o)
-----------------------------------------------------------------------------
(* A review is handed out once: however claims, decisions and crashes      *)
(* interleave, at most one operator was ever told that the review is now   *)
(* theirs, and only a review that somebody was given can be adjudicated    *)
(* (claim: "reduce duplicate/over-claim races between concurrent           *)
(* operators").                                                            *)
OneClaimant ==
  \A v \in Reviews :
    /\ Cardinality(claimants[v]) <= 1
    /\ item[v] # Nothing /\ item[v].status = "adjudicated" => claimants[v] # {}

=============================================================================
