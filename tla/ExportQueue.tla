---------------------------- MODULE ExportQueue ----------------------------
(***************************************************************************)
(* One row of the export queue under .eval/export_queue/                   *)
(* (src/git_cg/eval/mirror/queue.py) and the processes that touch it:      *)
(* export plans that enqueue it, `export drain` runs that claim and upload *)
(* it (exporter.py, drain_queue), and `export retry` (eval/cli.py).        *)
(*                                                                         *)
(* Rows do not interact.  The row is a JSON file: a write replaces it      *)
(* atomically, but every transition is a load, a check and a later write,  *)
(* and only the claim holds the `.claim` file around it.  Time enters as   *)
(* the lease that expires and the claim file that ages.                    *)
(***************************************************************************)
EXTENDS Integers, FiniteSets

CONSTANTS
  Drainers, Enqueuers, Retry,   \* the processes that may run
  NoOne,
  Profiles,                     \* the circumstances considered
  FaultCap,                     \* how many of the faults may strike, once each
  UploadCap                     \* history: where the upload counter stops

Procs  == Drainers \cup Enqueuers \cup {Retry}
Faults == {"crash", "stall", "auth", "fail", "lost"}

(* Circumstances: whether invocations are run one after another, whether   *)
(* retries are forced, which processes run at all, and which faults        *)
(* strike.                                                                 *)
ProfileType ==
  [serial : BOOLEAN, forced : BOOLEAN, actors : SUBSET Procs, faults : SUBSET Faults]

ASSUME QueueAssumption ==
  /\ Profiles \subseteq ProfileType
  /\ NoOne \notin Procs
  /\ Drainers \cap Enqueuers = {} /\ Retry \notin Drainers \cup Enqueuers
  /\ FaultCap \in Nat /\ UploadCap \in Nat

Statuses == {"pending", "sending", "sent", "failed", "dropped"}

Transitions ==
  [pending |-> {"sending", "dropped"},
   sending |-> {"sent", "failed", "pending"},
   failed  |-> {"sending", "pending", "dropped"},
   sent    |-> {},
   dropped |-> {}]

(* What a process is marking the row for. *)
Goals == {"none", "reclaim to list", "reclaim to claim", "claim", "steal",
          "sent", "failed", "retry"}

Target(goal) ==
  CASE goal \in {"reclaim to list", "reclaim to claim", "retry"} -> "pending"
    [] goal \in {"claim", "steal"} -> "sending"
    [] OTHER -> goal

VARIABLES
  profile,  \* the circumstances of this behaviour
  row,      \* the row's file: status, claimed_by, lease, last_error_class
  lock,     \* the .claim file: who created it, whether it is ancient
  pc, goal, \* per process: where it stands, what it is marking
  auth,     \* per process: the secrets of this drain do not resolve
  uploads,  \* history: uploads that succeeded
  struck    \* history: the faults that have struck

vars == <<profile, row, lock, pc, goal, auth, uploads, struck>>
world == <<profile, uploads, struck>>

(* The error class of a failed row is passing (network, timeout) or        *)
(* lasting (auth, validation, size).                                       *)
Errors == {"passing", "lasting"}

Absent  == [status |-> "absent", owner |-> NoOne, lease |-> "none", error |-> "none"]
Pending == [Absent EXCEPT !.status = "pending"]
Free    == [holder |-> NoOne, aged |-> FALSE]

Resting == {"idle", "raised"}
AtRest(p) == pc[p] \in Resting

Init ==
  /\ profile \in Profiles
  /\ row = Absent
  /\ lock = Free
  /\ pc = [p \in Procs |-> "idle"]
  /\ goal = [p \in Procs |-> "none"]
  /\ auth = [p \in Procs |-> FALSE]
  /\ uploads = 0
  /\ struck = {}

Strikes(f) ==
  /\ f \in profile.faults \ struck
  /\ Cardinality(struck) < FaultCap
  /\ struck' = struck \cup {f}

Go(p, to, why) ==
  /\ pc' = [pc EXCEPT ![p] = to]
  /\ goal' = [goal EXCEPT ![p] = why]

(* The operator may start an invocation; in serial circumstances never two *)
(* at a time.                                                              *)
MayStart(p) ==
  /\ p \in profile.actors
  /\ AtRest(p)
  /\ profile.serial => \A q \in Procs : AtRest(q)
-----------------------------------------------------------------------------
(* mark_queue_item: load and check here, write later.                      *)

Legal(from, to) == from = to \/ to \in Transitions[from]

(* What an ExportQueueError of an illegal transition does depends on who   *)
(* asked: a reclaim raises through the drain, a claim lets go of the lock  *)
(* first, the others are caught and noted.                                 *)
MarkLoad(p) ==
  /\ pc[p] = "mark"
  /\ IF Legal(row.status, Target(goal[p])) THEN Go(p, "write", goal[p])
     ELSE IF goal[p] \in {"reclaim to list", "reclaim to claim"}
     THEN Go(p, "raised", "none")
     ELSE IF goal[p] = "claim" THEN Go(p, "unlock and raise", "none")
     ELSE Go(p, "idle", "none")
  /\ UNCHANGED <<world, row, lock, auth>>

Marked(p, error) ==
  [status |-> Target(goal[p]),
   owner  |-> IF Target(goal[p]) = "sending" THEN p ELSE NoOne,
   lease  |-> IF Target(goal[p]) = "sending" THEN "live" ELSE "none",
   error  |-> IF Target(goal[p]) = "failed" THEN error ELSE "none"]

(* ... and where each caller goes on.  Secrets that do not resolve are a   *)
(* lasting error; an upload fails with either kind.                        *)
MarkWrite(p) ==
  /\ pc[p] = "write"
  /\ \E error \in Errors :
       /\ auth[p] => error = "lasting"
       /\ row' = Marked(p, error)
  /\ CASE goal[p] = "reclaim to list"  -> Go(p, "list", "none")
       [] goal[p] = "reclaim to claim" -> Go(p, "claim", "none")
       [] goal[p] = "claim"            -> Go(p, "unlock", "claim")
       [] goal[p] = "steal"            -> Go(p, "mark", "failed")
       [] OTHER                        -> Go(p, "idle", "none")
  /\ UNCHANGED <<world, lock, auth>>
-----------------------------------------------------------------------------
(* enqueue_export_batch: a row that exists is left alone, but it is looked *)
(* for some time before it is written.                                     *)

EnqueueAllowedAlways(e) == MayStart(e)
EnqueueAllowed(e) == MayStart(e) /\ row.status = "absent"

Enqueue(e) ==
  /\ EnqueueAllowed(e)
  /\ Go(e, "enqueue", "none")
  /\ UNCHANGED <<world, row, lock, auth>>

EnqueueWrite(e) ==
  /\ pc[e] = "enqueue"
  /\ row' = Pending
  /\ Go(e, "idle", "none")
  /\ UNCHANGED <<world, lock, auth>>

(* export_retry_cmd: a failed row is marked pending, with a lasting error  *)
(* only if --force is given; other rows are skipped.                       *)
Retryable == row.error = "passing" \/ (profile.forced /\ row.error = "lasting")

RetryLook ==
  /\ MayStart(Retry) /\ row.status = "failed" /\ Retryable
  /\ Go(Retry, "mark", "retry")
  /\ UNCHANGED <<world, row, lock, auth>>
-----------------------------------------------------------------------------
(* drain_queue *)

DrainStart(d) ==
  /\ MayStart(d)
  /\ Go(d, "sweep to list", "none")
  /\ UNCHANGED <<world, row, lock, auth>>

(* release_stale_leases, which list_claimable_items and claim_queue_item   *)
(* both begin with.                                                        *)
StaleIfUnleased == row.status = "sending" /\ row.lease = "none"
Stale == row.status = "sending" /\ row.lease # "live"

Sweep(d) ==
  /\ \/ /\ pc[d] = "sweep to list"
        /\ IF Stale THEN Go(d, "mark", "reclaim to list") ELSE Go(d, "list", "none")
     \/ /\ pc[d] = "sweep to claim"
        /\ IF Stale THEN Go(d, "mark", "reclaim to claim") ELSE Go(d, "claim", "none")
  /\ UNCHANGED <<world, row, lock, auth>>

(* Only pending rows are listed; then the secrets resolve, or not.         *)
List(d) ==
  /\ pc[d] = "list"
  /\ IF row.status = "pending"
     THEN /\ Go(d, "sweep to claim", "none")
          /\ \/ auth' = [auth EXCEPT ![d] = FALSE] /\ UNCHANGED struck
             \/ auth' = [auth EXCEPT ![d] = TRUE] /\ Strikes("auth")
     ELSE Go(d, "idle", "none") /\ UNCHANGED <<auth, struck>>
  /\ UNCHANGED <<profile, uploads, row, lock>>

(* claim_queue_item returned None: the drain goes on, but without secrets  *)
(* it marks the row itself, in order to fail it.                           *)
NotClaimed(d) ==
  IF auth[d] THEN Go(d, "mark", "steal") ELSE Go(d, "idle", "none")

Claimable == row.status \in {"pending", "failed"}

Claim(d) ==
  /\ pc[d] = "claim"
  /\ IF Claimable THEN Go(d, "lock", "none") ELSE NotClaimed(d)
  /\ UNCHANGED <<world, row, lock, auth>>

(* The exclusive create; an ancient claim file is unlinked and the create  *)
(* tried once more.                                                        *)
LockFreeAlways == TRUE
LockFree == lock = Free

Lock(d) ==
  /\ pc[d] \in {"lock", "relock"}
  /\ IF LockFree
     THEN /\ lock' = [holder |-> d, aged |-> FALSE]
          /\ Go(d, "reload", "none")
     ELSE /\ IF pc[d] = "lock" /\ lock.aged THEN Go(d, "break", "none")
             ELSE NotClaimed(d)
          /\ UNCHANGED lock
  /\ UNCHANGED <<world, row, auth>>

BreakLock(d) ==
  /\ pc[d] = "break"
  /\ lock' = Free
  /\ Go(d, "relock", "none")
  /\ UNCHANGED <<world, row, auth>>

(* The row is looked at again under the lock. *)
StillClaimableAlways == TRUE
StillClaimable == Claimable

Reload(d) ==
  /\ pc[d] = "reload"
  /\ IF StillClaimable THEN Go(d, "mark", "claim") ELSE Go(d, "unlock", "none")
  /\ UNCHANGED <<world, row, lock, auth>>

Unlinked(d) == Free

Unlock(d) ==
  /\ pc[d] \in {"unlock", "unlock and raise"}
  /\ lock' = Unlinked(d)
  /\ IF pc[d] = "unlock and raise" THEN Go(d, "raised", "none")
     ELSE IF goal[d] # "claim" THEN NotClaimed(d)
     ELSE IF auth[d] THEN Go(d, "mark", "failed")
     ELSE Go(d, "upload", "none")
  /\ UNCHANGED <<world, row, auth>>

(* Payload and transport (external): sent, or failed with an error class;  *)
(* an upload whose answer is lost has failed as far as the drain can tell. *)
OneMore == IF uploads < UploadCap THEN uploads + 1 ELSE uploads

Upload(d) ==
  /\ pc[d] = "upload"
  /\ \/ uploads' = OneMore /\ Go(d, "mark", "sent") /\ UNCHANGED struck
     \/ Strikes("fail") /\ Go(d, "mark", "failed") /\ UNCHANGED uploads
     \/ Strikes("lost") /\ Go(d, "mark", "failed") /\ uploads' = OneMore
  /\ UNCHANGED <<profile, row, lock, auth>>
-----------------------------------------------------------------------------
(* Faults and time. *)

(* A drain dies: the claim file and the row stay as they are.              *)
Crash(d) ==
  /\ ~ AtRest(d)
  /\ Strikes("crash")
  /\ Go(d, "idle", "none")
  /\ UNCHANGED <<profile, uploads, row, lock, auth>>

(* Where a drain is within its lease, and where it holds the claim file.   *)
InLock(d)  == \/ pc[d] \in {"reload", "unlock", "unlock and raise"}
              \/ pc[d] \in {"mark", "write"} /\ goal[d] = "claim"
InLease(d) == \/ pc[d] = "upload"
              \/ pc[d] = "unlock" /\ goal[d] = "claim"
              \/ pc[d] \in {"mark", "write"} /\ goal[d] \in {"sent", "failed"}

(* A lease of five minutes runs out when its owner is gone, or stalls.     *)
LeaseExpires ==
  /\ row.lease = "live"
  /\ IF InLease(row.owner) THEN Strikes("stall") ELSE UNCHANGED struck
  /\ row' = [row EXCEPT !.lease = "expired"]
  /\ UNCHANGED <<profile, uploads, lock, pc, goal, auth>>

LockAges ==
  /\ lock # Free /\ ~ lock.aged
  /\ IF InLock(lock.holder) THEN Strikes("stall") ELSE UNCHANGED struck
  /\ lock' = [lock EXCEPT !.aged = TRUE]
  /\ UNCHANGED <<profile, uploads, row, pc, goal, auth>>

Runs(p) ==
  MarkLoad(p) \/ MarkWrite(p) \/ EnqueueWrite(p) \/ Sweep(p) \/ List(p)
  \/ Claim(p) \/ Lock(p) \/ BreakLock(p) \/ Reload(p) \/ Unlock(p) \/ Upload(p)

Next ==
  \/ \E p \in Procs : Runs(p)
  \/ \E e \in Enqueuers : Enqueue(e)
  \/ RetryLook
  \/ \E d \in Drainers : DrainStart(d) \/ Crash(d)
  \/ LeaseExpires \/ LockAges

Spec == Init /\ [][Next]_vars

(* A process that runs goes on running, and time passes once nobody is in  *)
(* its way; that anybody starts a drain is not assumed here.               *)
FairSpec ==
  /\ Spec
  /\ \A p \in Procs : WF_vars(Runs(p))
  /\ WF_vars(LeaseExpires /\ UNCHANGED struck)
  /\ WF_vars(LockAges /\ UNCHANGED struck)
-----------------------------------------------------------------------------
(* Properties. *)

Places == {"idle", "raised", "mark", "write", "enqueue", "sweep to list",
           "sweep to claim", "list", "claim", "lock", "relock", "break",
           "reload", "unlock", "unlock and raise", "upload"}

(* The row, the claim file and the processes keep their shape; a row is    *)
(* leased and owned exactly while it is "sending", as mark_queue_item sets *)
(* and clears the three together, and a failed one has its error class.    *)
TypeOK ==
  /\ profile \in Profiles
  /\ row \in [status : Statuses \cup {"absent"}, owner : Drainers \cup {NoOne},
              lease : {"none", "live", "expired"}, error : Errors \cup {"none"}]
  /\ row.status = "sending" <=> row.owner # NoOne
  /\ row.status = "sending" <=> row.lease # "none"
  /\ row.status = "failed" <=> row.error # "none"
  /\ lock \in [holder : Drainers \cup {NoOne}, aged : BOOLEAN]
  /\ pc \in [Procs -> Places]
  /\ goal \in [Procs -> Goals]
  /\ auth \in [Procs -> BOOLEAN]
  /\ uploads \in 0..UploadCap
  /\ struck \subseteq Faults /\ Cardinality(struck) <= FaultCap

(* What the claim protocol needs: invocations that do not overlap, however *)
(* they end, or invocations that overlap but neither crash, outlive their  *)
(* lease, lack secrets, retry nor enqueue twice.                           *)
Guarded ==
  \/ profile.serial
  \/ /\ profile.faults \subseteq {"fail", "lost"}
     /\ Retry \notin profile.actors
     /\ \A a, b \in profile.actors \cap Enqueuers : a = b

(* The claim protocol (claim_queue_item): under a lock file and a second   *)
(* look, only one drain at a time has the row, and the row says so.        *)
OneUploader ==
  Guarded =>
    /\ \A d1, d2 \in Drainers : InLease(d1) /\ InLease(d2) => d1 = d2
    /\ \A d \in Drainers : InLease(d) => row.status = "sending" /\ row.owner = d

(* At least once becomes twice only for a drain that died between the      *)
(* upload and the mark, and once more for an answer that was lost.         *)
Struck(f) == IF f \in struck THEN 1 ELSE 0
UploadedOnce == Guarded => uploads <= 1 + Struck("crash") + Struck("lost")

(* "Drain queued export rows through transport. Never raises", as far as   *)
(* it goes: where the claim protocol is guarded.                           *)
GuardedNeverRaises ==
  Guarded => \A d \in Drainers : pc[d] # "raised"

(* Where it is guarded, the file only makes the moves of _TRANSITIONS,     *)
(* although every one is a check and a later write: sent stays sent.       *)
StatusesMoveLegally ==
  [][Guarded /\ row.status # "absent" => Legal(row.status, row'.status)]_row

(* Whatever struck before, races of unguarded circumstances included, a    *)
(* row ends up sent for good if drains and retries are run again and       *)
(* again; only if no retry is forced may it stay failed, with an error     *)
(* that export_retry_cmd skips.                                            *)
RunAgainAndAgain ==
  /\ \E d \in Drainers : []<>(pc[d] = "sweep to list")
  /\ []<>Retryable => []<>(goal[Retry] = "retry")
  /\ []<>(row.status # "absent")
EventuallySent ==
  RunAgainAndAgain =>
    <>[](row.status = "sent") \/ <>[](row.error = "lasting" /\ ~ profile.forced)

(* "Drain queued export rows through transport. Never raises."             *)
DrainNeverRaises == \A d \in Drainers : pc[d] # "raised"
=============================================================================
