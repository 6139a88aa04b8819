------------------------- MODULE ExportQueueProofs -------------------------
(***************************************************************************)
(* The claim protocol of the export queue (ExportQueue), for any number of *)
(* drains and export plans: where it is guarded, one drain at a time has   *)
(* the row, its file only makes legal moves, no drain raises, and a row is *)
(* uploaded once, and once more for a crash and for a lost answer.         *)
(***************************************************************************)
EXTENDS ExportQueue, FiniteSetTheorems, TLAPS

(* Who may be where, and what for.                                         *)
Claiming == {"sweep to list", "sweep to claim", "list", "claim", "lock", "relock",
             "break", "reload", "unlock and raise", "upload"}
Fits(p, place, why) ==
  \/ place \in Resting /\ why = "none"
  \/ p \in Enqueuers /\ place = "enqueue" /\ why = "none"
  \/ p = Retry /\ place \in {"mark", "write"} /\ why = "retry"
  \/ /\ p \in Drainers
     /\ \/ place \in Claiming /\ why = "none"
        \/ place = "unlock" /\ why \in {"none", "claim"}
        \/ place \in {"mark", "write"} /\ why \in Goals \ {"none", "retry"}

WellPlaced == \A p \in Procs : Fits(p, pc[p], goal[p])

(* What circumstances exclude.                                             *)
ProfileInv ==
  /\ \A p \in Procs : ~ AtRest(p) => p \in profile.actors
  /\ profile.serial => \A p, q \in Procs : AtRest(p) \/ AtRest(q) \/ p = q
  /\ struck \subseteq profile.faults
  /\ \A p \in Procs : auth[p] => "auth" \in struck

(* Overlapping drains meet neither a stale lease nor an ancient lock.      *)
SteadyInv ==
  Guarded /\ ~ profile.serial =>
    /\ row.status = "sending" => row.lease = "live" /\ InLease(row.owner)
    /\ lock # Free => ~ lock.aged /\ InLock(lock.holder)
    /\ \A p \in Procs :
         /\ pc[p] # "break"
         /\ goal[p] \notin {"reclaim to list", "reclaim to claim", "steal", "retry"}

(* A drain beyond its list, like a row being marked, has a row.            *)
ThereInv ==
  \A p \in Procs :
    pc[p] \in Resting \cup {"enqueue", "sweep to list", "list"} \/ row.status # "absent"

(* What the claim file and the second look are for.                        *)
Exclusive(p) ==
  /\ InLock(p) => lock.holder = p
  /\ pc[p] \in {"mark", "write"} /\ goal[p] = "claim" => Claimable
  /\ InLease(p) => row.status = "sending" /\ row.owner = p
  /\ pc[p] = "enqueue" => row.status = "absent"

ClaimInv == Guarded => \A p \in Procs : Exclusive(p)

(* No load of a transition is overtaken before its write.                  *)
Timely(p) ==
  /\ goal[p] \in {"reclaim to list", "reclaim to claim"} => row.status = "sending"
  /\ pc[p] = "write" => Legal(row.status, Target(goal[p]))
  /\ pc[p] \notin {"raised", "unlock and raise"}

LegalInv == Guarded => \A p \in Procs : Timely(p)

UploadInv ==
  Guarded =>
    uploads <= Struck("crash") + Struck("lost") +
               (IF row.status = "sent" \/ \E d \in Drainers : goal[d] = "sent"
                THEN 1 ELSE 0)

QInv ==
  /\ TypeOK /\ WellPlaced /\ ProfileInv
  /\ ThereInv /\ SteadyInv /\ ClaimInv /\ LegalInv /\ UploadInv
-----------------------------------------------------------------------------
(* What a step does to the process that takes it, and that it leaves the   *)
(* others where they are.                                                  *)
At(p, place, why) == pc'[p] = place /\ goal'[p] = why
Others(p) ==
  \A q \in Procs \ {p} : pc'[q] = pc[q] /\ goal'[q] = goal[q]
Shape == pc' \in [Procs -> Places] /\ goal' \in [Procs -> Goals]

LEMMA GoDoes ==
  ASSUME TypeOK, NEW p \in Procs, NEW place \in Places, NEW why \in Goals,
         Go(p, place, why)
  PROVE  At(p, place, why) /\ Others(p) /\ Shape
BY DEF Go, At, Others, Shape, TypeOK

(* The places a process comes to fit it.                                   *)
LEMMA PlacedAnew ==
  ASSUME WellPlaced, NEW p \in Procs, Others(p), Fits(p, pc'[p], goal'[p])
  PROVE  WellPlaced'
BY DEF WellPlaced, Others

LEMMA MarkLoadDoes ==
  ASSUME TypeOK, NEW p \in Procs, MarkLoad(p)
  PROVE  /\ pc[p] = "mark" /\ Others(p) /\ Shape
         /\ UNCHANGED <<world, row, lock, auth>>
         /\ \/ Legal(row.status, Target(goal[p])) /\ At(p, "write", goal[p])
            \/ /\ ~ Legal(row.status, Target(goal[p]))
               /\ \/ /\ goal[p] \in {"reclaim to list", "reclaim to claim"}
                     /\ At(p, "raised", "none")
                  \/ goal[p] = "claim" /\ At(p, "unlock and raise", "none")
                  \/ At(p, "idle", "none")
<1>1. goal[p] \in Goals /\ "none" \in Goals
      /\ {"write", "raised", "unlock and raise", "idle"} \subseteq Places
  BY DEF TypeOK, Goals, Places
<1> QED
  BY <1>1, GoDoes DEF MarkLoad

LEMMA MarkWriteDoes ==
  ASSUME TypeOK, NEW p \in Procs, MarkWrite(p)
  PROVE  /\ pc[p] = "write" /\ Others(p) /\ Shape
         /\ (\E error \in Errors : row' = Marked(p, error))
         /\ UNCHANGED <<world, lock, auth>>
         /\ \/ goal[p] = "reclaim to list" /\ At(p, "list", "none")
            \/ goal[p] = "reclaim to claim" /\ At(p, "claim", "none")
            \/ goal[p] = "claim" /\ At(p, "unlock", "claim")
            \/ goal[p] = "steal" /\ At(p, "mark", "failed")
            \/ /\ goal[p] \notin {"reclaim to list", "reclaim to claim", "claim",
                                  "steal"}
               /\ At(p, "idle", "none")
<1>1. {"none", "claim", "failed"} \subseteq Goals
      /\ {"list", "claim", "unlock", "mark", "idle"} \subseteq Places
  BY DEF Goals, Places
<1> QED
  BY <1>1, GoDoes DEF MarkWrite

LEMMA EnqueueWriteDoes ==
  ASSUME TypeOK, NEW p \in Procs, EnqueueWrite(p)
  PROVE  /\ pc[p] = "enqueue" /\ Others(p) /\ Shape /\ At(p, "idle", "none")
         /\ row' = Pending /\ UNCHANGED <<world, lock, auth>>
BY GoDoes DEF EnqueueWrite, Goals, Places

(* An invocation by somebody who may make it.                              *)
Start(p) ==
  \/ p \in Enqueuers /\ Enqueue(p)
  \/ p = Retry /\ RetryLook
  \/ p \in Drainers /\ DrainStart(p)

LEMMA StartDoes ==
  ASSUME TypeOK, NEW p \in Procs, Start(p)
  PROVE  /\ MayStart(p) /\ Others(p) /\ Shape
         /\ UNCHANGED <<world, row, lock, auth>>
         /\ \/ /\ p \in Enqueuers /\ row.status = "absent"
               /\ At(p, "enqueue", "none")
            \/ p = Retry /\ row.status = "failed" /\ At(p, "mark", "retry")
            \/ p \in Drainers /\ At(p, "sweep to list", "none")
<1>1. {"none", "retry"} \subseteq Goals
      /\ {"enqueue", "mark", "sweep to list"} \subseteq Places
  BY DEF Goals, Places
<1>2. CASE p \in Enqueuers /\ Enqueue(p)
  BY <1>1, <1>2, GoDoes DEF Enqueue, EnqueueAllowed
<1>3. CASE p = Retry /\ RetryLook
  BY <1>1, <1>3, GoDoes DEF RetryLook
<1>4. CASE p \in Drainers /\ DrainStart(p)
  BY <1>1, <1>4, GoDoes DEF DrainStart
<1> QED
  BY <1>2, <1>3, <1>4 DEF Start

LEMMA SweepDoes ==
  ASSUME TypeOK, NEW p \in Procs, Sweep(p)
  PROVE  /\ Others(p) /\ Shape
         /\ UNCHANGED <<world, row, lock, auth>>
         /\ \/ /\ pc[p] = "sweep to list"
               /\ \/ Stale /\ At(p, "mark", "reclaim to list")
                  \/ ~ Stale /\ At(p, "list", "none")
            \/ /\ pc[p] = "sweep to claim"
               /\ \/ Stale /\ At(p, "mark", "reclaim to claim")
                  \/ ~ Stale /\ At(p, "claim", "none")
<1>1. {"none", "reclaim to list", "reclaim to claim"} \subseteq Goals
      /\ {"list", "claim", "mark"} \subseteq Places
  BY DEF Goals, Places
<1> QED
  BY <1>1, GoDoes DEF Sweep

LEMMA ListDoes ==
  ASSUME TypeOK, NEW p \in Procs, List(p)
  PROVE  /\ pc[p] = "list" /\ Others(p) /\ Shape
         /\ UNCHANGED <<profile, uploads, row, lock>>
         /\ \/ At(p, "idle", "none") /\ UNCHANGED <<auth, struck>>
            \/ /\ row.status = "pending" /\ At(p, "sweep to claim", "none")
               /\ \/ auth' = [auth EXCEPT ![p] = FALSE] /\ UNCHANGED struck
                  \/ auth' = [auth EXCEPT ![p] = TRUE] /\ Strikes("auth")
<1>1. "none" \in Goals /\ {"idle", "sweep to claim"} \subseteq Places
  BY DEF Goals, Places
<1> QED
  BY <1>1, GoDoes DEF List

(* What a claim comes to that is not granted.                              *)
Refused(p) ==
  \/ auth[p] /\ At(p, "mark", "steal")
  \/ ~ auth[p] /\ At(p, "idle", "none")

LEMMA NotClaimedDoes ==
  ASSUME TypeOK, NEW p \in Procs, NotClaimed(p)
  PROVE  Others(p) /\ Shape /\ Refused(p)
<1>1. {"none", "steal"} \subseteq Goals /\ {"idle", "mark"} \subseteq Places
  BY DEF Goals, Places
<1> QED
  BY <1>1, GoDoes DEF NotClaimed, Refused

LEMMA ClaimDoes ==
  ASSUME TypeOK, NEW p \in Procs, Claim(p)
  PROVE  /\ pc[p] = "claim" /\ Others(p) /\ Shape
         /\ UNCHANGED <<world, row, lock, auth>>
         /\ At(p, "lock", "none") \/ Refused(p)
<1>1. "none" \in Goals /\ "lock" \in Places
  BY DEF Goals, Places
<1> QED
  BY <1>1, GoDoes, NotClaimedDoes DEF Claim

LEMMA LockDoes ==
  ASSUME TypeOK, NEW p \in Procs, Lock(p)
  PROVE  /\ pc[p] \in {"lock", "relock"} /\ Others(p) /\ Shape
         /\ UNCHANGED <<world, row, auth>>
         /\ \/ /\ lock = Free /\ lock' = [holder |-> p, aged |-> FALSE]
               /\ At(p, "reload", "none")
            \/ /\ lock # Free /\ lock.aged /\ UNCHANGED lock
               /\ At(p, "break", "none")
            \/ lock # Free /\ UNCHANGED lock /\ Refused(p)
<1>1. "none" \in Goals /\ {"reload", "break"} \subseteq Places
  BY DEF Goals, Places
<1> QED
  BY <1>1, GoDoes, NotClaimedDoes DEF Lock, LockFree

LEMMA BreakLockDoes ==
  ASSUME TypeOK, NEW p \in Procs, BreakLock(p)
  PROVE  /\ pc[p] = "break" /\ Others(p) /\ Shape /\ At(p, "relock", "none")
         /\ lock' = Free /\ UNCHANGED <<world, row, auth>>
BY GoDoes DEF BreakLock, Goals, Places

LEMMA ReloadDoes ==
  ASSUME TypeOK, NEW p \in Procs, Reload(p)
  PROVE  /\ pc[p] = "reload" /\ Others(p) /\ Shape
         /\ UNCHANGED <<world, row, lock, auth>>
         /\ \/ Claimable /\ At(p, "mark", "claim")
            \/ ~ Claimable /\ At(p, "unlock", "none")
<1>1. {"none", "claim"} \subseteq Goals /\ {"mark", "unlock"} \subseteq Places
  BY DEF Goals, Places
<1> QED
  BY <1>1, GoDoes DEF Reload, StillClaimable

LEMMA UnlockDoes ==
  ASSUME TypeOK, NEW p \in Procs, Unlock(p)
  PROVE  /\ pc[p] \in {"unlock", "unlock and raise"} /\ Others(p) /\ Shape
         /\ lock' = Free /\ UNCHANGED <<world, row, auth>>
         /\ \/ pc[p] = "unlock and raise" /\ At(p, "raised", "none")
            \/ pc[p] = "unlock" /\ goal[p] # "claim" /\ Refused(p)
            \/ /\ pc[p] = "unlock" /\ goal[p] = "claim"
               /\ \/ auth[p] /\ At(p, "mark", "failed")
                  \/ ~ auth[p] /\ At(p, "upload", "none")
<1>1. {"none", "failed"} \subseteq Goals
      /\ {"raised", "mark", "upload"} \subseteq Places
  BY DEF Goals, Places
<1> QED
  BY <1>1, GoDoes, NotClaimedDoes DEF Unlock, Unlinked

LEMMA UploadDoes ==
  ASSUME TypeOK, NEW p \in Procs, Upload(p)
  PROVE  /\ pc[p] = "upload" /\ Others(p) /\ Shape
         /\ UNCHANGED <<profile, row, lock, auth>>
         /\ \/ uploads' = OneMore /\ At(p, "mark", "sent") /\ UNCHANGED struck
            \/ Strikes("fail") /\ At(p, "mark", "failed") /\ UNCHANGED uploads
            \/ Strikes("lost") /\ At(p, "mark", "failed") /\ uploads' = OneMore
<1>1. {"sent", "failed"} \subseteq Goals /\ "mark" \in Places
  BY DEF Goals, Places
<1> QED
  BY <1>1, GoDoes DEF Upload

LEMMA CrashDoes ==
  ASSUME TypeOK, NEW p \in Procs, Crash(p)
  PROVE  /\ ~ AtRest(p) /\ Others(p) /\ Shape /\ At(p, "idle", "none")
         /\ Strikes("crash") /\ UNCHANGED <<profile, uploads, row, lock, auth>>
BY GoDoes DEF Crash, Goals, Places

(* What each part of the state is changed by.                              *)
Frame ==
  /\ UNCHANGED profile
  /\ UNCHANGED row \/ (\E p \in Procs : MarkWrite(p) \/ EnqueueWrite(p)) \/ LeaseExpires
  /\ \/ UNCHANGED lock \/ LockAges
     \/ \E p \in Procs : Lock(p) \/ BreakLock(p) \/ Unlock(p)
  /\ UNCHANGED uploads \/ \E p \in Procs : Upload(p)
  /\ UNCHANGED auth \/ \E p \in Procs : List(p)
  /\ UNCHANGED struck \/ \E f \in Faults : Strikes(f)

LEMMA Frames ==
  ASSUME [Next]_vars
  PROVE  Frame
<1> USE DEF world, Faults
<1>1. ASSUME NEW p \in Procs, MarkLoad(p)
      PROVE  Frame
  BY <1>1 DEF MarkLoad, Frame
<1>2. ASSUME NEW p \in Procs, MarkWrite(p)
      PROVE  Frame
  BY <1>2 DEF MarkWrite, Frame
<1>3. ASSUME NEW p \in Procs, EnqueueWrite(p)
      PROVE  Frame
  BY <1>3 DEF EnqueueWrite, Frame
<1>4. ASSUME NEW p \in Procs, Sweep(p)
      PROVE  Frame
  BY <1>4 DEF Sweep, Frame
<1>5. ASSUME NEW p \in Procs, List(p)
      PROVE  Frame
  BY <1>5 DEF List, Frame
<1>6. ASSUME NEW p \in Procs, Claim(p)
      PROVE  Frame
  BY <1>6 DEF Claim, Frame
<1>7. ASSUME NEW p \in Procs, Lock(p)
      PROVE  Frame
  BY <1>7 DEF Lock, Frame
<1>8. ASSUME NEW p \in Procs, BreakLock(p)
      PROVE  Frame
  BY <1>8 DEF BreakLock, Frame
<1>9. ASSUME NEW p \in Procs, Reload(p)
      PROVE  Frame
  BY <1>9 DEF Reload, Frame
<1>10. ASSUME NEW p \in Procs, Unlock(p)
      PROVE  Frame
  BY <1>10 DEF Unlock, Frame
<1>11. ASSUME NEW p \in Procs, Upload(p)
      PROVE  Frame
  BY <1>11 DEF Upload, Frame
<1>12. ASSUME NEW p \in Enqueuers, Enqueue(p)
      PROVE  Frame
  BY <1>12 DEF Enqueue, Frame
<1>13. CASE RetryLook
  BY <1>13 DEF RetryLook, Frame
<1>14. ASSUME NEW p \in Drainers, DrainStart(p)
      PROVE  Frame
  BY <1>14 DEF DrainStart, Frame
<1>15. ASSUME NEW p \in Drainers, Crash(p)
      PROVE  Frame
  BY <1>15 DEF Crash, Frame
<1>16. CASE LeaseExpires
  BY <1>16 DEF LeaseExpires, Frame
<1>17. CASE LockAges
  BY <1>17 DEF LockAges, Frame
<1>18. CASE UNCHANGED vars
  BY <1>18 DEF vars, Frame
<1> QED
  BY <1>1, <1>2, <1>3, <1>4, <1>5, <1>6, <1>7, <1>8, <1>9, <1>10, <1>11,
     <1>12, <1>13, <1>14, <1>15, <1>16, <1>17, <1>18
  DEF Next, Runs

(* One step keeps every process where it may be.                           *)
LEMMA PlacedStep ==
  TypeOK /\ WellPlaced /\ [Next]_vars => WellPlaced'
<1> SUFFICES ASSUME TypeOK, WellPlaced, [Next]_vars PROVE WellPlaced'
  OBVIOUS
<1> USE QueueAssumption DEF world
<1>1. ASSUME NEW p \in Procs, MarkLoad(p) PROVE WellPlaced'
  <2>1. Fits(p, pc[p], goal[p])
    BY DEF WellPlaced
  <2>2. Fits(p, pc'[p], goal'[p])
    BY <1>1, <2>1, MarkLoadDoes, QueueAssumption
    DEF Fits, Claiming, Resting, Goals, At, Refused
  <2>3. Others(p)
    BY <1>1, MarkLoadDoes
  <2> QED
    BY <2>2, <2>3, PlacedAnew
<1>2. ASSUME NEW p \in Procs, MarkWrite(p) PROVE WellPlaced'
  <2>1. Fits(p, pc[p], goal[p])
    BY DEF WellPlaced
  <2>2. Fits(p, pc'[p], goal'[p])
    BY <1>2, <2>1, MarkWriteDoes, QueueAssumption
    DEF Fits, Claiming, Resting, Goals, At, Refused
  <2>3. Others(p)
    BY <1>2, MarkWriteDoes
  <2> QED
    BY <2>2, <2>3, PlacedAnew
<1>3. ASSUME NEW p \in Procs, EnqueueWrite(p) PROVE WellPlaced'
  <2>1. Fits(p, pc[p], goal[p])
    BY DEF WellPlaced
  <2>2. Fits(p, pc'[p], goal'[p])
    BY <1>3, <2>1, EnqueueWriteDoes, QueueAssumption
    DEF Fits, Claiming, Resting, Goals, At, Refused
  <2>3. Others(p)
    BY <1>3, EnqueueWriteDoes
  <2> QED
    BY <2>2, <2>3, PlacedAnew
<1>4. ASSUME NEW p \in Procs, Sweep(p) PROVE WellPlaced'
  <2>1. Fits(p, pc[p], goal[p])
    BY DEF WellPlaced
  <2>2. Fits(p, pc'[p], goal'[p])
    BY <1>4, <2>1, SweepDoes, QueueAssumption
    DEF Fits, Claiming, Resting, Goals, At, Refused
  <2>3. Others(p)
    BY <1>4, SweepDoes
  <2> QED
    BY <2>2, <2>3, PlacedAnew
<1>5. ASSUME NEW p \in Procs, List(p) PROVE WellPlaced'
  <2>1. Fits(p, pc[p], goal[p])
    BY DEF WellPlaced
  <2>2. Fits(p, pc'[p], goal'[p])
    BY <1>5, <2>1, ListDoes, QueueAssumption
    DEF Fits, Claiming, Resting, Goals, At, Refused
  <2>3. Others(p)
    BY <1>5, ListDoes
  <2> QED
    BY <2>2, <2>3, PlacedAnew
<1>6. ASSUME NEW p \in Procs, Claim(p) PROVE WellPlaced'
  <2>1. Fits(p, pc[p], goal[p])
    BY DEF WellPlaced
  <2>2. Fits(p, pc'[p], goal'[p])
    BY <1>6, <2>1, ClaimDoes, QueueAssumption
    DEF Fits, Claiming, Resting, Goals, At, Refused
  <2>3. Others(p)
    BY <1>6, ClaimDoes
  <2> QED
    BY <2>2, <2>3, PlacedAnew
<1>7. ASSUME NEW p \in Procs, Lock(p) PROVE WellPlaced'
  <2>1. Fits(p, pc[p], goal[p])
    BY DEF WellPlaced
  <2>2. Fits(p, pc'[p], goal'[p])
    BY <1>7, <2>1, LockDoes, QueueAssumption
    DEF Fits, Claiming, Resting, Goals, At, Refused
  <2>3. Others(p)
    BY <1>7, LockDoes
  <2> QED
    BY <2>2, <2>3, PlacedAnew
<1>8. ASSUME NEW p \in Procs, BreakLock(p) PROVE WellPlaced'
  <2>1. Fits(p, pc[p], goal[p])
    BY DEF WellPlaced
  <2>2. Fits(p, pc'[p], goal'[p])
    BY <1>8, <2>1, BreakLockDoes, QueueAssumption
    DEF Fits, Claiming, Resting, Goals, At, Refused
  <2>3. Others(p)
    BY <1>8, BreakLockDoes
  <2> QED
    BY <2>2, <2>3, PlacedAnew
<1>9. ASSUME NEW p \in Procs, Reload(p) PROVE WellPlaced'
  <2>1. Fits(p, pc[p], goal[p])
    BY DEF WellPlaced
  <2>2. Fits(p, pc'[p], goal'[p])
    BY <1>9, <2>1, ReloadDoes, QueueAssumption
    DEF Fits, Claiming, Resting, Goals, At, Refused
  <2>3. Others(p)
    BY <1>9, ReloadDoes
  <2> QED
    BY <2>2, <2>3, PlacedAnew
<1>10. ASSUME NEW p \in Procs, Unlock(p) PROVE WellPlaced'
  <2>1. Fits(p, pc[p], goal[p])
    BY DEF WellPlaced
  <2>2. Fits(p, pc'[p], goal'[p])
    BY <1>10, <2>1, UnlockDoes, QueueAssumption
    DEF Fits, Claiming, Resting, Goals, At, Refused
  <2>3. Others(p)
    BY <1>10, UnlockDoes
  <2> QED
    BY <2>2, <2>3, PlacedAnew
<1>11. ASSUME NEW p \in Procs, Upload(p) PROVE WellPlaced'
  <2>1. Fits(p, pc[p], goal[p])
    BY DEF WellPlaced
  <2>2. Fits(p, pc'[p], goal'[p])
    BY <1>11, <2>1, UploadDoes, QueueAssumption
    DEF Fits, Claiming, Resting, Goals, At, Refused
  <2>3. Others(p)
    BY <1>11, UploadDoes
  <2> QED
    BY <2>2, <2>3, PlacedAnew
<1>12. ASSUME NEW p \in Procs, Start(p) PROVE WellPlaced'
  <2>1. Fits(p, pc[p], goal[p])
    BY DEF WellPlaced
  <2>2. Fits(p, pc'[p], goal'[p])
    BY <1>12, <2>1, StartDoes, QueueAssumption
    DEF Fits, Claiming, Resting, Goals, At, Refused
  <2>3. Others(p)
    BY <1>12, StartDoes
  <2> QED
    BY <2>2, <2>3, PlacedAnew
<1>13. ASSUME NEW p \in Procs, Crash(p) PROVE WellPlaced'
  <2>1. Fits(p, pc[p], goal[p])
    BY DEF WellPlaced
  <2>2. Fits(p, pc'[p], goal'[p])
    BY <1>13, <2>1, CrashDoes, QueueAssumption
    DEF Fits, Claiming, Resting, Goals, At, Refused
  <2>3. Others(p)
    BY <1>13, CrashDoes
  <2> QED
    BY <2>2, <2>3, PlacedAnew
<1>14. CASE LeaseExpires
  BY <1>14 DEF LeaseExpires, WellPlaced
<1>15. CASE LockAges
  BY <1>15 DEF LockAges, WellPlaced
<1>16. CASE UNCHANGED vars
  BY <1>16 DEF vars, WellPlaced
<1> QED
  BY <1>1, <1>2, <1>3, <1>4, <1>5, <1>6, <1>7, <1>8, <1>9, <1>10, <1>11,
     <1>12, <1>13, <1>14, <1>15, <1>16
  DEF Next, Runs, Start, Procs

(* One step keeps the shape of the row, the claim file and the processes.  *)
LEMMA RowTyped ==
  ASSUME TypeOK, WellPlaced, [Next]_vars
  PROVE  /\ row' \in [status : Statuses \cup {"absent"},
                      owner : Drainers \cup {NoOne},
                      lease : {"none", "live", "expired"},
                      error : Errors \cup {"none"}]
         /\ row'.status = "sending" <=> row'.owner # NoOne
         /\ row'.status = "sending" <=> row'.lease # "none"
         /\ row'.status = "failed" <=> row'.error # "none"
<1>1. UNCHANGED row \/ (\E p \in Procs : MarkWrite(p) \/ EnqueueWrite(p)) \/ LeaseExpires
  BY Frames DEF Frame
<1>2. CASE UNCHANGED row
  BY <1>2 DEF TypeOK
<1>3. ASSUME NEW p \in Procs, MarkWrite(p)
      PROVE  /\ row' \in [status : Statuses \cup {"absent"},
                          owner : Drainers \cup {NoOne},
                          lease : {"none", "live", "expired"},
                          error : Errors \cup {"none"}]
             /\ row'.status = "sending" <=> row'.owner # NoOne
             /\ row'.status = "sending" <=> row'.lease # "none"
             /\ row'.status = "failed" <=> row'.error # "none"
  <2>1. PICK error \in Errors : pc[p] = "write" /\ row' = Marked(p, error)
    BY <1>3 DEF MarkWrite
  <2>2. Fits(p, pc[p], goal[p])
    BY DEF WellPlaced
  <2>3. CASE Target(goal[p]) = "sending"
    <3>1. p \in Drainers
      BY <2>1, <2>2, <2>3, QueueAssumption DEF Fits, Claiming, Resting, Target
    <3> QED
      BY <2>1, <2>3, <3>1, QueueAssumption DEF Marked, Statuses, Errors, Procs
  <2>4. CASE Target(goal[p]) # "sending"
    <3>1. Target(goal[p]) \in Statuses
      BY <2>1, <2>2 DEF Fits, Claiming, Resting, Goals, Target, Statuses
    <3> QED
      BY <2>1, <2>4, <3>1 DEF Marked, Errors
  <2> QED
    BY <2>3, <2>4
<1>4. ASSUME NEW p \in Procs, EnqueueWrite(p)
      PROVE  row' = Pending
  BY <1>4 DEF EnqueueWrite
<1>5. CASE LeaseExpires
  BY <1>5 DEF LeaseExpires, TypeOK
<1> QED
  BY <1>1, <1>2, <1>3, <1>4, <1>5 DEF Pending, Absent, Statuses, Errors

LEMMA LockTyped ==
  ASSUME TypeOK, WellPlaced, [Next]_vars
  PROVE  lock' \in [holder : Drainers \cup {NoOne}, aged : BOOLEAN]
<1>1. \/ UNCHANGED lock \/ LockAges
      \/ \E p \in Procs : Lock(p) \/ BreakLock(p) \/ Unlock(p)
  BY Frames DEF Frame
<1>2. CASE UNCHANGED lock \/ LockAges
  BY <1>2 DEF LockAges, TypeOK
<1>3. ASSUME NEW p \in Procs, Lock(p) \/ BreakLock(p) \/ Unlock(p)
      PROVE  \/ lock' = lock
             \/ lock' = Free
             \/ p \in Drainers /\ lock' = [holder |-> p, aged |-> FALSE]
  <2>1. Fits(p, pc[p], goal[p])
    BY DEF WellPlaced
  <2>2. pc[p] \in {"lock", "relock"} => p \in Drainers
    BY <2>1 DEF Fits, Resting
  <2>3. CASE Lock(p)
    BY <2>2, <2>3, LockDoes
  <2>4. CASE BreakLock(p)
    BY <2>4, BreakLockDoes
  <2>5. CASE Unlock(p)
    BY <2>5, UnlockDoes
  <2> QED
    BY <1>3, <2>3, <2>4, <2>5
<1>4. /\ lock \in [holder : Drainers \cup {NoOne}, aged : BOOLEAN]
      /\ Free \in [holder : Drainers \cup {NoOne}, aged : BOOLEAN]
      /\ \A d \in Drainers : [holder |-> d, aged |-> FALSE] \in
                             [holder : Drainers \cup {NoOne}, aged : BOOLEAN]
  BY DEF TypeOK, Free
<1> QED
  BY <1>1, <1>2, <1>3, <1>4

LEMMA StrikesTyped ==
  ASSUME TypeOK, NEW f \in Faults, Strikes(f)
  PROVE  struck' \subseteq Faults /\ Cardinality(struck') <= FaultCap
<1>1. IsFiniteSet(Faults)
  <2>1. Faults = {"crash"} \cup {"stall"} \cup {"auth"} \cup {"fail"} \cup {"lost"}
    BY DEF Faults
  <2> QED
    BY <2>1, FS_Singleton, FS_Union
<1>2. IsFiniteSet(struck) /\ struck \subseteq Faults /\ FaultCap \in Nat
  BY <1>1, FS_Subset, QueueAssumption DEF TypeOK
<1>3. Cardinality(struck') = Cardinality(struck) + 1
  BY <1>2, FS_AddElement DEF Strikes
<1>4. Cardinality(struck) \in Nat
  BY <1>2, FS_CardinalityType
<1> QED
  BY <1>2, <1>3, <1>4 DEF Strikes

LEMMA Moves ==
  ASSUME TypeOK, WellPlaced, [Next]_vars
  PROVE  Shape
<1>1. ASSUME NEW p \in Procs, Runs(p) \/ Start(p) \/ Crash(p) PROVE Shape
  BY <1>1, MarkLoadDoes, MarkWriteDoes, EnqueueWriteDoes, SweepDoes, ListDoes,
     ClaimDoes, LockDoes, BreakLockDoes, ReloadDoes, UnlockDoes, UploadDoes,
     StartDoes, CrashDoes
  DEF Runs
<1>2. CASE LeaseExpires \/ LockAges \/ UNCHANGED vars
  BY <1>2 DEF LeaseExpires, LockAges, vars, Shape, TypeOK
<1> QED
  BY <1>1, <1>2 DEF Next, Start, Procs

LEMMA TypeStep ==
  TypeOK /\ WellPlaced /\ [Next]_vars => TypeOK'
<1> SUFFICES ASSUME TypeOK, WellPlaced, [Next]_vars PROVE TypeOK'
  OBVIOUS
<1>1. Frame
  BY Frames
<1>2. uploads' \in 0..UploadCap
  BY <1>1, QueueAssumption DEF Frame, Upload, OneMore, TypeOK
<1>3. auth' \in [Procs -> BOOLEAN]
  BY <1>1 DEF Frame, List, TypeOK
<1>4. struck' \subseteq Faults /\ Cardinality(struck') <= FaultCap
  BY <1>1, StrikesTyped DEF Frame, TypeOK
<1>5. profile' \in Profiles
  BY <1>1 DEF Frame, TypeOK
<1> QED
  BY <1>2, <1>3, <1>4, <1>5, RowTyped, LockTyped, Moves DEF TypeOK, Shape

(* One step keeps invocations apart where they are, and faults to those    *)
(* the circumstances allow.                                                *)
LEMMA ProfileStep ==
  TypeOK /\ WellPlaced /\ ProfileInv /\ [Next]_vars => ProfileInv'
<1> SUFFICES ASSUME TypeOK, WellPlaced, ProfileInv, [Next]_vars PROVE ProfileInv'
  OBVIOUS
<1>1. Frame
  BY Frames
<1>2. struck' \subseteq profile'.faults
  BY <1>1 DEF Frame, Strikes, ProfileInv
<1>3. \A p \in Procs : auth'[p] => "auth" \in struck'
  <2>1. CASE UNCHANGED auth
    BY <1>1, <2>1 DEF Frame, Strikes, ProfileInv
  <2>2. ASSUME NEW d \in Procs, List(d)
        PROVE  \A p \in Procs : auth'[p] => "auth" \in struck'
    <3>1. auth \in [Procs -> BOOLEAN] /\ \A p \in Procs : auth[p] => "auth" \in struck
      BY DEF TypeOK, ProfileInv
    <3>2. CASE UNCHANGED <<auth, struck>>
      BY <3>1, <3>2
    <3>3. CASE auth' = [auth EXCEPT ![d] = FALSE] /\ UNCHANGED struck
      BY <3>1, <3>3
    <3>4. CASE auth' = [auth EXCEPT ![d] = TRUE] /\ Strikes("auth")
      BY <3>1, <3>4 DEF Strikes
    <3> QED
      BY <2>2, <3>2, <3>3, <3>4, ListDoes
  <2> QED
    BY <1>1, <2>1, <2>2 DEF Frame
<1>4. ASSUME NEW p \in Procs, Runs(p) \/ Start(p) \/ Crash(p)
      PROVE  Others(p) /\ (~ AtRest(p) \/ MayStart(p))
  BY <1>4, MarkLoadDoes, MarkWriteDoes, EnqueueWriteDoes, SweepDoes, ListDoes,
     ClaimDoes, LockDoes, BreakLockDoes, ReloadDoes, UnlockDoes, UploadDoes,
     StartDoes, CrashDoes
  DEF Runs, AtRest, Resting
<1>5. CASE UNCHANGED pc
  BY <1>1, <1>2, <1>3, <1>5 DEF Frame, ProfileInv, AtRest
<1>6. ASSUME NEW p \in Procs, Others(p), ~ AtRest(p) \/ MayStart(p)
      PROVE  ProfileInv'
  BY <1>1, <1>2, <1>3, <1>6 DEF Frame, ProfileInv, AtRest, Others, MayStart
<1>7. UNCHANGED pc \/ \E p \in Procs : Runs(p) \/ Start(p) \/ Crash(p)
  BY DEF Next, Start, Procs, LeaseExpires, LockAges, vars
<1> QED
  BY <1>4, <1>5, <1>6, <1>7

-----------------------------------------------------------------------------
(* The claim protocol.                                                     *)

Step(p) == Runs(p) \/ Start(p) \/ Crash(p)

LEMMA StepOrTime ==
  ASSUME [Next]_vars
  PROVE  (\E p \in Procs : Step(p)) \/ LeaseExpires \/ LockAges \/ UNCHANGED vars
BY DEF Next, Step, Start, Procs

LEMMA StepMoves ==
  ASSUME TypeOK, NEW p \in Procs, Step(p)
  PROVE  Others(p) /\ (~ AtRest(p) \/ MayStart(p))
BY MarkLoadDoes, MarkWriteDoes, EnqueueWriteDoes, SweepDoes, ListDoes,
   ClaimDoes, LockDoes, BreakLockDoes, ReloadDoes, UnlockDoes, UploadDoes,
   StartDoes, CrashDoes
DEF Step, Runs, AtRest, Resting

(* In serial circumstances everybody else is at rest.                      *)
LEMMA Alone ==
  ASSUME TypeOK, ProfileInv, profile.serial, NEW p \in Procs, Step(p),
         NEW q \in Procs \ {p}
  PROVE  AtRest(q)
BY StepMoves DEF ProfileInv, MayStart

(* The moves a claim, the end of one and a reclaim make.                   *)
LEMMA LegalMoves ==
  /\ Legal("pending", Target("claim")) /\ Legal("failed", Target("claim"))
  /\ Legal("sending", Target("sent")) /\ Legal("sending", Target("failed"))
  /\ Legal("sending", Target("reclaim to list"))
  /\ Legal("sending", Target("reclaim to claim"))
<1>1. /\ Transitions["pending"] = {"sending", "dropped"}
      /\ Transitions["failed"] = {"sending", "pending", "dropped"}
      /\ Transitions["sending"] = {"sent", "failed", "pending"}
  BY DEF Transitions
<1>2. /\ Target("claim") = "sending" /\ Target("sent") = "sent"
      /\ Target("failed") = "failed" /\ Target("reclaim to list") = "pending"
      /\ Target("reclaim to claim") = "pending"
  BY DEF Target
<1> QED
  BY <1>1, <1>2 DEF Legal

(* What a write makes of the row.                                          *)
LEMMA MarkedIs ==
  ASSUME NEW p \in Procs, MarkWrite(p)
  PROVE  /\ row'.status = Target(goal[p])
         /\ Target(goal[p]) = "sending" => row'.owner = p /\ row'.lease = "live"
<1>1. PICK error \in Errors : row' = Marked(p, error)
  BY DEF MarkWrite
<1> QED
  BY <1>1 DEF Marked

(* Rows come into being and stay.                                          *)
LEMMA ThereStep ==
  TypeOK /\ WellPlaced /\ ThereInv /\ [Next]_vars => ThereInv'
<1> SUFFICES ASSUME TypeOK, WellPlaced, ThereInv, [Next]_vars PROVE ThereInv'
  OBVIOUS
<1>1. row.status # "absent" => row'.status # "absent"
  <2>1. UNCHANGED row \/ (\E p \in Procs : MarkWrite(p) \/ EnqueueWrite(p)) \/ LeaseExpires
    BY Frames DEF Frame
  <2>2. ASSUME NEW p \in Procs, MarkWrite(p) PROVE row'.status # "absent"
    <3>1. Fits(p, "write", goal[p])
      BY <2>2 DEF WellPlaced, MarkWrite
    <3> QED
      BY <2>2, <3>1, MarkedIs DEF Fits, Goals, Target, Resting, Claiming
  <2>3. CASE LeaseExpires
    BY <2>3 DEF LeaseExpires, TypeOK
  <2> QED
    BY <2>1, <2>2, <2>3 DEF EnqueueWrite, Pending, Absent
<1>2. ASSUME NEW p \in Procs, Step(p)
      PROVE  \/ pc'[p] \in Resting \cup {"enqueue", "sweep to list", "list"}
             \/ pc[p] \notin Resting \cup {"enqueue", "sweep to list", "list"}
             \/ row.status # "absent"
  <2>1. CASE MarkLoad(p)
    BY <2>1, MarkLoadDoes DEF Resting
  <2>2. CASE MarkWrite(p)
    BY <2>2, MarkWriteDoes DEF Resting
  <2>3. CASE EnqueueWrite(p)
    BY <2>3, EnqueueWriteDoes DEF Resting, At
  <2>4. CASE Sweep(p)
    BY <2>4, SweepDoes DEF At, Stale, Resting
  <2>5. CASE List(p)
    BY <2>5, ListDoes DEF At, Resting
  <2>6. CASE Claim(p) \/ Lock(p) \/ BreakLock(p) \/ Reload(p) \/ Unlock(p) \/ Upload(p)
    BY <2>6, ClaimDoes, LockDoes, BreakLockDoes, ReloadDoes, UnlockDoes, UploadDoes
    DEF Resting
  <2>7. CASE Start(p)
    BY <2>7, StartDoes DEF At, Resting
  <2>8. CASE Crash(p)
    BY <2>8, CrashDoes DEF At, Resting
  <2> QED
    BY <1>2, <2>1, <2>2, <2>3, <2>4, <2>5, <2>6, <2>7, <2>8 DEF Step, Runs
<1>3. ASSUME NEW p \in Procs, Step(p) PROVE ThereInv'
  BY <1>1, <1>2, <1>3, StepMoves DEF ThereInv, Others
<1>4. CASE LeaseExpires \/ LockAges \/ UNCHANGED vars
  BY <1>1, <1>4 DEF ThereInv, LeaseExpires, LockAges, vars
<1> QED
  BY <1>3, <1>4, StepOrTime

(* Overlapping drains that neither crash nor stall keep their leases and   *)
(* locks fresh.                                                            *)
LEMMA SteadyStep ==
  TypeOK /\ WellPlaced /\ ProfileInv /\ ClaimInv /\ SteadyInv /\ [Next]_vars
    => SteadyInv'
<1> SUFFICES ASSUME TypeOK, WellPlaced, ProfileInv, ClaimInv, SteadyInv, [Next]_vars,
                    Guarded', ~ profile'.serial
             PROVE  SteadyInv'
  BY DEF SteadyInv
<1>1. /\ UNCHANGED profile /\ Guarded /\ ~ profile.serial
      /\ profile.faults \subseteq {"fail", "lost"} /\ Retry \notin profile.actors
  BY Frames DEF Frame, Guarded
<1>2. /\ \A f \in Faults : Strikes(f) => f \in {"fail", "lost"}
      /\ \A p \in Procs : ~ auth[p]
  BY <1>1 DEF Strikes, ProfileInv
<1> DEFINE Kept(p) == pc[p] # "break"
             /\ goal[p] \notin {"reclaim to list", "reclaim to claim", "steal", "retry"}
           Leased == row.status = "sending" => row.lease = "live" /\ InLease(row.owner)
           Locked == lock # Free => ~ lock.aged /\ InLock(lock.holder)
<1>3. Leased /\ Locked /\ \A p \in Procs : Kept(p) /\ Exclusive(p) /\ Fits(p, pc[p], goal[p])
  BY <1>1 DEF SteadyInv, ClaimInv, WellPlaced
<1>4. /\ row.status = "sending" => row.owner \in Procs
      /\ lock # Free => lock.holder \in Procs
  <2>1. lock \in [holder : Drainers \cup {NoOne}, aged : BOOLEAN] /\ ~ lock.aged =>
          lock.holder \in Procs \/ lock = [holder |-> NoOne, aged |-> FALSE]
    BY DEF Procs
  <2> QED
    BY <1>3, <2>1 DEF TypeOK, Procs, Free
<1>5. ASSUME NEW p \in Procs, Others(p), UNCHANGED <<row, lock>>,
             InLease(p) => InLease(p)', InLock(p) => InLock(p)'
      PROVE  Leased' /\ Locked'
  <2>1. \A q \in Procs : (InLease(q) => InLease(q)') /\ (InLock(q) => InLock(q)')
    BY <1>5 DEF Others, InLease, InLock
  <2> QED
    BY <1>3, <1>4, <1>5, <2>1
<1>6. ASSUME NEW p \in Procs, Step(p)
      PROVE  Kept(p)' /\ Leased' /\ Locked'
  <2> USE DEF At, InLease, InLock
  <2>0. /\ Exclusive(p) /\ Fits(p, pc[p], goal[p]) /\ ~ auth[p]
        /\ pc[p] # "break"
        /\ goal[p] \notin {"reclaim to list", "reclaim to claim", "steal", "retry"}
    BY <1>2, <1>3
  <2>1. CASE MarkLoad(p)
    <3>1. pc[p] = "mark" /\ Others(p) /\ UNCHANGED <<world, row, lock, auth>>
      BY <2>1, MarkLoadDoes
    <3>2. goal[p] \in {"claim", "sent", "failed"}
      BY <2>0, <3>1 DEF Fits, Goals, Resting, Claiming
    <3>3. Legal(row.status, Target(goal[p]))
      <4>1. CASE goal[p] = "claim"
        <5>1. row.status \in {"pending", "failed"}
          BY <2>0, <3>1, <4>1 DEF Exclusive, Claimable
        <5> QED
          BY <4>1, <5>1, LegalMoves
      <4>2. CASE goal[p] # "claim"
        <5>1. row.status = "sending"
          BY <2>0, <3>1, <3>2, <4>2 DEF Exclusive
        <5> QED
          BY <3>2, <4>2, <5>1, LegalMoves
      <4> QED
        BY <4>1, <4>2
    <3>4. At(p, "write", goal[p])
      BY <2>1, <3>3, MarkLoadDoes
    <3> QED
      BY <1>5, <3>1, <3>2, <3>4
  <2>2. CASE MarkWrite(p)
    <3>1. pc[p] = "write" /\ Others(p) /\ UNCHANGED <<world, lock, auth>>
      BY <2>2, MarkWriteDoes
    <3>2. goal[p] \in {"claim", "sent", "failed"}
      BY <2>0, <3>1 DEF Fits, Goals, Resting, Claiming
    <3>3. CASE goal[p] = "claim"
      <4>1. /\ row'.status = "sending" /\ row'.owner = p /\ row'.lease = "live"
            /\ At(p, "unlock", "claim")
        BY <2>2, <3>1, <3>3, MarkWriteDoes, MarkedIs DEF Target
      <4> QED
        BY <1>3, <1>4, <3>1, <4>1 DEF Others
    <3>4. CASE goal[p] # "claim"
      <4>1. row'.status # "sending" /\ At(p, "idle", "none")
        BY <2>2, <3>1, <3>2, <3>4, MarkWriteDoes, MarkedIs DEF Target
      <4>2. ~ InLock(p)
        BY <3>1, <3>4
      <4> QED
        BY <1>3, <1>4, <3>1, <4>1, <4>2 DEF Others
    <3> QED
      BY <3>3, <3>4
  <2>3. CASE EnqueueWrite(p)
    <3>1. /\ pc[p] = "enqueue" /\ Others(p) /\ At(p, "idle", "none") /\ row' = Pending
          /\ UNCHANGED <<world, lock, auth>>
      BY <2>3, EnqueueWriteDoes
    <3>2. ~ InLock(p)
      BY <3>1
    <3> QED
      BY <1>3, <1>4, <3>1, <3>2 DEF Others, Pending, Absent
  <2>4. CASE Sweep(p)
    <3>1. ~ Stale
      BY <1>3 DEF Stale
    <3> QED
      BY <1>5, <2>0, <2>4, <3>1, SweepDoes
  <2>5. CASE List(p)
    BY <1>5, <2>0, <2>5, ListDoes
  <2>6. CASE Claim(p)
    BY <1>5, <2>0, <2>6, ClaimDoes DEF Refused
  <2>7. CASE Lock(p)
    <3>1. /\ pc[p] \in {"lock", "relock"} /\ Others(p) /\ UNCHANGED <<world, row, auth>>
          /\ ~ InLease(p) /\ ~ InLock(p)
      BY <2>7, LockDoes
    <3>2. CASE lock' = [holder |-> p, aged |-> FALSE] /\ At(p, "reload", "none")
      BY <1>3, <1>4, <3>1, <3>2 DEF Others
    <3>3. CASE UNCHANGED lock /\ At(p, "idle", "none")
      BY <1>5, <3>1, <3>3
    <3> QED
      BY <1>3, <2>0, <2>7, <3>2, <3>3, LockDoes DEF Refused
  <2>8. CASE BreakLock(p)
    BY <2>0, <2>8, BreakLockDoes
  <2>9. CASE Reload(p)
    BY <1>5, <2>0, <2>9, ReloadDoes
  <2>10. CASE Unlock(p)
    <3>1. /\ pc[p] \in {"unlock", "unlock and raise"} /\ Others(p) /\ lock' = Free
          /\ UNCHANGED <<world, row, auth>>
      BY <2>10, UnlockDoes
    <3>2. goal'[p] = "none" /\ pc'[p] # "break" /\ (InLease(p) => InLease(p)')
      BY <2>0, <2>10, UnlockDoes DEF Refused
    <3> QED
      BY <1>3, <1>4, <3>1, <3>2 DEF Others
  <2>11. CASE Upload(p)
    <3>1. goal'[p] \in {"sent", "failed"} /\ pc'[p] = "mark" /\ pc[p] = "upload"
      BY <2>11, UploadDoes
    <3> QED
      BY <1>5, <2>11, <3>1, UploadDoes
  <2>12. CASE Start(p)
    BY <1>1, <1>5, <2>12, StartDoes DEF MayStart, AtRest, Resting
  <2>13. CASE Crash(p)
    BY <1>2, <2>13, CrashDoes DEF Faults
  <2> QED
    BY <1>6, <2>1, <2>2, <2>3, <2>4, <2>5, <2>6, <2>7, <2>8, <2>9, <2>10, <2>11,
       <2>12, <2>13
    DEF Step, Runs
<1>7. ASSUME NEW p \in Procs, Step(p) PROVE SteadyInv'
  <2>1. \A q \in Procs : Kept(q)'
    BY <1>3, <1>6, <1>7, StepMoves DEF Others
  <2> QED
    BY <1>6, <1>7, <2>1 DEF SteadyInv
<1>8. ~ LeaseExpires /\ ~ LockAges
  BY <1>2, <1>3, <1>4 DEF LeaseExpires, LockAges, Faults, TypeOK
<1>9. CASE UNCHANGED vars
  BY <1>9 DEF vars, SteadyInv, Guarded, InLease, InLock
<1> QED
  BY <1>7, <1>8, <1>9, StepOrTime

(* Under the claim file only its holder moves the row.                     *)
LEMMA ClaimStep ==
  TypeOK /\ WellPlaced /\ ProfileInv /\ SteadyInv /\ ThereInv /\ ClaimInv /\ [Next]_vars
    => ClaimInv'
<1> SUFFICES ASSUME TypeOK, WellPlaced, ProfileInv, SteadyInv, ThereInv, ClaimInv,
                    [Next]_vars, Guarded'
             PROVE  \A p \in Procs : Exclusive(p)'
  BY DEF ClaimInv
<1>1. UNCHANGED profile /\ Guarded
  BY Frames DEF Frame, Guarded
<1>2. \A p \in Procs : Exclusive(p) /\ Fits(p, pc[p], goal[p])
  BY <1>1 DEF ClaimInv, WellPlaced
<1>3. ASSUME NEW p \in Procs, Step(p) PROVE Exclusive(p)'
  <2> USE DEF At, InLease, InLock, Exclusive, Claimable
  <2>0. Exclusive(p) /\ Fits(p, pc[p], goal[p])
    BY <1>2
  <2>1. CASE MarkLoad(p)
    BY <2>0, <2>1, MarkLoadDoes
  <2>2. CASE MarkWrite(p)
    <3>1. /\ pc[p] = "write" /\ UNCHANGED lock
          /\ row'.status = Target(goal[p])
          /\ Target(goal[p]) = "sending" => row'.owner = p
      BY <2>2, MarkWriteDoes, MarkedIs
    <3>2. CASE goal[p] \in {"claim", "steal"}
      <4>1. row'.status = "sending" /\ row'.owner = p
        BY <3>1, <3>2 DEF Target
      <4> QED
        BY <2>0, <2>2, <3>1, <3>2, <4>1, MarkWriteDoes
    <3>3. CASE goal[p] \notin {"claim", "steal"}
      BY <2>2, <3>3, MarkWriteDoes
    <3> QED
      BY <3>2, <3>3
  <2>3. CASE EnqueueWrite(p)
    BY <2>3, EnqueueWriteDoes
  <2>4. CASE Sweep(p)
    BY <2>4, SweepDoes
  <2>5. CASE List(p)
    BY <2>5, ListDoes
  <2>6. CASE Claim(p)
    BY <2>6, ClaimDoes DEF Refused
  <2>7. CASE Lock(p)
    <3>1. CASE lock' = [holder |-> p, aged |-> FALSE] /\ At(p, "reload", "none")
      BY <3>1
    <3>2. CASE At(p, "break", "none") \/ Refused(p)
      BY <3>2 DEF Refused
    <3> QED
      BY <2>7, <3>1, <3>2, LockDoes
  <2>8. CASE BreakLock(p)
    BY <2>8, BreakLockDoes
  <2>9. CASE Reload(p)
    BY <2>0, <2>9, ReloadDoes
  <2>10. CASE Unlock(p)
    BY <2>0, <2>10, UnlockDoes DEF Refused
  <2>11. CASE Upload(p)
    BY <2>0, <2>11, UploadDoes
  <2>12. CASE Start(p)
    BY <2>12, StartDoes
  <2>13. CASE Crash(p)
    BY <2>13, CrashDoes
  <2> QED
    BY <1>3, <2>1, <2>2, <2>3, <2>4, <2>5, <2>6, <2>7, <2>8, <2>9, <2>10, <2>11,
       <2>12, <2>13
    DEF Step, Runs
(* Somebody else, who then does not rest.                                  *)
<1>4. ASSUME NEW p \in Procs, Step(p), NEW q \in Procs \ {p} PROVE Exclusive(q)'
  <2>0. /\ Exclusive(p) /\ Exclusive(q) /\ q # p
        /\ Fits(p, pc[p], goal[p]) /\ Fits(q, pc[q], goal[q])
    BY <1>2
  <2>1. pc'[q] = pc[q] /\ goal'[q] = goal[q]
    BY <1>4, StepMoves DEF Others
  <2>2. CASE AtRest(q)
    BY <2>1, <2>2 DEF Exclusive, InLease, InLock, AtRest, Resting
  <2>3. CASE ~ AtRest(q)
    <3>1. ~ profile.serial
      BY <1>4, <2>3, Alone
    <3>2. /\ pc[p] # "break" /\ goal[p] \notin {"reclaim to list", "reclaim to claim",
                                                 "steal", "retry"}
      BY <1>1, <3>1 DEF SteadyInv
    <3>3. CASE UNCHANGED <<row, lock>>
      BY <2>0, <2>1, <3>3 DEF Exclusive, InLease, InLock, Claimable
    <3>4. CASE MarkWrite(p)
      <4>1. pc[p] = "write" /\ UNCHANGED lock
        BY <3>4, MarkWriteDoes
      <4>2. goal[p] \in {"claim", "sent", "failed"}
        BY <2>0, <3>2, <4>1 DEF Fits, Goals, Resting, Claiming
      <4>3. row.status # "absent"
        BY <4>1 DEF ThereInv, Resting
      <4>4. CASE goal[p] = "claim"
        <5>1. Claimable /\ lock.holder = p
          BY <2>0, <4>1, <4>4 DEF Exclusive, InLock
        <5>2. ~ InLock(q) /\ ~ InLease(q) /\ pc[q] # "enqueue"
          BY <2>0, <4>3, <5>1 DEF Exclusive, Claimable
        <5> QED
          BY <2>1, <5>2 DEF Exclusive, InLock, InLease
      <4>5. CASE goal[p] # "claim"
        <5>1. row.status = "sending" /\ row.owner = p
          BY <2>0, <4>1, <4>2, <4>5 DEF Exclusive, InLease
        <5>2. /\ ~ InLease(q) /\ pc[q] # "enqueue"
              /\ ~ (pc[q] \in {"mark", "write"} /\ goal[q] = "claim")
          BY <2>0, <4>3, <5>1 DEF Exclusive, Claimable
        <5> QED
          BY <2>0, <2>1, <4>1, <5>2 DEF Exclusive, InLock, InLease
      <4> QED
        BY <4>4, <4>5
    <3>5. CASE EnqueueWrite(p)
      <4>1. pc[p] = "enqueue" /\ row.status = "absent" /\ UNCHANGED lock
        BY <2>0, <3>5, EnqueueWriteDoes DEF Exclusive
      <4>2. pc[q] # "enqueue"
        <5>1. pc[q] = "enqueue" => p \in Enqueuers /\ q \in Enqueuers
          BY <2>0, <4>1, QueueAssumption DEF Fits, Resting, Claiming
        <5>2. {p, q} \subseteq profile.actors
          BY <2>3, <4>1 DEF ProfileInv, AtRest, Resting
        <5> QED
          BY <1>1, <2>0, <3>1, <5>1, <5>2 DEF Guarded
      <4>3. ~ InLease(q) /\ ~ (pc[q] \in {"mark", "write"} /\ goal[q] = "claim")
        BY <2>0, <4>1 DEF Exclusive, Claimable
      <4> QED
        BY <2>0, <2>1, <4>1, <4>2, <4>3 DEF Exclusive, InLock, InLease
    <3>6. CASE Lock(p)
      <4>1. InLock(q) => lock # Free
        BY <2>0, QueueAssumption DEF Exclusive, Free
      <4> QED
        BY <2>0, <2>1, <3>6, <4>1, LockDoes
        DEF Exclusive, InLock, InLease, Claimable
    <3>7. CASE Unlock(p)
      <4>1. InLock(p) /\ UNCHANGED row
        BY <3>7, UnlockDoes DEF InLock
      <4>2. ~ InLock(q)
        BY <2>0, <4>1 DEF Exclusive
      <4> QED
        BY <2>0, <2>1, <4>1, <4>2 DEF Exclusive, InLock, InLease, Claimable
    <3>8. ~ BreakLock(p)
      BY <3>2, BreakLockDoes
    <3> QED
      BY <1>4, <3>3, <3>4, <3>5, <3>6, <3>7, <3>8, MarkLoadDoes, SweepDoes, ListDoes,
         ClaimDoes, ReloadDoes, UploadDoes, StartDoes, CrashDoes
      DEF Step, Runs
  <2> QED
    BY <2>2, <2>3
<1>5. CASE LeaseExpires \/ LockAges
  <2>1. UNCHANGED <<pc, goal>> /\ row'.status = row.status /\ row'.owner = row.owner
        /\ lock'.holder = lock.holder
    BY <1>5 DEF LeaseExpires, LockAges, TypeOK
  <2> QED
    BY <1>2, <2>1 DEF Exclusive, InLock, InLease, Claimable
<1>6. CASE UNCHANGED vars
  BY <1>2, <1>6 DEF vars, Exclusive, InLock, InLease, Claimable
<1> QED
  BY <1>3, <1>4, <1>5, <1>6, StepOrTime

(* A transition that was checked is still legal when it is written.        *)
LEMMA LegalStep ==
  TypeOK /\ WellPlaced /\ ProfileInv /\ SteadyInv /\ ThereInv /\ ClaimInv /\ LegalInv
    /\ [Next]_vars => LegalInv'
<1> SUFFICES ASSUME TypeOK, WellPlaced, ProfileInv, SteadyInv, ThereInv, ClaimInv,
                    LegalInv, [Next]_vars, Guarded'
             PROVE  \A p \in Procs : Timely(p)'
  BY DEF LegalInv
<1>1. UNCHANGED profile /\ Guarded
  BY Frames DEF Frame, Guarded
<1>2. \A p \in Procs : Exclusive(p) /\ Timely(p) /\ Fits(p, pc[p], goal[p])
  BY <1>1 DEF ClaimInv, LegalInv, WellPlaced
<1>3. ASSUME NEW p \in Procs, Step(p) PROVE Timely(p)'
  <2> USE DEF At, Timely
  <2>0. Exclusive(p) /\ Timely(p) /\ Fits(p, pc[p], goal[p])
    BY <1>2
  <2>1. CASE MarkLoad(p)
    <3>1. pc[p] = "mark" /\ UNCHANGED <<world, row, lock, auth>>
      BY <2>1, MarkLoadDoes
    <3>2. goal[p] \in {"reclaim to list", "reclaim to claim", "claim"}
            => Legal(row.status, Target(goal[p]))
      BY <2>0, <3>1, LegalMoves DEF Exclusive, Claimable
    <3> QED
      BY <2>0, <2>1, <3>1, <3>2, MarkLoadDoes
  <2>2. CASE MarkWrite(p)
    BY <2>2, MarkWriteDoes
  <2>3. CASE EnqueueWrite(p)
    BY <2>3, EnqueueWriteDoes
  <2>4. CASE Sweep(p)
    BY <2>4, SweepDoes DEF Stale
  <2>5. CASE List(p)
    BY <2>5, ListDoes
  <2>6. CASE Claim(p)
    BY <2>6, ClaimDoes DEF Refused
  <2>7. CASE Lock(p)
    BY <2>7, LockDoes DEF Refused
  <2>8. CASE BreakLock(p)
    BY <2>8, BreakLockDoes
  <2>9. CASE Reload(p)
    BY <2>9, ReloadDoes
  <2>10. CASE Unlock(p)
    BY <2>0, <2>10, UnlockDoes DEF Refused
  <2>11. CASE Upload(p)
    BY <2>11, UploadDoes
  <2>12. CASE Start(p)
    BY <2>12, StartDoes
  <2>13. CASE Crash(p)
    BY <2>13, CrashDoes
  <2> QED
    BY <1>3, <2>1, <2>2, <2>3, <2>4, <2>5, <2>6, <2>7, <2>8, <2>9, <2>10, <2>11,
       <2>12, <2>13
    DEF Step, Runs
<1>4. ASSUME NEW p \in Procs, Step(p), NEW q \in Procs \ {p} PROVE Timely(q)'
  <2>0. Timely(q) /\ Fits(q, pc[q], goal[q])
    BY <1>2
  <2>1. pc'[q] = pc[q] /\ goal'[q] = goal[q]
    BY <1>4, StepMoves DEF Others
  <2>2. CASE AtRest(q)
    BY <2>0, <2>1, <2>2, QueueAssumption
    DEF Timely, AtRest, Resting, Fits, Claiming
  <2>3. CASE ~ AtRest(q)
    <3>1. ~ profile.serial
      BY <1>4, <2>3, Alone
    <3>2. goal[q] \notin {"reclaim to list", "reclaim to claim", "steal", "retry"}
      BY <1>1, <3>1 DEF SteadyInv
    <3>3. ClaimInv'
      BY ClaimStep
    <3>4. Exclusive(q)'
      BY <1>1, <3>3 DEF ClaimInv
    <3>5. ASSUME pc[q] = "write" PROVE Legal(row'.status, Target(goal[q]))
      <4>1. goal[q] \in {"claim", "sent", "failed"}
        BY <2>0, <3>2, <3>5 DEF Fits, Goals, Resting, Claiming
      <4>2. CASE goal[q] = "claim"
        <5>1. row'.status \in {"pending", "failed"}
          BY <2>1, <3>4, <3>5, <4>2 DEF Exclusive, Claimable
        <5> QED
          BY <4>2, <5>1, LegalMoves
      <4>3. CASE goal[q] # "claim"
        <5>1. row'.status = "sending"
          BY <2>1, <3>4, <3>5, <4>1, <4>3 DEF Exclusive, InLease
        <5> QED
          BY <4>1, <4>3, <5>1, LegalMoves
      <4> QED
        BY <4>2, <4>3
    <3> QED
      BY <2>0, <2>1, <3>2, <3>5 DEF Timely
  <2> QED
    BY <2>2, <2>3
<1>5. CASE LeaseExpires \/ LockAges \/ UNCHANGED vars
  <2>1. UNCHANGED <<pc, goal>> /\ row'.status = row.status
    BY <1>5 DEF LeaseExpires, LockAges, TypeOK, vars
  <2> QED
    BY <1>2, <2>1 DEF Timely
<1> QED
  BY <1>3, <1>4, <1>5, StepOrTime

(* Every legal write keeps a sent row sent.                                *)
LEMMA MovesLegally ==
  ASSUME TypeOK, WellPlaced, ClaimInv, LegalInv, [Next]_vars, Guarded,
         row.status # "absent"
  PROVE  Legal(row.status, row'.status)
<1>1. UNCHANGED row \/ (\E p \in Procs : MarkWrite(p) \/ EnqueueWrite(p)) \/ LeaseExpires
  BY Frames DEF Frame
<1>2. ASSUME NEW p \in Procs, MarkWrite(p) PROVE Legal(row.status, row'.status)
  <2>1. pc[p] = "write" /\ row'.status = Target(goal[p])
    BY <1>2, MarkWriteDoes, MarkedIs
  <2> QED
    BY <2>1 DEF LegalInv, Timely
<1>3. ASSUME NEW p \in Procs, EnqueueWrite(p) PROVE FALSE
  BY <1>3, EnqueueWriteDoes DEF ClaimInv, Exclusive
<1>4. CASE LeaseExpires
  BY <1>4 DEF LeaseExpires, TypeOK, Legal
<1> QED
  BY <1>1, <1>2, <1>3, <1>4 DEF Legal

(* An upload that succeeds is marked, or its drain died.                   *)
LEMMA UploadStep ==
  TypeOK /\ WellPlaced /\ ProfileInv /\ ClaimInv /\ LegalInv /\ UploadInv /\ [Next]_vars
    => UploadInv'
<1> SUFFICES ASSUME TypeOK, WellPlaced, ProfileInv, ClaimInv, LegalInv, UploadInv,
                    [Next]_vars, Guarded'
             PROVE  UploadInv'
  BY DEF UploadInv
<1>1. Guarded /\ uploads \in Nat
  BY Frames DEF Frame, Guarded, TypeOK
<1>2. \A p \in Procs : Exclusive(p) /\ Timely(p) /\ Fits(p, pc[p], goal[p])
  BY <1>1 DEF ClaimInv, LegalInv, WellPlaced
<1> DEFINE Accounted == row.status = "sent" \/ \E d \in Drainers : goal[d] = "sent"
           Died == "crash" \in struck
           Lost == "lost" \in struck
<1>3. uploads <= (IF Died THEN 1 ELSE 0) + (IF Lost THEN 1 ELSE 0)
                 + (IF Accounted THEN 1 ELSE 0)
  BY <1>1 DEF UploadInv, Struck
<1>4. (Died => Died') /\ (Lost => Lost')
  BY Frames DEF Frame, Strikes
<1>5. row.status = "sent" => row'.status = "sent"
  <2>1. row.status = "sent" => Legal("sent", row'.status)
    BY <1>1, MovesLegally
  <2> QED
    BY <2>1 DEF Legal, Transitions
<1>6. CASE uploads' = uploads /\ (Accounted => Accounted' \/ (~ Died /\ Died'))
  <2> SUFFICES uploads' <= (IF Died' THEN 1 ELSE 0) + (IF Lost' THEN 1 ELSE 0)
                           + (IF Accounted' THEN 1 ELSE 0)
    BY DEF UploadInv, Struck
  <2> HIDE DEF Accounted, Died, Lost
  <2> QED
    BY <1>1, <1>3, <1>4, <1>6
<1>7. ASSUME NEW p \in Procs, Upload(p), uploads' # uploads PROVE UploadInv'
  <2>1. /\ pc[p] = "upload" /\ uploads' = uploads + 1
        /\ \/ At(p, "mark", "sent") /\ UNCHANGED struck
           \/ At(p, "mark", "failed") /\ ~ Lost /\ Lost'
    BY <1>7, UploadDoes DEF OneMore, Strikes
  <2>2. p \in Drainers /\ goal[p] = "none" /\ InLease(p)
    BY <1>2, <2>1 DEF Fits, Claiming, Resting, InLease
  <2>3. row.status = "sending" /\ row.owner = p
    BY <1>2, <2>2 DEF Exclusive
  <2>4. ASSUME NEW d \in Drainers, goal[d] = "sent" PROVE FALSE
    <3>1. d \in Procs /\ pc[d] \in {"mark", "write"}
      BY <1>2, <2>4, QueueAssumption DEF Procs, Fits
    <3> QED
      BY <1>2, <2>2, <2>3, <2>4, <3>1 DEF Exclusive, InLease
  <2>5. ~ Accounted
    BY <2>3, <2>4
  <2>6. Accounted' \/ (~ Lost /\ Lost')
    BY <2>1, <2>2 DEF At
  <2> SUFFICES uploads' <= (IF Died' THEN 1 ELSE 0) + (IF Lost' THEN 1 ELSE 0)
                           + (IF Accounted' THEN 1 ELSE 0)
    BY DEF UploadInv, Struck
  <2> HIDE DEF Accounted, Died, Lost
  <2> QED
    BY <1>1, <1>3, <1>4, <2>1, <2>5, <2>6
<1>8. ASSUME NEW p \in Procs, Step(p) PROVE Accounted => Accounted' \/ (~ Died /\ Died')
  <2> SUFFICES ASSUME Accounted PROVE Accounted' \/ (~ Died /\ Died')
    OBVIOUS
  <2>1. CASE goal[p] # "sent"
    <3>1. \A q \in Procs : goal[q] = "sent" => goal'[q] = "sent"
      BY <1>8, <2>1, StepMoves DEF Others
    <3> QED
      BY <1>5, <3>1 DEF Procs
  <2>2. CASE goal[p] = "sent"
    <3>1. p \in Drainers /\ pc[p] \in {"mark", "write"} /\ InLease(p)
      BY <1>2, <2>2 DEF Fits, InLease
    <3>2. row.status = "sending"
      BY <1>2, <3>1 DEF Exclusive
    <3>3. CASE MarkLoad(p)
      <4>1. goal'[p] = "sent"
        BY <2>2, <3>2, <3>3, MarkLoadDoes, LegalMoves DEF At
      <4> QED
        BY <3>1, <4>1
    <3>4. CASE MarkWrite(p)
      <4>1. row'.status = "sent"
        BY <2>2, <3>4, MarkWriteDoes, MarkedIs DEF Target
      <4> QED
        BY <4>1
    <3>5. CASE Crash(p)
      BY <3>5, CrashDoes DEF Strikes
    <3>6. MarkLoad(p) \/ MarkWrite(p) \/ Crash(p)
      BY <1>8, <3>1, EnqueueWriteDoes, SweepDoes, ListDoes, ClaimDoes, LockDoes,
         BreakLockDoes, ReloadDoes, UnlockDoes, UploadDoes, StartDoes
      DEF Step, Runs, MayStart, AtRest, Resting
    <3> QED
      BY <3>3, <3>4, <3>5, <3>6
  <2> QED
    BY <2>1, <2>2
<1>9. CASE LeaseExpires \/ LockAges \/ UNCHANGED vars
  BY <1>5, <1>6, <1>9 DEF LeaseExpires, LockAges, vars
<1>10. ASSUME NEW p \in Procs, Step(p) PROVE UploadInv'
  BY <1>6, <1>7, <1>8, <1>10, Frames DEF Frame
<1> QED
  BY <1>9, <1>10, StepOrTime
-----------------------------------------------------------------------------
LEMMA InitHolds == Init => QInv
<1> SUFFICES ASSUME Init PROVE QInv
  OBVIOUS
<1>1. Cardinality({}) = 0
  BY FS_EmptySet
<1>2. TypeOK
  BY <1>1, QueueAssumption
  DEF Init, TypeOK, Absent, Free, Statuses, Places, Goals, Faults
<1>3. WellPlaced /\ ProfileInv /\ ThereInv
  BY DEF Init, WellPlaced, ProfileInv, ThereInv, Fits, Resting, AtRest
<1>4. SteadyInv /\ ClaimInv /\ LegalInv /\ UploadInv
  BY
  DEF Init, SteadyInv, ClaimInv, LegalInv, UploadInv, Absent, Exclusive,
     Timely, InLock, InLease, Struck
<1> QED
  BY <1>2, <1>3, <1>4 DEF QInv

(* In every behaviour of the queue, whatever the circumstances, QInv       *)
(* holds.                                                                  *)
THEOREM QueueInvariance == Spec => []QInv
<1>1. QInv /\ [Next]_vars => QInv'
  BY TypeStep, PlacedStep, ProfileStep, ThereStep, SteadyStep, ClaimStep, LegalStep,
     UploadStep
  DEF QInv
<1> QED
  BY <1>1, InitHolds, PTL DEF Spec

(* The row, the claim file and the processes keep their shape.             *)
THEOREM QueueTypeCorrect == Spec => []TypeOK
<1>1. QInv => TypeOK
  BY DEF QInv
<1> QED
  BY <1>1, QueueInvariance, PTL

(* Where the claim protocol is guarded, one drain at a time has the row,   *)
(* for any number of drains.                                               *)
THEOREM OneUploaderAtATime == Spec => []OneUploader
<1>1. QInv => OneUploader
  <2> SUFFICES ASSUME QInv, Guarded
               PROVE  \A d \in Drainers :
                        InLease(d) => row.status = "sending" /\ row.owner = d
    BY DEF OneUploader
  <2> QED
    BY DEF QInv, ClaimInv, Exclusive, Procs
<1> QED
  BY <1>1, QueueInvariance, PTL

(* Where it is guarded, a row is uploaded once, and once more for a crash  *)
(* and for an answer that was lost.                                        *)
THEOREM UploadedOnceOrCrashed == Spec => []UploadedOnce
<1>1. QInv => UploadedOnce
  BY DEF QInv, UploadInv, UploadedOnce, Struck, TypeOK
<1> QED
  BY <1>1, QueueInvariance, PTL

(* Where it is guarded, no drain raises.                                   *)
THEOREM GuardedDrainsReturn == Spec => []GuardedNeverRaises
<1>1. QInv => GuardedNeverRaises
  BY DEF QInv, LegalInv, Timely, GuardedNeverRaises, Procs
<1> QED
  BY <1>1, QueueInvariance, PTL

(* Where it is guarded, the row's file only makes the moves of             *)
(* _TRANSITIONS: what is sent stays sent.                                  *)
THEOREM MovesAreLegal == Spec => StatusesMoveLegally
<1>1. QInv /\ [Next]_vars =>
        [Guarded /\ row.status # "absent" => Legal(row.status, row'.status)]_row
  BY MovesLegally DEF QInv
<1> QED
  BY <1>1, QueueInvariance, PTL DEF Spec, StatusesMoveLegally
============================================================================
