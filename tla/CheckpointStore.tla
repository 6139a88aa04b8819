-------------------------- MODULE CheckpointStore --------------------------
(***************************************************************************)
(* The checkpoints of the suite runs of one suite, under .eval/checkpoints *)
(* and .eval/index/checkpoints (src/git_cg/eval/checkpoint_store.py).      *)
(*                                                                         *)
(* A checkpoint is two files: the payload, which is the authority, and a   *)
(* rebuildable index row.  Each is replaced atomically, but never both at  *)
(* once, so a process that dies in between leaves one without the other.   *)
(* Timestamps are whole ticks of a clock, and checkpoints started within   *)
(* one tick are ordered by their random ids.                               *)
(***************************************************************************)
EXTENDS Naturals, FiniteSets

CONSTANTS
  Ids,         \* checkpoint ids, numbered in the order of their strings
  Cases,       \* the cases of the suite
  Hashes,      \* the compat hashes of the inputs a run may have been started on
  None,        \* no file
  MaxClock     \* bound: where the clock stops

ASSUME StoreAssumption ==
  /\ Ids \subseteq Nat /\ Cases \subseteq Nat /\ MaxClock \in Nat
  /\ IsFiniteSet(Ids)

Statuses == {"running", "completed", "failed"}
Time     == 0 .. MaxClock

Payload == [status : Statuses, started : Time, hash : Hashes,
            completed : SUBSET Cases, pending : SUBSET Cases]
Row     == [status : Statuses, started : Time]

VARIABLES
  payload,     \* per id: the authoritative file
  row          \* per id: the index row

StoreType ==
  /\ payload \in [Ids -> Payload \cup {None}]
  /\ row \in [Ids -> Row \cup {None}]

RowOf(p) == [status |-> p.status, started |-> p.started]
-----------------------------------------------------------------------------
(* write_checkpoint and delete_checkpoint, one file at a time.             *)
PutPayload(id, p) == payload' = [payload EXCEPT ![id] = p] /\ UNCHANGED row
PutRow(id, p)     == row' = [row EXCEPT ![id] = RowOf(p)] /\ UNCHANGED payload
DropPayload(id)   == payload' = [payload EXCEPT ![id] = None] /\ UNCHANGED row
DropRow(id)       == row' = [row EXCEPT ![id] = None] /\ UNCHANGED payload
-----------------------------------------------------------------------------
(* What listing and pruning see: the payload where it can be read, else    *)
(* the last known index row.                                               *)
Seen    == {id \in Ids : payload[id] # None \/ row[id] # None}
View(id) == IF payload[id] # None THEN RowOf(payload[id]) ELSE row[id]

Older(a, b) ==
  \/ View(a).started < View(b).started
  \/ View(a).started = View(b).started /\ a < b

HasCompleted == \E id \in Seen : View(id).status = "completed"

(* A run that has been going for longer than the operator's bound, told    *)
(* from its payload only.  bound = 0: reclaim was not asked for.           *)
StaleRunning(id, bound, now) ==
  /\ bound > 0
  /\ payload[id] # None
  /\ now - View(id).started > bound

RetainedRunning(id) == View(id).status = "running"   \* no care for failures

Retained(id) ==
  \/ View(id).status = "failed" /\ ~ HasCompleted
  \/ View(id).status = "running"

(* What prune_checkpoints sets out to delete: the terminal ones beyond the *)
(* newest keepLast, and the stale running ones.                            *)
Stale(protect, bound, now) ==
  {id \in Seen \ protect : View(id).status = "running" /\ StaleRunning(id, bound, now)}

Doomed(protect, keepLast, bound, now) ==
  LET candidates == {id \in Seen \ protect : ~ Retained(id)}
      newer(id)  == {other \in candidates : Older(id, other)}
  IN  {id \in candidates : Cardinality(newer(id)) >= keepLast}
      \cup Stale(protect, bound, now)
=============================================================================
