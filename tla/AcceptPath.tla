----------------------------- MODULE AcceptPath -----------------------------
(***************************************************************************)
(* From an accepted message to its evidence: the hand-off file that        *)
(* generation leaves for the commit-msg hook (telemetry.py), the hook      *)
(* (record_telemetry in main.py and eval/binding/accept_hook.py), the      *)
(* binder with its lock, its session reuse and its cache of it             *)
(* (eval/binding/binder.py, lock.py), and the garbage collection of the    *)
(* bundles (eval/gc.py).                                                   *)
(*                                                                         *)
(* Hooks are processes, which may overlap and may die.  The accept event   *)
(* of a commit is named after the bytes of its message, so a message       *)
(* stands for its bytes, its hash and its reuse key.                       *)
(***************************************************************************)
EXTENDS Naturals, FiniteSets

CONSTANTS
  Hooks,       \* commit-msg hook processes
  Messages,    \* final messages
  Sessions,    \* session ids, minted at random by the code
  MaxGens,     \* bound: generations
  Profiles,    \* the circumstances considered
  None

(* Circumstances, which bound what is explored: how many hooks at a time,  *)
(* how many generations, and how many of the newest bundles a scan parses. *)
ProfileType == [parallel : Nat, gens : 0 .. MaxGens, window : Nat \ {0}]

ASSUME AcceptAssumption ==
  /\ MaxGens \in Nat /\ Profiles \subseteq ProfileType
  /\ IsFiniteSet(Sessions)
  /\ None \notin Hooks \cup Messages \cup Sessions

Gens == 1 .. MaxGens

Places == {"state", "lock", "break", "cache", "scan", "persist",
           "release", "unlink", "twin", "record", "clear"}

(* The locals of a hook.  draft: the generation it read of; reclaimed: it  *)
(* has unlinked a stale lock.                                              *)
Run == [at : Places, message : Messages, draft : Gens \cup {None}, locked : BOOLEAN,
        reclaimed : BOOLEAN, session : Sessions \cup {None}]

ASSUME NoneAssumption == None \notin Run

Handoff == [of : Gens, whole : BOOLEAN]

VARIABLES
  profile,     \* the circumstances of this behaviour
  state,       \* the hand-off file
  written,     \* the generations so far
  bundle,      \* per session: the message of its bundle, the authority
  twin,        \* per session: the message of its session file
  index,       \* per message: the session the cache names
  lock,        \* who created .bind.lock
  stale,       \* it is older than 30 seconds
  run,         \* per hook: its locals
  doomed,      \* what a garbage collection has selected
  sent,        \* history: what was recorded, how often per generation
  untidy,      \* history: hooks overlapped, or one did not finish
  degraded     \* history: a hook bound without the lock, broke one, or did not see all bundles

vars == <<profile, state, written, bundle, twin, index, lock, stale, run, doomed, sent,
          untidy, degraded>>
handoff == <<profile, state, written>>
locking == <<lock, stale>>
history == <<sent, untidy, degraded>>

TypeOK ==
  /\ profile \in Profiles
  /\ state \in Handoff \cup {None} /\ written \in 0 .. MaxGens
  /\ bundle \in [Sessions -> Messages \cup {None}]
  /\ twin \in [Sessions -> Messages \cup {None}]
  /\ index \in [Messages -> Sessions \cup {None}]
  /\ lock \in Hooks \cup {None} /\ stale \in BOOLEAN
  /\ run \in [Hooks -> Run \cup {None}]
  /\ doomed \subseteq Sessions
  /\ sent \in [Gens -> 0 .. 2] /\ untidy \in BOOLEAN /\ degraded \in BOOLEAN

Init ==
  /\ profile \in Profiles
  /\ state = None /\ written = 0
  /\ bundle = [s \in Sessions |-> None] /\ twin = [s \in Sessions |-> None]
  /\ index = [m \in Messages |-> None]
  /\ lock = None /\ stale = FALSE
  /\ run = [h \in Hooks |-> None]
  /\ doomed = {}
  /\ sent = [g \in Gens |-> 0] /\ untidy = FALSE /\ degraded = FALSE
-----------------------------------------------------------------------------
(* A generation opens the hand-off file, which empties it, and writes it.  *)
(* Whether a commit follows is up to the user.                             *)
Truncate ==
  /\ written < profile.gens
  /\ written' = written + 1
  /\ state' = [of |-> written', whole |-> FALSE]
  /\ UNCHANGED <<profile, bundle, twin, index, locking, run, doomed, history>>

Store ==
  /\ state # None /\ ~ state.whole
  /\ state' = [state EXCEPT !.whole = TRUE]
  /\ UNCHANGED <<profile, written, bundle, twin, index, locking, run, doomed, history>>
-----------------------------------------------------------------------------
At(h, place) == run[h] # None /\ run[h].at = place
Goto(h, place) == run' = [run EXCEPT ![h].at = place]

Idle(h) ==
  /\ run[h] = None
  /\ Cardinality({other \in Hooks : run[other] # None}) < profile.parallel

(* The hook reads the message; if it cannot, it clears the state and ends. *)
Start(h) ==
  /\ Idle(h)
  /\ \/ /\ \E m \in Messages :
             run' = [run EXCEPT ![h] = [at |-> "state", message |-> m, draft |-> None,
                       locked |-> FALSE, reclaimed |-> FALSE, session |-> None]]
        /\ untidy' = (untidy \/ \E other \in Hooks : run[other] # None)
        /\ UNCHANGED state
     \/ /\ state' = None
        /\ UNCHANGED <<run, untidy>>
  /\ UNCHANGED <<profile, written, bundle, twin, index, locking, doomed, sent, degraded>>

Draft == IF state # None /\ state.whole THEN state.of ELSE None

(* It reads the hand-off file, as far as that can be parsed.  Binding may  *)
(* be off, or find the message blank.                                      *)
ReadState(h) ==
  /\ At(h, "state")
  /\ \E next \in {"lock", "record"} :
       run' = [run EXCEPT ![h].at = next,
                          ![h].draft = Draft]
  /\ UNCHANGED <<handoff, bundle, twin, index, locking, doomed, history>>

(* acquire_bind_lock: create it; or see that it is stale, unlink it once   *)
(* whosever it then is, and try again; or give up, because it is held for  *)
(* too long or cannot be created at all, and go on without.                *)
TakeLock(h) ==
  /\ At(h, "lock")
  /\ lock = None
  /\ lock' = h /\ stale' = FALSE
  /\ run' = [run EXCEPT ![h].at = "cache", ![h].locked = TRUE]
  /\ UNCHANGED <<handoff, bundle, twin, index, doomed, history>>

SeeStale(h) ==
  /\ At(h, "lock")
  /\ lock # None /\ stale /\ ~ run[h].reclaimed
  /\ Goto(h, "break")
  /\ UNCHANGED <<handoff, bundle, twin, index, locking, doomed, history>>

BreakLock(h) ==
  /\ At(h, "break")
  /\ lock' = None /\ stale' = FALSE
  /\ run' = [run EXCEPT ![h].at = "lock", ![h].reclaimed = TRUE]
  /\ degraded' = TRUE
  /\ UNCHANGED <<handoff, bundle, twin, index, doomed, sent, untidy>>

GiveUpLock(h) ==
  /\ At(h, "lock")
  /\ Goto(h, "cache")
  /\ degraded' = TRUE
  /\ UNCHANGED <<handoff, bundle, twin, index, locking, doomed, sent, untidy>>

Age ==
  /\ lock # None
  /\ stale' = TRUE
  /\ UNCHANGED <<handoff, bundle, twin, index, lock, run, doomed, history>>
-----------------------------------------------------------------------------
(* Which session the evidence goes to.  The cache is only a hint: what it  *)
(* names is adopted if its bundle is there and is of this message.         *)
AdoptableAny(s, m) == bundle[s] # None   \* a bundle is a bundle
Adoptable(s, m)    == bundle[s] = m

Cache(h) ==
  /\ At(h, "cache")
  /\ LET hint == index[run[h].message]
     IN  IF hint # None /\ Adoptable(hint, run[h].message)
         THEN run' = [run EXCEPT ![h].at = "persist", ![h].session = hint]
         ELSE Goto(h, "scan")
  /\ UNCHANGED <<handoff, bundle, twin, index, locking, doomed, history>>

Remember(h, s) ==
  index' = IF run[h].locked THEN [index EXCEPT ![run[h].message] = s] ELSE index

Windows ==
  LET files == {s \in Sessions : bundle[s] # None}
  IN  {seen \in SUBSET files :
         \/ seen = files /\ Cardinality(files) <= profile.window
         \/ Cardinality(seen) = profile.window}

Minted ==
  {s \in Sessions :
     \/ bundle[s] # None \/ twin[s] # None
     \/ \E m \in Messages : index[m] = s
     \/ \E h \in Hooks : run[h] # None /\ run[h].session = s}

HitsNone(h, seen) == {}   \* the cache is all there is
Hits(h, seen)     == {s \in seen : Adoptable(s, run[h].message)}

Scan(h) ==
  /\ At(h, "scan")
  /\ \E seen \in Windows :
       /\ degraded' = (degraded \/ seen # {s \in Sessions : bundle[s] # None})
       /\ \/ \E s \in Hits(h, seen) :
               /\ run' = [run EXCEPT ![h].at = "persist", ![h].session = s]
               /\ Remember(h, s)
          \/ /\ Hits(h, seen) = {}
             /\ \E s \in Sessions \ Minted :
                  run' = [run EXCEPT ![h].at = "persist", ![h].session = s]
             /\ UNCHANGED index
  /\ UNCHANGED <<handoff, bundle, twin, locking, doomed, sent, untidy>>

(* The bundle is replaced atomically, and then the cache; or the write     *)
(* fails and is reported.                                                  *)
Persist(h) ==
  /\ At(h, "persist")
  /\ \/ /\ bundle' = [bundle EXCEPT ![run[h].session] = run[h].message]
        /\ Remember(h, run[h].session)
     \/ UNCHANGED <<bundle, index>>
  /\ Goto(h, "release")
  /\ UNCHANGED <<handoff, twin, locking, doomed, history>>

(* release: the nonce is compared, and then the file is unlinked.          *)
Release(h) ==
  /\ At(h, "release")
  /\ Goto(h, IF run[h].locked /\ lock = h THEN "unlink" ELSE "twin")
  /\ UNCHANGED <<handoff, bundle, twin, index, locking, doomed, history>>

Unlink(h) ==
  /\ At(h, "unlink")
  /\ lock' = None /\ stale' = FALSE
  /\ Goto(h, "twin")
  /\ UNCHANGED <<handoff, bundle, twin, index, doomed, history>>

(* The session file, as well as can be.                                    *)
Twin(h) ==
  /\ At(h, "twin")
  /\ \/ twin' = [twin EXCEPT ![run[h].session] = run[h].message]
     \/ UNCHANGED twin
  /\ Goto(h, "record")
  /\ UNCHANGED <<handoff, bundle, index, locking, doomed, history>>

(* The edit is classified against the draft, and recorded.                 *)
Record(h) ==
  /\ At(h, "record")
  /\ sent' = IF run[h].draft = None THEN sent
             ELSE [sent EXCEPT ![run[h].draft] = IF @ = 2 THEN 2 ELSE @ + 1]
  /\ Goto(h, "clear")
  /\ UNCHANGED <<handoff, bundle, twin, index, locking, doomed, untidy, degraded>>

ClearNothing(h) ==   \* returns before the state is cleared
  /\ At(h, "clear")
  /\ run' = [run EXCEPT ![h] = None]
  /\ UNCHANGED <<handoff, bundle, twin, index, locking, doomed, history>>

Clear(h) ==
  /\ At(h, "clear")
  /\ state' = None
  /\ run' = [run EXCEPT ![h] = None]
  /\ UNCHANGED <<profile, written, bundle, twin, index, locking, doomed, history>>

Die(h) ==
  /\ run[h] # None
  /\ run' = [run EXCEPT ![h] = None]
  /\ untidy' = TRUE
  /\ UNCHANGED <<handoff, bundle, twin, index, locking, doomed, sent, degraded>>
-----------------------------------------------------------------------------
(* eval gc: what is old enough is selected, the bundles only with --force; *)
(* then it is unlinked.  The cache is always debris, the lock never.       *)
CollectCache ==
  /\ index' = [m \in Messages |-> None]
  /\ UNCHANGED <<handoff, bundle, twin, locking, run, doomed, history>>

Collect ==
  /\ doomed = {}
  /\ doomed' \in SUBSET {s \in Sessions : bundle[s] # None}
  /\ UNCHANGED <<handoff, bundle, twin, index, locking, run, history>>

Sweep ==
  /\ \E s \in doomed :
       /\ bundle' = [bundle EXCEPT ![s] = None]
       /\ doomed' = doomed \ {s}
  /\ UNCHANGED <<handoff, twin, index, locking, run, history>>
-----------------------------------------------------------------------------
Step(h) ==
  \/ Start(h) \/ ReadState(h)
  \/ TakeLock(h) \/ SeeStale(h) \/ BreakLock(h) \/ GiveUpLock(h)
  \/ Cache(h) \/ Scan(h) \/ Persist(h)
  \/ Release(h) \/ Unlink(h)
  \/ Twin(h) \/ Record(h) \/ Clear(h) \/ Die(h)

Next ==
  \/ Truncate \/ Store \/ Age \/ CollectCache \/ Collect \/ Sweep
  \/ \E h \in Hooks : Step(h)

Spec == Init /\ [][Next]_vars
-----------------------------------------------------------------------------
(* A session is of one message for good: whatever the cache says, whoever  *)
(* breaks whose lock and whatever is collected in between, no bundle and   *)
(* no session file is ever replaced by one of other bytes, so reuse never  *)
(* crosses accept events (_reuse_identity_adoptable).                      *)
SessionKeepsMessage ==
  [][\A s \in Sessions :
       /\ bundle[s] # None /\ bundle'[s] # None => bundle'[s] = bundle[s]
       /\ twin[s] # None /\ twin'[s] # None => twin'[s] = twin[s]]_vars

(* A message has one session: a hook that is run again for it, after a     *)
(* crash, a lost cache or a garbage collection, finds the session of the   *)
(* first, and so do hooks that race for it, as long as each had the lock   *)
(* and saw all bundles ("Short-lived lock around reuse-scan-plus-write").  *)
OneSessionPerMessage ==
  ~ degraded =>
    \A s, t \in Sessions :
      bundle[s] # None /\ bundle[s] = bundle[t] => s = t

(* A generation is recorded for one commit at most, if hooks run one after *)
(* another and to their end ("Always clear state to prevent stale reads"). *)
RecordedOnce == ~ untidy => \A g \in Gens : sent[g] <= 1
=============================================================================
