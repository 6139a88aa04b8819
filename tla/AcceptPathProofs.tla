-------------------------- MODULE AcceptPathProofs --------------------------
(***************************************************************************)
(* Proofs about the accept path, for any number of hooks, messages,        *)
(* sessions and generations and any circumstances: type correctness, that  *)
(* a session keeps its message, that a message keeps its session while the *)
(* lock is respected, and that a generation is recorded once while hooks   *)
(* run one after another.                                                  *)
(***************************************************************************)
EXTENDS AcceptPath, TLAPS

(* Updates of the locals of one hook, as the actions write them.           *)
LEMMA MoveTyped ==
  ASSUME NEW r \in Run, NEW place \in Places
  PROVE  [r EXCEPT !.at = place] \in Run
BY SMT DEF Run

LEMMA FieldTyped ==
  ASSUME NEW r \in Run
  PROVE  /\ \A s \in Sessions : [r EXCEPT !.session = s] \in Run
         /\ \A d \in Gens \cup {None} : [r EXCEPT !.draft = d] \in Run
         /\ [r EXCEPT !.locked = TRUE] \in Run
         /\ [r EXCEPT !.reclaimed = TRUE] \in Run
<1>1. ASSUME NEW s \in Sessions PROVE [r EXCEPT !.session = s] \in Run
  BY SMT DEF Run
<1>2. ASSUME NEW d \in Gens \cup {None} PROVE [r EXCEPT !.draft = d] \in Run
  BY SMT DEF Run
<1>3. [r EXCEPT !.locked = TRUE] \in Run
  BY Zenon DEF Run
<1>4. [r EXCEPT !.reclaimed = TRUE] \in Run
  BY Zenon DEF Run
<1> QED BY <1>1, <1>2, <1>3, <1>4

LEMMA SessionTyped ==
  ASSUME NEW r \in Run, NEW place \in Places, NEW s \in Sessions
  PROVE  [r EXCEPT !.at = place, !.session = s] \in Run
<1> DEFINE moved == [r EXCEPT !.at = place]
<1>1. moved \in Run
  BY MoveTyped
<1> HIDE DEF moved
<1>2. [moved EXCEPT !.session = s] \in Run
  BY <1>1, FieldTyped
<1> QED BY <1>2 DEF moved

LEMMA DraftTyped ==
  ASSUME NEW r \in Run, NEW place \in Places, NEW d \in Gens \cup {None}
  PROVE  [r EXCEPT !.at = place, !.draft = d] \in Run
<1> DEFINE moved == [r EXCEPT !.at = place]
<1>1. moved \in Run
  BY MoveTyped
<1> HIDE DEF moved
<1>2. [moved EXCEPT !.draft = d] \in Run
  BY <1>1, FieldTyped
<1> QED BY <1>2 DEF moved

LEMMA LockedTyped ==
  ASSUME NEW r \in Run, NEW place \in Places
  PROVE  /\ [r EXCEPT !.at = place, !.locked = TRUE] \in Run
         /\ [r EXCEPT !.at = place, !.reclaimed = TRUE] \in Run
<1> DEFINE moved == [r EXCEPT !.at = place]
<1>1. moved \in Run
  BY MoveTyped
<1> HIDE DEF moved
<1>2. [moved EXCEPT !.locked = TRUE] \in Run /\ [moved EXCEPT !.reclaimed = TRUE] \in Run
  BY <1>1, FieldTyped
<1> QED BY <1>2 DEF moved

LEMMA StartTyped ==
  ASSUME NEW m \in Messages
  PROVE  [at |-> "state", message |-> m, draft |-> None, locked |-> FALSE,
          reclaimed |-> FALSE, session |-> None] \in Run
BY SMT DEF Run, Places

LEMMA OneRun ==
  ASSUME NEW h \in Hooks, NEW r \in Run \cup {None}, run \in [Hooks -> Run \cup {None}]
  PROVE  [run EXCEPT ![h] = r] \in [Hooks -> Run \cup {None}]
OBVIOUS

LEMMA GensAreNaturals == Gens \subseteq Nat /\ MaxGens \in Nat
BY AcceptAssumption DEF Gens

LEMMA ProfileFacts ==
  ASSUME TypeOK PROVE profile.gens \in 0 .. MaxGens /\ profile.gens \in Nat
BY AcceptAssumption DEF TypeOK, ProfileType

(* The steps of the specification, one case each.                          *)
LEMMA Steps ==
  ASSUME [Next]_vars
  PROVE  \/ Truncate \/ Store \/ Age \/ CollectCache \/ Collect \/ Sweep
         \/ \E h \in Hooks : Step(h)
         \/ UNCHANGED vars
BY DEF Next
-----------------------------------------------------------------------------
(* A hook that moves has its locals in Run before and after.               *)
LEMMA HookTyped ==
  ASSUME TypeOK, NEW h \in Hooks, Step(h)
  PROVE  TypeOK'
<1> USE DEF TypeOK
<1>g. Gens \subseteq Nat /\ MaxGens \in Nat
  BY GensAreNaturals
<1>1. CASE Start(h)
  <2>1. CASE UNCHANGED run
    BY <1>1, <2>1 DEF Start, locking
  <2>2. CASE ~ UNCHANGED run
    <3>1. PICK m \in Messages :
             run' = [run EXCEPT ![h] = [at |-> "state", message |-> m, draft |-> None,
                       locked |-> FALSE, reclaimed |-> FALSE, session |-> None]]
      BY <1>1, <2>2 DEF Start
    <3>2. run' \in [Hooks -> Run \cup {None}]
      BY <3>1, StartTyped, OneRun
    <3>3. UNCHANGED state /\ untidy' \in BOOLEAN
      BY <1>1, <2>2 DEF Start
    <3> QED BY <1>1, <3>2, <3>3 DEF Start, locking
  <2> QED BY <2>1, <2>2
<1>2. CASE ~ Start(h)
  <2>1. run[h] \in Run
    BY <1>2 DEF Step, At, ReadState, TakeLock, SeeStale, BreakLock, GiveUpLock, Cache, Scan,
         Persist, Release, Unlink, Twin, Record, Clear, Die
  <2>2. ASSUME NEW place \in Places, Goto(h, place)
        PROVE  run' \in [Hooks -> Run \cup {None}]
    <3>1. run' = [run EXCEPT ![h] = [run[h] EXCEPT !.at = place]]
      BY <2>2 DEF Goto
    <3> QED BY <2>1, <3>1, MoveTyped, OneRun
  <2>3. ASSUME NEW place \in Places, NEW s \in Sessions,
               run' = [run EXCEPT ![h].at = place, ![h].session = s]
        PROVE  run' \in [Hooks -> Run \cup {None}]
    <3>1. run' = [run EXCEPT ![h] = [run[h] EXCEPT !.at = place, !.session = s]]
      BY <2>3
    <3> QED BY <2>1, <3>1, SessionTyped, OneRun
  <2>4. ASSUME NEW s \in Sessions, Remember(h, s)
        PROVE  index' \in [Messages -> Sessions \cup {None}]
    BY <2>4 DEF Remember
  <2>5. CASE ReadState(h)
    <3>1. Draft \in Gens \cup {None}
      BY DEF Draft, Handoff
    <3>2. PICK next \in {"lock", "record"} :
            run' = [run EXCEPT ![h].at = next, ![h].draft = Draft]
      BY <2>5 DEF ReadState
    <3>3. run' = [run EXCEPT ![h] = [run[h] EXCEPT !.at = next, !.draft = Draft]]
      BY <3>2
    <3>4. next \in Places
      BY DEF Places
    <3>5. run' \in [Hooks -> Run \cup {None}]
      BY <2>1, <3>1, <3>3, <3>4, DraftTyped, OneRun
    <3> QED BY <2>5, <3>5 DEF ReadState, handoff, locking, history
  <2>6. CASE TakeLock(h)
    <3>1. run' = [run EXCEPT ![h] = [run[h] EXCEPT !.at = "cache", !.locked = TRUE]]
      BY <2>6 DEF TakeLock
    <3>2. "cache" \in Places
      BY DEF Places
    <3>3. run' \in [Hooks -> Run \cup {None}]
      BY <2>1, <3>1, <3>2, LockedTyped, OneRun
    <3> QED BY <2>6, <3>3 DEF TakeLock, handoff, history
  <2>7. CASE SeeStale(h)
    <3>1. run' \in [Hooks -> Run \cup {None}]
      BY <2>2, <2>7 DEF SeeStale, Places
    <3> QED BY <2>7, <3>1 DEF SeeStale, handoff, locking, history
  <2>8. CASE BreakLock(h)
    <3>1. run' = [run EXCEPT ![h] = [run[h] EXCEPT !.at = "lock", !.reclaimed = TRUE]]
      BY <2>8 DEF BreakLock
    <3>2. "lock" \in Places
      BY DEF Places
    <3>3. run' \in [Hooks -> Run \cup {None}]
      BY <2>1, <3>1, <3>2, LockedTyped, OneRun
    <3> QED BY <2>8, <3>3 DEF BreakLock, handoff
  <2>9. CASE GiveUpLock(h)
    <3>1. run' \in [Hooks -> Run \cup {None}]
      BY <2>2, <2>9 DEF GiveUpLock, Places
    <3> QED BY <2>9, <3>1 DEF GiveUpLock, handoff, locking
  <2>10. CASE Cache(h)
    <3>1. run[h].message \in Messages
      BY <2>1 DEF Run
    <3>2. run' \in [Hooks -> Run \cup {None}]
      <4>1. CASE Goto(h, "scan")
        BY <4>1, <2>2 DEF Places
      <4>2. CASE ~ Goto(h, "scan")
        <5> DEFINE hint == index[run[h].message]
        <5>1. hint # None /\ run' = [run EXCEPT ![h].at = "persist", ![h].session = hint]
          BY <2>10, <4>2 DEF Cache
        <5>2. hint \in Sessions /\ "persist" \in Places
          BY <3>1, <5>1 DEF Places
        <5> QED BY <5>1, <5>2, <2>3
      <4> QED BY <4>1, <4>2
    <3> QED BY <2>10, <3>2 DEF Cache, handoff, locking, history
  <2>11. CASE Scan(h)
    <3>1. PICK seen \in Windows :
            /\ degraded' = (degraded \/ seen # {s \in Sessions : bundle[s] # None})
            /\ \/ \E s \in Hits(h, seen) :
                    /\ run' = [run EXCEPT ![h].at = "persist", ![h].session = s]
                    /\ Remember(h, s)
               \/ /\ Hits(h, seen) = {}
                  /\ \E s \in Sessions \ Minted :
                       run' = [run EXCEPT ![h].at = "persist", ![h].session = s]
                  /\ UNCHANGED index
      BY <2>11 DEF Scan
    <3>2. Hits(h, seen) \subseteq Sessions
      BY DEF Hits, Windows
    <3>3. \E s \in Sessions :
            /\ run' = [run EXCEPT ![h].at = "persist", ![h].session = s]
            /\ Remember(h, s) \/ UNCHANGED index
      BY <3>1, <3>2
    <3>4. run' \in [Hooks -> Run \cup {None}] /\ index' \in [Messages -> Sessions \cup {None}]
      BY <3>3, <2>3, <2>4 DEF Places
    <3>5. degraded' \in BOOLEAN
      BY <3>1
    <3> QED BY <2>11, <3>4, <3>5 DEF Scan, handoff, locking
  <2>12. CASE Persist(h)
    <3>1. run[h].message \in Messages /\ run[h].session \in Sessions \cup {None}
      BY <2>1 DEF Run
    <3>2. run' \in [Hooks -> Run \cup {None}]
      BY <2>2, <2>12 DEF Persist, Places
    <3>3. bundle' \in [Sessions -> Messages \cup {None}]
      BY <2>12, <3>1 DEF Persist
    <3>4. index' \in [Messages -> Sessions \cup {None}]
      BY <2>12, <3>1 DEF Persist, Remember
    <3> QED BY <2>12, <3>2, <3>3, <3>4 DEF Persist, handoff, locking, history
  <2>13. CASE Release(h)
    <3>1. run' \in [Hooks -> Run \cup {None}]
      BY <2>2, <2>13 DEF Release, Places
    <3> QED BY <2>13, <3>1 DEF Release, handoff, locking, history
  <2>14. CASE Unlink(h)
    <3>1. run' \in [Hooks -> Run \cup {None}]
      BY <2>2, <2>14 DEF Unlink, Places
    <3> QED BY <2>14, <3>1 DEF Unlink, handoff, history
  <2>15. CASE Twin(h)
    <3>1. run[h].message \in Messages
      BY <2>1 DEF Run
    <3>2. run' \in [Hooks -> Run \cup {None}]
      BY <2>2, <2>15 DEF Twin, Places
    <3>3. twin' \in [Sessions -> Messages \cup {None}]
      BY <2>15, <3>1 DEF Twin
    <3> QED BY <2>15, <3>2, <3>3 DEF Twin, handoff, locking, history
  <2>16. CASE Record(h)
    <3>1. run' \in [Hooks -> Run \cup {None}]
      BY <2>2, <2>16 DEF Record, Places
    <3>2. sent' \in [Gens -> 0 .. 2]
      <4>1. ASSUME NEW d \in Gens
            PROVE  [sent EXCEPT ![d] = IF @ = 2 THEN 2 ELSE @ + 1] \in [Gens -> 0 .. 2]
        <5>1. sent[d] \in 0 .. 2
          OBVIOUS
        <5>2. (IF sent[d] = 2 THEN 2 ELSE sent[d] + 1) \in 0 .. 2
          BY <5>1
        <5> QED BY <5>2
      <4>2. run[h].draft \in Gens \cup {None}
        BY <2>1 DEF Run
      <4> QED BY <2>16, <4>1, <4>2 DEF Record
    <3> QED BY <2>16, <3>1, <3>2 DEF Record, handoff, locking
  <2>17. CASE Clear(h)
    BY <2>17 DEF Clear, locking, history
  <2>18. CASE Die(h)
    BY <2>18 DEF Die, handoff, locking
  <2> QED BY <1>2, <2>5, <2>6, <2>7, <2>8, <2>9, <2>10, <2>11, <2>12, <2>13, <2>14, <2>15,
              <2>16, <2>17, <2>18 DEF Step
<1> QED BY <1>1, <1>2

(* The files and the locals of the hooks always have their types.          *)
THEOREM AcceptTyped == Spec => []TypeOK
<1>1. Init => TypeOK
  <2>1. 0 \in 0 .. MaxGens /\ 0 \in 0 .. 2
    BY GensAreNaturals
  <2> QED BY <2>1 DEF Init, TypeOK
<1>2. ASSUME TypeOK, [Next]_vars PROVE TypeOK'
  <2>g. MaxGens \in Nat /\ profile.gens \in 0 .. MaxGens
    BY <1>2, GensAreNaturals, ProfileFacts
  <2>1. CASE Truncate
    <3>1. written' \in 0 .. MaxGens /\ written' \in Gens
      BY <1>2, <2>1, <2>g DEF Truncate, TypeOK, Gens
    <3>2. state' \in Handoff
      BY <2>1, <3>1 DEF Truncate, Handoff
    <3> QED BY <1>2, <2>1, <3>1, <3>2 DEF Truncate, TypeOK, locking, history
  <2>2. CASE Store
    <3>1. state' \in Handoff
      BY <1>2, <2>2 DEF Store, TypeOK, Handoff
    <3> QED BY <1>2, <2>2, <3>1 DEF Store, TypeOK, locking, history
  <2>3. CASE Age
    BY <1>2, <2>3 DEF Age, TypeOK, handoff, history
  <2>4. CASE CollectCache
    BY <1>2, <2>4 DEF CollectCache, TypeOK, handoff, locking, history
  <2>5. CASE Collect
    BY <1>2, <2>5 DEF Collect, TypeOK, handoff, locking, history
  <2>6. CASE Sweep
    BY <1>2, <2>6 DEF Sweep, TypeOK, handoff, locking, history
  <2>7. CASE \E h \in Hooks : Step(h)
    BY <1>2, <2>7, HookTyped
  <2>8. CASE UNCHANGED vars
    BY <1>2, <2>8 DEF vars, TypeOK, locking, history
  <2> QED BY <1>2, <2>1, <2>2, <2>3, <2>4, <2>5, <2>6, <2>7, <2>8, Steps
<1> QED BY <1>1, <1>2, PTL DEF Spec
-----------------------------------------------------------------------------
(* A session speaks for a message: its bundle or its session file is of    *)
(* it, or a hook holds the session for it.                                 *)
HeldBy(h, s, m) == run[h] # None /\ run[h].session = s /\ run[h].message = m
Speaks(s, m) == bundle[s] = m \/ twin[s] = m \/ \E h \in Hooks : HeldBy(h, s, m)

(* Nothing ever speaks for two messages.  The cache has no part in it: it  *)
(* may name any session for any message.                                   *)
Owned == \A s \in Sessions : \A m, n \in Messages : Speaks(s, m) /\ Speaks(s, n) => m = n

(* A step lets at most one message be spoken for that was not, and only by *)
(* sessions that spoke for none.                                           *)
OnlyFresh(m0) ==
  \A s \in Sessions : \A m \in Messages :
    Speaks(s, m)' => Speaks(s, m) \/ (m = m0 /\ \A n \in Messages : ~ Speaks(s, n))

(* Where the bundles, the session files and what hooks hold come from.     *)
SameHold(h) == \A s \in Sessions : \A m \in Messages : HeldBy(h, s, m)' => HeldBy(h, s, m)

LEMMA FreshByParts ==
  ASSUME TypeOK, NEW h \in Hooks, NEW m0,
         \A k \in Hooks \ {h} : run'[k] = run[k],
         \A s \in Sessions : \A m \in Messages :
            bundle'[s] = m \/ twin'[s] = m \/ HeldBy(h, s, m)' =>
               Speaks(s, m) \/ (m = m0 /\ \A n \in Messages : ~ Speaks(s, n))
  PROVE  OnlyFresh(m0)
<1> SUFFICES ASSUME NEW s \in Sessions, NEW m \in Messages, Speaks(s, m)'
             PROVE  Speaks(s, m) \/ (m = m0 /\ \A n \in Messages : ~ Speaks(s, n))
  BY DEF OnlyFresh
<1>1. CASE bundle'[s] = m \/ twin'[s] = m \/ HeldBy(h, s, m)'
  BY <1>1
<1>2. CASE ~ (bundle'[s] = m \/ twin'[s] = m \/ HeldBy(h, s, m)')
  <2>1. PICK k \in Hooks : HeldBy(k, s, m)'
    BY <1>2 DEF Speaks
  <2>2. k # h
    BY <1>2, <2>1
  <2>3. HeldBy(k, s, m)
    BY <2>1, <2>2 DEF HeldBy
  <2> QED BY <2>3 DEF Speaks
<1> QED BY <1>1, <1>2

LEMMA StepOthers ==
  ASSUME TypeOK, NEW h \in Hooks, Step(h)
  PROVE  \A k \in Hooks \ {h} : run'[k] = run[k]
<1> USE DEF TypeOK
<1>1. CASE Start(h) BY <1>1 DEF Start
<1>2. CASE ReadState(h) BY <1>2 DEF ReadState
<1>3. CASE TakeLock(h) BY <1>3 DEF TakeLock
<1>4. CASE SeeStale(h) BY <1>4 DEF SeeStale, Goto
<1>5. CASE BreakLock(h) BY <1>5 DEF BreakLock
<1>6. CASE GiveUpLock(h) BY <1>6 DEF GiveUpLock, Goto
<1>7. CASE Cache(h) BY <1>7 DEF Cache, Goto
<1>8. CASE Scan(h) BY <1>8 DEF Scan
<1>9. CASE Persist(h) BY <1>9 DEF Persist, Goto
<1>10. CASE Release(h) BY <1>10 DEF Release, Goto
<1>11. CASE Unlink(h) BY <1>11 DEF Unlink, Goto
<1>12. CASE Twin(h) BY <1>12 DEF Twin, Goto
<1>13. CASE Record(h) BY <1>13 DEF Record, Goto
<1>14. CASE Clear(h) BY <1>14 DEF Clear
<1>15. CASE Die(h) BY <1>15 DEF Die
<1> QED BY <1>1, <1>2, <1>3, <1>4, <1>5, <1>6, <1>7, <1>8, <1>9, <1>10, <1>11, <1>12, <1>13,
           <1>14, <1>15 DEF Step

(* What a step of a hook does to its own session and message.              *)
LEMMA GotoHolds ==
  ASSUME TypeOK, NEW h \in Hooks, run[h] # None, NEW place, Goto(h, place)
  PROVE  SameHold(h)
BY DEF TypeOK, Goto, SameHold, HeldBy, Run

LEMMA StepSpeaks ==
  ASSUME TypeOK, NEW h \in Hooks, Step(h)
  PROVE  \E m0 : OnlyFresh(m0)
<1>o. \A k \in Hooks \ {h} : run'[k] = run[k]
  BY StepOthers
<1>q. ASSUME UNCHANGED <<bundle, twin>>, SameHold(h)
      PROVE  OnlyFresh(None)
  BY <1>o, <1>q, FreshByParts DEF Speaks, SameHold
<1>n. ASSUME run'[h] = None \/ run'[h].session = None
      PROVE  SameHold(h)
  BY <1>n, AcceptAssumption DEF SameHold, HeldBy
<1>g. ASSUME NEW place, run[h] # None, Goto(h, place)
      PROVE  SameHold(h)
  BY <1>g, GotoHolds
<1>1. CASE Start(h)
  <2>1. CASE UNCHANGED run
    BY <1>1, <2>1, <1>q DEF Start, SameHold, HeldBy
  <2>2. CASE ~ UNCHANGED run
    <3>1. run'[h] = None \/ run'[h].session = None
      BY <1>1, <2>2 DEF Start, TypeOK
    <3> QED BY <1>1, <3>1, <1>n, <1>q DEF Start
  <2> QED BY <2>1, <2>2
<1>2. CASE ReadState(h)
  <2>1. SameHold(h)
    BY <1>2 DEF ReadState, At, TypeOK, SameHold, HeldBy, Run
  <2> QED BY <1>2, <2>1, <1>q DEF ReadState
<1>3. CASE TakeLock(h)
  <2>1. SameHold(h)
    BY <1>3 DEF TakeLock, At, TypeOK, SameHold, HeldBy, Run
  <2> QED BY <1>3, <2>1, <1>q DEF TakeLock
<1>4. CASE SeeStale(h) \/ GiveUpLock(h) \/ Release(h) \/ Unlink(h) \/ Record(h)
  <2>1. SameHold(h)
    BY <1>4, <1>g DEF SeeStale, GiveUpLock, Release, Unlink, Record, At
  <2>2. UNCHANGED <<bundle, twin>>
    BY <1>4 DEF SeeStale, GiveUpLock, Release, Unlink, Record
  <2> QED BY <2>1, <2>2, <1>q
<1>5. CASE BreakLock(h)
  <2>1. SameHold(h)
    BY <1>5 DEF BreakLock, At, TypeOK, SameHold, HeldBy, Run
  <2> QED BY <1>5, <2>1, <1>q DEF BreakLock
<1>6. CASE Clear(h) \/ Die(h)
  <2>1. run'[h] = None
    BY <1>6 DEF Clear, Die, TypeOK
  <2> QED BY <1>6, <2>1, <1>n, <1>q DEF Clear, Die
<1>7. CASE Cache(h)
  <2> DEFINE m0 == run[h].message
             hint == index[m0]
  <2>1. UNCHANGED <<bundle, twin>> /\ run[h] # None
    BY <1>7 DEF Cache, At
  <2>2. CASE Goto(h, "scan")
    BY <2>1, <2>2, <1>g, <1>q
  <2>3. CASE ~ Goto(h, "scan")
    <3>1. /\ hint # None /\ bundle[hint] = m0
          /\ run' = [run EXCEPT ![h].at = "persist", ![h].session = hint]
      BY <1>7, <2>3 DEF Cache, Adoptable
    <3>2. run'[h].session = hint /\ run'[h].message = m0
      BY <2>1, <3>1 DEF TypeOK, Run
    <3>3. \A s \in Sessions : \A m \in Messages : HeldBy(h, s, m)' => bundle[s] = m
      BY <3>1, <3>2 DEF HeldBy
    <3> QED BY <2>1, <3>3, <1>o, FreshByParts DEF Speaks
  <2> QED BY <2>2, <2>3
<1>8. CASE Scan(h)
  <2> DEFINE m0 == run[h].message
  <2>1. UNCHANGED <<bundle, twin>> /\ run[h] # None
    BY <1>8 DEF Scan, At
  <2>2. PICK s0 \in Sessions :
          /\ run' = [run EXCEPT ![h].at = "persist", ![h].session = s0]
          /\ bundle[s0] = m0 \/ s0 \notin Minted
    BY <1>8 DEF Scan, Hits, Adoptable, Windows
  <2>3. run'[h].session = s0 /\ run'[h].message = m0
    BY <2>1, <2>2 DEF TypeOK, Run
  <2>4. s0 \notin Minted => \A n \in Messages : ~ Speaks(s0, n)
    BY AcceptAssumption DEF Minted, Speaks, HeldBy
  <2>5. \A s \in Sessions : \A m \in Messages :
          HeldBy(h, s, m)' => s = s0 /\ m = m0
    BY <2>3 DEF HeldBy
  <2> HIDE DEF m0
  <2>6. \A s \in Sessions : \A m \in Messages :
          bundle'[s] = m \/ twin'[s] = m \/ HeldBy(h, s, m)' =>
            Speaks(s, m) \/ (m = m0 /\ \A n \in Messages : ~ Speaks(s, n))
    BY <2>1, <2>2, <2>4, <2>5 DEF Speaks
  <2> QED BY <1>o, <2>6, FreshByParts
<1>9. CASE Persist(h) \/ Twin(h)
  <2> DEFINE m0 == run[h].message
             s0 == run[h].session
  <2>1. SameHold(h) /\ run[h] # None
    BY <1>9, <1>g DEF Persist, Twin, At
  <2>2. \A s \in Sessions : \A m \in Messages :
          bundle'[s] = m \/ twin'[s] = m =>
             bundle[s] = m \/ twin[s] = m \/ (s = s0 /\ m = m0)
    BY <1>9 DEF Persist, Twin, TypeOK
  <2>3. \A s \in Sessions : \A m \in Messages :
          bundle'[s] = m \/ twin'[s] = m \/ HeldBy(h, s, m)' => Speaks(s, m)
    BY <2>1, <2>2 DEF Speaks, SameHold, HeldBy
  <2> QED BY <1>o, <2>3, FreshByParts
<1> QED BY <1>1, <1>2, <1>3, <1>4, <1>5, <1>6, <1>7, <1>8, <1>9 DEF Step

LEMMA NextSpeaks ==
  ASSUME TypeOK, [Next]_vars
  PROVE  \E m0 : OnlyFresh(m0)
<1>1. CASE \E h \in Hooks : Step(h)
  BY <1>1, StepSpeaks
<1>2. CASE Truncate \/ Store \/ Age \/ CollectCache \/ Collect \/ Sweep \/ UNCHANGED vars
  <2>1. UNCHANGED <<run, twin>>
    BY <1>2 DEF Truncate, Store, Age, CollectCache, Collect, Sweep, vars
  <2>2. \A s \in Sessions : \A m \in Messages : bundle'[s] = m => bundle[s] = m
    BY <1>2, AcceptAssumption
       DEF Truncate, Store, Age, CollectCache, Collect, Sweep, vars, TypeOK
  <2> QED BY <2>1, <2>2 DEF OnlyFresh, Speaks, HeldBy
<1> QED BY <1>1, <1>2, Steps

LEMMA OwnedInductive ==
  ASSUME TypeOK, Owned, [Next]_vars
  PROVE  Owned'
<1>1. PICK m0 : OnlyFresh(m0)
  BY NextSpeaks
<1>2. ASSUME NEW s \in Sessions, NEW m \in Messages, NEW n \in Messages,
             Speaks(s, m)', Speaks(s, n)'
      PROVE  m = n
  <2>1. Speaks(s, m) \/ (m = m0 /\ \A o \in Messages : ~ Speaks(s, o))
    BY <1>1, <1>2 DEF OnlyFresh
  <2>2. Speaks(s, n) \/ (n = m0 /\ \A o \in Messages : ~ Speaks(s, o))
    BY <1>1, <1>2 DEF OnlyFresh
  <2> QED BY <2>1, <2>2 DEF Owned
<1> QED BY <1>2 DEF Owned

(* Nothing speaks for two messages, in any reachable state.                *)
THEOREM SessionsAreOwned == Spec => []Owned
<1>1. Init => Owned
  BY AcceptAssumption DEF Init, Owned, Speaks, HeldBy
<1>2. TypeOK /\ Owned /\ [Next]_vars => Owned'
  BY OwnedInductive
<1> QED BY <1>1, <1>2, AcceptTyped, PTL DEF Spec

(* No bundle and no session file is ever replaced by one of other bytes,   *)
(* whatever hooks overlap, die or work without the lock, whatever the      *)
(* cache says and whatever is collected (_reuse_identity_adoptable).       *)
THEOREM SessionsKeepTheirMessage == Spec => SessionKeepsMessage
<1> DEFINE Keeps ==
      \A s \in Sessions :
        /\ bundle[s] # None /\ bundle'[s] # None => bundle'[s] = bundle[s]
        /\ twin[s] # None /\ twin'[s] # None => twin'[s] = twin[s]
<1>1. ASSUME TypeOK, TypeOK', Owned, [Next]_vars
      PROVE  Keeps
  <2>1. PICK m0 : OnlyFresh(m0)
    BY <1>1, NextSpeaks
  <2>2. ASSUME NEW s \in Sessions, NEW m \in Messages, NEW n \in Messages,
               Speaks(s, m), Speaks(s, n)'
        PROVE  m = n
    <3>1. Speaks(s, n)
      BY <2>1, <2>2 DEF OnlyFresh
    <3> QED BY <1>1, <2>2, <3>1 DEF Owned
  <2>3. ASSUME NEW s \in Sessions, bundle[s] # None, bundle'[s] # None
        PROVE  bundle'[s] = bundle[s]
    <3>1. bundle[s] \in Messages /\ bundle'[s] \in Messages
      BY <1>1, <2>3 DEF TypeOK
    <3>2. Speaks(s, bundle[s])
      BY DEF Speaks
    <3>3. ASSUME NEW n \in Messages, n = bundle'[s] PROVE Speaks(s, n)'
      BY <3>3 DEF Speaks
    <3> QED BY <3>1, <3>2, <3>3, <2>2
  <2>4. ASSUME NEW s \in Sessions, twin[s] # None, twin'[s] # None
        PROVE  twin'[s] = twin[s]
    <3>1. twin[s] \in Messages /\ twin'[s] \in Messages
      BY <1>1, <2>4 DEF TypeOK
    <3>2. Speaks(s, twin[s])
      BY DEF Speaks
    <3>3. ASSUME NEW n \in Messages, n = twin'[s] PROVE Speaks(s, n)'
      BY <3>3 DEF Speaks
    <3> QED BY <3>1, <3>2, <3>3, <2>2
  <2> QED BY <2>3, <2>4
<1>2. TypeOK /\ TypeOK' /\ Owned /\ [Next]_vars => [Keeps]_vars
  BY <1>1
<1>3. Spec => [][Keeps]_vars
  BY <1>2, AcceptTyped, SessionsAreOwned, PTL DEF Spec
<1> QED BY <1>3 DEF SessionKeepsMessage
-----------------------------------------------------------------------------
(* As long as no hook went on without the lock, broke one, or missed a     *)
(* bundle: who is between the lock and its release holds it; who is about  *)
(* to write the bundle of a message knows that there is no other one; and  *)
(* there is no other one.                                                  *)
Section      == {"cache", "scan", "persist", "release", "unlink"}
InSection(h) == run[h] # None /\ run[h].at \in Section

SectionIsLocked == \A h \in Hooks : InSection(h) => run[h].locked /\ lock = h
PersistsTheOne ==
  \A h \in Hooks : At(h, "persist") =>
     \A s \in Sessions : bundle[s] = run[h].message => s = run[h].session
OneBundle == \A s, t \in Sessions : bundle[s] # None /\ bundle[s] = bundle[t] => s = t

LockedPart == ~ degraded => SectionIsLocked /\ PersistsTheOne /\ OneBundle

(* Where a hook may come from when it is in the section after a step.      *)
LEMMA GotoFacts ==
  ASSUME TypeOK, NEW h \in Hooks, run[h] # None, NEW place, Goto(h, place)
  PROVE  /\ run'[h].at = place
         /\ run'[h].locked = run[h].locked
         /\ run'[h].message = run[h].message
         /\ run'[h].session = run[h].session
         /\ run'[h].draft = run[h].draft
BY DEF TypeOK, Goto, Run

LEMMA EntersLocked ==
  ASSUME TypeOK, NEW h \in Hooks, Step(h), ~ degraded', InSection(h)',
         InSection(h) => run[h].locked /\ lock = h
  PROVE  run'[h].locked /\ lock' = h
<1>1. CASE Start(h)
  <2>1. UNCHANGED lock /\ run[h] = None /\ (run'[h] = None \/ run'[h].at = "state")
    BY <1>1 DEF Start, Idle, locking, TypeOK
  <2> QED BY <2>1 DEF InSection, Section
<1>2. CASE ReadState(h)
  <2>1. run'[h].at \in {"lock", "record"}
    BY <1>2 DEF ReadState, At, TypeOK, Run
  <2> QED BY <2>1 DEF InSection, Section
<1>3. CASE TakeLock(h)
  BY <1>3 DEF TakeLock, At, TypeOK, Run
<1>4. CASE SeeStale(h) \/ Unlink(h) \/ Twin(h) \/ Record(h)
  <2>1. run'[h].at \in {"break", "twin", "record", "clear"}
    BY <1>4, GotoFacts DEF SeeStale, Unlink, Twin, Record, At
  <2> QED BY <2>1 DEF InSection, Section
<1>5. CASE BreakLock(h) \/ GiveUpLock(h)
  BY <1>5 DEF BreakLock, GiveUpLock
<1>6. CASE Clear(h) \/ Die(h)
  BY <1>6 DEF Clear, Die, TypeOK, InSection
<1>7. CASE Cache(h) \/ Scan(h) \/ Persist(h) \/ Release(h)
  <2>1. InSection(h)
    BY <1>7 DEF Cache, Scan, Persist, Release, At, InSection, Section
  <2>2. lock' = lock
    BY <1>7 DEF Cache, Scan, Persist, Release, locking
  <2>3. run'[h].locked = run[h].locked
    <3>1. CASE Cache(h)
      BY <3>1, <2>1, GotoFacts DEF Cache, InSection, TypeOK, Run
    <3>2. CASE Scan(h)
      BY <3>2, <2>1 DEF Scan, InSection, TypeOK, Run
    <3>3. CASE Persist(h) \/ Release(h)
      BY <3>3, <2>1, GotoFacts DEF Persist, Release, InSection
    <3> QED BY <1>7, <3>1, <3>2, <3>3
  <2> QED BY <2>1, <2>2, <2>3
<1> QED BY <1>1, <1>2, <1>3, <1>4, <1>5, <1>6, <1>7 DEF Step

(* Only the hook in the section takes the lock from itself.                *)
LEMMA LockKept ==
  ASSUME TypeOK, NEW h \in Hooks, Step(h), ~ degraded', NEW k \in Hooks, k # h, lock = k,
         InSection(h) => lock = h
  PROVE  lock' = k
<1>1. k # None
  BY AcceptAssumption
<1>2. ~ InSection(h)
  BY <1>1
<1>3. ~ TakeLock(h) /\ ~ BreakLock(h)
  BY <1>1 DEF TakeLock, BreakLock
<1>4. ~ Unlink(h)
  BY <1>2 DEF Unlink, At, InSection, Section
<1> QED BY <1>3, <1>4 DEF Step, Start, ReadState, SeeStale, GiveUpLock, Cache, Scan, Persist,
          Release, Twin, Record, Clear, Die, locking

LEMMA DegradedStays ==
  ASSUME TypeOK, [Next]_vars PROVE degraded => degraded'
<1>1. ASSUME NEW h \in Hooks, Step(h) PROVE degraded => degraded'
  BY <1>1 DEF Step, Start, ReadState, TakeLock, SeeStale, BreakLock, GiveUpLock, Cache, Scan,
     Persist, Release, Unlink, Twin, Record, Clear, Die, history
<1>2. CASE ~ \E h \in Hooks : Step(h)
  BY <1>2, Steps DEF Truncate, Store, Age, CollectCache, Collect, Sweep, vars, history
<1> QED BY <1>1, <1>2

(* Who comes to write a bundle knows of the only one there is.             *)
LEMMA ComesToPersist ==
  ASSUME TypeOK, NEW h \in Hooks, Step(h), ~ degraded', OneBundle, At(h, "persist")'
  PROVE  /\ UNCHANGED bundle
         /\ \A s \in Sessions : bundle[s] = run'[h].message => s = run'[h].session
<1>1. CASE Cache(h)
  <2> DEFINE m0 == run[h].message
             hint == index[m0]
  <2>1. run[h] # None /\ run[h].at = "cache" /\ UNCHANGED bundle
    BY <1>1 DEF Cache, At
  <2>2. ~ Goto(h, "scan")
    BY <2>1, GotoFacts DEF At
  <2>3. /\ hint # None /\ bundle[hint] = m0
        /\ run' = [run EXCEPT ![h].at = "persist", ![h].session = hint]
    BY <1>1, <2>2 DEF Cache, Adoptable
  <2>4. run'[h].session = hint /\ run'[h].message = m0
    BY <2>1, <2>3 DEF TypeOK, Run
  <2>5. m0 \in Messages /\ hint \in Sessions /\ m0 # None
    BY <2>1, <2>3, AcceptAssumption DEF TypeOK, Run
  <2> QED BY <2>1, <2>3, <2>4, <2>5 DEF OneBundle
<1>2. CASE Scan(h)
  <2> DEFINE m0 == run[h].message
             files == {s \in Sessions : bundle[s] # None}
  <2>1. run[h] # None /\ UNCHANGED bundle
    BY <1>2 DEF Scan, At
  <2>2. PICK s0 \in Sessions :
          /\ run' = [run EXCEPT ![h].at = "persist", ![h].session = s0]
          /\ s0 \in Hits(h, files) \/ Hits(h, files) = {}
    BY <1>2 DEF Scan, Hits, Windows
  <2>3. run'[h].session = s0 /\ run'[h].message = m0
    BY <2>1, <2>2 DEF TypeOK, Run
  <2>4. m0 \in Messages /\ m0 # None
    BY <2>1, AcceptAssumption DEF TypeOK, Run
  <2>5. ASSUME NEW s \in Sessions, bundle[s] = m0 PROVE s = s0
    <3>1. s \in Hits(h, files)
      BY <2>4, <2>5 DEF Hits, Adoptable
    <3>2. bundle[s0] = m0
      BY <2>2, <3>1 DEF Hits, Adoptable
    <3> QED BY <2>4, <2>5, <3>2 DEF OneBundle
  <2> QED BY <2>1, <2>3, <2>5
<1>3. CASE ~ Cache(h) /\ ~ Scan(h)
  <2>1. CASE Start(h)
    BY <2>1 DEF Start, Idle, TypeOK, At
  <2>2. CASE ReadState(h)
    BY <2>2 DEF ReadState, At, TypeOK, Run
  <2>3. CASE TakeLock(h)
    BY <2>3 DEF TakeLock, At, TypeOK, Run
  <2>4. CASE BreakLock(h)
    BY <2>4 DEF BreakLock, At, TypeOK, Run
  <2>5. CASE SeeStale(h) \/ GiveUpLock(h) \/ Persist(h) \/ Release(h) \/ Unlink(h) \/ Twin(h) \/ Record(h)
    <3>1. run'[h].at # "persist"
      BY <2>5, GotoFacts DEF SeeStale, GiveUpLock, Persist, Release, Unlink, Twin, Record, At
    <3> QED BY <3>1 DEF At
  <2>6. CASE Clear(h) \/ Die(h)
    BY <2>6 DEF Clear, Die, TypeOK, At
  <2> QED BY <1>3, <2>1, <2>2, <2>3, <2>4, <2>5, <2>6 DEF Step
<1> QED BY <1>1, <1>2, <1>3

LEMMA StepLocked ==
  ASSUME TypeOK, LockedPart, NEW h \in Hooks, Step(h)
  PROVE  LockedPart'
<1> SUFFICES ASSUME ~ degraded'
             PROVE  SectionIsLocked' /\ PersistsTheOne' /\ OneBundle'
  BY DEF LockedPart
<1>0. ~ degraded
  BY DegradedStays DEF Next
<1>1. SectionIsLocked /\ PersistsTheOne /\ OneBundle
  BY <1>0 DEF LockedPart
<1>o. \A k \in Hooks \ {h} : run'[k] = run[k]
  BY StepOthers
<1>2. SectionIsLocked'
  <2> SUFFICES ASSUME NEW k \in Hooks, InSection(k)'
               PROVE  run'[k].locked /\ lock' = k
    BY DEF SectionIsLocked
  <2>1. CASE k = h
    BY <2>1, <1>1, EntersLocked DEF SectionIsLocked
  <2>2. CASE k # h
    <3>1. run'[k] = run[k] /\ InSection(k)
      BY <2>2, <1>o DEF InSection
    <3>2. run[k].locked /\ lock = k
      BY <1>1, <3>1 DEF SectionIsLocked
    <3>3. lock' = k
      BY <1>1, <2>2, <3>2, LockKept DEF SectionIsLocked
    <3> QED BY <3>1, <3>2, <3>3
  <2> QED BY <2>1, <2>2
<1>3. ASSUME NEW k \in Hooks, k # h, At(k, "persist") PROVE UNCHANGED bundle
  <2>1. ~ Persist(h)
    BY <1>1, <1>3 DEF SectionIsLocked, InSection, Section, Persist, At
  <2> QED BY <2>1 DEF Step, Start, ReadState, TakeLock, SeeStale, BreakLock, GiveUpLock, Cache, Scan,
             Release, Unlink, Twin, Record, Clear, Die
<1>4. PersistsTheOne'
  <2> SUFFICES ASSUME NEW k \in Hooks, At(k, "persist")', NEW s \in Sessions,
                      bundle'[s] = run'[k].message
               PROVE  s = run'[k].session
    BY DEF PersistsTheOne
  <2>1. CASE k = h
    BY <2>1, <1>1, ComesToPersist
  <2>2. CASE k # h
    <3>1. run'[k] = run[k] /\ At(k, "persist")
      BY <2>2, <1>o DEF At
    <3> QED BY <1>1, <1>3, <2>2, <3>1 DEF PersistsTheOne
  <2> QED BY <2>1, <2>2
<1>5. OneBundle'
  <2>1. CASE UNCHANGED bundle
    BY <1>1, <2>1 DEF OneBundle
  <2>2. CASE ~ UNCHANGED bundle
    <3>1. /\ At(h, "persist")
          /\ bundle' = [bundle EXCEPT ![run[h].session] = run[h].message]
      BY <2>2 DEF Step, Start, ReadState, TakeLock, SeeStale, BreakLock, GiveUpLock, Cache, Scan,
         Persist, Release, Unlink, Twin, Record, Clear, Die
    <3>2. \A s \in Sessions : bundle[s] = run[h].message => s = run[h].session
      BY <1>1, <3>1 DEF PersistsTheOne
    <3>3. \A s \in Sessions : bundle'[s] = IF s = run[h].session THEN run[h].message ELSE bundle[s]
      BY <3>1 DEF TypeOK
    <3> QED BY <1>1, <3>2, <3>3 DEF OneBundle
  <2> QED BY <2>1, <2>2
<1> QED BY <1>2, <1>4, <1>5

(* While the lock is respected and the scan sees every bundle, it is an    *)
(* invariant that the section is locked and that a message has one bundle. *)
THEOREM LockIsExclusive == Spec => []LockedPart
<1>1. Init => LockedPart
  BY DEF Init, LockedPart, SectionIsLocked, PersistsTheOne, OneBundle, InSection, At
<1>2. ASSUME TypeOK, LockedPart, [Next]_vars PROVE LockedPart'
  <2>1. CASE \E h \in Hooks : Step(h)
    BY <1>2, <2>1, StepLocked
  <2>2. CASE ~ \E h \in Hooks : Step(h)
    <3>1. UNCHANGED <<run, lock, degraded>>
      BY <1>2, <2>2, Steps DEF Truncate, Store, Age, CollectCache, Collect, Sweep, vars, history,
         locking
    <3>2. \A s \in Sessions : bundle'[s] = bundle[s] \/ bundle'[s] = None
      BY <1>2, <2>2, Steps DEF Truncate, Store, Age, CollectCache, Collect, Sweep, vars, TypeOK
    <3>3. \A h \in Hooks : At(h, "persist") => run[h].message # None
      BY <1>2, AcceptAssumption DEF TypeOK, At, Run
    <3>4. ASSUME ~ degraded' PROVE SectionIsLocked' /\ PersistsTheOne' /\ OneBundle'
      <4>1. SectionIsLocked /\ PersistsTheOne /\ OneBundle
        BY <1>2, <3>1, <3>4 DEF LockedPart
      <4>2. SectionIsLocked'
        BY <3>1, <4>1 DEF SectionIsLocked, InSection
      <4>3. PersistsTheOne'
        BY <3>1, <3>2, <3>3, <4>1 DEF PersistsTheOne, At
      <4>4. OneBundle'
        BY <3>2, <4>1 DEF OneBundle
      <4> QED BY <4>2, <4>3, <4>4
    <3> QED BY <3>4 DEF LockedPart
  <2> QED BY <2>1, <2>2
<1> QED BY <1>1, <1>2, AcceptTyped, PTL DEF Spec

(* A message that is bound again, after a crash, a lost cache or a garbage *)
(* collection, or by hooks that race, has one bundle, as long as every     *)
(* hook had the lock and saw all bundles (_resolve_reuse_identity under    *)
(* acquire_bind_lock).                                                     *)
THEOREM MessagesKeepTheirSession == Spec => []OneSessionPerMessage
<1>1. LockedPart => OneSessionPerMessage
  BY DEF LockedPart, OneBundle, OneSessionPerMessage
<1> QED BY <1>1, LockIsExclusive, PTL
-----------------------------------------------------------------------------
(* Generations are numbered as they come: nothing speaks of a later one.   *)
Past ==
  /\ state # None => state.of <= written
  /\ \A h \in Hooks : run[h] # None /\ run[h].draft # None => run[h].draft <= written
  /\ \A g \in Gens : sent[g] > 0 => g <= written

(* As long as hooks run one after another and to their end: a generation   *)
(* whose record was sent is still in the hand-off file only while the hook *)
(* that sent it is about to clear that, and no hook holds it to send it.   *)
Alone      == \A h, k \in Hooks : run[h] # None /\ run[k] # None => h = k
AtMostOnce == \A g \in Gens : sent[g] <= 1
SentIsCleared ==
  state # None /\ sent[state.of] > 0 => \E h \in Hooks : At(h, "clear")
DraftIsUnsent ==
  \A h \in Hooks :
    run[h] # None /\ run[h].draft # None /\ run[h].at # "clear" => sent[run[h].draft] = 0

TidyPart == ~ untidy => Alone /\ AtMostOnce /\ SentIsCleared /\ DraftIsUnsent

LEMMA UntidyStays ==
  ASSUME TypeOK, [Next]_vars PROVE untidy => untidy'
<1>1. ASSUME NEW h \in Hooks, Step(h) PROVE untidy => untidy'
  BY <1>1 DEF Step, Start, ReadState, TakeLock, SeeStale, BreakLock, GiveUpLock, Cache, Scan,
     Persist, Release, Unlink, Twin, Record, Clear, Die, history
<1>2. CASE ~ \E h \in Hooks : Step(h)
  BY <1>2, Steps DEF Truncate, Store, Age, CollectCache, Collect, Sweep, vars, history
<1> QED BY <1>1, <1>2

(* Most steps of a hook move it, with its draft, and record nothing.       *)
MovesOn(h) ==
  /\ run[h] # None /\ run[h].at # "clear"
  /\ run'[h].draft = run[h].draft
  /\ UNCHANGED <<state, written, sent, untidy>>

LEMMA StepKinds ==
  ASSUME TypeOK, NEW h \in Hooks, Step(h)
  PROVE  Start(h) \/ ReadState(h) \/ MovesOn(h) \/ Record(h) \/ Clear(h) \/ Die(h)
<1>1. ASSUME TakeLock(h) \/ BreakLock(h) PROVE MovesOn(h)
  BY <1>1 DEF TakeLock, BreakLock, At, TypeOK, Run, MovesOn, handoff, history
<1>2. ASSUME SeeStale(h) \/ GiveUpLock(h) \/ Persist(h) \/ Release(h) \/ Unlink(h) \/ Twin(h)
      PROVE  MovesOn(h)
  <2>1. /\ run[h] # None /\ run[h].at # "clear"
        /\ \E place \in Places : Goto(h, place)
        /\ UNCHANGED <<state, written, sent, untidy>>
    BY <1>2 DEF SeeStale, GiveUpLock, Persist, Release, Unlink, Twin, At, Places, handoff, history
  <2> QED BY <2>1, GotoFacts DEF MovesOn
<1>3. ASSUME Cache(h) PROVE MovesOn(h)
  <2>1. /\ run[h] # None /\ run[h].at # "clear" /\ UNCHANGED <<state, written, sent, untidy>>
    BY <1>3 DEF Cache, At, handoff, history
  <2>2. run'[h].draft = run[h].draft
    BY <1>3, <2>1, GotoFacts DEF Cache, TypeOK, Run
  <2> QED BY <2>1, <2>2 DEF MovesOn
<1>4. ASSUME Scan(h) PROVE MovesOn(h)
  <2>1. /\ run[h] # None /\ run[h].at # "clear" /\ UNCHANGED <<state, written, sent, untidy>>
    BY <1>4 DEF Scan, At, handoff
  <2>2. run'[h].draft = run[h].draft
    BY <1>4, <2>1 DEF Scan, TypeOK, Run
  <2> QED BY <2>1, <2>2 DEF MovesOn
<1> QED BY <1>1, <1>2, <1>3, <1>4 DEF Step

LEMMA DraftsTyped ==
  ASSUME TypeOK
  PROVE  /\ written \in Nat
         /\ state # None => state.of \in Gens /\ state.of \in Nat
         /\ \A h \in Hooks : run[h] # None => run[h] \in Run /\ run[h].draft \in Gens \cup {None}
         /\ \A g \in Gens : sent[g] \in Nat /\ g \in Nat
<1>1. Gens \subseteq Nat /\ MaxGens \in Nat
  BY GensAreNaturals
<1>2. written \in Nat /\ \A g \in Gens : sent[g] \in Nat
  BY <1>1 DEF TypeOK
<1>3. state # None => state.of \in Gens
  BY DEF TypeOK, Handoff
<1>4. \A h \in Hooks : run[h] # None => run[h] \in Run /\ run[h].draft \in Gens \cup {None}
  BY DEF TypeOK, Run
<1> QED BY <1>1, <1>2, <1>3, <1>4

(* What Record does.                                                       *)
LEMMA RecordFacts ==
  ASSUME TypeOK, NEW h \in Hooks, Record(h)
  PROVE  /\ At(h, "record") /\ At(h, "clear")'
         /\ run'[h].draft = run[h].draft
         /\ UNCHANGED <<state, written, untidy>>
         /\ \A g \in Gens : /\ g # run[h].draft => sent'[g] = sent[g]
                           /\ sent'[g] <= sent[g] + 1
<1>1. At(h, "record") /\ Goto(h, "clear") /\ UNCHANGED <<state, written, untidy>>
  BY DEF Record, handoff
<1>2. run'[h].at = "clear" /\ run'[h].draft = run[h].draft
  BY <1>1, GotoFacts DEF At
<1>3. run'[h] # None
  <2>1. run[h] \in Run /\ "clear" \in Places
    BY <1>1 DEF At, TypeOK, Places
  <2>2. run' = [run EXCEPT ![h] = [run[h] EXCEPT !.at = "clear"]]
    BY <1>1 DEF Goto
  <2>3. run'[h] \in Run
    BY <2>1, <2>2, MoveTyped DEF TypeOK
  <2> QED BY <2>3, NoneAssumption
<1>4. ASSUME NEW g \in Gens
      PROVE  (g # run[h].draft => sent'[g] = sent[g]) /\ sent'[g] <= sent[g] + 1
  <2>1. sent[g] \in Nat
    BY DraftsTyped
  <2>2. CASE run[h].draft = None
    BY <2>1, <2>2 DEF Record
  <2>3. CASE run[h].draft # None
    <3>1. sent' = [sent EXCEPT ![run[h].draft] = IF @ = 2 THEN 2 ELSE @ + 1]
      BY <2>3 DEF Record
    <3>2. sent'[g] = IF g = run[h].draft THEN IF sent[g] = 2 THEN 2 ELSE sent[g] + 1 ELSE sent[g]
      BY <3>1 DEF TypeOK
    <3> QED BY <2>1, <3>2
  <2> QED BY <2>2, <2>3
<1> QED BY <1>1, <1>2, <1>3, <1>4 DEF At

LEMMA PastInductive ==
  ASSUME TypeOK, TypeOK', Past, [Next]_vars
  PROVE  Past'
<1>t. /\ written \in Nat /\ written' \in Nat
      /\ \A g \in Gens : sent[g] \in Nat /\ sent'[g] \in Nat /\ g \in Nat
  BY DraftsTyped, GensAreNaturals DEF TypeOK
<1>1. ASSUME NEW h \in Hooks, Step(h) PROVE Past'
  <2>o. \A k \in Hooks \ {h} : run'[k] = run[k]
    BY <1>1, StepOthers
  <2>1. CASE Start(h)
    <3>1. (run'[h] = None \/ run'[h].draft = None) /\ (state' = state \/ state' = None)
      BY <2>1 DEF Start, Idle, TypeOK
    <3>2. UNCHANGED <<written, sent>>
      BY <2>1 DEF Start
    <3> QED BY <2>o, <3>1, <3>2 DEF Past
  <2>2. CASE ReadState(h)
    <3>1. UNCHANGED <<state, written, sent>> /\ run[h] # None
      BY <2>2 DEF ReadState, handoff, history, At
    <3>2. run'[h].draft = Draft
      BY <2>2, <3>1 DEF ReadState, TypeOK, Run
    <3>3. Draft # None => Draft <= written
      BY DEF Draft, Past
    <3> QED BY <2>o, <3>1, <3>2, <3>3 DEF Past
  <2>3. CASE MovesOn(h)
    BY <2>o, <2>3 DEF MovesOn, Past
  <2>4. CASE Record(h)
    <3>1. /\ UNCHANGED <<state, written>> /\ run[h] # None /\ run'[h].draft = run[h].draft
          /\ \A g \in Gens : g # run[h].draft => sent'[g] = sent[g]
      BY <2>4, RecordFacts DEF At
    <3>2. run[h].draft # None => run[h].draft <= written
      BY <3>1 DEF Past
    <3>3. \A g \in Gens : g = run[h].draft => run[h].draft # None \/ sent'[g] = sent[g]
      BY <2>4 DEF Record
    <3> QED BY <2>o, <3>1, <3>2, <3>3 DEF Past
  <2>5. CASE Clear(h) \/ Die(h)
    <3>1. run'[h] = None /\ (state' = state \/ state' = None) /\ UNCHANGED <<written, sent>>
      BY <2>5 DEF Clear, Die, handoff, history, TypeOK
    <3> QED BY <2>o, <3>1 DEF Past
  <2> QED BY <1>1, <2>1, <2>2, <2>3, <2>4, <2>5, StepKinds
<1>2. CASE Truncate
  <2>1. written' = written + 1 /\ state'.of = written' /\ UNCHANGED <<run, sent>>
    BY <1>2 DEF Truncate, history
  <2>2. \A h \in Hooks : run[h] # None /\ run[h].draft # None => run[h].draft \in Nat
    BY DraftsTyped, GensAreNaturals
  <2> QED BY <1>t, <2>1, <2>2 DEF Past
<1>3. CASE Store
  <2>1. UNCHANGED <<run, sent, written>> /\ state # None /\ state'.of = state.of
    BY <1>3 DEF Store, history, TypeOK, Handoff
  <2> QED BY <2>1 DEF Past
<1>4. CASE Age \/ CollectCache \/ Collect \/ Sweep \/ UNCHANGED vars
  <2>1. UNCHANGED <<state, written, run, sent>>
    BY <1>4 DEF Age, CollectCache, Collect, Sweep, vars, handoff, history
  <2> QED BY <2>1 DEF Past
<1> QED BY <1>1, <1>2, <1>3, <1>4, Steps

LEMMA StepTidy ==
  ASSUME TypeOK, TidyPart, NEW h \in Hooks, Step(h)
  PROVE  TidyPart'
<1> SUFFICES ASSUME ~ untidy'
             PROVE  Alone' /\ AtMostOnce' /\ SentIsCleared' /\ DraftIsUnsent'
  BY DEF TidyPart
<1>1. ~ untidy
  BY UntidyStays DEF Next
<1>2. Alone /\ AtMostOnce /\ SentIsCleared /\ DraftIsUnsent
  BY <1>1 DEF TidyPart
<1>o. \A k \in Hooks \ {h} : run'[k] = run[k]
  BY StepOthers
<1>a. ASSUME run[h] # None
      PROVE  Alone' /\ \A k \in Hooks : run'[k] # None => k = h
  BY <1>2, <1>o, <1>a DEF Alone
<1>c. ASSUME run[h] # None, run[h].at # "clear", state # None
      PROVE  sent[state.of] = 0
  <2>1. \A k \in Hooks : ~ At(k, "clear")
    BY <1>2, <1>c DEF Alone, At
  <2>2. sent[state.of] \in Nat
    BY <1>c, DraftsTyped
  <2> QED BY <1>2, <1>c, <2>1, <2>2 DEF SentIsCleared
<1>3. CASE Start(h)
  <2>1. CASE UNCHANGED run
    BY <1>2, <1>3, <2>1
       DEF Start, Alone, AtMostOnce, SentIsCleared, DraftIsUnsent, At, TypeOK
  <2>2. CASE ~ UNCHANGED run
    <3>1. /\ \A k \in Hooks : run[k] = None
          /\ run'[h].draft = None /\ UNCHANGED <<state, sent>>
      <4>1. /\ untidy' = (untidy \/ \E other \in Hooks : run[other] # None)
            /\ UNCHANGED <<state, sent>>
        BY <1>3, <2>2 DEF Start
      <4>2. \A k \in Hooks : run[k] = None
        BY <4>1
      <4>3. run'[h].draft = None
        BY <1>3, <2>2 DEF Start, TypeOK
      <4> QED BY <4>1, <4>2, <4>3
    <3>2. \A k \in Hooks \ {h} : run'[k] = None
      BY <1>o, <3>1
    <3> QED BY <1>2, <3>1, <3>2 DEF Alone, AtMostOnce, SentIsCleared, DraftIsUnsent, At
  <2> QED BY <2>1, <2>2
<1>4. CASE ReadState(h)
  <2>1. run[h] # None /\ run[h].at # "clear" /\ UNCHANGED <<state, sent>>
    BY <1>4 DEF ReadState, At, handoff, history
  <2>2. run'[h].draft = Draft
    BY <1>4, <2>1 DEF ReadState, TypeOK, Run
  <2>3. Draft # None => sent[Draft] = 0
    BY <1>c, <2>1 DEF Draft
  <2>4. SentIsCleared'
    BY <1>c, <2>1 DEF SentIsCleared
  <2> QED BY <1>2, <1>a, <2>1, <2>2, <2>3, <2>4 DEF AtMostOnce, DraftIsUnsent
<1>5. CASE MovesOn(h)
  <2>1. SentIsCleared'
    BY <1>5, <1>c DEF MovesOn, SentIsCleared
  <2>2. DraftIsUnsent'
    BY <1>2, <1>5, <1>a DEF MovesOn, DraftIsUnsent
  <2> QED BY <1>2, <1>5, <1>a, <2>1, <2>2 DEF MovesOn, AtMostOnce
<1>6. CASE Record(h)
  <2>1. /\ run[h] # None /\ run[h].at = "record" /\ At(h, "clear")'
        /\ \A g \in Gens : /\ g # run[h].draft => sent'[g] = sent[g]
                          /\ sent'[g] <= sent[g] + 1
    BY <1>6, RecordFacts DEF At
  <2>2. ASSUME NEW g \in Gens PROVE sent'[g] <= 1
    <3>1. CASE g = run[h].draft /\ run[h].draft # None
      BY <1>2, <2>1, <3>1 DEF DraftIsUnsent
    <3>2. CASE g # run[h].draft
      BY <1>2, <2>1, <3>2 DEF AtMostOnce
    <3>3. CASE run[h].draft = None
      BY <1>2, <1>6, <3>3 DEF Record, AtMostOnce
    <3> QED BY <3>1, <3>2, <3>3
  <2>3. SentIsCleared'
    BY <2>1 DEF SentIsCleared
  <2>4. DraftIsUnsent'
    BY <1>a, <2>1 DEF DraftIsUnsent, At
  <2> QED BY <1>a, <2>1, <2>2, <2>3, <2>4 DEF AtMostOnce
<1>7. CASE Clear(h)
  <2>1. run[h] # None /\ run'[h] = None /\ state' = None /\ UNCHANGED sent
    BY <1>7 DEF Clear, At, TypeOK, history
  <2> QED BY <1>2, <1>a, <2>1 DEF AtMostOnce, SentIsCleared, DraftIsUnsent
<1>8. CASE Die(h)
  BY <1>8 DEF Die
<1> QED BY <1>3, <1>4, <1>5, <1>6, <1>7, <1>8, StepKinds

(* Generations come in order, and in a tidy run each is sent at most once, *)
(* and is out of the way before the next hook reads.                       *)
THEOREM HandoffIsCleared == Spec => [](Past /\ TidyPart)
<1>1. Init => Past /\ TidyPart
  BY DEF Init, Past, TidyPart, Alone, AtMostOnce, SentIsCleared, DraftIsUnsent
<1>2. ASSUME TypeOK, TypeOK', Past, TidyPart, [Next]_vars PROVE TidyPart'
  <2>1. CASE \E h \in Hooks : Step(h)
    BY <1>2, <2>1, StepTidy
  <2>2. CASE Truncate
    <3>1. /\ UNCHANGED <<run, sent, untidy>> /\ written' = written + 1
          /\ state'.of = written'
      BY <2>2 DEF Truncate, history
    <3>2. \A g \in Gens : g = written' => sent[g] = 0
      BY <1>2, <3>1, DraftsTyped DEF Past
    <3>3. state' # None => state'.of \in Gens
      BY <1>2 DEF TypeOK, Handoff
    <3> QED BY <1>2, <3>1, <3>2, <3>3
            DEF TidyPart, Alone, AtMostOnce, SentIsCleared, DraftIsUnsent
  <2>3. CASE Store
    <3>1. UNCHANGED <<run, sent, untidy>> /\ state # None /\ state'.of = state.of
      BY <1>2, <2>3 DEF Store, history, TypeOK, Handoff
    <3> QED BY <1>2, <3>1
            DEF TidyPart, Alone, AtMostOnce, SentIsCleared, DraftIsUnsent, At
  <2>4. CASE Age \/ CollectCache \/ Collect \/ Sweep \/ UNCHANGED vars
    <3>1. UNCHANGED <<state, run, sent, untidy>>
      BY <2>4 DEF Age, CollectCache, Collect, Sweep, vars, handoff, history
    <3> QED BY <1>2, <3>1
            DEF TidyPart, Alone, AtMostOnce, SentIsCleared, DraftIsUnsent, At
  <2> QED BY <1>2, <2>1, <2>2, <2>3, <2>4, Steps
<1>3. TypeOK /\ TypeOK' /\ Past /\ TidyPart /\ [Next]_vars => (Past /\ TidyPart)'
  BY <1>2, PastInductive
<1> QED BY <1>1, <1>3, AcceptTyped, PTL DEF Spec

(* A generation is recorded for one commit at most, while hooks run one    *)
(* after another and to their end (record_telemetry: clear_telemetry_state).  *)
THEOREM GenerationsRecordedOnce == Spec => []RecordedOnce
<1>1. TidyPart => RecordedOnce
  BY DEF TidyPart, AtMostOnce, RecordedOnce
<1> QED BY <1>1, HandoffIsCleared, PTL
=============================================================================
