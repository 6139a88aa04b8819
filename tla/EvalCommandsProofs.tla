------------------------- MODULE EvalCommandsProofs -------------------------
(***************************************************************************)
(* Proofs about the commands of the evaluation harness, for any number of  *)
(* processes, experiments, cases, metrics and bundles, from any store that *)
(* is in order: what a finished command says is so, no file refers to one  *)
(* that is not there, issues move by their matrix, and a triage speaks of  *)
(* one run.                                                                *)
(***************************************************************************)
EXTENDS EvalCommands, FiniteSetTheorems, WellFoundedInduction, TLAPS

(* The record of a process, whatever is in it.                             *)
Fields == {"cmd", "id", "at", "exp", "copy", "base", "seen", "todo", "exit", "ok",
           "wrote", "dry"}
IsTask(t) == t = [f \in Fields |-> t[f]]

(* Stores in order, and files that refer only to files that are there.     *)
HasItsOwn(f) ==
  /\ f.kind = "compare" => File("replay_bundle", f.id, f.of) \in files
  /\ f.kind = "row" => \E m \in files :
       m.kind = "manifest" /\ m.id = f.id /\ f.of \subseteq m.of
  /\ f.kind = "vault" => File("row", f.id, f.of) \in files

FilesHaveTheirs == \A f \in files : HasItsOwn(f)

StoreOK ==
  /\ order \in Seq(Exps)
  /\ rows \in [Exps -> [Cases -> CaseRows \cup {None, Broken}]]
  /\ issue \in [Fingerprints -> IssueRows \cup {None, Broken}]
  /\ snap \in [Fingerprints -> Nat \cup {None}]
  /\ \A f \in Fingerprints : snap[f] # None => issue[f] # None
  /\ FilesHaveTheirs

JobsTyped == job = [p \in Procs |-> job[p]] /\ spent \in Nat
-----------------------------------------------------------------------------
(* What is so of a command in the middle of its work.                      *)
InRun(t) ==
  t.at = "scoring" => /\ t.cmd \in {"run", "resume", "recompute"}
                      /\ t.exp \in Exps /\ t.todo \subseteq Cases

FollowsSeen(t) == \A old \in t.seen : old \in IssueRows => Follows(old, t.copy)

InDiagnose(t) ==
  t.cmd = "diagnose" =>
    /\ t.at \in {"find", "row", "snapshot"} => t.base \in Fingerprints
    /\ t.at = "find" => t.seen \subseteq Cases
    /\ t.at \in {"row", "snapshot"} => t.copy \in IssueRows
    /\ t.at = "row" => FollowsSeen(t)
    /\ t.at = "snapshot" => issue[t.base] # None

InTransition(t) ==
  t.cmd = "transition" /\ t.at = "write" =>
    t.base \in Fingerprints /\ t.copy \in IssueRows /\ FollowsSeen(t)

RowsOf(t, bs)  == {File("row", t.id, {b}) : b \in bs}
VaultOf(t, bs) == {File("vault", t.id, {b}) : b \in bs}

InExport(t) ==
  t.cmd = "train_export" =>
    /\ t.at \in {"manifest", "rows", "vault"} => t.copy \subseteq t.seen
    /\ t.at = "manifest" => t.todo = t.seen
    /\ t.at \in {"rows", "vault"} => File("manifest", t.id, t.seen) \in files
    /\ t.at = "rows" => t.todo \subseteq t.seen /\ RowsOf(t, t.seen \ t.todo) \subseteq files
    /\ t.at = "vault" => /\ t.todo \subseteq t.copy /\ RowsOf(t, t.seen) \subseteq files
                         /\ VaultOf(t, t.copy \ t.todo) \subseteq files

InReplay(t) ==
  t.cmd = "replay" =>
    /\ t.at \in {"compare", "recheck"} => File("replay_bundle", t.id, {t.exp}) \in files
    /\ t.at = "recheck" => File("compare", t.id, {t.exp}) \in files

ListedOnly(s) ==
  s = {} \/ \E x \in s :
              /\ s = {x} /\ x.part = "failures" /\ x.cases \subseteq Cases
              /\ x.exp = None => x.cases = {}

InTriage(t) ==
  t.cmd = "triage" =>
    /\ t.at # "done" => t.wrote = FALSE
    /\ t.at = "failures" => t.seen = {}
    /\ t.at = "explain" => ListedOnly(t.seen)

(* What is so of a finished one.                                           *)
OneRun(seen) ==
  \A x, y \in seen :
    x.part = "failures" /\ y.part = "selected" => x.exp = y.exp /\ y.cases = x.cases

IsDone(t) ==
  t.at = "done" =>
    /\ (t.ok = TRUE) <=> (t.exit = 0)
    /\ t.exit = 2 /\ t.cmd # "promote" => t.wrote = FALSE
    /\ t.exit = 0 /\ t.dry = FALSE => Named(t) \subseteq files
    /\ t.cmd = "diagnose" /\ t.exit = 0 /\ t.dry = FALSE =>
         t.base \in Fingerprints /\ issue[t.base] # None /\ snap[t.base] # None
    /\ t.cmd = "triage" => OneRun(t.seen)

JobOK(t) ==
  /\ IsTask(t) /\ t.dry \in BOOLEAN /\ t.wrote \in BOOLEAN
  /\ InRun(t) /\ InDiagnose(t) /\ InTransition(t) /\ InExport(t) /\ InReplay(t) /\ InTriage(t)
  /\ IsDone(t)

JobsOK == \A p \in Procs : \A t \in {job[p]} : t # None => JobOK(t)

IInv == StoreOK /\ JobsTyped /\ JobsOK
-----------------------------------------------------------------------------
(* Records of processes, field by field.                                   *)
SameTask(e, t) ==
  e.cmd = t.cmd /\ e.id = t.id /\ e.exp = t.exp /\ e.base = t.base /\ e.dry = t.dry

IsNew(t, cmd, at) ==
  /\ IsTask(t)
  /\ t.cmd = cmd /\ t.id = spent + 1 /\ t.at = at /\ t.exp = None /\ t.copy = None
  /\ t.base = None /\ t.seen = {} /\ t.todo = {} /\ t.exit = None /\ t.ok = None
  /\ t.wrote = FALSE /\ t.dry = FALSE

EndsAs(e, t, ok, exit) ==
  /\ IsTask(e) /\ SameTask(e, t)
  /\ e.at = "done" /\ e.ok = ok /\ e.exit = exit /\ e.todo = {}
  /\ e.copy = t.copy /\ e.seen = t.seen /\ e.wrote = t.wrote

FailsAs(e, t, exit) ==
  /\ IsTask(e) /\ SameTask(e, t)
  /\ e.at = "done" /\ e.ok = FALSE /\ e.exit = exit /\ e.seen = {} /\ e.wrote = t.wrote

LEMMA TaskIs ==
  ASSUME NEW cmd, NEW at PROVE IsNew(Task(cmd, at), cmd, at)
BY DEF Task, IsNew, IsTask, Fields

LEMMA EndedIs ==
  ASSUME NEW t, IsTask(t), NEW ok, NEW exit PROVE EndsAs(Ended(t, ok, exit), t, ok, exit)
BY DEF Ended, EndsAs, SameTask, IsTask, Fields

LEMMA SucceededIs ==
  ASSUME NEW t, IsTask(t) PROVE EndsAs(Succeeded(t), t, TRUE, 0)
BY DEF Succeeded, Ended, EndsAs, SameTask, IsTask, Fields

LEMMA CrashedIs ==
  ASSUME NEW t, IsTask(t) PROVE EndsAs(Crashed(t), t, None, 1)
BY DEF Crashed, Ended, EndsAs, SameTask, IsTask, Fields

LEMMA FailedIs ==
  ASSUME NEW t, IsTask(t), NEW exit PROVE FailsAs(Failed(t, exit), t, exit)
BY DEF Failed, Ended, FailsAs, SameTask, IsTask, Fields

LEMMA WroteIs ==
  ASSUME NEW t, IsTask(t)
  PROVE  /\ IsTask(Wrote(t)) /\ SameTask(Wrote(t), t)
         /\ Wrote(t).wrote = TRUE /\ Wrote(t).at = t.at /\ Wrote(t).ok = t.ok
         /\ Wrote(t).exit = t.exit /\ Wrote(t).todo = t.todo /\ Wrote(t).copy = t.copy
         /\ Wrote(t).seen = t.seen
BY DEF Wrote, SameTask, IsTask, Fields

(* One field changed.                                                      *)
LEMMA FieldChanged ==
  ASSUME NEW t, IsTask(t), NEW x
  PROVE  /\ IsTask([t EXCEPT !.at = x]) /\ IsTask([t EXCEPT !.exp = x])
         /\ IsTask([t EXCEPT !.copy = x]) /\ IsTask([t EXCEPT !.base = x])
         /\ IsTask([t EXCEPT !.seen = x]) /\ IsTask([t EXCEPT !.todo = x])
         /\ IsTask([t EXCEPT !.dry = x]) /\ IsTask([t EXCEPT !.wrote = x])
BY DEF IsTask
-----------------------------------------------------------------------------
(* A process that is new, and one that ends without having left anything   *)
(* that its end would have to vouch for.                                   *)
Fresh(t) == IsTask(t) /\ t.wrote = FALSE /\ t.dry \in BOOLEAN

Vouching == {"train_export", "replay", "diagnose", "triage"}

Harmless(t) ==
  /\ IsTask(t) /\ t.dry \in BOOLEAN /\ t.wrote \in BOOLEAN
  /\ t.at = "done"
  /\ (t.ok = TRUE) <=> (t.exit = 0)
  /\ t.exit = 2 /\ t.cmd # "promote" => t.wrote = FALSE
  /\ t.exit = 0 /\ t.dry = FALSE => t.cmd \notin Vouching
  /\ t.cmd = "triage" => t.seen = {}

LEMMA HarmlessOK ==
  ASSUME NEW t, Harmless(t)
  PROVE  JobOK(t) /\ JobOK(t)'
<1>1. t.exit = 0 /\ t.dry = FALSE => Named(t) = {}
  BY DEF Harmless, Vouching, Named
<1>2. InRun(t) /\ InDiagnose(t) /\ InTransition(t) /\ InExport(t) /\ InReplay(t) /\ InTriage(t)
  BY DEF Harmless, InRun, InDiagnose, InTransition, InExport, InReplay, InTriage
<1>3. /\ InDiagnose(t)' /\ InExport(t)' /\ InReplay(t)'
  BY DEF Harmless, InDiagnose, InExport, InReplay
<1>4. IsDone(t) /\ IsDone(t)'
  BY <1>1 DEF Harmless, IsDone, OneRun, Vouching
<1> QED BY <1>2, <1>3, <1>4 DEF JobOK, Harmless, InRun, InTransition, InTriage

LEMMA FreshEnds ==
  ASSUME NEW t, Fresh(t)
  PROVE  /\ \A exit \in Nat \ {0} : Harmless(Failed(t, exit))
         /\ t.cmd \notin Vouching => Harmless(Succeeded(t))
         /\ \A ok \in BOOLEAN \cup {None}, exit \in Nat :
              t.cmd \notin Vouching /\ ((ok = TRUE) <=> (exit = 0)) => Harmless(Ended(t, ok, exit))
<1>1. ASSUME NEW exit \in Nat \ {0} PROVE Harmless(Failed(t, exit))
  <2> DEFINE e == Failed(t, exit)
  <2>1. FailsAs(e, t, exit)
    BY FailedIs DEF Fresh
  <2> HIDE DEF e
  <2>2. IsTask(e) /\ e.dry = t.dry /\ e.wrote = FALSE /\ e.at = "done" /\ e.seen = {}
    BY <2>1 DEF FailsAs, SameTask, Fresh
  <2>3. e.ok = FALSE /\ e.exit = exit /\ exit # 0
    BY <2>1 DEF FailsAs
  <2>4. (e.ok = TRUE) <=> (e.exit = 0)
    BY <2>3
  <2>5. Harmless(e)
    BY <2>2, <2>3, <2>4 DEF Harmless, Fresh
  <2> QED BY <2>5 DEF e
<1>2. ASSUME NEW ok \in BOOLEAN \cup {None}, NEW exit \in Nat,
             t.cmd \notin Vouching, (ok = TRUE) <=> (exit = 0)
      PROVE  Harmless(Ended(t, ok, exit))
  <2> DEFINE e == Ended(t, ok, exit)
  <2>1. EndsAs(e, t, ok, exit)
    BY EndedIs DEF Fresh
  <2> HIDE DEF e
  <2>2. /\ IsTask(e) /\ e.dry = t.dry /\ e.wrote = FALSE /\ e.at = "done"
        /\ e.seen = t.seen /\ e.cmd = t.cmd
    BY <2>1 DEF EndsAs, SameTask, Fresh
  <2>4. (e.ok = TRUE) <=> (e.exit = 0)
    BY <1>2, <2>1 DEF EndsAs
  <2>5. Harmless(e)
    BY <1>2, <2>2, <2>4 DEF Harmless, Fresh, Vouching
  <2> QED BY <2>5 DEF e
<1>3. t.cmd \notin Vouching => Harmless(Succeeded(t))
  BY SucceededIs DEF Fresh, Harmless, Vouching, EndsAs, SameTask
<1> QED BY <1>1, <1>2, <1>3

LEMMA FreshFails ==
  ASSUME NEW t, Fresh(t)
  PROVE  Harmless(Failed(t, 1)) /\ Harmless(Failed(t, 2)) /\ Harmless(Failed(t, 4))
<1>1. \A exit \in Nat \ {0} : Harmless(Failed(t, exit))
  BY FreshEnds
<1>2. 1 \in Nat \ {0} /\ 2 \in Nat \ {0} /\ 4 \in Nat \ {0}
  OBVIOUS
<1> HIDE DEF Failed
<1>3. Harmless(Failed(t, 1))
  BY <1>1, <1>2, Zenon
<1>4. Harmless(Failed(t, 2))
  BY <1>1, <1>2, Zenon
<1>5. Harmless(Failed(t, 4))
  BY <1>1, <1>2, Zenon
<1> QED BY <1>3, <1>4, <1>5

(* What the store loses no step takes away.                                *)
Grows ==
  /\ files \subseteq files'
  /\ \A f \in Fingerprints : issue[f] # None => issue'[f] # None
  /\ \A f \in Fingerprints : snap[f] # None => snap'[f] # None

LEMMA StillOK ==
  ASSUME Grows, NEW t, JobOK(t)
  PROVE  JobOK(t)'
<1>1. InDiagnose(t)'
  BY DEF JobOK, InDiagnose, Grows
<1>2. InExport(t)'
  BY DEF JobOK, InExport, Grows
<1>3. InReplay(t)'
  BY DEF JobOK, InReplay, Grows
<1>4. IsDone(t)'
  BY DEF JobOK, IsDone, Grows
<1> QED BY <1>1, <1>2, <1>3, <1>4 DEF JobOK, InRun, InTransition, InTriage

(* One process changes, or starts.                                         *)
LEMMA JobChanges ==
  ASSUME JobsTyped, JobsOK, Grows, NEW p \in Procs, spent' \in Nat,
         \E new : job' = [job EXCEPT ![p] = new] /\ (new # None => JobOK(new)')
  PROVE  JobsTyped' /\ JobsOK'
<1>1. PICK new : job' = [job EXCEPT ![p] = new] /\ (new # None => JobOK(new)')
  OBVIOUS
<1>2. JobsTyped'
  BY <1>1 DEF JobsTyped
<1>3. ASSUME NEW q \in Procs, NEW t \in {job'[q]}, t # None PROVE JobOK(t)'
  <2>1. CASE q = p
    BY <1>1, <1>3, <2>1 DEF JobsTyped
  <2>2. CASE q # p
    <3>1. t \in {job[q]}
      BY <1>1, <1>3, <2>2 DEF JobsTyped
    <3>2. JobOK(t)
      BY <1>3, <3>1 DEF JobsOK
    <3> QED BY <3>2, StillOK
  <2> QED BY <2>1, <2>2
<1> QED BY <1>2, <1>3 DEF JobsOK

LEMMA StartsHarmlessly ==
  ASSUME JobsTyped, JobsOK, Grows, NEW p \in Procs,
         \E new : Start(p, new) /\ Harmless(new)
  PROVE  JobsTyped' /\ JobsOK'
<1>1. PICK new : Start(p, new) /\ Harmless(new)
  OBVIOUS
<1>2. JobOK(new)' /\ job' = [job EXCEPT ![p] = new] /\ spent' \in Nat
  BY <1>1, HarmlessOK DEF Start, JobsTyped
<1> QED BY <1>2, JobChanges

LEMMA SameStore ==
  ASSUME StoreOK, UNCHANGED <<order, rows, issue, snap, files>>
  PROVE  StoreOK' /\ Grows
BY DEF StoreOK, Grows, FilesHaveTheirs, HasItsOwn

(* New files, each of which finds what it refers to.                       *)
LEMMA FilesAdded ==
  ASSUME StoreOK, UNCHANGED <<order, rows, issue, snap>>,
         NEW new, files' = files \cup new, \A f \in new : HasItsOwn(f)'
  PROVE  StoreOK' /\ Grows
<1>1. files \subseteq files'
  OBVIOUS
<1>2. ASSUME NEW f \in files' PROVE HasItsOwn(f)'
  <2>1. CASE f \in new
    BY <2>1
  <2>2. CASE f \in files
    BY <1>1, <2>2 DEF StoreOK, FilesHaveTheirs, HasItsOwn
  <2> QED BY <1>2, <2>1, <2>2
<1> QED BY <1>1, <1>2 DEF StoreOK, Grows, FilesHaveTheirs

(* A command that only reads, and ends in the step that starts it.         *)
LEMMA OnlyReads ==
  ASSUME IInv, NEW p \in Procs, UNCHANGED store, \E new : Start(p, new) /\ Harmless(new)
  PROVE  IInv'
<1>1. StoreOK' /\ Grows
  BY SameStore DEF IInv, store
<1>2. JobsTyped' /\ JobsOK'
  BY <1>1, StartsHarmlessly DEF IInv
<1> QED BY <1>1, <1>2 DEF IInv

LEMMA FreshTask ==
  ASSUME NEW cmd, NEW at PROVE Fresh(Task(cmd, at)) /\ Task(cmd, at).cmd = cmd
<1> DEFINE t == Task(cmd, at)
<1>1. IsNew(t, cmd, at)
  BY TaskIs
<1> HIDE DEF t
<1>2. Fresh(t) /\ t.cmd = cmd
  BY <1>1 DEF Fresh, IsNew
<1> QED BY <1>2 DEF t

LEMMA FreshChanged ==
  ASSUME NEW t, Fresh(t), NEW x
  PROVE  /\ Fresh([t EXCEPT !.exp = x]) /\ [t EXCEPT !.exp = x].cmd = t.cmd
         /\ Fresh([t EXCEPT !.copy = x]) /\ [t EXCEPT !.copy = x].cmd = t.cmd
         /\ Fresh([t EXCEPT !.seen = x]) /\ [t EXCEPT !.seen = x].cmd = t.cmd
         /\ x \in BOOLEAN => Fresh([t EXCEPT !.dry = x]) /\ [t EXCEPT !.dry = x].cmd = t.cmd
BY DEF Fresh, IsTask, Fields
-----------------------------------------------------------------------------
(* What is read from the store.                                            *)
LEMMA ResultsTyped ==
  ASSUME StoreOK, NEW e
  PROVE  /\ Exists(e) => e \in Exps
         /\ ResultsOf(e) \in [Cases -> CaseRows \cup {None, Broken}]
         /\ CaseResults(ResultsOf(e)) \subseteq Cases
         /\ FailingCases(ResultsOf(e)) \subseteq CaseResults(ResultsOf(e))
<1>1. Exists(e) => e \in Exps
  BY DEF StoreOK, Exists, Range
<1>2. ResultsOf(e) \in [Cases -> CaseRows \cup {None, Broken}]
  BY <1>1 DEF StoreOK, ResultsOf, NoRows
<1> QED BY <1>1, <1>2 DEF CaseResults, FailingCases

LEMMA ResolvedIs ==
  ASSUME StoreOK, NEW exp, NEW case
  PROVE  /\ Resolved(exp, case).exit \in {0, 2, 4}
         /\ Resolved(exp, case).exp = IF exp = None THEN Newest ELSE exp
         /\ Resolved(exp, case).cases \subseteq
              CaseResults(ResultsOf(Resolved(exp, case).exp))
<1> DEFINE e == IF exp = None THEN Newest ELSE exp
<1>1. \/ Resolved(exp, case) = [exit |-> 2, exp |-> e, cases |-> {}]
      \/ Resolved(exp, case) = [exit |-> 4, exp |-> e, cases |-> {}]
      \/ Resolved(exp, case) = [exit |-> 0, exp |-> e, cases |-> CaseResults(ResultsOf(e))]
      \/ /\ case \in CaseResults(ResultsOf(e))
         /\ Resolved(exp, case) = [exit |-> 0, exp |-> e, cases |-> {case}]
  BY DEF Resolved
<1> HIDE DEF e
<1>2. Resolved(exp, case).exit \in {0, 2, 4} /\ Resolved(exp, case).exp = e
  BY <1>1
<1>3. Resolved(exp, case).cases \subseteq CaseResults(ResultsOf(e))
  BY <1>1
<1> QED BY <1>2, <1>3 DEF e
-----------------------------------------------------------------------------
(* The commands that only read.                                            *)
LEMMA ExplainReads ==
  ASSUME IInv, NEW p \in Procs, ExplainCmd(p) PROVE IInv'
<1>1. PICK exp, case, seen :
        LET found == Resolved(exp, case)
            lost  == found.exit = 0 /\ ~ Exists(found.exp)
            task  == [Task("explain", "start") EXCEPT !.seen = seen] IN
        Start(p, IF found.exit # 0 THEN Failed(task, found.exit)
                 ELSE IF lost THEN Failed(task, 2) ELSE Succeeded(task))
  BY DEF ExplainCmd
<1> DEFINE task == [Task("explain", "start") EXCEPT !.seen = seen]
<1>2. Fresh(task) /\ task.cmd = "explain"
  BY FreshTask, FreshChanged
<1> HIDE DEF task
<1>3. Resolved(exp, case).exit \in {0, 2, 4}
  BY ResolvedIs DEF IInv
<1>4. Harmless(Failed(task, 2)) /\ Harmless(Failed(task, 4)) /\ Harmless(Succeeded(task))
  BY <1>2, FreshFails, FreshEnds DEF Vouching
<1>5. Start(p, Failed(task, 2)) \/ Start(p, Failed(task, 4)) \/ Start(p, Succeeded(task))
  BY <1>1, <1>3 DEF task
<1>6. \E new : Start(p, new) /\ Harmless(new)
  BY <1>4, <1>5
<1> QED BY <1>6, OnlyReads DEF ExplainCmd

LEMMA FailuresReads ==
  ASSUME IInv, NEW p \in Procs, FailuresCmd(p) PROVE IInv'
<1> DEFINE task == Task("failures", "start")
<1>1. UNCHANGED store
  BY DEF FailuresCmd
<1>2. \/ Start(p, Failed(task, 2)) \/ Start(p, Failed(task, 4))
      \/ \E x : Start(p, Succeeded([task EXCEPT !.seen = x]))
  BY DEF FailuresCmd
<1>3. Fresh(task) /\ task.cmd = "failures"
  BY FreshTask
<1> HIDE DEF task
<1>4. ASSUME NEW x PROVE Harmless(Succeeded([task EXCEPT !.seen = x]))
  BY <1>3, FreshChanged, FreshEnds DEF Vouching
<1>5. \E new : Start(p, new) /\ Harmless(new)
  BY <1>2, <1>3, <1>4, FreshFails
<1> QED BY <1>1, <1>5, OnlyReads

LEMMA CompareReads ==
  ASSUME IInv, NEW p \in Procs, CompareCmd(p) PROVE IInv'
<1> DEFINE task == Task("compare", "start")
<1>1. UNCHANGED store
  BY DEF CompareCmd
<1>2. PICK a \in Exps, b \in Exps, ca \in Cases, cb \in Cases :
        LET exits == {Resolved(a, ca).exit, Resolved(b, cb).exit} IN
        Start(p, IF exits = {0}
                 THEN Succeeded([task EXCEPT
                        !.seen = {Compare(rows[a][ca], rows[b][cb], Linked(a, b))}])
                 ELSE Failed(task, IF Resolved(a, ca).exit # 0 THEN Resolved(a, ca).exit
                                   ELSE Resolved(b, cb).exit))
  BY DEF CompareCmd
<1> DEFINE compared == [task EXCEPT
                          !.seen = {Compare(rows[a][ca], rows[b][cb], Linked(a, b))}]
<1>3. Fresh(task) /\ task.cmd = "compare"
  BY FreshTask
<1> HIDE DEF task
<1>4. Fresh(compared) /\ compared.cmd = "compare"
  BY <1>3, FreshChanged
<1> HIDE DEF compared
<1>5. Resolved(a, ca).exit \in {0, 2, 4} /\ Resolved(b, cb).exit \in {0, 2, 4}
  BY ResolvedIs DEF IInv
<1>6. Start(p, Succeeded(compared)) \/ Start(p, Failed(task, 2)) \/ Start(p, Failed(task, 4))
  BY <1>2, <1>5 DEF compared
<1>7. \E new : Start(p, new) /\ Harmless(new)
  BY <1>3, <1>4, <1>6, FreshFails, FreshEnds DEF Vouching
<1> QED BY <1>1, <1>7, OnlyReads

LEMMA IssuesRead ==
  ASSUME IInv, NEW p \in Procs, IssueListCmd(p) \/ IssueShowCmd(p) PROVE IInv'
<1>1. ASSUME NEW task, Fresh(task), task.cmd \notin Vouching
      PROVE  /\ Harmless(Failed(task, 2)) /\ Harmless(Failed(task, 4))
             /\ \A x : Harmless(Succeeded([task EXCEPT !.seen = x]))
  BY <1>1, FreshChanged, FreshFails, FreshEnds
<1>2. CASE IssueListCmd(p)
  <2> DEFINE task == Task("issue_list", "start")
  <2>1. UNCHANGED store /\ \/ Start(p, Failed(task, 4))
                           \/ \E x : Start(p, Succeeded([task EXCEPT !.seen = x]))
    BY <1>2 DEF IssueListCmd
  <2>2. Fresh(task) /\ task.cmd = "issue_list"
    BY FreshTask
  <2> HIDE DEF task
  <2>3. \E new : Start(p, new) /\ Harmless(new)
    BY <1>1, <2>1, <2>2 DEF Vouching
  <2> QED BY <2>1, <2>3, OnlyReads
<1>3. CASE IssueShowCmd(p)
  <2> DEFINE task == Task("issue_show", "start")
  <2>1. UNCHANGED store /\ \/ Start(p, Failed(task, 2)) \/ Start(p, Failed(task, 4))
                           \/ \E x : Start(p, Succeeded([task EXCEPT !.seen = x]))
    BY <1>3 DEF IssueShowCmd
  <2>2. Fresh(task) /\ task.cmd = "issue_show"
    BY FreshTask
  <2> HIDE DEF task
  <2>3. \E new : Start(p, new) /\ Harmless(new)
    BY <1>1, <2>1, <2>2 DEF Vouching
  <2> QED BY <2>1, <2>3, OnlyReads
<1> QED BY <1>2, <1>3

LEMMA RefusedRuns ==
  ASSUME IInv, NEW p \in Procs, RefuseRun(p) PROVE IInv'
<1>1. PICK cmd \in {"run", "resume", "recompute"}, exit \in 1..4 :
        Start(p, Failed(Task(cmd, "start"), exit)) /\ UNCHANGED store
  BY DEF RefuseRun
<1>2. Harmless(Failed(Task(cmd, "start"), exit))
  <2>1. Fresh(Task(cmd, "start")) /\ exit \in Nat \ {0}
    BY FreshTask
  <2> QED BY <2>1, FreshEnds
<1> QED BY <1>1, <1>2, OnlyReads

(* The doctor exits with 0 exactly if it says that all is well: a hash     *)
(* that diverges from its checkpoint, which has an exit code of its own,   *)
(* is a failed check as well.                                              *)
THEOREM DoctorExitsAsItSays ==
  ASSUME NEW w
  PROVE  /\ LocalDoctor(w).exit \in {0, 1, 3} /\ LocalDoctor(w).green \in BOOLEAN
         /\ LocalDoctor(w).green <=> LocalDoctor(w).exit = 0
<1> DEFINE others == PinChecks(w) \cup SuiteChecks(w) \cup InputChecks(w) \cup PackChecks(w)
           checks == others \cup {Check("hash_resume", CompatOk(w), "block", FALSE)}
<1>1. LocalDoctor(w) = [green |-> Green(checks), checks |-> checks,
         exit |-> IF ~ CompatOk(w) THEN 3 ELSE IF ~ Green(checks) THEN 1 ELSE 0]
  BY DEF LocalDoctor
<1> HIDE DEF others
<1>2. ~ CompatOk(w) => ~ Green(checks)
  <2> SUFFICES ASSUME ~ CompatOk(w) PROVE ~ Green(checks)
    OBVIOUS
  <2> DEFINE c == Check("hash_resume", CompatOk(w), "block", FALSE)
  <2>1. c.severity = "block" /\ c.status = "fail"
    BY DEF Check
  <2>2. c \in checks
    OBVIOUS
  <2> HIDE DEF c, checks
  <2>3. c \in Blocking(checks)
    BY <2>1, <2>2 DEF Blocking
  <2> QED BY <2>3 DEF Green
<1>3. Green(checks) \in BOOLEAN
  BY DEF Green
<1> HIDE DEF checks
<1> QED BY <1>1, <1>2, <1>3

LEMMA OutcomesTyped ==
  ASSUME NEW o \in Outcomes
  PROVE  o.exit \in {0, 1, 3} /\ o.green \in BOOLEAN /\ ((o.green = TRUE) <=> (o.exit = 0))
<1>1. PICK w \in DoctorWorlds :
        o = [green |-> LocalDoctor(w).green, exit |-> LocalDoctor(w).exit]
  BY DEF Outcomes
<1>2. o.green = LocalDoctor(w).green /\ o.exit = LocalDoctor(w).exit
  BY <1>1
<1> QED BY <1>2, DoctorExitsAsItSays

LEMMA DoctorReads ==
  ASSUME IInv, NEW p \in Procs, DoctorCmd(p) PROVE IInv'
<1> DEFINE task == Task("doctor", "start")
<1>1. PICK o \in Outcomes : Start(p, Ended(task, o.green, o.exit)) /\ UNCHANGED store
  BY DEF DoctorCmd
<1>2. Fresh(task) /\ task.cmd = "doctor"
  BY FreshTask
<1> HIDE DEF task
<1>3. Harmless(Ended(task, o.green, o.exit))
  BY <1>2, OutcomesTyped, FreshEnds DEF Vouching
<1> QED BY <1>1, <1>3, OnlyReads
-----------------------------------------------------------------------------
(* The handlers that answer at once: whatever the row, an answer of 2      *)
(* leaves it as it was.                                                    *)
Answers(a, row) == a.exit \in {0, 1, 2, 4} /\ (a.exit = 2 => a.row = row)

LEMMA AnswerIs ==
  ASSUME NEW exit, NEW row, NEW new
  PROVE  Answer(exit, new).exit = exit /\ Answer(exit, new).row = new
BY DEF Answer

LEMMA ReviewAnswersAre ==
  ASSUME NEW row, NEW a \in ReviewAnswers(row) PROVE Answers(a, row)
<1> USE DEF Answers, Answer
<1>1. ASSUME NEW sound \in BOOLEAN, NEW dry \in BOOLEAN
      PROVE  Answers(ReviewEnqueue(row, sound, dry), row)
  BY DEF ReviewEnqueue
<1>2. ASSUME NEW filter PROVE Answers(ReviewList(row, filter), row)
  BY DEF ReviewList
<1>3. ASSUME NEW blank \in BOOLEAN PROVE Answers(ReviewRollup(row, blank), row)
  BY DEF ReviewRollup
<1>4. Answers(ReviewShow(row), row)
  BY DEF ReviewShow, OnRow
<1>5. ASSUME NEW handle, NEW held \in BOOLEAN, NEW dry \in BOOLEAN
      PROVE  Answers(ReviewClaim(row, handle, held, dry), row)
  BY DEF ReviewClaim, OnSoundRow, OnRow
<1>6. ASSUME NEW outcome, NEW handle, NEW dry \in BOOLEAN
      PROVE  Answers(ReviewAdjudicate(row, outcome, handle, dry), row)
  BY DEF ReviewAdjudicate, OnSoundRow, OnRow
<1>7. ASSUME NEW reason \in BOOLEAN, NEW handle, NEW dry \in BOOLEAN
      PROVE  Answers(ReviewDismiss(row, reason, handle, dry), row)
  BY <1>6 DEF ReviewDismiss
<1> QED BY <1>1, <1>2, <1>3, <1>4, <1>5, <1>6, <1>7 DEF ReviewAnswers

LEMMA ExportAnswersAre ==
  ASSUME NEW row, NEW a \in ExportAnswers(row) PROVE Answers(a, row)
<1> USE DEF Answers, Answer
<1>1. ASSUME NEW env, NEW repo \in BOOLEAN PROVE Answers(ExportStatus(env, repo, row), row)
  BY DEF ExportStatus
<1>2. ASSUME NEW repo \in BOOLEAN, NEW force \in BOOLEAN, NEW room \in BOOLEAN
      PROVE  Answers(ExportRetry(repo, force, room, row), row)
  BY DEF ExportRetry
<1>3. ASSUME NEW env, NEW repo \in BOOLEAN, NEW dry \in BOOLEAN,
             NEW b \in ExportDrain(env, repo, dry, row)
      PROVE  Answers(b, row)
  BY DEF ExportDrain
<1> QED BY <1>1, <1>2, <1>3 DEF ExportAnswers

LEMMA AnsweredHarmless ==
  ASSUME NEW cmd, cmd \notin Vouching, NEW exit \in Nat, NEW wrote \in BOOLEAN,
         exit = 2 /\ cmd # "promote" => wrote = FALSE
  PROVE  /\ Harmless(Answered(cmd, exit, wrote))
         /\ Answered(cmd, exit, wrote).cmd = cmd /\ Answered(cmd, exit, wrote).exit = exit
<1> DEFINE t  == Task(cmd, "start")
           ok == exit = 0
           d  == Ended(t, ok, exit)
           e  == [d EXCEPT !.wrote = wrote]
<1>1. Fresh(t) /\ t.cmd = cmd
  BY FreshTask
<1> HIDE DEF t
<1>2. Harmless(d) /\ d.cmd = cmd
  <2>1. ok \in BOOLEAN /\ ((ok = TRUE) <=> (exit = 0))
    OBVIOUS
  <2>2. Harmless(d)
    BY <1>1, <2>1, FreshEnds
  <2>3. EndsAs(d, t, ok, exit)
    BY <1>1, EndedIs DEF Fresh
  <2> HIDE DEF d
  <2> QED BY <1>1, <2>2, <2>3 DEF EndsAs, SameTask
<1>3. d.exit = exit
  <2>1. EndsAs(d, t, ok, exit)
    BY <1>1, EndedIs DEF Fresh
  <2> HIDE DEF d
  <2> QED BY <2>1 DEF EndsAs
<1> HIDE DEF d
<1>4. IsTask(e) /\ e.wrote = wrote
  BY <1>2 DEF Harmless, IsTask, Fields
<1>5. /\ e.at = d.at /\ e.ok = d.ok /\ e.exit = d.exit /\ e.cmd = d.cmd
      /\ e.dry = d.dry /\ e.seen = d.seen
  BY <1>2 DEF Harmless, IsTask, Fields
<1> HIDE DEF e
<1>6. Harmless(e) /\ e.cmd = cmd /\ e.exit = exit
  BY <1>2, <1>3, <1>4, <1>5 DEF Harmless
<1> QED BY <1>6 DEF e, d, t, Answered

LEMMA ShowExitsAre ==
  ASSUME NEW exit \in ShowExits \cup OpikExits PROVE exit \in {0, 1, 2, 4}
<1>1. ASSUME NEW flaws PROVE ReadTwin(flaws) \in {0, 2, 4}
  BY DEF ReadTwin
<1>2. ASSUME NEW builds \in BOOLEAN
      PROVE  Materialize(builds) \in {0, 1} /\ CheckpointList(builds) \in {0, 1}
  BY DEF Materialize, CheckpointList
<1>3. ASSUME NEW path \in BOOLEAN, NEW id \in BOOLEAN, NEW encodes \in BOOLEAN
      PROVE  EncodeFixture(path, id, encodes) \in {0, 1, 2}
  BY DEF EncodeFixture
<1>4. ASSUME NEW env, NEW action PROVE ConfigAlias(env, action) \in {0, 2}
  BY DEF ConfigAlias, ConfigShow
<1>5. ASSUME NEW env, NEW key, NEW states PROVE OpikDoctorCmd(env, key, states) \in {0, 2}
  BY DEF OpikDoctorCmd, OpikDoctor
<1>6. ASSUME NEW env, NEW asked, NEW create, NEW remote
      PROVE  OpikVerifyCmd(env, asked, create, remote) \in {0, 2}
  BY DEF OpikVerifyCmd, OpikVerify
<1> QED BY <1>1, <1>2, <1>3, <1>4, <1>5, <1>6 DEF ShowExits, OpikExits, SessionShow, ThreadShow

LEMMA HandlersAnswer ==
  ASSUME IInv, NEW p \in Procs, ReviewCmd(p) \/ ExportCmd(p) \/ ShowCmd(p) PROVE IInv'
<1>1. UNCHANGED <<order, rows, issue, snap, files>>
  BY DEF ReviewCmd, ExportCmd, ShowCmd, store
<1>2. \E cmd \in {"review", "export", "show"}, exit \in {0, 1, 2, 4}, wrote \in BOOLEAN :
        Start(p, Answered(cmd, exit, wrote)) /\ (exit = 2 => wrote = FALSE)
  <2>1. CASE ReviewCmd(p)
    <3>1. PICK a \in ReviewAnswers(review) : Start(p, Answered("review", a.exit, a.row # review))
      BY <2>1 DEF ReviewCmd
    <3>2. a.exit \in {0, 1, 2, 4} /\ (a.exit = 2 => a.row = review)
      BY ReviewAnswersAre DEF Answers
    <3> QED BY <3>1, <3>2
  <2>2. CASE ExportCmd(p)
    <3>1. PICK a \in ExportAnswers(queue) : Start(p, Answered("export", a.exit, a.row # queue))
      BY <2>2 DEF ExportCmd
    <3>2. a.exit \in {0, 1, 2, 4} /\ (a.exit = 2 => a.row = queue)
      BY ExportAnswersAre DEF Answers
    <3> QED BY <3>1, <3>2
  <2>3. CASE ShowCmd(p)
    BY <2>3, ShowExitsAre DEF ShowCmd
  <2> QED BY <2>1, <2>2, <2>3
<1>3. PICK cmd \in {"review", "export", "show"}, exit \in {0, 1, 2, 4}, wrote \in BOOLEAN :
        Start(p, Answered(cmd, exit, wrote)) /\ (exit = 2 => wrote = FALSE)
  BY <1>2
<1>4. Harmless(Answered(cmd, exit, wrote))
  <2>1. cmd \notin Vouching /\ exit \in Nat
    BY DEF Vouching
  <2> QED BY <1>3, <2>1, AnsweredHarmless
<1>5. StoreOK' /\ Grows
  BY <1>1, SameStore DEF IInv
<1> QED BY <1>3, <1>4, <1>5, StartsHarmlessly DEF IInv

-----------------------------------------------------------------------------
(* The commands that leave a file, or take bundles away, as they start.    *)
Worked(t) == IsTask(t) /\ t.wrote \in BOOLEAN /\ t.dry \in BOOLEAN

LEMMA WorkedEnds ==
  ASSUME NEW t, Worked(t)
  PROVE  /\ Harmless(Failed(t, 4))
         /\ t.cmd # "triage" => Harmless(Crashed(t))
         /\ t.cmd \notin Vouching => Harmless(Succeeded(t))
         /\ t.cmd \notin Vouching => Harmless(Ended(t, FALSE, 1))
<1>1. Harmless(Failed(t, 4))
  <2> DEFINE e == Failed(t, 4)
  <2>1. FailsAs(e, t, 4)
    BY FailedIs DEF Worked
  <2> HIDE DEF e
  <2>2. Harmless(e)
    BY <2>1 DEF Worked, Harmless, FailsAs, SameTask
  <2> QED BY <2>2 DEF e
<1>2. t.cmd # "triage" => Harmless(Crashed(t))
  <2> DEFINE e == Crashed(t)
  <2>1. EndsAs(e, t, None, 1)
    BY CrashedIs DEF Worked
  <2>2. None # TRUE
    BY StoreAssumption, Zenon
  <2> HIDE DEF e
  <2>3. e.ok # TRUE /\ e.exit = 1
    BY <2>1, <2>2, Zenon DEF EndsAs
  <2>4. (e.ok = TRUE) <=> (e.exit = 0)
    <3>1. e.exit # 0
      BY <2>3
    <3> QED BY <2>3, <3>1, Zenon
  <2>5. t.cmd # "triage" => Harmless(e)
    BY <2>1, <2>3, <2>4 DEF Worked, Harmless, EndsAs, SameTask
  <2> QED BY <2>5 DEF e
<1>3. t.cmd \notin Vouching => Harmless(Succeeded(t))
  <2> DEFINE e == Succeeded(t)
  <2>1. EndsAs(e, t, TRUE, 0)
    BY SucceededIs DEF Worked
  <2> HIDE DEF e
  <2>2. t.cmd \notin Vouching => Harmless(e)
    BY <2>1 DEF Worked, Harmless, EndsAs, SameTask, Vouching
  <2> QED BY <2>2 DEF e
<1>4. t.cmd \notin Vouching => Harmless(Ended(t, FALSE, 1))
  <2> DEFINE e == Ended(t, FALSE, 1)
  <2>1. EndsAs(e, t, FALSE, 1)
    BY EndedIs DEF Worked
  <2> HIDE DEF e
  <2>2. t.cmd \notin Vouching => Harmless(e)
    BY <2>1 DEF Worked, Harmless, EndsAs, SameTask, Vouching
  <2> QED BY <2>2 DEF e
<1> QED BY <1>1, <1>2, <1>3, <1>4

LEMMA HarmlessChanged ==
  ASSUME NEW t, Harmless(t), t.cmd \notin Vouching, NEW x \in BOOLEAN
  PROVE  /\ Harmless([t EXCEPT !.dry = x])
         /\ t.exit # 2 => Harmless([t EXCEPT !.wrote = x])
BY DEF Harmless, IsTask, Fields, Vouching

LEMMA FileIs ==
  ASSUME NEW kind, NEW id, NEW of
  PROVE  /\ File(kind, id, of).kind = kind /\ File(kind, id, of).id = id
         /\ File(kind, id, of).of = of
BY DEF File

(* Files that refer to no other.                                           *)
LEMMA FreeFiles ==
  ASSUME StoreOK, UNCHANGED <<order, rows, issue, snap>>,
         NEW new, files' = files \cup new,
         \A f \in new : f.kind \notin {"compare", "row", "vault"}
  PROVE  StoreOK' /\ Grows
<1>1. \A f \in new : HasItsOwn(f)'
  BY DEF HasItsOwn
<1> QED BY <1>1, FilesAdded

LEMMA FileAdded ==
  ASSUME StoreOK, UNCHANGED <<order, rows, issue, snap>>,
         NEW f, files' = files \cup {f}, HasItsOwn(f)'
  PROVE  StoreOK' /\ Grows
<1> DEFINE new == {f}
<1>1. files' = files \cup new /\ \A g \in new : HasItsOwn(g)'
  OBVIOUS
<1> HIDE DEF new
<1> QED BY <1>1, FilesAdded

LEMMA PromoteKeeps ==
  ASSUME IInv, NEW p \in Procs, PromoteCmd(p) PROVE IInv'
<1>1. CASE \E exit \in {2, 4} :
             Start(p, Answered("promote", exit, FALSE)) /\ UNCHANGED store
  <2>1. PICK exit \in {2, 4} :
          Start(p, Answered("promote", exit, FALSE)) /\ UNCHANGED store
    BY <1>1
  <2>2. Harmless(Answered("promote", exit, FALSE))
    <3>1. "promote" \notin Vouching /\ exit \in Nat
      BY DEF Vouching
    <3> QED BY <3>1, AnsweredHarmless
  <2> QED BY <2>1, <2>2, OnlyReads
<1>2. CASE \E exit \in {0, 2}, dry, rejects \in BOOLEAN :
       /\ Start(p, [Answered("promote", exit, ~ dry) EXCEPT !.dry = dry])
       /\ files' = files \cup IF dry THEN {} ELSE Promoted(spent + 1, exit = 0, rejects)
       /\ UNCHANGED <<order, rows, parent, bundle, issue, snap, desk>>
  <2>1. PICK exit \in {0, 2}, dry \in BOOLEAN, rejects \in BOOLEAN :
       /\ Start(p, [Answered("promote", exit, ~ dry) EXCEPT !.dry = dry])
       /\ files' = files \cup IF dry THEN {} ELSE Promoted(spent + 1, exit = 0, rejects)
       /\ UNCHANGED <<order, rows, parent, bundle, issue, snap, desk>>
    BY <1>2
  <2> DEFINE a   == Answered("promote", exit, ~ dry)
             new == IF dry THEN {} ELSE Promoted(spent + 1, exit = 0, rejects)
  <2>2. Harmless(a) /\ a.cmd = "promote"
    <3>1. "promote" \notin Vouching /\ exit \in Nat
      BY DEF Vouching
    <3> QED BY <3>1, AnsweredHarmless
  <2>3. \A f \in new : f.kind \notin {"compare", "row", "vault"}
    BY FileIs DEF Promoted
  <2> HIDE DEF a, new
  <2>4. Harmless([a EXCEPT !.dry = dry])
    BY <2>2, HarmlessChanged DEF Vouching
  <2>5. Start(p, [a EXCEPT !.dry = dry]) /\ files' = files \cup new
    BY <2>1 DEF a, new
  <2>6. StoreOK' /\ Grows
    BY <2>1, <2>3, <2>5, FreeFiles DEF IInv
  <2> QED BY <2>4, <2>5, <2>6, StartsHarmlessly DEF IInv
<1> QED BY <1>1, <1>2 DEF PromoteCmd

LEMMA GcKeeps ==
  ASSUME IInv, NEW p \in Procs, GcCmd(p) PROVE IInv'
<1>1. UNCHANGED <<order, rows, issue, snap, files>>
  BY DEF GcCmd, store
<1>2. StoreOK' /\ Grows
  BY <1>1, SameStore DEF IInv
<1>3. \E new : Start(p, new) /\ Harmless(new)
  <2> DEFINE g == Task("gc", "start")
  <2>1. Fresh(g) /\ g.cmd = "gc"
    BY FreshTask
  <2>2. \/ Start(p, Failed(g, 1)) \/ Start(p, Failed(g, 2))
        \/ \E dry, fails \in BOOLEAN :
             LET task == [g EXCEPT !.wrote = ~ dry, !.dry = dry] IN
             Start(p, IF fails THEN Failed(task, 4) ELSE Succeeded(task))
    BY DEF GcCmd
  <2> HIDE DEF g
  <2>3. ASSUME NEW dry \in BOOLEAN, NEW fails \in BOOLEAN,
               Start(p, IF fails THEN Failed([g EXCEPT !.wrote = ~ dry, !.dry = dry], 4)
                        ELSE Succeeded([g EXCEPT !.wrote = ~ dry, !.dry = dry]))
        PROVE  \E new : Start(p, new) /\ Harmless(new)
    <3> DEFINE task == [g EXCEPT !.wrote = ~ dry, !.dry = dry]
    <3>1. Worked(task) /\ task.cmd = "gc"
      BY <2>1 DEF Worked, Fresh, IsTask, Fields
    <3> HIDE DEF task
    <3>2. Harmless(Failed(task, 4)) /\ Harmless(Succeeded(task))
      BY <3>1, WorkedEnds DEF Vouching
    <3>3. Start(p, Failed(task, 4)) \/ Start(p, Succeeded(task))
      BY <2>3 DEF task
    <3> QED BY <3>2, <3>3
  <2>4. Harmless(Failed(g, 1)) /\ Harmless(Failed(g, 2))
    BY <2>1, FreshFails
  <2> QED BY <2>2, <2>3, <2>4
<1> QED BY <1>2, <1>3, StartsHarmlessly DEF IInv

LEMMA RebindKeeps ==
  ASSUME IInv, NEW b \in Bundles, Rebind(b) PROVE IInv'
<1>1. UNCHANGED <<order, rows, issue, snap, files, job>> /\ spent' = spent + 1
  BY DEF Rebind
<1>2. StoreOK' /\ Grows
  BY <1>1, SameStore DEF IInv
<1>3. JobsTyped'
  BY <1>1 DEF IInv, JobsTyped
<1>4. JobsOK'
  <2>1. ASSUME NEW q \in Procs, NEW t \in {job'[q]}, t # None PROVE JobOK(t)'
    <3>1. JobOK(t)
      BY <1>1, <2>1 DEF IInv, JobsOK
    <3> QED BY <1>2, <3>1, StillOK
  <2> QED BY <2>1 DEF JobsOK
<1> QED BY <1>2, <1>3, <1>4 DEF IInv

LEMMA AmendBriefKeeps ==
  ASSUME IInv, NEW p \in Procs, AmendBriefCmd(p) PROVE IInv'
<1> DEFINE a == Task("amend_brief", "start")
<1>1. PICK exp \in Exps \cup {None}, case \in Cases \cup {None}, versions \in Versions,
           write \in BOOLEAN :
        LET found == BriefRows(exp, case)
            task  == [a EXCEPT !.dry = ~ write]
            brief == [blocked |-> BriefBlocked(rows[found.exp], found.cases),
                      rollup  |-> FamilyRollup(rows[found.exp], found.cases, Metrics),
                      pair    |-> PreferencePair(versions),
                      judged  |-> LastAttachments(3)] IN
        IF found.exit # 0 THEN Start(p, Failed(task, found.exit)) /\ UNCHANGED store
        ELSE /\ Start(p, [Succeeded([task EXCEPT !.copy = brief]) EXCEPT !.wrote = write])
             /\ IF write THEN WritesFile(File("brief", spent + 1, {})) ELSE UNCHANGED store
  BY DEF AmendBriefCmd
<1> DEFINE brief == [blocked |-> BriefBlocked(rows[BriefRows(exp, case).exp],
                                             BriefRows(exp, case).cases),
                     rollup  |-> FamilyRollup(rows[BriefRows(exp, case).exp],
                                              BriefRows(exp, case).cases, Metrics),
                     pair    |-> PreferencePair(versions),
                     judged  |-> LastAttachments(3)]
<1>2. Fresh(a) /\ a.cmd = "amend_brief"
  BY FreshTask
<1> HIDE DEF a
<1> DEFINE task == [a EXCEPT !.dry = ~ write]
<1>3. Fresh(task) /\ task.cmd = "amend_brief"
  BY <1>2, FreshChanged
<1>4. CASE BriefRows(exp, case).exit # 0
  <2>1. BriefRows(exp, case).exit \in {2, 4}
    BY <1>4 DEF BriefRows
  <2>2. (Start(p, Failed(task, 2)) \/ Start(p, Failed(task, 4))) /\ UNCHANGED store
    BY <1>1, <1>4, <2>1
  <2> HIDE DEF task
  <2> QED BY <1>3, <2>2, FreshFails, OnlyReads
<1>5. CASE BriefRows(exp, case).exit = 0
  <2> DEFINE b == [task EXCEPT !.copy = brief]
             e == Succeeded(b)
  <2>1. /\ Start(p, [e EXCEPT !.wrote = write])
        /\ IF write THEN WritesFile(File("brief", spent + 1, {})) ELSE UNCHANGED store
    BY <1>1, <1>5
  <2> HIDE DEF task
  <2>2. Fresh(b) /\ b.cmd = "amend_brief"
    BY <1>3, FreshChanged
  <2> HIDE DEF b
  <2>3. Harmless(e) /\ e.cmd = "amend_brief" /\ e.exit = 0
    <3>1. EndsAs(e, b, TRUE, 0)
      BY <2>2, SucceededIs DEF Fresh
    <3>2. Harmless(e)
      BY <2>2, FreshEnds DEF Vouching
    <3> HIDE DEF e
    <3> QED BY <2>2, <3>1, <3>2 DEF EndsAs, SameTask
  <2> HIDE DEF e
  <2>4. Harmless([e EXCEPT !.wrote = write])
    <3>1. e.cmd \notin Vouching /\ e.exit # 2
      BY <2>3 DEF Vouching
    <3> HIDE DEF brief
    <3> QED BY <2>3, <3>1, HarmlessChanged
  <2>5. StoreOK' /\ Grows
    <3>1. CASE write
      <4>1. /\ files' = files \cup {File("brief", spent + 1, {})}
            /\ UNCHANGED <<order, rows, issue, snap>>
        BY <2>1, <3>1 DEF WritesFile
      <4>2. \A f \in {File("brief", spent + 1, {})} : f.kind \notin {"compare", "row", "vault"}
        BY FileIs
      <4> QED BY <4>1, <4>2, FreeFiles DEF IInv
    <3>2. CASE ~ write
      BY <2>1, <3>2, SameStore DEF IInv, store
    <3> QED BY <3>1, <3>2
  <2> QED BY <2>1, <2>4, <2>5, StartsHarmlessly DEF IInv
<1> QED BY <1>4, <1>5

LEMMA DogfoodKeeps ==
  ASSUME IInv, NEW p \in Procs, DogfoodCmd(p) PROVE IInv'
<1> DEFINE d == Task("dogfood", "start")
<1>0. PICK c \in {g \in Captures : FromCommandLine(g)}, write \in BOOLEAN :
        LET t       == [d EXCEPT !.dry = ~ write]
            outcome == IF c.payload THEN CaptureOutcome(c) ELSE "refused"
            landed  == c.percent \in 0..100 /\ outcome = "captured" /\ write IN
        /\ Start(p, IF c.percent \notin 0..100 THEN Ended(t, None, 2)
                    ELSE IF outcome = "refused" THEN Failed(t, 2)
                    ELSE [Succeeded(t) EXCEPT !.wrote = landed])
        /\ IF landed THEN WritesFile(File("attachment", spent + 1, {})) ELSE UNCHANGED store
  BY DEF DogfoodCmd
<1> HIDE DEF d
<1>1. PICK dry \in BOOLEAN, landed \in BOOLEAN :
        LET task == [d EXCEPT !.dry = dry] IN
        /\ \/ Start(p, Ended(task, None, 2)) /\ ~ landed
           \/ Start(p, Failed(task, 2)) /\ ~ landed
           \/ Start(p, [Succeeded(task) EXCEPT !.wrote = landed])
        /\ IF landed THEN WritesFile(File("attachment", spent + 1, {})) ELSE UNCHANGED store
  <2> DEFINE outcome == IF c.payload THEN CaptureOutcome(c) ELSE "refused"
             landed  == c.percent \in 0..100 /\ outcome = "captured" /\ write
             dry     == ~ write
  <2>1. landed \in BOOLEAN /\ dry \in BOOLEAN
    OBVIOUS
  <2>2. c.percent \notin 0..100 \/ outcome = "refused" => ~ landed
    OBVIOUS
  <2>3. LET t == [d EXCEPT !.dry = dry] IN
        /\ \/ Start(p, Ended(t, None, 2)) /\ ~ landed
           \/ Start(p, Failed(t, 2)) /\ ~ landed
           \/ Start(p, [Succeeded(t) EXCEPT !.wrote = landed])
        /\ IF landed THEN WritesFile(File("attachment", spent + 1, {})) ELSE UNCHANGED store
    BY <1>0, <2>2
  <2> HIDE DEF outcome, landed, dry
  <2> QED BY <2>1, <2>3
<1>2. Fresh(d) /\ d.cmd = "dogfood"
  BY FreshTask DEF d
<1> HIDE DEF d
<1> DEFINE task == [d EXCEPT !.dry = dry]
<1>3. Fresh(task) /\ task.cmd = "dogfood"
  BY <1>2, FreshChanged
<1>4. /\ \/ Start(p, Ended(task, None, 2))
         \/ Start(p, Failed(task, 2))
         \/ Start(p, [Succeeded(task) EXCEPT !.wrote = landed])
      /\ IF landed THEN WritesFile(File("attachment", spent + 1, {})) ELSE UNCHANGED store
  BY <1>1
<1> HIDE DEF task
<1>5. Harmless(Ended(task, None, 2))
  <2> DEFINE e == Ended(task, None, 2)
  <2>1. EndsAs(e, task, None, 2)
    BY <1>3, EndedIs DEF Fresh
  <2>2. None # TRUE
    BY StoreAssumption, Zenon
  <2> HIDE DEF e
  <2>3. e.ok # TRUE /\ e.exit = 2
    BY <2>1, <2>2, Zenon DEF EndsAs
  <2>4. (e.ok = TRUE) <=> (e.exit = 0)
    <3>1. e.exit # 0
      BY <2>3
    <3> QED BY <2>3, <3>1, Zenon
  <2>5. Harmless(e)
    BY <1>3, <2>1, <2>3, <2>4 DEF Fresh, Harmless, EndsAs, SameTask
  <2> QED BY <2>5 DEF e
<1>6. Harmless([Succeeded(task) EXCEPT !.wrote = landed])
  <2> DEFINE e == Succeeded(task)
  <2>1. EndsAs(e, task, TRUE, 0)
    BY <1>3, SucceededIs DEF Fresh
  <2>2. Harmless(e)
    BY <1>3, FreshEnds DEF Vouching
  <2> HIDE DEF e
  <2>3. e.cmd \notin Vouching /\ e.exit # 2
    BY <1>3, <2>1 DEF EndsAs, SameTask, Vouching
  <2>4. Harmless([e EXCEPT !.wrote = landed])
    BY <2>2, <2>3, HarmlessChanged
  <2> QED BY <2>4 DEF e
<1>7. \E new : Start(p, new) /\ Harmless(new)
  BY <1>3, <1>4, <1>5, <1>6, FreshFails
<1>8. StoreOK' /\ Grows
  <2>1. CASE landed
    <3>1. /\ files' = files \cup {File("attachment", spent + 1, {})}
          /\ UNCHANGED <<order, rows, issue, snap>>
      BY <1>4, <2>1 DEF WritesFile
    <3> DEFINE new == {File("attachment", spent + 1, {})}
    <3>2. \A f \in new : f.kind \notin {"compare", "row", "vault"}
      BY FileIs
    <3>3. files' = files \cup new
      BY <3>1
    <3> HIDE DEF new
    <3> QED BY <3>1, <3>2, <3>3, FreeFiles DEF IInv
  <2>2. CASE ~ landed
    BY <1>4, <2>2, SameStore DEF IInv, store
  <2> QED BY <2>1, <2>2
<1> QED BY <1>7, <1>8, StartsHarmlessly DEF IInv

-----------------------------------------------------------------------------
(* The order of the experiments stays a sequence of them.                  *)
LessThanOnNat == {ss \in Nat \X Nat : ss[1] < ss[2]}

LEMMA LessThanWellFounded == IsWellFoundedOn(LessThanOnNat, Nat)
<1>1. LessThanOnNat = OpToRel(<, Nat)
  BY DEF LessThanOnNat, OpToRel
<1> QED
  BY <1>1, NatLessThanWellFounded

LEMMA MinInSet ==
  ASSUME NEW S \in SUBSET Nat, S # {}
  PROVE  Min(S) \in S
<1>1. PICK x \in S : \A y \in S : ~ (<<y, x>> \in LessThanOnNat)
  BY LessThanWellFounded, WFMin
<1>2. ASSUME NEW y \in S PROVE x <= y
  <2>1. <<y, x>> \notin LessThanOnNat
    BY <1>1
  <2>2. y \in Nat /\ x \in Nat
    OBVIOUS
  <2>3. ~ (y < x)
    BY <2>1, <2>2 DEF LessThanOnNat
  <2> QED
    BY <2>2, <2>3
<1> QED
  BY <1>2 DEF Min

LEMMA TouchedTyped ==
  ASSUME order \in Seq(Exps), NEW e \in Exps
  PROVE  Touched(e) \in Seq(Exps)
<1> DEFINE I == {i \in 1..Len(order) : order[i] = e}
<1>1. RemoveFirst(order, e) \in Seq(Exps)
  <2>1. CASE I = {}
    <3>1. RemoveFirst(order, e) = order
      BY <2>1 DEF RemoveFirst
    <3> QED BY <3>1
  <2>2. CASE I # {}
    <3>1. I \in SUBSET Nat
      OBVIOUS
    <3>2. Min(I) \in I
      BY <2>2, <3>1, MinInSet
    <3>3. RemoveFirst(order, e) = RemoveAt(order, Min(I))
      BY <2>2 DEF RemoveFirst, SelectInSeq
    <3> DEFINE i == Min(I)
    <3>4. i \in 1..Len(order)
      BY <3>2
    <3> HIDE DEF i
    <3>5. SubSeq(order, 1, i - 1) \in Seq(Exps) /\ SubSeq(order, i + 1, Len(order)) \in Seq(Exps)
      BY <3>4
    <3>6. RemoveAt(order, i) \in Seq(Exps)
      BY <3>5 DEF RemoveAt
    <3> QED BY <3>3, <3>6 DEF i
  <2> QED BY <2>1, <2>2
<1> QED BY <1>1 DEF Touched

(* Only the run changes the order and the rows.                            *)
LEMMA RunsStore ==
  ASSUME StoreOK, UNCHANGED <<issue, snap, files>>, order' \in Seq(Exps),
         rows' \in [Exps -> [Cases -> CaseRows \cup {None, Broken}]]
  PROVE  StoreOK' /\ Grows
BY DEF StoreOK, Grows, FilesHaveTheirs, HasItsOwn

IsRun(t) ==
  /\ Worked(t) /\ t.cmd \in {"run", "resume", "recompute"} /\ t.at = "scoring"
  /\ t.exp \in Exps /\ t.todo \subseteq Cases

LEMMA RunOK ==
  ASSUME NEW t, IsRun(t)
  PROVE  JobOK(t)'
<1>1. InRun(t)' /\ InDiagnose(t)' /\ InTransition(t)' /\ InExport(t)' /\ InReplay(t)'
      /\ InTriage(t)' /\ IsDone(t)'
  BY DEF IsRun, InRun, InDiagnose, InTransition, InExport, InReplay, InTriage, IsDone
<1> QED BY <1>1 DEF JobOK, Worked, IsRun

LEMMA StartedRun ==
  ASSUME NEW cmd \in {"run", "resume", "recompute"}, NEW e \in Exps, NEW todo \in SUBSET Cases
  PROVE  IsRun(Wrote([Task(cmd, "scoring") EXCEPT !.exp = e, !.todo = todo]))
<1> DEFINE t == Task(cmd, "scoring")
           u == [t EXCEPT !.exp = e, !.todo = todo]
<1>1. IsNew(t, cmd, "scoring")
  BY TaskIs
<1> HIDE DEF t
<1>2. IsTask(u) /\ u.cmd = cmd /\ u.at = "scoring" /\ u.exp = e /\ u.todo = todo /\ u.dry = FALSE
  BY <1>1 DEF IsNew, IsTask, Fields
<1> DEFINE v == Wrote(u)
<1> HIDE DEF u
<1>3. Worked(v) /\ v.cmd = cmd /\ v.at = "scoring" /\ v.exp = e /\ v.todo = todo
  BY <1>2, WroteIs DEF Worked, SameTask
<1> HIDE DEF v
<1>4. IsRun(v)
  BY <1>3 DEF IsRun
<1> QED BY <1>4 DEF v, u, t

LEMMA StartsRun ==
  ASSUME IInv, StoreOK', Grows, NEW p \in Procs, \E new : Start(p, new) /\ IsRun(new)
  PROVE  IInv'
<1>1. PICK new : Start(p, new) /\ IsRun(new)
  OBVIOUS
<1>2. JobOK(new)' /\ job' = [job EXCEPT ![p] = new] /\ spent' \in Nat
  BY <1>1, RunOK DEF Start, IInv, JobsTyped
<1>3. JobsTyped' /\ JobsOK'
  BY <1>2, JobChanges DEF IInv
<1> QED BY <1>3 DEF IInv

LEMMA NoRowsTyped == NoRows \in [Cases -> CaseRows \cup {None, Broken}]
BY DEF NoRows

LEMMA BeginsKeeps ==
  ASSUME IInv, NEW p \in Procs, NEW cmd \in {"run", "recompute"}, NEW e \in Exps, NEW from,
         Begins(p, cmd, e, from)
  PROVE  IInv'
<1> DEFINE new == Wrote([Task(cmd, "scoring") EXCEPT !.exp = e, !.todo = Cases])
<1>1. Start(p, new) /\ UNCHANGED <<issue, snap, files>>
      /\ order' = Touched(e) /\ rows' = [rows EXCEPT ![e] = NoRows]
  BY DEF Begins
<1>2. IsRun(new)
  BY StartedRun
<1> HIDE DEF new
<1>3. StoreOK' /\ Grows
  <2>1. order' \in Seq(Exps)
    BY <1>1, TouchedTyped DEF IInv, StoreOK
  <2>2. rows' \in [Exps -> [Cases -> CaseRows \cup {None, Broken}]]
    BY <1>1, NoRowsTyped DEF IInv, StoreOK
  <2> QED BY <1>1, <2>1, <2>2, RunsStore DEF IInv
<1> QED BY <1>1, <1>2, <1>3, StartsRun

LEMMA ResumeKeeps ==
  ASSUME IInv, NEW p \in Procs, ResumeRun(p) PROVE IInv'
<1>1. PICK e \in Range(order) :
        /\ Start(p, Wrote([Task("resume", "scoring") EXCEPT
                             !.exp = e, !.todo = Cases \ CaseResults(rows[e])]))
        /\ order' = Touched(e)
        /\ UNCHANGED <<rows, parent, bundle, issue, snap, files, desk>>
  BY DEF ResumeRun
<1>2. e \in Exps
  BY <1>1 DEF IInv, StoreOK, Range
<1> DEFINE todo == Cases \ CaseResults(rows[e])
           new  == Wrote([Task("resume", "scoring") EXCEPT !.exp = e, !.todo = todo])
<1>3. todo \in SUBSET Cases
  OBVIOUS
<1> HIDE DEF todo
<1>4. IsRun(new)
  <2>1. "resume" \in {"run", "resume", "recompute"}
    OBVIOUS
  <2> HIDE DEF todo
  <2> QED BY <1>2, <1>3, <2>1, StartedRun
<1>5. Start(p, new)
  BY <1>1 DEF todo
<1> HIDE DEF new
<1>6. StoreOK' /\ Grows
  BY <1>1, <1>2, TouchedTyped, RunsStore DEF IInv, StoreOK
<1> QED BY <1>4, <1>5, <1>6, StartsRun

(* What is known of a process that is at work.                             *)
LEMMA AtWork ==
  ASSUME IInv, NEW p \in Procs, job[p] # None
  PROVE  JobOK(job[p]) /\ Worked(job[p])
BY DEF IInv, JobsOK, JobOK, Worked

LEMMA Becomes ==
  ASSUME IInv, StoreOK', Grows, NEW p \in Procs,
         \E new : Become(p, new) /\ JobOK(new)'
  PROVE  IInv'
<1>1. PICK new : Become(p, new) /\ JobOK(new)'
  OBVIOUS
<1>2. job' = [job EXCEPT ![p] = new] /\ spent' \in Nat
  BY <1>1 DEF Become, IInv, JobsTyped
<1>3. JobsTyped' /\ JobsOK'
  BY <1>1, <1>2, JobChanges DEF IInv
<1> QED BY <1>3 DEF IInv

(* The same for a process that ends, or goes on with a run.                *)
LEMMA GoesOn ==
  ASSUME IInv, StoreOK', Grows, NEW p \in Procs,
         \E new : Become(p, new) /\ (Harmless(new) \/ IsRun(new))
  PROVE  IInv'
<1>1. PICK new : Become(p, new) /\ (Harmless(new) \/ IsRun(new))
  OBVIOUS
<1>2. JobOK(new)'
  BY <1>1, HarmlessOK, RunOK
<1> QED BY <1>1, <1>2, Becomes

LEMMA Scoring ==
  ASSUME IInv, NEW p \in Procs, job[p] # None, job[p].at = "scoring"
  PROVE  IsRun(job[p])
BY AtWork DEF JobOK, InRun, IsRun

LEMMA ScoreKeeps ==
  ASSUME IInv, NEW p \in Procs, ScoreCase(p) PROVE IInv'
<1> DEFINE t == job[p]
<1>1. PICK c \in t.todo, r \in Results :
        /\ rows' = [rows EXCEPT ![t.exp][c] = r]
        /\ Become(p, [t EXCEPT !.todo = @ \ {c}])
  BY DEF ScoreCase
<1>2. IsRun(t)
  BY Scoring DEF ScoreCase
<1>3. UNCHANGED <<order, issue, snap, files>>
  BY DEF ScoreCase
<1> HIDE DEF t
<1> DEFINE new == [t EXCEPT !.todo = @ \ {c}]
<1>4. Worked(new) /\ new.cmd = t.cmd /\ new.exp = t.exp /\ new.at = t.at
      /\ new.todo = t.todo \ {c}
  BY <1>2 DEF IsRun, Worked, IsTask, Fields
<1> HIDE DEF new
<1>5. IsRun(new)
  BY <1>2, <1>4 DEF IsRun
<1>6. StoreOK' /\ Grows
  <2>1. r \in CaseRows /\ c \in Cases
    BY <1>1, <1>2, StoreAssumption DEF IsRun
  <2>2. t.exp \in Exps /\ rows[t.exp] \in [Cases -> CaseRows \cup {None, Broken}]
    BY <1>2 DEF IsRun, IInv, StoreOK
  <2>3. [rows[t.exp] EXCEPT ![c] = r] \in [Cases -> CaseRows \cup {None, Broken}]
    BY <2>1, <2>2
  <2>4. rows' = [rows EXCEPT ![t.exp] = [rows[t.exp] EXCEPT ![c] = r]]
    BY <1>1
  <2>5. rows' \in [Exps -> [Cases -> CaseRows \cup {None, Broken}]]
    BY <2>2, <2>3, <2>4 DEF IInv, StoreOK
  <2>6. order' \in Seq(Exps)
    BY <1>3 DEF IInv, StoreOK
  <2> QED BY <1>3, <2>5, <2>6, RunsStore DEF IInv
<1>7. Become(p, new)
  BY <1>1 DEF new
<1> QED BY <1>5, <1>6, <1>7, GoesOn

LEMMA FinishKeeps ==
  ASSUME IInv, NEW p \in Procs, FinishRun(p) PROVE IInv'
<1> DEFINE t == job[p]
<1>1. Worked(t) /\ t.cmd \in {"run", "resume", "recompute"} /\ t.exp \in Exps
  BY Scoring DEF FinishRun, IsRun
<1>2. /\ Become(p, Succeeded(t)) \/ Become(p, Ended(t, FALSE, 1))
      /\ order' = Touched(t.exp) /\ UNCHANGED <<rows, issue, snap, files>>
  BY DEF FinishRun, Succeeded
<1> HIDE DEF t
<1>3. Harmless(Succeeded(t)) /\ Harmless(Ended(t, FALSE, 1))
  BY <1>1, WorkedEnds DEF Vouching
<1>4. StoreOK' /\ Grows
  BY <1>1, <1>2, TouchedTyped, RunsStore DEF IInv, StoreOK
<1> QED BY <1>2, <1>3, <1>4, GoesOn

LEMMA AbortKeeps ==
  ASSUME IInv, NEW p \in Procs, AbortRun(p) PROVE IInv'
<1>1. Worked(job[p])
  BY Scoring DEF AbortRun, IsRun
<1>2. Harmless(Failed(job[p], 4)) /\ Become(p, Failed(job[p], 4))
  BY <1>1, WorkedEnds DEF AbortRun
<1>3. StoreOK' /\ Grows
  BY SameStore DEF AbortRun, IInv, store
<1> QED BY <1>2, <1>3, GoesOn

(* A process that returns or is killed.                                    *)
LEMMA LeavesKeep ==
  ASSUME IInv, NEW p \in Procs, Return(p) \/ Die(p) PROVE IInv'
<1>1. job' = [job EXCEPT ![p] = None] /\ UNCHANGED <<store, spent>>
  BY DEF Return, Die
<1>2. StoreOK' /\ Grows
  BY <1>1, SameStore DEF IInv, store
<1>3. JobsTyped' /\ JobsOK'
  <2>1. spent' \in Nat
    BY <1>1 DEF IInv, JobsTyped
  <2>2. \E new : job' = [job EXCEPT ![p] = new] /\ (new # None => JobOK(new)')
    BY <1>1
  <2> QED BY <1>2, <2>1, <2>2, JobChanges DEF IInv
<1> QED BY <1>2, <1>3 DEF IInv

-----------------------------------------------------------------------------
(* Issues: what is written over a row follows the row that was read.       *)
LEMMA Begun ==
  ASSUME IInv, StoreOK', Grows, NEW p \in Procs, \E new : Start(p, new) /\ JobOK(new)'
  PROVE  IInv'
<1>1. PICK new : Start(p, new) /\ JobOK(new)'
  OBVIOUS
<1>2. job' = [job EXCEPT ![p] = new] /\ spent' \in Nat
  BY <1>1 DEF Start, IInv, JobsTyped
<1>3. JobsTyped' /\ JobsOK'
  BY <1>1, <1>2, JobChanges DEF IInv
<1> QED BY <1>3 DEF IInv

LEMMA IssueTyped ==
  ASSUME StoreOK, NEW f \in Fingerprints
  PROVE  /\ issue[f] \in IssueRows \cup {None, Broken}
         /\ None \notin IssueRows /\ Broken \notin IssueRows
BY IssueAssumption DEF StoreOK

LEMMA UpsertFollows ==
  ASSUME StoreOK, NEW f \in Fingerprints, NEW cases \in SUBSET Cases, NEW note \in BOOLEAN,
         issue[f] # Broken
  PROVE  /\ Upserted(f, cases, note) \in IssueRows
         /\ issue[f] \in IssueRows => Follows(issue[f], Upserted(f, cases, note))
<1>1. CASE issue[f] = None
  <2>1. OPEN \in DOMAIN TRANSITIONS
    BY DEF TRANSITIONS
  <2>2. Upserted(f, cases, note) =
          IssueRow(OPEN, 1, cases, FALSE, IF note THEN {"operator"} ELSE {})
    BY <1>1 DEF Upserted
  <2>3. (IF note THEN {"operator"} ELSE {}) \in SUBSET {"operator", "reason"}
    OBVIOUS
  <2>4. Upserted(f, cases, note) \in IssueRows
    BY <2>1, <2>2, <2>3 DEF IssueRow, IssueRows
  <2>5. issue[f] \notin IssueRows
    BY <1>1, IssueTyped
  <2> QED BY <2>4, <2>5
<1>2. CASE issue[f] # None
  <2> DEFINE old == issue[f]
             new == Occurred(old, cases, note)
  <2>1. old \in IssueRows /\ Upserted(f, cases, note) = new
    BY <1>2, IssueTyped DEF Upserted
  <2> HIDE DEF old
  <2>2. new \in IssueRows
    <3> DEFINE notes == IF note THEN {"operator"} ELSE old.notes
    <3>1. notes \in SUBSET {"operator", "reason"}
      BY <2>1 DEF IssueRows
    <3>2. new = [status |-> old.status, count |-> old.count + 1, cases |-> old.cases \cup cases,
                 evidence |-> old.evidence, notes |-> notes]
      BY <2>1 DEF Occurred, IssueRows
    <3>3. /\ old.status \in DOMAIN TRANSITIONS /\ old.count + 1 \in Nat
          /\ old.cases \cup cases \in SUBSET Cases /\ old.evidence \in BOOLEAN
      BY <2>1 DEF IssueRows
    <3> HIDE DEF notes, new
    <3> QED BY <3>1, <3>2, <3>3 DEF IssueRows
  <2>3. Follows(old, new)
    BY <2>1 DEF Occurred, IssueRows, Follows
  <2> HIDE DEF new
  <2> QED BY <2>1, <2>2, <2>3 DEF old
<1> QED BY <1>1, <1>2

LEMMA MovedFollows ==
  ASSUME NEW old \in IssueRows, NEW target \in TRANSITIONS[old.status], NEW given \in BOOLEAN,
         target \in Targets
  PROVE  Moved(old, target, given) \in IssueRows /\ Follows(old, Moved(old, target, given))
<1>1. target \in DOMAIN TRANSITIONS
  BY DEF Targets, TRANSITIONS
<1>2. Moved(old, target, given) \in IssueRows
  BY <1>1 DEF Moved, IssueRows
<1>3. Follows(old, Moved(old, target, given))
  BY DEF Moved, IssueRows, Follows
<1> QED BY <1>2, <1>3

LEMMA FingerprintsTyped ==
  ASSUME StoreOK, NEW e, NEW cases
  PROVE  ComputeFingerprint(ResultsOf(e), cases) \in Fingerprints
<1> DEFINE r == ResultsOf(e)
<1>1. r \in [Cases -> CaseRows \cup {None, Broken}]
  BY ResultsTyped
<1> HIDE DEF r
<1>2. ASSUME NEW c \in FailingCases(r) PROVE r[c].failed \subseteq Metrics
  <2>1. r[c] \in CaseRows
    BY <1>1 DEF FailingCases, CaseResults
  <2> QED BY <2>1 DEF CaseRows
<1>3. ComputeFingerprint(r, cases) \subseteq Metrics
  BY <1>2 DEF ComputeFingerprint, FailingMetrics
<1> QED BY <1>3 DEF r, Fingerprints

LEMMA DiagnoseReadKeeps ==
  ASSUME IInv, NEW p \in Procs, DiagnoseRead(p) PROVE IInv'
<1> DEFINE g == Task("diagnose", "find")
<1>0. IsNew(g, "diagnose", "find") /\ Fresh(g)
  BY TaskIs, FreshTask
<1>1. PICK s \in Selections, dry \in BOOLEAN, note \in BOOLEAN :
        LET found   == Resolved(s[1], s[2])
            failing == IF found.exit = 0
                       THEN found.cases \cap FailingCases(ResultsOf(found.exp)) ELSE {}
            task    == [g EXCEPT !.dry = dry] IN
        Start(p, IF found.exit # 0 THEN Failed(task, found.exit)
                 ELSE IF failing = {} THEN Failed(task, 2)
                 ELSE [task EXCEPT
                        !.base = ComputeFingerprint(ResultsOf(found.exp), found.cases),
                        !.todo = IF note THEN {"note"} ELSE {},
                        !.seen = failing])
  BY DEF DiagnoseRead
<1>2. StoreOK' /\ Grows
  BY SameStore DEF DiagnoseRead, IInv, store
<1> HIDE DEF g
<1> DEFINE found   == Resolved(s[1], s[2])
           failing == found.cases \cap FailingCases(ResultsOf(found.exp))
           task    == [g EXCEPT !.dry = dry]
           fp      == ComputeFingerprint(ResultsOf(found.exp), found.cases)
           todo    == IF note THEN {"note"} ELSE {}
           goes    == [task EXCEPT !.base = fp, !.todo = todo, !.seen = failing]
<1>3. found.exit \in {0, 2, 4}
  BY ResolvedIs DEF IInv
<1>4. failing \subseteq Cases /\ fp \in Fingerprints
  BY FingerprintsTyped, ResultsTyped DEF IInv
<1>5. Start(p, Failed(task, 2)) \/ Start(p, Failed(task, 4)) \/ Start(p, goes)
  BY <1>1, <1>3
<1> HIDE DEF fp, failing, todo
<1>6. CASE Start(p, goes)
  <2>1. PICK new : new = goes
    OBVIOUS
  <2>2. /\ IsTask(new) /\ new.cmd = "diagnose" /\ new.at = "find" /\ new.base \in Fingerprints
        /\ new.seen \subseteq Cases /\ new.dry \in BOOLEAN /\ new.wrote \in BOOLEAN
    BY <1>0, <1>4, <2>1 DEF IsNew, IsTask, Fields
  <2>3. JobOK(new)'
    BY <2>2 DEF JobOK, InRun, InDiagnose, InTransition, InExport, InReplay, InTriage, IsDone
  <2> QED BY <1>2, <1>6, <2>1, <2>3, Begun
<1>7. CASE Start(p, Failed(task, 2)) \/ Start(p, Failed(task, 4))
  <2>1. Fresh(task)
    BY <1>0, FreshChanged
  <2> HIDE DEF task
  <2>2. \E new : Start(p, new) /\ Harmless(new)
    BY <1>7, <2>1, FreshFails
  <2> QED BY <1>2, <2>2, StartsHarmlessly DEF IInv
<1> QED BY <1>5, <1>6, <1>7

LEMMA DiagnoseFindKeeps ==
  ASSUME IInv, NEW p \in Procs, DiagnoseFind(p) PROVE IInv'
<1>0. PICK t : t = job[p]
  OBVIOUS
<1>1. /\ Worked(t) /\ t.cmd = "diagnose" /\ t.at = "find"
      /\ t.base \in Fingerprints /\ t.seen \in SUBSET Cases
  BY <1>0, AtWork DEF DiagnoseFind, At, JobOK, InDiagnose
<1>2. StoreOK' /\ Grows
  BY SameStore DEF DiagnoseFind, IInv, store
<1> DEFINE note == "note" \in t.todo
           old  == issue[t.base]
           copy == Upserted(t.base, t.seen, note)
<1>3. \/ Become(p, Failed(t, 4))
      \/ /\ old # Broken
         /\ Become(p, IF t.dry
                      THEN Succeeded([[t EXCEPT !.at = "row", !.todo = {}, !.seen = {old}]
                                        EXCEPT !.copy = copy])
                      ELSE [[t EXCEPT !.at = "row", !.todo = {}, !.seen = {old}]
                              EXCEPT !.copy = copy])
  BY <1>0 DEF DiagnoseFind
<1>4. old # Broken => copy \in IssueRows /\ (old \in IssueRows => Follows(old, copy))
  <2>1. note \in BOOLEAN
    OBVIOUS
  <2> HIDE DEF note
  <2> QED BY <1>1, <2>1, UpsertFollows DEF IInv
<1> HIDE DEF note
<1>5. PICK new : new = [[t EXCEPT !.at = "row", !.todo = {}, !.seen = {old}] EXCEPT !.copy = copy]
  OBVIOUS
<1>6. /\ IsTask(new) /\ new.cmd = "diagnose" /\ new.at = "row" /\ new.base = t.base
      /\ new.seen = {old} /\ new.copy = copy /\ new.dry = t.dry /\ new.wrote = t.wrote
  BY <1>1, <1>5 DEF Worked, IsTask, Fields
<1>7. CASE Become(p, Failed(t, 4))
  BY <1>1, <1>2, <1>7, WorkedEnds, GoesOn
<1>8. CASE old # Broken /\ ~ t.dry /\ Become(p, new)
  <2>1. FollowsSeen(new) /\ new.copy \in IssueRows
    BY <1>4, <1>6, <1>8 DEF FollowsSeen
  <2>2. JobOK(new)'
    <3>1. InDiagnose(new)'
      BY <1>1, <1>6, <2>1 DEF InDiagnose, FollowsSeen
    <3>2. InRun(new)' /\ InTransition(new)' /\ InExport(new)' /\ InReplay(new)' /\ InTriage(new)'
          /\ IsDone(new)'
      BY <1>6 DEF InRun, InTransition, InExport, InReplay, InTriage, IsDone
    <3> QED BY <1>1, <1>6, <3>1, <3>2 DEF JobOK, Worked
  <2> QED BY <1>2, <1>8, <2>2, Becomes
<1>9. CASE t.dry /\ Become(p, Succeeded(new))
  <2> DEFINE e == Succeeded(new)
  <2>1. EndsAs(e, new, TRUE, 0)
    BY <1>6, SucceededIs
  <2> HIDE DEF e
  <2>2. Harmless(e)
    <3>1. t.dry # FALSE
      BY <1>9, Zenon
    <3> HIDE DEF old, copy
    <3>2. e.dry # FALSE /\ e.dry \in BOOLEAN /\ e.wrote \in BOOLEAN
      BY <1>1, <1>6, <2>1, <3>1 DEF EndsAs, SameTask, Worked
    <3>3. /\ IsTask(e) /\ e.at = "done" /\ e.ok = TRUE /\ e.exit = 0
          /\ e.cmd # "triage" /\ e.exit # 2
      BY <1>6, <2>1 DEF EndsAs, SameTask
    <3>4. (e.ok = TRUE) <=> (e.exit = 0)
      BY <3>3, Zenon
    <3> QED BY <3>2, <3>3, <3>4, Zenon DEF Harmless
  <2> QED BY <1>2, <1>9, <2>2, GoesOn DEF e
<1> HIDE DEF old, copy
<1>10. t.dry \in BOOLEAN
  BY <1>1 DEF Worked
<1> QED BY <1>3, <1>5, <1>7, <1>8, <1>9, <1>10

(* A row that is written over another.                                     *)
LEMMA RowWritten ==
  ASSUME StoreOK, UNCHANGED <<order, rows, snap, files>>,
         NEW f \in Fingerprints, NEW row \in IssueRows, issue' = [issue EXCEPT ![f] = row]
  PROVE  StoreOK' /\ Grows /\ issue'[f] # None
<1>1. row # None
  BY IssueAssumption
<1>2. issue' \in [Fingerprints -> IssueRows \cup {None, Broken}]
  BY DEF StoreOK
<1>3. \A g \in Fingerprints : issue[g] # None => issue'[g] # None
  BY <1>1 DEF StoreOK
<1>4. issue'[f] # None
  BY <1>1 DEF StoreOK
<1> HIDE DEF Fingerprints
<1> QED BY <1>2, <1>3, <1>4 DEF StoreOK, Grows, FilesHaveTheirs, HasItsOwn

LEMMA WriteRowKeeps ==
  ASSUME IInv, NEW p \in Procs, DiagnoseWriteRow(p) PROVE IInv'
<1>0. PICK t : t = job[p]
  OBVIOUS
<1>1. /\ Worked(t) /\ t.cmd = "diagnose" /\ t.at = "row"
      /\ t.base \in Fingerprints /\ t.copy \in IssueRows
  BY <1>0, AtWork DEF DiagnoseWriteRow, At, JobOK, InDiagnose
<1>2. /\ issue' = [issue EXCEPT ![t.base] = t.copy] /\ UNCHANGED <<order, rows, snap, files>>
      /\ Become(p, Wrote([t EXCEPT !.at = "snapshot"]))
  BY <1>0 DEF DiagnoseWriteRow
<1>3. StoreOK' /\ Grows /\ issue'[t.base] # None
  BY <1>1, <1>2, RowWritten DEF IInv
<1>4. PICK new : new = Wrote([t EXCEPT !.at = "snapshot"])
  OBVIOUS
<1>5. /\ IsTask(new) /\ new.cmd = "diagnose" /\ new.at = "snapshot" /\ new.base = t.base
      /\ new.copy = t.copy /\ new.dry = t.dry /\ new.wrote = TRUE
  BY <1>1, <1>4 DEF Wrote, Worked, IsTask, Fields
<1>6. JobOK(new)'
  <2>1. InDiagnose(new)'
    BY <1>1, <1>3, <1>5 DEF InDiagnose
  <2>2. InRun(new)' /\ InTransition(new)' /\ InExport(new)' /\ InReplay(new)' /\ InTriage(new)'
        /\ IsDone(new)'
    BY <1>5 DEF InRun, InTransition, InExport, InReplay, InTriage, IsDone
  <2> QED BY <1>1, <1>5, <2>1, <2>2 DEF JobOK, Worked
<1> QED BY <1>2, <1>3, <1>4, <1>6, Becomes

LEMMA SnapshotKeeps ==
  ASSUME IInv, NEW p \in Procs, DiagnoseWriteSnapshot(p) PROVE IInv'
<1>0. PICK t : t = job[p]
  OBVIOUS
<1>1. /\ Worked(t) /\ t.cmd = "diagnose" /\ t.at = "snapshot"
      /\ t.base \in Fingerprints /\ t.copy \in IssueRows /\ issue[t.base] # None
  BY <1>0, AtWork DEF DiagnoseWriteSnapshot, At, JobOK, InDiagnose
<1>2. /\ snap' = [snap EXCEPT ![t.base] = t.copy.count]
      /\ UNCHANGED <<order, rows, issue, files>> /\ Become(p, Succeeded(t))
  BY <1>0 DEF DiagnoseWriteSnapshot
<1>3. t.copy.count \in Nat /\ t.copy.count # None
  BY <1>1, StoreAssumption DEF IssueRows
<1>4. StoreOK' /\ Grows /\ snap'[t.base] # None
  <2>1. snap' \in [Fingerprints -> Nat \cup {None}]
    BY <1>1, <1>2, <1>3 DEF IInv, StoreOK
  <2>2. \A f \in Fingerprints : snap'[f] # None => f = t.base \/ snap[f] # None
    BY <1>1, <1>2 DEF IInv, StoreOK
  <2>3. \A f \in Fingerprints : snap[f] # None => snap'[f] # None
    BY <1>2, <1>3 DEF IInv, StoreOK
  <2>4. snap'[t.base] # None
    BY <1>1, <1>2, <1>3 DEF IInv, StoreOK
  <2> HIDE DEF Fingerprints
  <2>5. \A f \in Fingerprints : snap'[f] # None => issue'[f] # None
    BY <1>1, <1>2, <2>2 DEF IInv, StoreOK
  <2> QED BY <1>2, <2>1, <2>3, <2>4, <2>5 DEF IInv, StoreOK, Grows, FilesHaveTheirs, HasItsOwn
<1>5. PICK new : new = Succeeded(t)
  OBVIOUS
<1>6. EndsAs(new, t, TRUE, 0)
  BY <1>1, <1>5, SucceededIs DEF Worked
<1>7. JobOK(new)'
  <2>1. new.cmd = "diagnose" /\ new.at = "done" /\ new.ok = TRUE /\ new.exit = 0
        /\ new.base = t.base /\ new.dry = t.dry /\ new.wrote = t.wrote /\ IsTask(new)
    BY <1>1, <1>6 DEF EndsAs, SameTask
  <2>2. Named(new) = {}
    BY <2>1 DEF Named
  <2>3. issue'[new.base] # None /\ snap'[new.base] # None
    BY <1>1, <1>2, <1>4, <2>1
  <2>4. IsDone(new)'
    BY <1>1, <2>1, <2>2, <2>3 DEF IsDone
  <2>5. InRun(new)' /\ InDiagnose(new)' /\ InTransition(new)' /\ InExport(new)' /\ InReplay(new)'
        /\ InTriage(new)'
    BY <2>1 DEF InRun, InDiagnose, InTransition, InExport, InReplay, InTriage
  <2> QED BY <1>1, <2>1, <2>4, <2>5 DEF JobOK, Worked
<1> QED BY <1>2, <1>4, <1>5, <1>7, Becomes

LEMMA TransitionReadKeeps ==
  ASSUME IInv, NEW p \in Procs, TransitionRead(p) PROVE IInv'
<1> DEFINE g == Task("transition", "write")
<1>0. IsNew(g, "transition", "write") /\ Fresh(g)
  BY TaskIs, FreshTask
<1>1. PICK f \in Fingerprints, target \in Targets, given \in BOOLEAN :
        LET row  == issue[f]
            task == [g EXCEPT !.base = f]
            bare == RequiresArgs(target) /\ ~ given IN
        Start(p, IF row = None THEN Failed(task, 2)
                 ELSE IF row = Broken THEN Failed(task, 4)
                 ELSE IF bare THEN Failed(task, 2)
                 ELSE IF row.status = target THEN Succeeded(task)
                 ELSE IF target \notin TRANSITIONS[row.status] THEN Failed(task, 2)
                 ELSE [task EXCEPT !.copy = Moved(row, target, given), !.seen = {row}])
  BY DEF TransitionRead
<1>2. StoreOK' /\ Grows
  BY SameStore DEF TransitionRead, IInv, store
<1> HIDE DEF g
<1> DEFINE row  == issue[f]
           task == [g EXCEPT !.base = f]
           goes == [task EXCEPT !.copy = Moved(row, target, given), !.seen = {row}]
<1>3. \/ Start(p, Failed(task, 2)) \/ Start(p, Failed(task, 4)) \/ Start(p, Succeeded(task))
      \/ /\ row \notin {None, Broken} /\ target \in TRANSITIONS[row.status]
         /\ Start(p, goes)
  BY <1>1
<1>4. Fresh(task) /\ task.cmd = "transition" /\ task.at = "write" /\ task.base = f
  BY <1>0 DEF IsNew, Fresh, IsTask, Fields
<1>5. CASE Start(p, Failed(task, 2)) \/ Start(p, Failed(task, 4)) \/ Start(p, Succeeded(task))
  <2> HIDE DEF task
  <2>1. \E new : Start(p, new) /\ Harmless(new)
    BY <1>4, <1>5, FreshFails, FreshEnds DEF Vouching
  <2> QED BY <1>2, <2>1, StartsHarmlessly DEF IInv
<1>6. CASE row \notin {None, Broken} /\ target \in TRANSITIONS[row.status] /\ Start(p, goes)
  <2>1. row \in IssueRows
    BY <1>6, IssueTyped DEF IInv
  <2> HIDE DEF row, task
  <2>2. Moved(row, target, given) \in IssueRows /\ Follows(row, Moved(row, target, given))
    BY <1>6, <2>1, MovedFollows
  <2> DEFINE copy == Moved(row, target, given)
  <2> HIDE DEF copy
  <2>3. PICK new : new = [task EXCEPT !.copy = copy, !.seen = {row}]
    OBVIOUS
  <2>4. /\ IsTask(new) /\ new.cmd = "transition" /\ new.at = "write" /\ new.base = f
        /\ new.copy = copy /\ new.seen = {row} /\ new.dry \in BOOLEAN /\ new.wrote \in BOOLEAN
    BY <1>4, <2>3 DEF Fresh, IsTask, Fields
  <2>5. FollowsSeen(new) /\ new.copy \in IssueRows
    BY <2>2, <2>4 DEF FollowsSeen, copy
  <2>6. JobOK(new)'
    <3>1. InTransition(new)'
      BY <2>4, <2>5 DEF InTransition, FollowsSeen
    <3>2. InRun(new)' /\ InDiagnose(new)' /\ InExport(new)' /\ InReplay(new)' /\ InTriage(new)'
          /\ IsDone(new)'
      BY <2>4 DEF InRun, InDiagnose, InExport, InReplay, InTriage, IsDone
    <3> QED BY <2>4, <3>1, <3>2 DEF JobOK
  <2> QED BY <1>2, <1>6, <2>3, <2>6, Begun DEF copy
<1> QED BY <1>3, <1>5, <1>6

LEMMA TransitionWriteKeeps ==
  ASSUME IInv, NEW p \in Procs, TransitionWrite(p) PROVE IInv'
<1>0. PICK t : t = job[p]
  OBVIOUS
<1>1. /\ Worked(t) /\ t.cmd = "transition"
      /\ t.base \in Fingerprints /\ t.copy \in IssueRows
  BY <1>0, AtWork DEF TransitionWrite, At, JobOK, InTransition
<1>2. /\ issue' = [issue EXCEPT ![t.base] = t.copy] /\ UNCHANGED <<order, rows, snap, files>>
      /\ Become(p, Succeeded(Wrote(t)))
  BY <1>0 DEF TransitionWrite
<1>3. StoreOK' /\ Grows
  BY <1>1, <1>2, RowWritten DEF IInv
<1>4. Worked(Wrote(t)) /\ Wrote(t).cmd = "transition"
  BY <1>1, WroteIs DEF Worked, SameTask
<1> HIDE DEF Wrote
<1>5. Harmless(Succeeded(Wrote(t)))
  BY <1>4, WorkedEnds DEF Vouching
<1> QED BY <1>2, <1>3, <1>5, GoesOn

-----------------------------------------------------------------------------
(* Triage: what it explains is what it has listed.                         *)
LEMMA TriageStartKeeps ==
  ASSUME IInv, NEW p \in Procs, TriageDoctor(p) PROVE IInv'
<1>1. StoreOK' /\ Grows
  BY SameStore DEF TriageDoctor, IInv, store
<1>2. CASE Start(p, Failed(Task("triage", "start"), 2))
  <2>1. Harmless(Failed(Task("triage", "start"), 2))
    BY FreshTask, FreshFails
  <2> HIDE DEF Task, Failed
  <2> QED BY <1>1, <1>2, <2>1, StartsHarmlessly DEF IInv
<1>3. CASE \E s \in Selections, parts \in SUBSET {"failures", "explain"} :
             Start(p, [Task("triage", IF "failures" \in parts THEN "failures" ELSE "explain")
                         EXCEPT !.exp = s[1], !.base = s[2], !.todo = parts])
  <2>1. PICK exp, case, parts, at :
          /\ at \in {"failures", "explain"}
          /\ Start(p, [Task("triage", at) EXCEPT !.exp = exp, !.base = case, !.todo = parts])
    BY <1>3
  <2> DEFINE g == Task("triage", at)
  <2>2. IsNew(g, "triage", at)
    BY TaskIs
  <2> HIDE DEF g
  <2>3. PICK new : new = [g EXCEPT !.exp = exp, !.base = case, !.todo = parts]
    OBVIOUS
  <2>4. /\ IsTask(new) /\ new.cmd = "triage" /\ new.at = at /\ new.seen = {}
        /\ new.wrote = FALSE /\ new.dry = FALSE /\ at \in {"failures", "explain"}
    BY <2>1, <2>2, <2>3 DEF IsNew, IsTask, Fields
  <2>5. JobOK(new)'
    <3>1. InTriage(new)'
      BY <2>4 DEF InTriage, ListedOnly
    <3>2. InRun(new)' /\ InDiagnose(new)' /\ InTransition(new)' /\ InExport(new)'
          /\ InReplay(new)' /\ IsDone(new)'
      BY <2>4 DEF InRun, InDiagnose, InTransition, InExport, InReplay, IsDone
    <3> QED BY <2>4, <3>1, <3>2 DEF JobOK
  <2>6. Start(p, new)
    BY <2>1, <2>3 DEF g
  <2> QED BY <1>1, <2>5, <2>6, Begun
<1> QED BY <1>2, <1>3 DEF TriageDoctor

LEMMA FailuresTyped ==
  ASSUME StoreOK, NEW e
  PROVE  /\ {x.case : x \in FailuresOf(e, None)} \subseteq Cases
         /\ e = None => {x.case : x \in FailuresOf(e, None)} = {}
<1>1. CASE e = None
  BY <1>1 DEF FailuresOf
<1>2. CASE e # None
  <2>1. FailingCases(ResultsOf(e)) \subseteq Cases
    BY ResultsTyped
  <2>2. \A x \in FailuresOf(e, None) : x.case \in FailingCases(ResultsOf(e))
    BY <1>2 DEF FailuresOf, ListFailures
  <2> QED BY <1>2, <2>1, <2>2
<1> QED BY <1>1, <1>2

LEMMA TriageFailuresKeeps ==
  ASSUME IInv, NEW p \in Procs, TriageFailures(p) PROVE IInv'
<1>0. PICK t : t = job[p]
  OBVIOUS
<1>1. Worked(t) /\ t.cmd = "triage" /\ t.at = "failures" /\ t.wrote = FALSE
  BY <1>0, AtWork DEF TriageFailures, At, JobOK, InTriage
<1>2. StoreOK' /\ Grows
  BY SameStore DEF TriageFailures, IInv, store
<1>3. PICK e : e = IF t.exp = None THEN Newest ELSE t.exp
  OBVIOUS
<1>4. PICK x : x = [exp |-> e, part |-> "failures",
                   cases |-> {y.case : y \in FailuresOf(e, None)}]
  OBVIOUS
<1>5. Become(p, Failed(t, 4)) \/ Become(p, [t EXCEPT !.at = "explain", !.seen = {x}])
  BY <1>0, <1>3, <1>4 DEF TriageFailures
<1>6. CASE Become(p, Failed(t, 4))
  BY <1>1, <1>2, <1>6, WorkedEnds, GoesOn
<1>7. CASE Become(p, [t EXCEPT !.at = "explain", !.seen = {x}])
  <2>1. PICK new : new = [t EXCEPT !.at = "explain", !.seen = {x}]
    OBVIOUS
  <2>2. /\ IsTask(new) /\ new.cmd = "triage" /\ new.at = "explain" /\ new.seen = {x}
        /\ new.wrote = FALSE /\ new.dry = t.dry
    BY <1>1, <2>1 DEF Worked, IsTask, Fields
  <2>3. x.part = "failures" /\ x.cases \subseteq Cases /\ (x.exp = None => x.cases = {})
    BY <1>4, FailuresTyped DEF IInv
  <2>4. ListedOnly(new.seen)
    BY <2>2, <2>3 DEF ListedOnly
  <2>5. JobOK(new)'
    <3>1. InTriage(new)'
      BY <2>2, <2>4 DEF InTriage, ListedOnly
    <3>2. InRun(new)' /\ InDiagnose(new)' /\ InTransition(new)' /\ InExport(new)'
          /\ InReplay(new)' /\ IsDone(new)'
      BY <2>2 DEF InRun, InDiagnose, InTransition, InExport, InReplay, IsDone
    <3> QED BY <1>1, <2>2, <3>1, <3>2 DEF JobOK, Worked
  <2> QED BY <1>2, <1>7, <2>1, <2>5, Becomes
<1> QED BY <1>5, <1>6, <1>7

(* A case that was selected is the only one that was listed.               *)
LEMMA SelectedIsListed ==
  ASSUME NEW t, ListedOnly(t.seen), SelectExplain(t).part = "selected"
  PROVE  \E x : /\ t.seen = {x} /\ x.exp # None /\ SelectExplain(t).exp = x.exp
                /\ {SelectExplain(t).case} = x.cases
<1> DEFINE l == Listed(t)
           c == CHOOSE c \in l.cases : TRUE
<1>1. Cardinality(l.cases) = 1 /\ SelectExplain(t) = Explain(l.exp, c, "selected")
  BY DEF SelectExplain, Explain
<1>2. SelectExplain(t).exp = l.exp /\ SelectExplain(t).case = c
  BY <1>1 DEF Explain
<1>3. t.seen # {}
  <2> SUFFICES ASSUME t.seen = {} PROVE FALSE
    OBVIOUS
  <2>1. l.cases = {}
    BY DEF Listed
  <2> HIDE DEF l
  <2> QED BY <1>1, <2>1, FS_EmptySet
<1>4. PICK x : /\ t.seen = {x} /\ x.part = "failures" /\ x.cases \subseteq Cases
               /\ x.exp = None => x.cases = {}
  BY <1>3 DEF ListedOnly
<1>5. l = x
  BY <1>3, <1>4 DEF Listed
<1>6. IsFiniteSet(x.cases)
  BY <1>4, StoreAssumption, FS_Subset
<1>7. PICK d : x.cases = {d}
  <2> HIDE DEF l
  <2> QED BY <1>1, <1>5, <1>6, FS_Singleton
<1>8. c = d
  BY <1>5, <1>7
<1>9. x.exp # None
  BY <1>4, <1>7
<1> QED BY <1>2, <1>4, <1>5, <1>7, <1>8, <1>9

(* Whatever the doctor found, a triage that ends with it has written       *)
(* nothing, and its exit code says what its envelope says.                 *)
LEMMA TriageEndsWell ==
  ASSUME NEW t, Worked(t), t.cmd = "triage", t.wrote = FALSE, OneRun(t.seen),
         NEW end \in TriageEnds(t)
  PROVE  JobOK(end)'
<1>1. PICK o \in Outcomes : end = Ended([t EXCEPT !.exp = None, !.base = None], o.green, o.exit)
  BY DEF TriageEnds
<1> DEFINE u == [t EXCEPT !.exp = None, !.base = None]
<1>2. IsTask(u) /\ u.cmd = t.cmd /\ u.wrote = t.wrote /\ u.dry = t.dry /\ u.seen = t.seen
  BY DEF Worked, IsTask, Fields
<1> HIDE DEF u
<1>3. EndsAs(end, u, o.green, o.exit)
  BY <1>1, <1>2, EndedIs DEF u
<1>4. /\ IsTask(end) /\ end.at = "done" /\ end.cmd = "triage" /\ end.wrote = FALSE
      /\ end.dry = t.dry /\ end.seen = t.seen
  BY <1>2, <1>3 DEF EndsAs, SameTask
<1>5. (end.ok = TRUE) <=> (end.exit = 0)
  <2>1. end.ok = o.green /\ end.exit = o.exit
    BY <1>3 DEF EndsAs
  <2>2. (o.green = TRUE) <=> (o.exit = 0)
    BY OutcomesTyped
  <2> QED BY <2>1, <2>2, Zenon
<1>6. Named(end) = {}
  BY <1>4 DEF Named
<1>7. IsDone(end)'
  BY <1>4, <1>5, <1>6 DEF IsDone
<1>8. InRun(end)' /\ InDiagnose(end)' /\ InTransition(end)' /\ InExport(end)'
      /\ InReplay(end)' /\ InTriage(end)'
  BY <1>4 DEF InRun, InDiagnose, InTransition, InExport, InReplay, InTriage
<1> QED BY <1>4, <1>7, <1>8 DEF JobOK, Worked

LEMMA TriageExplainKeeps ==
  ASSUME IInv, NEW p \in Procs, TriageExplain(p) PROVE IInv'
<1>0. PICK t : t = job[p]
  OBVIOUS
<1>1. Worked(t) /\ t.cmd = "triage" /\ t.wrote = FALSE /\ ListedOnly(t.seen)
  BY <1>0, AtWork DEF TriageExplain, At, JobOK, InTriage
<1>2. StoreOK' /\ Grows
  BY SameStore DEF TriageExplain, IInv, store
<1>3. PICK choice : choice = SelectExplain(t)
  OBVIOUS
<1>4. PICK found : found = Resolved(choice.exp, choice.case)
  OBVIOUS
<1>5. PICK new : new = [t EXCEPT !.seen = @ \cup {[exp |-> found.exp, part |-> choice.part,
                                                  cases |-> {choice.case}]}]
  OBVIOUS
<1>6. PICK end \in
         IF "explain" \notin t.todo \/ choice.part = "none" THEN TriageEnds(t)
         ELSE IF found.exit # 0 THEN {Failed(t, found.exit)}
         ELSE IF ~ Exists(found.exp) THEN {Failed(t, 2)}
         ELSE TriageEnds(new) : Become(p, end)
  BY <1>0, <1>3, <1>4, <1>5 DEF TriageExplain
<1>7. /\ found.exit \in {0, 2, 4}
      /\ found.exp = IF choice.exp = None THEN Newest ELSE choice.exp
  BY <1>4, ResolvedIs DEF IInv
<1>8. \/ end \in TriageEnds(t) \/ end \in TriageEnds(new)
      \/ end = Failed(t, 2) \/ end = Failed(t, 4)
  BY <1>6, <1>7
<1>9. CASE end \in TriageEnds(t)
  <2>1. OneRun(t.seen)
    BY <1>1 DEF ListedOnly, OneRun
  <2>2. JobOK(end)'
    BY <1>1, <1>9, <2>1, TriageEndsWell
  <2> QED BY <1>2, <1>6, <2>2, Becomes
<1>10. CASE end = Failed(t, 2) \/ end = Failed(t, 4)
  <2>1. Fresh(t)
    BY <1>1 DEF Fresh, Worked
  <2>2. Harmless(end)
    BY <1>10, <2>1, FreshFails
  <2> QED BY <1>2, <1>6, <2>2, GoesOn
<1>11. CASE end \in TriageEnds(new)
  <2> DEFINE y == [exp |-> found.exp, part |-> choice.part, cases |-> {choice.case}]
  <2>1. /\ Worked(new) /\ new.cmd = "triage" /\ new.wrote = FALSE
        /\ new.seen = t.seen \cup {y}
    BY <1>1, <1>5 DEF Worked, IsTask, Fields
  <2>2. y.exp = found.exp /\ y.part = choice.part /\ y.cases = {choice.case}
    OBVIOUS
  <2> HIDE DEF y
  <2>3. y.part # "failures"
    <3>1. choice.part \in {"asked", "selected", "none"}
      BY <1>3 DEF SelectExplain, Explain
    <3> QED BY <2>2, <3>1
  <2>4. CASE choice.part # "selected"
    <3>1. OneRun(new.seen)
      BY <1>1, <2>1, <2>2, <2>4 DEF ListedOnly, OneRun
    <3>2. JobOK(end)'
      BY <1>11, <2>1, <3>1, TriageEndsWell
    <3> QED BY <1>2, <1>6, <3>2, Becomes
  <2>5. CASE choice.part = "selected"
    <3>1. PICK x : /\ t.seen = {x} /\ x.exp # None /\ choice.exp = x.exp
                   /\ {choice.case} = x.cases
      BY <1>1, <1>3, <2>5, SelectedIsListed
    <3>2. y.exp = x.exp /\ y.cases = x.cases
      BY <1>7, <2>2, <3>1
    <3>3. x.part = "failures"
      BY <1>1, <3>1 DEF ListedOnly
    <3>4. OneRun(new.seen)
      BY <2>1, <2>3, <3>1, <3>2, <3>3 DEF OneRun
    <3>5. JobOK(end)'
      BY <1>11, <2>1, <3>4, TriageEndsWell
    <3> QED BY <1>2, <1>6, <3>5, Becomes
  <2> QED BY <2>4, <2>5
<1> QED BY <1>8, <1>9, <1>10, <1>11

-----------------------------------------------------------------------------
(* Exports and replays: a file is written after those it refers to.        *)
LEMMA DryEnds ==
  ASSUME NEW t, Worked(t), t.dry # FALSE, t.cmd # "triage" PROVE Harmless(Succeeded(t))
<1> DEFINE e == Succeeded(t)
<1>1. EndsAs(e, t, TRUE, 0)
  BY SucceededIs DEF Worked
<1> HIDE DEF e
<1>2. e.dry # FALSE /\ e.dry \in BOOLEAN /\ e.wrote \in BOOLEAN
  BY <1>1 DEF EndsAs, SameTask, Worked
<1>3. /\ IsTask(e) /\ e.at = "done" /\ e.ok = TRUE /\ e.exit = 0
      /\ e.cmd # "triage" /\ e.exit # 2
  BY <1>1 DEF EndsAs, SameTask
<1>4. (e.ok = TRUE) <=> (e.exit = 0)
  BY <1>3, Zenon
<1>5. Harmless(e)
  BY <1>2, <1>3, <1>4, Zenon DEF Harmless
<1> QED BY <1>5 DEF e

LEMMA ExportStartKeeps ==
  ASSUME IInv, NEW p \in Procs, TrainExportStart(p) PROVE IInv'
<1>1. StoreOK' /\ Grows
  BY SameStore DEF TrainExportStart, IInv, store
<1>2. \/ Start(p, Failed(Task("train_export", "start"), 2))
      \/ \E todo, base : \E dry \in BOOLEAN :
           Start(p, [Task("train_export", "read") EXCEPT !.todo = todo, !.base = base, !.dry = dry])
  BY DEF TrainExportStart
<1>3. CASE Start(p, Failed(Task("train_export", "start"), 2))
  <2>1. Harmless(Failed(Task("train_export", "start"), 2))
    BY FreshTask, FreshFails
  <2> HIDE DEF Task, Failed
  <2> QED BY <1>1, <1>3, <2>1, StartsHarmlessly DEF IInv
<1>4. CASE \E todo, base : \E dry \in BOOLEAN :
           Start(p, [Task("train_export", "read") EXCEPT !.todo = todo, !.base = base, !.dry = dry])
  <2>1. PICK todo, base : \E dry \in BOOLEAN :
          Start(p, [Task("train_export", "read") EXCEPT !.todo = todo, !.base = base, !.dry = dry])
    BY <1>4
  <2>2. PICK dry \in BOOLEAN :
          Start(p, [Task("train_export", "read") EXCEPT !.todo = todo, !.base = base, !.dry = dry])
    BY <2>1
  <2> DEFINE g == Task("train_export", "read")
  <2>3. IsNew(g, "train_export", "read")
    BY TaskIs
  <2> HIDE DEF g
  <2>4. PICK new : new = [g EXCEPT !.todo = todo, !.base = base, !.dry = dry]
    OBVIOUS
  <2>5. /\ IsTask(new) /\ new.cmd = "train_export" /\ new.at = "read"
        /\ new.wrote = FALSE /\ new.dry = dry
    BY <2>3, <2>4 DEF IsNew, IsTask, Fields
  <2>6. JobOK(new)'
    BY <2>5 DEF JobOK, InRun, InDiagnose, InTransition, InExport, InReplay, InTriage, IsDone
  <2>7. Start(p, new)
    BY <2>2, <2>4 DEF g
  <2> QED BY <1>1, <2>6, <2>7, Begun
<1> QED BY <1>2, <1>3, <1>4

(* An export in the middle of its work.                                    *)
IsExport(t) == Worked(t) /\ t.cmd = "train_export" /\ t.at \in {"manifest", "rows", "vault"}

LEMMA ExportOK ==
  ASSUME NEW t, IsExport(t), InExport(t)' PROVE JobOK(t)'
<1>1. InRun(t)' /\ InDiagnose(t)' /\ InTransition(t)' /\ InReplay(t)' /\ InTriage(t)'
      /\ IsDone(t)'
  BY DEF IsExport, InRun, InDiagnose, InTransition, InReplay, InTriage, IsDone
<1> QED BY <1>1 DEF IsExport, JobOK, Worked

LEMMA ExportReadKeeps ==
  ASSUME IInv, NEW p \in Procs, TrainExportRead(p) PROVE IInv'
<1>0. PICK t : t = job[p]
  OBVIOUS
<1>1. Worked(t) /\ t.cmd = "train_export" /\ t.at = "read"
  BY <1>0, AtWork DEF TrainExportRead, At
<1>2. StoreOK' /\ Grows
  BY SameStore DEF TrainExportRead, IInv, store
<1> DEFINE kept == {b \in t.todo : Exported(bundle[b], t.base)}
           bad  == kept \ PositiveGold(kept, bundle)
<1>3. \/ Become(p, Failed(t, 4))
      \/ t.dry /\ Become(p, Succeeded([t EXCEPT !.todo = {}]))
      \/ Become(p, [t EXCEPT !.at = "manifest", !.todo = kept, !.seen = kept, !.copy = bad])
  BY <1>0 DEF TrainExportRead
<1>4. bad \subseteq kept
  OBVIOUS
<1> HIDE DEF bad, kept
<1>5. CASE Become(p, Failed(t, 4))
  BY <1>1, <1>2, <1>5, WorkedEnds, GoesOn
<1>6. CASE t.dry /\ Become(p, Succeeded([t EXCEPT !.todo = {}]))
  <2> DEFINE u == [t EXCEPT !.todo = {}]
  <2>1. Worked(u) /\ u.cmd = "train_export" /\ u.dry = t.dry
    BY <1>1 DEF Worked, IsTask, Fields
  <2> HIDE DEF u
  <2>2. u.dry # FALSE
    BY <1>6, <2>1, Zenon
  <2>3. Harmless(Succeeded(u))
    BY <2>1, <2>2, DryEnds
  <2>4. Become(p, Succeeded(u))
    BY <1>6 DEF u
  <2> QED BY <1>2, <2>3, <2>4, GoesOn
<1>7. CASE Become(p, [t EXCEPT !.at = "manifest", !.todo = kept, !.seen = kept, !.copy = bad])
  <2>1. PICK new : new = [t EXCEPT !.at = "manifest", !.todo = kept, !.seen = kept, !.copy = bad]
    OBVIOUS
  <2>2. /\ Worked(new) /\ new.cmd = "train_export" /\ new.at = "manifest"
        /\ new.todo = kept /\ new.seen = kept /\ new.copy = bad
    BY <1>1, <2>1 DEF Worked, IsTask, Fields
  <2>3. JobOK(new)'
    <3>1. InExport(new)'
      BY <1>4, <2>2 DEF InExport
    <3>2. IsExport(new)
      BY <2>2 DEF IsExport
    <3> QED BY <3>1, <3>2, ExportOK
  <2> QED BY <1>2, <1>7, <2>1, <2>3, Becomes
<1> QED BY <1>3, <1>5, <1>6, <1>7

LEMMA ManifestKeeps ==
  ASSUME IInv, NEW p \in Procs, WriteManifest(p) PROVE IInv'
<1>0. PICK t : t = job[p]
  OBVIOUS
<1>1. /\ Worked(t) /\ t.cmd = "train_export" /\ t.at = "manifest"
      /\ t.copy \subseteq t.seen /\ t.todo = t.seen
  BY <1>0, AtWork DEF WriteManifest, At, JobOK, InExport
<1>2. PICK f : f = File("manifest", t.id, t.seen)
  OBVIOUS
<1>3. files' = files \cup {f} /\ UNCHANGED <<order, rows, issue, snap>>
      /\ Become(p, Wrote([t EXCEPT !.at = "rows"]))
  BY <1>0, <1>2 DEF WriteManifest, WritesFile
<1>4. StoreOK' /\ Grows
  <2>1. f.kind = "manifest"
    BY <1>2, FileIs
  <2>2. HasItsOwn(f)'
    BY <2>1 DEF HasItsOwn
  <2> QED BY <1>3, <2>2, FileAdded DEF IInv
<1>5. PICK new : new = Wrote([t EXCEPT !.at = "rows"])
  OBVIOUS
<1>6. /\ Worked(new) /\ new.cmd = "train_export" /\ new.at = "rows" /\ new.id = t.id
      /\ new.todo = t.todo /\ new.seen = t.seen /\ new.copy = t.copy
  BY <1>1, <1>5 DEF Wrote, Worked, IsTask, Fields
<1>7. InExport(new)'
  <2>1. RowsOf(new, new.seen \ new.todo) = {}
    BY <1>1, <1>6 DEF RowsOf
  <2> QED BY <1>1, <1>2, <1>3, <1>6, <2>1 DEF InExport
<1>8. JobOK(new)'
  BY <1>6, <1>7, ExportOK DEF IsExport
<1> QED BY <1>3, <1>4, <1>5, <1>8, Becomes

LEMMA TrainRowKeeps ==
  ASSUME IInv, NEW p \in Procs, WriteTrainRow(p) PROVE IInv'
<1>0. PICK t : t = job[p]
  OBVIOUS
<1>1. /\ Worked(t) /\ t.cmd = "train_export" /\ t.at = "rows"
      /\ t.copy \subseteq t.seen /\ File("manifest", t.id, t.seen) \in files
      /\ t.todo \subseteq t.seen /\ RowsOf(t, t.seen \ t.todo) \subseteq files
  BY <1>0, AtWork DEF WriteTrainRow, At, JobOK, InExport
<1>2. PICK b \in t.todo : /\ WritesFile(File("row", t.id, {b}))
                         /\ Become(p, [t EXCEPT !.todo = @ \ {b}])
  BY <1>0 DEF WriteTrainRow
<1>3. PICK f : f = File("row", t.id, {b})
  OBVIOUS
<1>4. files' = files \cup {f} /\ UNCHANGED <<order, rows, issue, snap>>
  BY <1>2, <1>3 DEF WritesFile
<1>5. StoreOK' /\ Grows
  <2>1. f.kind = "row" /\ f.id = t.id /\ f.of = {b}
    BY <1>3, FileIs
  <2>2. HasItsOwn(f)'
    <3>1. PICK m : m = File("manifest", t.id, t.seen)
      OBVIOUS
    <3>2. m \in files' /\ m.kind = "manifest" /\ m.id = f.id /\ f.of \subseteq m.of
      BY <1>1, <1>2, <1>4, <2>1, <3>1, FileIs
    <3> QED BY <2>1, <3>2 DEF HasItsOwn
  <2> QED BY <1>4, <2>2, FileAdded DEF IInv
<1>6. PICK new : new = [t EXCEPT !.todo = @ \ {b}]
  OBVIOUS
<1>7. /\ Worked(new) /\ new.cmd = "train_export" /\ new.at = "rows" /\ new.id = t.id
      /\ new.todo = t.todo \ {b} /\ new.seen = t.seen /\ new.copy = t.copy
  BY <1>1, <1>6 DEF Worked, IsTask, Fields
<1>8. InExport(new)'
  <2>1. RowsOf(new, new.seen \ new.todo) \subseteq files'
    <3>1. \A c \in new.seen \ new.todo : c = b \/ c \in t.seen \ t.todo
      BY <1>7
    <3> QED BY <1>1, <1>3, <1>4, <1>7, <3>1 DEF RowsOf
  <2> QED BY <1>1, <1>4, <1>7, <2>1 DEF InExport, RowsOf
<1>9. JobOK(new)'
  BY <1>7, <1>8, ExportOK DEF IsExport
<1> QED BY <1>2, <1>5, <1>6, <1>9, Becomes

LEMMA RowsWrittenKeeps ==
  ASSUME IInv, NEW p \in Procs, RowsWritten(p) PROVE IInv'
<1>0. PICK t : t = job[p]
  OBVIOUS
<1>1. /\ Worked(t) /\ t.cmd = "train_export" /\ t.at = "rows" /\ t.todo = {}
      /\ t.copy \subseteq t.seen /\ File("manifest", t.id, t.seen) \in files
      /\ RowsOf(t, t.seen \ t.todo) \subseteq files
  BY <1>0, AtWork DEF RowsWritten, At, JobOK, InExport
<1>2. StoreOK' /\ Grows /\ files' = files
  BY SameStore DEF RowsWritten, IInv, store
<1>3. PICK new : new = [t EXCEPT !.at = "vault", !.todo = t.copy]
  OBVIOUS
<1>4. /\ Worked(new) /\ new.cmd = "train_export" /\ new.at = "vault" /\ new.id = t.id
      /\ new.todo = t.copy /\ new.seen = t.seen /\ new.copy = t.copy
  BY <1>1, <1>3 DEF Worked, IsTask, Fields
<1>5. InExport(new)'
  <2>1. RowsOf(new, new.seen) \subseteq files'
    BY <1>1, <1>2, <1>4 DEF RowsOf
  <2>2. VaultOf(new, new.copy \ new.todo) \subseteq files'
    BY <1>4 DEF VaultOf
  <2> QED BY <1>1, <1>2, <1>4, <2>1, <2>2 DEF InExport, RowsOf, VaultOf
<1>6. JobOK(new)'
  BY <1>4, <1>5, ExportOK DEF IsExport
<1>7. Become(p, new)
  BY <1>0, <1>3 DEF RowsWritten
<1> QED BY <1>2, <1>6, <1>7, Becomes

LEMMA VaultKeeps ==
  ASSUME IInv, NEW p \in Procs, WriteVault(p) PROVE IInv'
<1>0. PICK t : t = job[p]
  OBVIOUS
<1>1. /\ Worked(t) /\ t.cmd = "train_export" /\ t.at = "vault"
      /\ t.copy \subseteq t.seen /\ File("manifest", t.id, t.seen) \in files
      /\ t.todo \subseteq t.copy /\ RowsOf(t, t.seen) \subseteq files
      /\ VaultOf(t, t.copy \ t.todo) \subseteq files
  BY <1>0, AtWork DEF WriteVault, At, JobOK, InExport
<1>2. CASE t.todo = {}
  <2>1. Become(p, Succeeded(t)) /\ UNCHANGED store
    BY <1>0, <1>2 DEF WriteVault
  <2>2. StoreOK' /\ Grows /\ files' = files
    BY <2>1, SameStore DEF IInv, store
  <2>3. PICK new : new = Succeeded(t)
    OBVIOUS
  <2>4. EndsAs(new, t, TRUE, 0)
    BY <1>1, <2>3, SucceededIs DEF Worked
  <2>5. /\ IsTask(new) /\ new.cmd = "train_export" /\ new.at = "done" /\ new.ok = TRUE
        /\ new.exit = 0 /\ new.id = t.id /\ new.seen = t.seen /\ new.copy = t.copy
        /\ new.dry = t.dry /\ new.wrote = t.wrote
    BY <1>1, <2>4 DEF EndsAs, SameTask
  <2>6. Named(new) \subseteq files'
    BY <1>1, <1>2, <2>2, <2>5 DEF Named, RowsOf, VaultOf
  <2>7. JobOK(new)'
    <3>1. IsDone(new)'
      BY <2>5, <2>6 DEF IsDone
    <3>2. InRun(new)' /\ InDiagnose(new)' /\ InTransition(new)' /\ InExport(new)'
          /\ InReplay(new)' /\ InTriage(new)'
      BY <2>5 DEF InRun, InDiagnose, InTransition, InExport, InReplay, InTriage
    <3> QED BY <1>1, <2>5, <3>1, <3>2 DEF JobOK, Worked
  <2> QED BY <2>1, <2>2, <2>3, <2>7, Becomes
<1>3. CASE t.todo # {}
  <2>1. PICK b \in t.todo : /\ WritesFile(File("vault", t.id, {b}))
                           /\ Become(p, [t EXCEPT !.todo = @ \ {b}])
    BY <1>0, <1>3 DEF WriteVault
  <2>2. PICK f : f = File("vault", t.id, {b})
    OBVIOUS
  <2>3. files' = files \cup {f} /\ UNCHANGED <<order, rows, issue, snap>>
    BY <2>1, <2>2 DEF WritesFile
  <2>4. StoreOK' /\ Grows
    <3>1. f.kind = "vault" /\ f.id = t.id /\ f.of = {b}
      BY <2>2, FileIs
    <3>2. File("row", f.id, f.of) \in files'
      BY <1>1, <2>1, <2>3, <3>1 DEF RowsOf
    <3>3. HasItsOwn(f)'
      BY <3>1, <3>2 DEF HasItsOwn
    <3> QED BY <2>3, <3>3, FileAdded DEF IInv
  <2>5. PICK new : new = [t EXCEPT !.todo = @ \ {b}]
    OBVIOUS
  <2>6. /\ Worked(new) /\ new.cmd = "train_export" /\ new.at = "vault" /\ new.id = t.id
        /\ new.todo = t.todo \ {b} /\ new.seen = t.seen /\ new.copy = t.copy
    BY <1>1, <2>5 DEF Worked, IsTask, Fields
  <2>7. InExport(new)'
    <3>1. VaultOf(new, new.copy \ new.todo) \subseteq files'
      <4>1. \A c \in new.copy \ new.todo : c = b \/ c \in t.copy \ t.todo
        BY <2>6
      <4> QED BY <1>1, <2>2, <2>3, <2>6, <4>1 DEF VaultOf
    <3>2. RowsOf(new, new.seen) \subseteq files'
      BY <1>1, <2>3, <2>6 DEF RowsOf
    <3> QED BY <1>1, <2>3, <2>6, <3>1, <3>2 DEF InExport, RowsOf, VaultOf
  <2>8. JobOK(new)'
    BY <2>6, <2>7, ExportOK DEF IsExport
  <2> QED BY <2>1, <2>4, <2>5, <2>8, Becomes
<1> QED BY <1>2, <1>3

(* A replay in the middle of its work.                                     *)
IsReplay(t) ==
  Worked(t) /\ t.cmd = "replay" /\ t.at \in {"bytes", "bundle", "compare", "recheck"}

LEMMA ReplayOK ==
  ASSUME NEW t, IsReplay(t), InReplay(t)' PROVE JobOK(t)'
<1>1. InRun(t)' /\ InDiagnose(t)' /\ InTransition(t)' /\ InExport(t)' /\ InTriage(t)'
      /\ IsDone(t)'
  BY DEF IsReplay, InRun, InDiagnose, InTransition, InExport, InTriage, IsDone
<1> QED BY <1>1 DEF IsReplay, JobOK, Worked

LEMMA ResolveKeeps ==
  ASSUME IInv, NEW p \in Procs, ReplayResolve(p) PROVE IInv'
<1>1. StoreOK' /\ Grows
  BY SameStore DEF ReplayResolve, IInv, store
<1> DEFINE g == Task("replay", "bytes")
<1>2. \E dry \in BOOLEAN : \E exp, copy :
        \/ Start(p, Failed([g EXCEPT !.dry = dry], 4))
        \/ Start(p, Failed([g EXCEPT !.dry = dry], 2))
        \/ Start(p, [[g EXCEPT !.dry = dry] EXCEPT !.exp = exp, !.copy = copy])
  <2>1. PICK exp \in Exps \cup {None}, case \in Cases \cup {None}, b \in Bundles \cup {None},
             dry \in BOOLEAN :
          LET broken == b = None /\ ReplayCase(exp, case) = Broken
              source == ReplaySource(exp, case, b)
              found  == /\ source # None /\ bundle[source] # None
                        /\ bundle[source].shape \in {"sound", "invalid"}
              task   == [g EXCEPT !.dry = dry] IN
          /\ b # None => exp = None /\ case = None
          /\ Start(p, IF broken THEN Failed(task, 4)
                      ELSE IF ~ found THEN Failed(task, 2)
                      ELSE [task EXCEPT !.exp = source, !.copy = bundle[source]])
          /\ UNCHANGED store
    BY Zenon DEF ReplayResolve
  <2> HIDE DEF g
  <2>2. PICK source, copy : source = ReplaySource(exp, case, b) /\ copy = bundle[source]
    OBVIOUS
  <2>3. \/ Start(p, Failed([g EXCEPT !.dry = dry], 4))
        \/ Start(p, Failed([g EXCEPT !.dry = dry], 2))
        \/ Start(p, [[g EXCEPT !.dry = dry] EXCEPT !.exp = source, !.copy = copy])
    BY <2>1, <2>2
  <2> QED BY <2>3
<1>3. IsNew(g, "replay", "bytes") /\ Fresh(g)
  BY TaskIs, FreshTask
<1> HIDE DEF g
<1>4. PICK dry \in BOOLEAN : \E exp, copy :
        \/ Start(p, Failed([g EXCEPT !.dry = dry], 4))
        \/ Start(p, Failed([g EXCEPT !.dry = dry], 2))
        \/ Start(p, [[g EXCEPT !.dry = dry] EXCEPT !.exp = exp, !.copy = copy])
  BY <1>2
<1> DEFINE task == [g EXCEPT !.dry = dry]
<1>5. PICK exp, copy : \/ Start(p, Failed(task, 4)) \/ Start(p, Failed(task, 2))
                       \/ Start(p, [task EXCEPT !.exp = exp, !.copy = copy])
  BY <1>4
<1>6. Fresh(task) /\ task.cmd = "replay" /\ task.at = "bytes"
  BY <1>3 DEF IsNew, Fresh, IsTask, Fields
<1> HIDE DEF task
<1>7. CASE Start(p, Failed(task, 4)) \/ Start(p, Failed(task, 2))
  BY <1>1, <1>6, <1>7, FreshFails, StartsHarmlessly DEF IInv
<1>8. CASE Start(p, [task EXCEPT !.exp = exp, !.copy = copy])
  <2>1. PICK new : new = [task EXCEPT !.exp = exp, !.copy = copy]
    OBVIOUS
  <2>2. Worked(new) /\ new.cmd = "replay" /\ new.at = "bytes"
    BY <1>6, <2>1 DEF Fresh, Worked, IsTask, Fields
  <2>3. InReplay(new)'
    BY <2>2 DEF InReplay
  <2>4. JobOK(new)'
    BY <2>2, <2>3, ReplayOK DEF IsReplay
  <2> QED BY <1>1, <1>8, <2>1, <2>4, Begun
<1> QED BY <1>5, <1>7, <1>8

LEMMA BytesKeeps ==
  ASSUME IInv, NEW p \in Procs, ReplayBytes(p) PROVE IInv'
<1>0. PICK t : t = job[p]
  OBVIOUS
<1>1. Worked(t) /\ t.cmd = "replay" /\ t.at = "bytes"
  BY <1>0, AtWork DEF ReplayBytes, At
<1>2. StoreOK' /\ Grows
  BY SameStore DEF ReplayBytes, IInv, store
<1>3. PICK bytes : bytes = bundle[t.exp]
  OBVIOUS
<1>4. \/ Become(p, Crashed(t)) \/ Become(p, Failed(t, 4))
      \/ t.dry /\ Become(p, Succeeded(t))
      \/ Become(p, [t EXCEPT !.at = "bundle", !.base = bytes])
  BY <1>0, <1>3 DEF ReplayBytes
<1>5. CASE Become(p, Crashed(t)) \/ Become(p, Failed(t, 4))
  BY <1>1, <1>2, <1>5, WorkedEnds, GoesOn
<1>6. CASE t.dry /\ Become(p, Succeeded(t))
  <2>1. t.dry # FALSE
    BY <1>6, Zenon
  <2>2. Harmless(Succeeded(t))
    BY <1>1, <2>1, DryEnds
  <2> QED BY <1>2, <1>6, <2>2, GoesOn
<1>7. CASE Become(p, [t EXCEPT !.at = "bundle", !.base = bytes])
  <2>1. PICK new : new = [t EXCEPT !.at = "bundle", !.base = bytes]
    OBVIOUS
  <2>2. Worked(new) /\ new.cmd = "replay" /\ new.at = "bundle"
    BY <1>1, <2>1 DEF Worked, IsTask, Fields
  <2>3. InReplay(new)'
    BY <2>2 DEF InReplay
  <2>4. JobOK(new)'
    BY <2>2, <2>3, ReplayOK DEF IsReplay
  <2> QED BY <1>2, <1>7, <2>1, <2>4, Becomes
<1> QED BY <1>4, <1>5, <1>6, <1>7

LEMMA WriteBundleKeeps ==
  ASSUME IInv, NEW p \in Procs, ReplayWriteBundle(p) PROVE IInv'
<1>0. PICK t : t = job[p]
  OBVIOUS
<1>1. Worked(t) /\ t.cmd = "replay" /\ t.at = "bundle"
  BY <1>0, AtWork DEF ReplayWriteBundle, At
<1>2. PICK f : f = File("replay_bundle", t.id, {t.exp})
  OBVIOUS
<1>3. files' = files \cup {f} /\ UNCHANGED <<order, rows, issue, snap>>
      /\ Become(p, Wrote([t EXCEPT !.at = "compare"]))
  BY <1>0, <1>2 DEF ReplayWriteBundle, WritesFile
<1>4. StoreOK' /\ Grows
  <2>1. f.kind = "replay_bundle"
    BY <1>2, FileIs
  <2>2. HasItsOwn(f)'
    BY <2>1 DEF HasItsOwn
  <2> QED BY <1>3, <2>2, FileAdded DEF IInv
<1>5. PICK new : new = Wrote([t EXCEPT !.at = "compare"])
  OBVIOUS
<1>6. /\ Worked(new) /\ new.cmd = "replay" /\ new.at = "compare" /\ new.id = t.id
      /\ new.exp = t.exp
  BY <1>1, <1>5 DEF Wrote, Worked, IsTask, Fields
<1>7. InReplay(new)'
  BY <1>2, <1>3, <1>6 DEF InReplay
<1>8. JobOK(new)'
  BY <1>6, <1>7, ReplayOK DEF IsReplay
<1> QED BY <1>3, <1>4, <1>5, <1>8, Becomes

LEMMA WriteCompareKeeps ==
  ASSUME IInv, NEW p \in Procs, ReplayWriteCompare(p) PROVE IInv'
<1>0. PICK t : t = job[p]
  OBVIOUS
<1>1. /\ Worked(t) /\ t.cmd = "replay" /\ t.at = "compare"
      /\ File("replay_bundle", t.id, {t.exp}) \in files
  BY <1>0, AtWork DEF ReplayWriteCompare, At, JobOK, InReplay
<1>2. PICK f : f = File("compare", t.id, {t.exp})
  OBVIOUS
<1>3. files' = files \cup {f} /\ UNCHANGED <<order, rows, issue, snap>>
      /\ Become(p, [t EXCEPT !.at = "recheck"])
  BY <1>0, <1>2 DEF ReplayWriteCompare, WritesFile
<1>4. StoreOK' /\ Grows
  <2>1. f.kind = "compare" /\ f.id = t.id /\ f.of = {t.exp}
    BY <1>2, FileIs
  <2>2. HasItsOwn(f)'
    BY <1>1, <1>3, <2>1 DEF HasItsOwn
  <2> QED BY <1>3, <2>2, FileAdded DEF IInv
<1>5. PICK new : new = [t EXCEPT !.at = "recheck"]
  OBVIOUS
<1>6. /\ Worked(new) /\ new.cmd = "replay" /\ new.at = "recheck" /\ new.id = t.id
      /\ new.exp = t.exp
  BY <1>1, <1>5 DEF Worked, IsTask, Fields
<1>7. InReplay(new)'
  BY <1>1, <1>2, <1>3, <1>6 DEF InReplay
<1>8. JobOK(new)'
  BY <1>6, <1>7, ReplayOK DEF IsReplay
<1> QED BY <1>3, <1>4, <1>5, <1>8, Becomes

LEMMA RecheckKeeps ==
  ASSUME IInv, NEW p \in Procs, ReplayRecheck(p) PROVE IInv'
<1>0. PICK t : t = job[p]
  OBVIOUS
<1>1. /\ Worked(t) /\ t.cmd = "replay" /\ t.at = "recheck"
      /\ File("replay_bundle", t.id, {t.exp}) \in files
      /\ File("compare", t.id, {t.exp}) \in files
  BY <1>0, AtWork DEF ReplayRecheck, At, JobOK, InReplay
<1>2. StoreOK' /\ Grows /\ files' = files
  BY SameStore DEF ReplayRecheck, IInv, store
<1>3. Become(p, Crashed(t)) \/ Become(p, Failed(t, 4)) \/ Become(p, Succeeded(t))
  BY <1>0 DEF ReplayRecheck
<1>4. CASE Become(p, Crashed(t)) \/ Become(p, Failed(t, 4))
  BY <1>1, <1>2, <1>4, WorkedEnds, GoesOn
<1>5. CASE Become(p, Succeeded(t))
  <2>1. PICK new : new = Succeeded(t)
    OBVIOUS
  <2>2. EndsAs(new, t, TRUE, 0)
    BY <1>1, <2>1, SucceededIs DEF Worked
  <2>3. /\ IsTask(new) /\ new.cmd = "replay" /\ new.at = "done" /\ new.ok = TRUE
        /\ new.exit = 0 /\ new.id = t.id /\ new.exp = t.exp
        /\ new.dry = t.dry /\ new.wrote = t.wrote
    BY <1>1, <2>2 DEF EndsAs, SameTask
  <2>4. Named(new) \subseteq files'
    BY <1>1, <1>2, <2>3 DEF Named
  <2>5. JobOK(new)'
    <3>1. IsDone(new)'
      BY <2>3, <2>4 DEF IsDone
    <3>2. InRun(new)' /\ InDiagnose(new)' /\ InTransition(new)' /\ InExport(new)'
          /\ InReplay(new)' /\ InTriage(new)'
      BY <2>3 DEF InRun, InDiagnose, InTransition, InExport, InReplay, InTriage
    <3> QED BY <1>1, <2>3, <3>1, <3>2 DEF JobOK, Worked
  <2> QED BY <1>2, <1>5, <2>1, <2>5, Becomes
<1> QED BY <1>3, <1>4, <1>5
-----------------------------------------------------------------------------
(* The invariant is inductive.                                             *)
LEMMA InitIInv == Init => IInv
<1> SUFFICES ASSUME Init PROVE IInv
  OBVIOUS
<1>1. PICK s \in Stores : /\ order = s.order /\ rows = s.rows /\ issue = s.issue
                          /\ snap = s.snap
  BY DEF Init
<1>2. StoreOK
  BY <1>1, StoresAssumption DEF Init, StoreOK, FilesHaveTheirs
<1>3. JobsTyped /\ JobsOK
  BY DEF Init, JobsTyped, JobsOK
<1> QED BY <1>2, <1>3 DEF IInv

LEMMA DiagnosticsKeep ==
  ASSUME IInv, NEW p \in Procs, DiagnosticsStarts(p) \/ DiagnosticsSteps(p) PROVE IInv'
BY ExplainReads, FailuresReads, CompareReads, DiagnoseReadKeeps, TransitionReadKeeps, IssuesRead,
   TriageStartKeeps, DoctorReads, DiagnoseFindKeeps, WriteRowKeeps, SnapshotKeeps,
   TransitionWriteKeeps, TriageFailuresKeeps, TriageExplainKeeps
   DEF DiagnosticsStarts, DiagnosticsSteps

LEMMA RetentionKeeps ==
  ASSUME IInv, NEW p \in Procs, RetentionStarts(p) \/ RetentionSteps(p) PROVE IInv'
BY ExportStartKeeps, ResolveKeeps, AmendBriefKeeps, DogfoodKeeps, ExportReadKeeps, ManifestKeeps,
   TrainRowKeeps, RowsWrittenKeeps, VaultKeeps, BytesKeeps, WriteBundleKeeps, WriteCompareKeeps,
   RecheckKeeps
   DEF RetentionStarts, RetentionSteps

LEMMA NextIInv == IInv /\ [Next]_vars => IInv'
<1> SUFFICES ASSUME IInv, [Next]_vars PROVE IInv'
  OBVIOUS
<1>1. ASSUME NEW p \in Procs, Return(p) PROVE IInv'
  BY <1>1, LeavesKeep
<1>2. ASSUME NEW p \in Procs, Starts(p) PROVE IInv'
  <2>1. ASSUME BeginRun(p) \/ Recompute(p) PROVE IInv'
    <3>1. CASE BeginRun(p)
      <4>1. PICK e \in Exps : Begins(p, "run", e, None)
        BY <3>1 DEF BeginRun
      <4>2. "run" \in {"run", "recompute"}
        OBVIOUS
      <4> QED BY <4>1, <4>2, BeginsKeeps
    <3>2. CASE Recompute(p)
      <4>1. PICK e \in Exps, from \in Range(order) : Begins(p, "recompute", e, from)
        BY <3>2 DEF Recompute
      <4>2. "recompute" \in {"run", "recompute"}
        OBVIOUS
      <4> QED BY <4>1, <4>2, BeginsKeeps
    <3> QED BY <2>1, <3>1, <3>2
  <2> QED BY <1>2, <2>1, ResumeKeeps, RefusedRuns, DiagnosticsKeep, RetentionKeeps, GcKeeps,
             HandlersAnswer, PromoteKeeps DEF Starts
<1>3. ASSUME NEW p \in Procs, Steps(p) PROVE IInv'
  BY <1>3, ScoreKeeps, FinishKeeps, AbortKeeps, DiagnosticsKeep, RetentionKeeps, LeavesKeep
     DEF Steps
<1>4. ASSUME NEW b \in Bundles, Rebind(b) PROVE IInv'
  BY <1>4, RebindKeeps
<1>5. CASE UNCHANGED vars
  <2>1. StoreOK' /\ Grows /\ UNCHANGED <<job, spent>>
    BY <1>5, SameStore DEF IInv, vars
  <2>2. JobsTyped'
    BY <2>1 DEF IInv, JobsTyped
  <2>3. ASSUME NEW q \in Procs, NEW t \in {job'[q]}, t # None PROVE JobOK(t)'
    <3>1. JobOK(t)
      BY <2>1, <2>3 DEF IInv, JobsOK
    <3> QED BY <2>1, <3>1, StillOK
  <2> QED BY <2>1, <2>2, <2>3 DEF IInv, JobsOK
<1> QED BY <1>1, <1>2, <1>3, <1>4, <1>5 DEF Next

THEOREM StoresStaySound == Spec => []IInv
<1> QED BY InitIInv, NextIInv, PTL DEF Spec
-----------------------------------------------------------------------------
(* What a script concludes from a finished command is so, whatever else    *)
(* ran meanwhile and wherever another command was killed.                  *)
THEOREM VerdictsTellTheTruth == Spec => []VerdictTellsTruth
<1>1. IInv => VerdictTellsTruth
  <2> SUFFICES ASSUME IInv, NEW p \in Procs, Ends(p), NEW t, t = job[p]
               PROVE  /\ (t.ok = TRUE) <=> (t.exit = 0)
                      /\ t.exit = 2 /\ t.cmd # "promote" => ~ t.wrote
                      /\ t.exit = 0 /\ ~ t.dry => Named(t) \subseteq files
                      /\ t.cmd = "diagnose" /\ t.exit = 0 /\ ~ t.dry =>
                           issue[t.base] # None /\ snap[t.base] # None
    BY DEF VerdictTellsTruth
  <2>1. JobOK(t) /\ t.at = "done"
    BY AtWork DEF Ends
  <2>2. IsDone(t) /\ t.dry \in BOOLEAN /\ t.wrote \in BOOLEAN
    BY <2>1 DEF JobOK
  <2>3. (~ t.dry => t.dry = FALSE) /\ (t.wrote = FALSE => ~ t.wrote)
    BY <2>2
  <2> QED BY <2>1, <2>2, <2>3, Zenon DEF IsDone
<1> QED BY <1>1, StoresStaySound, PTL

(* Wherever a command was killed, no file refers to one that is not there. *)
THEOREM FilesNeverDangle == Spec => []NothingDangles
<1>1. IInv => NothingDangles
  BY DEF IInv, StoreOK, FilesHaveTheirs, HasItsOwn, NothingDangles
<1> QED BY <1>1, StoresStaySound, PTL

(* A triage that explains the case it has found to be the only failure     *)
(* explains it in the experiment in which it found it.                     *)
THEOREM TriageStaysInOneRun == Spec => []TriageSpeaksOfOneRun
<1>1. IInv => TriageSpeaksOfOneRun
  <2> SUFFICES ASSUME IInv, NEW p \in Procs, Ends(p), job[p].cmd = "triage"
               PROVE  OneRun(job[p].seen)
    BY DEF TriageSpeaksOfOneRun, OneRun
  <2>1. JobOK(job[p]) /\ job[p].at = "done"
    BY AtWork DEF Ends
  <2> QED BY <2>1 DEF JobOK, IsDone
<1> QED BY <1>1, StoresStaySound, PTL

(* An issue is written by two steps only.                                  *)
LEMMA OtherStepsLeaveIssues ==
  ASSUME [Next]_vars
  PROVE  \/ UNCHANGED issue
         \/ \E p \in Procs : DiagnoseWriteRow(p) \/ TransitionWrite(p)
<1>1. ASSUME NEW p \in Procs, Starts(p) PROVE UNCHANGED issue
  <2>1. DiagnosticsStarts(p) => UNCHANGED issue
    BY DEF DiagnosticsStarts, ExplainCmd, FailuresCmd, CompareCmd, DiagnoseRead, TransitionRead,
           IssueListCmd, IssueShowCmd, TriageDoctor, DoctorCmd, store
  <2>2. RetentionStarts(p) => UNCHANGED issue
    BY DEF RetentionStarts, TrainExportStart, ReplayResolve, AmendBriefCmd, DogfoodCmd, WritesFile,
           store
  <2>3. BeginRun(p) \/ Recompute(p) \/ ResumeRun(p) \/ RefuseRun(p) => UNCHANGED issue
    BY DEF BeginRun, Recompute, Begins, ResumeRun, RefuseRun, store
  <2>4. GcCmd(p) \/ ReviewCmd(p) \/ ExportCmd(p) \/ ShowCmd(p) \/ PromoteCmd(p) => UNCHANGED issue
    BY DEF GcCmd, ReviewCmd, ExportCmd, ShowCmd, PromoteCmd, store
  <2> QED BY <1>1, <2>1, <2>2, <2>3, <2>4 DEF Starts
<1>2. ASSUME NEW p \in Procs, Steps(p)
      PROVE  UNCHANGED issue \/ DiagnoseWriteRow(p) \/ TransitionWrite(p)
  <2>1. RetentionSteps(p) => UNCHANGED issue
    BY DEF RetentionSteps, TrainExportRead, WriteManifest, WriteTrainRow, RowsWritten, WriteVault,
           ReplayBytes, ReplayWriteBundle, ReplayWriteCompare, ReplayRecheck, WritesFile, store
  <2>2. DiagnosticsSteps(p) => UNCHANGED issue \/ DiagnoseWriteRow(p) \/ TransitionWrite(p)
    BY DEF DiagnosticsSteps, DiagnoseFind, DiagnoseWriteSnapshot, TriageFailures, TriageExplain,
           store
  <2>3. ScoreCase(p) \/ FinishRun(p) \/ AbortRun(p) \/ Die(p) => UNCHANGED issue
    BY DEF ScoreCase, FinishRun, AbortRun, Die, store
  <2> QED BY <1>2, <2>1, <2>2, <2>3 DEF Steps
<1>3. ASSUME NEW p \in Procs, Return(p) PROVE UNCHANGED issue
  BY <1>3 DEF Return, store
<1>4. ASSUME NEW b \in Bundles, Rebind(b) PROVE UNCHANGED issue
  BY <1>4 DEF Rebind
<1>5. UNCHANGED vars => UNCHANGED issue
  BY DEF vars
<1> QED BY <1>1, <1>2, <1>3, <1>4, <1>5 DEF Next

(* As long as nobody writes a row from a copy that another command has     *)
(* overtaken, issues move along the closed matrix and lose nothing.        *)
THEOREM IssuesMoveByTheMatrix == Spec => IssueMovesByTheMatrix
<1> DEFINE Moves ==
      \A f \in Fingerprints :
        issue[f] \notin {None, Broken} /\ ~ Overtaken(f) => Follows(issue[f], issue'[f])
<1>1. ASSUME IInv, [Next]_vars PROVE Moves
  <2> SUFFICES ASSUME NEW f \in Fingerprints, issue[f] \notin {None, Broken}, ~ Overtaken(f)
               PROVE  Follows(issue[f], issue'[f])
    OBVIOUS
  <2>1. issue[f] \in IssueRows
    BY <1>1, IssueTyped DEF IInv
  <2>2. Follows(issue[f], issue[f])
    BY <2>1 DEF IssueRows, Follows
  <2>3. ASSUME NEW p \in Procs, NEW t, t = job[p], NEW copy, copy = t.copy,
               At(p, "diagnose", "row") \/ At(p, "transition", "write"),
               FollowsSeen(t), t.base \in Fingerprints, job'[p] # job[p],
               issue' = [issue EXCEPT ![t.base] = copy]
        PROVE  Follows(issue[f], issue'[f])
    <3>1. CASE t.base = f
      <4>1. t.seen = {issue[f]}
        BY <2>3, <3>1 DEF Overtaken
      <4>2. Follows(issue[f], copy)
        BY <2>1, <2>3, <4>1 DEF FollowsSeen
      <4>3. issue'[f] = copy
        BY <1>1, <2>3, <3>1 DEF IInv, StoreOK
      <4> QED BY <4>2, <4>3
    <3>2. CASE t.base # f
      <4>1. issue'[f] = issue[f]
        BY <1>1, <2>3, <3>2 DEF IInv, StoreOK
      <4> QED BY <2>2, <4>1
    <3> QED BY <3>1, <3>2
  <2>4. ASSUME NEW p \in Procs, DiagnoseWriteRow(p) PROVE Follows(issue[f], issue'[f])
    <3>1. PICK t : t = job[p]
      OBVIOUS
    <3>2. Worked(t) /\ t.at = "row" /\ FollowsSeen(t) /\ t.base \in Fingerprints
      BY <1>1, <2>4, <3>1, AtWork DEF DiagnoseWriteRow, At, JobOK, InDiagnose
    <3>3. PICK new : new = Wrote([t EXCEPT !.at = "snapshot"])
      OBVIOUS
    <3>4. new.at = "snapshot"
      BY <3>2, <3>3 DEF Wrote, Worked, IsTask, Fields
    <3>5. job'[p] = new
      BY <1>1, <2>4, <3>1, <3>3 DEF DiagnoseWriteRow, Become, IInv, JobsTyped
    <3>6. job'[p] # job[p]
      BY <3>1, <3>2, <3>4, <3>5
    <3>7. issue' = [issue EXCEPT ![t.base] = t.copy] /\ At(p, "diagnose", "row")
      BY <2>4, <3>1 DEF DiagnoseWriteRow
    <3> QED BY <2>3, <3>1, <3>2, <3>6, <3>7
  <2>5. ASSUME NEW p \in Procs, TransitionWrite(p) PROVE Follows(issue[f], issue'[f])
    <3>1. PICK t : t = job[p]
      OBVIOUS
    <3>2. Worked(t) /\ t.at = "write" /\ FollowsSeen(t) /\ t.base \in Fingerprints
      BY <1>1, <2>5, <3>1, AtWork DEF TransitionWrite, At, JobOK, InTransition
    <3>3. PICK new : new = Succeeded(Wrote(t))
      OBVIOUS
    <3>4. new.at = "done"
      BY <3>2, <3>3, WroteIs, SucceededIs DEF Worked, EndsAs
    <3>5. job'[p] = new
      BY <1>1, <2>5, <3>1, <3>3 DEF TransitionWrite, Become, IInv, JobsTyped
    <3>6. job'[p] # job[p]
      BY <3>1, <3>2, <3>4, <3>5
    <3>7. issue' = [issue EXCEPT ![t.base] = t.copy] /\ At(p, "transition", "write")
      BY <2>5, <3>1 DEF TransitionWrite
    <3> QED BY <2>3, <3>1, <3>2, <3>6, <3>7
  <2>6. CASE UNCHANGED issue
    BY <2>2, <2>6
  <2> QED BY <1>1, <2>4, <2>5, <2>6, OtherStepsLeaveIssues
<1>2. IInv /\ [Next]_vars => [Moves]_vars
  BY <1>1
<1>3. Spec => [][Moves]_vars
  BY <1>2, StoresStaySound, PTL DEF Spec
<1> QED BY <1>3 DEF IssueMovesByTheMatrix
=============================================================================
