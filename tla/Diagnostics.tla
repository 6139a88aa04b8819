----------------------------- MODULE Diagnostics -----------------------------
(***************************************************************************)
(* Looking at what a run has left: explain, failures, compare and triage   *)
(* read the rows of an experiment (explain.py, triage.py); diagnose turns  *)
(* its failures into one row of the issue store and a snapshot, and        *)
(* resolve, reopen and suppress move that row (diagnose.py).  Both read    *)
(* the row, think, and write all of it back.                               *)
(***************************************************************************)
EXTENDS EvalStore

CONSTANTS DoctorWorlds,  \* states of pins, suite, prompt pack and checkpoints
          Filters        \* filters of failures: sets of metrics, or None

OPEN == "open"
ACKNOWLEDGED == "acknowledged"
RESOLVED == "resolved"
SUPPRESSED == "suppressed"
REOPENED == "reopened"

TRANSITIONS ==
  [s \in {OPEN, ACKNOWLEDGED, RESOLVED, SUPPRESSED, REOPENED} |->
     CASE s = OPEN         -> {ACKNOWLEDGED, RESOLVED, SUPPRESSED}
       [] s = ACKNOWLEDGED -> {RESOLVED, SUPPRESSED, REOPENED}
       [] s = REOPENED     -> {ACKNOWLEDGED, RESOLVED, SUPPRESSED}
       [] OTHER            -> {REOPENED}]

(* There is no command that acknowledges.                                  *)
Targets == {RESOLVED, REOPENED, SUPPRESSED}

IssueRow(status, count, cases, evidence, notes) ==
  [status |-> status, count |-> count, cases |-> cases, evidence |-> evidence,
   notes |-> notes]

IssueRows ==
  [status : DOMAIN TRANSITIONS, count : Nat, cases : SUBSET Cases, evidence : BOOLEAN,
   notes : SUBSET {"operator", "reason"}]

ASSUME IssueAssumption == {None, Broken} \cap IssueRows = {}
-----------------------------------------------------------------------------
(* One-step readers: what they read is one experiment's rows.              *)
Selections == (Exps \cup {None}) \X (Cases \cup {None})

ExplainCmd(p) ==
  \E s \in Selections :
    LET found == Resolved(s[1], s[2])
        lost  == found.exit = 0 /\ ~ Exists(found.exp)
        task  == [Task("explain", "start") EXCEPT
                    !.seen = IF found.exit = 0 /\ ~ lost
                             THEN {ExplainOne(rows[found.exp], c) : c \in found.cases}
                             ELSE {}] IN
    /\ Start(p, IF found.exit # 0 THEN Failed(task, found.exit)
                ELSE IF lost THEN Failed(task, 2) ELSE Succeeded(task))
    /\ UNCHANGED store

(* With nothing there at all, there are no failures; an empty filter is    *)
(* refused.                                                                *)
FailuresOf(e, filter) == IF e = None THEN {} ELSE ListFailures(ResultsOf(e), filter)

FailuresCmd(p) ==
  \/ Start(p, Failed(Task("failures", "start"), 2)) /\ UNCHANGED store
  \/ \E exp \in Exps \cup {None}, filter \in Filters :
       LET e == IF exp = None THEN Newest ELSE exp
           task == Task("failures", "start") IN
       /\ Start(p, IF e # None /\ Unreadable(ResultsOf(e)) THEN Failed(task, 4)
                   ELSE Succeeded([task EXCEPT !.seen = FailuresOf(e, filter)]))
       /\ UNCHANGED store

Linked(a, b) == parent[a] = b \/ parent[b] = a

CompareCmd(p) ==
  \E a, b \in Exps, ca, cb \in Cases :
    LET exits == {Resolved(a, ca).exit, Resolved(b, cb).exit}
        task  == Task("compare", "start") IN
    /\ Start(p, IF exits = {0}
                THEN Succeeded([task EXCEPT
                       !.seen = {Compare(rows[a][ca], rows[b][cb], Linked(a, b))}])
                ELSE Failed(task, IF Resolved(a, ca).exit # 0 THEN Resolved(a, ca).exit
                                  ELSE Resolved(b, cb).exit))
    /\ UNCHANGED store
-----------------------------------------------------------------------------
(* diagnose: the experiment's failing cases, together, are one issue.      *)
DiagnoseRead(p) ==
  \E s \in Selections, dry \in BOOLEAN, note \in BOOLEAN :
    LET found   == Resolved(s[1], s[2])
        failing == IF found.exit = 0
                   THEN found.cases \cap FailingCases(ResultsOf(found.exp)) ELSE {}
        task    == [Task("diagnose", "find") EXCEPT !.dry = dry] IN
    /\ Start(p, IF found.exit # 0 THEN Failed(task, found.exit)
                ELSE IF failing = {} THEN Failed(task, 2)
                ELSE [task EXCEPT
                       !.base = ComputeFingerprint(ResultsOf(found.exp), found.cases),
                       !.todo = IF note THEN {"note"} ELSE {},
                       !.seen = failing])
    /\ UNCHANGED store

(* The rows of the store are read until one fits; a broken one on the way  *)
(* is an error, whether it is on the way depends on its name.              *)
BrokenIssues == {f \in Fingerprints : issue[f] = Broken}

(* As if an issue that occurs again were open again.                       *)
Occurred_Reopens(old, cases, note) ==
  [old EXCEPT !.status = OPEN, !.count = @ + 1, !.cases = @ \cup cases]

Occurred(old, cases, note) ==
  [old EXCEPT !.count = @ + 1, !.cases = @ \cup cases,
              !.notes = IF note THEN {"operator"} ELSE @]

Upserted(f, cases, note) ==
  IF issue[f] = None
  THEN IssueRow(OPEN, 1, cases, FALSE, IF note THEN {"operator"} ELSE {})
  ELSE Occurred(issue[f], cases, note)

DiagnoseFind(p) ==
  /\ At(p, "diagnose", "find")
  /\ LET t == job[p]
         next == [t EXCEPT !.at = "row", !.todo = {}, !.seen = {issue[t.base]}] IN
     \/ /\ BrokenIssues # {}
        /\ Become(p, Failed(t, 4))
     \/ /\ issue[t.base] # Broken
        /\ BrokenIssues = {} \/ issue[t.base] # None
        /\ LET new == Upserted(t.base, t.seen, "note" \in t.todo) IN
           Become(p, IF t.dry THEN Succeeded([next EXCEPT !.copy = new])
                     ELSE [next EXCEPT !.copy = new])
  /\ UNCHANGED store

(* As if the snapshot were left to the next occurrence.                     *)
DiagnoseWriteRow_NoSnapshot(p) ==
  /\ At(p, "diagnose", "row")
  /\ issue' = [issue EXCEPT ![job[p].base] = job[p].copy]
  /\ Become(p, Succeeded(Wrote(job[p])))
  /\ UNCHANGED <<order, rows, parent, bundle, snap, files, desk>>

DiagnoseWriteRow(p) ==
  /\ At(p, "diagnose", "row")
  /\ issue' = [issue EXCEPT ![job[p].base] = job[p].copy]
  /\ Become(p, Wrote([job[p] EXCEPT !.at = "snapshot"]))
  /\ UNCHANGED <<order, rows, parent, bundle, snap, files, desk>>

DiagnoseWriteSnapshot(p) ==
  /\ At(p, "diagnose", "snapshot")
  /\ snap' = [snap EXCEPT ![job[p].base] = job[p].copy.count]
  /\ Become(p, Succeeded(job[p]))
  /\ UNCHANGED <<order, rows, parent, bundle, issue, files, desk>>
-----------------------------------------------------------------------------
(* transition_issue: `given` says whether the evidence that resolving, or  *)
(* the reason that suppressing asks for, was given.                        *)
RequiresArgs(target) == target \in {RESOLVED, SUPPRESSED}

Moved(old, target, given) ==
  [old EXCEPT !.status = target,
     !.evidence = IF target = RESOLVED /\ given THEN TRUE ELSE @,
     !.notes = IF target = SUPPRESSED /\ given THEN @ \cup {"reason"} ELSE @]

TransitionRead(p) ==
  \E f \in Fingerprints, target \in Targets, given \in BOOLEAN :
    LET row  == issue[f]
        task == [Task("transition", "write") EXCEPT !.base = f]
        bare == RequiresArgs(target) /\ ~ given IN
    /\ Start(p, IF row = None THEN Failed(task, 2)
                ELSE IF row = Broken THEN Failed(task, 4)
                ELSE IF bare THEN Failed(task, 2)
                ELSE IF row.status = target THEN Succeeded(task)
                ELSE IF target \notin TRANSITIONS[row.status] THEN Failed(task, 2)
                ELSE [task EXCEPT !.copy = Moved(row, target, given), !.seen = {row}])
    /\ UNCHANGED store

TransitionWrite(p) ==
  /\ At(p, "transition", "write")
  /\ issue' = [issue EXCEPT ![job[p].base] = job[p].copy]
  /\ Become(p, Succeeded(Wrote(job[p])))
  /\ UNCHANGED <<order, rows, parent, bundle, snap, files, desk>>

IssueListCmd(p) ==
  \E status \in DOMAIN TRANSITIONS \cup {None} :
    LET task == Task("issue_list", "start") IN
    /\ Start(p, IF BrokenIssues # {} THEN Failed(task, 4)
                ELSE Succeeded([task EXCEPT
                       !.seen = {f \in Fingerprints : issue[f] # None
                                   /\ (status = None \/ issue[f].status = status)}]))
    /\ UNCHANGED store

IssueShowCmd(p) ==
  \E f \in Fingerprints :
    LET task == Task("issue_show", "start") IN
    /\ Start(p, IF issue[f] = None THEN Failed(task, 2)
                ELSE IF issue[f] = Broken THEN Failed(task, 4)
                ELSE Succeeded([task EXCEPT !.seen = {f}]))
    /\ UNCHANGED store
-----------------------------------------------------------------------------
(* triage: the doctor, the failures, and an explanation of the one that    *)
(* failed, each reading the store for itself.  A case that is given is     *)
(* explained in the experiment that is given, or in the newest.  What the  *)
(* doctor found counts only in the end and is chosen there; skipping it is *)
(* as good as a green one, and skipping everything is refused.             *)
Outcomes == {LET r == LocalDoctor(w) IN [green |-> r.green, exit |-> r.exit] : w \in DoctorWorlds}

TriageDoctor(p) ==
  \/ Start(p, Failed(Task("triage", "start"), 2)) /\ UNCHANGED store
  \/ \E s \in Selections, parts \in SUBSET {"failures", "explain"} :
       /\ Start(p, [Task("triage", IF "failures" \in parts THEN "failures" ELSE "explain")
                     EXCEPT !.exp = s[1], !.base = s[2], !.todo = parts])
       /\ UNCHANGED store

TriageEnds(t) == {Ended([t EXCEPT !.exp = None, !.base = None], o.green, o.exit) : o \in Outcomes}

(* An empty store stops the explanation of a case, not the failures.       *)
TriageFailures(p) ==
  /\ At(p, "triage", "failures")
  /\ LET t == job[p]
         e == IF t.exp = None THEN Newest ELSE t.exp IN
     Become(p,
       IF e # None /\ Unreadable(ResultsOf(e)) THEN Failed(t, 4)
       ELSE [t EXCEPT !.at = "explain",
               !.seen = {[exp |-> e, part |-> "failures",
                          cases |-> {x.case : x \in FailuresOf(e, None)}]}])
  /\ UNCHANGED store

(* What the failures listed, if they were asked for, and in which run.     *)
Listed(t) ==
  IF t.seen = {} THEN [exp |-> None, cases |-> {}] ELSE CHOOSE x \in t.seen : TRUE

(* Which case to explain, where, and why.                                  *)
Explain(exp, case, part) == [exp |-> exp, case |-> case, part |-> part]

(* As if the explanation looked for the case in the newest run again.      *)
SelectExplain_Newest(t) ==
  IF t.base # None THEN Explain(t.exp, t.base, "asked")
  ELSE IF Cardinality(Listed(t).cases) = 1
  THEN Explain(t.exp, CHOOSE c \in Listed(t).cases : TRUE, "selected")
  ELSE Explain(None, None, "none")

SelectExplain(t) ==
  IF t.base # None THEN Explain(t.exp, t.base, "asked")
  ELSE IF Cardinality(Listed(t).cases) = 1
  THEN Explain(Listed(t).exp, CHOOSE c \in Listed(t).cases : TRUE, "selected")
  ELSE Explain(None, None, "none")

TriageExplain(p) ==
  /\ At(p, "triage", "explain")
  /\ LET t == job[p]
         choice == SelectExplain(t)
         found  == Resolved(choice.exp, choice.case) IN
     \E end \in
         IF "explain" \notin t.todo \/ choice.part = "none" THEN TriageEnds(t)
         ELSE IF found.exit # 0 THEN {Failed(t, found.exit)}
         ELSE IF ~ Exists(found.exp) THEN {Failed(t, 2)}
         ELSE TriageEnds([t EXCEPT
                !.seen = @ \cup {[exp |-> found.exp, part |-> choice.part,
                                  cases |-> {choice.case}]}]) :
       Become(p, end)
  /\ UNCHANGED store

DoctorCmd(p) ==
  \E o \in Outcomes :
    /\ Start(p, Ended(Task("doctor", "start"), o.green, o.exit))
    /\ UNCHANGED store
-----------------------------------------------------------------------------
DiagnosticsStarts(p) ==
  \/ ExplainCmd(p) \/ FailuresCmd(p) \/ CompareCmd(p) \/ DiagnoseRead(p) \/ TransitionRead(p)
  \/ IssueListCmd(p) \/ IssueShowCmd(p) \/ TriageDoctor(p) \/ DoctorCmd(p)

DiagnosticsSteps(p) ==
  \/ DiagnoseFind(p) \/ DiagnoseWriteRow(p) \/ DiagnoseWriteSnapshot(p) \/ TransitionWrite(p)
  \/ TriageFailures(p) \/ TriageExplain(p)
=============================================================================
