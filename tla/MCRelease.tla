----------------------------- MODULE MCRelease -----------------------------
(***************************************************************************)
(* A branch of up to three commits, cut with and without a pre-release     *)
(* identifier, from nothing or from a release candidate.                   *)
(***************************************************************************)
EXTENDS Release

V(major, minor, patch, pre, n) ==
  [major |-> major, minor |-> minor, patch |-> patch, pre |-> pre, n |-> n]

Fix   == [trailer |-> "PATCH", breaking |-> FALSE, row |-> "PATCH", header |-> TRUE]
Break == [trailer |-> Nothing, breaking |-> TRUE, row |-> "PATCH", header |-> FALSE]

MCCommits  == {Fix, Break}
MCRequests == {[pre |-> 0, notes |-> FALSE, publish |-> FALSE],
               [pre |-> 2, notes |-> TRUE, publish |-> TRUE]}
MCForeign  == {{V(0, 1, 1, 0, 0), V(0, 1, 1, 2, 1)}}
MCStarts   == {Nothing, V(0, 1, 0, 2, 1)}

(* A bump never goes back, except from one identifier to an earlier one.   *)
Samples == {v \in Version : v.major <= 1 /\ v.minor <= 1 /\ v.patch <= 1 /\ v.n <= 2}

ASSUME BumpClimbs ==
  \A v \in Samples, impact \in SemverImpacts, pre \in Tokens :
    LET new == Bump(v, impact, pre)
    IN  \/ Newer(new, v)
        \/ impact = "NONE" /\ pre = 0 /\ new = v
        \/ impact = "NONE" /\ pre # 0 /\ pre < v.pre
=============================================================================
