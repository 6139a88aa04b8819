------------------------- MODULE MCRunOrchestrator -------------------------
(***************************************************************************)
(* Two runs at a time, two checkpoints, two cases and one edit of the      *)
(* inputs between two versions of them.                                    *)
(***************************************************************************)
EXTENDS RunOrchestrator, TLC

CONSTANTS r1, r2, h1, h2

MCRunners == {r1, r2}
MCHashes  == {h1, h2}
Symmetry  == Permutations(MCHashes) \cup Permutations(MCRunners)
MCIds     == {1, 2}
MCCases   == {1, 2}

(* Bundles: nothing wrong, an evaluator outside the required block that    *)
(* raises, a required metric that says no, an advisory one that does.      *)
Fine    == [projects |-> TRUE, input |-> "ok", bound |-> TRUE,
            raising |-> {}, invalid |-> {}, failing |-> {}]
Raising == [Fine EXCEPT !.raising = {"C"}]
Bad     == [Fine EXCEPT !.failing = {"header_shape"}]

Core == [block |-> S2A \cup {"ops"}, topology |-> FALSE]

AllFine == [policy |-> Core, bundle |-> <<Fine, Fine>>]
OneBad  == [policy |-> Core, bundle |-> <<Bad, Fine>>]
OneDown == [policy |-> Core, bundle |-> <<Raising, Fine>>]

(* Cases that never reach the metrics, and a run's traces that are not     *)
(* there: their rows must be missing from a green run.                     *)
Gone      == [Fine EXCEPT !.projects = FALSE]
Huge      == [Fine EXCEPT !.input = "oversize"]
Malformed == [Fine EXCEPT !.invalid = {"header_shape"}]
NoTraces  == [Fine EXCEPT !.raising = {"I"}]
NoHygiene == [Fine EXCEPT !.raising = {"H"}]

Odd(ev) == [policy |-> [block |-> S2B, topology |-> TRUE], bundle |-> <<ev, Fine>>]

OddSuites == {Odd(ev) : ev \in {Gone, Huge, Malformed, NoTraces, NoHygiene}}
MCSuites  == {AllFine, OneBad, OneDown} \cup OddSuites

(* One run after another, over time; over edits of the inputs.             *)
Timed   == [parallel |-> 1, ids |-> {1, 2}, filters |-> {{1, 2}, {1}},
            horizon |-> 2, edits |-> FALSE, faults |-> TRUE, suites |-> {OneBad}]
Edited  == [parallel |-> 1, ids |-> {1, 2}, filters |-> {{1, 2}, {1}},
            horizon |-> 0, edits |-> TRUE, faults |-> TRUE, suites |-> {AllFine, OneDown}]

Judged  == [parallel |-> 1, ids |-> {1}, filters |-> {{1, 2}},
            horizon |-> 0, edits |-> FALSE, faults |-> TRUE, suites |-> OddSuites]

(* Two runs at once: on one checkpoint of two cases, on two of one.        *)
Shared  == [parallel |-> 2, ids |-> {1}, filters |-> {{1, 2}},
            horizon |-> 0, edits |-> FALSE, faults |-> TRUE, suites |-> {OneBad, AllFine}]
Overlap == [parallel |-> 2, ids |-> {1, 2}, filters |-> {{1}},
            horizon |-> 0, edits |-> FALSE, faults |-> TRUE, suites |-> {AllFine}]

(* Two overlapping runs of one case that fails, until the older is stale.  *)
Late    == [parallel |-> 2, ids |-> {1, 2}, filters |-> {{1}},
            horizon |-> 2, edits |-> FALSE, faults |-> FALSE, suites |-> {OneBad}]

MCProfiles == {Timed, Edited, Judged, Shared, Overlap, Late}
MCKeepLasts == {0, 1}
MCBounds    == {0, 1}
=============================================================================
