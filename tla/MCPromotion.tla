---------------------------- MODULE MCPromotion ----------------------------
(***************************************************************************)
(* Two reviewers on one or two reviews, next to two promoters that ask for *)
(* what each gate turns on.                                                *)
(***************************************************************************)
EXTENDS Promotion, TLC

CONSTANTS o1, o2, p1, p2, v1, s1, n1, n2

MCOperators == {o1, o2}
MCPromoters == {p1, p2}
MCPromotions == {n1, n2}
Symmetry    == Permutations(MCOperators) \cup Permutations(MCPromoters)
                 \cup Permutations(MCPromotions)

Plain == [destination |-> "fixture_lane_a", label |-> "plain", allow_golden |-> FALSE,
          popularity |-> FALSE, review |-> Nothing, split |-> s1, lineage |-> TRUE,
          valid |-> TRUE, synthetic |-> FALSE, antipattern |-> FALSE]

Reviewed == [Plain EXCEPT !.review = v1]
Negative == [Plain EXCEPT !.destination = "hard_negative"]

MCRequests ==
  {Plain, Reviewed, Negative,
   [Reviewed EXCEPT !.destination = "quarantine"],
   [Plain EXCEPT !.destination = "reject"],
   [Plain EXCEPT !.label = "gold"],
   [Plain EXCEPT !.antipattern = TRUE],
   [Plain EXCEPT !.lineage = FALSE, !.split = Nothing]}
=============================================================================
