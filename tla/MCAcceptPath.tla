---------------------------- MODULE MCAcceptPath ----------------------------
(***************************************************************************)
(* Two hooks, two messages and two sessions: one hook after another, with  *)
(* generations in between and a scan that sees one bundle only; and two at *)
(* once.                                                                   *)
(***************************************************************************)
EXTENDS AcceptPath, TLC

CONSTANTS h1, h2, m1, m2, s1, s2

MCHooks    == {h1, h2}
MCMessages == {m1, m2}
MCSessions == {s1, s2}
Symmetry   == Permutations(MCHooks) \cup Permutations(MCMessages)
                \cup Permutations(MCSessions)
InTurn  == [parallel |-> 1, gens |-> 2, window |-> 1]
AtOnce  == [parallel |-> 2, gens |-> 0, window |-> 2]

MCProfiles == {InTurn, AtOnce}
=============================================================================
