--------------------------- MODULE MCExportQueue ---------------------------
(***************************************************************************)
(* Two drains, two export plans and the retry command around one row.      *)
(***************************************************************************)
EXTENDS ExportQueue

CONSTANTS d1, d2, e1, e2, r

MCDrainers  == {d1, d2}
MCEnqueuers == {e1, e2}

(* One invocation at a time, and everything may go wrong; retries are      *)
(* forced, or not.                                                         *)
Serial(forced) ==
  [serial |-> TRUE, forced |-> forced, actors |-> {d1, d2, e1, e2, r},
   faults |-> Faults]

(* Two drains at once, whose uploads may fail, or seem to.                 *)
Steady == [serial |-> FALSE, forced |-> FALSE, actors |-> {d1, d2, e1},
           faults |-> {"fail", "lost"}]

(* Everything at once, retries forced.                                     *)
Wild == [Serial(TRUE) EXCEPT !.serial = FALSE]

(* Two drains, one of which may die.                                       *)
Crashing == [Steady EXCEPT !.faults = {"crash"}]

AllProfiles   == {Serial(TRUE), Serial(FALSE), Steady, Wild}
CrashProfiles == {Crashing}
=============================================================================
