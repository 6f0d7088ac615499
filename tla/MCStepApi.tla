----------------------------- MODULE MCStepApi -----------------------------
(***************************************************************************)
(* The step API on programs of the control table.  The code is below the   *)
(* stack, overlaps it, starts where it starts or runs off the top; some of *)
(* it is longer than a response carries.                                   *)
(***************************************************************************)
EXTENDS StepApi, MCTables

MCSteps ==
  MCShortPrograms \cup [1 .. 3 -> {1, 2, 5, 7, 9, 12}] \cup [1 .. 4 -> {5, 7, 12}]
MCBases == {0, 3, 5, 6, 14}
=============================================================================
