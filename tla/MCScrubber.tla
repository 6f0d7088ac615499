----------------------------- MODULE MCScrubber -----------------------------
(***************************************************************************)
(* The scrubber over the emulator's data table, with code below the stack  *)
(* and code that overlaps it.                                              *)
(***************************************************************************)
EXTENDS Scrubber, MCTables

MCBases == {0, 3, 5, 6, 30}
=============================================================================
