---------------------------- MODULE MCPlayground ----------------------------
(***************************************************************************)
(* A program, another one, a text that does not assemble and one that      *)
(* assembles to nothing; two rows to a listing.                            *)
(***************************************************************************)
EXTENDS Playground

CONSTANTS loop, sum, typo, blank
=============================================================================
