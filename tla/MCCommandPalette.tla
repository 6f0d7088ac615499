-------------------------- MODULE MCCommandPalette --------------------------
(***************************************************************************)
(* Three queries, one of which the lessons answer, one that only the local *)
(* catalogs know, and the empty one.                                       *)
(***************************************************************************)
EXTENDS CommandPalette

MCEntities ==
  [q \in Queries |-> CASE q = "mov" -> <<"MOV", "MOVZX">>
                       [] q = "stack" -> <<>>
                       [] OTHER -> IF q = "rax" THEN <<"RAX">> ELSE <<>>]
MCLessons ==
  [q \in Queries |-> CASE q = "mov" -> <<"data-movement">>
                       [] q = "stack" -> <<"the-stack", "calls">>
                       [] OTHER -> <<>>]
=============================================================================
