----------------------------- MODULE MCAluLaws -----------------------------
(***************************************************************************)
(* A full width of eight bits stands for the 64-bit registers, so that     *)
(* half, a quarter and an eighth of it stand for the 32-, 16- and 8-bit    *)
(* views and the masks of the shift counts keep their proportions.         *)
(***************************************************************************)
EXTENDS AluLaws

LOCAL INSTANCE Bitwise

MCPow2 == [k \in 0 .. 8 |-> 2^k]
MCLogic ==
  [op_ \in LogicOps |-> [x \in 0 .. 15 |-> [y \in 0 .. 15 |-> x & y]]]
MCSeconds == 0 .. 12 \cup {15, 128, 255}
=============================================================================
