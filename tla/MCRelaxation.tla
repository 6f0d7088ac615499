---------------------------- MODULE MCRelaxation ----------------------------
(***************************************************************************)
(* Program sets for Relaxation.  Sizes and displacements are those of the  *)
(* code; only the 32-bit limit is scaled down (MaxDisp32 in the .cfg).     *)
(***************************************************************************)
EXTENDS Relaxation

Jmp(d) == [kind |-> "jmp", to |-> d]
Jcc(d) == [kind |-> "jcc", to |-> d]
Call(d) == [kind |-> "call", to |-> d]
LabelAt(l) == [kind |-> "label", name |-> l]
Data(n) == [kind |-> "data", size |-> n]
\* lea rsi, [rip + l + bias]
RipRel(l, b) == [kind |-> "riprel", to |-> ToLabel(l), bias |-> b, size |-> 7]
Far == 10 * MaxDisp32
Admits(low, high, size) == [low |-> low, high |-> high, size |-> size]
\* mov al, [rbx + l + bias], whose displacement may be signed or not
Ref(l, b) ==
  [kind |-> "ref", to |-> ToLabel(l), bias |-> b,
   forms |-> <<Admits(0, 0, 2), Admits(-128, 127, 3),
               Admits(-MaxDisp32 - 1, 2 * MaxDisp32 + 1, 6)>>]
\* mov rbx, l + bias
Movabs(l, b) ==
  [kind |-> "ref", to |-> ToLabel(l), bias |-> b,
   forms |-> <<Admits(-MaxDisp32 - 1, MaxDisp32, 7), Admits(-Far, Far, 10)>>]

MCLabels == {"a", "b"}

\* Branches to labels over near and far data: every program of six statements.
MCLabelPrograms ==
  [1 .. 6 -> {Jmp(ToLabel("a")), Jcc(ToLabel("b")), LabelAt("a"), LabelAt("b"),
              Data(4), Data(124)}]

\* Branches to absolute addresses and operands that hold a label's value.
MCAddressPrograms ==
  [1 .. 4 -> {Jmp(ToAddress(131)), Jcc(ToAddress(2000)), Jcc(ToLabel("a")),
              Call(ToLabel("a")), RipRel("a", 4), RipRel("a", MaxDisp32 - 130), Ref("a", 0),
              Ref("a", 1500), Movabs("a", MaxDisp32 - 130), LabelAt("a"), Data(124)}]

\* An operand that is out of reach of 32 bits, in either direction.
MCFarPrograms ==
  {<<RipRel("a", b), LabelAt("a"), RipRel("a", -b), Jmp(ToLabel("a"))>> :
     b \in {MaxDisp32, MaxDisp32 + 1, MaxDisp32 + 9, 3 * MaxDisp32}}

MCPrograms == MCLabelPrograms \cup MCAddressPrograms \cup MCFarPrograms
MCOrigins == {1}

\* One operand whose displacement shrinks as the code before its label grows.
MCBiasedPrograms == {<<Ref("a", -132), LabelAt("a")>>}
=============================================================================
