---------------------------- MODULE MCRoundTrip ----------------------------
(***************************************************************************)
(* What is written: every form of instruction over the registers and the   *)
(* addressing modes that are special cases.  What is found: every opcode   *)
(* in a few contexts, and the opcodes with a ModRM in many.                *)
(***************************************************************************)
EXTENDS RoundTrip

\* rax, rsp, rbp, rdi, r12, r13; the high bytes ah and dh.
Numbers == {0, 4, 5, 7, 12, 13}
MCRegs == {Register(n, s) : n \in Numbers, s \in Size} \cup {HighByte(0), HighByte(2)}
FewRegs == {Register(0, 8), Register(4, 1), Register(12, 2), Register(5, 4), HighByte(2),
            Register(1, 1)}

\* One byte of displacement holds -2 .. 1, four hold -128 .. 127.
Disps == {0, 1, 2, -128, 130}
Bases == {NoReg, Register(0, 8), Register(4, 8), Register(5, 8), Register(12, 8),
          Register(13, 8), Register(3, 4)}
Indices == {NoReg, Register(1, 8), Register(4, 8), Register(12, 8), Register(9, 4)}
Mems ==
  {Memory(0, b, x, IF x = NoReg THEN 1 ELSE 4, d, 8, FALSE) :
     b \in Bases, x \in Indices, d \in Disps}
    \cup {Memory(100, NoReg, NoReg, 1, d, 8, TRUE) : d \in Disps}
FewMems ==
  {Memory(0, Register(13, 8), NoReg, 1, 0, s, FALSE) : s \in Size \cup {0}}
    \cup {Memory(100, NoReg, Register(12, 8), 2, 1, 2, FALSE)}

\* A byte holds -2 .. 3, two -8 .. 15, four -128 .. 255.
Imms == {Immediate(v) : v \in {-129, -128, -3, -2, 0, 1, 2, 3, 4, 15, 127, 128, 255, 256}}
FewImms == {Immediate(v) : v \in {-2, 1, 3, 200}}
Rels == {Relative(v) : v \in {-128, -3, -2, 1, 2, 127, 200}}

Nullary == DOMAIN Fixed \cup {"ret", "nop"}
Unary == {"neg", "imul", "inc", "push", "pop", "call", "jmp", "bswap", "nop"}
Binary == {"add", "cmp", "shl", "mov", "test", "xchg", "movzx", "movsx", "movsxd", "lea",
           "imul", "inc"}

Few == FewRegs \cup FewMems \cup FewImms
Form(names, cc, operands) == [names |-> names, cc |-> cc, operands |-> operands]
One(S) == [1 .. 1 -> S]
MCForms ==
  <<Form(Nullary, 0, {<<>>}),
    Form(Unary \cup {"ret", "int"}, 0, One(MCRegs \cup FewMems \cup Imms \cup Rels)),
    Form({"jcc", "setcc"}, 13, One(MCRegs \cup FewMems \cup Rels)),
    Form({"push", "call"}, 0, One(Mems)),
    Form(Binary, 0, Few \X Few),
    Form({"cmovcc"}, 5, Few \X Few),
    Form({"mov"}, 0, {Register(8, 8), HighByte(0)} \X Mems),
    Form({"add", "mov"}, 0, MCRegs \X Imms),
    Form({"xchg", "mov"}, 0, MCRegs \X MCRegs),
    Form({"imul"}, 0, FewRegs \X (FewRegs \cup FewMems) \X Imms)>>

\* No prefix, 66, 67, fs, or all of them; no REX, REX.W, REX.B, all bits.
Heads == {<<>>, <<102>>, <<103>>, <<100, 102>>, <<72>>, <<65>>, <<102, 79>>, <<103, 68>>}
MoreHeads == Heads \cup {<<243>>, <<240>>, <<100, 38>>, <<64>>, <<66>>, <<103, 66>>, <<103, 79>>}
Opcodes == {<<op>> : op \in 0 .. 255} \cup {<<15, op>> : op \in 0 .. 255}

\* A ModRM byte, perhaps a SIB, and eight data bytes or fewer.
Data == <<1, 0, 0, 0, 3, 3, 3, 3>>
MoreData == <<3, 3, 3, 3, 0, 0, 0, 0>>
Tails == {<<250>> \o Data, <<4>> \o Data, <<117>> \o MoreData, <<132, 12>> \o MoreData, <<5>> \o Data,
          MoreData, <<1>>}
MoreTails ==
  {<<64 * md + 8 * field + rm>> \o d :
     md \in 0 .. 3, field \in {0, 2, 4, 6}, rm \in {0, 5}, d \in {Data, MoreData}}
    \cup {<<64 * md + 16 + 4, sib>> \o MoreData : md \in 0 .. 2, sib \in {0, 36, 37, 101, 165, 229}}
SomeOpcodes ==
  {<<3>>, <<56>>, <<99>>, <<129>>, <<131>>, <<136>>, <<141>>, <<143>>, <<193>>, <<209>>, <<211>>,
   <<247>>, <<254>>, <<255>>, <<15, 182>>, <<15, 191>>}

Context(heads, opcodes, tails) == [heads |-> heads, opcodes |-> opcodes, tails |-> tails]
MCContexts ==
  <<Context(Heads, Opcodes, Tails),
    Context(MoreHeads, SomeOpcodes, MoreTails),
    Context({[i \in 1 .. n |-> 102] : n \in 13 .. 16}, {<<144>>}, {<<>>})>>
=============================================================================
