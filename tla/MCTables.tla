------------------------------ MODULE MCTables ------------------------------
(***************************************************************************)
(* The machine that TLC runs: a word is the number of an instruction, of   *)
(* sixteen for control or of as many more for data.  Programs are          *)
(* sequences of words.                                                     *)
(***************************************************************************)
EXTENDS Machine

LOCAL INSTANCE Bitwise

MCPow2 == [k \in 0 .. WordBits |-> 2^k]
MCLogic ==
  [op \in LogicOps |-> [a \in Word |-> [b \in Word |->
     CASE op = "and" -> a & b
       [] op = "or" -> a | b
       [] OTHER -> a ^^ b]]]

R(r) == [mode |-> "reg", reg |-> r, disp |-> 0]
I(v) == [mode |-> "imm", reg |-> "rax", disp |-> v]
M(r, d) == [mode |-> "mem", reg |-> r, disp |-> d]
J(d) == [mode |-> "rel", reg |-> "rax", disp |-> d]
NoOperand == [mode |-> "none", reg |-> "rax", disp |-> 0]

Insn2(op, dst, src) == [op |-> op, len |-> 1, dst |-> dst, src |-> src, cond |-> "e"]
Insn(op, dst) == Insn2(op, dst, NoOperand)
If(cond, i) == [i EXCEPT !.cond = cond]
Long(n, i) == [i EXCEPT !.len = n]
Minus(k) == WordMod - k

\* Data: registers, the stack and memory written in every way, twice in one
\* instruction included.
DataList == <<
  Insn2("mov", R("rax"), I(7)), Insn2("mov", M("rsp", Minus(1)), R("rsp")),
  Insn2("xchg", M("rsp", 0), R("rsp")), Insn2("xchg", M("rax", 0), R("rbp")),
  Insn("push", R("rax")), Insn("pop", R("rsp")), Insn("pop", M("rsp", Minus(2))),
  Insn("leave", NoOperand), Insn2("lea", R("rbp"), M("rsp", Minus(1))),
  Insn2("sub", M("rax", 0), R("rsp")), Insn2("cmp", R("rax"), M("rbp", 0)),
  If("b", Insn2("cmov", M("rax", 3), R("rsp"))),
  Insn2("imul2", R("rax"), R("rsp")), Insn2("shl", M("rbp", 0), I(1)),
  Insn("div", M("rsp", 0)), Insn("neg", R("rax"))>>

\* Control: every way to leave the straight line, to stop and to fault.
ControlList == <<
  Insn("jmp", J(Minus(1))), Insn("call", J(1)), Insn("ret", NoOperand), Insn("ret", I(1)),
  If("ne", Insn("jcc", J(Minus(2)))), Insn("hlt", NoOperand), Insn("int3", NoOperand),
  Insn("syscall", NoOperand), Insn("ud2", NoOperand), Insn2("sub", R("rax"), I(Minus(1))),
  Insn("call", R("rbp")), Insn("jmp", M("rsp", 0)), Insn2("mov", R("rdi"), I(1)),
  Insn2("mov", R("rsi"), R("rsp")), Long(2, Insn("nop", NoOperand)),
  Insn("invalid", NoOperand)>>

ControlTable == [c \in Word |-> ControlList[c + 1]]
BothTables == [c \in Word |-> (DataList \o ControlList)[c + 1]]

MCShortPrograms == [1 .. 2 -> Word]
\* Data only, control only, short mixtures of both, and pushes and pops up to a hlt.
MCPrograms ==
  [1 .. 3 -> 0 .. 15] \cup [1 .. 3 -> 16 .. 31] \cup MCShortPrograms \cup [1 .. 4 -> {4, 6, 21, 28}]
=============================================================================
