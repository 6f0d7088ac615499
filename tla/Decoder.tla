------------------------------ MODULE Decoder ------------------------------
(***************************************************************************)
(* crates/asm-core/src/decode.rs: from bytes to an instruction.  Nothing   *)
(* in the bytes says which fields are there; the decoder finds out as it   *)
(* goes.  It stops at the first thing it does not know; here it goes on    *)
(* with zeros and refuses in the end, which is the same refusal.           *)
(***************************************************************************)
EXTENDS Instructions

MaxInsnLen == 15

SegPrefixes == {38, 46, 54, 62, 100, 101}
Legacy == {240, 242, 243, 102, 103} \cup SegPrefixes

\* The byte at i, and the value of the n bytes from i.
At(s, i) == IF i <= Len(s) THEN s[i] ELSE 0
Value(s, i, n) == SignExtend([k \in 1 .. n |-> At(s, i + k - 1) % Radix])

(***************************************************************************)
(* Prefixes, then a REX if it comes right before the opcode.               *)
(***************************************************************************)
PrefixCount(s) ==
  CHOOSE n \in 0 .. Len(s) :
    /\ \A i \in 1 .. n : s[i] \in Legacy
    /\ n = Len(s) \/ s[n + 1] \notin Legacy

Has(s, n, b) == \E i \in 1 .. n : s[i] = b
\* The last of several segment prefixes counts.
SegOf(s, n) ==
  LET at == {i \in 1 .. n : s[i] \in SegPrefixes}
  IN  IF at = {} THEN 0 ELSE s[CHOOSE i \in at : \A j \in at : j <= i]
RepOf(s, n) ==
  LET at == {i \in 1 .. n : s[i] \in {242, 243}}
  IN  IF at = {} THEN 0 ELSE s[CHOOSE i \in at : \A j \in at : j <= i]

OpSizeOf(w, o66) == IF w THEN 8 ELSE IF o66 THEN 2 ELSE 4

RexBit(rex, v) == (rex \div v) % 2 = 1

\* struct Dec after the n prefixes and the REX: `pos` is where the opcode is.
Begin(s, n, rex) ==
  [s |-> s, rex |-> rex # 0, w |-> RexBit(rex, 8), r |-> RexBit(rex, 4), x |-> RexBit(rex, 2),
   b |-> RexBit(rex, 1), seg |-> SegOf(s, n), rep |-> RepOf(s, n),
   addr |-> IF Has(s, n, 103) THEN 4 ELSE 8,
   size |-> OpSizeOf(RexBit(rex, 8), Has(s, n, 102)),
   stack |-> IF Has(s, n, 102) THEN 2 ELSE 8, pos |-> IF rex # 0 THEN n + 2 ELSE n + 1,
   digit |-> 0, reg |-> 0, rm |-> NoReg, next |-> 0]
Prefixes(s, n) == Begin(s, n, IF At(s, n + 1) \in 64 .. 79 THEN At(s, n + 1) ELSE 0)

\* Without a REX, byte registers 4 to 7 are the high bytes.
Gpr(d, num, size) ==
  IF size = 1 /\ ~d.rex /\ num \in 4 .. 7 THEN HighByte(num - 4) ELSE Register(num, size)

Extend(p, low) == IF p THEN low + 8 ELSE low

(***************************************************************************)
(* The ModRM byte behind the opcode is read ahead, whether the opcode has  *)
(* one or not: the reg field, the operand, and where the next field is.    *)
(***************************************************************************)
\* A SIB byte: which registers, and is there a base?
SibIndex(d, sib) ==
  IF ~d.x /\ (sib \div 8) % 8 = 4 THEN NoReg
  ELSE Register(Extend(d.x, (sib \div 8) % 8), d.addr)
SibBase(d, md, sib) ==
  IF md = 0 /\ sib % 8 = 5 THEN NoReg ELSE Register(Extend(d.b, sib % 8), d.addr)
SibScale(d, sib) == IF SibIndex(d, sib) = NoReg THEN 1 ELSE 2^(sib \div 64)

\* How long the displacement is, and the address with it: still without a size.
DispBytes(md, base) == IF base = NoReg \/ md = 2 THEN 4 ELSE md
Address(d, base, index, scale, i, n, rip) ==
  [d EXCEPT !.rm = Memory(d.seg, base, index, scale, Value(d.s, i, n), 0, rip), !.next = i + n]

WithSib(d, i, md, sib) ==
  Address(d, SibBase(d, md, sib), SibIndex(d, sib), SibScale(d, sib), i,
          DispBytes(md, SibBase(d, md, sib)), FALSE)

WithBase(d, i, md, base) ==
  Address(d, base, NoReg, 1, i, DispBytes(md, base), base = NoReg)

WithOperand(d, i, md, rm) ==
  CASE md = 3 -> [d EXCEPT !.rm = Register(Extend(d.b, rm), 8), !.next = i]
    [] md # 3 /\ rm = 4 -> WithSib(d, i + 1, md, At(d.s, i))
    [] md # 3 /\ rm # 4 ->
         WithBase(d, i, md, IF rm = 5 /\ md = 0 THEN NoReg ELSE Register(Extend(d.b, rm), d.addr))

\* i is the position behind the opcode.
WithModRM(d, i) ==
  LET digit == (At(d.s, i) \div 8) % 8 IN
  WithOperand([d EXCEPT !.pos = i, !.digit = digit, !.reg = Extend(d.r, digit)], i + 1,
              At(d.s, i) \div 64, At(d.s, i) % 8)

\* `modrm`: the operand, sized.
RmOf(d, size) ==
  IF d.rm.kind = "reg" THEN Gpr(d, d.rm.num, size) ELSE [d.rm EXCEPT !.size = size]
RegOf(d, size) == Gpr(d, d.reg, size)

(***************************************************************************)
(* What a form decodes to: an instruction, the operand size it leaves      *)
(* behind, and the position after it.                                      *)
(***************************************************************************)
Found(m, cc, ops, size, next) ==
  [ok |-> TRUE, insn |-> Instruction(m, cc, ops), size |-> size, next |-> next]
Unknown == [ok |-> FALSE, insn |-> Instruction("(bad)", 0, <<>>), size |-> 0, next |-> 1]
Guarded(p, found) == IF p THEN found ELSE Unknown

\* Forms without a ModRM; n is the length of the immediate.
Plain(d, m) == Found(m, 0, <<>>, d.size, d.pos)
RegOnly(d, m, r, size) == Found(m, 0, <<r>>, size, d.pos)
RegImm(d, m, r, n) == Found(m, 0, <<r, Immediate(Value(d.s, d.pos, n))>>, d.size, d.pos + n)
ImmOnly(d, m, size, n) == Found(m, 0, <<Immediate(Value(d.s, d.pos, n))>>, size, d.pos + n)
Branches(d, m, cc, n) == Found(m, cc, <<Relative(Value(d.s, d.pos, n))>>, d.size, d.pos + n)

\* Forms with one.
RmForm(d, m, cc, ops) == Found(m, cc, ops, d.size, d.next)
RmOnly(d, m, cc, size) == RmForm(d, m, cc, <<RmOf(d, size)>>)
RmReg(d, m, size) == RmForm(d, m, 0, <<RmOf(d, size), RegOf(d, size)>>)
RegRm(d, m, cc, size, from) == RmForm(d, m, cc, <<RegOf(d, size), RmOf(d, from)>>)
RmImm(d, m, ops, n) ==
  Found(m, 0, Append(ops, Immediate(Value(d.s, d.next, n))), d.size, d.next + n)

\* The operand size of an opcode whose low bit tells a byte from the rest.
Wide(d, op) == IF op % 2 = 0 THEN 1 ELSE d.size
\* `imm_z`: two bytes or four.
ImmZ(d) == IF d.size = 2 THEN 2 ELSE 4
InOpcode(d, op, size) == Gpr(d, Extend(d.b, op % 8), size)

\* Opcodes 00 .. 3f.
ArithmeticForm(d, m, form) ==
  CASE form \in {0, 1} -> RmReg(d, m, Wide(d, form))
    [] form \in {2, 3} -> RegRm(d, m, 0, Wide(d, form), Wide(d, form))
    [] form = 4 -> RegImm(d, m, Gpr(d, 0, 1), 1)
    [] form = 5 -> RegImm(d, m, Register(0, d.size), ImmZ(d))

\* Group 1, the shifts, and groups 3 to 5: the digit is the operation.
Group1(d, op) ==
  RmImm(d, Arithmetic[d.digit + 1], <<RmOf(d, Wide(d, op))>>, IF op = 129 THEN ImmZ(d) ELSE 1)

ShiftOp(digit) == IF digit = 6 THEN "shl" ELSE Shifts[digit]
ShiftForm(d, m, op) ==
  CASE op \in {192, 193} -> RmImm(d, m, <<RmOf(d, Wide(d, op))>>, 1)
    [] op \in {208, 209} -> RmForm(d, m, 0, <<RmOf(d, Wide(d, op)), Immediate(1)>>)
    [] OTHER -> RmForm(d, m, 0, <<RmOf(d, Wide(d, op)), Register(1, 1)>>)

Group3(d, op) ==
  IF d.digit \in {0, 1}
  THEN RmImm(d, "test", <<RmOf(d, Wide(d, op))>>, IF op = 246 THEN 1 ELSE ImmZ(d))
  ELSE RmOnly(d, Unaries[d.digit], 0, Wide(d, op))

Group4(d) ==
  Guarded(d.digit \in {0, 1}, RmOnly(d, IF d.digit = 0 THEN "inc" ELSE "dec", 0, 1))

\* call, jmp and push have the stack's size whatever REX.W says.
Group5(d) ==
  CASE d.digit \in {0, 1} -> RmOnly(d, IF d.digit = 0 THEN "inc" ELSE "dec", 0, d.size)
    [] d.digit = 2 -> RmOnly(d, "call", 0, d.stack)
    [] d.digit = 4 -> RmOnly(d, "jmp", 0, d.stack)
    [] d.digit = 6 -> RmOnly(d, "push", 0, d.stack)
    [] OTHER -> Unknown

\* The memory operand of a lea has no size, and a register will not do.
Lea(d) == Guarded(d.rm.kind = "mem", RmForm(d, "lea", 0, <<RegOf(d, d.size), d.rm>>))

Imul3(d, op) ==
  RmImm(d, "imul", <<RegOf(d, d.size), RmOf(d, d.size)>>, IF op = 107 THEN 1 ELSE ImmZ(d))

Accumulator(d, op) ==
  IF op = 144 /\ ~d.b THEN Plain(d, "nop")
  ELSE Found("xchg", 0, <<InOpcode(d, op, d.size), Register(0, d.size)>>, d.size, d.pos)

\* cbw, cwde, cdqe and cwd, cdq, cqo.
BySize(d, names) == names[IF d.size = 2 THEN 1 ELSE IF d.size = 4 THEN 2 ELSE 3]

OneByte(d, op) ==
  CASE op \in 0 .. 63 /\ op % 8 <= 5 -> ArithmeticForm(d, Arithmetic[op \div 8 + 1], op % 8)
    [] op \in 80 .. 87 -> RegOnly(d, "push", InOpcode(d, op, d.stack), d.stack)
    [] op \in 88 .. 95 -> RegOnly(d, "pop", InOpcode(d, op, d.stack), d.stack)
    [] op = 99 -> RegRm(d, "movsxd", 0, d.size, 4)
    [] op = 104 -> ImmOnly(d, "push", d.stack, ImmZ(d))
    [] op = 106 -> ImmOnly(d, "push", d.stack, 1)
    [] op \in {105, 107} -> Imul3(d, op)
    [] op \in 112 .. 127 -> Branches(d, "jcc", op % 16, 1)
    [] op \in {128, 129, 131} -> Group1(d, op)
    [] op \in {132, 133} -> RmReg(d, "test", Wide(d, op))
    [] op \in {134, 135} -> RmReg(d, "xchg", Wide(d, op))
    [] op \in {136, 137} -> RmReg(d, "mov", Wide(d, op))
    [] op \in {138, 139} -> RegRm(d, "mov", 0, Wide(d, op), Wide(d, op))
    [] op = 141 -> Lea(d)
    [] op = 143 -> [RmOnly(d, "pop", 0, d.stack) EXCEPT !.size = d.stack]
    [] op \in 144 .. 151 -> Accumulator(d, op)
    [] op = 152 -> Plain(d, BySize(d, <<"cbw", "cwde", "cdqe">>))
    [] op = 153 -> Plain(d, BySize(d, <<"cwd", "cdq", "cqo">>))
    [] op = 168 -> RegImm(d, "test", Gpr(d, 0, 1), 1)
    [] op = 169 -> RegImm(d, "test", Register(0, d.size), ImmZ(d))
    [] op \in 176 .. 183 -> RegImm(d, "mov", InOpcode(d, op, 1), 1)
    [] op \in 184 .. 191 -> RegImm(d, "mov", InOpcode(d, op, d.size), d.size)
    [] op \in {192, 193, 208, 209, 210, 211} -> ShiftForm(d, ShiftOp(d.digit), op)
    [] op = 194 -> ImmOnly(d, "ret", d.size, 2)
    [] op = 195 -> Plain(d, "ret")
    [] op \in {198, 199} ->
         Guarded(d.digit = 0,
                 RmImm(d, "mov", <<RmOf(d, Wide(d, op))>>, IF op = 198 THEN 1 ELSE ImmZ(d)))
    [] op = 201 -> Plain(d, "leave")
    [] op = 204 -> Plain(d, "int3")
    [] op = 205 -> ImmOnly(d, "int", d.size, 1)
    [] op = 232 -> Branches(d, "call", 0, 4)
    [] op = 233 -> Branches(d, "jmp", 0, 4)
    [] op = 235 -> Branches(d, "jmp", 0, 1)
    [] op = 244 -> Plain(d, "hlt")
    [] op \in {246, 247} -> Group3(d, op)
    [] op = 254 -> Group4(d)
    [] op = 255 -> Group5(d)
    [] OTHER -> Unknown

\* movzx and movsx name two widths: the source's is in the opcode.
Widen(d, op) ==
  RegRm(d, IF op < 190 THEN "movzx" ELSE "movsx", 0, d.size, IF op % 2 = 0 THEN 1 ELSE 2)

TwoByte(d, op) ==
  CASE op = 5 -> Plain(d, "syscall")
    [] op = 11 -> Plain(d, "ud2")
    [] op = 30 ->
         Guarded(d.rep = 243 /\ At(d.s, d.pos) = 250,
                 Found("endbr64", 0, <<>>, d.size, d.pos + 1))
    [] op = 31 -> RmOnly(d, "nop", 0, d.size)
    [] op \in 64 .. 79 -> RegRm(d, "cmovcc", op % 16, d.size, d.size)
    [] op \in 128 .. 143 -> Branches(d, "jcc", op % 16, 4)
    [] op \in 144 .. 159 -> RmOnly(d, "setcc", op % 16, 1)
    [] op = 175 -> RegRm(d, "imul", 0, d.size, d.size)
    [] op \in {182, 183, 190, 191} -> Widen(d, op)
    [] op \in 200 .. 207 -> RegOnly(d, "bswap", InOpcode(d, op, d.size), d.size)
    [] OTHER -> Unknown

Opcode(d) ==
  IF At(d.s, d.pos) = 15 THEN TwoByte(WithModRM(d, d.pos + 2), At(d.s, d.pos + 1))
                         ELSE OneByte(WithModRM(d, d.pos + 1), At(d.s, d.pos))

(***************************************************************************)
(* `decode`: the instruction at the start of s, the operand size and the   *)
(* length; or a refusal, which an instruction of no length stands for.     *)
(***************************************************************************)
Refusal == [insn |-> Unknown.insn, size |-> 0, len |-> 0]

\* Mutant of Conclude: the bytes may run out.
ConcludeUnchecked(s, f) ==
  IF f.ok THEN [insn |-> f.insn, size |-> f.size, len |-> f.next - 1] ELSE Refusal
Conclude(s, f) ==
  IF f.ok /\ f.next - 1 <= Len(s) /\ f.next - 1 <= MaxInsnLen
  THEN [insn |-> f.insn, size |-> f.size, len |-> f.next - 1] ELSE Refusal

Decode(s) == Conclude(s, Opcode(Prefixes(s, PrefixCount(s))))
=============================================================================
