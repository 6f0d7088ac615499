----------------------------- MODULE RoundTrip -----------------------------
(***************************************************************************)
(* Encoder and decoder against one another.  A behaviour starts from an    *)
(* instruction somebody wrote or from bytes that somebody found, and goes  *)
(* round: `encode` or `encode_insn`, `decode`, and again.                  *)
(***************************************************************************)
EXTENDS Encoder, Decoder

CONSTANTS
  Forms,     \* what is written: mnemonics, a condition, lists of operands
  Contexts   \* what is found: prefixes, opcodes, what comes behind them

ASSUME FormsAreInstructions ==
  \A k \in DOMAIN Forms : Forms[k].cc \in Nat /\ Forms[k].operands \subseteq Seq(Operand)
ASSUME ContextsAreBytes ==
  \A k \in DOMAIN Contexts :
    Contexts[k].heads \cup Contexts[k].opcodes \cup Contexts[k].tails \subseteq Seq(Nat)

VARIABLES
  stage,   \* "written", "found", "decoded", "encoded" or "refused"
  insn,    \* the instruction written, or decoded last
  width,   \* the operand size the decoder reported with it
  code,    \* the bytes found, or encoded last
  len      \* how many of them the decoder took

vars == <<stage, insn, width, code, len>>

Written ==
  /\ stage = "written"
  /\ \E k \in DOMAIN Forms : \E m \in Forms[k].names, ops \in Forms[k].operands :
       insn = Instruction(m, Forms[k].cc, ops)
  /\ code = <<>>

FoundInMemory ==
  /\ stage = "found"
  /\ insn = Unknown.insn
  /\ \E k \in DOMAIN Contexts :
       \E h \in Contexts[k].heads, op \in Contexts[k].opcodes, t \in Contexts[k].tails :
         code = h \o op \o t

Init == (Written \/ FoundInMemory) /\ len = 0 /\ width = 0

Assemble ==
  /\ stage \in {"written", "decoded"}
  /\ code' = Encode(insn)
  /\ stage' = IF code' = <<>> THEN "refused" ELSE "encoded"
  /\ UNCHANGED <<insn, width, len>>

Disassemble ==
  /\ stage \in {"found", "encoded"}
  /\ \E d \in {Decode(code)} :
       /\ insn' = IF d.len = 0 THEN insn ELSE d.insn
       /\ len' = d.len
       /\ width' = d.size
       /\ stage' = IF d.len = 0 THEN "refused" ELSE "decoded"
  /\ UNCHANGED code

Next == Assemble \/ Disassemble
Spec == Init /\ [][Next]_vars

-----------------------------------------------------------------------------
(***************************************************************************)
(* Equivalence of an instruction with what was decoded in its place: the   *)
(* same operation at the same width on the same operands.  Values are      *)
(* compared as far as the operation uses them: -1 and 255 are one byte.    *)
(***************************************************************************)
\* The width that a memory operand without one has.
ImpliedSize(i) ==
  CASE i.m = "setcc" -> 1
    [] i.m \in {"nop", "movsxd"} -> 4
    [] i.m \in {"push", "pop", "call", "jmp"} -> 8
    [] OTHER -> SizeOf(i.ops)

\* The bytes of an immediate that the operation uses: branches, ret and push are
\* as wide as rip, rsp and the stack.
OperationBytes(i) ==
  CASE i.m \in {"int"} \cup Names(Shifts) -> 1
    [] i.m \in {"ret", "push", "jmp", "call", "jcc"} -> 8
    [] OTHER -> SizeOf(i.ops)

\* The bytes of the immediate that instruction i carries.
ImmediateBytes(i) ==
  CASE i.m \in {"int"} \cup Names(Shifts) -> 1
    [] i.m = "ret" -> 2
    [] i.m \in {"push", "jmp", "call", "jcc"} -> 4
    [] i.m = "mov" /\ i.ops[1].kind = "reg" -> i.ops[1].size
    [] OTHER -> ImmBytes(SizeOf(i.ops))

\* An immediate with fewer bytes than the operation uses is extended by its sign.
SignIsKept(i, v) ==
  ImmediateBytes(i) < OperationBytes(i) => FitsSigned(v, ImmediateBytes(i))

SameValue(v, u, n) == (v - u) % Radix^n = 0

\* A value comes back as far as the operation uses it; one that is not the extension
\* of its own sign, as far as there are bytes for it.
SameImmediate(i, v, u) ==
  SameValue(v, u, IF SignIsKept(i, v) THEN OperationBytes(i) ELSE ImmediateBytes(i))

SameAddress(m, n) ==
  /\ [m EXCEPT !.size = 0, !.disp = 0] = [n EXCEPT !.size = 0, !.disp = 0]
  /\ SameValue(m.disp, n.disp, IF m.base.size = 4 THEN 4 ELSE 8)

\* lea reads no memory, and its operand has no width.
SameOperand(i, o, p) ==
  CASE o.kind = "mem" /\ p.kind = "mem" ->
         /\ SameAddress(o, p)
         /\ i.m = "lea" \/ p.size = IF o.size = 0 THEN ImpliedSize(i) ELSE o.size
    [] o.kind \in {"imm", "rel"} /\ p.kind = o.kind -> SameImmediate(i, o.v, p.v)
    [] OTHER -> o = p

SameOperands(i, ops) ==
  Len(i.ops) = Len(ops) /\ \A k \in DOMAIN ops : SameOperand(i, i.ops[k], ops[k])

\* The operands of xchg may change places.
Equivalent(i, j) ==
  /\ i.m = j.m /\ i.cc = j.cc
  /\ \/ SameOperands(i, j.ops)
     \/ i.m = "xchg" /\ SameOperands(i, <<j.ops[2], j.ops[1]>>)

(***************************************************************************)
(* Instructions whose parts agree with one another.  The encoder takes     *)
(* more than these, and reads them as some of these.                       *)
(***************************************************************************)
RegularMemory(m) ==
  /\ FitsSigned(m.disp, 4) \/ (m.base.size = 4 /\ Fits(m.disp, 4))
  /\ m.rip => m.base = NoReg /\ m.index = NoReg
  /\ \A r \in {m.base, m.index} \ {NoReg} :
       r.size = IF m.base # NoReg THEN m.base.size ELSE 8
  /\ m.base # NoReg => m.base.size \in {4, 8}

\* Operands of one width, and of one that the instruction has.
OneWidth(i) ==
  Cardinality({OperandSize(i.ops[k]) : k \in DOMAIN i.ops} \ {0}) <= 1
Widths(i) ==
  CASE i.m \in {"push", "pop"} ->
         IF i.ops[1].kind = "reg" THEN {2, 8} ELSE {0, 8}
    [] i.m \in {"call", "jmp"} -> {0, 8}
    [] i.m \in {"lea", "cmovcc", "imul", "bswap"} /\ Len(i.ops) > 1 -> {2, 4, 8}
    [] i.m = "nop" -> {0, 2, 4, 8}
    [] OTHER -> Size \cup {0}

PartsAgree(i) ==
  /\ \A k \in DOMAIN i.ops : i.ops[k].kind = "mem" => RegularMemory(i.ops[k])
  /\ \/ i.m \in {"movzx", "movsx", "movsxd"} \cup Names(Shifts)
     \/ OneWidth(i) /\ SizeOf(i.ops) \in Widths(i)
     \/ i.m = "lea" /\ i.ops[1].size # 1
  /\ i.m \in {"inc", "dec"} => Len(i.ops) = 1
  /\ i.m = "movsxd" => i.ops[1].size # 1 /\ OperandSize(i.ops[2]) = 4

(***************************************************************************)
(* What the encoder has a form for.  A 32-bit index without a base becomes *)
(* one of 64 bits; so does a 16-bit operand of a branch, or one in memory  *)
(* of a push or pop.  A push or pop moves the width of its register, what  *)
(* a push through memory is decoded with, or the eight bytes of the stack. *)
(***************************************************************************)
Widened(i, o) ==
  LET wide == {"call", "jmp"} \cup (IF o.kind = "mem" THEN {"push", "pop"} ELSE {})
  IN  IF OperandSize(o) = 2 /\ i.m \in wide THEN [o EXCEPT !.size = 8] ELSE o

Rebased(o) ==
  IF o.kind = "mem" /\ o.base = NoReg /\ o.index.size = 4 THEN [o EXCEPT !.index.size = 8] ELSE o

Formed(i) == [i EXCEPT !.ops = [k \in DOMAIN i.ops |-> Rebased(Widened(i, i.ops[k]))]]

FormWidth(i) ==
  CASE i.ops[1].kind = "reg" -> i.ops[1].size
    [] i.ops[1].kind = "mem" /\ i.m = "push" -> 4
    [] OTHER -> 8

-----------------------------------------------------------------------------
\* asm.rs:899, everything_it_assembles_it_can_disassemble: whatever the encoder
\* emits, from any operands, the decoder takes as one instruction, to its last
\* byte, and calls it by the same name.
EverythingAssembledDisassembles ==
  [][stage = "encoded" /\ stage' # "encoded" =>
       stage' = "decoded" /\ len' = Len(code) /\ insn'.m = insn.m]_vars

\* What comes back is what went in.  encode.rs:17, "choices that change meaning are
\* never made silently": of an instruction that somebody wrote, if its parts agree, it
\* is that instruction, with the addressing mode, the registers, the widths and the
\* immediate that were asked for (of an immediate that changes its sign on the way, its
\* bytes).  encode.rs:32, a decoded instruction that is encoded again "is guaranteed to
\* decode to an equivalent instruction": so it does, with the operands and at the width
\* it had, as far as there is a form for it.
ComesBack == stage = "encoded" /\ stage' = "decoded"
WasDecoded == width # 0

MeaningIsKept ==
  [][ComesBack =>
       /\ ~WasDecoded /\ PartsAgree(insn) => Equivalent(insn, insn')
       /\ WasDecoded => Equivalent(Formed(insn), insn')
       /\ WasDecoded /\ insn.m \in {"push", "pop"} => width' = FormWidth(insn)]_vars

\* decode.rs:123, a buffer that ends inside an instruction is an error: an
\* instruction does not depend on what follows it, and no prefix of it is one.
InstructionsDelimitThemselves ==
  stage = "decoded" =>
    /\ Decode(SubSeq(code, 1, len)) = [insn |-> insn, size |-> width, len |-> len]
    /\ \A n \in 0 .. len - 1 : Decode(SubSeq(code, 1, n)).len = 0

\* cpu.rs:412: "push is always at the stack width; the decoder sets op_size
\* accordingly (8 in long mode, or 2 with a 0x66 prefix)".
PushesAreStackWide == stage = "decoded" /\ insn.m = "push" => width \in {2, 8}
=============================================================================
