------------------------------ MODULE Encoder ------------------------------
(***************************************************************************)
(* crates/asm-core/src/encode.rs: from an instruction to its bytes, or to  *)
(* a refusal.  The builder collects the prefixes, the REX bits, the opcode *)
(* and the rest as the forms of the instruction ask for them; `Finish`     *)
(* puts them in order.  Which error a refusal carries is left out.         *)
(***************************************************************************)
EXTENDS Instructions

\* struct Builder; `regs` are the registers noted, `tail` what follows the opcode.
Empty ==
  [ok |-> TRUE, legacy |-> <<>>, o16 |-> FALSE, w |-> FALSE, r |-> FALSE, x |-> FALSE,
   b |-> FALSE, regs |-> {}, opcode |-> <<>>, tail |-> <<>>]
Refuse == [Empty EXCEPT !.ok = FALSE]

EncNum(r) == IF r.high THEN r.num + 4 ELSE r.num
IsAcc(r) == r.num = 0 /\ ~r.high

NoteReg(e, r) == [e EXCEPT !.regs = @ \cup {r}]
SetSize(e, s) == [e EXCEPT !.o16 = @ \/ s = 2, !.w = @ \/ s = 8]
SetStackSize(e, s) == [e EXCEPT !.o16 = @ \/ s = 2]
Op(bytes) == [Empty EXCEPT !.opcode = bytes]

Imm(e, v, n) ==
  IF Fits(v, n) THEN [e EXCEPT !.tail = @ \o LittleEndian(v, n)] ELSE Refuse

ModRM(md, field, rm) == md * 64 + (field % 8) * 8 + (rm % 8)
ScaleBits(s) == CASE s = 2 -> 1 [] s = 4 -> 2 [] s = 8 -> 3 [] OTHER -> 0

(***************************************************************************)
(* A memory operand.  The length of the displacement decides the mode;     *)
(* rbp and r13 have no form without one, rsp and r12 none without a SIB.   *)
(***************************************************************************)
\* Mutant of DispLen: rbp is taken for a base like any other.
DispLenAnyBase(m) ==
  IF m.base = NoReg THEN 4
  ELSE IF m.disp = 0 THEN 0
  ELSE IF FitsI8(m.disp) THEN 1 ELSE 4

DispLen(m) ==
  IF m.base = NoReg THEN 4
  ELSE IF m.disp = 0 /\ EncNum(m.base) % 8 # 5 THEN 0
  ELSE IF FitsI8(m.disp) THEN 1 ELSE 4

Mode(m) ==
  IF m.base = NoReg \/ DispLen(m) = 0 THEN 0 ELSE IF DispLen(m) = 1 THEN 1 ELSE 2

NeedsSib(m) ==
  \/ m.index # NoReg
  \/ m.base # NoReg /\ EncNum(m.base) % 8 = 4
  \/ IsAbsolute(m)

Sib(m) ==
  ScaleBits(m.scale) * 64
    + (IF m.index = NoReg THEN 4 ELSE EncNum(m.index) % 8) * 8
    + (IF m.base = NoReg THEN 5 ELSE EncNum(m.base) % 8)

\* rsp is no index: its number says that there is none.
IndexIsEncodable(m) ==
  m.index = NoReg \/ (m.scale \in {1, 2, 4, 8} /\ ~(m.index.num = 4 /\ ~m.index.high))

MemPrefixes(m) ==
  (IF m.seg = 0 THEN <<>> ELSE <<m.seg>>) \o (IF m.base.size = 4 THEN <<103>> ELSE <<>>)

ModRMRip(e, field, m) ==
  [e EXCEPT !.legacy = @ \o MemPrefixes(m),
            !.tail = <<ModRM(0, field, 5)>> \o LittleEndian(m.disp, 4)]

ModRMMem(e, field, m) ==
  IF ~IndexIsEncodable(m) \/ (DispLen(m) = 4 /\ ~Fits(m.disp, 4)) THEN Refuse
  ELSE [e EXCEPT
          !.legacy = @ \o MemPrefixes(m),
          !.regs = @ \cup ({m.base, m.index} \ {NoReg}),
          !.x = @ \/ m.index.num >= 8,
          !.b = @ \/ m.base.num >= 8,
          !.tail =
            (IF NeedsSib(m) THEN <<ModRM(Mode(m), field, 4), Sib(m)>>
                            ELSE <<ModRM(Mode(m), field, EncNum(m.base))>>)
              \o LittleEndian(m.disp, DispLen(m))]

ModRMReg(e, field, r) ==
  [NoteReg(e, r) EXCEPT !.b = EncNum(r) >= 8, !.tail = <<ModRM(3, field, EncNum(r))>>]

\* `modrm`: rm in the r/m slot, a register number or a digit in the reg slot.
Rm(e, field, rm) ==
  LET f == [e EXCEPT !.r = field >= 8] IN
  CASE rm.kind = "reg" -> ModRMReg(f, field, rm)
    [] rm.kind = "mem" /\ rm.rip -> ModRMRip(f, field, rm)
    [] rm.kind = "mem" /\ ~rm.rip -> ModRMMem(f, field, rm)
    [] OTHER -> Refuse

(***************************************************************************)
(* The shapes that the forms below are made of.                            *)
(***************************************************************************)
\* The opcode of the byte form and, one above it, that of the wider ones.
ByWidth(size, opcode) == <<IF size = 1 THEN opcode ELSE opcode + 1>>

DigitForm(opcode, size, digit, rm) == Rm(SetSize(Op(opcode), size), digit, rm)
RegForm(opcode, size, reg, rm) == Rm(NoteReg(SetSize(Op(opcode), size), reg), EncNum(reg), rm)

\* The register is in the low bits of the opcode.
OpcodeReg(lead, opcode, r) ==
  [NoteReg(Op(lead \o <<opcode + (EncNum(r) % 8)>>), r) EXCEPT !.b = EncNum(r) >= 8]

\* The width of an immediate that follows the operand size.
ImmBytes(size) == IF size \in {1, 2} THEN size ELSE 4

-----------------------------------------------------------------------------
EncodeArith(i, size, dst, src) ==
  CASE src.kind = "imm" /\ IsWriteTarget(dst) ->
         IF size = 1 /\ dst.kind = "reg" /\ EncNum(dst) = 0
         THEN Imm(SetSize(Op(<<4 + i * 8>>), size), src.v, 1)
         ELSE IF size = 1 THEN Imm(DigitForm(<<128>>, size, i, dst), src.v, 1)
         ELSE IF FitsI8(src.v) THEN Imm(DigitForm(<<131>>, size, i, dst), src.v, 1)
         ELSE IF dst.kind = "reg" /\ dst.num = 0
         THEN Imm(SetSize(Op(<<5 + i * 8>>), size), src.v, ImmBytes(size))
         ELSE Imm(DigitForm(<<129>>, size, i, dst), src.v, ImmBytes(size))
    [] src.kind = "reg" ->
         IF size = src.size THEN RegForm(ByWidth(size, i * 8), size, src, dst) ELSE Refuse
    [] src.kind = "mem" /\ dst.kind = "reg" ->
         RegForm(ByWidth(size, i * 8 + 2), size, dst, src)
    [] OTHER -> Refuse

\* A shift by one has an opcode of its own, a variable one counts in cl.
EncodeShift(digit, size, dst, count) ==
  CASE count.kind = "imm" /\ count.v = 1 -> DigitForm(ByWidth(size, 208), size, digit, dst)
    [] count.kind = "imm" /\ count.v # 1 ->
         Imm(DigitForm(ByWidth(size, 192), size, digit, dst), count.v, 1)
    [] count = Register(1, 1) -> DigitForm(ByWidth(size, 210), size, digit, dst)
    [] OTHER -> Refuse

\* A qword takes the sign-extended four bytes only if that is the value.
EncodeMov(size, dst, src) ==
  CASE src.kind = "imm" /\ dst.kind = "reg" /\ size = 8 /\ FitsSigned(src.v, 4) ->
         Imm(DigitForm(<<199>>, 8, 0, dst), src.v, 4)
    [] src.kind = "imm" /\ dst.kind = "reg" /\ ~(size = 8 /\ FitsSigned(src.v, 4)) ->
         Imm(SetSize(OpcodeReg(<<>>, IF size = 1 THEN 176 ELSE 184, dst), size), src.v, size)
    [] src.kind = "imm" /\ dst.kind = "mem" ->
         Imm(DigitForm(ByWidth(size, 198), size, 0, dst), src.v, ImmBytes(size))
    [] src.kind = "reg" ->
         IF size = src.size THEN RegForm(ByWidth(size, 136), size, src, dst) ELSE Refuse
    [] src.kind = "mem" /\ dst.kind = "reg" -> RegForm(ByWidth(size, 138), size, dst, src)
    [] OTHER -> Refuse

EncodeTest(size, dst, src) ==
  CASE src.kind = "imm" /\ dst.kind = "reg" /\ EncNum(dst) = 0 ->
         Imm(SetSize(Op(ByWidth(size, 168)), size), src.v, ImmBytes(size))
    [] src.kind = "imm" /\ ~(dst.kind = "reg" /\ EncNum(dst) = 0) ->
         Imm(DigitForm(ByWidth(size, 246), size, 0, dst), src.v, ImmBytes(size))
    [] src.kind = "reg" -> RegForm(ByWidth(size, 132), size, src, dst)
    [] OTHER -> Refuse

\* With the accumulator on either side there is a form of one byte; 90 itself
\* is left to nop.
EncodeXchg(size, dst, src) ==
  CASE /\ dst.kind = "reg" /\ src.kind = "reg" /\ dst.size = src.size
       /\ src.size # 1 /\ IsAcc(dst) # IsAcc(src) ->
         LET other == IF IsAcc(dst) THEN src ELSE dst
         IN  SetSize(OpcodeReg(<<>>, 144, other), other.size)
    [] OTHER ->
         IF src.kind = "reg" /\ size # 0
         THEN RegForm(ByWidth(size, 134), size, src, dst) ELSE Refuse

EncodePush(o) ==
  CASE o.kind = "reg" -> SetStackSize(OpcodeReg(<<>>, 80, o), o.size)
    [] o.kind = "imm" -> IF FitsI8(o.v) THEN Imm(Op(<<106>>), o.v, 1)
                                        ELSE Imm(Op(<<104>>), o.v, 4)
    [] o.kind = "mem" -> Rm(Op(<<255>>), 6, o)
    [] OTHER -> Refuse

EncodePop(o) ==
  CASE o.kind = "reg" -> SetStackSize(OpcodeReg(<<>>, 88, o), o.size)
    [] o.kind = "mem" -> Rm(Op(<<143>>), 0, o)
    [] OTHER -> Refuse

\* imul with two operands, or three.
EncodeImul2(dst, src) ==
  IF dst.kind = "reg" THEN RegForm(<<15, 175>>, dst.size, dst, src) ELSE Refuse
EncodeImul3(dst, src, i) ==
  CASE ~(dst.kind = "reg" /\ i.kind = "imm") -> Refuse
    [] dst.kind = "reg" /\ i.kind = "imm" /\ FitsI8(i.v) ->
         Imm(RegForm(<<107>>, dst.size, dst, src), i.v, 1)
    [] OTHER -> Imm(RegForm(<<105>>, dst.size, dst, src), i.v, IF dst.size = 2 THEN 2 ELSE 4)

\* movzx and movsx widen from a byte or a word.
EncodeWiden(opcode, dst, src) ==
  IF dst.kind = "reg" /\ OperandSize(src) \in {1, 2} /\ dst.size > OperandSize(src)
  THEN RegForm(<<15, IF OperandSize(src) = 2 THEN opcode + 1 ELSE opcode>>, dst.size, dst, src)
  ELSE Refuse

\* A jump takes the short form when its displacement does.
EncodeBranch(m, cc, o) ==
  CASE o.kind = "rel" /\ m = "jmp" ->
         IF FitsI8(o.v) THEN Imm(Op(<<235>>), o.v, 1) ELSE Imm(Op(<<233>>), o.v, 4)
    [] o.kind = "rel" /\ m = "jcc" ->
         IF FitsI8(o.v) THEN Imm(Op(<<112 + cc>>), o.v, 1)
                        ELSE Imm(Op(<<15, 128 + cc>>), o.v, 4)
    [] o.kind = "rel" /\ m = "call" -> Imm(Op(<<232>>), o.v, 4)
    [] o.kind # "rel" /\ m = "jcc" -> Refuse
    [] OTHER -> Rm(Op(<<255>>), IF m = "jmp" THEN 4 ELSE 2, o)

(***************************************************************************)
(* Instructions without operands that the code looks at.                   *)
(***************************************************************************)
Fixed ==
  [leave |-> Op(<<201>>), hlt |-> Op(<<244>>), int3 |-> Op(<<204>>),
   syscall |-> Op(<<15, 5>>), ud2 |-> Op(<<15, 11>>),
   endbr64 |-> [Op(<<15, 30>>) EXCEPT !.legacy = <<243>>, !.tail = <<250>>],
   cwde |-> Op(<<152>>), cbw |-> SetSize(Op(<<152>>), 2), cdqe |-> SetSize(Op(<<152>>), 8),
   cdq |-> Op(<<153>>), cwd |-> SetSize(Op(<<153>>), 2), cqo |-> SetSize(Op(<<153>>), 8)]

\* The first operand that has a size gives the instruction its own.
SizeOf(ops) ==
  LET sized == {k \in DOMAIN ops : OperandSize(ops[k]) # 0}
  IN  IF sized = {} THEN 0
      ELSE OperandSize(ops[CHOOSE k \in sized : \A j \in sized : k <= j])

NoOperands(i) ==
  CASE i.m = "ret" -> Op(<<195>>)
    [] i.m = "nop" -> Op(<<144>>)
    [] OTHER -> Refuse

\* inc and dec look at their first operand only.
EncodeStep(m, ops) ==
  IF SizeOf(ops) = 0 THEN Refuse
  ELSE DigitForm(ByWidth(SizeOf(ops), 254), SizeOf(ops), IF m = "inc" THEN 0 ELSE 1, ops[1])

OneOperand(m, cc, o) ==
  LET size == OperandSize(o) IN
  CASE m = "ret" -> IF o.kind = "imm" THEN Imm(Op(<<194>>), o.v, 2) ELSE Refuse
    [] m = "int" -> IF o.kind = "imm" THEN Imm(Op(<<205>>), o.v, 1) ELSE Refuse
    [] m \in Names(Unaries) ->
         IF size = 0 THEN Refuse
         ELSE DigitForm(ByWidth(size, 246), size, DigitOf(Unaries, m), o)
    [] m = "push" -> EncodePush(o)
    [] m = "pop" -> EncodePop(o)
    [] m \in {"jmp", "call", "jcc"} -> EncodeBranch(m, cc, o)
    [] m = "setcc" -> IF size \in {0, 1} THEN Rm(Op(<<15, 144 + cc>>), 0, o) ELSE Refuse
    [] m = "bswap" -> IF o.kind = "reg" /\ size # 1
                      THEN SetSize(OpcodeReg(<<15>>, 200, o), size) ELSE Refuse
    [] m = "nop" -> DigitForm(<<15, 31>>, IF size = 0 THEN 4 ELSE size, 0, o)
    [] OTHER -> Refuse

TwoOperands(m, cc, dst, src) ==
  LET size == SizeOf(<<dst, src>>) IN
  CASE m \in Names(Arithmetic) ->
         IF size = 0 THEN Refuse ELSE EncodeArith(DigitOf(Arithmetic, m) - 1, size, dst, src)
    [] m \in Names(Shifts) ->
         IF OperandSize(dst) = 0 THEN Refuse
         ELSE EncodeShift(DigitOf(Shifts, m), OperandSize(dst), dst, src)
    [] m = "mov" -> IF size = 0 THEN Refuse ELSE EncodeMov(size, dst, src)
    [] m = "test" -> IF size = 0 THEN Refuse ELSE EncodeTest(size, dst, src)
    [] m = "xchg" -> EncodeXchg(size, dst, src)
    [] m = "movzx" -> EncodeWiden(182, dst, src)
    [] m = "movsx" -> EncodeWiden(190, dst, src)
    [] m = "movsxd" -> IF dst.kind = "reg" THEN RegForm(<<99>>, dst.size, dst, src) ELSE Refuse
    [] m = "lea" -> IF dst.kind = "reg" /\ src.kind = "mem"
                    THEN RegForm(<<141>>, dst.size, dst, src) ELSE Refuse
    [] m = "imul" -> EncodeImul2(dst, src)
    [] m = "cmovcc" -> IF dst.kind = "reg" THEN RegForm(<<15, 64 + cc>>, dst.size, dst, src)
                                           ELSE Refuse
    [] OTHER -> Refuse

EmitByArity(i) ==
  CASE Len(i.ops) = 0 -> NoOperands(i)
    [] Len(i.ops) = 1 -> OneOperand(i.m, i.cc, i.ops[1])
    [] Len(i.ops) = 2 -> TwoOperands(i.m, i.cc, i.ops[1], i.ops[2])
    [] Len(i.ops) = 3 /\ i.m = "imul" -> EncodeImul3(i.ops[1], i.ops[2], i.ops[3])
    [] OTHER -> Refuse

Emit(i) ==
  CASE i.m \in DOMAIN Fixed -> Fixed[i.m]
    [] i.m \in {"inc", "dec"} -> EncodeStep(i.m, i.ops)
    [] OTHER -> EmitByArity(i)

-----------------------------------------------------------------------------
\* Mutant of NeedsRex: spl, bpl, sil and dil are taken for ah .. bh.
NeedsRexBits(e) == e.w \/ e.r \/ e.x \/ e.b
NeedsRex(e) == e.w \/ e.r \/ e.x \/ e.b \/ \E r \in e.regs : RequiresRex(r)

Bit(p, v) == IF p THEN v ELSE 0
Rex(e) ==
  IF NeedsRex(e) THEN <<64 + Bit(e.w, 8) + Bit(e.r, 4) + Bit(e.x, 2) + Bit(e.b, 1)>> ELSE <<>>

\* No bytes is a refusal.
Finish(e) ==
  IF ~e.ok \/ (NeedsRex(e) /\ \E r \in e.regs : ForbidsRex(r)) THEN <<>>
  ELSE (IF e.o16 THEN <<102>> ELSE <<>>) \o e.legacy \o Rex(e) \o e.opcode \o e.tail

Encode(i) == Finish(Emit(i))
=============================================================================
