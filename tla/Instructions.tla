---------------------------- MODULE Instructions ----------------------------
(***************************************************************************)
(* Instructions as the encoder and the decoder see them: registers and     *)
(* their widths (crates/asm-core/src/reg.rs), operands (operand.rs), and   *)
(* the bytes of immediates and displacements.                              *)
(*                                                                         *)
(* Opcode, prefix, ModRM and SIB bytes are the bytes of the machine.  A    *)
(* byte of an immediate or a displacement holds one of Radix values        *)
(* instead of 256, so that a value of eight bytes is still a small number: *)
(* what matters is which widths a value fits, and where the sign is.       *)
(***************************************************************************)
EXTENDS Integers, Sequences, FiniteSets

CONSTANT Radix
ASSUME RadixIsEven == Radix \in Nat \ {0} /\ Radix % 2 = 0

\* Sizes are byte counts; 0 is an operand without one.
Size == {1, 2, 4, 8}

\* r is one of the sixteen registers at a width, or a high byte (ah .. bh).
Register(num, size) == [kind |-> "reg", num |-> num, size |-> size, high |-> FALSE]
HighByte(num) == [kind |-> "reg", num |-> num, size |-> 1, high |-> TRUE]
NoReg == [kind |-> "none", num |-> 0, size |-> 0, high |-> FALSE]

RequiresRex(r) == r.num >= 8 \/ (r.size = 1 /\ ~r.high /\ r.num >= 4)
ForbidsRex(r) == r.high

\* `seg` is the prefix byte of the segment register, 0 for none.
Memory(seg, base, index, scale, disp, size, rip) ==
  [kind |-> "mem", seg |-> seg, base |-> base, index |-> index, scale |-> scale,
   disp |-> disp, size |-> size, rip |-> rip]
IsAbsolute(m) == m.base = NoReg /\ m.index = NoReg /\ ~m.rip

Immediate(v) == [kind |-> "imm", v |-> v]
Relative(v) == [kind |-> "rel", v |-> v]

OperandSize(o) == IF o.kind \in {"reg", "mem"} THEN o.size ELSE 0
IsWriteTarget(o) == o.kind \in {"reg", "mem"}

Registers == [kind : {"reg"}, num : Nat, size : Size, high : BOOLEAN]
Memories ==
  [kind : {"mem"}, seg : Nat, base : Registers \cup {NoReg}, index : Registers \cup {NoReg},
   scale : Int, disp : Int, size : Size \cup {0}, rip : BOOLEAN]
Operand == Registers \cup Memories \cup [kind : {"imm", "rel"}, v : Int]

\* cc is the condition of a jcc, setcc or cmovcc, and 0 in the others.
Instruction(m, cc, ops) == [m |-> m, cc |-> cc, ops |-> ops]

-----------------------------------------------------------------------------
\* Two's complement, little-endian, n bytes.
LittleEndian(v, n) == [i \in 1 .. n |-> (v \div Radix^(i - 1)) % Radix]

SignExtend(bytes) ==
  LET n == Len(bytes)
      Up[i \in 0 .. n] == IF i = 0 THEN 0 ELSE Up[i - 1] + bytes[i] * Radix^(i - 1)
  IN  IF 2 * Up[n] < Radix^n THEN Up[n] ELSE Up[n] - Radix^n

FitsSigned(v, n) == -(Radix^n \div 2) <= v /\ v < Radix^n \div 2
FitsI8(v) == FitsSigned(v, 1)

\* An immediate fits n bytes if it fits either reading of them.
Fits(v, n) == n = 8 \/ (-(Radix^n \div 2) <= v /\ v < Radix^n)

\* The eight operations of opcodes 00 .. 3f and of group 1, the shifts by their
\* ModRM digit, and the unary group by its digit.
Arithmetic == <<"add", "or", "adc", "sbb", "and", "sub", "xor", "cmp">>
Shifts == [d \in {0, 1, 2, 3, 4, 5, 7} |->
             CASE d = 0 -> "rol" [] d = 1 -> "ror" [] d = 2 -> "rcl" [] d = 3 -> "rcr"
               [] d = 4 -> "shl" [] d = 5 -> "shr" [] d = 7 -> "sar"]
Unaries == [d \in 2 .. 7 |-> <<"not", "neg", "mul", "imul", "div", "idiv">>[d - 1]]

\* The place of a mnemonic in such a table.
DigitOf(table, m) == CHOOSE d \in DOMAIN table : table[d] = m
Names(table) == {table[d] : d \in DOMAIN table}
=============================================================================
