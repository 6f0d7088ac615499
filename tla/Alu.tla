-------------------------------- MODULE Alu --------------------------------
(***************************************************************************)
(* The arithmetic core, crates/asm-emu/src/alu.rs, at a width of n bits.   *)
(* The flags kept are CF, ZF, SF and OF; PF and AF, which no condition of  *)
(* the model reads, are left out.                                          *)
(***************************************************************************)
EXTENDS Integers

CONSTANTS
  WordBits,   \* the full register width (64)
  Pow2,       \* Pow2[k] = 2^k, up to WordBits
  Logic       \* Logic[op][a][b]: the bitwise operations "and", "or", "xor"

Flags == [cf : BOOLEAN, zf : BOOLEAN, sf : BOOLEAN, of : BOOLEAN]
NoFlags == [cf |-> FALSE, zf |-> FALSE, sf |-> FALSE, of |-> FALSE]

LogicOps == {"and", "or", "xor"}

Negative(v, n) == v >= Pow2[n] \div 2
Signed(v, n) == IF Negative(v, n) THEN v - Pow2[n] ELSE v

\* The common tail: ZF and SF of a result, with the CF and OF given.
Result(v, cf, of, n) ==
  [val |-> v,
   flags |-> [cf |-> cf, zf |-> v = 0, sf |-> Negative(v, n), of |-> of]]

Bit(b) == IF b THEN 1 ELSE 0

Adc(a, b, c, n) ==
  LET res == (a + b + Bit(c)) % Pow2[n]
  IN  Result(res, a + b + Bit(c) >= Pow2[n],
             Negative(a, n) = Negative(b, n) /\ Negative(res, n) # Negative(a, n), n)

\* Mutants of Sbb: CF forgets the borrow that came in; OF is that of an addition.
SbbForgetsBorrow(a, b, c, n) ==
  LET res == (a - b - Bit(c)) % Pow2[n]
  IN  Result(res, a < b,
             Negative(a, n) # Negative(b, n) /\ Negative(res, n) # Negative(a, n), n)
SbbAddsOverflow(a, b, c, n) ==
  LET res == (a - b - Bit(c)) % Pow2[n]
  IN  Result(res, a < b + Bit(c),
             Negative(a, n) = Negative(b, n) /\ Negative(res, n) # Negative(a, n), n)

Sbb(a, b, c, n) ==
  LET res == (a - b - Bit(c)) % Pow2[n]
  IN  Result(res, a < b + Bit(c),
             Negative(a, n) # Negative(b, n) /\ Negative(res, n) # Negative(a, n), n)

LogicOp(op, a, b, n) == Result(Logic[op][a][b] % Pow2[n], FALSE, FALSE, n)

\* inc and dec are add and sub of one that leave CF alone.
KeepCarry(r, cf) == [val |-> r.val, flags |-> [r.flags EXCEPT !.cf = cf]]

(***************************************************************************)
(* Shifts and rotates.  The count is masked first; a masked count of zero  *)
(* changes no flag, OF is only written for a count of one, and a rotate    *)
(* writes neither ZF nor SF.                                               *)
(***************************************************************************)
ShiftCount(raw, n) == raw % (IF n = WordBits THEN WordBits ELSE WordBits \div 2)

\* Bit k of v.  `shl` reads the carry at bit n - c with an unchecked
\* subtraction: where c exceeds n it panics in a build with overflow checks,
\* and otherwise the wrapped shift amount finds a zero.
BitOf(v, k) == (v \div Pow2[k]) % 2 = 1
\* Mutant of RotateLeft: what falls out at the top is lost.
RotateDrops(a, c, n) == (a * Pow2[c]) % Pow2[n]

RotateLeft(a, c, n) == (a * Pow2[c] + a \div Pow2[n - c]) % Pow2[n]

ShiftValue(op, a, c, n) ==
  CASE op = "shl" -> (a * Pow2[c]) % Pow2[n]
    [] op = "shr" -> a \div Pow2[c]
    [] op = "sar" -> (Signed(a, n) \div Pow2[c]) % Pow2[n]
    [] op = "rol" -> RotateLeft(a, c % n, n)
    [] OTHER -> IF c % n = 0 THEN a ELSE RotateLeft(a, n - (c % n), n)

ShiftCarry(op, a, c, n) ==
  CASE op = "shl" -> c <= n /\ BitOf(a, n - c)
    [] op \in {"shr", "sar"} -> BitOf(a, c - 1)
    [] op = "rol" -> BitOf(ShiftValue(op, a, c, n), 0)
    [] OTHER -> Negative(ShiftValue(op, a, c, n), n)

ShiftOverflow(op, a, c, n) ==
  LET v == ShiftValue(op, a, c, n)
  IN  CASE op \in {"shl", "rol"} -> Negative(v, n) # ShiftCarry(op, a, c, n)
        [] op = "shr" -> Negative(a, n)
        [] op = "sar" -> FALSE
        [] OTHER -> Negative(v, n) # BitOf(v, n - 2)

Shift(op, a, raw, flags, n) ==
  LET c == ShiftCount(raw, n)
      v == ShiftValue(op, a, c, n)
      rotate == op \in {"rol", "ror"}
  IN  IF c = 0 THEN [val |-> a, flags |-> flags]
      ELSE [val |-> v,
            flags |-> [cf |-> ShiftCarry(op, a, c, n),
                       zf |-> IF rotate THEN flags.zf ELSE v = 0,
                       sf |-> IF rotate THEN flags.sf ELSE Negative(v, n),
                       of |-> IF c = 1 THEN ShiftOverflow(op, a, c, n) ELSE flags.of]]

(***************************************************************************)
(* Double-width multiply and divide (exec_mul, exec_imul and divmod in     *)
(* cpu.rs).                                                                *)
(***************************************************************************)
\* The product's low and high half, and whether the high half matters.
Product(a, b, n) ==
  [low |-> (a * b) % Pow2[n], high |-> ((a * b) \div Pow2[n]) % Pow2[n]]

\* Division that truncates towards zero, by a positive or negative divisor.
Magnitude(v) == IF v < 0 THEN -v ELSE v
Quotient(a, b) ==
  LET q == Magnitude(a) \div Magnitude(b) IN IF (a < 0) = (b < 0) THEN q ELSE -q
\* Mutant of Remainder: its sign is never that of the dividend.
RemainderUnsigned(a, b) == Magnitude(a - b * Quotient(a, b))

Remainder(a, b) == a - b * Quotient(a, b)

\* high:low by d.  A zero divisor or a quotient that does not fit in n bits is
\* a divide fault.
Fits(q, signed, n) ==
  IF signed THEN q >= -(Pow2[n] \div 2) /\ q < Pow2[n] \div 2 ELSE q < Pow2[n]

Divide(signed, high, low, d, n) ==
  LET dividend == (IF signed THEN Signed(high, n) ELSE high) * Pow2[n] + low
      divisor == IF signed THEN Signed(d, n) ELSE d
      q == Quotient(dividend, divisor)
  IN  IF d = 0 \/ ~Fits(q, signed, n)
        THEN [fault |-> "divide", quot |-> 0, rem |-> 0]
        ELSE [fault |-> "none", quot |-> q % Pow2[n],
              rem |-> Remainder(dividend, divisor) % Pow2[n]]

\* Condition codes, `Flags::eval`.
Holds(cond, f) ==
  CASE cond = "o" -> f.of            [] cond = "no" -> ~f.of
    [] cond = "b" -> f.cf            [] cond = "ae" -> ~f.cf
    [] cond = "e" -> f.zf            [] cond = "ne" -> ~f.zf
    [] cond = "be" -> f.cf \/ f.zf   [] cond = "a" -> ~f.cf /\ ~f.zf
    [] cond = "s" -> f.sf            [] cond = "ns" -> ~f.sf
    [] cond = "l" -> f.sf # f.of     [] cond = "ge" -> f.sf = f.of
    [] cond = "le" -> f.zf \/ f.sf # f.of
    [] OTHER -> ~f.zf /\ f.sf = f.of
=============================================================================
