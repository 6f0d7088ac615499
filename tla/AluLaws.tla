------------------------------ MODULE AluLaws ------------------------------
(***************************************************************************)
(* What the arithmetic core promises, stated against ordinary arithmetic:  *)
(* a behaviour picks operands, computes one operation of alu.rs on them,   *)
(* and the laws relate what came out to what went in.                      *)
(***************************************************************************)
EXTENDS Alu

CONSTANTS
  Widths,     \* operand widths, at most WordBits
  Seconds     \* the values of the second operand

ASSUME PowersDouble ==
  /\ WordBits \in Nat \ {0}
  /\ Pow2 \in [0 .. WordBits -> Nat \ {0}]
  /\ Pow2[0] = 1 /\ \A k \in 1 .. WordBits : Pow2[k] = 2 * Pow2[k - 1]
ASSUME WidthsFit == Widths \subseteq 1 .. WordBits

VARIABLES width, a, b, high, flags, op, result

vars == <<width, a, b, high, flags, op, result>>

Values(n) == 0 .. Pow2[n] - 1
Pending == [val |-> 0, flags |-> NoFlags, fault |-> "pending"]
Ok(r) == [val |-> r.val, flags |-> r.flags, fault |-> "none"]

Init ==
  /\ width \in Widths
  /\ a \in Values(width)
  /\ b \in Seconds \cap Values(width)
  /\ high \in {0, 1, Pow2[width] - 1} \cap Values(width)
  /\ \E c \in BOOLEAN : flags = [NoFlags EXCEPT !.cf = c, !.zf = ~c]
  /\ op = "none"
  /\ result = Pending

Computes(o, r) ==
  /\ op = "none"
  /\ op' = o
  /\ result' = r
  /\ UNCHANGED <<width, a, b, high, flags>>

AddWithCarry == Computes("adc", Ok(Adc(a, b, flags.cf, width)))
SubWithBorrow == Computes("sbb", Ok(Sbb(a, b, flags.cf, width)))
Compare == Computes("cmp", Ok(Sbb(a, b, FALSE, width)))

ShiftOrRotate ==
  \E o \in {"shl", "shr", "sar", "rol", "ror"} :
    Computes(o, Ok(Shift(o, a, b, flags, width)))

DivideBy ==
  \E signed \in BOOLEAN :
    LET d == Divide(signed, high, a, b, width)
    IN  Computes(IF signed THEN "idiv" ELSE "div",
                 [val |-> <<d.quot, d.rem>>, flags |-> flags, fault |-> d.fault])

Next == AddWithCarry \/ SubWithBorrow \/ Compare \/ ShiftOrRotate \/ DivideBy
Spec == Init /\ [][Next]_vars

-----------------------------------------------------------------------------
After(o) == op = o /\ result.fault = "none"
InSigned(v) == v >= -(Pow2[width] \div 2) /\ v < Pow2[width] \div 2

\* Multi-word arithmetic: CF is exactly the carry (borrow) that the next adc
\* (sbb) must add, and OF exactly whether the signed result does not fit.
CarriesChain ==
  /\ After("adc") =>
       /\ result.val + Bit(result.flags.cf) * Pow2[width] = a + b + Bit(flags.cf)
       /\ result.flags.of =
            ~InSigned(Signed(a, width) + Signed(b, width) + Bit(flags.cf))
  /\ After("sbb") =>
       /\ result.val - Bit(result.flags.cf) * Pow2[width] = a - b - Bit(flags.cf)
       /\ result.flags.of =
            ~InSigned(Signed(a, width) - Signed(b, width) - Bit(flags.cf))

\* The condition codes mean what the lessons say after a cmp: "below" and
\* "above" order the operands as unsigned numbers, "less" and "greater" as
\* signed ones, whatever overflowed on the way.
ConditionsOrder ==
  After("cmp") =>
    /\ Holds("e", result.flags) = (a = b)
    /\ Holds("b", result.flags) = (a < b)
    /\ Holds("be", result.flags) = (a <= b)
    /\ Holds("a", result.flags) = (a > b)
    /\ Holds("ae", result.flags) = (a >= b)
    /\ Holds("l", result.flags) = (Signed(a, width) < Signed(b, width))
    /\ Holds("le", result.flags) = (Signed(a, width) <= Signed(b, width))
    /\ Holds("g", result.flags) = (Signed(a, width) > Signed(b, width))
    /\ Holds("ge", result.flags) = (Signed(a, width) >= Signed(b, width))

\* Shifts agree with the arithmetic they stand for: shl by one is an add to
\* itself, flags and all; shr and sar divide, rounding down; the two rotates
\* undo each other; a count that masks to zero changes nothing at all.
ShiftsAreArithmetic ==
  LET c == ShiftCount(b, width) IN
  /\ After("shl") /\ c = 1 =>
       result.val = Adc(a, a, FALSE, width).val
         /\ result.flags = Adc(a, a, FALSE, width).flags
  /\ After("shr") => result.val = a \div Pow2[c]
  /\ After("sar") =>
       LET q == Signed(a, width) \div Pow2[c]
       IN  Signed(result.val, width) = q
  /\ After("rol") => Shift("ror", result.val, b, flags, width).val = a
  /\ After("ror") => Shift("rol", result.val, b, flags, width).val = a
  /\ op \in {"shl", "shr", "sar", "rol", "ror"} /\ c = 0 =>
       result.val = a /\ result.flags = flags

\* div and idiv fault exactly when there is no n-bit quotient, and otherwise
\* quotient and remainder rebuild the dividend, the remainder being smaller
\* than the divisor and of the dividend's sign.
DivisionRebuilds ==
  LET signed == op = "idiv"
      S(v) == IF signed THEN Signed(v, width) ELSE v
      dividend == S(high) * Pow2[width] + a
      \* the remainder that goes with quotient q
      R(q) == dividend - S(q) * S(b)
      Works(q) ==
        /\ Magnitude(R(q)) < Magnitude(S(b))
        /\ R(q) # 0 => (R(q) < 0) = (dividend < 0)
  IN  op \in {"div", "idiv"} =>
        IF result.fault = "none"
          THEN Works(result.val[1]) /\ S(result.val[2]) = R(result.val[1])
          ELSE \A q \in Values(width) : ~Works(q)
=============================================================================
