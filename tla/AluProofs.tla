----------------------------- MODULE AluProofs -----------------------------
(***************************************************************************)
(* The laws of the arithmetic core, for every width and all operands: the  *)
(* solver is given the one quotient and remainder there is, and the rest   *)
(* is arithmetic on integers.                                              *)
(***************************************************************************)
EXTENDS AluLaws, WellFoundedInduction, TLAPS

(***************************************************************************)
(* Quotients and remainders.                                               *)
(***************************************************************************)
\* A product is at least as large as a positive factor of it.
LEMMA MultiplesGrow ==
  ASSUME NEW m \in Nat \ {0}, NEW d \in Int, d >= 1
  PROVE  m * d \in Int /\ m * d >= m
<1> DEFINE e == d - 1
<1>1. e \in Nat /\ d = e + 1
  OBVIOUS
<1>2. m * e >= 0 /\ m * e \in Int
  BY <1>1
<1>3. m * d = m * e + m
  BY <1>1
<1>. QED  BY <1>2, <1>3

\* There is one quotient and one remainder.
LEMMA DivisionIsUnique ==
  ASSUME NEW m \in Nat \ {0}, NEW q \in Int, NEW p \in Int,
         NEW r \in Nat, NEW s \in Nat, r < m, s < m, m * q + r = m * p + s
  PROVE  q = p /\ r = s
<1>1. ASSUME NEW x \in Int, NEW y \in Int, NEW u \in Nat, NEW v \in Nat, u < m, v < m,
             m * x + u = m * y + v, x > y
      PROVE  FALSE
  <2>1. x - y \in Int /\ x - y >= 1
    BY <1>1
  <2>2. m * (x - y) >= m
    BY <2>1, MultiplesGrow
  <2>3. m * (x - y) = m * x - m * y
    BY <1>1
  <2> DEFINE mx == m * x
             my == m * y
  <2>4. mx \in Int /\ my \in Int /\ mx - my >= m /\ mx + u = my + v
    BY <1>1, <2>2, <2>3
  <2> HIDE DEF mx, my
  <2>. QED  BY <1>1, <2>4
<1>2. ~(q > p) /\ ~(p > q)
  BY <1>1
<1>3. q = p
  BY <1>2
<1>4. r = s
  <2> DEFINE mq == m * q
  <2>1. mq \in Int /\ mq + r = mq + s
    BY <1>3
  <2> HIDE DEF mq
  <2>. QED  BY <2>1
<1>. QED  BY <1>3, <1>4

\* So what is a quotient and a remainder is what \div and % say.
LEMMA DivModAre ==
  ASSUME NEW m \in Nat \ {0}, NEW v \in Int, NEW q \in Int, NEW r \in Nat, r < m,
         v = m * q + r
  PROVE  v \div m = q /\ v % m = r
<1> DEFINE p == v \div m
           s == v % m
<1>1. p \in Int /\ s \in Nat /\ s < m /\ v = m * p + s
  <2>1. p \in Int /\ s \in Int /\ 0 <= s /\ s < m
    OBVIOUS
  <2>2. v = m * p + s
    OBVIOUS
  <2>. QED  BY <2>1, <2>2
<1> HIDE DEF p, s
<1>2. m * q + r = m * p + s
  BY <1>1
<1>3. q = p /\ r = s
  BY <1>1, <1>2, DivisionIsUnique
<1>. QED  BY <1>3 DEF p, s

\* A number that is at most one modulus away from its range.
Wraps(m, v) ==
  /\ v >= 0 /\ v < m => v % m = v /\ v \div m = 0
  /\ v >= m /\ v < m + m => v % m = v - m /\ v \div m = 1
  /\ v < 0 /\ -m <= v => v % m = v + m /\ v \div m = -1

LEMMA ModIs ==
  ASSUME NEW m \in Nat \ {0}, NEW v \in Int
  PROVE  Wraps(m, v)
<1>1. ASSUME v >= 0, v < m
      PROVE  v % m = v /\ v \div m = 0
  <2>1. v \in Nat /\ 0 \in Int /\ v = m * 0 + v
    BY <1>1
  <2>. QED  BY <1>1, <2>1, DivModAre
<1>2. ASSUME v >= m, v < m + m
      PROVE  v % m = v - m /\ v \div m = 1
  <2>1. v - m \in Nat /\ v - m < m /\ 1 \in Int /\ v = m * 1 + (v - m)
    BY <1>2
  <2>. QED  BY <2>1, DivModAre
<1>3. ASSUME v < 0, -m <= v
      PROVE  v % m = v + m /\ v \div m = -1
  <2>1. v + m \in Nat /\ v + m < m /\ -1 \in Int /\ v = m * (-1) + (v + m)
    BY <1>3
  <2>. QED  BY <2>1, DivModAre
<1>. QED  BY <1>1, <1>2, <1>3 DEF Wraps

(***************************************************************************)
(* Words of n bits: numbers below twice some half.                         *)
(***************************************************************************)
Half(n) == Pow2[n - 1]

LEMMA HalvesDouble ==
  ASSUME NEW n \in 1 .. WordBits
  PROVE  /\ Half(n) \in Nat \ {0} /\ Pow2[n] \in Nat \ {0}
         /\ Pow2[n] = Half(n) + Half(n) /\ Pow2[n] \div 2 = Half(n)
<1>1. n - 1 \in 0 .. WordBits /\ n \in 0 .. WordBits
  BY PowersDouble
<1>2. Half(n) \in Nat \ {0} /\ Pow2[n] \in Nat \ {0} /\ Pow2[n] = 2 * Half(n)
  BY <1>1, PowersDouble DEF Half
<1> DEFINE h == Half(n)
           m == Pow2[n]
<1>3. h \in Nat \ {0} /\ m \in Nat \ {0} /\ m = 2 * h
  BY <1>2
<1> HIDE DEF h, m
<1>4. m = h + h /\ m \div 2 = h
  BY <1>3
<1>. QED  BY <1>2, <1>4 DEF h, m

\* What the operators say of a word.
SignOf(n, v) ==
  /\ v \in Nat /\ v < Half(n) + Half(n)
  /\ Negative(v, n) <=> v >= Half(n)
  /\ v >= Half(n) => Signed(v, n) = v - Half(n) - Half(n)
  /\ v < Half(n) => Signed(v, n) = v

LEMMA SignsOf ==
  ASSUME NEW n \in 1 .. WordBits, NEW v \in Values(n)
  PROVE  SignOf(n, v)
<1> DEFINE h == Half(n)
           m == Pow2[n]
<1>1. h \in Nat \ {0} /\ m = h + h /\ m \div 2 = h
  BY HalvesDouble
<1>2. v \in 0 .. m - 1
  BY DEF Values
<1>3. /\ Negative(v, n) <=> v >= m \div 2
      /\ Signed(v, n) = IF Negative(v, n) THEN v - m ELSE v
  BY DEF Negative, Signed
<1> DEFINE g == Negative(v, n)
<1> HIDE DEF h, m, g
<1>4. v \in Nat /\ v < h + h
  BY <1>1, <1>2
<1>5. g <=> v >= h
  BY <1>1, <1>3 DEF g
<1>6. /\ v >= h => Signed(v, n) = v - h - h
      /\ v < h => Signed(v, n) = v
  <2>1. CASE v >= h
    <3>1. Signed(v, n) = v - m
      BY <1>3, <1>5, <2>1 DEF g
    <3>. QED  BY <1>1, <1>4, <2>1, <3>1
  <2>2. CASE v < h
    <3>1. Signed(v, n) = v
      BY <1>1, <1>3, <1>4, <1>5, <2>2 DEF g
    <3>. QED  BY <1>1, <1>4, <2>2, <3>1
  <2>. QED  BY <1>1, <1>4, <2>1, <2>2
<1>. QED  BY <1>4, <1>5, <1>6 DEF SignOf, h, g

LEMMA BitIs == \A c : (c => Bit(c) = 1) /\ (~c => Bit(c) = 0)
BY DEF Bit

\* Numbers of two halves: the wrapped sum of two is too large, or too small, for its
\* sign exactly if the signs of both are the one it has lost.
LEMMA SumsOverflow ==
  ASSUME NEW h \in Nat \ {0}, NEW x \in Nat, NEW y \in Nat, NEW w \in Nat,
         NEW res \in Nat, NEW sx \in Int, NEW sy \in Int,
         x < h + h, y < h + h, w <= 1,
         x + y + w < h + h => res = x + y + w,
         x + y + w >= h + h => res = x + y + w - h - h,
         x >= h => sx = x - h - h, x < h => sx = x,
         y >= h => sy = y - h - h, y < h => sy = y
  PROVE  (x >= h <=> y >= h) /\ ~(res >= h <=> x >= h)
           <=> ~(sx + sy + w >= -h /\ sx + sy + w < h)
OBVIOUS

\* And of a difference.
LEMMA DifferencesOverflow ==
  ASSUME NEW h \in Nat \ {0}, NEW x \in Nat, NEW y \in Nat, NEW w \in Nat,
         NEW res \in Nat, NEW sx \in Int, NEW sy \in Int,
         x < h + h, y < h + h, w <= 1,
         x >= y + w => res = x - y - w,
         x < y + w => res = x - y - w + h + h,
         x >= h => sx = x - h - h, x < h => sx = x,
         y >= h => sy = y - h - h, y < h => sy = y
  PROVE  ~(x >= h <=> y >= h) /\ ~(res >= h <=> x >= h)
           <=> ~(sx - sy - w >= -h /\ sx - sy - w < h)
OBVIOUS

\* The order of what was subtracted, as the flags have it.
LEMMA DifferencesOrder ==
  ASSUME NEW h \in Nat \ {0}, NEW x \in Nat, NEW y \in Nat,
         NEW res \in Nat, NEW sx \in Int, NEW sy \in Int,
         x < h + h, y < h + h,
         x >= y => res = x - y,
         x < y => res = x - y + h + h,
         x >= h => sx = x - h - h, x < h => sx = x,
         y >= h => sy = y - h - h, y < h => sy = y
  PROVE  /\ res = 0 <=> x = y
         /\ ~(res >= h <=> ~(x >= h <=> y >= h) /\ ~(res >= h <=> x >= h)) <=> sx < sy
         /\ x = y <=> sx = sy
OBVIOUS

-----------------------------------------------------------------------------
(***************************************************************************)
(* Addition and subtraction.                                               *)
(***************************************************************************)
\* The carry of an addition rebuilds the sum, and its overflow is that of the signed sum.
AdcAdds(n, x, y, c) ==
  LET r == Adc(x, y, c, n)
      sum == Signed(x, n) + Signed(y, n) + Bit(c)
  IN  /\ r.val + Bit(r.flags.cf) * Pow2[n] = x + y + Bit(c)
      /\ r.flags.of <=> ~(sum >= -Half(n) /\ sum < Half(n))
      /\ r.flags.of \in BOOLEAN

LEMMA AdditionLaw ==
  ASSUME NEW n \in 1 .. WordBits, NEW x \in Values(n), NEW y \in Values(n), NEW c \in BOOLEAN
  PROVE  AdcAdds(n, x, y, c)
<1> DEFINE h == Half(n)
           m == Pow2[n]
           w == Bit(c)
           s == x + y + w
           res == s % m
           cf == Adc(x, y, c, n).flags.cf
           of == Adc(x, y, c, n).flags.of
           sx == Signed(x, n)
           sy == Signed(y, n)
<1>1. h \in Nat \ {0} /\ m = h + h /\ m \in Nat \ {0}
  BY HalvesDouble
<1>2. SignOf(n, x) /\ SignOf(n, y)
  BY SignsOf
<1>3. w \in Nat /\ w <= 1
  BY BitIs
<1>4. x \in Nat /\ y \in Nat /\ x < h + h /\ y < h + h
  BY <1>2 DEF SignOf
<1>5. s \in Nat /\ s < m + m
  BY <1>1, <1>3, <1>4
<1>6. /\ s < m => res = s
      /\ s >= m => res = s - m
  <2> HIDE DEF s, m
  <2>1. s \in Int /\ Wraps(m, s)
    BY <1>1, <1>5, ModIs
  <2>. QED  BY <1>1, <1>5, <2>1 DEF Wraps
<1>7. res \in Nat /\ res < m
  <2> HIDE DEF s, m
  <2>. QED  BY <1>1, <1>5
<1>8. SignOf(n, res)
  <2>1. res \in Values(n)
    <3> HIDE DEF res
    <3>. QED  BY <1>1, <1>7 DEF Values
  <2>. QED  BY <2>1, SignsOf
<1>9. /\ Adc(x, y, c, n).val = res /\ (cf <=> s >= m)
      /\ (of <=> (Negative(x, n) = Negative(y, n) /\ Negative(res, n) # Negative(x, n)))
      /\ of \in BOOLEAN
  BY DEF Adc, Result
<1>10. /\ Negative(x, n) \in BOOLEAN /\ Negative(y, n) \in BOOLEAN /\ Negative(res, n) \in BOOLEAN
       /\ (Negative(x, n) <=> x >= h) /\ (Negative(y, n) <=> y >= h)
       /\ (Negative(res, n) <=> res >= h)
  BY <1>2, <1>8 DEF SignOf, Negative
<1>11. /\ sx \in Int /\ sy \in Int
       /\ x >= h => sx = x - h - h
       /\ x < h => sx = x
       /\ y >= h => sy = y - h - h
       /\ y < h => sy = y
  BY <1>1, <1>2, <1>4 DEF SignOf
<1> HIDE DEF h, m, res, w, sx, sy, cf, of
<1>12. res + Bit(cf) * m = s
  <2>1. CASE s >= m
    <3>1. Bit(cf) = 1
      BY <1>9, <2>1, BitIs
    <3>. QED  BY <1>1, <1>5, <1>6, <2>1, <3>1
  <2>2. CASE s < m
    <3>1. ~cf
      BY <1>1, <1>5, <1>9, <2>2
    <3>2. Bit(cf) = 0
      BY <3>1, BitIs
    <3>. QED  BY <1>1, <1>5, <1>6, <1>7, <2>2, <3>2
  <2>. QED  BY <1>1, <1>5, <2>1, <2>2
<1>13. (x >= h <=> y >= h) /\ ~(res >= h <=> x >= h)
         <=> ~(sx + sy + w >= -h /\ sx + sy + w < h)
  <2>1. /\ x + y + w < h + h => res = x + y + w
        /\ x + y + w >= h + h => res = x + y + w - h - h
    BY <1>1, <1>3, <1>4, <1>6
  <2>. QED  BY <1>1, <1>3, <1>4, <1>7, <1>11, <2>1, SumsOverflow
<1>14. of <=> ~(sx + sy + w >= -h /\ sx + sy + w < h)
  BY <1>9, <1>10, <1>13
<1>. QED  BY <1>9, <1>12, <1>14 DEF AdcAdds, h, m, w, cf, of, sx, sy

\* The borrow of a subtraction rebuilds the difference; without one coming in, the
\* flags order the operands.
SbbSubtracts(n, x, y, c) ==
  LET r == Sbb(x, y, c, n)
      dif == Signed(x, n) - Signed(y, n) - Bit(c)
  IN  /\ r.val - Bit(r.flags.cf) * Pow2[n] = x - y - Bit(c)
      /\ r.flags.of <=> ~(dif >= -Half(n) /\ dif < Half(n))
      /\ r.flags \in Flags

CmpOrders(n, x, y) ==
  LET f == Sbb(x, y, FALSE, n).flags
  IN  /\ f \in Flags
      /\ x \in Int /\ y \in Int /\ Signed(x, n) \in Int /\ Signed(y, n) \in Int
      /\ f.zf <=> x = y
      /\ f.cf <=> x < y
      /\ f.sf # f.of <=> Signed(x, n) < Signed(y, n)
      /\ x = y <=> Signed(x, n) = Signed(y, n)

LEMMA SubtractionLaw ==
  ASSUME NEW n \in 1 .. WordBits, NEW x \in Values(n), NEW y \in Values(n), NEW c \in BOOLEAN
  PROVE  SbbSubtracts(n, x, y, c) /\ (~c => CmpOrders(n, x, y))
<1> DEFINE h == Half(n)
           m == Pow2[n]
           w == Bit(c)
           s == x - y - w
           res == s % m
           f == Sbb(x, y, c, n).flags
           sx == Signed(x, n)
           sy == Signed(y, n)
<1>1. h \in Nat \ {0} /\ m = h + h /\ m \in Nat \ {0}
  BY HalvesDouble
<1>2. SignOf(n, x) /\ SignOf(n, y)
  BY SignsOf
<1>3. w \in Nat /\ w <= 1
  BY BitIs
<1>4. x \in Nat /\ y \in Nat /\ x < h + h /\ y < h + h
  BY <1>2 DEF SignOf
<1>5. s \in Int /\ s < m /\ -m <= s
  BY <1>1, <1>3, <1>4
<1>6. /\ s >= 0 => res = s
      /\ s < 0 => res = s + m
  <2> HIDE DEF s, m
  <2>1. s \in Int /\ Wraps(m, s)
    BY <1>1, <1>5, ModIs
  <2>. QED  BY <1>1, <1>5, <2>1 DEF Wraps
<1>7. res \in Nat /\ res < m
  <2> HIDE DEF s, m
  <2>. QED  BY <1>1, <1>5
<1>8. SignOf(n, res)
  <2>1. res \in Values(n)
    <3> HIDE DEF res
    <3>. QED  BY <1>1, <1>7 DEF Values
  <2>. QED  BY <2>1, SignsOf
<1>9. /\ Sbb(x, y, c, n).val = res /\ (f.cf <=> x < y + w) /\ (f.zf <=> res = 0)
      /\ f.sf = Negative(res, n)
      /\ (f.of <=> (Negative(x, n) # Negative(y, n) /\ Negative(res, n) # Negative(x, n)))
      /\ f.of \in BOOLEAN
  BY DEF Sbb, Result
<1>10. /\ Negative(x, n) \in BOOLEAN /\ Negative(y, n) \in BOOLEAN /\ Negative(res, n) \in BOOLEAN
       /\ (Negative(x, n) <=> x >= h) /\ (Negative(y, n) <=> y >= h)
       /\ (Negative(res, n) <=> res >= h)
  BY <1>2, <1>8 DEF SignOf, Negative
<1>11. f \in Flags
  BY <1>10 DEF Sbb, Result, Flags
<1>12. /\ sx \in Int /\ sy \in Int
       /\ x >= h => sx = x - h - h
       /\ x < h => sx = x
       /\ y >= h => sy = y - h - h
       /\ y < h => sy = y
  BY <1>1, <1>2, <1>4 DEF SignOf
<1> HIDE DEF h, m, res, w, sx, sy, f
<1>13. /\ x >= y + w => res = x - y - w
       /\ x < y + w => res = x - y - w + h + h
  BY <1>1, <1>3, <1>4, <1>6
<1>14. res - Bit(f.cf) * m = s
  <2>1. CASE x < y + w
    <3>1. Bit(f.cf) = 1
      BY <1>9, <2>1, BitIs
    <3>. QED  BY <1>1, <1>3, <1>4, <1>7, <1>13, <2>1, <3>1
  <2>2. CASE x >= y + w
    <3>1. ~f.cf
      BY <1>3, <1>4, <1>9, <2>2
    <3>2. Bit(f.cf) = 0
      BY <3>1, BitIs
    <3>. QED  BY <1>1, <1>3, <1>4, <1>7, <1>13, <2>2, <3>2
  <2>. QED  BY <1>3, <1>4, <2>1, <2>2
<1>15. f.of <=> ~(sx - sy - w >= -h /\ sx - sy - w < h)
  <2>1. ~(x >= h <=> y >= h) /\ ~(res >= h <=> x >= h)
          <=> ~(sx - sy - w >= -h /\ sx - sy - w < h)
    BY <1>1, <1>3, <1>4, <1>7, <1>12, <1>13, DifferencesOverflow
  <2>. QED  BY <1>9, <1>10, <2>1
<1>16. SbbSubtracts(n, x, y, c)
  BY <1>9, <1>11, <1>14, <1>15 DEF SbbSubtracts, h, m, w, f, sx, sy
<1>17. ASSUME ~c
       PROVE  CmpOrders(n, x, y)
  <2>1. w = 0 /\ c = FALSE
    BY <1>17, BitIs DEF w
  <2>2. /\ res = 0 <=> x = y
        /\ ~(res >= h <=> ~(x >= h <=> y >= h) /\ ~(res >= h <=> x >= h)) <=> sx < sy
        /\ x = y <=> sx = sy
    <3>1. /\ x >= y => res = x - y
          /\ x < y => res = x - y + h + h
      BY <1>1, <1>4, <1>13, <2>1
    <3>. QED  BY <1>1, <1>4, <1>7, <1>12, <3>1, DifferencesOrder
  <2>3. (f.zf <=> x = y) /\ (f.cf <=> x < y)
    BY <1>4, <1>9, <2>1, <2>2
  <2>4. f.sf # f.of <=> sx < sy
    BY <1>9, <1>10, <2>2
  <2>5. Sbb(x, y, FALSE, n).flags = f
    BY <2>1 DEF f
  <2>6. x \in Int /\ y \in Int /\ sx \in Int /\ sy \in Int /\ (x = y <=> sx = sy)
    BY <1>4, <1>12, <2>2
  <2>. QED  BY <1>11, <2>3, <2>4, <2>5, <2>6, Zenon DEF CmpOrders, sx, sy
<1>. QED  BY <1>16, <1>17

-----------------------------------------------------------------------------
(***************************************************************************)
(* Shifts and rotates.                                                     *)
(***************************************************************************)
\* A set that holds 0, and each number up to n after the one before it.
LEMMA OneByOne ==
  ASSUME NEW n \in Nat, NEW S, 0 \in S, \A k \in 1 .. n : k - 1 \in S => k \in S
  PROVE  \A k \in 0 .. n : k \in S
<1> DEFINE missing == {k \in 0 .. n : k \notin S}
<1>1. ASSUME missing # {}
      PROVE  FALSE
  <2>1. missing \in SUBSET Nat
    OBVIOUS
  <2>2. PICK k \in missing : \A j \in missing : ~(<<j, k>> \in OpToRel(<, Nat))
    <3> HIDE DEF missing
    <3>. QED  BY <1>1, <2>1, WFMin, NatLessThanWellFounded
  <2>3. k \in 1 .. n /\ k - 1 \in 0 .. n /\ k - 1 < k /\ k - 1 \in Nat /\ k \in Nat
    <3>1. k \in 0 .. n /\ k \notin S
      OBVIOUS
    <3>2. k # 0
      BY <3>1, Zenon
    <3>. QED  BY <3>1, <3>2
  <2>4. k - 1 \notin missing
    <3> HIDE DEF missing
    <3>. QED  BY <2>2, <2>3 DEF OpToRel
  <2>. QED  BY <2>2, <2>3, <2>4
<1>. QED  BY <1>1

\* The powers of two multiply.
LEMMA PowersMultiply ==
  ASSUME NEW i \in Nat, NEW j \in Nat, i + j <= WordBits
  PROVE  /\ Pow2[i] \in Nat \ {0} /\ Pow2[j] \in Nat \ {0}
         /\ Pow2[i + j] = Pow2[i] * Pow2[j]
<1> DEFINE S == {k \in Nat : Pow2[k + j] = Pow2[k] * Pow2[j]}
<1>1. WordBits \in Nat /\ \A k \in 0 .. WordBits : Pow2[k] \in Nat \ {0}
  BY PowersDouble
<1>2. i \in 0 .. WordBits /\ j \in 0 .. WordBits
  BY <1>1
<1>3. 0 \in S
  <2>1. Pow2[0] = 1 /\ 0 + j = j /\ Pow2[j] \in Nat
    BY <1>1, <1>2, PowersDouble
  <2>. QED  BY <2>1
<1>4. ASSUME NEW k \in 1 .. i, k - 1 \in S
      PROVE  k \in S
  <2>1. k \in 1 .. WordBits /\ k + j \in 1 .. WordBits /\ (k - 1) + j = (k + j) - 1 /\ k \in Nat
        /\ (k + j) - 1 \in 0 .. WordBits /\ k - 1 \in 0 .. WordBits
    BY <1>1
  <2>2. Pow2[k] = 2 * Pow2[k - 1] /\ Pow2[k + j] = 2 * Pow2[(k + j) - 1]
    BY <2>1, PowersDouble
  <2>3. Pow2[(k + j) - 1] = Pow2[k - 1] * Pow2[j]
    BY <1>4, <2>1
  <2>4. ASSUME NEW p \in Nat, NEW q \in Nat
        PROVE  2 * (p * q) = (2 * p) * q
    OBVIOUS
  <2>5. Pow2[k - 1] \in Nat /\ Pow2[j] \in Nat
    BY <1>1, <1>2, <2>1
  <2>6. Pow2[k + j] = Pow2[k] * Pow2[j]
    BY <2>2, <2>3, <2>4, <2>5
  <2>. QED  BY <2>1, <2>6
<1>5. i \in S
  <2> HIDE DEF S
  <2>1. \A k \in 0 .. i : k \in S
    BY <1>3, <1>4, OneByOne
  <2>. QED  BY <2>1
<1>. QED  BY <1>1, <1>2, <1>5

\* One rotation: the high part comes down, the low part goes up.
LEMMA Rotates ==
  ASSUME NEW p \in Nat \ {0}, NEW q \in Nat \ {0}, NEW hi \in Nat, NEW lo \in Nat,
         hi < p, lo < q
  PROVE  ((q * hi + lo) * p + ((q * hi + lo) \div q)) % (p * q) = p * lo + hi
<1> DEFINE m == p * q
           w == p * lo + hi
<1>1. (q * hi + lo) \div q = hi
  <2>1. q * hi + lo \in Int
    OBVIOUS
  <2>. QED  BY <2>1, DivModAre
<1>2. (q * hi + lo) * p + hi = m * hi + w
  <2>1. (q * hi + lo) * p = (p * q) * hi + p * lo
    OBVIOUS
  <2> DEFINE x == (p * q) * hi
             y == p * lo
  <2>2. x \in Int /\ y \in Int /\ (q * hi + lo) * p = x + y
    BY <2>1
  <2> HIDE DEF x, y
  <2>3. (q * hi + lo) * p + hi = x + (y + hi)
    BY <2>2
  <2>. QED  BY <2>3 DEF x, y
<1>3. m \in Nat \ {0} /\ w \in Nat /\ w < m
  <2>1. p * (q - lo) >= p
    BY MultiplesGrow
  <2>2. p * (q - lo) = p * q - p * lo
    OBVIOUS
  <2> DEFINE y == p * lo
  <2>3. m \in Int /\ y \in Nat /\ m - y >= p
    BY <2>1, <2>2
  <2>4. w = y + hi
    OBVIOUS
  <2> HIDE DEF m, y, w
  <2>. QED  BY <2>3, <2>4
<1> HIDE DEF m, w
<1>4. (m * hi + w) % m = w
  <2>1. m * hi + w \in Int
    BY <1>3
  <2>. QED  BY <1>3, <2>1, DivModAre
<1>. QED  BY <1>1, <1>2, <1>4 DEF m, w

\* So two rotations that make a full turn change nothing.
LEMMA FullTurn ==
  ASSUME NEW n \in 1 .. WordBits, NEW x \in Values(n), NEW j \in 1 .. n - 1
  PROVE  RotateLeft(RotateLeft(x, j, n), n - j, n) = x
<1> DEFINE k == n - j
           p == Pow2[j]
           q == Pow2[k]
           hi == x \div q
           lo == x % q
           w == p * lo + hi
<1>1. j \in Nat /\ k \in Nat /\ j + k = n /\ n - k = j /\ j + k <= WordBits
  BY PowersDouble
<1>2. p \in Nat \ {0} /\ q \in Nat \ {0} /\ Pow2[n] = p * q
  <2> HIDE DEF k
  <2>. QED  BY <1>1, PowersMultiply
<1>3. x \in Nat /\ x < p * q
  BY <1>2 DEF Values
<1> HIDE DEF k, p, q
<1>4. hi \in Nat /\ lo \in Nat /\ lo < q /\ x = q * hi + lo /\ hi < p
  <2>1. hi \in Int /\ lo \in Nat /\ lo < q
    BY <1>2, <1>3
  <2>2. x = q * hi + lo
    BY <1>2, <1>3
  <2> HIDE DEF hi, lo
  <2>3. hi >= 0
    <3>1. CASE hi < 0
      <4>1. q * (-hi) >= q
        BY <1>2, <2>1, <3>1, MultiplesGrow
      <4>2. q * (-hi) = -(q * hi)
        BY <1>2, <2>1
      <4> DEFINE y == q * hi
      <4>3. y \in Int /\ -y >= q /\ x = y + lo
        BY <1>2, <2>1, <2>2, <4>1, <4>2
      <4> HIDE DEF y
      <4>. QED  BY <1>2, <1>3, <2>1, <4>3
    <3>. QED  BY <2>1, <3>1
  <2>4. hi < p
    <3>1. CASE hi >= p
      <4>1. hi - p \in Nat
        BY <1>2, <2>1, <3>1
      <4>2. q * (hi - p) >= 0 /\ q * (hi - p) = q * hi - p * q
        BY <1>2, <2>1, <4>1
      <4> DEFINE y == q * hi
                 z == p * q
      <4>3. y \in Int /\ z \in Int /\ y - z >= 0 /\ x = y + lo /\ x < z
        BY <1>2, <1>3, <2>1, <2>2, <4>2
      <4> HIDE DEF y, z
      <4>. QED  BY <2>1, <4>3
    <3>. QED  BY <1>2, <2>1, <3>1
  <2>. QED  BY <2>1, <2>2, <2>3, <2>4
<1> HIDE DEF hi, lo
<1>5. RotateLeft(x, j, n) = w
  <2>1. ((q * hi + lo) * p + ((q * hi + lo) \div q)) % (p * q) = p * lo + hi
    BY <1>2, <1>4, Rotates
  <2>2. RotateLeft(x, j, n) = (x * p + (x \div q)) % (p * q)
    BY <1>2 DEF RotateLeft, p, q, k
  <2>. QED  BY <1>4, <2>1, <2>2
<1>6. RotateLeft(w, k, n) = x
  <2>1. ((p * lo + hi) * q + ((p * lo + hi) \div p)) % (q * p) = q * hi + lo
    BY <1>2, <1>4, Rotates
  <2>2. q * p = p * q
    BY <1>2
  <2>3. RotateLeft(w, k, n) = (w * q + (w \div p)) % (p * q)
    BY <1>1, <1>2 DEF RotateLeft, p, q
  <2>. QED  BY <1>4, <2>1, <2>2, <2>3
<1>. QED  BY <1>5, <1>6 DEF k

\* The masked count, and the powers it is used with.
LEMMA CountFits ==
  ASSUME NEW n \in 1 .. WordBits, NEW raw \in Nat
  PROVE  /\ ShiftCount(raw, n) \in 0 .. WordBits - 1
         /\ Pow2[ShiftCount(raw, n)] \in Nat \ {0}
         /\ ShiftCount(raw, n) % n \in 0 .. n - 1
<1> DEFINE top == IF n = WordBits THEN WordBits ELSE WordBits \div 2
           c == ShiftCount(raw, n)
<1>1. WordBits \in Nat \ {0} /\ n \in Nat \ {0} /\ n <= WordBits
  BY PowersDouble
<1>2. top \in Nat \ {0} /\ top <= WordBits
  BY <1>1
<1>3. c = raw % top
  BY DEF ShiftCount
<1> HIDE DEF top, c
<1>4. c \in Nat /\ c < top
  BY <1>2, <1>3
<1>5. c \in 0 .. WordBits - 1 /\ c \in 0 .. WordBits
  BY <1>1, <1>2, <1>4
<1>6. Pow2[c] \in Nat \ {0}
  BY <1>5, PowersDouble
<1>7. c % n \in 0 .. n - 1
  BY <1>1, <1>4
<1>. QED  BY <1>5, <1>6, <1>7 DEF c

\* A rotation by nothing.
LEMMA NoTurn ==
  ASSUME NEW n \in 1 .. WordBits, NEW x \in Values(n)
  PROVE  RotateLeft(x, 0, n) = x
<1> DEFINE m == Pow2[n]
<1>1. m \in Nat \ {0} /\ x \in Nat /\ x < m
  BY HalvesDouble DEF Values
<1>2. Pow2[0] = 1 /\ n - 0 = n
  BY PowersDouble
<1>3. RotateLeft(x, 0, n) = (x * 1 + (x \div m)) % m
  BY <1>2 DEF RotateLeft
<1> HIDE DEF m
<1>4. Wraps(m, x)
  BY <1>1, ModIs
<1>5. x \div m = 0 /\ x % m = x
  BY <1>1, <1>4 DEF Wraps
<1>6. x * 1 + 0 = x
  BY <1>1
<1>. QED  BY <1>3, <1>5, <1>6

\* What comes out of a rotation goes back in by the other one.
LEMMA RotationLaw ==
  ASSUME NEW n \in 1 .. WordBits, NEW x \in Values(n), NEW raw \in Nat, NEW f, NEW g
  PROVE  /\ Shift("ror", Shift("rol", x, raw, f, n).val, raw, g, n).val = x
         /\ Shift("rol", Shift("ror", x, raw, f, n).val, raw, g, n).val = x
<1> DEFINE c == ShiftCount(raw, n)
           j == c % n
           L(v) == RotateLeft(v, j, n)
           R(v) == IF j = 0 THEN v ELSE RotateLeft(v, n - j, n)
<1>1. j \in 0 .. n - 1 /\ n \in Nat
  <2>1. j \in 0 .. n - 1
    BY CountFits, Zenon
  <2>. QED  BY <2>1, PowersDouble
<1>2. ASSUME c = 0
      PROVE  \A v, h : Shift("rol", v, raw, h, n).val = v /\ Shift("ror", v, raw, h, n).val = v
  BY <1>2 DEF Shift
<1>3. ASSUME c # 0
      PROVE  \A v, h : /\ Shift("rol", v, raw, h, n).val = L(v)
                       /\ Shift("ror", v, raw, h, n).val = R(v)
  BY <1>3 DEF Shift, ShiftValue
<1>4. R(L(x)) = x /\ L(R(x)) = x
  <2>1. CASE j = 0
    BY <2>1, NoTurn
  <2>2. CASE j # 0
    <3>1. j \in 1 .. n - 1 /\ n - j \in 1 .. n - 1 /\ n - (n - j) = j
      BY <1>1, <2>2
    <3> HIDE DEF j
    <3>2. RotateLeft(RotateLeft(x, j, n), n - j, n) = x
      BY <3>1, FullTurn
    <3>3. RotateLeft(RotateLeft(x, n - j, n), n - (n - j), n) = x
      BY <3>1, FullTurn
    <3>. QED  BY <2>2, <3>1, <3>2, <3>3
  <2>. QED  BY <2>1, <2>2
<1> HIDE DEF c, L, R
<1>. QED  BY <1>2, <1>3, <1>4, Zenon

\* A signed quotient by a positive number stays in the range of what is divided.
LEMMA QuotientStays ==
  ASSUME NEW h \in Nat \ {0}, NEW p \in Nat \ {0}, NEW v \in Int, v >= -h, v < h
  PROVE  v \div p \in Int /\ v \div p >= -h /\ v \div p < h
<1> DEFINE q == v \div p
           r == v % p
<1>1. q \in Int /\ r \in Nat /\ r < p
  OBVIOUS
<1>2. v = p * q + r
  OBVIOUS
<1> HIDE DEF q, r
<1> DEFINE y == p * q
<1>3. CASE q >= 1
  <2>1. p * q >= q
    <3>1. (p - 1) * q >= 0 /\ (p - 1) * q = p * q - q
      BY <1>1, <1>3
    <3>. QED  BY <1>1, <3>1
  <2>2. y \in Int /\ y >= q /\ v = y + r
    BY <1>1, <1>2, <2>1
  <2> HIDE DEF y
  <2>. QED  BY <1>1, <1>3, <2>2 DEF q
<1>4. CASE q = 0
  BY <1>4 DEF q
<1>5. CASE q <= -1
  <2> DEFINE e == -q - 1
  <2>1. e \in Nat /\ q = -e - 1
    BY <1>1, <1>5
  <2>2. (p - 1) * e >= 0 /\ (p - 1) * e \in Int
    BY <2>1
  <2>3. p * q = -((p - 1) * e) - e - p
    BY <2>1
  <2> DEFINE z == (p - 1) * e
  <2>4. z \in Int /\ z >= 0 /\ y = -z - e - p /\ v = y + r
    BY <1>1, <1>2, <2>2, <2>3
  <2> HIDE DEF y, z, e
  <2>5. q >= -h
    BY <1>1, <2>1, <2>4
  <2>. QED  BY <1>1, <1>5, <2>5 DEF q
<1>. QED  BY <1>1, <1>3, <1>4, <1>5

\* A number in the signed range is what the word it wraps to is read as.
LEMMA SignedWraps ==
  ASSUME NEW n \in 1 .. WordBits, NEW v \in Int, v >= -Half(n), v < Half(n)
  PROVE  v % Pow2[n] \in Values(n) /\ Signed(v % Pow2[n], n) = v
<1> DEFINE h == Half(n)
           m == Pow2[n]
           w == v % m
<1>1. h \in Nat \ {0} /\ m = h + h /\ m \in Nat \ {0}
  BY HalvesDouble
<1>2. v >= -h /\ v < h
  OBVIOUS
<1> HIDE DEF h, m
<1>3. Wraps(m, v)
  BY <1>1, ModIs
<1>4. /\ v >= 0 => w = v
      /\ v < 0 => w = v + m
  BY <1>1, <1>2, <1>3 DEF Wraps
<1> HIDE DEF w
<1>5. w \in Nat /\ w < m
  BY <1>1, <1>2, <1>4
<1>6. w \in Values(n)
  BY <1>1, <1>5 DEF Values, m
<1>7. SignOf(n, w)
  BY <1>6, SignsOf
<1>8. /\ w >= h => Signed(w, n) = w - h - h
      /\ w < h => Signed(w, n) = w
  BY <1>7 DEF SignOf, h
<1>9. Signed(w, n) = v
  BY <1>1, <1>2, <1>4, <1>5, <1>8
<1>. QED  BY <1>6, <1>9 DEF w, m

\* A left shift by one is an addition to itself, with its flags.
LEMMA DoublingLaw ==
  ASSUME NEW n \in 1 .. WordBits, NEW x \in Values(n), NEW raw \in Nat, NEW f,
         ShiftCount(raw, n) = 1
  PROVE  Shift("shl", x, raw, f, n) = Adc(x, x, FALSE, n)
<1> DEFINE h == Half(n)
           m == Pow2[n]
           v == (x + x) % m
           add == Adc(x, x, FALSE, n)
           shl == Shift("shl", x, raw, f, n)
           carry == ShiftCarry("shl", x, 1, n)
<1>1. h \in Nat \ {0} /\ m = h + h /\ m \in Nat \ {0}
  BY HalvesDouble
<1>2. x \in Nat /\ x < h + h /\ (Negative(x, n) <=> x >= h)
  BY SignsOf DEF SignOf
<1>3. Pow2[1] = 2 /\ 1 <= n
  BY PowersDouble
<1>4. x * Pow2[1] = x + x /\ x + x + Bit(FALSE) = x + x
  <2>1. Bit(FALSE) = 0
    BY BitIs
  <2>2. x * 2 = x + x /\ x + x + 0 = x + x
    BY <1>2
  <2>. QED  BY <1>3, <2>1, <2>2
<1>5. ShiftValue("shl", x, 1, n) = v
  BY <1>4 DEF ShiftValue
<1>6. add = [val |-> v,
             flags |-> [cf |-> x + x >= m, zf |-> v = 0, sf |-> Negative(v, n),
                        of |-> Negative(x, n) = Negative(x, n)
                                 /\ Negative(v, n) # Negative(x, n)]]
  BY <1>4 DEF Adc, Result
<1>7. shl = [val |-> v,
             flags |-> [cf |-> carry, zf |-> v = 0, sf |-> Negative(v, n),
                        of |-> Negative(v, n) # carry]]
  BY <1>5 DEF Shift, ShiftOverflow
<1>8. carry \in BOOLEAN /\ (carry <=> x >= h)
  <2>1. carry <=> BitOf(x, n - 1)
    BY <1>3 DEF ShiftCarry
  <2>2. BitOf(x, n - 1) <=> (x \div h) % 2 = 1
    BY DEF BitOf, Half
  <2>3. carry \in BOOLEAN
    BY DEF ShiftCarry, BitOf
  <2> HIDE DEF h, carry
  <2>4. Wraps(h, x)
    BY <1>1, <1>2, ModIs
  <2>5. CASE x >= h
    <3>1. x \div h = 1
      BY <1>1, <1>2, <2>4, <2>5 DEF Wraps
    <3>2. 1 % 2 = 1
      OBVIOUS
    <3>. QED  BY <2>1, <2>2, <2>3, <2>5, <3>1, <3>2
  <2>6. CASE x < h
    <3>1. x \div h = 0
      BY <1>1, <1>2, <2>4, <2>6 DEF Wraps
    <3>2. 0 % 2 = 0 /\ ~(x >= h)
      BY <1>1, <1>2, <2>6
    <3>. QED  BY <2>1, <2>2, <2>3, <3>1, <3>2
  <2>. QED  BY <1>1, <1>2, <2>5, <2>6
<1>9. (x + x >= m) = carry /\ Negative(x, n) = carry
  <2>1. Negative(x, n) \in BOOLEAN /\ (x + x >= m) \in BOOLEAN
    BY DEF Negative
  <2>2. x + x >= m <=> x >= h
    BY <1>1, <1>2
  <2>. QED  BY <1>2, <1>8, <2>1, <2>2
<1>10. (Negative(x, n) = Negative(x, n) /\ Negative(v, n) # Negative(x, n))
         = (Negative(v, n) # carry)
  BY <1>9
<1> HIDE DEF carry, v, add, shl
<1>11. add = shl
  BY <1>6, <1>7, <1>9, <1>10
<1>. QED  BY <1>11 DEF add, shl

\* Shifts are the arithmetic they stand for.
ShiftsCompute(n, x, raw, f) ==
  LET c == ShiftCount(raw, n) IN
  /\ Shift("shr", x, raw, f, n).val = x \div Pow2[c]
  /\ Signed(Shift("sar", x, raw, f, n).val, n) = Signed(x, n) \div Pow2[c]
  /\ c = 0 => \A o : Shift(o, x, raw, f, n) = [val |-> x, flags |-> f]

LEMMA ShiftLaw ==
  ASSUME NEW n \in 1 .. WordBits, NEW x \in Values(n), NEW raw \in Nat, NEW f
  PROVE  ShiftsCompute(n, x, raw, f)
<1> DEFINE c == ShiftCount(raw, n)
           h == Half(n)
           p == Pow2[c]
           s == Signed(x, n)
<1>1. p \in Nat \ {0}
  BY CountFits, Zenon
<1>2. h \in Nat \ {0}
  BY HalvesDouble
<1>3. x \in Nat /\ s \in Int /\ s >= -h /\ s < h
  <2>1. SignOf(n, x)
    BY SignsOf
  <2> HIDE DEF h, s
  <2>. QED  BY <1>2, <2>1 DEF SignOf, h, s
<1>4. ASSUME c = 0
      PROVE  /\ \A o : Shift(o, x, raw, f, n) = [val |-> x, flags |-> f]
             /\ x \div p = x /\ s \div p = s
  <2>1. p = 1
    BY <1>4, PowersDouble
  <2>2. \A o : Shift(o, x, raw, f, n) = [val |-> x, flags |-> f]
    BY <1>4 DEF Shift
  <2> HIDE DEF p, s
  <2>. QED  BY <1>3, <2>1, <2>2
<1>5. ASSUME c # 0
      PROVE  /\ Shift("shr", x, raw, f, n).val = x \div p
             /\ Shift("sar", x, raw, f, n).val = (s \div p) % Pow2[n]
  BY <1>5 DEF Shift, ShiftValue
<1>6. Signed((s \div p) % Pow2[n], n) = s \div p
  <2> DEFINE q == s \div p
  <2>1. q \in Int /\ q >= -h /\ q < h
    <3> HIDE DEF s, h, p
    <3>. QED  BY <1>1, <1>2, <1>3, QuotientStays
  <2> HIDE DEF q
  <2>2. Signed(q % Pow2[n], n) = q
    BY <2>1, SignedWraps
  <2>. QED  BY <2>2 DEF q
<1> HIDE DEF p, s, c
<1>7. CASE c = 0
  BY <1>4, <1>7 DEF ShiftsCompute, c, p, s
<1>8. CASE c # 0
  BY <1>5, <1>6, <1>8 DEF ShiftsCompute, c, p, s
<1>. QED  BY <1>7, <1>8

-----------------------------------------------------------------------------
(***************************************************************************)
(* Division.                                                               *)
(***************************************************************************)
\* One sign of the dividend, one of the divisor: what multiplies out.
LEMMA ProductOfSigns ==
  ASSUME NEW e \in Int, NEW q \in Int
  PROVE  /\ e * q \in Int /\ e * (-q) = -(e * q) /\ (-e) * q = -(e * q)
         /\ (-e) * (-q) = e * q /\ q * e = e * q
OBVIOUS

LEMMA MagnitudeIs ==
  ASSUME NEW v \in Int
  PROVE  /\ v < 0 => Magnitude(v) = -v
         /\ v >= 0 => Magnitude(v) = v
         /\ Magnitude(v) \in Nat
         /\ v # 0 => Magnitude(v) \in Nat \ {0}
BY DEF Magnitude

\* A remainder that goes with a quotient: smaller than the divisor, of the dividend's sign.
Leaves(D, e, r) ==
  /\ Magnitude(r) < Magnitude(e)
  /\ r # 0 => (r < 0 <=> D < 0)

\* Truncation towards zero leaves such a remainder.
LEMMA QuotientLeaves ==
  ASSUME NEW D \in Int, NEW e \in Int, e # 0
  PROVE  /\ Quotient(D, e) \in Int /\ Remainder(D, e) \in Int
         /\ Remainder(D, e) = D - e * Quotient(D, e)
         /\ Leaves(D, e, Remainder(D, e))
         /\ D >= 0 /\ e >= 0 => Quotient(D, e) >= 0 /\ Remainder(D, e) >= 0
<1> DEFINE A == Magnitude(D)
           m == Magnitude(e)
           k == A \div m
           r == A % m
           q == Quotient(D, e)
           R == Remainder(D, e)
           P == m * k
<1>1. A \in Nat /\ m \in Nat \ {0}
  BY MagnitudeIs
<1>2. /\ D < 0 => A = -D
      /\ D >= 0 => A = D
      /\ e < 0 => m = -e
      /\ e >= 0 => m = e
  BY MagnitudeIs
<1>3. q = IF (D < 0) = (e < 0) THEN k ELSE -k
  BY DEF Quotient
<1>4. R = D - e * q
  BY DEF Remainder
<1> HIDE DEF A, m, q, R
<1>5. k \in Int /\ r \in Nat /\ r < m /\ A = m * k + r
  <2>1. k \in Int /\ r \in Nat /\ r < m
    BY <1>1
  <2>2. A = m * k + r
    BY <1>1
  <2>. QED  BY <2>1, <2>2
<1>6. k >= 0
  <2>1. CASE k < 0
    <3> HIDE DEF k, r
    <3>1. m * (-k) >= m /\ m * (-k) = -(m * k)
      BY <1>1, <1>5, <2>1, MultiplesGrow
    <3>2. P \in Int /\ -P >= m /\ A = P + r
      BY <1>1, <1>5, <3>1
    <3> HIDE DEF P
    <3>. QED  BY <1>1, <1>5, <3>2
  <2>. QED  BY <1>5, <2>1
<1> HIDE DEF k, r
<1>7. P \in Int /\ A = P + r
  BY <1>1, <1>5
<1>8. /\ e < 0 => e * k = -P /\ e * (-k) = P
      /\ e >= 0 => e * k = P /\ e * (-k) = -P
  <2>1. CASE e < 0
    <3>1. e = -m
      BY <1>2, <2>1
    <3>2. (-m) * k = -(m * k) /\ (-m) * (-k) = m * k
      BY <1>1, <1>5, ProductOfSigns
    <3>. QED  BY <2>1, <3>1, <3>2
  <2>2. CASE e >= 0
    <3>1. e = m
      BY <1>2, <2>2
    <3>2. m * (-k) = -(m * k)
      BY <1>1, <1>5, ProductOfSigns
    <3>. QED  BY <2>2, <3>1, <3>2
  <2>. QED  BY <2>1, <2>2
<1> HIDE DEF P
<1>9. /\ D < 0 => e * q = -P /\ R = -r
      /\ D >= 0 => e * q = P /\ R = r
  <2>1. CASE D < 0 /\ e < 0
    <3>1. q = k
      BY <1>3, <2>1
    <3>2. e * q = -P
      BY <1>8, <2>1, <3>1
    <3>. QED  BY <1>2, <1>4, <1>5, <1>7, <2>1, <3>2
  <2>2. CASE D < 0 /\ e >= 0
    <3>1. q = -k
      BY <1>3, <2>2
    <3>2. e * q = -P
      BY <1>8, <2>2, <3>1
    <3>. QED  BY <1>2, <1>4, <1>5, <1>7, <2>2, <3>2
  <2>3. CASE D >= 0 /\ e < 0
    <3>1. q = -k
      BY <1>3, <2>3
    <3>2. e * q = P
      BY <1>8, <2>3, <3>1
    <3>. QED  BY <1>2, <1>4, <1>5, <1>7, <2>3, <3>2
  <2>4. CASE D >= 0 /\ e >= 0
    <3>1. q = k
      BY <1>3, <2>4
    <3>2. e * q = P
      BY <1>8, <2>4, <3>1
    <3>. QED  BY <1>2, <1>4, <1>5, <1>7, <2>4, <3>2
  <2>. QED  BY <2>1, <2>2, <2>3, <2>4
<1>10. q \in Int /\ R \in Int
  <2>1. q \in Int
    BY <1>3, <1>5
  <2>. QED  BY <1>5, <1>9, <2>1
<1>11. Leaves(D, e, R)
  <2>1. Magnitude(R) = r
    BY <1>5, <1>9, <1>10, MagnitudeIs
  <2>2. R # 0 => (R < 0 <=> D < 0)
    BY <1>5, <1>9
  <2>. QED  BY <1>5, <2>1, <2>2 DEF Leaves, m
<1>12. D >= 0 /\ e >= 0 => q >= 0 /\ R >= 0
  BY <1>3, <1>5, <1>6, <1>9
<1>. QED  BY <1>4, <1>10, <1>11, <1>12 DEF q, R

\* And nothing else does.
LEMMA QuotientIsUnique ==
  ASSUME NEW D \in Int, NEW e \in Int, e # 0, NEW q \in Int, Leaves(D, e, D - q * e)
  PROVE  q = Quotient(D, e)
<1> DEFINE A == Magnitude(D)
           m == Magnitude(e)
           P == q * e
           R == D - P
           r == Magnitude(R)
           k == IF (D < 0) = (e < 0) THEN q ELSE -q
<1>1. P \in Int /\ R \in Int
  OBVIOUS
<1>2. A \in Nat /\ m \in Nat \ {0} /\ r \in Nat
  <2> HIDE DEF R
  <2>. QED  BY <1>1, MagnitudeIs
<1>3. r < m /\ (R # 0 => (R < 0 <=> D < 0))
  BY DEF Leaves
<1>4. /\ D < 0 => A = -D
      /\ D >= 0 => A = D
      /\ e < 0 => m = -e
      /\ e >= 0 => m = e
      /\ R < 0 => r = -R
      /\ R >= 0 => r = R
  <2> HIDE DEF R
  <2>. QED  BY <1>1, MagnitudeIs
<1>5. Quotient(D, e) = IF (D < 0) = (e < 0) THEN A \div m ELSE -(A \div m)
  BY DEF Quotient
<1>6. k \in Int
  OBVIOUS
<1>7. /\ D < 0 => m * k = -P
      /\ D >= 0 => m * k = P
  <2>1. /\ e * q \in Int /\ e * (-q) = -(e * q) /\ (-e) * q = -(e * q)
        /\ (-e) * (-q) = e * q /\ q * e = e * q
    BY ProductOfSigns
  <2>2. CASE D < 0 /\ e < 0
    <3>1. m = -e /\ k = q
      BY <1>4, <2>2
    <3>. QED  BY <2>1, <2>2, <3>1
  <2>3. CASE D < 0 /\ e >= 0
    <3>1. m = e /\ k = -q
      BY <1>4, <2>3
    <3>. QED  BY <2>1, <2>3, <3>1
  <2>4. CASE D >= 0 /\ e < 0
    <3>1. m = -e /\ k = -q
      BY <1>4, <2>4
    <3>. QED  BY <2>1, <2>4, <3>1
  <2>5. CASE D >= 0 /\ e >= 0
    <3>1. m = e /\ k = q
      BY <1>4, <2>5
    <3>. QED  BY <2>1, <2>5, <3>1
  <2>. QED  BY <2>2, <2>3, <2>4, <2>5
<1> DEFINE y == m * k
<1>8. y \in Int /\ A = y + r
  <2>1. R = D - P
    OBVIOUS
  <2>2. D < 0 => y = -P
    BY <1>7
  <2>3. D >= 0 => y = P
    BY <1>7
  <2> HIDE DEF A, m, P, R, r, k, y
  <2>. QED  BY <1>1, <1>2, <1>3, <1>4, <2>1, <2>2, <2>3
<1>9. A = m * k + r
  BY <1>8
<1> HIDE DEF A, m, r, k, P, R, y
<1>10. A \div m = k
  <2>1. A \in Int
    BY <1>2
  <2>. QED  BY <1>2, <1>3, <1>6, <1>9, <2>1, DivModAre
<1>. QED  BY <1>5, <1>10 DEF k

\* What a word is read as: itself, or its signed value.
Read(signed, v, n) == IF signed THEN Signed(v, n) ELSE v

\* A word as it is read, and back.
LEMMA WordsAreRead ==
  ASSUME NEW n \in 1 .. WordBits, NEW signed \in BOOLEAN, NEW v \in Values(n)
  PROVE  /\ Read(signed, v, n) \in Int
         /\ Read(signed, v, n) = 0 <=> v = 0
         /\ Fits(Read(signed, v, n), signed, n)
         /\ ~signed => Read(signed, v, n) >= 0
         /\ Magnitude(Read(signed, v, n)) <= (IF signed THEN Half(n) ELSE Pow2[n])
<1> DEFINE h == Half(n)
           m == Pow2[n]
           w == Read(signed, v, n)
<1>1. h \in Nat \ {0} /\ m = h + h /\ m \in Nat \ {0} /\ m \div 2 = h
  BY HalvesDouble
<1>2. SignOf(n, v)
  BY SignsOf
<1>3. /\ v \in Nat /\ v < h + h
      /\ v >= h => Signed(v, n) = v - h - h
      /\ v < h => Signed(v, n) = v
  BY <1>2 DEF SignOf
<1>4. /\ signed => w = Signed(v, n)
      /\ ~signed => w = v
  BY DEF Read
<1>5. Fits(w, signed, n) <=> IF signed THEN w >= -h /\ w < h ELSE w < m
  BY <1>1 DEF Fits
<1> HIDE DEF h, m, w
<1>6. /\ w \in Int /\ (w = 0 <=> v = 0)
      /\ signed => w >= -h /\ w < h
      /\ ~signed => w >= 0 /\ w < m
  BY <1>1, <1>3, <1>4
<1>7. Magnitude(w) <= (IF signed THEN h ELSE m)
  BY <1>1, <1>6, MagnitudeIs
<1>. QED  BY <1>5, <1>6, <1>7 DEF h, m, w

LEMMA NumbersAreWritten ==
  ASSUME NEW n \in 1 .. WordBits, NEW signed \in BOOLEAN, NEW v \in Int,
         Fits(v, signed, n), ~signed => v >= 0
  PROVE  Read(signed, v % Pow2[n], n) = v
<1> DEFINE h == Half(n)
           m == Pow2[n]
<1>1. h \in Nat \ {0} /\ m \in Nat \ {0} /\ m \div 2 = h
  BY HalvesDouble
<1>2. CASE signed
  <2>1. v >= -h /\ v < h
    BY <1>1, <1>2 DEF Fits
  <2>2. Signed(v % m, n) = v
    BY <2>1, SignedWraps
  <2>. QED  BY <1>2, <2>2 DEF Read
<1>3. CASE ~signed
  <2>1. v >= 0 /\ v < m
    BY <1>3 DEF Fits
  <2> HIDE DEF m
  <2>2. Wraps(m, v)
    BY <1>1, ModIs
  <2>3. v % m = v
    BY <2>1, <2>2 DEF Wraps
  <2>. QED  BY <1>3, <2>3 DEF Read, m
<1>. QED  BY <1>2, <1>3

\* Division rebuilds the dividend, and faults only where nothing would.
Rebuilds(signed, n, hi, lo, d) ==
  LET r == Divide(signed, hi, lo, d, n)
      dividend == Read(signed, hi, n) * Pow2[n] + lo
      R(q) == dividend - Read(signed, q, n) * Read(signed, d, n)
      Works(q) == Leaves(dividend, Read(signed, d, n), R(q))
  IN  IF r.fault = "none"
        THEN Works(r.quot) /\ Read(signed, r.rem, n) = R(r.quot)
        ELSE \A q \in Values(n) : ~Works(q)

LEMMA DivisionLaw ==
  ASSUME NEW n \in 1 .. WordBits, NEW signed \in BOOLEAN,
         NEW hi \in Values(n), NEW lo \in Values(n), NEW d \in Values(n)
  PROVE  Rebuilds(signed, n, hi, lo, d)
<1> DEFINE m == Pow2[n]
           e == Read(signed, d, n)
           D == Read(signed, hi, n) * m + lo
           Q == Quotient(D, e)
           R == Remainder(D, e)
           ok == d # 0 /\ Fits(Q, signed, n)
<1>1. Half(n) \in Nat \ {0} /\ m \in Nat \ {0} /\ m = Half(n) + Half(n) /\ m \div 2 = Half(n)
  BY HalvesDouble
<1>2. /\ e \in Int /\ (e = 0 <=> d = 0) /\ (~signed => e >= 0)
      /\ Magnitude(e) <= (IF signed THEN Half(n) ELSE m)
  BY WordsAreRead
<1>3. D \in Int /\ (~signed => D >= 0)
  <2>1. Read(signed, hi, n) \in Int /\ (~signed => Read(signed, hi, n) >= 0)
    BY WordsAreRead
  <2>2. lo \in Nat
    BY <1>1 DEF Values
  <2> DEFINE t == Read(signed, hi, n)
  <2>3. t \in Int /\ (~signed => t >= 0)
    BY <2>1
  <2> HIDE DEF t, m
  <2>4. t * m \in Int
    BY <1>1, <2>3
  <2>5. ~signed => t * m >= 0
    BY <1>1, <2>3
  <2> DEFINE u == t * m
  <2>6. u \in Int /\ (~signed => u >= 0) /\ D = u + lo
    BY <2>4, <2>5 DEF t
  <2> HIDE DEF u
  <2>. QED  BY <2>2, <2>6
<1>4. /\ ok => Divide(signed, hi, lo, d, n) = [fault |-> "none", quot |-> Q % m, rem |-> R % m]
      /\ ~ok => Divide(signed, hi, lo, d, n).fault = "divide"
  BY DEF Divide, Read
<1>5. Rebuilds(signed, n, hi, lo, d) <=>
        LET r == Divide(signed, hi, lo, d, n)
        IN  IF r.fault = "none"
              THEN /\ Leaves(D, e, D - Read(signed, r.quot, n) * e)
                   /\ Read(signed, r.rem, n) = D - Read(signed, r.quot, n) * e
              ELSE \A q \in Values(n) : ~Leaves(D, e, D - Read(signed, q, n) * e)
  BY DEF Rebuilds
<1> HIDE DEF m, e, D, Q, R
<1>6. ASSUME e # 0
      PROVE  /\ Q \in Int /\ R \in Int /\ R = D - e * Q /\ Leaves(D, e, R)
             /\ ~signed => Q >= 0 /\ R >= 0
  BY <1>2, <1>3, <1>6, QuotientLeaves DEF Q, R
<1>7. CASE ok
  <2>1. e # 0
    BY <1>2, <1>7
  <2>2. Q \in Int /\ R \in Int /\ R = D - e * Q /\ Leaves(D, e, R) /\ (~signed => Q >= 0 /\ R >= 0)
    BY <1>6, <2>1
  <2>3. Read(signed, Q % m, n) = Q
    BY <1>7, <2>2, NumbersAreWritten DEF m
  <2>4. Read(signed, R % m, n) = R
    <3>1. Magnitude(R) < (IF signed THEN Half(n) ELSE m)
      <4>1. Magnitude(R) < Magnitude(e)
        BY <2>2 DEF Leaves
      <4>2. Magnitude(R) \in Nat /\ Magnitude(e) \in Nat
        BY <1>2, <2>2, MagnitudeIs
      <4>. QED  BY <1>1, <1>2, <4>1, <4>2
    <3>2. IF signed THEN R >= -Half(n) /\ R < Half(n) ELSE R < m
      <4>1. /\ R < 0 => Magnitude(R) = -R
            /\ R >= 0 => Magnitude(R) = R
        BY <2>2, MagnitudeIs
      <4> DEFINE x == Magnitude(R)
                 h == Half(n)
      <4>2. /\ R < 0 => x = -R
            /\ R >= 0 => x = R
            /\ signed => x < h
            /\ ~signed => x < m
        BY <3>1, <4>1
      <4>3. h \in Nat /\ R \in Int /\ m \in Nat /\ (~signed => R >= 0)
        BY <1>1, <2>2
      <4> HIDE DEF x, h
      <4>4. signed => R >= -h /\ R < h
        BY <4>2, <4>3
      <4>5. ~signed => R < m
        BY <4>2, <4>3
      <4>. QED  BY <4>4, <4>5 DEF h
    <3>3. Fits(R, signed, n)
      BY <1>1, <3>2 DEF Fits, m
    <3>. QED  BY <2>2, <3>3, NumbersAreWritten DEF m
  <2>5. Q * e = e * Q
    BY <1>2, <2>2
  <2> DEFINE r == Divide(signed, hi, lo, d, n)
  <2>6. r.fault = "none" /\ r.quot = Q % m /\ r.rem = R % m
    BY <1>4, <1>7
  <2> HIDE DEF r
  <2>7. D - Read(signed, r.quot, n) * e = R
    BY <2>2, <2>3, <2>5, <2>6
  <2>. QED  BY <1>5, <2>2, <2>4, <2>6, <2>7 DEF r
<1>8. CASE ~ok
  <2>1. ASSUME NEW q \in Values(n), Leaves(D, e, D - Read(signed, q, n) * e)
        PROVE  FALSE
    <3> DEFINE p == Read(signed, q, n)
    <3>1. p \in Int /\ Fits(p, signed, n)
      BY WordsAreRead
    <3> HIDE DEF p
    <3>2. CASE e = 0
      <4>1. Magnitude(D - p * e) \in Nat
        <5> DEFINE x == D - p * e
        <5>1. x \in Int
          BY <1>2, <1>3, <3>1
        <5> HIDE DEF x
        <5>. QED  BY <5>1, MagnitudeIs DEF x
      <4>2. Magnitude(e) = 0
        BY <3>2 DEF Magnitude
      <4>3. Magnitude(D - p * e) < Magnitude(e)
        BY <2>1 DEF Leaves, p
      <4>. QED  BY <4>1, <4>2, <4>3
    <3>3. CASE e # 0
      <4>1. p = Q
        BY <1>2, <1>3, <2>1, <3>1, <3>3, QuotientIsUnique DEF p, Q
      <4>. QED  BY <1>2, <1>8, <3>1, <3>3, <4>1
    <3>. QED  BY <3>2, <3>3
  <2>2. Divide(signed, hi, lo, d, n).fault # "none"
    BY <1>4, <1>8
  <2>. QED  BY <1>5, <2>1, <2>2
<1>. QED  BY <1>7, <1>8

-----------------------------------------------------------------------------
(***************************************************************************)
(* The machine: operands that stay, and one operation done on them.        *)
(***************************************************************************)
ShiftOps == {"shl", "shr", "sar", "rol", "ror"}

\* What the operation that was done gives on the operands.
Done ==
  /\ op = "none" => result = Pending
  /\ op = "adc" => result = Ok(Adc(a, b, flags.cf, width))
  /\ op = "sbb" => result = Ok(Sbb(a, b, flags.cf, width))
  /\ op = "cmp" => result = Ok(Sbb(a, b, FALSE, width))
  /\ op \in ShiftOps => result = Ok(Shift(op, a, b, flags, width))
  /\ op \in {"div", "idiv"} =>
       LET d == Divide(op = "idiv", high, a, b, width)
       IN  result = [val |-> <<d.quot, d.rem>>, flags |-> flags, fault |-> d.fault]

Operands ==
  /\ width \in 1 .. WordBits
  /\ a \in Values(width) /\ b \in Values(width) /\ high \in Values(width)
  /\ flags.cf \in BOOLEAN

LawInv ==
  /\ Operands
  /\ op \in {"none", "adc", "sbb", "cmp", "div", "idiv"} \cup ShiftOps
  /\ Done

LEMMA InitLaw == Init => LawInv
<1> SUFFICES ASSUME Init
             PROVE  LawInv
  OBVIOUS
<1>1. Operands
  BY WidthsFit DEF Init, Operands
<1>2. op = "none" /\ result = Pending
  BY DEF Init
<1>. QED  BY <1>1, <1>2 DEF LawInv, Done, ShiftOps

LEMMA NextLaw == LawInv /\ [Next]_vars => LawInv'
<1> SUFFICES ASSUME LawInv, [Next]_vars
             PROVE  LawInv'
  OBVIOUS
<1>1. ASSUME UNCHANGED <<width, a, b, high, flags>>
      PROVE  Operands'
  BY <1>1 DEF LawInv, Operands, Values
<1>2. CASE AddWithCarry
  BY <1>1, <1>2 DEF AddWithCarry, Computes, LawInv, Done, ShiftOps
<1>3. CASE SubWithBorrow
  BY <1>1, <1>3 DEF SubWithBorrow, Computes, LawInv, Done, ShiftOps
<1>4. CASE Compare
  BY <1>1, <1>4 DEF Compare, Computes, LawInv, Done, ShiftOps
<1>5. CASE ShiftOrRotate
  <2>1. PICK o \in ShiftOps : Computes(o, Ok(Shift(o, a, b, flags, width)))
    BY <1>5 DEF ShiftOrRotate, ShiftOps
  <2>. QED  BY <1>1, <2>1 DEF Computes, LawInv, Done, ShiftOps
<1>6. CASE DivideBy
  <2>1. PICK signed \in BOOLEAN :
          LET d == Divide(signed, high, a, b, width)
          IN  Computes(IF signed THEN "idiv" ELSE "div",
                       [val |-> <<d.quot, d.rem>>, flags |-> flags, fault |-> d.fault])
    BY <1>6 DEF DivideBy
  <2>2. op' = (IF signed THEN "idiv" ELSE "div") /\ (op' = "idiv") = signed
    BY <2>1 DEF Computes
  <2>. QED  BY <1>1, <2>1, <2>2 DEF Computes, LawInv, Done, ShiftOps
<1>7. CASE UNCHANGED vars
  BY <1>7 DEF vars, LawInv, Operands, Done, Values
<1>. QED  BY <1>2, <1>3, <1>4, <1>5, <1>6, <1>7 DEF Next

LEMMA AlwaysLaw == Spec => []LawInv
BY InitLaw, NextLaw, PTL DEF Spec

LEMMA InSignedIs ==
  ASSUME width \in 1 .. WordBits, NEW v
  PROVE  InSigned(v) <=> v >= -Half(width) /\ v < Half(width)
<1>1. Pow2[width] \div 2 = Half(width)
  BY HalvesDouble
<1>. QED  BY <1>1 DEF InSigned

\* The carry of adc and the borrow of sbb are what the next word's operation needs, and
\* OF says whether the signed result fits (alu.rs add and sub), at every width and for
\* all operands.
THEOREM CarriesAlwaysChain == Spec => []CarriesChain
<1>1. LawInv => CarriesChain
  <2> SUFFICES ASSUME LawInv
               PROVE  CarriesChain
    OBVIOUS
  <2>1. width \in 1 .. WordBits /\ a \in Values(width) /\ b \in Values(width)
        /\ flags.cf \in BOOLEAN
    BY DEF LawInv, Operands
  <2>2. AdcAdds(width, a, b, flags.cf) /\ SbbSubtracts(width, a, b, flags.cf)
    BY <2>1, AdditionLaw, SubtractionLaw
  <2>3. CASE op = "adc"
    <3> DEFINE r == Adc(a, b, flags.cf, width)
               sum == Signed(a, width) + Signed(b, width) + Bit(flags.cf)
    <3>1. result.val = r.val /\ result.flags = r.flags
      BY <2>3 DEF LawInv, Done, Ok
    <3>2. /\ r.val + Bit(r.flags.cf) * Pow2[width] = a + b + Bit(flags.cf)
          /\ r.flags.of <=> ~InSigned(sum)
          /\ r.flags.of \in BOOLEAN
      BY <2>1, <2>2, InSignedIs DEF AdcAdds
    <3>3. InSigned(sum) \in BOOLEAN
      BY DEF InSigned
    <3> HIDE DEF r
    <3>. QED  BY <2>3, <3>1, <3>2, <3>3 DEF CarriesChain, After
  <2>4. CASE op = "sbb"
    <3> DEFINE r == Sbb(a, b, flags.cf, width)
               dif == Signed(a, width) - Signed(b, width) - Bit(flags.cf)
    <3>1. result.val = r.val /\ result.flags = r.flags
      BY <2>4 DEF LawInv, Done, Ok
    <3>2. /\ r.val - Bit(r.flags.cf) * Pow2[width] = a - b - Bit(flags.cf)
          /\ r.flags.of <=> ~InSigned(dif)
          /\ r.flags.of \in BOOLEAN
      BY <2>1, <2>2, InSignedIs DEF SbbSubtracts, Flags
    <3>3. InSigned(dif) \in BOOLEAN
      BY DEF InSigned
    <3> HIDE DEF r
    <3>. QED  BY <2>4, <3>1, <3>2, <3>3 DEF CarriesChain, After
  <2>. QED  BY <2>3, <2>4 DEF CarriesChain, After
<1>. QED  BY <1>1, AlwaysLaw, PTL

\* After a cmp the condition codes order the operands, "below" and "above" as unsigned
\* numbers, "less" and "greater" as signed ones (Flags::eval), whatever overflowed.
THEOREM ConditionsAlwaysOrder == Spec => []ConditionsOrder
<1>1. LawInv => ConditionsOrder
  <2> SUFFICES ASSUME LawInv, After("cmp")
               PROVE  ConditionsOrder
    BY DEF ConditionsOrder
  <2> DEFINE r == Sbb(a, b, FALSE, width)
             f == r.flags
             sa == Signed(a, width)
             sb == Signed(b, width)
  <2>1. result.flags = f
    <3>1. result = Ok(r)
      BY DEF LawInv, Done, After
    <3> HIDE DEF r
    <3>. QED  BY <3>1 DEF Ok
  <2>2. CmpOrders(width, a, b)
    BY SubtractionLaw DEF LawInv, Operands
  <2>3. /\ f \in Flags
        /\ a \in Int /\ b \in Int /\ sa \in Int /\ sb \in Int
        /\ f.zf <=> a = b
        /\ f.cf <=> a < b
        /\ f.sf # f.of <=> sa < sb
        /\ a = b <=> sa = sb
    BY <2>2, Zenon DEF CmpOrders
  <2> HIDE DEF f, sa, sb
  <2>4. f.zf \in BOOLEAN /\ f.cf \in BOOLEAN /\ f.sf \in BOOLEAN /\ f.of \in BOOLEAN
    BY <2>3 DEF Flags
  <2>5. /\ Holds("e", f) = f.zf
        /\ Holds("b", f) = f.cf
        /\ Holds("be", f) = (f.cf \/ f.zf)
        /\ Holds("a", f) = (~f.cf /\ ~f.zf)
        /\ Holds("ae", f) = ~f.cf
        /\ Holds("l", f) = (f.sf # f.of)
        /\ Holds("le", f) = (f.zf \/ f.sf # f.of)
        /\ Holds("g", f) = (~f.zf /\ f.sf = f.of)
        /\ Holds("ge", f) = (f.sf = f.of)
    BY DEF Holds
  <2>6. /\ (a = b) \in BOOLEAN /\ (a < b) \in BOOLEAN /\ (a <= b) \in BOOLEAN
        /\ (a > b) \in BOOLEAN /\ (a >= b) \in BOOLEAN
        /\ (sa < sb) \in BOOLEAN /\ (sa <= sb) \in BOOLEAN
        /\ (sa > sb) \in BOOLEAN /\ (sa >= sb) \in BOOLEAN
    OBVIOUS
  <2>7. /\ a <= b <=> a < b \/ a = b
        /\ a > b <=> ~(a < b) /\ ~(a = b)
        /\ a >= b <=> ~(a < b)
        /\ sa <= sb <=> sa < sb \/ sa = sb
        /\ sa > sb <=> ~(sa < sb) /\ ~(sa = sb)
        /\ sa >= sb <=> ~(sa < sb)
    BY <2>3
  <2>8. /\ Holds("e", f) = (a = b)
        /\ Holds("b", f) = (a < b)
        /\ Holds("be", f) = (a <= b)
        /\ Holds("a", f) = (a > b)
        /\ Holds("ae", f) = (a >= b)
    BY <2>3, <2>4, <2>5, <2>6, <2>7
  <2>9. /\ Holds("l", f) = (sa < sb)
        /\ Holds("le", f) = (sa <= sb)
        /\ Holds("g", f) = (sa > sb)
        /\ Holds("ge", f) = (sa >= sb)
    BY <2>3, <2>4, <2>5, <2>6, <2>7
  <2>. QED  BY <2>1, <2>8, <2>9, Zenon DEF ConditionsOrder, sa, sb
<1>. QED  BY <1>1, AlwaysLaw, PTL

\* Shifts are the multiplications and divisions they stand for, the rotates undo each
\* other, and a count that masks to zero changes nothing (alu.rs shift).
THEOREM ShiftsAreAlwaysArithmetic == Spec => []ShiftsAreArithmetic
<1>1. LawInv => ShiftsAreArithmetic
  <2> SUFFICES ASSUME LawInv
               PROVE  ShiftsAreArithmetic
    OBVIOUS
  <2> DEFINE c == ShiftCount(b, width)
             q == Signed(a, width) \div Pow2[c]
             done == Shift(op, a, b, flags, width)
  <2>1. width \in 1 .. WordBits /\ a \in Values(width) /\ b \in Nat
    <3>1. width \in 1 .. WordBits /\ a \in Values(width) /\ b \in Values(width)
      BY DEF LawInv, Operands
    <3>2. Pow2[width] \in Nat
      BY <3>1, HalvesDouble
    <3>. QED  BY <3>1, <3>2 DEF Values
  <2>2. ShiftsCompute(width, a, b, flags)
    BY <2>1, ShiftLaw
  <2>3. ASSUME op \in ShiftOps
        PROVE  result.val = done.val /\ result.flags = done.flags
    BY <2>3 DEF LawInv, Done, Ok, ShiftOps
  <2>4. After("shl") /\ c = 1 =>
          result.val = Adc(a, a, FALSE, width).val
            /\ result.flags = Adc(a, a, FALSE, width).flags
    <3> SUFFICES ASSUME op = "shl", c = 1
                 PROVE  result.val = Adc(a, a, FALSE, width).val
                          /\ result.flags = Adc(a, a, FALSE, width).flags
      BY DEF After
    <3>1. Shift("shl", a, b, flags, width) = Adc(a, a, FALSE, width)
      BY <2>1, DoublingLaw
    <3>. QED  BY <2>3, <3>1 DEF ShiftOps
  <2>5. After("shr") => result.val = a \div Pow2[c]
    BY <2>2, <2>3 DEF After, ShiftOps, ShiftsCompute
  <2>6. After("sar") => Signed(result.val, width) = q
    BY <2>2, <2>3 DEF After, ShiftOps, ShiftsCompute
  <2>7. After("rol") => Shift("ror", result.val, b, flags, width).val = a
    BY <2>1, <2>3, RotationLaw DEF After, ShiftOps
  <2>8. After("ror") => Shift("rol", result.val, b, flags, width).val = a
    BY <2>1, <2>3, RotationLaw DEF After, ShiftOps
  <2>9. op \in ShiftOps /\ c = 0 => result.val = a /\ result.flags = flags
    BY <2>2, <2>3 DEF ShiftsCompute
  <2>. QED  BY <2>4, <2>5, <2>6, <2>7, <2>8, <2>9 DEF ShiftsAreArithmetic, ShiftOps
<1>. QED  BY <1>1, AlwaysLaw, PTL

\* div and idiv (cpu.rs divmod) fault exactly where there is no quotient of the width, and
\* otherwise quotient and remainder rebuild the dividend.
THEOREM DivisionAlwaysRebuilds == Spec => []DivisionRebuilds
<1>1. LawInv => DivisionRebuilds
  <2> SUFFICES ASSUME LawInv, op \in {"div", "idiv"}
               PROVE  DivisionRebuilds
    BY DEF DivisionRebuilds
  <2> DEFINE s == op = "idiv"
             r == Divide(s, high, a, b, width)
             D == Read(s, high, width) * Pow2[width] + a
             e == Read(s, b, width)
             R(v) == D - Read(s, v, width) * e
             Works(v) == /\ Magnitude(R(v)) < Magnitude(e)
                         /\ R(v) # 0 => (R(v) < 0) = (D < 0)
  <2>1. result = [val |-> <<r.quot, r.rem>>, flags |-> flags, fault |-> r.fault]
    BY DEF LawInv, Done, ShiftOps
  <2>2. Rebuilds(s, width, high, a, b)
    BY DivisionLaw DEF LawInv, Operands
  <2>3. \A v : Works(v) <=> Leaves(D, e, R(v))
    BY DEF Leaves
  <2>4. IF r.fault = "none"
          THEN Leaves(D, e, R(r.quot)) /\ Read(s, r.rem, width) = R(r.quot)
          ELSE \A v \in Values(width) : ~Leaves(D, e, R(v))
    BY <2>2 DEF Rebuilds
  <2>5. DivisionRebuilds <=>
          IF result.fault = "none"
            THEN Works(result.val[1]) /\ Read(s, result.val[2], width) = R(result.val[1])
            ELSE \A v \in Values(width) : ~Works(v)
    BY DEF DivisionRebuilds, Read
  <2> HIDE DEF s, r, D, e, R, Works
  <2>6. result.fault = r.fault /\ result.val[1] = r.quot /\ result.val[2] = r.rem
    BY <2>1
  <2>. QED  BY <2>3, <2>4, <2>5, <2>6
<1>. QED  BY <1>1, AlwaysLaw, PTL
=============================================================================
