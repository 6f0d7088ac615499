---------------------------- MODULE InspectProofs ----------------------------
(***************************************************************************)
(* What the inspection of a file shows, for all files, whatever was        *)
(* overwritten or cut off: what an ELF file is said to import agrees with  *)
(* its relocations and its symbols, and a file whose end is missing, ELF   *)
(* or PE, shows nothing that the whole file does not.                      *)
(***************************************************************************)
EXTENDS Inspect, SequenceTheorems, FiniteSetTheorems, WellFoundedInduction, TLAPS

(***************************************************************************)
(* Numbers.                                                                *)
(***************************************************************************)
\* A set that holds 0, and the number after each of its numbers below n, holds
\* every number up to n.
LEMMA OneByOne ==
  ASSUME NEW n \in Nat, NEW S, 0 \in S, \A k \in 1 .. n : k - 1 \in S => k \in S
  PROVE  \A k \in 0 .. n : k \in S
<1> DEFINE missing == {k \in 0 .. n : k \notin S}
<1>1. ASSUME missing # {}
      PROVE  FALSE
  <2>1. missing \in SUBSET Nat
    OBVIOUS
  <2>2. PICK k \in missing : \A j \in missing : ~(<<j, k>> \in OpToRel(<, Nat))
    <3> HIDE DEF missing
    <3>. QED  BY <1>1, <2>1, WFMin, NatLessThanWellFounded
  <2>3. k \in 1 .. n /\ k \notin S
    OBVIOUS
  <2>4. k - 1 \notin missing
    <3>1. k - 1 \in Nat /\ k \in Nat /\ k - 1 < k
      BY <2>3
    <3>. QED  BY <2>2, <3>1 DEF OpToRel
  <2>5. k - 1 \in S
    BY <2>3, <2>4
  <2>. QED  BY <2>3, <2>5
<1>. QED  BY <1>1

\* A set of numbers that is not empty has a least element.
LEMMA LeastExists ==
  ASSUME NEW S \in SUBSET Nat, S # {}
  PROVE  \E x \in S : \A y \in S : x <= y
<1>1. PICK x \in S : \A y \in S : ~(<<y, x>> \in OpToRel(<, Nat))
  BY WFMin, NatLessThanWellFounded
<1>2. ASSUME NEW y \in S
      PROVE  x <= y
  <2>1. ~(y < x)
    BY <1>1 DEF OpToRel
  <2>. QED  BY <2>1
<1>. QED  BY <1>2

-----------------------------------------------------------------------------
(***************************************************************************)
(* Sequences: what is put end to end, and what is selected.                *)
(***************************************************************************)
LEMMA RangeOfSequence ==
  ASSUME NEW E, NEW s \in Seq(E)
  PROVE  Range(s) = {s[k] : k \in 1 .. Len(s)} /\ Range(s) \subseteq E
BY DEF Range

LEMMA RangeOfConcatenation ==
  ASSUME NEW E, NEW s \in Seq(E), NEW t \in Seq(E)
  PROVE  s \o t \in Seq(E) /\ Range(s \o t) = Range(s) \cup Range(t)
<1> DEFINE st == s \o t
<1>1. /\ st \in Seq(E) /\ Len(st) = Len(s) + Len(t)
      /\ \A k \in 1 .. Len(s) : st[k] = s[k]
      /\ \A k \in 1 .. Len(t) : st[Len(s) + k] = t[k]
  OBVIOUS
<1>2. Len(s) \in Nat /\ Len(t) \in Nat
  OBVIOUS
<1> HIDE DEF st
<1>3. Range(st) = {st[k] : k \in 1 .. Len(st)}
  BY <1>1, RangeOfSequence
<1>4. ASSUME NEW k \in 1 .. Len(s)
      PROVE  s[k] \in Range(st)
  <2>1. k \in 1 .. Len(st) /\ s[k] = st[k]
    BY <1>1, <1>2
  <2>. QED  BY <1>3, <2>1
<1>5. ASSUME NEW k \in 1 .. Len(t)
      PROVE  t[k] \in Range(st)
  <2>1. Len(s) + k \in 1 .. Len(st) /\ t[k] = st[Len(s) + k]
    BY <1>1, <1>2
  <2>. QED  BY <1>3, <2>1
<1>6. ASSUME NEW k \in 1 .. Len(st)
      PROVE  st[k] \in Range(s) \cup Range(t)
  <2>1. CASE k <= Len(s)
    <3>1. k \in 1 .. Len(s) /\ st[k] = s[k]
      BY <1>1, <1>2, <2>1
    <3>. QED  BY <3>1, RangeOfSequence
  <2>2. CASE ~ (k <= Len(s))
    <3>1. k - Len(s) \in 1 .. Len(t) /\ Len(s) + (k - Len(s)) = k
      BY <1>1, <1>2, <2>2
    <3>2. st[k] = t[k - Len(s)]
      BY <1>1, <3>1
    <3>. QED  BY <3>1, <3>2, RangeOfSequence
  <2>. QED  BY <2>1, <2>2
<1>7. Range(s) = {s[k] : k \in 1 .. Len(s)} /\ Range(t) = {t[k] : k \in 1 .. Len(t)}
  BY RangeOfSequence
<1>8. Range(s) \cup Range(t) = Range(st)
  BY <1>3, <1>4, <1>5, <1>6, <1>7
<1>. QED  BY <1>1, <1>8 DEF st

\* The elements of sequences put end to end are the elements of each of them.
LEMMA FlattenedElements ==
  ASSUME NEW E, NEW n \in Nat, NEW ss \in [1 .. n -> Seq(E)]
  PROVE  /\ FlattenSeq(ss) \in Seq(E)
         /\ Range(FlattenSeq(ss)) = UNION {Range(ss[k]) : k \in 1 .. n}
<1>0. Len(ss) = n /\ DOMAIN ss = 1 .. n
  OBVIOUS
<1>1. CASE n = 0
  <2>1. FlattenSeq(ss) = ss
    BY <1>0, <1>1 DEF FlattenSeq
  <2>2. ss = <<>>
    BY <1>0, <1>1
  <2>3. Range(ss) = {} /\ 1 .. n = {} /\ ss \in Seq(E)
    BY <1>1, <2>2 DEF Range
  <2>. QED  BY <2>1, <2>3
<1>2. CASE n # 0
  <2> DEFINE Joins(k, f) == f[0] = ss[1] /\ \A i \in 1 .. k : f[i] = f[i - 1] \o ss[i + 1]
             S == {k \in Nat : \E f \in [0 .. k -> Seq(E)] : Joins(k, f)}
             Body(g) == [i \in 1 .. n |-> IF i = 1 THEN ss[i] ELSE g[i - 1] \o ss[i]]
  <2>0. n - 1 \in Nat /\ 1 \in 1 .. n /\ n \in 1 .. n
    BY <1>2
  <2>1. 0 \in S
    <3>1. [i \in 0 .. 0 |-> ss[1]] \in [0 .. 0 -> Seq(E)] /\ Joins(0, [i \in 0 .. 0 |-> ss[1]])
      BY <2>0
    <3>. QED  BY <3>1
  <2>2. ASSUME NEW k \in 1 .. n - 1, k - 1 \in S
        PROVE  k \in S
    <3>1. PICK f \in [0 .. k - 1 -> Seq(E)] : Joins(k - 1, f)
      BY <2>2
    <3> DEFINE new == f[k - 1] \o ss[k + 1]
               g == [i \in 0 .. k |-> IF i = k THEN new ELSE f[i]]
    <3>2. k \in Nat /\ k - 1 \in 0 .. k - 1 /\ k + 1 \in 1 .. n
      BY <2>0
    <3>3. new \in Seq(E)
      <4>1. f[k - 1] \in Seq(E) /\ ss[k + 1] \in Seq(E)
        BY <3>2
      <4>. QED  BY <4>1, RangeOfConcatenation
    <3>4. g \in [0 .. k -> Seq(E)]
      <4> HIDE DEF new
      <4>. QED  BY <3>2, <3>3
    <3>5. ASSUME NEW i \in 1 .. k
          PROVE  g[i] = g[i - 1] \o ss[i + 1]
      <4>1. g[i - 1] = f[i - 1]
        BY <3>2
      <4>2. CASE i = k
        <5>1. g[i] = new
          <6> HIDE DEF new
          <6>. QED  BY <3>2, <4>2
        <5>. QED  BY <4>1, <4>2, <5>1
      <4>3. CASE i # k
        <5>1. g[i] = f[i] /\ i \in 1 .. k - 1
          BY <3>2, <4>3
        <5>2. f[i] = f[i - 1] \o ss[i + 1]
          BY <3>1, <5>1
        <5>. QED  BY <4>1, <5>1, <5>2
      <4>. QED  BY <4>2, <4>3
    <3>6. g[0] = ss[1]
      BY <3>1, <3>2
    <3> HIDE DEF g, new
    <3>. QED  BY <3>2, <3>4, <3>5, <3>6
  <2>3. n - 1 \in S
    <3> HIDE DEF S
    <3>1. \A k \in 0 .. n - 1 : k \in S
      BY <2>0, <2>1, <2>2, OneByOne
    <3>. QED  BY <2>0, <3>1
  <2>4. PICK f \in [0 .. n - 1 -> Seq(E)] : Joins(n - 1, f)
    BY <2>3
  <2> DEFINE h == [i \in 1 .. n |-> f[i - 1]]
  <2>5. h = Body(h)
    <3>1. ASSUME NEW i \in 1 .. n
          PROVE  h[i] = IF i = 1 THEN ss[i] ELSE h[i - 1] \o ss[i]
      <4>1. CASE i = 1
        BY <2>4, <4>1
      <4>2. CASE i # 1
        <5>1. i - 1 \in 1 .. n - 1 /\ i - 1 \in 1 .. n /\ i - 1 + 1 = i
          BY <4>2
        <5>2. f[i - 1] = f[i - 1 - 1] \o ss[i]
          BY <2>4, <5>1
        <5>. QED  BY <4>2, <5>1, <5>2
      <4>. QED  BY <4>1, <4>2
    <3>. QED  BY <3>1
  <2> DEFINE flatten == CHOOSE g : g = Body(g)
  <2>6. FlattenSeq(ss) = flatten[n]
    BY <1>0, <1>2 DEF FlattenSeq
  <2>7. flatten = Body(flatten)
    <3> HIDE DEF Body, h
    <3>. QED  BY <2>5, Zenon
  <2> HIDE DEF flatten
  <2>8. flatten[1] = ss[1] /\ \A i \in 2 .. n : flatten[i] = flatten[i - 1] \o ss[i]
    <3>1. \A i \in 1 .. n : Body(flatten)[i] = IF i = 1 THEN ss[i] ELSE flatten[i - 1] \o ss[i]
      OBVIOUS
    <3> HIDE DEF Body
    <3>2. \A i \in 1 .. n : flatten[i] = IF i = 1 THEN ss[i] ELSE flatten[i - 1] \o ss[i]
      BY <2>7, <3>1
    <3>3. \A i \in 2 .. n : i \in 1 .. n /\ i # 1
      BY <2>0
    <3>. QED  BY <2>0, <3>2, <3>3
  <2> DEFINE Upto(i) == UNION {Range(ss[k]) : k \in 1 .. i}
             T == {i \in 0 .. n - 1 : flatten[i + 1] \in Seq(E) /\ Range(flatten[i + 1]) = Upto(i + 1)}
  <2>9. 0 \in T
    <3>1. Upto(1) = Range(ss[1])
      BY DEF Range
    <3> HIDE DEF Upto
    <3>. QED  BY <2>0, <2>8, <3>1
  <2>10. ASSUME NEW i \in 1 .. n - 1, i - 1 \in T
         PROVE  i \in T
    <3>1. i + 1 \in 1 .. n /\ i \in 1 .. n /\ i + 1 \in 2 .. n /\ i - 1 + 1 = i /\ i + 1 - 1 = i
      BY <2>0
    <3>2. flatten[i] \in Seq(E) /\ Range(flatten[i]) = Upto(i)
      <4> HIDE DEF Upto
      <4>. QED  BY <2>10, <3>1
    <3>3. flatten[i + 1] = flatten[i] \o ss[i + 1]
      <4>1. PICK j \in 2 .. n : j = i + 1 /\ j - 1 = i
        BY <3>1
      <4>2. flatten[j] = flatten[j - 1] \o ss[j]
        BY <2>8
      <4>. QED  BY <4>1, <4>2
    <3>4. ss[i + 1] \in Seq(E)
      BY <3>1
    <3>5. Upto(i + 1) = Upto(i) \cup Range(ss[i + 1])
      <4>1. 1 .. i + 1 = (1 .. i) \cup {i + 1}
        BY <3>1
      <4>. QED  BY <4>1, Zenon
    <3> HIDE DEF Upto
    <3>6. flatten[i + 1] \in Seq(E) /\ Range(flatten[i + 1]) = Range(flatten[i]) \cup Range(ss[i + 1])
      BY <3>2, <3>3, <3>4, RangeOfConcatenation
    <3>7. i \in 0 .. n - 1 /\ flatten[i + 1] \in Seq(E) /\ Range(flatten[i + 1]) = Upto(i + 1)
      BY <2>0, <3>2, <3>5, <3>6
    <3>. QED  BY <3>7
  <2>11. n - 1 \in T
    <3> HIDE DEF T
    <3>1. \A k \in 0 .. n - 1 : k \in T
      BY <2>0, <2>9, <2>10, OneByOne
    <3>. QED  BY <2>0, <3>1
  <2>12. n - 1 + 1 = n
    BY <2>0
  <2> HIDE DEF Upto
  <2>13. flatten[n] \in Seq(E) /\ Range(flatten[n]) = Upto(n)
    BY <2>11, <2>12
  <2>. QED  BY <2>6, <2>13 DEF Upto
<1>. QED  BY <1>1, <1>2

\* What is selected is in the sequence and in the set, and everything that is.
LEMMA AllInElements ==
  ASSUME NEW E, NEW s \in Seq(E), NEW S
  PROVE  AllIn(s, S) \in Seq(E) /\ Range(AllIn(s, S)) = Range(s) \cap S
<1> DEFINE one == [k \in DOMAIN s |-> IF s[k] \in S THEN <<s[k]>> ELSE <<>>]
           n == Len(s)
<1>1. n \in Nat /\ DOMAIN s = 1 .. n
  OBVIOUS
<1>2. \A k \in 1 .. n : s[k] \in E
  OBVIOUS
<1>3. one \in [1 .. n -> Seq(E)]
  <2>1. ASSUME NEW k \in 1 .. n
        PROVE  <<s[k]>> \in Seq(E)
    BY <1>2
  <2>2. <<>> \in Seq(E)
    OBVIOUS
  <2> HIDE DEF n
  <2>. QED  BY <1>1, <2>1, <2>2
<1>4. \A k \in 1 .. n : Range(one[k]) = {s[k]} \cap S
  <2>1. ASSUME NEW k \in 1 .. n
        PROVE  Range(<<s[k]>>) = {s[k]}
    BY DEF Range
  <2>2. Range(<<>>) = {}
    BY DEF Range
  <2> HIDE DEF n
  <2>. QED  BY <1>1, <2>1, <2>2
<1>5. AllIn(s, S) = FlattenSeq(one)
  BY DEF AllIn
<1> HIDE DEF one, n
<1>6. AllIn(s, S) \in Seq(E) /\ Range(AllIn(s, S)) = UNION {Range(one[k]) : k \in 1 .. n}
  BY <1>1, <1>3, <1>5, FlattenedElements
<1>7. Range(s) = {s[k] : k \in 1 .. n}
  BY <1>1 DEF Range
<1>8. UNION {Range(one[k]) : k \in 1 .. n} = {s[k] : k \in 1 .. n} \cap S
  BY <1>4
<1>. QED  BY <1>6, <1>7, <1>8

\* Whatever the elements are.
LEMMA FlattenedParts ==
  ASSUME NEW n \in Nat, NEW ss, DOMAIN ss = 1 .. n, ss = [k \in 1 .. n |-> ss[k]],
         \A k \in 1 .. n : ss[k] \in Seq(Range(ss[k]))
  PROVE  /\ FlattenSeq(ss) \in Seq(Range(FlattenSeq(ss)))
         /\ Range(FlattenSeq(ss)) = UNION {Range(ss[k]) : k \in 1 .. n}
<1> DEFINE E == UNION {Range(ss[k]) : k \in 1 .. n}
<1>1. ASSUME NEW k \in 1 .. n
      PROVE  ss[k] \in Seq(E)
  <2>1. Range(ss[k]) \subseteq E
    OBVIOUS
  <2>2. ss[k] \in Seq(Range(ss[k]))
    OBVIOUS
  <2> DEFINE R == Range(ss[k])
             t == ss[k]
  <2> HIDE DEF E, R, t
  <2>3. R \subseteq E /\ t \in Seq(R)
    BY <2>1, <2>2 DEF R, t
  <2>4. t \in Seq(E)
    BY <2>3
  <2>. QED  BY <2>4 DEF t
<1>2. ss \in [1 .. n -> Seq(E)]
  <2> HIDE DEF E
  <2>. QED  BY <1>1
<1>3. FlattenSeq(ss) \in Seq(E) /\ Range(FlattenSeq(ss)) = E
  <2>1. FlattenSeq(ss) \in Seq(E) /\ Range(FlattenSeq(ss)) = UNION {Range(ss[k]) : k \in 1 .. n}
    <3> HIDE DEF E
    <3>. QED  BY <1>2, FlattenedElements
  <2>. QED  BY <2>1
<1> HIDE DEF E
<1>4. FlattenSeq(ss) \in Seq(Range(FlattenSeq(ss)))
  BY <1>3
<1>. QED  BY <1>3, <1>4 DEF E

-----------------------------------------------------------------------------
(***************************************************************************)
(* What a file is read as.                                                 *)
(***************************************************************************)
\* What a header points at is cells, whatever it says.
LEMMA ContentsAreCells ==
  ASSUME NEW f \in Seq(Nat), NEW s, s = None \/ (s.offset \in Nat /\ s.size \in Nat)
  PROVE  Contents(f, s) \in Seq(Nat)
<1> DEFINE slice == IF s = None THEN None ELSE Slice(f, s.offset, s.size)
<1>1. Contents(f, s) = IF slice = None THEN <<>> ELSE slice
  BY DEF Contents
<1>2. CASE slice = None
  <2>1. Contents(f, s) = <<>>
    BY <1>1, <1>2
  <2>. QED  BY <2>1
<1>3. CASE slice # None
  <2>1. s # None /\ slice = Slice(f, s.offset, s.size)
    BY <1>3
  <2>2. PICK o \in Nat, n \in Nat : o = s.offset /\ n = s.size
    BY <2>1
  <2>3. slice = SubSeq(f, o + 1, o + n) /\ ~ (o + n > Len(f))
    BY <1>3, <2>1, <2>2 DEF Slice
  <2>4. SubSeq(f, o + 1, o + n) \in Seq(Nat)
    BY <2>3
  <2>. QED  BY <1>1, <1>3, <2>3, <2>4
<1>. QED  BY <1>2, <1>3

LEMMA RecordsAreRows ==
  ASSUME NEW s \in Seq(Nat), NEW size \in Nat \ {0}
  PROVE  /\ Len(s) \div size \in Nat
         /\ DOMAIN Records(s, size) = 1 .. Len(s) \div size
         /\ \A k \in 1 .. Len(s) \div size :
              Records(s, size)[k] = SubSeq(s, (k - 1) * size + 1, k * size)
BY DEF Records

\* The first cell of a record of symbols.
LEMMA FirstCells ==
  ASSUME NEW s \in Seq(Nat), NEW k \in 1 .. Len(s) \div SymSize
  PROVE  /\ (k - 1) * SymSize \in 0 .. Len(s) - 1
         /\ Records(s, SymSize)[k][1] = s[(k - 1) * SymSize + 1]
<1>1. SymSize = 5 /\ Len(s) \in Nat /\ k \in Nat
  BY DEF SymSize
<1>2. k * 5 <= Len(s) /\ (k - 1) * 5 + 1 \in 1 .. Len(s) /\ (k - 1) * 5 + 1 <= k * 5
  BY <1>1
<1>3. PICK a \in 1 .. Len(s), b \in 1 .. Len(s) : a = (k - 1) * 5 + 1 /\ b = k * 5 /\ a <= b
  BY <1>1, <1>2
<1>4. Records(s, 5)[k] = SubSeq(s, a, b)
  BY <1>1, <1>3, RecordsAreRows
<1>5. SubSeq(s, a, b)[1] = s[a]
  <2>1. 1 \in 1 .. b - a + 1 /\ a + 1 - 1 = a
    BY <1>3
  <2>. QED  BY <2>1, SubSeqProperties
<1>6. (k - 1) * 5 \in 0 .. Len(s) - 1
  BY <1>1, <1>2
<1>. QED  BY <1>1, <1>3, <1>4, <1>5, <1>6

\* The rows of a table are in the file.
LEMMA TableRows ==
  ASSUME NEW f \in Seq(Nat), NEW base \in Nat, NEW count \in Nat
  PROVE  \E n \in Nat :
           /\ DOMAIN Table(f, base, count, ShdrSize) = 1 .. n
           /\ \A k \in 1 .. n : \A j \in 1 .. 7 : Table(f, base, count, ShdrSize)[k][j] \in Nat
<1> DEFINE fits == {k \in 1 .. count : base + k * 7 <= Len(f)}
           n == Cardinality(fits)
<1>1. IsFiniteSet(fits) /\ n \in Nat
  <2>1. IsFiniteSet(1 .. count)
    BY FS_Interval
  <2>2. fits \subseteq 1 .. count
    OBVIOUS
  <2> HIDE DEF fits
  <2>. QED  BY <2>1, <2>2, FS_Subset, FS_CardinalityType
<1>2. ASSUME NEW k \in 1 .. n
      PROVE  base + k * 7 <= Len(f)
  <2>1. SUFFICES ASSUME base + k * 7 > Len(f)
                 PROVE  FALSE
    BY <1>1
  <2>2. fits \subseteq 1 .. k - 1
    <3>1. ASSUME NEW j \in fits
          PROVE  j \in 1 .. k - 1
      <4>1. j \in Nat /\ j >= 1 /\ base + j * 7 <= Len(f) /\ k \in Nat /\ Len(f) \in Nat
        BY <1>1
      <4>. QED  BY <2>1, <4>1
    <3>. QED  BY <3>1
  <2>3. k - 1 \in Nat /\ IsFiniteSet(1 .. k - 1) /\ Cardinality(1 .. k - 1) = k - 1
    <3>1. k - 1 \in Nat
      BY <1>1
    <3>2. IsFiniteSet(1 .. k - 1) /\ Cardinality(1 .. k - 1) = IF 1 > k - 1 THEN 0 ELSE k - 1 - 1 + 1
      BY <3>1, FS_Interval
    <3>. QED  BY <3>1, <3>2
  <2>4. n <= k - 1
    <3> HIDE DEF fits
    <3>. QED  BY <2>2, <2>3, FS_Subset
  <2> HIDE DEF n
  <2>. QED  BY <1>1, <2>4
<1>3. /\ DOMAIN Table(f, base, count, ShdrSize) = 1 .. n
      /\ \A k \in 1 .. n : Table(f, base, count, ShdrSize)[k] = SubSeq(f, base + (k - 1) * 7 + 1, base + k * 7)
  BY DEF Table, ShdrSize
<1>4. ASSUME NEW k \in 1 .. n, NEW j \in 1 .. 7
      PROVE  Table(f, base, count, ShdrSize)[k][j] \in Nat
  <2> HIDE DEF n
  <2>1. k \in Nat /\ k >= 1
    BY <1>1
  <2>2. PICK a \in Nat, b \in Nat : a = base + (k - 1) * 7 + 1 /\ b = base + k * 7
    BY <2>1
  <2>3. a >= 1 /\ b = a + 6 /\ b <= Len(f)
    BY <1>2, <2>1, <2>2
  <2>4. a \in 1 .. Len(f) + 1 /\ b \in a - 1 .. Len(f) /\ j \in 1 .. b - a + 1
    BY <2>3
  <2>5. SubSeq(f, a, b)[j] = f[a + j - 1]
    BY <2>4, SubSeqProperties
  <2>6. a + j - 1 \in 1 .. Len(f)
    BY <2>3
  <2>7. Table(f, base, count, ShdrSize)[k] = SubSeq(f, a, b)
    BY <1>3, <2>2
  <2>8. f[a + j - 1] \in Nat
    BY <2>6
  <2>. QED  BY <2>5, <2>7, <2>8
<1> HIDE DEF n
<1>. QED  BY <1>1, <1>3, <1>4

\* The headers of sections: numbers say where each one is.
HeadersAreNumbers(shdrs) ==
  /\ shdrs \in Seq(Range(shdrs))
  /\ \A h \in Range(shdrs) : h.offset \in Nat /\ h.size \in Nat

LEMMA ShdrsAreNumbers ==
  ASSUME NEW f \in Seq(Nat), EhdrError(f) = None
  PROVE  HeadersAreNumbers(Shdrs(f, Ehdr(f)))
<1> DEFINE eh == Ehdr(f)
           rows == Table(f, eh.shoff, eh.shnum, ShdrSize)
           shdrs == Shdrs(f, eh)
<1>1. Len(f) >= 10
  <2>1. SUFFICES ASSUME Len(f) < 10
                 PROVE  FALSE
    OBVIOUS
  <2>2. EhdrError(f) = "truncated"
    BY <2>1, Zenon DEF EhdrError, EhdrSize
  <2>. QED  BY <2>2, NoneIsNoError
<1>2. eh.shoff \in Nat /\ eh.shnum \in Nat
  BY <1>1 DEF Ehdr
<1>3. CASE eh.shoff = 0
  <2>1. shdrs = <<>>
    BY <1>3 DEF Shdrs
  <2>2. Range(<<>>) = {} /\ <<>> \in Seq({})
    BY DEF Range
  <2> HIDE DEF shdrs
  <2>3. HeadersAreNumbers(shdrs)
    BY <2>1, <2>2 DEF HeadersAreNumbers
  <2>. QED  BY <2>3 DEF shdrs
<1>4. CASE eh.shoff # 0
  <2>1. shdrs = Named(f, rows, eh.shstrndx)
    BY <1>4 DEF Shdrs
  <2>2. PICK n \in Nat : /\ DOMAIN rows = 1 .. n
                         /\ \A k \in 1 .. n : \A j \in 1 .. 7 : rows[k][j] \in Nat
    <3> HIDE DEF eh
    <3>. QED  BY <1>2, TableRows
  <2> HIDE DEF rows, eh
  <2>3. PICK names : Named(f, rows, eh.shstrndx) = [k \in DOMAIN rows |-> Shdr(rows[k], names)]
    BY DEF Named
  <2> HIDE DEF shdrs
  <2>4. shdrs = [k \in 1 .. n |-> Shdr(rows[k], names)]
    BY <2>1, <2>2, <2>3
  <2>5. ASSUME NEW k \in 1 .. n
        PROVE  shdrs[k].offset \in Nat /\ shdrs[k].size \in Nat
    <3>1. shdrs[k] = Shdr(rows[k], names)
      BY <2>4
    <3>2. rows[k][5] \in Nat /\ rows[k][6] \in Nat
      BY <2>2
    <3>. QED  BY <3>1, <3>2 DEF Shdr
  <2>6. Range(shdrs) = {shdrs[k] : k \in 1 .. n} /\ shdrs \in Seq(Range(shdrs))
    <3>1. Range(shdrs) = {shdrs[k] : k \in 1 .. n}
      BY <2>4 DEF Range
    <3>2. shdrs \in [1 .. n -> Range(shdrs)]
      BY <2>4, <3>1
    <3>. QED  BY <3>1, <3>2
  <2>7. HeadersAreNumbers(shdrs)
    BY <2>5, <2>6 DEF HeadersAreNumbers
  <2>. QED  BY <2>7 DEF shdrs, eh
<1>. QED  BY <1>3, <1>4

LEMMA HeadersLead ==
  ASSUME NEW f \in Seq(Nat), NEW shdrs, HeadersAreNumbers(shdrs), NEW k
  PROVE  /\ Contents(f, Nth(shdrs, k)) \in Seq(Nat)
         /\ Nth(shdrs, k) # None => Nth(shdrs, k) \in Range(shdrs)
<1>1. CASE k \in 0 .. Len(shdrs) - 1
  <2>1. k + 1 \in 1 .. Len(shdrs) /\ Nth(shdrs, k) = shdrs[k + 1]
    BY <1>1 DEF Nth, HeadersAreNumbers
  <2>2. shdrs[k + 1] \in Range(shdrs)
    BY <2>1 DEF HeadersAreNumbers, Range
  <2>. QED  BY <2>1, <2>2, ContentsAreCells DEF HeadersAreNumbers
<1>2. CASE k \notin 0 .. Len(shdrs) - 1
  <2>1. Nth(shdrs, k) = None
    BY <1>2 DEF Nth
  <2>. QED  BY <2>1, ContentsAreCells
<1>. QED  BY <1>1, <1>2

\* The sections with relocations are sections.
LEMMA RelocSectionsAreSections ==
  ASSUME NEW shdrs, HeadersAreNumbers(shdrs)
  PROVE  /\ RelocSections(shdrs) \in Seq(Range(shdrs))
         /\ Range(RelocSections(shdrs)) \subseteq Range(shdrs)
<1>1. shdrs \in Seq(Range(shdrs))
  BY DEF HeadersAreNumbers
<1> DEFINE S == {s \in Range(shdrs) : s.type \in {SectionType.rela, SectionType.rel}}
<1>2. RelocSections(shdrs) = AllIn(shdrs, S)
  BY DEF RelocSections
<1> HIDE DEF S
<1>3. AllIn(shdrs, S) \in Seq(Range(shdrs)) /\ Range(AllIn(shdrs, S)) = Range(shdrs) \cap S
  BY <1>1, AllInElements
<1>. QED  BY <1>2, <1>3

LEMMA RelocRowsAreRows ==
  ASSUME NEW f \in Seq(Nat), NEW shdrs, HeadersAreNumbers(shdrs), NEW s \in Range(shdrs)
  PROVE  RelocRows(f, s) \in Seq(Range(RelocRows(f, s)))
<1> DEFINE rows == RelocRows(f, s)
<1>1. Contents(f, s) \in Seq(Nat)
  BY ContentsAreCells DEF HeadersAreNumbers
<1>2. PICK size \in Nat \ {0} : rows = Records(Contents(f, s), size)
  BY DEF RelocRows
<1> DEFINE n == Len(Contents(f, s)) \div size
<1>3. n \in Nat
  BY <1>1, RecordsAreRows
<1>4. rows = [k \in 1 .. n |-> rows[k]] /\ DOMAIN rows = 1 .. n
  <2> HIDE DEF rows
  <2>. QED  BY <1>2 DEF Records
<1> HIDE DEF rows, n
<1>5. rows \in [1 .. n -> Range(rows)]
  BY <1>4 DEF Range
<1>6. rows \in Seq(Range(rows))
  BY <1>3, <1>5
<1>. QED  BY <1>6 DEF rows

-----------------------------------------------------------------------------
(***************************************************************************)
(* The two walks of an ELF file.                                           *)
(***************************************************************************)
\* A section that links to a table of dynamic symbols, and what its relocations import.
LinksToSymbols(shdrs, s) ==
  Nth(shdrs, s.link) # None /\ Nth(shdrs, s.link).type = SectionType.dynsym
SlotsOf(f, s, dynsym, library) ==
  {ImportOf(r, s, dynsym, library) : r \in {q \in Range(RelocRows(f, s)) : IsImport(q, dynsym)}}
Slots(f, shdrs, dynsym, library) ==
  UNION {SlotsOf(f, s, dynsym, library) :
           s \in {h \in Range(RelocSections(shdrs)) : LinksToSymbols(shdrs, h)}}

\* The first with each name, of a list.
FirstNamed(all) == {all[k] : k \in {j \in DOMAIN all : \A i \in 1 .. j - 1 : all[i].name # all[j].name}}

\* What the slots import is a list, of which the first with each name are shown.
ListsImports(all, library, f, shdrs, dynsym, needed) ==
  /\ all \in Seq(Range(all))
  /\ Range(all) = Slots(f, shdrs, dynsym, library)
  /\ Imports(f, shdrs, dynsym, needed) = FirstNamed(all)

LEMMA ImportsAreListed ==
  ASSUME NEW f \in Seq(Nat), NEW shdrs, HeadersAreNumbers(shdrs), NEW dynsym, NEW needed
  PROVE  \E library, all : ListsImports(all, library, f, shdrs, dynsym, needed)
<1> DEFINE library == IF Len(needed) = 1 THEN needed[1] ELSE None
           Counts(s) == LET table == Nth(shdrs, s.link) IN
                        IF table = None THEN FALSE ELSE table.type = SectionType.dynsym
           counted == {s \in Range(shdrs) : Counts(s)}
           sections == AllIn(RelocSections(shdrs), counted)
           Found(s) == LET every == RelocRows(f, s)
                           rows == AllIn(every, {r \in Range(every) : IsImport(r, dynsym)})
                       IN [k \in DOMAIN rows |-> ImportOf(rows[k], s, dynsym, library)]
           parts == [k \in DOMAIN sections |-> Found(sections[k])]
           all == FlattenSeq(parts)
<1>1. Imports(f, shdrs, dynsym, needed) = FirstNamed(all)
  BY DEF Imports, FirstNamed
<1>2. counted = {s \in Range(shdrs) : LinksToSymbols(shdrs, s)}
  BY DEF LinksToSymbols
<1>3. /\ sections \in Seq(Range(shdrs))
      /\ Range(sections) = Range(RelocSections(shdrs)) \cap counted
  <2> HIDE DEF counted
  <2>. QED  BY RelocSectionsAreSections, AllInElements
<1>4. Range(sections) \subseteq Range(shdrs)
  BY <1>3, RelocSectionsAreSections
<1>5. Range(sections) = {h \in Range(RelocSections(shdrs)) : LinksToSymbols(shdrs, h)}
  <2> HIDE DEF counted, sections
  <2>. QED  BY <1>2, <1>3, RelocSectionsAreSections
<1> DEFINE n == Len(sections)
<1>6. n \in Nat /\ DOMAIN sections = 1 .. n /\ Range(sections) = {sections[k] : k \in 1 .. n}
  <2> HIDE DEF sections
  <2>. QED  BY <1>3 DEF Range
<1>7. ASSUME NEW s \in Range(shdrs)
      PROVE  Found(s) \in Seq(Range(Found(s))) /\ Range(Found(s)) = SlotsOf(f, s, dynsym, library)
  <2> DEFINE every == RelocRows(f, s)
             S == {r \in Range(every) : IsImport(r, dynsym)}
             rows == AllIn(every, S)
             m == Len(rows)
             part == Found(s)
  <2>1. rows \in Seq(Range(every)) /\ Range(rows) = S
    <3>1. every \in Seq(Range(every))
      BY RelocRowsAreRows
    <3>2. S \subseteq Range(every)
      OBVIOUS
    <3> DEFINE E == Range(every)
    <3>3. every \in Seq(E) /\ S \subseteq E /\ E = Range(every)
      BY <3>1, <3>2
    <3> HIDE DEF every, S, E
    <3>4. AllIn(every, S) \in Seq(E) /\ Range(AllIn(every, S)) = Range(every) \cap S
      BY <3>3, AllInElements
    <3>5. AllIn(every, S) \in Seq(E) /\ Range(AllIn(every, S)) = S
      BY <3>3, <3>4
    <3>. QED  BY <3>5 DEF E
  <2>2. part = [k \in DOMAIN rows |-> ImportOf(rows[k], s, dynsym, library)]
    OBVIOUS
  <2>3. SlotsOf(f, s, dynsym, library) = {ImportOf(r, s, dynsym, library) : r \in S}
    BY DEF SlotsOf
  <2> HIDE DEF part, rows, S, every
  <2>4. m \in Nat /\ DOMAIN rows = 1 .. m
    BY <2>1
  <2>5. Range(part) = {ImportOf(r, s, dynsym, library) : r \in Range(rows)}
    BY <2>2 DEF Range
  <2>6. DOMAIN part = 1 .. m /\ part = [k \in 1 .. m |-> part[k]]
    BY <2>2, <2>4
  <2> HIDE DEF m
  <2>7. part \in [1 .. m -> Range(part)]
    BY <2>6 DEF Range
  <2>8. part \in Seq(Range(part))
    BY <2>4, <2>7
  <2>9. Range(part) = SlotsOf(f, s, dynsym, library)
    BY <2>1, <2>3, <2>5
  <2>. QED  BY <2>8, <2>9 DEF part
<1>8. ASSUME NEW k \in 1 .. n
      PROVE  parts[k] = Found(sections[k]) /\ sections[k] \in Range(shdrs)
  BY <1>4, <1>6
<1>9. DOMAIN parts = 1 .. n /\ parts = [k \in 1 .. n |-> parts[k]]
  BY <1>6
<1>10. ASSUME NEW k \in 1 .. n
       PROVE  /\ parts[k] \in Seq(Range(parts[k]))
              /\ Range(parts[k]) = SlotsOf(f, sections[k], dynsym, library)
  <2> HIDE DEF Found, sections, library
  <2>. QED  BY <1>7, <1>8
<1>11. /\ all \in Seq(Range(all))
       /\ Range(all) = UNION {Range(parts[k]) : k \in 1 .. n}
  <2> HIDE DEF parts, n
  <2>. QED  BY <1>6, <1>9, <1>10, FlattenedParts
<1> HIDE DEF all, parts, n, sections, library
<1>12. UNION {Range(parts[k]) : k \in 1 .. n} = UNION {SlotsOf(f, s, dynsym, library) : s \in Range(sections)}
  BY <1>6, <1>10
<1>13. Range(all) = Slots(f, shdrs, dynsym, library)
  BY <1>5, <1>11, <1>12 DEF Slots
<1>14. ListsImports(all, library, f, shdrs, dynsym, needed)
  BY <1>1, <1>11, <1>13 DEF ListsImports
<1>. QED  BY <1>14

\* The first section of a type, if there is no other of it.
LEMMA OnlyOneOfType ==
  ASSUME NEW shdrs, HeadersAreNumbers(shdrs), NEW type, NEW d \in 1 .. Len(shdrs),
         shdrs[d].type = type,
         \A j, k \in {m \in DOMAIN shdrs : shdrs[m].type = type} : j = k
  PROVE  OfType(shdrs, type) = shdrs[d]
<1> DEFINE S == {s \in Range(shdrs) : s.type = type}
           at == {k \in DOMAIN shdrs : shdrs[k] \in S}
<1>1. DOMAIN shdrs = 1 .. Len(shdrs)
  BY DEF HeadersAreNumbers
<1>2. shdrs[d] \in Range(shdrs) \cap S /\ d \in at
  BY <1>1 DEF Range
<1>3. at = {d}
  BY <1>1, <1>2
<1>4. Least(at) = d
  <2>1. d <= d
    OBVIOUS
  <2>2. Least({d}) = d
    BY <2>1 DEF Least
  <2> HIDE DEF at
  <2>. QED  BY <1>3, <2>2
<1>5. OfType(shdrs, type) = FirstIn(shdrs, S)
  BY DEF OfType
<1>6. FirstIn(shdrs, S) = shdrs[Least(at)]
  <2> HIDE DEF S
  <2>. QED  BY <1>2 DEF FirstIn
<1>. QED  BY <1>4, <1>5, <1>6

\* The symbols of a table, of which the first is nameless.
SymbolsOf(f, shdrs, table, dynsym) ==
  /\ HeadersAreNumbers(shdrs) /\ table \in Range(shdrs) /\ table # None
  /\ dynsym = Symtab(f, shdrs, table)
  /\ dynsym # <<>> => dynsym[1].name = <<>>

\* What the raw table names at an index is the name of the symbol decoded there.
LEMMA BothNamesAreOne ==
  ASSUME NEW f \in Seq(Nat), NEW shdrs, NEW table, NEW dynsym, SymbolsOf(f, shdrs, table, dynsym),
         NEW index \in 0 .. Len(dynsym) - 1, dynsym[index + 1].name # <<>>
  PROVE  SymbolName(Contents(f, table), Contents(f, Nth(shdrs, table.link)), index)
           = dynsym[index + 1].name
<1> DEFINE cells == Contents(f, table)
           names == Contents(f, Nth(shdrs, table.link))
           rows == Records(cells, SymSize)
<1>0. /\ HeadersAreNumbers(shdrs) /\ table \in Range(shdrs) /\ table # None
      /\ dynsym = Symtab(f, shdrs, table)
      /\ dynsym # <<>> => dynsym[1].name = <<>>
  BY DEF SymbolsOf
<1>1. cells \in Seq(Nat) /\ SymSize \in Nat \ {0}
  BY <1>0, ContentsAreCells DEF HeadersAreNumbers, SymSize
<1>2. dynsym = [k \in DOMAIN rows |-> Symbol(rows[k], names)]
  BY <1>0 DEF Symtab
<1> HIDE DEF cells, names
<1>3. Len(cells) \div SymSize \in Nat /\ DOMAIN rows = 1 .. Len(cells) \div SymSize
  BY <1>1, RecordsAreRows
<1> HIDE DEF rows
<1>4. Len(dynsym) = Len(cells) \div SymSize /\ DOMAIN dynsym = DOMAIN rows
  BY <1>2, <1>3
<1>5. index + 1 \in 1 .. Len(cells) \div SymSize /\ index + 1 \in DOMAIN dynsym
  BY <1>3, <1>4
<1>6. index # 0
  <2>1. dynsym # <<>>
    BY <1>5
  <2>. QED  BY <1>0, <2>1
<1>7. dynsym[index + 1].name = Cstr(names, rows[index + 1][1])
  <2>1. dynsym[index + 1] = Symbol(rows[index + 1], names)
    BY <1>2, <1>4, <1>5
  <2>. QED  BY <2>1 DEF Symbol
<1> DEFINE base == index * SymSize
<1>8. base \in 0 .. Len(cells) - 1 /\ rows[index + 1][1] = cells[base + 1]
  <2>1. PICK k \in 1 .. Len(cells) \div SymSize : k = index + 1 /\ k - 1 = index
    BY <1>5
  <2>2. /\ (k - 1) * SymSize \in 0 .. Len(cells) - 1
        /\ rows[k][1] = cells[(k - 1) * SymSize + 1]
    BY <1>1, FirstCells DEF rows
  <2>. QED  BY <2>1, <2>2
<1>9. Readable(cells, base)
  BY <1>8 DEF Readable
<1> DEFINE name == Cstr(names, cells[base + 1])
<1>10. name = dynsym[index + 1].name /\ name # <<>>
  BY <1>7, <1>8
<1>11. SymbolName(cells, names, index) = name
  BY <1>6, <1>9, <1>10, Zenon DEF SymbolName
<1>. QED  BY <1>10, <1>11 DEF cells, names

\* A relocation as it is shown, and all of them.
RelocOf(f, shdrs, s, row) ==
  LET table == Nth(shdrs, s.link)
  IN Reloc(row, Contents(f, table), IF table = None THEN <<>> ELSE Contents(f, Nth(shdrs, table.link)))
RelocationsOf(f, shdrs, s) == {RelocOf(f, shdrs, s, row) : row \in Range(RelocRows(f, s))}

LEMMA RelocationsAreShown ==
  ASSUME NEW f \in Seq(Nat), NEW shdrs, HeadersAreNumbers(shdrs)
  PROVE  Range(Relocations(f, shdrs))
           = UNION {RelocationsOf(f, shdrs, s) : s \in Range(RelocSections(shdrs))}
<1> DEFINE sections == RelocSections(shdrs)
           n == Len(sections)
           Of(h) == RelocsOf(f, shdrs, h, Nth(shdrs, h.link))
           parts == [j \in DOMAIN sections |-> Of(sections[j])]
<1>1. Relocations(f, shdrs) = FlattenSeq(parts)
  BY DEF Relocations
<1>2. sections \in Seq(Range(shdrs)) /\ Range(sections) \subseteq Range(shdrs)
  BY RelocSectionsAreSections
<1> HIDE DEF sections
<1>3. n \in Nat /\ DOMAIN sections = 1 .. n /\ Range(sections) = {sections[j] : j \in 1 .. n}
  BY <1>2 DEF Range
<1>4. ASSUME NEW h \in Range(shdrs)
      PROVE  Of(h) \in Seq(Range(Of(h))) /\ Range(Of(h)) = RelocationsOf(f, shdrs, h)
  <2> DEFINE rows == RelocRows(f, h)
             of == Of(h)
  <2>1. of = [k \in DOMAIN rows |-> RelocOf(f, shdrs, h, rows[k])]
    BY DEF RelocsOf, RelocOf
  <2>2. RelocationsOf(f, shdrs, h) = {RelocOf(f, shdrs, h, row) : row \in Range(rows)}
    BY DEF RelocationsOf
  <2>3. rows \in Seq(Range(rows))
    BY RelocRowsAreRows
  <2> HIDE DEF rows, of
  <2> DEFINE m == Len(rows)
  <2>4. m \in Nat /\ DOMAIN rows = 1 .. m
    BY <2>3
  <2>5. Range(of) = RelocationsOf(f, shdrs, h)
    BY <2>1, <2>2 DEF Range
  <2>6. DOMAIN of = 1 .. m /\ of = [k \in 1 .. m |-> of[k]]
    BY <2>1, <2>4
  <2> HIDE DEF m
  <2>7. of \in [1 .. m -> Range(of)]
    BY <2>6 DEF Range
  <2>8. of \in Seq(Range(of))
    BY <2>4, <2>7
  <2>. QED  BY <2>5, <2>8 DEF of
<1>5. ASSUME NEW j \in 1 .. n
      PROVE  parts[j] = Of(sections[j]) /\ sections[j] \in Range(shdrs)
  BY <1>2, <1>3
<1>6. ASSUME NEW j \in 1 .. n
      PROVE  parts[j] \in Seq(Range(parts[j])) /\ Range(parts[j]) = RelocationsOf(f, shdrs, sections[j])
  <2> HIDE DEF Of
  <2>. QED  BY <1>4, <1>5
<1>7. DOMAIN parts = 1 .. n /\ parts = [j \in 1 .. n |-> parts[j]]
  BY <1>3
<1>8. Range(FlattenSeq(parts)) = UNION {Range(parts[j]) : j \in 1 .. n}
  <2> HIDE DEF parts, n
  <2>. QED  BY <1>3, <1>6, <1>7, FlattenedParts
<1> HIDE DEF parts, n
<1>9. UNION {Range(parts[j]) : j \in 1 .. n}
        = UNION {RelocationsOf(f, shdrs, s) : s \in Range(sections)}
  BY <1>3, <1>6
<1>. QED  BY <1>1, <1>8, <1>9 DEF sections

\* An import has a relocation of a slot that names it, and a symbol that no section
\* defines.
LEMMA ImportsAreBacked ==
  ASSUME NEW f \in Seq(Nat), NEW shdrs, HeadersAreNumbers(shdrs), NEW needed, NEW dynsym,
         dynsym = Symtab(f, shdrs, OfType(shdrs, SectionType.dynsym)),
         \A j, k \in {m \in DOMAIN shdrs : shdrs[m].type = SectionType.dynsym} : j = k,
         dynsym # <<>> => dynsym[1].name = <<>>,
         NEW i \in Imports(f, shdrs, dynsym, needed)
  PROVE  /\ \E r \in Range(Relocations(f, shdrs)) :
              /\ r.symbol = i.name /\ r.kind \in Range(RelocType)
              /\ i.address = IF r.offset = 0 THEN None ELSE r.offset
         /\ \E k \in 1 .. Len(dynsym) : dynsym[k].name = i.name /\ dynsym[k].shndx = Undefined
<1>1. PICK library : i \in Slots(f, shdrs, dynsym, library)
  <2>1. PICK library, all : ListsImports(all, library, f, shdrs, dynsym, needed)
    BY ImportsAreListed
  <2>2. i \in Range(all)
    BY <2>1 DEF Range, FirstNamed, ListsImports
  <2>. QED  BY <2>1, <2>2 DEF ListsImports
<1>2. PICK s \in Range(RelocSections(shdrs)) : LinksToSymbols(shdrs, s) /\ i \in SlotsOf(f, s, dynsym, library)
  BY <1>1 DEF Slots
<1>3. PICK row \in Range(RelocRows(f, s)) : IsImport(row, dynsym) /\ i = ImportOf(row, s, dynsym, library)
  BY <1>2 DEF SlotsOf
<1> DEFINE table == Nth(shdrs, s.link)
           sym == Nth(dynsym, row[2])
           index == row[2]
<1>4. OfType(shdrs, SectionType.dynsym) = table /\ table \in Range(shdrs) /\ table # None
  <2>1. table # None /\ table.type = SectionType.dynsym
    BY <1>2 DEF LinksToSymbols
  <2>2. s.link \in 0 .. Len(shdrs) - 1 /\ table = shdrs[s.link + 1]
    BY <2>1, Zenon DEF Nth
  <2>3. PICK d \in 1 .. Len(shdrs) : table = shdrs[d]
    BY <2>2 DEF HeadersAreNumbers
  <2>4. shdrs[d].type = SectionType.dynsym
    BY <2>1, <2>3
  <2>5. OfType(shdrs, SectionType.dynsym) = shdrs[d]
    <3> DEFINE type == SectionType.dynsym
    <3>1. shdrs[d].type = type /\ \A a, b \in {m \in DOMAIN shdrs : shdrs[m].type = type} : a = b
      BY <2>4
    <3> HIDE DEF type
    <3>2. OfType(shdrs, type) = shdrs[d]
      BY <3>1, OnlyOneOfType
    <3>. QED  BY <3>2 DEF type
  <2>6. table \in Range(shdrs)
    BY <2>1, HeadersLead
  <2>. QED  BY <2>1, <2>3, <2>5, <2>6
<1>5. /\ row[3] \in Range(RelocType) /\ index \in 0 .. Len(dynsym) - 1
      /\ sym.shndx = Undefined /\ sym.name # <<>>
      /\ i.name = sym.name /\ i.address = IF row[1] = 0 THEN None ELSE row[1]
  <2>1. /\ row[3] \in Range(RelocType) /\ index \in 0 .. Len(dynsym) - 1
        /\ sym.shndx = Undefined /\ sym.name # <<>>
    BY <1>3 DEF IsImport
  <2> DEFINE kind == CASE s.name = RelPlt \/ row[3] = RelocType.call \/ sym.type = 2 -> "function"
                       [] sym.type = 1 -> "data"
                       [] OTHER -> "unknown"
  <2>2. i = [name |-> sym.name, library |-> library, ordinal |-> None,
             address |-> IF row[1] = 0 THEN None ELSE row[1], kind |-> kind]
    BY <1>3 DEF ImportOf
  <2> HIDE DEF sym, kind
  <2>3. i.name = sym.name /\ i.address = IF row[1] = 0 THEN None ELSE row[1]
    BY <2>2
  <2>. QED  BY <2>1, <2>3
<1>6. sym = dynsym[index + 1]
  BY <1>5 DEF Nth
<1> DEFINE names == Contents(f, Nth(shdrs, table.link))
           r == Reloc(row, Contents(f, table), names)
<1>7. SymbolName(Contents(f, table), Contents(f, Nth(shdrs, table.link)), index) = sym.name
  <2>1. /\ table # None /\ dynsym = Symtab(f, shdrs, table)
        /\ index \in 0 .. Len(dynsym) - 1 /\ dynsym[index + 1].name # <<>>
    BY <1>4, <1>5, <1>6
  <2> HIDE DEF table, index, sym
  <2>2. SymbolsOf(f, shdrs, table, dynsym)
    BY <1>4, <2>1 DEF SymbolsOf
  <2>3. SymbolName(Contents(f, table), Contents(f, Nth(shdrs, table.link)), index) = dynsym[index + 1].name
    BY <2>1, <2>2, BothNamesAreOne
  <2>. QED  BY <1>6, <2>3
<1>8. r \in Range(Relocations(f, shdrs))
  <2>1. RelocOf(f, shdrs, s, row) = r
    BY <1>4 DEF RelocOf
  <2>2. RelocOf(f, shdrs, s, row) \in RelocationsOf(f, shdrs, s)
    BY DEF RelocationsOf
  <2> HIDE DEF r
  <2>. QED  BY <2>1, <2>2, RelocationsAreShown
<1>9. r.symbol = i.name /\ r.kind = row[3] /\ r.offset = row[1]
  <2>1. r.symbol = SymbolName(Contents(f, table), names, row[2]) /\ r.kind = row[3] /\ r.offset = row[1]
    <3> DEFINE cells == Contents(f, table)
    <3> HIDE DEF names, cells
    <3>. QED  BY DEF Reloc
  <2>. QED  BY <1>5, <1>7, <2>1
<1>10. \E d \in 1 .. Len(dynsym) : dynsym[d].name = i.name /\ dynsym[d].shndx = Undefined
  <2>1. index + 1 \in 1 .. Len(dynsym)
    <3>1. \E m \in Nat : Len(dynsym) = m
      <4>1. Contents(f, table) \in Seq(Nat) /\ SymSize \in Nat \ {0}
        BY <1>4, ContentsAreCells DEF HeadersAreNumbers, SymSize
      <4>2. /\ Len(Contents(f, table)) \div SymSize \in Nat
            /\ DOMAIN Records(Contents(f, table), SymSize) = 1 .. Len(Contents(f, table)) \div SymSize
        BY <4>1, RecordsAreRows
      <4>3. dynsym = Symtab(f, shdrs, table)
        BY <1>4
      <4> HIDE DEF table
      <4>4. DOMAIN dynsym = DOMAIN Records(Contents(f, table), SymSize)
        BY <1>4, <4>3 DEF Symtab
      <4>. QED  BY <4>2, <4>4
    <3>. QED  BY <1>5, <3>1
  <2>. QED  BY <1>5, <1>6, <2>1
<1> HIDE DEF r
<1>. QED  BY <1>5, <1>8, <1>9, <1>10

\* No two imports have one name: of those with a name, the first is listed.
LEMMA ImportsHaveTheirNames ==
  ASSUME NEW f \in Seq(Nat), NEW shdrs, HeadersAreNumbers(shdrs), NEW dynsym, NEW needed,
         NEW i \in Imports(f, shdrs, dynsym, needed), NEW j \in Imports(f, shdrs, dynsym, needed),
         i.name = j.name
  PROVE  i = j
<1>1. PICK all : all \in Seq(Range(all)) /\ Imports(f, shdrs, dynsym, needed) = FirstNamed(all)
  BY ImportsAreListed DEF ListsImports
<1>2. DOMAIN all = 1 .. Len(all)
  BY <1>1
<1>3. PICK k \in 1 .. Len(all) : i = all[k] /\ \A e \in 1 .. k - 1 : all[e].name # all[k].name
  BY <1>1, <1>2 DEF FirstNamed
<1>4. PICK n \in 1 .. Len(all) : j = all[n] /\ \A e \in 1 .. n - 1 : all[e].name # all[n].name
  BY <1>1, <1>2 DEF FirstNamed
<1>5. all[k].name = all[n].name
  BY <1>3, <1>4
<1>6. ~ (k < n) /\ ~ (n < k)
  <2>1. k < n => k \in 1 .. n - 1
    OBVIOUS
  <2>2. n < k => n \in 1 .. k - 1
    OBVIOUS
  <2>. QED  BY <1>3, <1>4, <1>5, <2>1, <2>2
<1>7. k = n
  BY <1>6
<1>. QED  BY <1>3, <1>4, <1>7

-----------------------------------------------------------------------------
(***************************************************************************)
(* The file under inspection, and what is shown of it.                     *)
(***************************************************************************)
\* What is shown is what the inspection of the present file shows.
InspectInv == file \in Seq(Nat) /\ image = Inspected(file)

LEMMA InspectInvInit == InspectInit => InspectInv
BY FilesAreCells DEF InspectInit, InspectInv

LEMMA InspectInvNext == InspectInv /\ [InspectNext]_inspectVars => InspectInv'
<1> SUFFICES ASSUME InspectInv, [InspectNext]_inspectVars
             PROVE  InspectInv'
  OBVIOUS
<1>1. ASSUME NEW k \in DOMAIN file, NEW v \in Values, Damage(k, v)
      PROVE  InspectInv'
  <2>1. [file EXCEPT ![k] = v] \in Seq(Nat)
    BY DamagesAreCells DEF InspectInv
  <2>. QED  BY <1>1, <2>1 DEF InspectInv, Damage, Upload
<1>2. ASSUME NEW n \in Cuts, Cut(n)
      PROVE  InspectInv'
  <2>1. n \in Nat /\ n < Len(file)
    BY <1>2, DamagesAreCells DEF Cut
  <2>2. SubSeq(file, 1, n) \in Seq(Nat)
    BY <2>1 DEF InspectInv
  <2>. QED  BY <1>2, <2>2 DEF InspectInv, Cut, Upload
<1>3. CASE UNCHANGED inspectVars
  BY <1>3 DEF InspectInv, inspectVars
<1>. QED  BY <1>1, <1>2, <1>3 DEF InspectNext

\* The parts of an image that is shown of an ELF file.
LEMMA ElfImages ==
  ASSUME NEW f, IsElf(f), NEW shown, shown = Inspected(f), ~ Refused(shown)
  PROVE  \E needed :
           LET shdrs == Shdrs(f, Ehdr(f))
               dynsym == Symtab(f, shdrs, OfType(shdrs, SectionType.dynsym))
               static == Symtab(f, shdrs, OfType(shdrs, SectionType.symtab))
           IN /\ EhdrError(f) = None /\ shown.format = "elf"
              /\ shown.sections = Sections(shdrs) /\ shown.segments = Segments(Phdrs(f, Ehdr(f)))
              /\ shown.imports = Imports(f, shdrs, dynsym, needed) /\ shown.exports = Exports(dynsym)
              /\ shown.relocations = Relocations(f, shdrs)
              /\ shown.symbols = [k \in 1 .. Len(static \o dynsym) |-> Shown(shdrs, (static \o dynsym)[k])]
<1> DEFINE eh == Ehdr(f)
           phdrs == Phdrs(f, eh)
           shdrs == Shdrs(f, eh)
           dynsym == Symtab(f, shdrs, OfType(shdrs, SectionType.dynsym))
           static == Symtab(f, shdrs, OfType(shdrs, SectionType.symtab))
           dynamic == ParseDynamic(f, phdrs, shdrs)
           imports == Imports(f, shdrs, dynsym, dynamic.needed)
<1>1. EhdrError(f) = None /\ shown = ElfParse(f)
  <2>1. \A e : Refused([error |-> e])
    BY DEF Refused
  <2>2. f # <<>> => shown = ElfParse(f)
    BY DEF Inspected, Parse
  <2>3. f # <<>>
    BY <2>1 DEF Inspected
  <2>4. EhdrError(f) # None => ElfParse(f) = [error |-> EhdrError(f)]
    BY DEF ElfParse
  <2>. QED  BY <2>1, <2>2, <2>3, <2>4
<1>2. shown = ElfTables(f, eh, phdrs, shdrs, static, dynsym, dynamic, imports)
  BY <1>1, Zenon DEF ElfParse, WithHeaders, WithDynamic
<1> HIDE DEF phdrs, shdrs, dynsym, static, dynamic, imports
<1>3. /\ shown.format = "elf" /\ shown.sections = Sections(shdrs) /\ shown.segments = Segments(phdrs)
      /\ shown.imports = imports /\ shown.exports = Exports(dynsym)
      /\ shown.relocations = Relocations(f, shdrs)
      /\ shown.symbols = [k \in 1 .. Len(static \o dynsym) |-> Shown(shdrs, (static \o dynsym)[k])]
  BY <1>2 DEF ElfTables
<1>. QED  BY <1>1, <1>3 DEF eh, phdrs, shdrs, dynsym, static, imports

LEMMA SymtabIsASequence ==
  ASSUME NEW f \in Seq(Nat), NEW shdrs, HeadersAreNumbers(shdrs), NEW type
  PROVE  Symtab(f, shdrs, OfType(shdrs, type)) \in Seq(Range(Symtab(f, shdrs, OfType(shdrs, type))))
<1> DEFINE table == OfType(shdrs, type)
           symbols == Symtab(f, shdrs, table)
<1>1. CASE table = None
  <2>1. symbols = <<>>
    BY <1>1 DEF Symtab
  <2> HIDE DEF symbols
  <2>2. symbols \in Seq(Range(symbols))
    BY <2>1
  <2>. QED  BY <2>2 DEF symbols
<1>2. CASE table # None
  <2> DEFINE S == {s \in Range(shdrs) : s.type = type}
             at == {k \in DOMAIN shdrs : shdrs[k] \in S}
  <2>1. table = FirstIn(shdrs, S)
    BY DEF OfType
  <2> HIDE DEF table
  <2>2. table = shdrs[Least(at)] /\ Range(shdrs) \cap S # {}
    <3> HIDE DEF S
    <3>. QED  BY <1>2, <2>1 DEF FirstIn
  <2>3. table \in Range(shdrs)
    <3>1. at # {} /\ at \in SUBSET Nat /\ at \subseteq DOMAIN shdrs
      BY <2>2 DEF HeadersAreNumbers, Range
    <3> HIDE DEF at
    <3>2. PICK k \in at : \A j \in at : k <= j
      BY <3>1, LeastExists
    <3>3. Least(at) \in at
      BY <3>2 DEF Least
    <3>. QED  BY <2>2, <3>1, <3>3 DEF Range
  <2> DEFINE cells == Contents(f, table)
             rows == Records(cells, SymSize)
  <2>4. cells \in Seq(Nat) /\ SymSize \in Nat \ {0}
    BY <2>3, ContentsAreCells DEF HeadersAreNumbers, SymSize
  <2> HIDE DEF cells
  <2>5. Len(cells) \div SymSize \in Nat /\ DOMAIN rows = 1 .. Len(cells) \div SymSize
    BY <2>4, RecordsAreRows
  <2>6. PICK names : symbols = [k \in DOMAIN rows |-> Symbol(rows[k], names)]
    BY <1>2 DEF Symtab, cells
  <2> HIDE DEF rows, symbols
  <2> DEFINE n == Len(cells) \div SymSize
  <2>7. n \in Nat /\ symbols = [k \in 1 .. n |-> symbols[k]] /\ DOMAIN symbols = 1 .. n
    BY <2>5, <2>6
  <2> HIDE DEF n
  <2>8. symbols \in [1 .. n -> Range(symbols)]
    BY <2>7 DEF Range
  <2>9. symbols \in Seq(Range(symbols))
    BY <2>7, <2>8
  <2>. QED  BY <2>9 DEF symbols, table
<1>. QED  BY <1>1, <1>2

LEMMA ImportsOfTheFile == InspectInv => ImportsAreNeeded
<1> SUFFICES ASSUME InspectInv, ~ Refused(image), IsElf(file), OneTable(file),
                    NEW i \in image.imports
             PROVE  /\ \E r \in Range(image.relocations) :
                         /\ r.symbol = i.name /\ r.kind \in Range(RelocType)
                         /\ i.address = IF r.offset = 0 THEN None ELSE r.offset
                    /\ \E s \in Range(image.symbols) : s.name = i.name /\ s.section = None
                    /\ \A j \in image.imports : j.name = i.name => j = i
  BY DEF ImportsAreNeeded
<1> DEFINE shdrs == Shdrs(file, Ehdr(file))
           dynsym == Symtab(file, shdrs, OfType(shdrs, SectionType.dynsym))
           static == Symtab(file, shdrs, OfType(shdrs, SectionType.symtab))
           both == static \o dynsym
<1>1. file \in Seq(Nat) /\ image = Inspected(file)
  BY DEF InspectInv
<1>2. PICK needed :
        /\ EhdrError(file) = None
        /\ image.imports = Imports(file, shdrs, dynsym, needed)
        /\ image.relocations = Relocations(file, shdrs)
        /\ image.symbols = [k \in 1 .. Len(both) |-> Shown(shdrs, both[k])]
  BY <1>1, ElfImages
<1>3. HeadersAreNumbers(shdrs)
  BY <1>1, <1>2, ShdrsAreNumbers
<1>4. /\ \A j, k \in {m \in DOMAIN shdrs : shdrs[m].type = SectionType.dynsym} : j = k
      /\ dynsym # <<>> => dynsym[1].name = <<>>
  BY DEF OneTable
<1>5. dynsym \in Seq(Range(dynsym)) /\ static \in Seq(Range(static))
  <2> HIDE DEF shdrs
  <2>. QED  BY <1>1, <1>3, SymtabIsASequence
<1>6. dynsym = Symtab(file, shdrs, OfType(shdrs, SectionType.dynsym))
  OBVIOUS
<1> HIDE DEF shdrs, dynsym, static
<1>7. /\ \E r \in Range(Relocations(file, shdrs)) :
           /\ r.symbol = i.name /\ r.kind \in Range(RelocType)
           /\ i.address = IF r.offset = 0 THEN None ELSE r.offset
      /\ \E k \in 1 .. Len(dynsym) : dynsym[k].name = i.name /\ dynsym[k].shndx = Undefined
  <2>1. i \in Imports(file, shdrs, dynsym, needed)
    BY <1>2
  <2>. QED  BY <1>1, <1>3, <1>4, <1>6, <2>1, ImportsAreBacked
<1>8. PICK k \in 1 .. Len(dynsym) : dynsym[k].name = i.name /\ dynsym[k].shndx = Undefined
  BY <1>7
<1>9. \E s \in Range(image.symbols) : s.name = i.name /\ s.section = None
  <2> DEFINE n == Len(static) + k
  <2>1. n \in 1 .. Len(both) /\ both[n] = dynsym[k]
    <3>1. PICK E : static \in Seq(E) /\ dynsym \in Seq(E)
      <4>1. static \in Seq(Range(static) \cup Range(dynsym))
        <5> DEFINE R == Range(static)
                   T == Range(dynsym)
        <5>1. static \in Seq(R)
          BY <1>5
        <5> HIDE DEF R, T
        <5>2. static \in Seq(R \cup T)
          BY <5>1
        <5>. QED  BY <5>2 DEF R, T
      <4>2. dynsym \in Seq(Range(static) \cup Range(dynsym))
        <5> DEFINE R == Range(static)
                   T == Range(dynsym)
        <5>1. dynsym \in Seq(T)
          BY <1>5
        <5> HIDE DEF R, T
        <5>2. dynsym \in Seq(R \cup T)
          BY <5>1
        <5>. QED  BY <5>2 DEF R, T
      <4>. QED  BY <4>1, <4>2
    <3>. QED  BY <3>1
  <2> HIDE DEF both, n
  <2>2. image.symbols[n] = Shown(shdrs, dynsym[k]) /\ image.symbols[n] \in Range(image.symbols)
    BY <1>2, <2>1 DEF Range
  <2>3. SectionName(shdrs, Undefined) = None
    BY DEF SectionName
  <2>4. image.symbols[n].name = i.name /\ image.symbols[n].section = None
    BY <1>8, <2>2, <2>3 DEF Shown
  <2>. QED  BY <2>2, <2>4
<1>10. \A j \in image.imports : j.name = i.name => j = i
  BY <1>1, <1>2, <1>3, ImportsHaveTheirNames
<1>. QED  BY <1>2, <1>7, <1>9, <1>10

\* elf.rs, build_imports and collect_relocations: of any file, whole, damaged or cut, what is
\* shown as an import has a relocation of a slot that names it and an undefined symbol, and
\* is shown once.
THEOREM ImportsAreAlwaysNeeded == InspectSpec => []ImportsAreNeeded
<1>1. InspectSpec => []InspectInv
  BY InspectInvInit, InspectInvNext, PTL DEF InspectSpec
<1>. QED  BY <1>1, ImportsOfTheFile, PTL

-----------------------------------------------------------------------------
(***************************************************************************)
(* A file whose end is missing.                                            *)
(***************************************************************************)
\* g is a beginning of f; so is a table of another.
CutOff(g, f) ==
  /\ g \in Seq(Nat) /\ f \in Seq(Nat) /\ Len(g) <= Len(f)
  /\ \A k \in 1 .. Len(g) : g[k] = f[k]
Begins(s, t) ==
  /\ Len(s) \in Nat /\ Len(t) \in Nat /\ Len(s) <= Len(t)
  /\ DOMAIN s = 1 .. Len(s) /\ DOMAIN t = 1 .. Len(t)
  /\ \A k \in 1 .. Len(s) : s[k] = t[k]

LEMMA SubSeqOfCut ==
  ASSUME NEW g, NEW f, CutOff(g, f), NEW a \in Nat \ {0}, NEW b \in Nat, b <= Len(g)
  PROVE  SubSeq(g, a, b) = SubSeq(f, a, b)
<1>1. g \in Seq(Nat) /\ f \in Seq(Nat) /\ Len(g) <= Len(f) /\ \A k \in 1 .. Len(g) : g[k] = f[k]
  BY DEF CutOff
<1>2. \A k \in a .. b : k \in 1 .. Len(g) /\ g[k] \in Nat /\ f[k] \in Nat /\ g[k] = f[k]
  BY <1>1
<1> DEFINE s == SubSeq(g, a, b)
           t == SubSeq(f, a, b)
<1>3. s \in Seq(Nat) /\ Len(s) = (IF a <= b THEN b - a + 1 ELSE 0) /\ \A i \in 1 .. b - a + 1 : s[i] = g[a + i - 1]
  BY <1>2, SubSeqProperties
<1>4. t \in Seq(Nat) /\ Len(t) = (IF a <= b THEN b - a + 1 ELSE 0) /\ \A i \in 1 .. b - a + 1 : t[i] = f[a + i - 1]
  BY <1>2, SubSeqProperties
<1>5. \A i \in 1 .. b - a + 1 : a + i - 1 \in a .. b
  OBVIOUS
<1> HIDE DEF s, t
<1>6. \A i \in 1 .. Len(s) : s[i] = t[i]
  <2>1. ASSUME NEW i \in 1 .. Len(s)
        PROVE  s[i] = t[i]
    <3>1. i \in 1 .. b - a + 1
      BY <1>3
    <3>2. a + i - 1 \in a .. b
      BY <1>5, <3>1
    <3>. QED  BY <1>2, <1>3, <1>4, <3>1, <3>2
  <2>. QED  BY <2>1
<1>7. s = t
  BY <1>3, <1>4, <1>6, SeqEqual
<1>. QED  BY <1>7 DEF s, t

LEMMA CutIsAPrefix ==
  ASSUME NEW g, NEW f, CutOff(g, f)
  PROVE  IsPrefix(g, f)
<1>1. g \in Seq(Nat) /\ f \in Seq(Nat) /\ Len(g) <= Len(f)
  BY DEF CutOff
<1>2. 1 \in Nat \ {0} /\ Len(g) \in Nat /\ Len(g) <= Len(g)
  BY <1>1
<1>3. SubSeq(g, 1, Len(g)) = SubSeq(f, 1, Len(g))
  <2> DEFINE b == Len(g)
  <2>1. b \in Nat /\ b <= Len(g)
    BY <1>2
  <2> HIDE DEF b
  <2>2. SubSeq(g, 1, b) = SubSeq(f, 1, b)
    BY <1>2, <2>1, SubSeqOfCut
  <2>. QED  BY <2>2 DEF b
<1>. QED  BY <1>1, <1>3 DEF IsPrefix

\* Of what is counted one after the other from 1 on, there is as much as the last one's number.
LEMMA InitialSegment ==
  ASSUME NEW n \in Nat, NEW S \in SUBSET (1 .. n), \A k \in S : \A j \in 1 .. k : j \in S
  PROVE  Cardinality(S) \in 0 .. n /\ S = 1 .. Cardinality(S)
<1>1. CASE S = {}
  <2>1. Cardinality(S) = 0
    BY <1>1, FS_EmptySet
  <2>. QED  BY <1>1, <2>1
<1>2. CASE S # {}
  <2> DEFINE T == {n - k : k \in S}
  <2>1. T \in SUBSET Nat /\ T # {}
    <3>1. ASSUME NEW k \in S
          PROVE  n - k \in Nat
      <4>1. k \in 1 .. n
        OBVIOUS
      <4>. QED  BY <4>1
    <3>. QED  BY <1>2, <3>1
  <2>2. PICK x \in T : \A y \in T : x <= y
    <3> HIDE DEF T
    <3>. QED  BY <2>1, LeastExists
  <2>3. PICK m \in S : x = n - m
    BY <2>2
  <2>4. ASSUME NEW k \in S
        PROVE  k <= m
    <3>1. k \in 1 .. n /\ m \in 1 .. n
      OBVIOUS
    <3>2. n - m <= n - k
      BY <2>2, <2>3
    <3>. QED  BY <3>1, <3>2
  <2>5. S = 1 .. m /\ m \in 1 .. n
    <3>1. \A k \in S : k \in 1 .. n
      OBVIOUS
    <3>2. \A k \in S : k \in 1 .. m
      BY <2>4, <3>1
    <3>. QED  BY <3>1, <3>2
  <2>6. Cardinality(1 .. m) = IF 1 > m THEN 0 ELSE m - 1 + 1
    BY <2>5, FS_Interval
  <2>7. Cardinality(S) = m
    BY <2>5, <2>6
  <2>. QED  BY <2>5, <2>7
<1>. QED  BY <1>1, <1>2

-----------------------------------------------------------------------------
(***************************************************************************)
(* Reads.                                                                  *)
(***************************************************************************)
LEMMA SliceOfCut ==
  ASSUME NEW g, NEW f, CutOff(g, f), NEW o \in Nat, NEW n \in Nat, Slice(g, o, n) # None
  PROVE  /\ Slice(g, o, n) = Slice(f, o, n)
         /\ o + n <= Len(g) /\ Slice(g, o, n) = SubSeq(f, o + 1, o + n)
<1>1. g \in Seq(Nat) /\ f \in Seq(Nat) /\ Len(g) <= Len(f)
  BY DEF CutOff
<1>2. o + n < WordMod /\ o + n <= Len(g) /\ o + n <= Len(f)
  BY <1>1, WordModIsANumber DEF Slice
<1>3. Slice(g, o, n) = SubSeq(g, o + 1, o + n) /\ Slice(f, o, n) = SubSeq(f, o + 1, o + n)
  BY <1>1, <1>2, WordModIsANumber DEF Slice
<1>4. SubSeq(g, o + 1, o + n) = SubSeq(f, o + 1, o + n)
  BY <1>2, SubSeqOfCut
<1>. QED  BY <1>2, <1>3, <1>4

LEMMA CellOfCut ==
  ASSUME NEW g, NEW f, CutOff(g, f), NEW o \in Int, Readable(g, o)
  PROVE  Readable(f, o) /\ Cell(g, o) = Cell(f, o) /\ Cell(f, o) \in Nat
<1>1. o \in 0 .. Len(g) - 1 /\ o \in 0 .. Len(f) - 1 /\ o + 1 \in 1 .. Len(g)
  BY DEF CutOff, Readable
<1>2. Cell(g, o) = g[o + 1] /\ Cell(f, o) = f[o + 1]
  BY <1>1 DEF Cell
<1>3. g[o + 1] = f[o + 1] /\ g[o + 1] \in Nat
  BY <1>1 DEF CutOff
<1>. QED  BY <1>1, <1>2, <1>3 DEF Readable

\* Where a name ends.
LEMMA NameEnds ==
  ASSUME NEW f \in Seq(Nat), NEW o \in Nat
  PROVE  \E e \in 0 .. Len(f) :
           /\ Cstr(f, o) = SubSeq(f, o + 1, e)
           /\ \A k \in o + 1 .. e : f[k] # 0
           /\ e = Len(f) \/ (e + 1 \in o + 1 .. Len(f) /\ f[e + 1] = 0)
<1> DEFINE ends == {k \in o + 1 .. Len(f) : f[k] = 0}
           e == IF ends = {} THEN Len(f) ELSE Least(ends) - 1
<1>1. Cstr(f, o) = SubSeq(f, o + 1, e)
  BY DEF Cstr
<1>2. CASE ends = {}
  <2>1. e = Len(f) /\ \A k \in o + 1 .. e : f[k] # 0
    BY <1>2
  <2> HIDE DEF e
  <2>2. e \in 0 .. Len(f)
    BY <2>1
  <2>. QED  BY <1>1, <2>1, <2>2
<1>3. CASE ends # {}
  <2>1. ends \in SUBSET Nat
    OBVIOUS
  <2>2. PICK x \in ends : \A y \in ends : x <= y
    <3> HIDE DEF ends
    <3>. QED  BY <1>3, <2>1, LeastExists
  <2>3. Least(ends) \in ends /\ \A y \in ends : Least(ends) <= y
    <3> HIDE DEF ends
    <3>. QED  BY <2>2 DEF Least
  <2> DEFINE l == Least(ends)
  <2>4. l \in o + 1 .. Len(f) /\ f[l] = 0 /\ \A y \in o + 1 .. Len(f) : f[y] = 0 => l <= y
    BY <2>3
  <2>5. e = l - 1
    BY <1>3
  <2> HIDE DEF e, l
  <2>6. e \in 0 .. Len(f) /\ e + 1 = l
    BY <2>4, <2>5
  <2>7. ASSUME NEW k \in o + 1 .. e
        PROVE  f[k] # 0
    <3>1. k \in o + 1 .. Len(f) /\ ~ (l <= k)
      BY <2>4, <2>6
    <3>. QED  BY <2>4, <3>1
  <2>. QED  BY <1>1, <2>4, <2>6, <2>7
<1>. QED  BY <1>2, <1>3

LEMMA NamesAreCells ==
  ASSUME NEW f \in Seq(Nat), NEW o \in Nat
  PROVE  Cstr(f, o) \in Seq(Nat)
<1>1. PICK e \in 0 .. Len(f) : Cstr(f, o) = SubSeq(f, o + 1, e)
  BY NameEnds
<1>2. \A k \in o + 1 .. e : f[k] \in Nat
  OBVIOUS
<1>3. SubSeq(f, o + 1, e) \in Seq(Nat)
  BY <1>2, SubSeqProperties
<1>. QED  BY <1>1, <1>3

LEMMA NameOfNothing ==
  ASSUME NEW o \in Nat
  PROVE  Cstr(<<>>, o) = <<>>
<1>1. <<>> \in Seq(Nat) /\ Len(<<>>) = 0
  OBVIOUS
<1>2. PICK e \in 0 .. 0 : Cstr(<<>>, o) = SubSeq(<<>>, o + 1, e)
  BY <1>1, NameEnds
<1>3. SubSeq(<<>>, o + 1, e) = <<>>
  BY SubSeqEmpty
<1>. QED  BY <1>2, <1>3

\* A name loses its end at most.
LEMMA NameOfCut ==
  ASSUME NEW g, NEW f, CutOff(g, f), NEW o \in Nat
  PROVE  CutOff(Cstr(g, o), Cstr(f, o))
<1>1. g \in Seq(Nat) /\ f \in Seq(Nat) /\ Len(g) <= Len(f) /\ \A k \in 1 .. Len(g) : g[k] = f[k]
  BY DEF CutOff
<1>2. PICK d \in 0 .. Len(g) :
        Cstr(g, o) = SubSeq(g, o + 1, d) /\ \A k \in o + 1 .. d : g[k] # 0
  BY <1>1, NameEnds
<1>3. PICK e \in 0 .. Len(f) :
        /\ Cstr(f, o) = SubSeq(f, o + 1, e)
        /\ e = Len(f) \/ (e + 1 \in o + 1 .. Len(f) /\ f[e + 1] = 0)
  BY <1>1, NameEnds
<1>4. d <= e
  <2>1. SUFFICES ASSUME e < d
                 PROVE  FALSE
    OBVIOUS
  <2>2. e + 1 \in o + 1 .. Len(f) /\ f[e + 1] = 0
    BY <1>1, <1>3, <2>1
  <2>3. e + 1 \in o + 1 .. d /\ e + 1 \in 1 .. Len(g)
    BY <2>1, <2>2
  <2>. QED  BY <1>1, <1>2, <2>2, <2>3
<1>5. SubSeq(g, o + 1, d) = SubSeq(f, o + 1, d)
  <2>1. PICK a \in Nat \ {0} : a = o + 1
    OBVIOUS
  <2>2. d \in Nat /\ d <= Len(g)
    OBVIOUS
  <2>. QED  BY <2>1, <2>2, SubSeqOfCut
<1> DEFINE s == SubSeq(f, o + 1, d)
           t == SubSeq(f, o + 1, e)
<1>6. \A k \in o + 1 .. e : f[k] \in Nat
  BY <1>1
<1>7. t \in Seq(Nat) /\ Len(t) = (IF o + 1 <= e THEN e - (o + 1) + 1 ELSE 0)
      /\ \A i \in 1 .. e - (o + 1) + 1 : t[i] = f[o + 1 + i - 1]
  BY <1>6, SubSeqProperties
<1>8. s \in Seq(Nat) /\ Len(s) = (IF o + 1 <= d THEN d - (o + 1) + 1 ELSE 0)
      /\ \A i \in 1 .. d - (o + 1) + 1 : s[i] = f[o + 1 + i - 1]
  BY <1>4, <1>6, SubSeqProperties
<1> HIDE DEF s, t
<1>9. Len(s) <= Len(t)
  BY <1>4, <1>7, <1>8
<1>10. ASSUME NEW i \in 1 .. Len(s)
       PROVE  s[i] = t[i]
  <2>1. i \in 1 .. d - (o + 1) + 1 /\ i \in 1 .. e - (o + 1) + 1
    BY <1>4, <1>8
  <2>. QED  BY <1>7, <1>8, <2>1
<1>11. CutOff(s, t)
  BY <1>7, <1>8, <1>9, <1>10 DEF CutOff
<1>. QED  BY <1>2, <1>3, <1>5, <1>11 DEF s, t

-----------------------------------------------------------------------------
(***************************************************************************)
(* Tables.                                                                 *)
(***************************************************************************)
LEMMA Multiples ==
  ASSUME NEW j \in Nat, NEW k \in Nat, NEW size \in Nat, j <= k
  PROVE  j * size <= k * size /\ j * size \in Nat /\ k * size \in Nat
<1>1. PICK d \in Nat : k = j + d
  <2>1. k - j \in Nat /\ k = j + (k - j)
    OBVIOUS
  <2>. QED  BY <2>1
<1>2. d * size \in Nat /\ j * size \in Nat
  OBVIOUS
<1>3. k * size = j * size + d * size
  BY <1>1
<1>. QED  BY <1>2, <1>3

\* The rows that are in the file.
RowsFit(rows, f, base, count, size, n) ==
  /\ n \in Nat
  /\ {k \in 1 .. count : base + k * size <= Len(f)} = 1 .. n
  /\ DOMAIN rows = 1 .. n /\ Len(rows) = n
  /\ \A k \in 1 .. n :
       /\ rows[k] = SubSeq(f, base + (k - 1) * size + 1, base + k * size)
       /\ rows[k] \in Seq(Nat)
       /\ \A j \in 1 .. size : rows[k][j] \in Nat

LEMMA RowsOfTable ==
  ASSUME NEW f \in Seq(Nat), NEW base \in Nat, NEW count \in Nat, NEW size \in Nat \ {0}
  PROVE  \E n : RowsFit(Table(f, base, count, size), f, base, count, size, n)
<1> DEFINE fits == {k \in 1 .. count : base + k * size <= Len(f)}
           n == Cardinality(fits)
           rows == Table(f, base, count, size)
<1>1. n \in 0 .. count /\ fits = 1 .. n
  <2>1. ASSUME NEW k \in fits, NEW j \in 1 .. k
        PROVE  j \in fits
    <3>1. k \in Nat /\ k <= count /\ base + k * size <= Len(f) /\ j \in Nat /\ j <= k
      OBVIOUS
    <3>2. j * size <= k * size /\ j * size \in Nat /\ k * size \in Nat
      BY <3>1, Multiples
    <3>3. base + j * size <= Len(f)
      BY <3>1, <3>2
    <3>. QED  BY <3>1, <3>3
  <2>2. fits \in SUBSET (1 .. count)
    OBVIOUS
  <2> HIDE DEF fits
  <2>. QED  BY <2>1, <2>2, InitialSegment
<1>2. rows = [k \in 1 .. n |-> SubSeq(f, base + (k - 1) * size + 1, base + k * size)]
  BY DEF Table
<1>3. n \in Nat
  BY <1>1
<1> HIDE DEF n, rows
<1>4. DOMAIN rows = 1 .. n /\ Len(rows) = n
      /\ \A k \in 1 .. n : rows[k] = SubSeq(f, base + (k - 1) * size + 1, base + k * size)
  BY <1>2, <1>3
<1>5. ASSUME NEW k \in 1 .. n
      PROVE  rows[k] \in Seq(Nat) /\ \A j \in 1 .. size : rows[k][j] \in Nat
  <2>1. k \in fits
    BY <1>1
  <2>2. k \in Nat /\ k - 1 \in Nat /\ base + k * size <= Len(f)
    BY <1>3, <2>1
  <2>3. PICK a \in Nat, b \in Nat : a = base + (k - 1) * size + 1 /\ b = base + k * size
    <3>1. (k - 1) * size \in Nat /\ k * size \in Nat
      BY <2>2
    <3>. QED  BY <3>1
  <2>4. a >= 1 /\ b = a + size - 1 /\ b <= Len(f)
    <3>1. k * size = (k - 1) * size + size
      BY <2>2
    <3>2. (k - 1) * size \in Nat
      BY <2>2
    <3>. QED  BY <2>2, <2>3, <3>1, <3>2
  <2>5. \A i \in a .. b : f[i] \in Nat
    BY <2>4
  <2>6. /\ SubSeq(f, a, b) \in Seq(Nat)
        /\ Len(SubSeq(f, a, b)) = IF a <= b THEN b - a + 1 ELSE 0
    BY <2>5, SubSeqProperties
  <2>7. rows[k] \in Seq(Nat) /\ Len(rows[k]) = size
    <3>1. rows[k] = SubSeq(f, a, b)
      BY <1>4, <2>3
    <3>2. b - a + 1 = size /\ a <= b
      BY <2>4
    <3>. QED  BY <2>6, <3>1, <3>2
  <2>. QED  BY <2>7
<1>6. RowsFit(rows, f, base, count, size, n)
  BY <1>1, <1>3, <1>4, <1>5 DEF RowsFit
<1>. QED  BY <1>6 DEF rows

LEMMA TableOfCut ==
  ASSUME NEW g, NEW f, CutOff(g, f), NEW base \in Nat, NEW count \in Nat, NEW size \in Nat \ {0}
  PROVE  Begins(Table(g, base, count, size), Table(f, base, count, size))
<1> DEFINE s == Table(g, base, count, size)
           t == Table(f, base, count, size)
<1>1. g \in Seq(Nat) /\ f \in Seq(Nat) /\ Len(g) <= Len(f)
  BY DEF CutOff
<1>2. PICK m : RowsFit(s, g, base, count, size, m)
  BY <1>1, RowsOfTable
<1>3. PICK n : RowsFit(t, f, base, count, size, n)
  BY <1>1, RowsOfTable
<1> HIDE DEF s, t
<1>4. ASSUME NEW k \in 1 .. m
      PROVE  k \in 1 .. n /\ s[k] = t[k]
  <2>1. k \in 1 .. count /\ base + k * size <= Len(g)
    BY <1>2 DEF RowsFit
  <2>2. k \in Nat /\ k - 1 \in Nat
    BY <2>1
  <2>3. k * size \in Nat /\ (k - 1) * size \in Nat
    BY <2>2
  <2>4. PICK a \in Nat \ {0}, b \in Nat : a = base + (k - 1) * size + 1 /\ b = base + k * size
    BY <2>3
  <2>5. b <= Len(g) /\ b <= Len(f)
    BY <1>1, <2>1, <2>4
  <2>6. k \in 1 .. n
    <3>1. base + k * size <= Len(f)
      BY <2>4, <2>5
    <3>. QED  BY <1>3, <2>1, <3>1 DEF RowsFit
  <2>7. SubSeq(g, a, b) = SubSeq(f, a, b)
    BY <2>5, SubSeqOfCut
  <2>8. s[k] = SubSeq(g, a, b) /\ t[k] = SubSeq(f, a, b)
    BY <1>2, <1>3, <2>4, <2>6 DEF RowsFit
  <2>. QED  BY <2>6, <2>7, <2>8
<1>5. m \in Nat /\ n \in Nat /\ m <= n
  <2>1. m \in Nat /\ n \in Nat
    BY <1>2, <1>3 DEF RowsFit
  <2>2. m = 0 \/ m \in 1 .. m
    BY <2>1
  <2>. QED  BY <1>4, <2>1, <2>2
<1>6. Begins(s, t)
  <2>1. DOMAIN s = 1 .. m /\ Len(s) = m /\ DOMAIN t = 1 .. n /\ Len(t) = n
    BY <1>2, <1>3 DEF RowsFit
  <2>. QED  BY <1>4, <1>5, <2>1 DEF Begins
<1>. QED  BY <1>6 DEF s, t

-----------------------------------------------------------------------------
(***************************************************************************)
(* ELF: the headers.                                                       *)
(***************************************************************************)
\* A header and what a cut leaves of it: the name is there or not.
Alike(s, t) ==
  /\ s \in Header /\ t \in Header /\ s.name \in {<<>>, t.name}
  /\ s.type = t.type /\ s.flags = t.flags /\ s.addr = t.addr /\ s.offset = t.offset
  /\ s.size = t.size /\ s.link = t.link
HeadersAlike(small, large) ==
  /\ small \in Seq(Header) /\ large \in Seq(Header) /\ Len(small) <= Len(large)
  /\ \A k \in 1 .. Len(small) : Alike(small[k], large[k])

LEMMA ContentsOfCut ==
  ASSUME NEW g, NEW f, CutOff(g, f), NEW s \in Header, NEW t \in Header,
         s.offset = t.offset, s.size = t.size
  PROVE  /\ Contents(g, s) \in {<<>>, Contents(f, t)}
         /\ Contents(g, s) \in Seq(Nat) /\ Contents(f, t) \in Seq(Nat)
<1>1. g \in Seq(Nat) /\ f \in Seq(Nat)
  BY DEF CutOff
<1>2. s.offset \in Nat /\ s.size \in Nat /\ t.offset \in Nat /\ t.size \in Nat
  BY DEF Header
<1>3. s # None /\ t # None
  BY NoneIsNoHeader
<1>4. Contents(g, s) \in Seq(Nat) /\ Contents(f, t) \in Seq(Nat)
  BY <1>1, <1>2, ContentsAreCells
<1> DEFINE o == s.offset
           n == s.size
<1>5. /\ Contents(g, s) = IF Slice(g, o, n) = None THEN <<>> ELSE Slice(g, o, n)
      /\ Contents(f, t) = IF Slice(f, o, n) = None THEN <<>> ELSE Slice(f, o, n)
  BY <1>3 DEF Contents
<1>6. Slice(g, o, n) # None => Slice(g, o, n) = Slice(f, o, n)
  BY <1>2, SliceOfCut
<1>. QED  BY <1>4, <1>5, <1>6

LEMMA HeaderIsThere ==
  ASSUME NEW f \in Seq(Nat), EhdrError(f) = None
  PROVE  /\ Len(f) >= 10
         /\ Ehdr(f).phoff \in Nat /\ Ehdr(f).phnum \in Nat
         /\ Ehdr(f).shoff \in Nat /\ Ehdr(f).shnum \in Nat /\ Ehdr(f).shstrndx \in Nat
<1>1. Len(f) >= 10
  <2>1. SUFFICES ASSUME Len(f) < 10
                 PROVE  FALSE
    OBVIOUS
  <2>2. EhdrError(f) = "truncated"
    BY <2>1, Zenon DEF EhdrError, EhdrSize
  <2>. QED  BY <2>2, NoneIsNoError
<1>2. f[6] \in Nat /\ f[7] \in Nat /\ f[8] \in Nat /\ f[9] \in Nat /\ f[10] \in Nat
  BY <1>1
<1>. QED  BY <1>1, <1>2 DEF Ehdr

LEMMA HeaderOfCut ==
  ASSUME NEW g, NEW f, CutOff(g, f), EhdrError(g) = None
  PROVE  Ehdr(g) = Ehdr(f)
<1>1. Len(g) >= 10
  BY HeaderIsThere DEF CutOff
<1>2. ASSUME NEW k \in 3 .. 10
      PROVE  g[k] = f[k]
  <2>1. g \in Seq(Nat) /\ \A j \in 1 .. Len(g) : g[j] = f[j]
    BY DEF CutOff
  <2>2. Len(g) \in Nat
    BY <2>1
  <2>3. k \in 1 .. Len(g)
    BY <1>1, <1>2, <2>2
  <2>. QED  BY <2>1, <2>3
<1>3. g[3] = f[3] /\ g[4] = f[4] /\ g[5] = f[5] /\ g[6] = f[6] /\ g[7] = f[7] /\ g[8] = f[8]
      /\ g[9] = f[9] /\ g[10] = f[10]
  BY <1>2
<1>. QED  BY <1>3 DEF Ehdr

LEMMA RowIsAHeader ==
  ASSUME NEW r, \A j \in 1 .. 7 : r[j] \in Nat, NEW names \in Seq(Nat)
  PROVE  Shdr(r, names) \in Header
<1>1. r[1] \in Nat /\ r[2] \in Nat /\ r[3] \in Nat /\ r[4] \in Nat /\ r[5] \in Nat /\ r[6] \in Nat /\ r[7] \in Nat
  OBVIOUS
<1>2. Cstr(names, r[1]) \in Seq(Nat)
  BY <1>1, NamesAreCells
<1>. QED  BY <1>1, <1>2 DEF Shdr, Header

\* The names of sections, where they are.
NamesAt(f, rows, shstrndx) ==
  LET row == IF shstrndx = 0 THEN None ELSE Nth(rows, shstrndx)
  IN IF row = None THEN <<>> ELSE Contents(f, Shdr(row, <<>>))

LEMMA SectionNamesOfCut ==
  ASSUME NEW g, NEW f, CutOff(g, f), NEW s, NEW t, Begins(s, t), NEW x \in Nat,
         \A k \in 1 .. Len(t) : t[k] \in Seq(Nat) /\ \A j \in 1 .. 7 : t[k][j] \in Nat
  PROVE  /\ NamesAt(g, s, x) \in {<<>>, NamesAt(f, t, x)}
         /\ NamesAt(g, s, x) \in Seq(Nat) /\ NamesAt(f, t, x) \in Seq(Nat)
<1> DEFINE Row(rows) == IF x = 0 THEN None ELSE Nth(rows, x)
<1>1. ASSUME NEW k \in 1 .. Len(t)
      PROVE  /\ t[k] # None /\ Shdr(t[k], <<>>) \in Header
  <2>1. t[k] \in Seq(Nat) /\ \A j \in 1 .. 7 : t[k][j] \in Nat
    OBVIOUS
  <2>2. <<>> \in Seq(Nat)
    OBVIOUS
  <2>. QED  BY <2>1, <2>2, NoneIsNothing, RowIsAHeader
<1>2. Row(t) = None \/ \E k \in 1 .. Len(t) : Row(t) = t[k]
  <2>1. CASE x = 0 \/ x \notin 0 .. Len(t) - 1
    BY <2>1 DEF Nth
  <2>2. CASE x # 0 /\ x \in 0 .. Len(t) - 1
    <3>1. x + 1 \in 1 .. Len(t) /\ Row(t) = t[x + 1]
      BY <2>2 DEF Nth, Begins
    <3>. QED  BY <3>1
  <2>. QED  BY <2>1, <2>2
<1>3. Row(s) # None => Row(s) = Row(t)
  <2>1. CASE x = 0 \/ x \notin 0 .. Len(s) - 1
    BY <2>1 DEF Nth
  <2>2. CASE x # 0 /\ x \in 0 .. Len(s) - 1
    <3>1. x + 1 \in 1 .. Len(s) /\ x \in 0 .. Len(t) - 1
      BY <2>2 DEF Begins
    <3>2. Row(s) = s[x + 1] /\ Row(t) = t[x + 1]
      BY <2>2, <3>1 DEF Nth
    <3>3. s[x + 1] = t[x + 1]
      BY <3>1 DEF Begins
    <3>. QED  BY <3>2, <3>3
  <2>. QED  BY <2>1, <2>2
<1>4. /\ NamesAt(g, s, x) = IF Row(s) = None THEN <<>> ELSE Contents(g, Shdr(Row(s), <<>>))
      /\ NamesAt(f, t, x) = IF Row(t) = None THEN <<>> ELSE Contents(f, Shdr(Row(t), <<>>))
  BY DEF NamesAt
<1> HIDE DEF Row
<1>5. Row(t) # None => Shdr(Row(t), <<>>) \in Header
  BY <1>1, <1>2
<1>6. Row(t) # None => /\ Contents(g, Shdr(Row(t), <<>>)) \in {<<>>, Contents(f, Shdr(Row(t), <<>>))}
                       /\ Contents(g, Shdr(Row(t), <<>>)) \in Seq(Nat)
                       /\ Contents(f, Shdr(Row(t), <<>>)) \in Seq(Nat)
  BY <1>5, ContentsOfCut
<1>7. <<>> \in Seq(Nat)
  OBVIOUS
<1>. QED  BY <1>3, <1>4, <1>6, <1>7

LEMMA ShdrsOfCut ==
  ASSUME NEW g, NEW f, CutOff(g, f), EhdrError(g) = None, EhdrError(f) = None
  PROVE  HeadersAlike(Shdrs(g, Ehdr(g)), Shdrs(f, Ehdr(f)))
<1> DEFINE eh == Ehdr(f)
           small == Shdrs(g, eh)
           large == Shdrs(f, eh)
<1>1. Ehdr(g) = eh
  BY HeaderOfCut
<1>2. f \in Seq(Nat) /\ g \in Seq(Nat) /\ eh.shoff \in Nat /\ eh.shnum \in Nat /\ eh.shstrndx \in Nat
  BY HeaderIsThere DEF CutOff
<1>3. CASE eh.shoff = 0
  <2>1. small = <<>> /\ large = <<>>
    BY <1>3 DEF Shdrs
  <2> HIDE DEF small, large
  <2>2. HeadersAlike(small, large)
    BY <2>1 DEF HeadersAlike
  <2>. QED  BY <1>1, <2>2 DEF small, large
<1>4. CASE eh.shoff # 0
  <2> DEFINE x == eh.shstrndx
             base == eh.shoff
             count == eh.shnum
             s == Table(g, base, count, ShdrSize)
             t == Table(f, base, count, ShdrSize)
             ng == NamesAt(g, s, x)
             nf == NamesAt(f, t, x)
  <2>1. small = Named(g, s, x) /\ large = Named(f, t, x)
    BY <1>4 DEF Shdrs
  <2>2. base \in Nat /\ count \in Nat /\ x \in Nat /\ ShdrSize \in Nat \ {0} /\ ShdrSize = 7
    BY <1>2 DEF ShdrSize
  <2> HIDE DEF base, count, x, small, large, eh
  <2>3. Begins(s, t)
    BY <2>2, TableOfCut
  <2>4. \A k \in 1 .. Len(t) : t[k] \in Seq(Nat) /\ \A j \in 1 .. 7 : t[k][j] \in Nat
    <3> DEFINE size == ShdrSize
    <3>1. PICK n : RowsFit(t, f, base, count, size, n)
      BY <1>2, <2>2, RowsOfTable
    <3> HIDE DEF t
    <3>2. /\ Len(t) = n
          /\ \A k \in 1 .. n : t[k] \in Seq(Nat) /\ \A j \in 1 .. size : t[k][j] \in Nat
      BY <3>1 DEF RowsFit
    <3>. QED  BY <2>2, <3>2
  <2>5. small = [k \in DOMAIN s |-> Shdr(s[k], ng)] /\ large = [k \in DOMAIN t |-> Shdr(t[k], nf)]
    BY <2>1 DEF Named, NamesAt
  <2> HIDE DEF s, t
  <2>6. ng \in {<<>>, nf} /\ ng \in Seq(Nat) /\ nf \in Seq(Nat)
    BY <2>2, <2>3, <2>4, SectionNamesOfCut
  <2> HIDE DEF ng, nf
  <2> DEFINE m == Len(s)
             n == Len(t)
  <2>7. m \in Nat /\ n \in Nat /\ m <= n /\ DOMAIN s = 1 .. m /\ DOMAIN t = 1 .. n /\ \A k \in 1 .. m : s[k] = t[k]
    BY <2>3 DEF Begins
  <2>8. \A k \in 1 .. n : t[k] \in Seq(Nat) /\ \A j \in 1 .. 7 : t[k][j] \in Nat
    BY <2>4
  <2> HIDE DEF m, n
  <2>9. ASSUME NEW k \in 1 .. n
        PROVE  Shdr(t[k], nf) \in Header /\ Shdr(t[k], ng) \in Header
    BY <2>6, <2>8, RowIsAHeader
  <2>10. large \in [1 .. n -> Header] /\ small \in [1 .. m -> Header]
    <3>1. \A k \in 1 .. m : k \in 1 .. n
      BY <2>7
    <3>. QED  BY <2>5, <2>7, <2>9, <3>1
  <2>11. large \in Seq(Header) /\ small \in Seq(Header) /\ Len(small) = m /\ Len(large) = n
    BY <2>7, <2>10
  <2>12. ASSUME NEW k \in 1 .. m
         PROVE  Alike(small[k], large[k])
    <3>1. k \in 1 .. n /\ small[k] = Shdr(t[k], ng) /\ large[k] = Shdr(t[k], nf)
      BY <2>5, <2>7
    <3>2. Shdr(t[k], ng).name = Cstr(ng, t[k][1]) /\ Shdr(t[k], nf).name = Cstr(nf, t[k][1])
      BY DEF Shdr
    <3>3. t[k][1] \in Nat
      BY <2>8, <3>1
    <3>4. Shdr(t[k], ng).name \in {<<>>, Shdr(t[k], nf).name}
      BY <2>6, <3>2, <3>3, NameOfNothing
    <3>5. Shdr(t[k], ng) \in Header /\ Shdr(t[k], nf) \in Header
      BY <2>9, <3>1
    <3> DEFINE a == Shdr(t[k], ng)
               b == Shdr(t[k], nf)
    <3>6. a.type = b.type /\ a.flags = b.flags /\ a.addr = b.addr /\ a.offset = b.offset
          /\ a.size = b.size /\ a.link = b.link
      BY DEF Shdr
    <3>7. Alike(a, b)
      <4> HIDE DEF a, b
      <4>1. a.name \in {<<>>, b.name} /\ a \in Header /\ b \in Header
        BY <3>4, <3>5 DEF a, b
      <4>. QED  BY <3>6, <4>1 DEF Alike
    <3>. QED  BY <3>1, <3>7
  <2>13. HeadersAlike(small, large)
    BY <2>7, <2>11, <2>12 DEF HeadersAlike
  <2>. QED  BY <1>1, <2>13 DEF small, large, eh
<1>. QED  BY <1>3, <1>4

LEMMA HeadersAreTyped ==
  ASSUME NEW shdrs \in Seq(Header)
  PROVE  HeadersAreNumbers(shdrs)
<1>1. shdrs \in [1 .. Len(shdrs) -> Range(shdrs)] /\ Len(shdrs) \in Nat
  BY DEF Range
<1>2. shdrs \in Seq(Range(shdrs))
  <2> DEFINE R == Range(shdrs)
             n == Len(shdrs)
  <2>1. shdrs \in [1 .. n -> R] /\ n \in Nat
    BY <1>1
  <2> HIDE DEF R, n
  <2>2. shdrs \in Seq(R)
    BY <2>1
  <2>. QED  BY <2>2 DEF R
<1>3. \A h \in Range(shdrs) : h \in Header
  BY DEF Range
<1>4. \A h \in Header : h.offset \in Nat /\ h.size \in Nat
  BY DEF Header
<1>. QED  BY <1>2, <1>3, <1>4 DEF HeadersAreNumbers

\* The header of a number.
LEMMA NthOfCut ==
  ASSUME NEW small, NEW large, HeadersAlike(small, large), NEW k, Nth(small, k) # None
  PROVE  Nth(large, k) # None /\ Alike(Nth(small, k), Nth(large, k))
<1>1. k \in 0 .. Len(small) - 1
  BY DEF Nth
<1>2. k + 1 \in 1 .. Len(small) /\ k \in 0 .. Len(large) - 1
  BY <1>1 DEF HeadersAlike
<1>3. Nth(small, k) = small[k + 1] /\ Nth(large, k) = large[k + 1]
  BY <1>1, <1>2 DEF Nth
<1>4. Alike(small[k + 1], large[k + 1])
  BY <1>2 DEF HeadersAlike
<1>. QED  BY <1>3, <1>4, NoneIsNoHeader DEF Alike

LEMMA NthIsAHeader ==
  ASSUME NEW shdrs \in Seq(Header), NEW k
  PROVE  Nth(shdrs, k) = None \/ Nth(shdrs, k) \in Header
<1>1. CASE k \in 0 .. Len(shdrs) - 1
  <2>1. k + 1 \in 1 .. Len(shdrs) /\ Nth(shdrs, k) = shdrs[k + 1]
    BY <1>1 DEF Nth
  <2>. QED  BY <2>1
<1>2. CASE k \notin 0 .. Len(shdrs) - 1
  BY <1>2 DEF Nth
<1>. QED  BY <1>1, <1>2

LEMMA LinkedOfCut ==
  ASSUME NEW g, NEW f, CutOff(g, f), NEW small, NEW large, HeadersAlike(small, large), NEW k
  PROVE  /\ Contents(g, Nth(small, k)) \in {<<>>, Contents(f, Nth(large, k))}
         /\ Contents(g, Nth(small, k)) \in Seq(Nat) /\ Contents(f, Nth(large, k)) \in Seq(Nat)
<1>1. Contents(g, None) = <<>> /\ <<>> \in Seq(Nat)
  BY DEF Contents
<1>2. Nth(large, k) = None \/ Nth(large, k) \in Header
  BY NthIsAHeader DEF HeadersAlike
<1>3. Contents(f, Nth(large, k)) \in Seq(Nat)
  <2>1. \A h \in Header : h.offset \in Nat /\ h.size \in Nat
    BY DEF Header
  <2>. QED  BY <1>2, <2>1, ContentsAreCells DEF CutOff
<1>4. CASE Nth(small, k) = None
  BY <1>1, <1>3, <1>4
<1>5. CASE Nth(small, k) # None
  <2>1. Alike(Nth(small, k), Nth(large, k))
    BY <1>5, NthOfCut
  <2>. QED  BY <2>1, ContentsOfCut DEF Alike
<1>. QED  BY <1>4, <1>5

\* The first of a type.
LEMMA LeastIs ==
  ASSUME NEW S \in SUBSET Nat, NEW x \in S, \A y \in S : x <= y
  PROVE  Least(S) = x
<1>1. \A z \in S : (\A y \in S : z <= y) => z = x
  BY LeastExists
<1>. QED  BY <1>1 DEF Least

FirstAt(shdrs, type, k) ==
  /\ k \in 1 .. Len(shdrs)
  /\ OfType(shdrs, type) = shdrs[k] /\ shdrs[k].type = type
  /\ \A j \in 1 .. k - 1 : shdrs[j].type # type

LEMMA FirstOfType ==
  ASSUME NEW shdrs \in Seq(Header), NEW type
  PROVE  \/ OfType(shdrs, type) = None /\ \A k \in 1 .. Len(shdrs) : shdrs[k].type # type
         \/ \E k : FirstAt(shdrs, type, k)
<1> DEFINE S == {s \in Range(shdrs) : s.type = type}
           at == {k \in DOMAIN shdrs : shdrs[k] \in S}
<1>1. OfType(shdrs, type) = IF Range(shdrs) \cap S = {} THEN None ELSE shdrs[Least(at)]
  BY DEF OfType, FirstIn
<1>2. DOMAIN shdrs = 1 .. Len(shdrs) /\ Range(shdrs) = {shdrs[k] : k \in 1 .. Len(shdrs)}
  BY DEF Range
<1>3. at = {k \in 1 .. Len(shdrs) : shdrs[k].type = type}
  BY <1>2
<1>4. Range(shdrs) \cap S = {} <=> at = {}
  BY <1>2
<1> HIDE DEF S, at
<1>5. CASE at = {}
  BY <1>1, <1>3, <1>4, <1>5
<1>6. CASE at # {}
  <2>1. at \in SUBSET Nat
    BY <1>3
  <2>2. PICK x \in at : \A y \in at : x <= y
    BY <1>6, <2>1, LeastExists
  <2>3. Least(at) = x
    BY <2>1, <2>2, LeastIs
  <2>4. x \in 1 .. Len(shdrs) /\ shdrs[x].type = type
    BY <1>3
  <2>5. ASSUME NEW j \in 1 .. x - 1, shdrs[j].type = type
        PROVE  FALSE
    <3>1. j \in at /\ ~ (x <= j)
      BY <1>3, <2>4, <2>5
    <3>. QED  BY <2>2, <3>1
  <2>6. OfType(shdrs, type) = shdrs[x]
    BY <1>1, <1>4, <1>6, <2>3
  <2>7. FirstAt(shdrs, type, x)
    BY <2>4, <2>5, <2>6 DEF FirstAt
  <2>. QED  BY <2>7
<1>. QED  BY <1>5, <1>6

LEMMA OfTypeOfCut ==
  ASSUME NEW small, NEW large, HeadersAlike(small, large), NEW type, OfType(small, type) # None
  PROVE  OfType(large, type) # None /\ Alike(OfType(small, type), OfType(large, type))
<1>1. /\ small \in Seq(Header) /\ large \in Seq(Header) /\ Len(small) <= Len(large)
      /\ \A k \in 1 .. Len(small) : Alike(small[k], large[k])
  BY DEF HeadersAlike
<1>2. PICK k : FirstAt(small, type, k)
  BY <1>1, FirstOfType
<1>3. k \in 1 .. Len(large) /\ Alike(small[k], large[k]) /\ large[k].type = type
  BY <1>1, <1>2 DEF Alike, FirstAt
<1>4. PICK n : FirstAt(large, type, n)
  BY <1>1, <1>3, FirstOfType
<1>. USE DEF FirstAt
<1>5. ~ (k < n)
  <2>1. k < n => k \in 1 .. n - 1
    BY <1>3, <1>4
  <2>. QED  BY <1>3, <1>4, <2>1
<1>6. ~ (n < k)
  <2>1. n < k => n \in 1 .. k - 1 /\ n \in 1 .. Len(small)
    BY <1>1, <1>2, <1>4
  <2>2. n \in 1 .. Len(small) => small[n].type = large[n].type
    BY <1>1 DEF Alike
  <2>. QED  BY <1>2, <1>4, <2>1, <2>2
<1>7. k = n
  BY <1>3, <1>4, <1>5, <1>6
<1>8. large[k] # None
  BY <1>3, NoneIsNoHeader DEF Alike
<1>. QED  BY <1>2, <1>3, <1>4, <1>7, <1>8

-----------------------------------------------------------------------------
(***************************************************************************)
(* ELF: symbols.                                                           *)
(***************************************************************************)
\* A symbol and what a cut leaves of it.
SymbolsAlike(s, t) ==
  /\ s.name \in {<<>>, t.name} /\ t.name \in Seq(Nat)
  /\ s.bind = t.bind /\ s.type = t.type /\ s.shndx = t.shndx /\ s.value = t.value /\ s.size = t.size
TablesAlike(small, large) ==
  /\ Len(small) \in Nat /\ Len(large) \in Nat /\ Len(small) <= Len(large)
  /\ DOMAIN small = 1 .. Len(small) /\ DOMAIN large = 1 .. Len(large)
  /\ \A k \in 1 .. Len(small) : SymbolsAlike(small[k], large[k])

\* The symbols of these cells, with the names that are there.
LEMMA DecodedSymbols ==
  ASSUME NEW cells \in Seq(Nat), NEW names \in Seq(Nat), NEW symbols,
         symbols = [k \in DOMAIN Records(cells, SymSize) |-> Symbol(Records(cells, SymSize)[k], names)]
  PROVE  /\ Len(symbols) = Len(cells) \div SymSize /\ Len(symbols) \in Nat
         /\ DOMAIN symbols = 1 .. Len(symbols)
         /\ \A k \in 1 .. Len(symbols) :
              /\ symbols[k] = Symbol(Records(cells, SymSize)[k], names)
              /\ Records(cells, SymSize)[k][1] \in Nat
<1> DEFINE rows == Records(cells, SymSize)
           n == Len(cells) \div SymSize
<1>1. SymSize \in Nat \ {0}
  BY DEF SymSize
<1>2. n \in Nat /\ DOMAIN rows = 1 .. n
  BY <1>1, RecordsAreRows
<1>3. ASSUME NEW k \in 1 .. n
      PROVE  rows[k][1] \in Nat
  <2>1. (k - 1) * SymSize \in 0 .. Len(cells) - 1 /\ rows[k][1] = cells[(k - 1) * SymSize + 1]
    BY FirstCells
  <2>2. PICK o \in 0 .. Len(cells) - 1 : o = (k - 1) * SymSize
    BY <2>1
  <2>3. o + 1 \in 1 .. Len(cells)
    BY <2>2
  <2>4. cells[o + 1] \in Nat
    BY <2>3
  <2>. QED  BY <2>1, <2>2, <2>4
<1>4. symbols = [k \in DOMAIN rows |-> Symbol(rows[k], names)]
  OBVIOUS
<1> HIDE DEF rows, n
<1>5. DOMAIN symbols = 1 .. n /\ \A k \in 1 .. n : symbols[k] = Symbol(rows[k], names)
  BY <1>2, <1>4, Zenon
<1>6. Len(symbols) = n
  BY <1>2, <1>5
<1>. QED  BY <1>2, <1>3, <1>5, <1>6 DEF rows, n

LEMMA SymtabOfCut ==
  ASSUME NEW g, NEW f, CutOff(g, f), NEW small, NEW large, HeadersAlike(small, large), NEW type
  PROVE  TablesAlike(Symtab(g, small, OfType(small, type)), Symtab(f, large, OfType(large, type)))
<1> DEFINE a == OfType(small, type)
           b == OfType(large, type)
           s == Symtab(g, small, a)
           t == Symtab(f, large, b)
           bcells == Contents(f, b)
           bnames == Contents(f, Nth(large, b.link))
           acells == Contents(g, a)
           anames == Contents(g, Nth(small, a.link))
<1>1. b = None \/ b \in Header
  <2>1. large \in Seq(Header)
    BY DEF HeadersAlike
  <2>2. \A k \in 1 .. Len(large) : large[k] \in Header
    BY <2>1
  <2>. QED  BY <2>1, <2>2, FirstOfType DEF FirstAt
<1>2. a # None => b # None /\ Alike(a, b)
  BY OfTypeOfCut
<1> HIDE DEF a, b
<1>3. bnames \in Seq(Nat) /\ anames \in Seq(Nat)
  BY LinkedOfCut
<1>4. CASE b = None
  <2>1. s = <<>> /\ t = <<>>
    BY <1>2, <1>4 DEF Symtab
  <2> HIDE DEF s, t
  <2>2. TablesAlike(s, t)
    BY <2>1 DEF TablesAlike
  <2>. QED  BY <2>2 DEF s, t, a, b
<1>5. CASE b # None
  <2>1. b \in Header /\ bcells \in Seq(Nat)
    <3>1. b \in Header /\ b.offset \in Nat /\ b.size \in Nat
      BY <1>1, <1>5 DEF Header
    <3>. QED  BY <3>1, ContentsAreCells DEF CutOff
  <2>2. t = [k \in DOMAIN Records(bcells, SymSize) |-> Symbol(Records(bcells, SymSize)[k], bnames)]
    BY <1>5 DEF Symtab
  <2> HIDE DEF s, t, bcells, bnames
  <2>3. /\ Len(t) \in Nat /\ DOMAIN t = 1 .. Len(t)
        /\ \A k \in 1 .. Len(t) :
             /\ t[k] = Symbol(Records(bcells, SymSize)[k], bnames)
             /\ Records(bcells, SymSize)[k][1] \in Nat
    BY <1>3, <2>1, <2>2, DecodedSymbols
  <2>4. CASE a = None
    <3>1. s = <<>>
      BY <2>4 DEF Symtab, s
    <3>2. TablesAlike(s, t)
      BY <2>3, <3>1 DEF TablesAlike
    <3>. QED  BY <3>2 DEF s, t, a, b
  <2>5. CASE a # None
    <3>1. acells \in {<<>>, bcells} /\ acells \in Seq(Nat)
      BY <1>2, <2>5, ContentsOfCut DEF Alike, bcells
    <3>2. anames \in {<<>>, bnames}
      <4>1. a.link = b.link
        BY <1>2, <2>5 DEF Alike
      <4> DEFINE k == b.link
      <4> HIDE DEF k
      <4>2. Contents(g, Nth(small, k)) \in {<<>>, Contents(f, Nth(large, k))}
        BY LinkedOfCut
      <4>. QED  BY <4>1, <4>2 DEF bnames, k
    <3>3. s = [k \in DOMAIN Records(acells, SymSize) |-> Symbol(Records(acells, SymSize)[k], anames)]
      BY <2>5 DEF Symtab, s
    <3> HIDE DEF acells, anames
    <3>4. /\ Len(s) = Len(acells) \div SymSize /\ Len(s) \in Nat /\ DOMAIN s = 1 .. Len(s)
          /\ \A k \in 1 .. Len(s) : s[k] = Symbol(Records(acells, SymSize)[k], anames)
      BY <1>3, <3>1, <3>3, DecodedSymbols DEF anames
    <3>5. CASE acells = <<>>
      <4>1. Len(s) = 0
        BY <3>4, <3>5 DEF SymSize
      <4>2. TablesAlike(s, t)
        BY <2>3, <3>4, <4>1 DEF TablesAlike
      <4>. QED  BY <4>2 DEF s, t, a, b
    <3>6. CASE acells = bcells
      <4>1. Len(t) = Len(bcells) \div SymSize
        BY <1>3, <2>1, <2>2, DecodedSymbols
      <4>2. Len(s) = Len(t)
        BY <3>4, <3>6, <4>1
      <4>3. ASSUME NEW k \in 1 .. Len(s)
            PROVE  SymbolsAlike(s[k], t[k])
        <5> DEFINE r == Records(bcells, SymSize)[k]
        <5>1. s[k] = Symbol(r, anames) /\ t[k] = Symbol(r, bnames) /\ r[1] \in Nat
          BY <2>3, <3>4, <3>6, <4>2
        <5> HIDE DEF r
        <5>2. Cstr(bnames, r[1]) \in Seq(Nat) /\ Cstr(anames, r[1]) \in {<<>>, Cstr(bnames, r[1])}
          BY <1>3, <3>2, <5>1, NamesAreCells, NameOfNothing
        <5>3. SymbolsAlike(Symbol(r, anames), Symbol(r, bnames))
          BY <5>2 DEF Symbol, SymbolsAlike
        <5>. QED  BY <5>1, <5>3
      <4>4. TablesAlike(s, t)
        BY <2>3, <3>4, <4>2, <4>3 DEF TablesAlike
      <4>. QED  BY <4>4 DEF s, t, a, b
    <3>. QED  BY <3>1, <3>5, <3>6
  <2>. QED  BY <2>4, <2>5
<1>. QED  BY <1>4, <1>5

\* Every symbol that is left is one of the file.
LEMMA EachSymbol ==
  ASSUME NEW small, NEW large, TablesAlike(small, large), NEW s \in Range(small)
  PROVE  \E t \in Range(large) : SymbolsAlike(s, t)
<1>1. PICK k \in 1 .. Len(small) : s = small[k]
  BY DEF Range, TablesAlike
<1>2. k \in DOMAIN large /\ SymbolsAlike(small[k], large[k])
  BY DEF TablesAlike
<1>. QED  BY <1>1, <1>2 DEF Range

\* The name of a section is there or not.
LEMMA SectionNameOfCut ==
  ASSUME NEW small, NEW large, HeadersAlike(small, large), NEW x
  PROVE  \/ SectionName(small, x) = None
         \/ SectionName(small, x) = SectionName(large, x) /\ SectionName(large, x) \in Seq(Nat)
<1> DEFINE s == IF x = Undefined \/ x >= FirstReserved THEN None ELSE Nth(small, x)
           t == IF x = Undefined \/ x >= FirstReserved THEN None ELSE Nth(large, x)
<1>1. /\ SectionName(small, x) = IF s = None THEN None ELSE IF s.name = <<>> THEN None ELSE s.name
      /\ SectionName(large, x) = IF t = None THEN None ELSE IF t.name = <<>> THEN None ELSE t.name
  BY DEF SectionName
<1>2. s # None => t # None /\ Alike(s, t)
  BY NthOfCut
<1> HIDE DEF s, t
<1>3. CASE s = None
  BY <1>1, <1>3
<1>4. CASE s # None
  <2>1. t # None /\ s.name \in {<<>>, t.name} /\ t.name \in Seq(Nat)
    BY <1>2, <1>4 DEF Alike, Header
  <2>2. CASE s.name = <<>>
    BY <1>1, <1>4, <2>2
  <2>3. CASE s.name # <<>>
    BY <1>1, <1>4, <2>1, <2>3
  <2>. QED  BY <2>2, <2>3
<1>. QED  BY <1>3, <1>4

LEMMA ShortenedNames ==
  ASSUME NEW n, NEW m
  PROVE  /\ n \in {None, <<>>} => Shortened(n, m)
         /\ n = m /\ m \in Seq(Nat) => Shortened(n, m)
         /\ CutOff(n, m) => Shortened(n, m)
<1>1. CutOff(n, m) => Shortened(n, m)
  <2>1. CutOff(n, m) => IsPrefix(n, m) /\ m # None
    BY CutIsAPrefix, NoneIsNothing DEF CutOff
  <2>. QED  BY <2>1 DEF Shortened
<1>2. m \in Seq(Nat) => CutOff(m, m)
  BY DEF CutOff
<1>. QED  BY <1>1, <1>2 DEF Shortened

LEMMA ShownOfCut ==
  ASSUME NEW small, NEW large, HeadersAlike(small, large), NEW s, NEW t, SymbolsAlike(s, t)
  PROVE  Matches(Shown(small, s), Shown(large, t), {"name", "section"})
<1> DEFINE e == Shown(small, s)
           x == Shown(large, t)
<1>1. /\ s.name \in {<<>>, t.name} /\ t.name \in Seq(Nat)
      /\ s.bind = t.bind /\ s.type = t.type /\ s.shndx = t.shndx /\ s.value = t.value /\ s.size = t.size
  BY DEF SymbolsAlike
<1>2. /\ e.name = s.name /\ e.address = s.value /\ e.size = s.size /\ e.kind = s.type
      /\ e.binding = s.bind /\ e.section = SectionName(small, s.shndx)
      /\ DOMAIN e = {"name", "address", "size", "kind", "binding", "section"}
  BY DEF Shown
<1>3. /\ x.name = t.name /\ x.address = t.value /\ x.size = t.size /\ x.kind = t.type
      /\ x.binding = t.bind /\ x.section = SectionName(large, t.shndx)
  BY DEF Shown
<1> HIDE DEF e, x
<1>4. Shortened(e.name, x.name)
  BY <1>1, <1>2, <1>3, ShortenedNames
<1>5. Shortened(e.section, x.section)
  BY <1>1, <1>2, <1>3, SectionNameOfCut, ShortenedNames
<1>6. \A field \in DOMAIN e \ {"name", "section"} : e[field] = x[field]
  BY <1>1, <1>2, <1>3
<1>7. Matches(e, x, {"name", "section"})
  BY <1>4, <1>5, <1>6 DEF Matches
<1>. QED  BY <1>7 DEF e, x

-----------------------------------------------------------------------------
(***************************************************************************)
(* ELF: what the parts of an image lose.                                   *)
(***************************************************************************)
LEMMA SymbolsOfCut ==
  ASSUME NEW small, NEW large, HeadersAlike(small, large),
         NEW a, NEW b, NEW c, NEW d, TablesAlike(a, b), TablesAlike(c, d),
         NEW s \in Range(a) \cup Range(c)
  PROVE  \E t \in Range(b) \cup Range(d) :
           Matches(Shown(small, s), Shown(large, t), {"name", "section"})
<1>1. PICK t \in Range(b) \cup Range(d) : SymbolsAlike(s, t)
  BY EachSymbol
<1>. QED  BY <1>1, ShownOfCut

\* What both tables show.
LEMMA AllShown ==
  ASSUME NEW shdrs, NEW a, NEW b, a \in Seq(Range(a)), b \in Seq(Range(b)), NEW symbols,
         symbols = [k \in 1 .. Len(a \o b) |-> Shown(shdrs, (a \o b)[k])]
  PROVE  Range(symbols) = {Shown(shdrs, s) : s \in Range(a) \cup Range(b)}
<1> DEFINE E == Range(a) \cup Range(b)
           ab == a \o b
<1>1. a \in Seq(E) /\ b \in Seq(E)
  <2> DEFINE R == Range(a)
             T == Range(b)
  <2>1. a \in Seq(R) /\ b \in Seq(T)
    OBVIOUS
  <2> HIDE DEF R, T
  <2>2. a \in Seq(R \cup T) /\ b \in Seq(R \cup T)
    BY <2>1, SeqMonotonic
  <2>. QED  BY <2>2 DEF R, T
<1>2. ab \in Seq(E) /\ Range(ab) = E
  <2>1. E = Range(a) \cup Range(b)
    OBVIOUS
  <2> HIDE DEF E
  <2>2. a \o b \in Seq(E) /\ Range(a \o b) = Range(a) \cup Range(b)
    BY <1>1, RangeOfConcatenation
  <2>. QED  BY <2>1, <2>2
<1>3. symbols = [k \in 1 .. Len(ab) |-> Shown(shdrs, ab[k])]
  OBVIOUS
<1> HIDE DEF ab
<1>4. Range(ab) = {ab[k] : k \in 1 .. Len(ab)}
  <2> HIDE DEF E
  <2>. QED  BY <1>2 DEF Range
<1>5. Range(symbols) = {Shown(shdrs, ab[k]) : k \in 1 .. Len(ab)}
  BY <1>3 DEF Range
<1>. QED  BY <1>2, <1>4, <1>5

LEMMA SectionsOfCut ==
  ASSUME NEW small, NEW large, HeadersAlike(small, large), NEW e \in Range(Sections(small))
  PROVE  \E x \in Range(Sections(large)) : Matches(e, x, {"name"})
<1>1. ASSUME NEW shdrs \in Seq(Header)
      PROVE  Range(Sections(shdrs)) = {Section(s) : s \in {h \in Range(shdrs) : ~ IsNull(h)}}
  <2> DEFINE S == {h \in Range(shdrs) : ~ IsNull(h)}
             shown == AllIn(shdrs, S)
  <2>1. Sections(shdrs) = [k \in DOMAIN shown |-> Section(shown[k])]
    BY DEF Sections
  <2>2. S \subseteq Range(shdrs)
    OBVIOUS
  <2> HIDE DEF S
  <2>3. Range(shown) = S
    <3>1. Range(AllIn(shdrs, S)) = Range(shdrs) \cap S
      BY AllInElements
    <3>. QED  BY <2>2, <3>1
  <2> HIDE DEF shown
  <2>4. Range(Sections(shdrs)) = {Section(s) : s \in Range(shown)}
    BY <2>1 DEF Range
  <2>. QED  BY <2>3, <2>4 DEF S
<1>2. small \in Seq(Header) /\ large \in Seq(Header)
  BY DEF HeadersAlike
<1>3. PICK s \in Range(small) : ~ IsNull(s) /\ e = Section(s)
  BY <1>1, <1>2
<1>4. PICK k \in 1 .. Len(small) : s = small[k]
  BY <1>2 DEF Range
<1> DEFINE t == large[k]
<1>5. t \in Range(large) /\ Alike(s, t)
  BY <1>4 DEF HeadersAlike, Range
<1> HIDE DEF t
<1>6. ~ IsNull(t)
  BY <1>3, <1>5 DEF IsNull, Alike
<1> DEFINE x == Section(t)
<1>7. x \in Range(Sections(large))
  BY <1>1, <1>2, <1>5, <1>6
<1>8. /\ e.name = s.name /\ e.address = s.addr /\ e.size = s.size /\ e.offset = s.offset
      /\ e.filesz = (IF s.type = SectionType.nobits THEN 0 ELSE s.size)
      /\ e.flags = Access(Has(s.flags, 2), Has(s.flags, 1), Has(s.flags, 4))
      /\ DOMAIN e = {"name", "address", "size", "offset", "filesz", "flags"}
  BY <1>3 DEF Section
<1>9. /\ x.name = t.name /\ x.address = t.addr /\ x.size = t.size /\ x.offset = t.offset
      /\ x.filesz = (IF t.type = SectionType.nobits THEN 0 ELSE t.size)
      /\ x.flags = Access(Has(t.flags, 2), Has(t.flags, 1), Has(t.flags, 4))
  BY DEF Section
<1> HIDE DEF x
<1>10. Shortened(e.name, x.name)
  <2>1. s.name \in {<<>>, t.name} /\ t.name \in Seq(Nat)
    BY <1>5 DEF Alike, Header
  <2>. QED  BY <1>8, <1>9, <2>1, ShortenedNames
<1>11. \A field \in DOMAIN e \ {"name"} : e[field] = x[field]
  <2>1. s.type = t.type /\ s.flags = t.flags /\ s.addr = t.addr /\ s.offset = t.offset /\ s.size = t.size
    BY <1>5 DEF Alike
  <2>2. e.address = x.address /\ e.size = x.size /\ e.offset = x.offset /\ e.filesz = x.filesz /\ e.flags = x.flags
    BY <1>8, <1>9, <2>1
  <2>. QED  BY <1>8, <2>2
<1>12. Matches(e, x, {"name"})
  BY <1>10, <1>11 DEF Matches
<1>. QED  BY <1>7, <1>12

LEMMA SegmentsOfCut ==
  ASSUME NEW g, NEW f, CutOff(g, f), EhdrError(g) = None, EhdrError(f) = None,
         NEW k \in DOMAIN Segments(Phdrs(g, Ehdr(g)))
  PROVE  /\ k \in DOMAIN Segments(Phdrs(f, Ehdr(f)))
         /\ Matches(Segments(Phdrs(g, Ehdr(g)))[k], Segments(Phdrs(f, Ehdr(f)))[k], {})
<1> DEFINE eh == Ehdr(f)
           base == eh.phoff
           count == eh.phnum
           small == Phdrs(g, eh)
           large == Phdrs(f, eh)
           s == Table(g, base, count, PhdrSize)
           t == Table(f, base, count, PhdrSize)
<1>1. Ehdr(g) = eh
  BY HeaderOfCut
<1>2. base \in Nat /\ count \in Nat /\ PhdrSize \in Nat \ {0}
  BY HeaderIsThere DEF CutOff, PhdrSize
<1>3. k \in DOMAIN small
  BY <1>1 DEF Segments
<1>4. base # 0
  <2>1. base = 0 => small = <<>>
    BY DEF Phdrs
  <2>2. DOMAIN <<>> = {}
    OBVIOUS
  <2>. QED  BY <1>3, <2>1, <2>2
<1>5. small = [j \in DOMAIN s |-> Phdr(s[j])] /\ large = [j \in DOMAIN t |-> Phdr(t[j])]
  BY <1>4 DEF Phdrs
<1> HIDE DEF base, count
<1>6. Begins(s, t)
  BY <1>2, TableOfCut
<1> HIDE DEF s, t, small, large
<1>7. k \in DOMAIN s /\ k \in DOMAIN t /\ s[k] = t[k]
  <2>1. k \in DOMAIN s
    BY <1>3, <1>5
  <2>2. k \in 1 .. Len(s) /\ k \in 1 .. Len(t)
    BY <1>6, <2>1 DEF Begins
  <2>. QED  BY <1>6, <2>2 DEF Begins
<1>8. k \in DOMAIN large /\ small[k] = large[k]
  BY <1>5, <1>7
<1>9. k \in DOMAIN Segments(large) /\ Segments(small)[k] = Segments(large)[k]
  BY <1>3, <1>8 DEF Segments
<1>10. Matches(Segments(small)[k], Segments(large)[k], {})
  <2> DEFINE e == Segments(small)[k]
  <2> HIDE DEF e
  <2>1. Matches(e, e, {})
    BY DEF Matches
  <2>. QED  BY <1>9, <2>1 DEF e
<1>. QED  BY <1>1, <1>9, <1>10 DEF small, large, eh

LEMMA RelocSectionsOfCut ==
  ASSUME NEW small, NEW large, HeadersAlike(small, large), NEW s \in Range(RelocSections(small))
  PROVE  \E t \in Range(RelocSections(large)) : Alike(s, t) /\ t \in Header
<1>1. ASSUME NEW shdrs \in Seq(Header)
      PROVE  Range(RelocSections(shdrs))
               = {h \in Range(shdrs) : h.type \in {SectionType.rela, SectionType.rel}}
  <2> DEFINE S == {h \in Range(shdrs) : h.type \in {SectionType.rela, SectionType.rel}}
  <2>1. RelocSections(shdrs) = AllIn(shdrs, S) /\ S \subseteq Range(shdrs)
    BY DEF RelocSections
  <2> HIDE DEF S
  <2>2. Range(AllIn(shdrs, S)) = Range(shdrs) \cap S
    BY AllInElements
  <2>3. Range(RelocSections(shdrs)) = S
    BY <2>1, <2>2
  <2>. QED  BY <2>3 DEF S
<1>2. small \in Seq(Header) /\ large \in Seq(Header)
  BY DEF HeadersAlike
<1>3. s \in Range(small) /\ s.type \in {SectionType.rela, SectionType.rel}
  BY <1>1, <1>2
<1>4. PICK k \in 1 .. Len(small) : s = small[k]
  BY <1>2, <1>3 DEF Range
<1> DEFINE t == large[k]
<1>5. t \in Range(large) /\ Alike(s, t)
  BY <1>4 DEF HeadersAlike, Range
<1> HIDE DEF t
<1>6. t.type \in {SectionType.rela, SectionType.rel}
  BY <1>3, <1>5 DEF Alike
<1>7. t \in Range(RelocSections(large))
  BY <1>1, <1>2, <1>5, <1>6
<1>. QED  BY <1>5, <1>7 DEF Alike

\* The rows of relocations are there or not.
LEMMA RelocRowsOfCut ==
  ASSUME NEW g, NEW f, CutOff(g, f), NEW s, NEW t, Alike(s, t), NEW row \in Range(RelocRows(g, s))
  PROVE  row \in Range(RelocRows(f, t))
<1> DEFINE a == Contents(g, s)
           b == Contents(f, t)
           size == IF s.type = SectionType.rela THEN 4 ELSE 3
<1>1. a \in {<<>>, b} /\ a \in Seq(Nat)
  BY ContentsOfCut DEF Alike
<1>2. RelocRows(g, s) = Records(a, size) /\ RelocRows(f, t) = Records(b, size)
  BY DEF RelocRows, Alike
<1>3. size \in Nat \ {0}
  OBVIOUS
<1> HIDE DEF a, b, size
<1>4. a # <<>>
  <2>1. SUFFICES ASSUME a = <<>>
                 PROVE  FALSE
    OBVIOUS
  <2>2. DOMAIN Records(a, size) = 1 .. Len(a) \div size /\ Len(a) = 0
    BY <1>1, <1>3, <2>1, RecordsAreRows
  <2>3. 0 \div size = 0
    BY <1>3
  <2>4. DOMAIN Records(a, size) = {}
    BY <2>2, <2>3
  <2>. QED  BY <1>2, <2>4 DEF Range
<1>. QED  BY <1>1, <1>2, <1>4

LEMMA SymbolNameOfCut ==
  ASSUME NEW a, NEW b, NEW c, NEW d, a \in {<<>>, b}, c \in {<<>>, d},
         b \in Seq(Nat), d \in Seq(Nat), NEW index
  PROVE  \/ SymbolName(a, c, index) = None
         \/ SymbolName(a, c, index) = SymbolName(b, d, index) /\ SymbolName(b, d, index) \in Seq(Nat)
<1> DEFINE base == index * SymSize
           Name(symbols, names) ==
             IF index # 0 /\ Readable(symbols, base) THEN Cstr(names, symbols[base + 1]) ELSE <<>>
<1>1. \A symbols, names : SymbolName(symbols, names, index)
        = IF Name(symbols, names) = <<>> THEN None ELSE Name(symbols, names)
  BY DEF SymbolName
<1>2. ~ Readable(<<>>, base)
  BY DEF Readable
<1>3. CASE a = <<>>
  <2>1. Name(a, c) = <<>>
    BY <1>2, <1>3
  <2>. QED  BY <1>1, <2>1
<1>4. CASE a # <<>> /\ ~ (index # 0 /\ Readable(b, base))
  <2>1. Name(a, c) = <<>>
    BY <1>4
  <2>. QED  BY <1>1, <2>1
<1>5. CASE a # <<>> /\ index # 0 /\ Readable(b, base)
  <2>1. Name(a, c) = Cstr(c, b[base + 1]) /\ Name(b, d) = Cstr(d, b[base + 1])
    BY <1>5
  <2>2. b[base + 1] \in Nat
    <3>1. base \in 0 .. Len(b) - 1
      BY <1>5 DEF Readable
    <3> HIDE DEF base
    <3>2. base + 1 \in 1 .. Len(b)
      BY <3>1
    <3>. QED  BY <3>2
  <2> HIDE DEF Name, base
  <2>3. Name(b, d) \in Seq(Nat) /\ Name(a, c) \in {<<>>, Name(b, d)}
    <3> DEFINE o == b[base + 1]
    <3>1. o \in Nat /\ Name(a, c) = Cstr(c, o) /\ Name(b, d) = Cstr(d, o)
      BY <2>1, <2>2
    <3> HIDE DEF o
    <3>2. Cstr(d, o) \in Seq(Nat) /\ Cstr(<<>>, o) = <<>>
      BY <3>1, NamesAreCells, NameOfNothing
    <3>. QED  BY <3>1, <3>2
  <2>4. CASE Name(a, c) = <<>>
    BY <1>1, <2>4
  <2>5. CASE Name(a, c) # <<>>
    BY <1>1, <2>3, <2>5
  <2>. QED  BY <2>4, <2>5
<1>. QED  BY <1>3, <1>4, <1>5

LEMMA RelocationsOfCut ==
  ASSUME NEW g, NEW f, CutOff(g, f), NEW small, NEW large, HeadersAlike(small, large),
         NEW e \in Range(Relocations(g, small))
  PROVE  \E x \in Range(Relocations(f, large)) : Matches(e, x, {"symbol"})
<1>1. /\ g \in Seq(Nat) /\ f \in Seq(Nat) /\ HeadersAreNumbers(small) /\ HeadersAreNumbers(large)
      /\ small \in Seq(Header) /\ large \in Seq(Header)
  BY HeadersAreTyped DEF CutOff, HeadersAlike
<1>2. PICK s \in Range(RelocSections(small)) : e \in RelocationsOf(g, small, s)
  BY <1>1, RelocationsAreShown
<1>3. PICK row \in Range(RelocRows(g, s)) : e = RelocOf(g, small, s, row)
  BY <1>2 DEF RelocationsOf
<1>4. PICK t \in Range(RelocSections(large)) : Alike(s, t)
  BY RelocSectionsOfCut
<1> DEFINE x == RelocOf(f, large, t, row)
<1>5. x \in Range(Relocations(f, large))
  <2>1. row \in Range(RelocRows(f, t))
    BY <1>4, RelocRowsOfCut
  <2>2. x \in RelocationsOf(f, large, t)
    BY <2>1 DEF RelocationsOf
  <2> HIDE DEF x
  <2>. QED  BY <1>1, <2>2, RelocationsAreShown
<1> DEFINE ta == Nth(small, s.link)
           tb == Nth(large, t.link)
           a == Contents(g, ta)
           b == Contents(f, tb)
           c == IF ta = None THEN <<>> ELSE Contents(g, Nth(small, ta.link))
           d == IF tb = None THEN <<>> ELSE Contents(f, Nth(large, tb.link))
<1>6. s.link = t.link
  BY <1>4 DEF Alike
<1>7. a \in {<<>>, b} /\ b \in Seq(Nat)
  BY <1>6, LinkedOfCut
<1>8. c \in {<<>>, d} /\ d \in Seq(Nat)
  <2>1. \A k : /\ Contents(g, Nth(small, k)) \in {<<>>, Contents(f, Nth(large, k))}
               /\ Contents(f, Nth(large, k)) \in Seq(Nat)
    BY LinkedOfCut
  <2>2. ta # None => tb # None /\ ta.link = tb.link
    BY <1>6, NthOfCut DEF Alike
  <2>3. <<>> \in Seq(Nat)
    OBVIOUS
  <2> HIDE DEF ta, tb
  <2>. QED  BY <2>1, <2>2, <2>3
<1>9. /\ e.offset = row[1] /\ e.kind = row[3] /\ e.addend = Cell(row, 3)
      /\ e.symbol = SymbolName(a, c, row[2])
      /\ DOMAIN e = {"offset", "kind", "symbol", "addend"}
  <2>1. e = Reloc(row, a, c)
    BY <1>3 DEF RelocOf
  <2> HIDE DEF a, c
  <2>. QED  BY <2>1 DEF Reloc
<1>10. /\ x.offset = row[1] /\ x.kind = row[3] /\ x.addend = Cell(row, 3)
       /\ x.symbol = SymbolName(b, d, row[2])
  <2>1. x = Reloc(row, b, d)
    BY DEF RelocOf
  <2> HIDE DEF b, d, x
  <2>. QED  BY <2>1 DEF Reloc
<1> HIDE DEF a, b, c, d, x
<1>11. Shortened(e.symbol, x.symbol)
  BY <1>7, <1>8, <1>9, <1>10, SymbolNameOfCut, ShortenedNames
<1>12. \A field \in DOMAIN e \ {"symbol"} : e[field] = x[field]
  BY <1>9, <1>10
<1>13. Matches(e, x, {"symbol"})
  BY <1>11, <1>12 DEF Matches
<1>. QED  BY <1>5, <1>13

\* Of the first with each name there is one with the name of each.
LEMMA EachNameIsFirst ==
  ASSUME NEW all, all \in Seq(Range(all)), NEW i \in Range(all)
  PROVE  \E j \in FirstNamed(all) : j.name = i.name
<1> DEFINE n == Len(all)
           same == {k \in 1 .. n : all[k].name = i.name}
<1>1. n \in Nat /\ DOMAIN all = 1 .. n
  OBVIOUS
<1> HIDE DEF n
<1>2. same # {} /\ same \in SUBSET Nat
  <2>1. PICK k \in 1 .. n : all[k] = i
    BY <1>1 DEF Range
  <2>2. k \in same
    BY <2>1
  <2>. QED  BY <1>1, <2>2
<1>3. PICK x \in same : \A y \in same : x <= y
  <2> HIDE DEF same
  <2>. QED  BY <1>2, LeastExists
<1>4. x \in 1 .. n /\ all[x].name = i.name
  OBVIOUS
<1>5. ASSUME NEW e \in 1 .. x - 1, all[e].name = all[x].name
      PROVE  FALSE
  <2>1. e \in same /\ ~ (x <= e)
    BY <1>1, <1>4, <1>5
  <2>. QED  BY <1>3, <2>1
<1>6. all[x] \in FirstNamed(all)
  BY <1>1, <1>4, <1>5 DEF FirstNamed
<1>. QED  BY <1>4, <1>6

LEMMA ImportsOfCut ==
  ASSUME NEW g, NEW f, CutOff(g, f), NEW small, NEW large, HeadersAlike(small, large),
         NEW a, NEW b, TablesAlike(a, b), NEW needed, NEW others,
         NEW i \in Imports(g, small, a, needed)
  PROVE  \E j \in Imports(f, large, b, others) : j.name = i.name
<1>1. /\ g \in Seq(Nat) /\ f \in Seq(Nat) /\ HeadersAreNumbers(small) /\ HeadersAreNumbers(large)
  BY HeadersAreTyped DEF CutOff, HeadersAlike
<1>2. PICK library : i \in Slots(g, small, a, library)
  <2>1. PICK library, all : ListsImports(all, library, g, small, a, needed)
    BY <1>1, ImportsAreListed
  <2>2. i \in Range(all)
    BY <2>1 DEF Range, FirstNamed, ListsImports
  <2>. QED  BY <2>1, <2>2 DEF ListsImports
<1>3. PICK s \in Range(RelocSections(small)) : LinksToSymbols(small, s) /\ i \in SlotsOf(g, s, a, library)
  BY <1>2 DEF Slots
<1>4. PICK row \in Range(RelocRows(g, s)) : IsImport(row, a) /\ i = ImportOf(row, s, a, library)
  BY <1>3 DEF SlotsOf
<1>5. PICK t \in Range(RelocSections(large)) : Alike(s, t)
  BY RelocSectionsOfCut
<1>6. LinksToSymbols(large, t)
  <2>1. s.link = t.link
    BY <1>5 DEF Alike
  <2> DEFINE k == t.link
  <2>2. Nth(small, k) # None /\ Nth(small, k).type = SectionType.dynsym
    BY <1>3, <2>1 DEF LinksToSymbols
  <2> HIDE DEF k
  <2>3. Nth(large, k) # None /\ Nth(large, k).type = SectionType.dynsym
    BY <2>2, NthOfCut DEF Alike
  <2>. QED  BY <2>3 DEF LinksToSymbols, k
<1>7. row \in Range(RelocRows(f, t))
  BY <1>5, RelocRowsOfCut
<1> DEFINE k == row[2]
<1>8. k \in 0 .. Len(a) - 1 /\ Nth(a, k).shndx = Undefined /\ Nth(a, k).name # <<>> /\ row[3] \in Range(RelocType)
  BY <1>4 DEF IsImport
<1> HIDE DEF k
<1>9. k \in 0 .. Len(b) - 1 /\ Nth(b, k).shndx = Undefined /\ Nth(b, k).name = Nth(a, k).name
  <2>1. k + 1 \in 1 .. Len(a) /\ k \in 0 .. Len(b) - 1
    BY <1>8 DEF TablesAlike
  <2>2. Nth(a, k) = a[k + 1] /\ Nth(b, k) = b[k + 1]
    BY <1>8, <2>1 DEF Nth
  <2>3. SymbolsAlike(a[k + 1], b[k + 1])
    BY <2>1 DEF TablesAlike
  <2>. QED  BY <1>8, <2>1, <2>2, <2>3 DEF SymbolsAlike
<1>10. IsImport(row, b)
  BY <1>8, <1>9 DEF IsImport, k
<1>11. \A r, h, symbols, l : ImportOf(r, h, symbols, l).name = Nth(symbols, r[2]).name
  <2> TAKE r, h, symbols, l
  <2> DEFINE sym == Nth(symbols, r[2])
             kind == CASE h.name = RelPlt \/ r[3] = RelocType.call \/ sym.type = 2 -> "function"
                       [] sym.type = 1 -> "data"
                       [] OTHER -> "unknown"
  <2>1. ImportOf(r, h, symbols, l)
          = [name |-> sym.name, library |-> l, ordinal |-> None,
             address |-> IF r[1] = 0 THEN None ELSE r[1], kind |-> kind]
    BY DEF ImportOf
  <2> HIDE DEF sym, kind
  <2>2. ImportOf(r, h, symbols, l).name = sym.name
    BY <2>1
  <2>. QED  BY <2>2 DEF sym
<1>12. PICK lib, all : ListsImports(all, lib, f, large, b, others)
  BY <1>1, ImportsAreListed
<1> DEFINE x == ImportOf(row, t, b, lib)
<1>13. x \in Range(all)
  <2>1. x \in SlotsOf(f, t, b, lib)
    BY <1>7, <1>10 DEF SlotsOf
  <2> HIDE DEF x
  <2>2. x \in Slots(f, large, b, lib)
    BY <1>6, <2>1 DEF Slots
  <2>. QED  BY <1>12, <2>2 DEF ListsImports
<1>14. x.name = i.name
  BY <1>4, <1>9, <1>11 DEF k
<1> HIDE DEF x
<1>15. PICK j \in FirstNamed(all) : j.name = x.name
  BY <1>12, <1>13, EachNameIsFirst DEF ListsImports
<1>. QED  BY <1>12, <1>14, <1>15 DEF ListsImports

LEMMA ExportsOfCut ==
  ASSUME NEW a, NEW b, TablesAlike(a, b)
  PROVE  Exports(a) \subseteq Exports(b)
<1> SUFFICES ASSUME NEW e \in Exports(a)
             PROVE  e \in Exports(b)
  OBVIOUS
<1>1. PICK s \in Range(a) :
        /\ s.shndx # Undefined /\ s.name # <<>> /\ s.bind \in Range(Bind)
        /\ e = [name |-> s.name, address |-> s.value, ordinal |-> None, forwarder |-> None]
  BY DEF Exports
<1>2. PICK t \in Range(b) : SymbolsAlike(s, t)
  BY EachSymbol
<1>3. t.shndx = s.shndx /\ t.name = s.name /\ t.bind = s.bind /\ t.value = s.value
  BY <1>1, <1>2 DEF SymbolsAlike
<1>. QED  BY <1>1, <1>3 DEF Exports

LEMMA SymtabIsTyped ==
  ASSUME NEW f \in Seq(Nat), NEW shdrs \in Seq(Header), NEW type
  PROVE  Symtab(f, shdrs, OfType(shdrs, type)) \in Seq(Range(Symtab(f, shdrs, OfType(shdrs, type))))
BY SymtabIsASequence, HeadersAreTyped

\* What is left of an ELF file shows nothing that the file does not.
LEMMA ElfOfCut ==
  ASSUME NEW g, NEW f, CutOff(g, f), IsElf(g), IsElf(f), NEW small, NEW large,
         small = Inspected(g), large = Inspected(f), ~ Refused(small), ~ Refused(large)
  PROVE  Within(small, large)
<1> DEFINE gh == Shdrs(g, Ehdr(g))
           fh == Shdrs(f, Ehdr(f))
           a == Symtab(g, gh, OfType(gh, SectionType.symtab))
           c == Symtab(g, gh, OfType(gh, SectionType.dynsym))
           b == Symtab(f, fh, OfType(fh, SectionType.symtab))
           d == Symtab(f, fh, OfType(fh, SectionType.dynsym))
<1>1. PICK needed :
        /\ EhdrError(g) = None /\ small.format = "elf"
        /\ small.sections = Sections(gh) /\ small.segments = Segments(Phdrs(g, Ehdr(g)))
        /\ small.imports = Imports(g, gh, c, needed) /\ small.exports = Exports(c)
        /\ small.relocations = Relocations(g, gh)
        /\ small.symbols = [k \in 1 .. Len(a \o c) |-> Shown(gh, (a \o c)[k])]
  BY ElfImages
<1>2. PICK others :
        /\ EhdrError(f) = None /\ large.format = "elf"
        /\ large.sections = Sections(fh) /\ large.segments = Segments(Phdrs(f, Ehdr(f)))
        /\ large.imports = Imports(f, fh, d, others) /\ large.exports = Exports(d)
        /\ large.relocations = Relocations(f, fh)
        /\ large.symbols = [k \in 1 .. Len(b \o d) |-> Shown(fh, (b \o d)[k])]
  BY ElfImages
<1>3. HeadersAlike(gh, fh) /\ g \in Seq(Nat) /\ f \in Seq(Nat)
  BY <1>1, <1>2, ShdrsOfCut DEF CutOff
<1>4. gh \in Seq(Header) /\ fh \in Seq(Header)
  BY <1>3 DEF HeadersAlike
<1> HIDE DEF gh, fh
<1>5. TablesAlike(a, b) /\ TablesAlike(c, d)
  BY <1>3, SymtabOfCut
<1>6. a \in Seq(Range(a)) /\ b \in Seq(Range(b)) /\ c \in Seq(Range(c)) /\ d \in Seq(Range(d))
  BY <1>3, <1>4, SymtabIsTyped
<1> HIDE DEF a, b, c, d
<1>7. \A k \in DOMAIN small.segments :
        k \in DOMAIN large.segments /\ Matches(small.segments[k], large.segments[k], {})
  BY <1>1, <1>2, SegmentsOfCut
<1>8. AllMatch(Range(small.sections), Range(large.sections), {"name"})
  BY <1>1, <1>2, <1>3, SectionsOfCut DEF AllMatch
<1>9. AllMatch(Range(small.symbols), Range(large.symbols), {"name", "section"})
  <2>1. /\ Range(small.symbols) = {Shown(gh, s) : s \in Range(a) \cup Range(c)}
        /\ Range(large.symbols) = {Shown(fh, s) : s \in Range(b) \cup Range(d)}
    <3> DEFINE s == small.symbols
               t == large.symbols
    <3>1. /\ s = [k \in 1 .. Len(a \o c) |-> Shown(gh, (a \o c)[k])]
          /\ t = [k \in 1 .. Len(b \o d) |-> Shown(fh, (b \o d)[k])]
      BY <1>1, <1>2
    <3> HIDE DEF s, t
    <3>2. Range(s) = {Shown(gh, z) : z \in Range(a) \cup Range(c)}
      BY <1>6, <3>1, AllShown
    <3>3. Range(t) = {Shown(fh, z) : z \in Range(b) \cup Range(d)}
      BY <1>6, <3>1, AllShown
    <3>. QED  BY <3>2, <3>3 DEF s, t
  <2>2. ASSUME NEW s \in Range(a) \cup Range(c)
        PROVE  \E x \in Range(large.symbols) : Matches(Shown(gh, s), x, {"name", "section"})
    <3>1. PICK t \in Range(b) \cup Range(d) : Matches(Shown(gh, s), Shown(fh, t), {"name", "section"})
      BY <1>3, <1>5, SymbolsOfCut
    <3>. QED  BY <2>1, <3>1
  <2>. QED  BY <2>1, <2>2 DEF AllMatch
<1>10. AllMatch(Range(small.relocations), Range(large.relocations), {"symbol"})
  BY <1>1, <1>2, <1>3, RelocationsOfCut DEF AllMatch
<1>11. \A i \in small.imports : \E j \in large.imports : j.name = i.name
  BY <1>1, <1>2, <1>3, <1>5, ImportsOfCut
<1>12. small.exports \subseteq large.exports
  BY <1>1, <1>2, <1>5, ExportsOfCut
<1>. QED  BY <1>1, <1>7, <1>8, <1>9, <1>10, <1>11, <1>12 DEF Within

-----------------------------------------------------------------------------
(***************************************************************************)
(* PE: the headers.                                                        *)
(***************************************************************************)
\* The headers and what a cut leaves of them.
DirsAlike(small, large) ==
  /\ Len(small) \in Nat /\ Len(large) \in Nat /\ Len(small) <= Len(large)
  /\ \A k \in 1 .. Len(large) : large[k].rva \in Nat /\ large[k].size \in Nat
  /\ \A k \in 1 .. Len(small) : small[k].rva = large[k].rva /\ small[k].size \in {0, large[k].size}
SectionsOfPe(sections) ==
  \A k \in 1 .. Len(sections) :
    /\ sections[k].name \in Seq(Nat)
    /\ sections[k].vaddr \in Nat /\ sections[k].raw \in Nat /\ sections[k].pointer \in Nat
HeadersBegin(h, k) ==
  /\ h.machine = k.machine /\ h.plus = k.plus /\ h.entry = k.entry /\ h.base = k.base /\ h.dll = k.dll
  /\ h.base \in Nat
  /\ DirsAlike(h.dirs, k.dirs)
  /\ Begins(h.sections, k.sections) /\ SectionsOfPe(k.sections)

\* A directory, of which the size may be missing.
LEMMA DirectoryAt ==
  ASSUME NEW f \in Seq(Nat), NEW a \in 1 .. Len(f)
  PROVE  DataDir(SubSeq(f, a, IF a + 1 > Len(f) THEN Len(f) ELSE a + 1))
           = [rva |-> f[a], size |-> IF a + 1 > Len(f) THEN 0 ELSE f[a + 1]]
<1> DEFINE b == IF a + 1 > Len(f) THEN Len(f) ELSE a + 1
           r == SubSeq(f, a, b)
<1>1. b \in a .. Len(f) /\ b - a + 1 = (IF a + 1 > Len(f) THEN 1 ELSE 2)
  OBVIOUS
<1> HIDE DEF b
<1>2. \A i \in a .. b : f[i] \in Nat
  BY <1>1
<1>3. Len(r) = b - a + 1 /\ \A i \in 1 .. b - a + 1 : r[i] = f[a + i - 1]
  BY <1>1, <1>2, SubSeqProperties
<1>4. r[1] = f[a]
  <2>1. 1 \in 1 .. b - a + 1 /\ a + 1 - 1 = a
    BY <1>1
  <2>. QED  BY <1>3, <2>1
<1>5. Cell(r, 1) = IF a + 1 > Len(f) THEN 0 ELSE f[a + 1]
  <2>1. CASE a + 1 > Len(f)
    <3>1. Len(r) = 1
      BY <1>1, <1>3, <2>1
    <3> HIDE DEF r
    <3>. QED  BY <2>1, <3>1 DEF Cell
  <2>2. CASE ~ (a + 1 > Len(f))
    <3>1. Len(r) = 2 /\ 2 \in 1 .. b - a + 1 /\ a + 2 - 1 = a + 1
      BY <1>1, <1>3, <2>2
    <3>2. r[2] = f[a + 1]
      BY <1>3, <3>1
    <3> HIDE DEF r
    <3>3. 1 \in 0 .. Len(r) - 1 /\ 1 + 1 = 2
      BY <3>1
    <3>. QED  BY <2>2, <3>2, <3>3 DEF Cell
  <2>. QED  BY <2>1, <2>2
<1> HIDE DEF r
<1>6. DataDir(r) = [rva |-> f[a], size |-> IF a + 1 > Len(f) THEN 0 ELSE f[a + 1]]
  BY <1>4, <1>5 DEF DataDir
<1>. QED  BY <1>6 DEF r, b

LEMMA DirectoriesAt ==
  ASSUME NEW f \in Seq(Nat), NEW count \in Nat, CountAt(f) \in Nat
  PROVE  \E n \in Nat :
           /\ Len(Dirs(f, count)) = n
           /\ 1 .. n = {k \in 1 .. IF count > MaxDirectories THEN MaxDirectories ELSE count :
                          Readable(f, CountAt(f) + 2 * k - 1)}
           /\ \A k \in 1 .. n :
                /\ CountAt(f) + 2 * k \in 1 .. Len(f)
                /\ Dirs(f, count)[k].rva = f[CountAt(f) + 2 * k]
                /\ Dirs(f, count)[k].size = IF CountAt(f) + 2 * k + 1 > Len(f) THEN 0
                                            ELSE f[CountAt(f) + 2 * k + 1]
<1> DEFINE most == IF count > MaxDirectories THEN MaxDirectories ELSE count
           c == CountAt(f)
           readable == {k \in 1 .. most : Readable(f, c + 2 * k - 1)}
           n == Cardinality(readable)
           At(k) == DataDir(SubSeq(f, c + 2 * k, IF c + 2 * k + 1 > Len(f) THEN Len(f) ELSE c + 2 * k + 1))
           dirs == Dirs(f, count)
<1>1. most \in Nat /\ c \in Nat
  BY DEF MaxDirectories
<1>2. dirs = [k \in 1 .. n |-> At(k)]
  BY DEF Dirs
<1> HIDE DEF most, c, dirs
<1>3. n \in 0 .. most /\ readable = 1 .. n
  <2>1. ASSUME NEW k \in readable, NEW j \in 1 .. k
        PROVE  j \in readable
    <3>1. k \in 1 .. most /\ c + 2 * k - 1 \in 0 .. Len(f) - 1
      BY DEF Readable
    <3>2. j \in 1 .. most /\ c + 2 * j - 1 \in 0 .. Len(f) - 1
      BY <1>1, <3>1
    <3>. QED  BY <3>2 DEF Readable
  <2> HIDE DEF readable
  <2>2. readable \in SUBSET (1 .. most)
    BY DEF readable
  <2>. QED  BY <1>1, <2>1, <2>2, InitialSegment
<1>4. ASSUME NEW k \in 1 .. n
      PROVE  c + 2 * k \in 1 .. Len(f) /\ k \in Nat
  <2>1. k \in 1 .. most /\ c + 2 * k - 1 \in 0 .. Len(f) - 1
    BY <1>3 DEF Readable
  <2>. QED  BY <1>1, <2>1
<1> HIDE DEF n, readable
<1>5. n \in Nat
  BY <1>1, <1>3
<1>6. Len(dirs) = n /\ \A k \in 1 .. n : dirs[k] = At(k)
  <2> HIDE DEF At
  <2>. QED  BY <1>2, <1>5
<1>7. ASSUME NEW k \in 1 .. n
      PROVE  /\ dirs[k].rva = f[c + 2 * k]
             /\ dirs[k].size = IF c + 2 * k + 1 > Len(f) THEN 0 ELSE f[c + 2 * k + 1]
  <2> DEFINE a == c + 2 * k
  <2>1. a \in 1 .. Len(f) /\ dirs[k] = At(k)
    BY <1>4, <1>6
  <2>2. At(k) = DataDir(SubSeq(f, a, IF a + 1 > Len(f) THEN Len(f) ELSE a + 1))
    OBVIOUS
  <2> HIDE DEF At, a
  <2>3. dirs[k] = [rva |-> f[a], size |-> IF a + 1 > Len(f) THEN 0 ELSE f[a + 1]]
    BY <2>1, <2>2, DirectoryAt
  <2>4. dirs[k].rva = f[a] /\ dirs[k].size = IF a + 1 > Len(f) THEN 0 ELSE f[a + 1]
    BY <2>3
  <2>. QED  BY <2>4 DEF a
<1>. QED  BY <1>3, <1>4, <1>5, <1>6, <1>7 DEF dirs, c, most, readable

LEMMA DirsOfCut ==
  ASSUME NEW g, NEW f, CutOff(g, f), NEW count \in Nat, CountAt(g) = CountAt(f), CountAt(f) \in Nat
  PROVE  DirsAlike(Dirs(g, count), Dirs(f, count))
<1> DEFINE c == CountAt(f)
           most == IF count > MaxDirectories THEN MaxDirectories ELSE count
           s == Dirs(g, count)
           t == Dirs(f, count)
<1>1. g \in Seq(Nat) /\ f \in Seq(Nat) /\ Len(g) <= Len(f) /\ \A k \in 1 .. Len(g) : g[k] = f[k]
  BY DEF CutOff
<1>2. PICK m \in Nat :
        /\ Len(s) = m
        /\ 1 .. m = {k \in 1 .. most : Readable(g, CountAt(g) + 2 * k - 1)}
        /\ \A k \in 1 .. m :
             /\ CountAt(g) + 2 * k \in 1 .. Len(g)
             /\ s[k].rva = g[CountAt(g) + 2 * k]
             /\ s[k].size = IF CountAt(g) + 2 * k + 1 > Len(g) THEN 0 ELSE g[CountAt(g) + 2 * k + 1]
  BY <1>1, DirectoriesAt
<1>3. PICK n \in Nat :
        /\ Len(t) = n
        /\ 1 .. n = {k \in 1 .. most : Readable(f, c + 2 * k - 1)}
        /\ \A k \in 1 .. n :
             /\ c + 2 * k \in 1 .. Len(f)
             /\ t[k].rva = f[c + 2 * k]
             /\ t[k].size = IF c + 2 * k + 1 > Len(f) THEN 0 ELSE f[c + 2 * k + 1]
  BY <1>1, DirectoriesAt
<1>4. CountAt(g) = c /\ c \in Nat
  OBVIOUS
<1> HIDE DEF c, s, t, most
<1>5. ASSUME NEW k \in 1 .. m
      PROVE  k \in 1 .. n
  <2>1. k \in 1 .. most /\ Readable(g, c + 2 * k - 1)
    BY <1>2, <1>4
  <2>2. Readable(f, c + 2 * k - 1)
    <3>1. c + 2 * k - 1 \in Int
      BY <1>4, <2>1
    <3>. QED  BY <2>1, <3>1, CellOfCut
  <2>. QED  BY <1>3, <2>1, <2>2
<1>6. m <= n
  <2>1. m = 0 \/ m \in 1 .. m
    OBVIOUS
  <2>. QED  BY <1>5, <2>1
<1>7. ASSUME NEW k \in 1 .. n
      PROVE  t[k].rva \in Nat /\ t[k].size \in Nat
  <2> DEFINE a == c + 2 * k
  <2>1. a \in 1 .. Len(f) /\ t[k].rva = f[a] /\ t[k].size = IF a + 1 > Len(f) THEN 0 ELSE f[a + 1]
    BY <1>3
  <2> HIDE DEF a
  <2>2. f[a] \in Nat /\ (~ (a + 1 > Len(f)) => f[a + 1] \in Nat)
    BY <1>1, <2>1
  <2>. QED  BY <2>1, <2>2
<1>8. ASSUME NEW k \in 1 .. m
      PROVE  s[k].rva = t[k].rva /\ s[k].size \in {0, t[k].size}
  <2> DEFINE a == c + 2 * k
  <2>1. a \in 1 .. Len(g) /\ s[k].rva = g[a] /\ s[k].size = IF a + 1 > Len(g) THEN 0 ELSE g[a + 1]
    BY <1>2, <1>4
  <2>2. t[k].rva = f[a] /\ t[k].size = IF a + 1 > Len(f) THEN 0 ELSE f[a + 1]
    BY <1>3, <1>5
  <2> HIDE DEF a
  <2>3. g[a] = f[a]
    BY <1>1, <2>1
  <2>4. ~ (a + 1 > Len(g)) => ~ (a + 1 > Len(f)) /\ g[a + 1] = f[a + 1]
    BY <1>1, <2>1
  <2>. QED  BY <2>1, <2>2, <2>3, <2>4
<1>9. DirsAlike(s, t)
  BY <1>2, <1>3, <1>6, <1>7, <1>8 DEF DirsAlike
<1>. QED  BY <1>9 DEF s, t

\* Where the parts of the headers are.
LEMMA PeHeaderIsThere ==
  ASSUME NEW g, NEW f, CutOff(g, f), IsPe(g), PeError(g) = None
  PROVE  /\ Coff(g) = Coff(f) /\ Opt(g) = Opt(f) /\ CountAt(g) = CountAt(f) /\ IsPlus(g) = IsPlus(f)
         /\ Coff(f) \in Nat /\ Opt(f) = Coff(f) + 3 /\ CountAt(f) \in {Opt(f) + 5, Opt(f) + 6}
         /\ IsPlus(f) => CountAt(f) = Opt(f) + 6
         /\ CountAt(f) < Len(g)
<1>1. g \in Seq(Nat) /\ f \in Seq(Nat) /\ Len(g) \in Nat
  BY DEF CutOff
<1>2. Cell(g, 1) = Cell(f, 1) /\ Cell(f, 1) \in Nat
  <2>1. Readable(g, 1)
    BY DEF IsPe
  <2>. QED  BY <2>1, CellOfCut
<1>3. Coff(g) = Coff(f) /\ Coff(f) \in Nat /\ Opt(g) = Opt(f) /\ Opt(f) = Coff(f) + 3
  BY <1>2 DEF Coff, Opt, CoffSize
<1>4. Slice(g, Coff(g), CoffSize) # None /\ Readable(g, Opt(g)) /\ Readable(g, CountAt(g))
  <2>1. "truncated" # None /\ "too many sections" # None /\ "unsupported" # None
    BY NoneIsNoPeError
  <2>2. Slice(g, Coff(g), CoffSize) # None
    <3>1. Slice(g, Coff(g), CoffSize) = None => PeError(g) = "truncated"
      BY Zenon DEF PeError
    <3>. QED  BY <2>1, <3>1
  <2>3. Readable(g, Opt(g))
    <3>1. ~ Readable(g, Opt(g)) => PeError(g) \in {"truncated", "too many sections"}
      BY Zenon DEF PeError
    <3>. QED  BY <2>1, <3>1
  <2>4. Readable(g, CountAt(g))
    <3>1. ~ Readable(g, CountAt(g)) => PeError(g) \in {"truncated", "too many sections", "unsupported"}
      BY Zenon DEF PeError
    <3>. QED  BY <2>1, <3>1
  <2>. QED  BY <2>2, <2>3, <2>4
<1>5. Cell(g, Opt(g)) = Cell(f, Opt(f))
  <2>1. Opt(f) \in Int
    BY <1>3
  <2>. QED  BY <1>3, <1>4, <2>1, CellOfCut
<1>6. IsPlus(g) = IsPlus(f) /\ IsPlus(f) \in BOOLEAN
  BY <1>5 DEF IsPlus
<1>7. /\ CountAt(g) = CountAt(f) /\ CountAt(f) \in {Opt(f) + 5, Opt(f) + 6}
      /\ IsPlus(f) => CountAt(f) = Opt(f) + 6
  BY <1>3, <1>6 DEF CountAt
<1>8. CountAt(f) < Len(g)
  <2>1. CountAt(f) \in 0 .. Len(g) - 1
    BY <1>4, <1>7 DEF Readable
  <2>. QED  BY <1>1, <2>1
<1>. QED  BY <1>3, <1>6, <1>7, <1>8

LEMMA SectionRow ==
  ASSUME NEW r \in Seq(Nat), \A j \in 1 .. 6 : r[j] \in Nat
  PROVE  /\ SecRow(r).name \in Seq(Nat)
         /\ SecRow(r).vaddr \in Nat /\ SecRow(r).raw \in Nat /\ SecRow(r).pointer \in Nat
<1>1. r[1] \in Nat /\ r[3] \in Nat /\ r[4] \in Nat /\ r[5] \in Nat
  OBVIOUS
<1>2. Cstr(<<r[1]>>, 0) \in Seq(Nat)
  <2>1. <<r[1]>> \in Seq(Nat) /\ 0 \in Nat
    BY <1>1
  <2>. QED  BY <2>1, NamesAreCells
<1>. QED  BY <1>1, <1>2 DEF SecRow

LEMMA PeHeadersOfCut ==
  ASSUME NEW g, NEW f, CutOff(g, f), IsPe(g), PeError(g) = None
  PROVE  HeadersBegin(Headers(g), Headers(f))
<1> DEFINE c == Coff(f)
           o == Opt(f)
           h == Headers(g)
           k == Headers(f)
<1>1. /\ Coff(g) = c /\ Opt(g) = o /\ CountAt(g) = CountAt(f) /\ IsPlus(g) = IsPlus(f)
      /\ c \in Nat /\ o = c + 3 /\ CountAt(f) \in {o + 5, o + 6}
      /\ IsPlus(f) => CountAt(f) = o + 6
      /\ CountAt(f) < Len(g)
  BY PeHeaderIsThere
<1>2. g \in Seq(Nat) /\ f \in Seq(Nat) /\ Len(g) \in Nat
  BY DEF CutOff
<1> HIDE DEF c, o
<1>3. ASSUME NEW a \in c .. CountAt(f)
      PROVE  Cell(g, a) = Cell(f, a) /\ Cell(f, a) \in Nat
  <2>1. a \in Int /\ Readable(g, a)
    BY <1>1, <1>2, <1>3 DEF Readable
  <2>. QED  BY <2>1, CellOfCut
<1> DEFINE base == o + Cell(f, c + 2)
           count == Cell(f, c + 1)
           s == Table(g, base, count, RowSize)
           t == Table(f, base, count, RowSize)
           baseAt == o + IF IsPlus(f) THEN 2 ELSE 3
<1>4. /\ Cell(g, c) = Cell(f, c) /\ Cell(g, c + 1) = count /\ Cell(g, c + 2) = Cell(f, c + 2)
      /\ Cell(g, o + 1) = Cell(f, o + 1) /\ Cell(g, o + 4) = Cell(f, o + 4)
      /\ Cell(g, baseAt) = Cell(f, baseAt) /\ Cell(g, CountAt(f)) = Cell(f, CountAt(f))
      /\ Cell(f, baseAt) \in Nat /\ Cell(f, CountAt(f)) \in Nat /\ count \in Nat /\ base \in Nat
  <2>1. /\ c \in c .. CountAt(f) /\ c + 1 \in c .. CountAt(f) /\ c + 2 \in c .. CountAt(f)
        /\ o + 1 \in c .. CountAt(f) /\ o + 4 \in c .. CountAt(f) /\ baseAt \in c .. CountAt(f)
        /\ CountAt(f) \in c .. CountAt(f) /\ o \in Nat
    BY <1>1
  <2> HIDE DEF baseAt
  <2>2. /\ Cell(g, c) = Cell(f, c) /\ Cell(g, c + 1) = Cell(f, c + 1) /\ Cell(g, c + 2) = Cell(f, c + 2)
        /\ Cell(f, c + 1) \in Nat /\ Cell(f, c + 2) \in Nat
    BY <1>3, <2>1
  <2>3. /\ Cell(g, o + 1) = Cell(f, o + 1) /\ Cell(g, o + 4) = Cell(f, o + 4)
        /\ Cell(g, baseAt) = Cell(f, baseAt) /\ Cell(f, baseAt) \in Nat
        /\ Cell(g, CountAt(f)) = Cell(f, CountAt(f)) /\ Cell(f, CountAt(f)) \in Nat
    BY <1>3, <2>1
  <2>4. base \in Nat
    BY <2>1, <2>2
  <2>. QED  BY <2>2, <2>3, <2>4
<1> DEFINE dg == Dirs(g, Cell(f, CountAt(f)))
           df == Dirs(f, Cell(f, CountAt(f)))
           plus == IsPlus(f)
<1>5. /\ h = [machine |-> Cell(f, c), plus |-> plus, entry |-> Cell(f, o + 1), base |-> Cell(f, baseAt),
              dll |-> Cell(f, o + 4), dirs |-> dg, sections |-> [j \in DOMAIN s |-> SecRow(s[j])]]
      /\ k = [machine |-> Cell(f, c), plus |-> plus, entry |-> Cell(f, o + 1), base |-> Cell(f, baseAt),
              dll |-> Cell(f, o + 4), dirs |-> df, sections |-> [j \in DOMAIN t |-> SecRow(t[j])]]
  <2>1. k = [machine |-> Cell(f, c), plus |-> plus, entry |-> Cell(f, o + 1), base |-> Cell(f, baseAt),
              dll |-> Cell(f, o + 4), dirs |-> df, sections |-> [j \in DOMAIN t |-> SecRow(t[j])]]
    BY DEF Headers, c, o
  <2>2. h = [machine |-> Cell(g, c), plus |-> plus, entry |-> Cell(g, o + 1), base |-> Cell(g, baseAt),
              dll |-> Cell(g, o + 4), dirs |-> Dirs(g, Cell(g, CountAt(f))),
              sections |-> LET rows == Table(g, o + Cell(g, c + 2), Cell(g, c + 1), RowSize)
                           IN [j \in DOMAIN rows |-> SecRow(rows[j])]]
    BY <1>1 DEF Headers
  <2>3. Dirs(g, Cell(g, CountAt(f))) = dg /\ Table(g, o + Cell(g, c + 2), Cell(g, c + 1), RowSize) = s
    BY <1>4
  <2>. QED  BY <1>4, <2>1, <2>2, <2>3
<1>6. DirsAlike(dg, df)
  <2>1. CountAt(f) \in Nat
    BY <1>1
  <2>. QED  BY <1>1, <1>4, <2>1, DirsOfCut
<1>7. Begins(s, t)
  <2>1. RowSize \in Nat \ {0}
    BY DEF RowSize
  <2> HIDE DEF base, count
  <2>. QED  BY <1>4, <2>1, TableOfCut
<1>8. \A j \in 1 .. Len(t) : t[j] \in Seq(Nat) /\ \A i \in 1 .. 6 : t[j][i] \in Nat
  <2> DEFINE size == RowSize
  <2>1. size \in Nat \ {0} /\ size = 6
    BY DEF RowSize
  <2> HIDE DEF base, count
  <2>2. PICK n : RowsFit(t, f, base, count, size, n)
    BY <1>2, <1>4, <2>1, RowsOfTable
  <2> HIDE DEF t
  <2>3. /\ Len(t) = n
        /\ \A j \in 1 .. n : t[j] \in Seq(Nat) /\ \A i \in 1 .. size : t[j][i] \in Nat
    BY <2>2 DEF RowsFit
  <2>. QED  BY <2>1, <2>3
<1> HIDE DEF s, t, h, k, dg, df, base, count, baseAt, plus
<1>9. h.sections = [j \in DOMAIN s |-> SecRow(s[j])] /\ k.sections = [j \in DOMAIN t |-> SecRow(t[j])]
  BY <1>5
<1>10. Begins(h.sections, k.sections) /\ SectionsOfPe(k.sections)
  <2> DEFINE a == h.sections
             b == k.sections
  <2>1. a = [j \in DOMAIN s |-> SecRow(s[j])] /\ b = [j \in DOMAIN t |-> SecRow(t[j])]
    BY <1>9
  <2> HIDE DEF a, b
  <2> DEFINE m == Len(s)
             n == Len(t)
  <2>2. /\ m \in Nat /\ n \in Nat /\ m <= n /\ DOMAIN s = 1 .. m /\ DOMAIN t = 1 .. n
        /\ \A j \in 1 .. m : s[j] = t[j]
    BY <1>7 DEF Begins
  <2>3. \A j \in 1 .. n : t[j] \in Seq(Nat) /\ \A i \in 1 .. 6 : t[j][i] \in Nat
    BY <1>8
  <2> HIDE DEF m, n
  <2>4. DOMAIN a = 1 .. m /\ DOMAIN b = 1 .. n /\ Len(a) = m /\ Len(b) = n
    BY <2>1, <2>2
  <2>5. \A j \in 1 .. n : b[j] = SecRow(t[j])
    BY <2>1, <2>2
  <2>6. ASSUME NEW j \in 1 .. m
        PROVE  a[j] = b[j]
    <3>1. j \in 1 .. n
      BY <2>2
    <3>. QED  BY <2>1, <2>2, <2>5, <3>1
  <2>7. Begins(a, b)
    BY <2>2, <2>4, <2>6 DEF Begins
  <2>8. SectionsOfPe(b)
    BY <2>3, <2>4, <2>5, SectionRow DEF SectionsOfPe
  <2>. QED  BY <2>7, <2>8 DEF a, b
<1>11. /\ h.machine = k.machine /\ h.plus = k.plus /\ h.entry = k.entry /\ h.base = k.base /\ h.dll = k.dll
       /\ h.base = Cell(f, baseAt) /\ h.dirs = dg /\ k.dirs = df
  BY <1>5
<1>12. HeadersBegin(h, k)
  BY <1>4, <1>6, <1>10, <1>11 DEF HeadersBegin
<1>. QED  BY <1>12 DEF h, k

-----------------------------------------------------------------------------
(***************************************************************************)
(* PE: addresses and names.                                                *)
(***************************************************************************)
LEMMA DirOfCut ==
  ASSUME NEW h, NEW k, HeadersBegin(h, k), NEW index \in Nat
  PROVE  /\ Dir(k, index).rva \in Nat /\ Dir(k, index).size \in Nat
         /\ \/ Dir(h, index).rva = 0 /\ Dir(h, index).size = 0
            \/ Dir(h, index).rva = Dir(k, index).rva /\ Dir(h, index).size \in {0, Dir(k, index).size}
<1>1. /\ Len(h.dirs) \in Nat /\ Len(k.dirs) \in Nat /\ Len(h.dirs) <= Len(k.dirs)
      /\ \A j \in 1 .. Len(k.dirs) : k.dirs[j].rva \in Nat /\ k.dirs[j].size \in Nat
      /\ \A j \in 1 .. Len(h.dirs) : h.dirs[j].rva = k.dirs[j].rva /\ h.dirs[j].size \in {0, k.dirs[j].size}
  BY DEF HeadersBegin, DirsAlike
<1>2. Dir(k, index).rva \in Nat /\ Dir(k, index).size \in Nat
  <2>1. CASE index < Len(k.dirs)
    <3>1. index + 1 \in 1 .. Len(k.dirs) /\ Dir(k, index) = k.dirs[index + 1]
      BY <1>1, <2>1 DEF Dir
    <3>. QED  BY <1>1, <3>1
  <2>2. CASE ~ (index < Len(k.dirs))
    BY <2>2 DEF Dir
  <2>. QED  BY <2>1, <2>2
<1>3. CASE index < Len(h.dirs)
  <2>1. index + 1 \in 1 .. Len(h.dirs) /\ Dir(h, index) = h.dirs[index + 1]
    BY <1>1, <1>3 DEF Dir
  <2>2. Dir(k, index) = k.dirs[index + 1]
    BY <1>1, <1>3 DEF Dir
  <2>. QED  BY <1>1, <1>2, <2>1, <2>2
<1>4. CASE ~ (index < Len(h.dirs))
  BY <1>2, <1>4 DEF Dir
<1>. QED  BY <1>3, <1>4

\* The section that decides where an address is in the file.
DecidedAt(sections, rva, m) ==
  /\ m \in 1 .. Len(sections) /\ Decides(sections[m], rva)
  /\ \A j \in 1 .. m - 1 : ~ Decides(sections[j], rva)

LEMMA OneSectionDecides ==
  ASSUME NEW h, Len(h.sections) \in Nat, DOMAIN h.sections = 1 .. Len(h.sections), NEW rva
  PROVE  /\ \A m : DecidedAt(h.sections, rva, m) => RvaToOff(h, rva) = InSection(h.sections[m], rva)
         /\ RvaToOff(h, rva) # None => \E m : DecidedAt(h.sections, rva, m)
<1> DEFINE sections == h.sections
           n == Len(sections)
           D == {j \in DOMAIN sections : Decides(sections[j], rva)}
<1>1. RvaToOff(h, rva) = IF D = {} THEN None ELSE InSection(sections[Least(D)], rva)
  BY DEF RvaToOff
<1>2. D = {j \in 1 .. n : Decides(sections[j], rva)} /\ D \in SUBSET Nat /\ n \in Nat
  OBVIOUS
<1> HIDE DEF D, n
<1>3. ASSUME NEW m, DecidedAt(sections, rva, m)
      PROVE  RvaToOff(h, rva) = InSection(sections[m], rva)
  <2>1. m \in D /\ m \in 1 .. n /\ \A j \in 1 .. m - 1 : j \notin D
    BY <1>2, <1>3 DEF DecidedAt, n
  <2>2. \A y \in D : m <= y
    <3>1. ASSUME NEW y \in D, ~ (m <= y)
          PROVE  FALSE
      <4>1. y \in 1 .. n
        BY <1>2
      <4>2. y \in 1 .. m - 1
        BY <1>2, <2>1, <3>1, <4>1
      <4>. QED  BY <2>1, <4>2
    <3>. QED  BY <3>1
  <2>3. Least(D) = m
    BY <1>2, <2>1, <2>2, LeastIs
  <2>. QED  BY <1>1, <2>1, <2>3
<1>4. ASSUME D # {}
      PROVE  \E m : DecidedAt(sections, rva, m)
  <2>1. PICK m \in D : \A y \in D : m <= y
    BY <1>2, <1>4, LeastExists
  <2>2. m \in 1 .. n /\ Decides(sections[m], rva)
    BY <1>2
  <2>3. ASSUME NEW j \in 1 .. m - 1, Decides(sections[j], rva)
        PROVE  FALSE
    <3>1. j \in 1 .. n /\ ~ (m <= j)
      BY <1>2, <2>2
    <3>2. j \in D
      BY <1>2, <2>3, <3>1
    <3>. QED  BY <2>1, <3>1, <3>2
  <2>4. DecidedAt(sections, rva, m)
    BY <2>2, <2>3 DEF DecidedAt, n
  <2>. QED  BY <2>4
<1>. QED  BY <1>1, <1>3, <1>4

\* What is known of an address does not change, but for what nothing is known.
LEMMA RvaOfCut ==
  ASSUME NEW h, NEW k, HeadersBegin(h, k), NEW rva \in Nat
  PROVE  /\ RvaToOff(h, rva) \in {None, RvaToOff(k, rva)}
         /\ RvaToOff(k, rva) \in Nat \cup {None}
<1> DEFINE a == h.sections
           b == k.sections
<1>1. /\ Len(a) \in Nat /\ Len(b) \in Nat /\ Len(a) <= Len(b)
      /\ DOMAIN a = 1 .. Len(a) /\ DOMAIN b = 1 .. Len(b)
      /\ \A j \in 1 .. Len(a) : a[j] = b[j]
  BY DEF HeadersBegin, Begins
<1>2. \A j \in 1 .. Len(b) : b[j].vaddr \in Nat /\ b[j].raw \in Nat /\ b[j].pointer \in Nat
  BY DEF HeadersBegin, SectionsOfPe
<1>3. ASSUME RvaToOff(h, rva) # None
      PROVE  RvaToOff(h, rva) = RvaToOff(k, rva)
  <2>1. PICK m : DecidedAt(a, rva, m)
    BY <1>1, <1>3, OneSectionDecides
  <2>2. m \in 1 .. Len(a) /\ Decides(a[m], rva) /\ \A j \in 1 .. m - 1 : ~ Decides(a[j], rva)
    BY <2>1 DEF DecidedAt
  <2>3. m \in 1 .. Len(b) /\ a[m] = b[m] /\ \A j \in 1 .. m - 1 : a[j] = b[j]
    <3> HIDE DEF a, b
    <3>. QED  BY <1>1, <2>2
  <2>4. DecidedAt(b, rva, m)
    <3> HIDE DEF a, b
    <3>. QED  BY <2>2, <2>3 DEF DecidedAt
  <2>5. RvaToOff(h, rva) = InSection(a[m], rva) /\ RvaToOff(k, rva) = InSection(b[m], rva)
    BY <1>1, <2>1, <2>4, OneSectionDecides
  <2>. QED  BY <2>3, <2>5
<1>4. ASSUME RvaToOff(k, rva) # None
      PROVE  RvaToOff(k, rva) \in Nat
  <2>1. PICK m : DecidedAt(b, rva, m)
    BY <1>1, <1>4, OneSectionDecides
  <2>2. RvaToOff(k, rva) = InSection(b[m], rva)
    BY <1>1, <2>1, OneSectionDecides
  <2> DEFINE s == b[m]
  <2>3. Decides(s, rva) /\ s.vaddr \in Nat /\ s.raw \in Nat /\ s.pointer \in Nat
    BY <1>2, <2>1 DEF DecidedAt
  <2>4. RvaToOff(k, rva) = InSection(s, rva)
    BY <2>2
  <2> HIDE DEF s
  <2>5. ~ (s.vaddr + s.raw >= WordMod) /\ RvaToOff(k, rva) = s.pointer + (rva - s.vaddr)
    BY <1>4, <2>4 DEF InSection
  <2>6. rva \in s.vaddr .. s.vaddr + s.raw - 1
    BY <2>3, <2>5 DEF Decides
  <2>. QED  BY <2>3, <2>5, <2>6
<1>. QED  BY <1>3, <1>4

\* The name at an offset, or nothing.
LEMMA NameAtOfCut ==
  ASSUME NEW g, NEW f, CutOff(g, f), NEW b \in Nat \cup {None}, NEW a \in {None, b}
  PROVE  CutOff(NameAt(g, a), NameAt(f, b))
<1>1. g \in Seq(Nat) /\ f \in Seq(Nat)
  BY DEF CutOff
<1>2. NameAt(f, b) \in Seq(Nat)
  <2>1. CASE b = None
    BY <2>1 DEF NameAt
  <2>2. CASE b # None
    <3>1. b \in Nat
      BY <2>2
    <3>. QED  BY <1>1, <2>2, <3>1, NamesAreCells DEF NameAt
  <2>. QED  BY <2>1, <2>2
<1>3. CASE a = None
  <2>1. NameAt(g, a) = <<>>
    BY <1>3 DEF NameAt
  <2>. QED  BY <1>2, <2>1 DEF CutOff
<1>4. CASE a # None
  <2>1. a = b /\ a \in Nat
    BY <1>4
  <2>2. NameAt(g, a) = Cstr(g, a) /\ NameAt(f, b) = Cstr(f, a)
    BY <1>4, <2>1 DEF NameAt
  <2>. QED  BY <2>1, <2>2, NameOfCut
<1>. QED  BY <1>3, <1>4

LEMMA NameOfRva ==
  ASSUME NEW g, NEW f, CutOff(g, f), NEW h, NEW k, HeadersBegin(h, k), NEW rva \in Nat
  PROVE  CutOff(NameAtRva(g, h, rva), NameAtRva(f, k, rva))
<1>1. RvaToOff(h, rva) \in {None, RvaToOff(k, rva)} /\ RvaToOff(k, rva) \in Nat \cup {None}
  BY RvaOfCut
<1>2. CutOff(NameAt(g, RvaToOff(h, rva)), NameAt(f, RvaToOff(k, rva)))
  <2> DEFINE a == RvaToOff(h, rva)
             b == RvaToOff(k, rva)
  <2>1. b \in Nat \cup {None} /\ a \in {None, b}
    BY <1>1
  <2> HIDE DEF a, b
  <2>2. CutOff(NameAt(g, a), NameAt(f, b))
    BY <2>1, NameAtOfCut
  <2>. QED  BY <2>2 DEF a, b
<1>. QED  BY <1>2 DEF NameAtRva

\* Cells that are listed, up to a first 0.
ListedTo(f, off, most, n) ==
  /\ n \in 0 .. most /\ Listed(f, off, most) = n
  /\ 1 .. n = {k \in 1 .. most : Readable(f, off + k - 1) /\ \A j \in 1 .. k : Cell(f, off + j - 1) # 0}

LEMMA ListedCells ==
  ASSUME NEW f \in Seq(Nat), NEW off \in Nat, NEW most \in Nat
  PROVE  \E n : ListedTo(f, off, most, n)
<1> DEFINE S == {k \in 1 .. most : Readable(f, off + k - 1) /\ \A j \in 1 .. k : Cell(f, off + j - 1) # 0}
<1>1. Len(f) \in Nat
  OBVIOUS
<1>2. \A k \in S : \A j \in 1 .. k : j \in S
  <2>1. ASSUME NEW k \in S, NEW j \in 1 .. k
        PROVE  j \in S
    <3>1. k \in 1 .. most /\ Readable(f, off + k - 1) /\ \A i \in 1 .. k : Cell(f, off + i - 1) # 0
      OBVIOUS
    <3>2. j \in 1 .. most /\ \A i \in 1 .. j : i \in 1 .. k
      BY <3>1
    <3>3. Readable(f, off + j - 1)
      BY <1>1, <3>1 DEF Readable
    <3>. QED  BY <3>1, <3>2, <3>3
  <2>. QED  BY <2>1
<1>3. S \in SUBSET (1 .. most) /\ Listed(f, off, most) = Cardinality(S)
  BY DEF Listed
<1> HIDE DEF S
<1>4. Cardinality(S) \in 0 .. most /\ S = 1 .. Cardinality(S)
  BY <1>2, <1>3, InitialSegment
<1>5. ListedTo(f, off, most, Cardinality(S))
  BY <1>3, <1>4 DEF S, ListedTo
<1>. QED  BY <1>5

LEMMA ListedOfCut ==
  ASSUME NEW g, NEW f, CutOff(g, f), NEW off \in Nat, NEW most \in Nat
  PROVE  /\ Listed(g, off, most) \in Nat /\ Listed(f, off, most) \in Nat
         /\ \A k \in 1 .. Listed(g, off, most) :
              /\ k \in 1 .. Listed(f, off, most)
              /\ Cell(g, off + k - 1) = Cell(f, off + k - 1) /\ Cell(f, off + k - 1) \in Nat
<1>1. g \in Seq(Nat) /\ f \in Seq(Nat) /\ Len(g) \in Nat
  BY DEF CutOff
<1>2. PICK m : ListedTo(g, off, most, m)
  BY <1>1, ListedCells
<1>3. PICK n : ListedTo(f, off, most, n)
  BY <1>1, ListedCells
<1>4. m \in Nat /\ n \in Nat /\ Listed(g, off, most) = m /\ Listed(f, off, most) = n
  BY <1>2, <1>3 DEF ListedTo
<1>5. ASSUME NEW k \in 1 .. m
      PROVE  k \in 1 .. n /\ Cell(g, off + k - 1) = Cell(f, off + k - 1) /\ Cell(f, off + k - 1) \in Nat
  <2>1. /\ k \in 1 .. most /\ Readable(g, off + k - 1)
        /\ \A j \in 1 .. k : Cell(g, off + j - 1) # 0
    BY <1>2 DEF ListedTo
  <2>2. ASSUME NEW j \in 1 .. k
        PROVE  /\ Readable(f, off + j - 1) /\ Cell(g, off + j - 1) = Cell(f, off + j - 1)
               /\ Cell(f, off + j - 1) \in Nat
    <3>1. off + j - 1 \in Int /\ Readable(g, off + j - 1)
      BY <1>1, <2>1 DEF Readable
    <3>. QED  BY <3>1, CellOfCut
  <2>3. k \in 1 .. k
    BY <2>1
  <2>4. \A j \in 1 .. k : Cell(f, off + j - 1) # 0
    BY <2>1, <2>2
  <2>5. k \in 1 .. n
    BY <1>3, <2>1, <2>2, <2>3, <2>4 DEF ListedTo
  <2>. QED  BY <2>2, <2>3, <2>5
<1>. QED  BY <1>4, <1>5

\* What is given for each number up to n is a sequence.
LEMMA ListsAreSequences ==
  ASSUME NEW n \in Nat, NEW s, s = [k \in 1 .. n |-> s[k]]
  PROVE  s \in Seq(Range(s)) /\ Len(s) = n /\ DOMAIN s = 1 .. n /\ Range(s) = {s[k] : k \in 1 .. n}
<1>1. DOMAIN s = 1 .. n
  OBVIOUS
<1>2. Range(s) = {s[k] : k \in 1 .. n}
  BY <1>1 DEF Range
<1> DEFINE R == Range(s)
<1>3. \A k \in 1 .. n : s[k] \in R
  BY <1>2
<1> HIDE DEF R
<1>4. s \in [1 .. n -> R]
  BY <1>3
<1>5. s \in Seq(R) /\ Len(s) = n
  BY <1>4
<1>. QED  BY <1>1, <1>2, <1>5 DEF R

-----------------------------------------------------------------------------
(***************************************************************************)
(* PE: the imports.                                                        *)
(***************************************************************************)
LEMMA ThunkOfCut ==
  ASSUME NEW g, NEW f, CutOff(g, f), NEW h, NEW k, HeadersBegin(h, k), NEW value \in Nat,
         NEW iat, NEW i, NEW delay, NEW l, NEW m, Shortened(l, m)
  PROVE  Matches(ThunkImport(g, h, value, SlotAddress(h, iat, i), delay, l),
                 ThunkImport(f, k, value, SlotAddress(k, iat, i), delay, m), {"name", "library"})
<1> DEFINE a == SlotAddress(k, iat, i)
           e == ThunkImport(g, h, value, a, delay, l)
           x == ThunkImport(f, k, value, a, delay, m)
           p == RvaToOff(h, value % HalfMod)
           q == RvaToOff(k, value % HalfMod)
           u == IF p = None THEN None ELSE p + 1
           v == IF q = None THEN None ELSE q + 1
<1>1. SlotAddress(h, iat, i) = a
  BY DEF SlotAddress, HeadersBegin
<1>2. CutOff(NameAt(g, u), NameAt(f, v))
  <2>1. p \in {None, q} /\ q \in Nat \cup {None}
    <3>1. value % HalfMod \in Nat
      BY PartsAreNumbers
    <3>. QED  BY <3>1, RvaOfCut
  <2> HIDE DEF p, q
  <2>2. v \in Nat \cup {None} /\ u \in {None, v}
    BY <2>1
  <2> HIDE DEF u, v
  <2>. QED  BY <2>2, NameAtOfCut
<1>3. CASE Has(value, OrdinalFlag)
  <2>1. /\ e = [name |-> <<>>, library |-> l, kind |-> "function", ordinal |-> value % QuarterMod,
                address |-> a]
        /\ x = [name |-> <<>>, library |-> m, kind |-> "function", ordinal |-> value % QuarterMod,
                address |-> a]
    BY <1>3 DEF ThunkImport
  <2>2. /\ e.name = <<>> /\ e.library = l /\ x.library = m
        /\ e.kind = x.kind /\ e.ordinal = x.ordinal /\ e.address = x.address
        /\ DOMAIN e = {"name", "library", "kind", "ordinal", "address"}
    BY <2>1
  <2> HIDE DEF e, x, a
  <2>3. Shortened(e.name, x.name) /\ Shortened(e.library, x.library)
    BY <2>2, ShortenedNames
  <2>4. \A field \in DOMAIN e \ {"name", "library"} : e[field] = x[field]
    BY <2>2
  <2>5. Matches(e, x, {"name", "library"})
    BY <2>3, <2>4 DEF Matches
  <2>. QED  BY <1>1, <2>5 DEF e, x, a
<1>4. CASE ~ Has(value, OrdinalFlag)
  <2> DEFINE kind == IF delay THEN "unknown" ELSE "function"
  <2>1. /\ e = [name |-> NameAt(g, u), library |-> l, kind |-> kind, ordinal |-> None, address |-> a]
        /\ x = [name |-> NameAt(f, v), library |-> m, kind |-> kind, ordinal |-> None, address |-> a]
    BY <1>4, Zenon DEF ThunkImport
  <2> HIDE DEF u, v, kind
  <2>2. /\ e.name = NameAt(g, u) /\ x.name = NameAt(f, v) /\ e.library = l /\ x.library = m
        /\ e.kind = x.kind /\ e.ordinal = x.ordinal /\ e.address = x.address
        /\ DOMAIN e = {"name", "library", "kind", "ordinal", "address"}
    BY <2>1
  <2> HIDE DEF e, x, a
  <2>3. Shortened(e.name, x.name) /\ Shortened(e.library, x.library)
    BY <1>2, <2>2, ShortenedNames
  <2>4. \A field \in DOMAIN e \ {"name", "library"} : e[field] = x[field]
    BY <2>2
  <2>5. Matches(e, x, {"name", "library"})
    BY <2>3, <2>4 DEF Matches
  <2>. QED  BY <1>1, <2>5 DEF e, x, a
<1>. QED  BY <1>3, <1>4

LEMMA WalkIsASequence ==
  ASSUME NEW f \in Seq(Nat), NEW h, NEW toff \in Nat \cup {None}, NEW iat, NEW delay, NEW l
  PROVE  WalkThunks(f, h, toff, iat, delay, l) \in Seq(Range(WalkThunks(f, h, toff, iat, delay, l)))
<1> DEFINE w == WalkThunks(f, h, toff, iat, delay, l)
<1>1. CASE toff = None
  <2>1. w = <<>>
    BY <1>1 DEF WalkThunks
  <2> HIDE DEF w
  <2>2. w \in Seq(Range(w))
    BY <2>1
  <2>. QED  BY <2>2 DEF w
<1>2. CASE toff # None
  <2> DEFINE n == Listed(f, toff, MaxThunks)
  <2>1. n \in Nat
    <3>1. PICK m : ListedTo(f, toff, MaxThunks, m)
      BY <1>2, LimitsAreNumbers, ListedCells
    <3>. QED  BY <3>1, LimitsAreNumbers DEF ListedTo
  <2>2. w = [j \in 1 .. n |->
               ThunkImport(f, h, Cell(f, toff + j - 1), SlotAddress(h, iat, j - 1), delay, l)]
    BY <1>2 DEF WalkThunks
  <2> HIDE DEF w, n
  <2>3. w = [j \in 1 .. n |-> w[j]]
    BY <2>2
  <2>4. w \in Seq(Range(w))
    BY <2>1, <2>3, ListsAreSequences
  <2>. QED  BY <2>4 DEF w
<1>. QED  BY <1>1, <1>2

LEMMA WalkOfCut ==
  ASSUME NEW g, NEW f, CutOff(g, f), NEW h, NEW k, HeadersBegin(h, k), NEW b \in Nat \cup {None},
         NEW a \in {None, b}, NEW iat, NEW delay, NEW l, NEW m, Shortened(l, m)
  PROVE  AllMatch(Range(WalkThunks(g, h, a, iat, delay, l)), Range(WalkThunks(f, k, b, iat, delay, m)),
                  {"name", "library"})
<1> DEFINE s == WalkThunks(g, h, a, iat, delay, l)
           t == WalkThunks(f, k, b, iat, delay, m)
<1>1. CASE a = None
  <2>1. s = <<>>
    BY <1>1 DEF WalkThunks
  <2>. QED  BY <2>1 DEF AllMatch, Range
<1>2. CASE a # None
  <2>1. a = b /\ a \in Nat
    BY <1>2
  <2> DEFINE c == Listed(g, a, MaxThunks)
             n == Listed(f, a, MaxThunks)
             E(j) == ThunkImport(g, h, Cell(g, a + j - 1), SlotAddress(h, iat, j - 1), delay, l)
             X(j) == ThunkImport(f, k, Cell(f, a + j - 1), SlotAddress(k, iat, j - 1), delay, m)
  <2>2. s = [j \in 1 .. c |-> E(j)] /\ t = [j \in 1 .. n |-> X(j)]
    BY <1>2, <2>1 DEF WalkThunks
  <2>3. /\ c \in Nat /\ n \in Nat
        /\ \A j \in 1 .. c : /\ j \in 1 .. n /\ Cell(g, a + j - 1) = Cell(f, a + j - 1)
                             /\ Cell(f, a + j - 1) \in Nat
    <3> DEFINE most == MaxThunks
    <3>1. most \in Nat
      BY LimitsAreNumbers
    <3> HIDE DEF most
    <3>2. /\ Listed(g, a, most) \in Nat /\ Listed(f, a, most) \in Nat
          /\ \A j \in 1 .. Listed(g, a, most) :
               /\ j \in 1 .. Listed(f, a, most) /\ Cell(g, a + j - 1) = Cell(f, a + j - 1)
               /\ Cell(f, a + j - 1) \in Nat
      BY <2>1, <3>1, ListedOfCut
    <3>. QED  BY <3>2 DEF most
  <2> HIDE DEF c, n
  <2>4. ASSUME NEW j \in 1 .. c
        PROVE  Matches(E(j), X(j), {"name", "library"}) /\ j \in 1 .. n
    <3> DEFINE value == Cell(f, a + j - 1)
    <3>1. value \in Nat /\ Cell(g, a + j - 1) = value /\ j \in 1 .. n
      BY <2>3
    <3> HIDE DEF value
    <3>2. Matches(ThunkImport(g, h, value, SlotAddress(h, iat, j - 1), delay, l),
                  ThunkImport(f, k, value, SlotAddress(k, iat, j - 1), delay, m), {"name", "library"})
      BY <3>1, ThunkOfCut
    <3>. QED  BY <3>1, <3>2 DEF value
  <2> HIDE DEF s, t, E, X
  <2>5. Range(s) = {E(j) : j \in 1 .. c} /\ Range(t) = {X(j) : j \in 1 .. n}
    BY <2>2 DEF Range
  <2>6. AllMatch(Range(s), Range(t), {"name", "library"})
    BY <2>4, <2>5 DEF AllMatch
  <2>. QED  BY <2>6 DEF s, t
<1>. QED  BY <1>1, <1>2

\* The imports of one library.
DescriptorIsTyped(d) == d.name \in Nat /\ d.iat \in Nat /\ d.ilt \in Nat

LEMMA DescriptorOfCut ==
  ASSUME NEW g, NEW f, CutOff(g, f), NEW h, NEW k, HeadersBegin(h, k), NEW d, DescriptorIsTyped(d),
         NEW delay
  PROVE  /\ AllMatch(Range(DescriptorImports(g, h, d, delay)), Range(DescriptorImports(f, k, d, delay)),
                     {"name", "library"})
         /\ DescriptorImports(g, h, d, delay) \in Seq(Range(DescriptorImports(g, h, d, delay)))
         /\ DescriptorImports(f, k, d, delay) \in Seq(Range(DescriptorImports(f, k, d, delay)))
<1> DEFINE n == NameAtRva(g, h, d.name)
           m == NameAtRva(f, k, d.name)
           l == IF n = <<>> THEN None ELSE n
           o == IF m = <<>> THEN None ELSE m
           thunk == IF d.ilt # 0 THEN d.ilt ELSE d.iat
           a == IF thunk = 0 THEN None ELSE RvaToOff(h, thunk)
           b == IF thunk = 0 THEN None ELSE RvaToOff(k, thunk)
<1>1. CutOff(n, m)
  BY NameOfRva DEF DescriptorIsTyped
<1>2. Shortened(l, o)
  <2> HIDE DEF n, m
  <2>1. n \in Seq(Nat) /\ m \in Seq(Nat) /\ Len(n) <= Len(m)
    BY <1>1 DEF CutOff
  <2>2. m = <<>> => n = <<>>
    BY <2>1
  <2>3. n # <<>> => Shortened(n, m) /\ l = n /\ o = m
    BY <1>1, <2>2, ShortenedNames
  <2>4. n = <<>> => l = None
    OBVIOUS
  <2>. QED  BY <2>3, <2>4, ShortenedNames
<1>3. b \in Nat \cup {None} /\ a \in {None, b}
  <2>1. thunk \in Nat
    BY DEF DescriptorIsTyped
  <2> HIDE DEF thunk
  <2>2. RvaToOff(h, thunk) \in {None, RvaToOff(k, thunk)} /\ RvaToOff(k, thunk) \in Nat \cup {None}
    BY <2>1, RvaOfCut
  <2>. QED  BY <2>2
<1>4. /\ DescriptorImports(g, h, d, delay) = WalkThunks(g, h, a, d.iat, delay, l)
      /\ DescriptorImports(f, k, d, delay) = WalkThunks(f, k, b, d.iat, delay, o)
  BY Zenon DEF DescriptorImports
<1> HIDE DEF a, b, l, o
<1>5. AllMatch(Range(WalkThunks(g, h, a, d.iat, delay, l)), Range(WalkThunks(f, k, b, d.iat, delay, o)),
               {"name", "library"})
  BY <1>2, <1>3, WalkOfCut
<1>6. a \in Nat \cup {None} /\ g \in Seq(Nat) /\ f \in Seq(Nat)
  BY <1>3 DEF CutOff
<1>7. /\ WalkThunks(g, h, a, d.iat, delay, l) \in Seq(Range(WalkThunks(g, h, a, d.iat, delay, l)))
      /\ WalkThunks(f, k, b, d.iat, delay, o) \in Seq(Range(WalkThunks(f, k, b, d.iat, delay, o)))
  BY <1>3, <1>6, WalkIsASequence
<1>. QED  BY <1>4, <1>5, <1>7

\* The row of a descriptor, and whether the table ends there.
DescriptorRow(f, off, delay, j) ==
  Slice(f, off + (j - 1) * (IF delay THEN 4 ELSE 3), IF delay THEN 4 ELSE 3)
EndsAt(f, off, delay, j) ==
  LET row == DescriptorRow(f, off, delay, j) IN IF row = None THEN TRUE ELSE Range(row) = {0}
ImportsAt(f, h, off, delay, j) ==
  DescriptorImports(f, h, Descriptor(DescriptorRow(f, off, delay, j), delay), delay)
DescribedTo(f, h, off, delay, n) ==
  /\ n \in Nat
  /\ 1 .. n = {j \in 1 .. MaxDescriptors : \A i \in 1 .. j : ~ EndsAt(f, off, delay, i)}
  /\ DescriptorsAt(f, h, off, delay) = FlattenSeq([j \in 1 .. n |-> ImportsAt(f, h, off, delay, j)])

LEMMA DescriptorsAreListed ==
  ASSUME NEW f, NEW h, NEW off, NEW delay
  PROVE  \E n : DescribedTo(f, h, off, delay, n)
<1> DEFINE most == MaxDescriptors
           used == {j \in 1 .. most : \A i \in 1 .. j : ~ EndsAt(f, off, delay, i)}
           n == Cardinality(used)
<1>1. most \in Nat
  BY LimitsAreNumbers
<1> HIDE DEF most
<1>2. used \in SUBSET (1 .. most) /\ \A j \in used : \A i \in 1 .. j : i \in used
  BY <1>1
<1>3. DescriptorsAt(f, h, off, delay) = FlattenSeq([j \in 1 .. n |-> ImportsAt(f, h, off, delay, j)])
  BY DEF DescriptorsAt, DescriptorRow, EndsAt, ImportsAt, most
<1> HIDE DEF used
<1>4. n \in Nat /\ used = 1 .. n
  <2>1. Cardinality(used) \in 0 .. most /\ used = 1 .. Cardinality(used)
    BY <1>1, <1>2, InitialSegment
  <2>. QED  BY <1>1, <2>1
<1> HIDE DEF n
<1>5. DescribedTo(f, h, off, delay, n)
  BY <1>3, <1>4 DEF DescribedTo, used, most
<1>. QED  BY <1>5

LEMMA DescriptorRowsAreTyped ==
  ASSUME NEW f \in Seq(Nat), NEW off \in Nat, NEW delay, NEW j \in Nat \ {0}, ~ EndsAt(f, off, delay, j)
  PROVE  DescriptorIsTyped(Descriptor(DescriptorRow(f, off, delay, j), delay))
<1> DEFINE size == IF delay THEN 4 ELSE 3
           a == off + (j - 1) * size
           r == DescriptorRow(f, off, delay, j)
<1>1. r # None
  BY DEF EndsAt
<1>2. a \in Nat
  <2>1. size \in Nat /\ j - 1 \in Nat
    OBVIOUS
  <2> HIDE DEF size
  <2>2. (j - 1) * size \in Nat
    BY <2>1
  <2>. QED  BY <2>2
<1>3. r = Slice(f, a, size) /\ size \in {3, 4} /\ (delay => size = 4)
  BY DEF DescriptorRow
<1> HIDE DEF a, size, r
<1>4. a + size <= Len(f) /\ r = SubSeq(f, a + 1, a + size)
  BY <1>1, <1>2, <1>3, WordModIsANumber DEF Slice
<1>5. \A i \in 1 .. size : r[i] \in Nat
  <2>1. \A i \in a + 1 .. a + size : f[i] \in Nat
    BY <1>2, <1>3, <1>4
  <2>2. \A i \in 1 .. a + size - (a + 1) + 1 : r[i] = f[a + 1 + i - 1]
    BY <1>2, <1>3, <1>4, <2>1, SubSeqProperties
  <2>3. ASSUME NEW i \in 1 .. size
        PROVE  r[i] \in Nat
    <3>1. i \in 1 .. a + size - (a + 1) + 1 /\ a + 1 + i - 1 \in a + 1 .. a + size
      BY <1>2, <1>3, <2>3
    <3>. QED  BY <2>1, <2>2, <3>1
  <2>. QED  BY <2>3
<1>6. r[1] \in Nat /\ r[2] \in Nat /\ r[3] \in Nat /\ (delay => r[4] \in Nat)
  BY <1>3, <1>5
<1>7. DescriptorIsTyped(Descriptor(r, delay))
  BY <1>6 DEF Descriptor, DescriptorIsTyped
<1>. QED  BY <1>7 DEF r

LEMMA DescriptorRowOfCut ==
  ASSUME NEW g, NEW f, CutOff(g, f), NEW off \in Nat, NEW delay, NEW j \in Nat \ {0},
         ~ EndsAt(g, off, delay, j)
  PROVE  DescriptorRow(g, off, delay, j) = DescriptorRow(f, off, delay, j) /\ ~ EndsAt(f, off, delay, j)
<1> DEFINE size == IF delay THEN 4 ELSE 3
           a == off + (j - 1) * size
<1>1. DescriptorRow(g, off, delay, j) = Slice(g, a, size) /\ DescriptorRow(f, off, delay, j) = Slice(f, a, size)
  BY DEF DescriptorRow
<1>2. a \in Nat /\ size \in Nat
  <2>1. size \in Nat /\ j - 1 \in Nat
    OBVIOUS
  <2> HIDE DEF size
  <2>2. (j - 1) * size \in Nat
    BY <2>1
  <2>. QED  BY <2>1, <2>2
<1>3. Slice(g, a, size) # None
  BY <1>1 DEF EndsAt
<1> HIDE DEF a, size
<1>4. Slice(g, a, size) = Slice(f, a, size)
  BY <1>2, <1>3, SliceOfCut
<1>. QED  BY <1>1, <1>4 DEF EndsAt

LEMMA DescriptorsOfCut ==
  ASSUME NEW g, NEW f, CutOff(g, f), NEW h, NEW k, HeadersBegin(h, k), NEW off \in Nat, NEW delay
  PROVE  /\ AllMatch(Range(DescriptorsAt(g, h, off, delay)), Range(DescriptorsAt(f, k, off, delay)),
                     {"name", "library"})
         /\ DescriptorsAt(g, h, off, delay) \in Seq(Range(DescriptorsAt(g, h, off, delay)))
         /\ DescriptorsAt(f, k, off, delay) \in Seq(Range(DescriptorsAt(f, k, off, delay)))
<1> DEFINE S(j) == ImportsAt(g, h, off, delay, j)
           T(j) == ImportsAt(f, k, off, delay, j)
<1>1. PICK m : DescribedTo(g, h, off, delay, m)
  BY DescriptorsAreListed
<1>2. PICK n : DescribedTo(f, k, off, delay, n)
  BY DescriptorsAreListed
<1>3. /\ m \in Nat /\ \A j \in 1 .. m : j \in 1 .. MaxDescriptors /\ \A i \in 1 .. j : ~ EndsAt(g, off, delay, i)
      /\ n \in Nat /\ \A j \in 1 .. n : \A i \in 1 .. j : ~ EndsAt(f, off, delay, i)
      /\ \A j \in 1 .. MaxDescriptors : (\A i \in 1 .. j : ~ EndsAt(f, off, delay, i)) => j \in 1 .. n
  BY <1>1, <1>2 DEF DescribedTo
<1>4. g \in Seq(Nat) /\ f \in Seq(Nat) /\ CutOff(f, f)
  BY DEF CutOff
<1>5. ASSUME NEW j \in 1 .. m
      PROVE  j \in 1 .. n /\ AllMatch(Range(S(j)), Range(T(j)), {"name", "library"}) /\ S(j) \in Seq(Range(S(j)))
  <2>1. \A i \in 1 .. j : i \in Nat \ {0} /\ ~ EndsAt(g, off, delay, i)
    BY <1>3
  <2>2. \A i \in 1 .. j : ~ EndsAt(f, off, delay, i)
    BY <2>1, DescriptorRowOfCut
  <2>3. j \in 1 .. n /\ j \in 1 .. j /\ j \in Nat \ {0}
    BY <1>3, <2>2
  <2> DEFINE r == DescriptorRow(f, off, delay, j)
             d == Descriptor(r, delay)
  <2>4. DescriptorRow(g, off, delay, j) = r
    BY <2>1, <2>3, DescriptorRowOfCut
  <2>5. DescriptorIsTyped(d)
    BY <1>4, <2>2, <2>3, DescriptorRowsAreTyped
  <2>6. S(j) = DescriptorImports(g, h, d, delay) /\ T(j) = DescriptorImports(f, k, d, delay)
    BY <2>4 DEF ImportsAt
  <2> HIDE DEF S, T, d
  <2>. QED  BY <2>3, <2>5, <2>6, DescriptorOfCut
<1>6. ASSUME NEW j \in 1 .. n
      PROVE  T(j) \in Seq(Range(T(j)))
  <2>1. j \in 1 .. j /\ j \in Nat \ {0}
    OBVIOUS
  <2>2. ~ EndsAt(f, off, delay, j)
    BY <1>3, <2>1
  <2> DEFINE d == Descriptor(DescriptorRow(f, off, delay, j), delay)
  <2>3. DescriptorIsTyped(d)
    BY <1>4, <2>1, <2>2, DescriptorRowsAreTyped
  <2>4. T(j) = DescriptorImports(f, k, d, delay)
    BY DEF ImportsAt
  <2> HIDE DEF T, d
  <2>5. DescriptorImports(f, k, d, delay) \in Seq(Range(DescriptorImports(f, k, d, delay)))
    BY <2>3, DescriptorOfCut
  <2>. QED  BY <2>4, <2>5
<1> DEFINE s == [j \in 1 .. m |-> S(j)]
           t == [j \in 1 .. n |-> T(j)]
<1>7. /\ DOMAIN s = 1 .. m /\ s = [j \in 1 .. m |-> s[j]] /\ \A j \in 1 .. m : s[j] = S(j)
      /\ DOMAIN t = 1 .. n /\ t = [j \in 1 .. n |-> t[j]] /\ \A j \in 1 .. n : t[j] = T(j)
  OBVIOUS
<1>8. DescriptorsAt(g, h, off, delay) = FlattenSeq(s) /\ DescriptorsAt(f, k, off, delay) = FlattenSeq(t)
  BY <1>1, <1>2 DEF DescribedTo
<1> HIDE DEF s, t, S, T
<1>9. /\ FlattenSeq(s) \in Seq(Range(FlattenSeq(s)))
      /\ Range(FlattenSeq(s)) = UNION {Range(s[j]) : j \in 1 .. m}
  <2>1. \A j \in 1 .. m : s[j] \in Seq(Range(s[j]))
    BY <1>5, <1>7
  <2>. QED  BY <1>3, <1>7, <2>1, FlattenedParts
<1>10. /\ FlattenSeq(t) \in Seq(Range(FlattenSeq(t)))
       /\ Range(FlattenSeq(t)) = UNION {Range(t[j]) : j \in 1 .. n}
  <2>1. \A j \in 1 .. n : t[j] \in Seq(Range(t[j]))
    BY <1>6, <1>7
  <2>. QED  BY <1>3, <1>7, <2>1, FlattenedParts
<1>11. AllMatch(Range(FlattenSeq(s)), Range(FlattenSeq(t)), {"name", "library"})
  <2>1. ASSUME NEW e \in Range(FlattenSeq(s))
        PROVE  \E x \in Range(FlattenSeq(t)) : Matches(e, x, {"name", "library"})
    <3>1. PICK j \in 1 .. m : e \in Range(s[j])
      BY <1>9
    <3>2. j \in 1 .. n /\ AllMatch(Range(s[j]), Range(t[j]), {"name", "library"})
      BY <1>5, <1>7
    <3>3. PICK x \in Range(t[j]) : Matches(e, x, {"name", "library"})
      BY <3>1, <3>2 DEF AllMatch
    <3>. QED  BY <1>10, <3>2, <3>3
  <2>. QED  BY <2>1 DEF AllMatch
<1>. QED  BY <1>8, <1>9, <1>10, <1>11

\* All that is imported.
LEMMA ImportDirOfCut ==
  ASSUME NEW g, NEW f, CutOff(g, f), NEW h, NEW k, HeadersBegin(h, k), NEW delay
  PROVE  /\ AllMatch(Range(ParseImportDir(g, h, delay)), Range(ParseImportDir(f, k, delay)),
                     {"name", "library"})
         /\ ParseImportDir(g, h, delay) \in Seq(Range(ParseImportDir(g, h, delay)))
         /\ ParseImportDir(f, k, delay) \in Seq(Range(ParseImportDir(f, k, delay)))
<1> DEFINE index == IF delay THEN Directory.delay ELSE Directory.import
           dg == Dir(h, index)
           df == Dir(k, index)
           a == IF dg.rva = 0 THEN None ELSE RvaToOff(h, dg.rva)
           b == IF df.rva = 0 THEN None ELSE RvaToOff(k, df.rva)
           s == ParseImportDir(g, h, delay)
           t == ParseImportDir(f, k, delay)
<1>1. index \in Nat
  BY DEF Directory
<1>2. /\ s = IF a = None THEN <<>> ELSE DescriptorsAt(g, h, a, delay)
      /\ t = IF b = None THEN <<>> ELSE DescriptorsAt(f, k, b, delay)
  BY Zenon DEF ParseImportDir
<1> HIDE DEF index
<1>3. df.rva \in Nat /\ (dg.rva = 0 \/ dg.rva = df.rva)
  BY <1>1, DirOfCut
<1> HIDE DEF dg, df, s, t
<1>4. b \in Nat \cup {None} /\ a \in {None, b}
  <2>1. CASE df.rva = 0
    BY <1>3, <2>1
  <2>2. CASE df.rva # 0
    <3>1. RvaToOff(h, df.rva) \in {None, RvaToOff(k, df.rva)} /\ RvaToOff(k, df.rva) \in Nat \cup {None}
      BY <1>3, RvaOfCut
    <3>. QED  BY <1>3, <2>2, <3>1
  <2>. QED  BY <2>1, <2>2
<1> HIDE DEF a, b
<1>5. \A e : e = <<>> => Range(e) = {} /\ e \in Seq(Range(e))
  BY DEF Range
<1>6. t \in Seq(Range(t))
  <2>1. CASE b = None
    BY <1>2, <1>5, <2>1
  <2>2. CASE b # None
    <3>1. b \in Nat /\ t = DescriptorsAt(f, k, b, delay)
      BY <1>2, <1>4, <2>2
    <3>. QED  BY <3>1, DescriptorsOfCut
  <2>. QED  BY <2>1, <2>2
<1>7. s \in Seq(Range(s)) /\ AllMatch(Range(s), Range(t), {"name", "library"})
  <2>1. CASE a = None
    BY <1>2, <1>5, <2>1 DEF AllMatch
  <2>2. CASE a # None
    <3>1. a \in Nat /\ b = a /\ s = DescriptorsAt(g, h, a, delay) /\ t = DescriptorsAt(f, k, a, delay)
      BY <1>2, <1>4, <2>2
    <3>. QED  BY <3>1, DescriptorsOfCut
  <2>. QED  BY <2>1, <2>2
<1>. QED  BY <1>6, <1>7 DEF s, t

\* What is put end to end has the elements of both, whatever they are.
LEMMA JoinedRanges ==
  ASSUME NEW s, NEW t, s \in Seq(Range(s)), t \in Seq(Range(t))
  PROVE  s \o t \in Seq(Range(s \o t)) /\ Range(s \o t) = Range(s) \cup Range(t)
<1> DEFINE A == Range(s)
           B == Range(t)
           E == A \cup B
<1>1. s \in Seq(A) /\ t \in Seq(B) /\ A \cup B = E
  OBVIOUS
<1> HIDE DEF A, B
<1>2. s \in Seq(A \cup B) /\ t \in Seq(A \cup B)
  BY <1>1, SeqMonotonic
<1> HIDE DEF E
<1>3. s \in Seq(E) /\ t \in Seq(E)
  BY <1>1, <1>2
<1>4. s \o t \in Seq(E) /\ Range(s \o t) = A \cup B
  BY <1>3, RangeOfConcatenation DEF A, B
<1>. QED  BY <1>1, <1>4 DEF A, B

LEMMA PeImportsOfCut ==
  ASSUME NEW g, NEW f, CutOff(g, f), NEW h, NEW k, HeadersBegin(h, k)
  PROVE  AllMatch(Range(ParseImportDir(g, h, FALSE) \o ParseImportDir(g, h, TRUE)),
                  Range(ParseImportDir(f, k, FALSE) \o ParseImportDir(f, k, TRUE)), {"name", "library"})
<1> DEFINE a == ParseImportDir(g, h, FALSE)
           b == ParseImportDir(g, h, TRUE)
           c == ParseImportDir(f, k, FALSE)
           d == ParseImportDir(f, k, TRUE)
<1>1. /\ AllMatch(Range(a), Range(c), {"name", "library"}) /\ AllMatch(Range(b), Range(d), {"name", "library"})
      /\ a \in Seq(Range(a)) /\ b \in Seq(Range(b)) /\ c \in Seq(Range(c)) /\ d \in Seq(Range(d))
  BY ImportDirOfCut
<1> HIDE DEF a, b, c, d
<1>3. Range(a \o b) = Range(a) \cup Range(b) /\ Range(c \o d) = Range(c) \cup Range(d)
  BY <1>1, JoinedRanges
<1>4. AllMatch(Range(a \o b), Range(c \o d), {"name", "library"})
  BY <1>1, <1>3 DEF AllMatch
<1>. QED  BY <1>4 DEF a, b, c, d

-----------------------------------------------------------------------------
(***************************************************************************)
(* PE: the exports.                                                        *)
(***************************************************************************)
\* The slots that hold an address.
SlotsUsed(f, eat, n) == {s \in 0 .. n - 1 : Readable(f, eat + s) /\ Cell(f, eat + s) # 0}

ListsExports(list, f, h, d, x, pairs, eat) ==
  Range(list) = {ExportAt(f, h, d, x, pairs, s, Cell(f, eat + s)) : s \in SlotsUsed(f, eat, x.nfunctions)}

LEMMA ExportsAreListed ==
  ASSUME NEW f \in Seq(Nat), NEW h, NEW d, NEW x, x.nfunctions \in Nat, NEW pairs, NEW eat \in Nat
  PROVE  ListsExports(ExportsAt(f, h, d, x, pairs, eat), f, h, d, x, pairs, eat)
<1> DEFINE n == x.nfunctions
           there == {j \in 1 .. n : Readable(f, eat + j - 1)}
           c == Cardinality(there)
           all == [j \in 1 .. c |-> j - 1]
           used == {j \in Nat : Cell(f, eat + j) # 0}
           slots == AllIn(all, used)
           list == ExportsAt(f, h, d, x, pairs, eat)
           At(s) == ExportAt(f, h, d, x, pairs, s, Cell(f, eat + s))
<1>1. n \in Nat /\ Len(f) \in Nat
  OBVIOUS
<1>2. list = [j \in DOMAIN slots |-> At(slots[j])]
  BY DEF ExportsAt
<1> HIDE DEF n, At, list
<1>3. there \in SUBSET (1 .. n) /\ \A j \in there : \A i \in 1 .. j : i \in there
  BY <1>1 DEF Readable
<1> HIDE DEF there
<1>4. c \in 0 .. n /\ there = 1 .. c
  BY <1>1, <1>3, InitialSegment
<1>5. c \in Nat /\ \A s \in 0 .. n - 1 : Readable(f, eat + s) <=> s + 1 \in 1 .. c
  <2>1. \A j \in 1 .. n : j \in there <=> Readable(f, eat + j - 1)
    BY DEF there
  <2>2. ASSUME NEW s \in 0 .. n - 1
        PROVE  Readable(f, eat + s) <=> s + 1 \in 1 .. c
    <3>1. s + 1 \in 1 .. n /\ eat + (s + 1) - 1 = eat + s
      BY <1>1
    <3>. QED  BY <1>4, <2>1, <3>1
  <2>. QED  BY <1>1, <1>4, <2>2
<1> HIDE DEF c
<1>6. all \in Seq(Nat) /\ Range(all) = {j - 1 : j \in 1 .. c}
  <2>1. all \in [1 .. c -> Nat]
    OBVIOUS
  <2>2. all \in Seq(Nat)
    BY <1>5, <2>1
  <2>. QED  BY <2>2 DEF Range
<1> HIDE DEF all, used
<1>7. slots \in Seq(Nat) /\ Range(slots) = Range(all) \cap used
  BY <1>6, AllInElements
<1> HIDE DEF slots
<1>8. Range(slots) = SlotsUsed(f, eat, n)
  <2>1. ASSUME NEW s \in Range(all), s \in used
        PROVE  s \in SlotsUsed(f, eat, n)
    <3>1. PICK j \in 1 .. c : s = j - 1
      BY <1>6
    <3>2. s \in 0 .. n - 1 /\ s + 1 \in 1 .. c
      BY <1>1, <1>4, <1>5, <3>1
    <3>. QED  BY <1>5, <2>1, <3>2 DEF SlotsUsed, used
  <2>2. ASSUME NEW s \in SlotsUsed(f, eat, n)
        PROVE  s \in Range(all) /\ s \in used
    <3>1. s \in 0 .. n - 1 /\ Readable(f, eat + s) /\ Cell(f, eat + s) # 0
      BY DEF SlotsUsed
    <3>2. s + 1 \in 1 .. c /\ s = (s + 1) - 1 /\ s \in Nat
      BY <1>1, <1>5, <3>1
    <3>. QED  BY <1>6, <3>1, <3>2 DEF used
  <2>. QED  BY <1>7, <2>1, <2>2
<1>9. Range(list) = {At(s) : s \in Range(slots)}
  BY <1>2 DEF Range
<1>. QED  BY <1>8, <1>9 DEF list, At, n, ListsExports

LEMMA ExportOfCut ==
  ASSUME NEW g, NEW f, CutOff(g, f), NEW h, NEW k, HeadersBegin(h, k), NEW c, NEW d,
         c.rva = d.rva, c.size = d.size, NEW x, NEW some, NEW others, NEW slot, NEW rva \in Nat
  PROVE  Matches([ExportAt(g, h, c, x, some, slot, rva) EXCEPT
                    !.name = ExportAt(f, k, d, x, others, slot, rva).name],
                 ExportAt(f, k, d, x, others, slot, rva), {"forwarder"})
<1> DEFINE s == ExportAt(g, h, c, x, some, slot, rva)
           t == ExportAt(f, k, d, x, others, slot, rva)
           e == [s EXCEPT !.name = t.name]
           ordinal == (x.base + slot) % WordMod
<1>1. Forwards(c, rva) = Forwards(d, rva)
  BY DEF Forwards
<1>2. Address(h, rva) = Address(k, rva)
  BY DEF Address, HeadersBegin
<1> DEFINE to == Forwards(d, rva)
           address == IF to THEN 0 ELSE Address(k, rva)
           a == NameAtRva(g, h, rva)
           b == NameAtRva(f, k, rva)
<1>3. /\ s = [name |-> NameOfSlot(some, slot), ordinal |-> ordinal, address |-> address,
              forwarder |-> IF to THEN a ELSE None]
      /\ t = [name |-> NameOfSlot(others, slot), ordinal |-> ordinal, address |-> address,
              forwarder |-> IF to THEN b ELSE None]
  <2>1. t = [name |-> NameOfSlot(others, slot), ordinal |-> ordinal, address |-> address,
             forwarder |-> IF to THEN b ELSE None]
    BY DEF ExportAt
  <2>2. s = [name |-> NameOfSlot(some, slot), ordinal |-> ordinal,
             address |-> IF Forwards(c, rva) THEN 0 ELSE Address(h, rva),
             forwarder |-> IF Forwards(c, rva) THEN a ELSE None]
    BY DEF ExportAt
  <2>. QED  BY <1>1, <1>2, <2>1, <2>2
<1>4. CutOff(a, b)
  BY NameOfRva
<1> HIDE DEF to, address, a, b, ordinal
<1>5. /\ e.name = t.name /\ e.ordinal = t.ordinal /\ e.address = t.address
      /\ e.forwarder = (IF to THEN a ELSE None) /\ t.forwarder = (IF to THEN b ELSE None)
      /\ DOMAIN e = {"name", "ordinal", "address", "forwarder"}
  BY <1>3
<1> HIDE DEF e, s, t
<1>6. Shortened(e.forwarder, t.forwarder)
  BY <1>4, <1>5, ShortenedNames
<1>7. \A field \in DOMAIN e \ {"forwarder"} : e[field] = t[field]
  BY <1>5
<1>8. Matches(e, t, {"forwarder"})
  BY <1>6, <1>7 DEF Matches
<1>. QED  BY <1>8 DEF e, s, t

\* Every export of the rest is one of the file's, whatever its name.
ExportsMatch(small, large) ==
  \A e \in small : \E x \in large : Matches([e EXCEPT !.name = x.name], x, {"forwarder"})

LEMMA ExportsAtOfCut ==
  ASSUME NEW g, NEW f, CutOff(g, f), NEW h, NEW k, HeadersBegin(h, k), NEW c, NEW d,
         c.rva = d.rva, c.size = d.size, NEW x, x.nfunctions \in Nat, NEW some, NEW others, NEW eat \in Nat
  PROVE  ExportsMatch(Range(ExportsAt(g, h, c, x, some, eat)), Range(ExportsAt(f, k, d, x, others, eat)))
<1> DEFINE n == x.nfunctions
           S(s) == ExportAt(g, h, c, x, some, s, Cell(g, eat + s))
           T(s) == ExportAt(f, k, d, x, others, s, Cell(f, eat + s))
           small == Range(ExportsAt(g, h, c, x, some, eat))
           large == Range(ExportsAt(f, k, d, x, others, eat))
<1>1. g \in Seq(Nat) /\ f \in Seq(Nat)
  BY DEF CutOff
<1>2. small = {S(s) : s \in SlotsUsed(g, eat, n)} /\ large = {T(s) : s \in SlotsUsed(f, eat, n)}
  <2>1. /\ ListsExports(ExportsAt(g, h, c, x, some, eat), g, h, c, x, some, eat)
        /\ ListsExports(ExportsAt(f, k, d, x, others, eat), f, k, d, x, others, eat)
    BY <1>1, ExportsAreListed
  <2>. QED  BY <2>1 DEF ListsExports
<1>3. ASSUME NEW s \in SlotsUsed(g, eat, n)
      PROVE  s \in SlotsUsed(f, eat, n) /\ Matches([S(s) EXCEPT !.name = T(s).name], T(s), {"forwarder"})
  <2>1. s \in 0 .. n - 1 /\ Readable(g, eat + s) /\ Cell(g, eat + s) # 0 /\ eat + s \in Int
    BY DEF SlotsUsed
  <2>2. Readable(f, eat + s) /\ Cell(g, eat + s) = Cell(f, eat + s) /\ Cell(f, eat + s) \in Nat
    BY <2>1, CellOfCut
  <2>3. s \in SlotsUsed(f, eat, n)
    BY <2>1, <2>2 DEF SlotsUsed
  <2> DEFINE rva == Cell(f, eat + s)
  <2>4. S(s) = ExportAt(g, h, c, x, some, s, rva) /\ T(s) = ExportAt(f, k, d, x, others, s, rva) /\ rva \in Nat
    BY <2>2
  <2> HIDE DEF rva, S, T
  <2>5. Matches([S(s) EXCEPT !.name = T(s).name], T(s), {"forwarder"})
    BY <2>4, ExportOfCut
  <2>. QED  BY <2>3, <2>5
<1> HIDE DEF S, T, small, large
<1>4. ExportsMatch(small, large)
  BY <1>2, <1>3 DEF ExportsMatch
<1>. QED  BY <1>4 DEF small, large

LEMMA ExportDirectoryIsTyped ==
  ASSUME NEW f \in Seq(Nat), NEW off \in Nat, Slice(f, off, ExportSize) # None
  PROVE  LET x == ExportDirectory(Slice(f, off, ExportSize))
         IN x.nfunctions \in Nat /\ x.functions \in Nat
<1> DEFINE r == Slice(f, off, 6)
<1>1. ExportSize = 6
  BY DEF ExportSize
<1>2. r # None /\ off + 6 <= Len(f) /\ r = SubSeq(f, off + 1, off + 6)
  BY <1>1, WordModIsANumber DEF Slice
<1>3. \A i \in off + 1 .. off + 6 : f[i] \in Nat
  BY <1>2
<1> HIDE DEF r
<1>4. \A i \in 1 .. 6 : r[i] = f[off + i]
  <2> DEFINE a == off + 1
             b == off + 6
  <2>1. a \in Nat \ {0} /\ b \in Nat /\ r = SubSeq(f, a, b) /\ \A i \in a .. b : f[i] \in Nat
    BY <1>2, <1>3
  <2>2. b - a + 1 = 6 /\ \A i \in 1 .. 6 : a + i - 1 = off + i
    OBVIOUS
  <2> HIDE DEF a, b
  <2>3. \A i \in 1 .. b - a + 1 : r[i] = f[a + i - 1]
    BY <2>1, SubSeqProperties
  <2>. QED  BY <2>2, <2>3
<1>5. r[2] \in Nat /\ r[4] \in Nat
  <2>1. 2 \in 1 .. 6 /\ off + 2 \in off + 1 .. off + 6 /\ 4 \in 1 .. 6 /\ off + 4 \in off + 1 .. off + 6
    OBVIOUS
  <2>. QED  BY <1>3, <1>4, <2>1
<1>. QED  BY <1>1, <1>5 DEF ExportDirectory, r

LEMMA ExportsOfOfCut ==
  ASSUME NEW g, NEW f, CutOff(g, f), NEW h, NEW k, HeadersBegin(h, k), NEW c, NEW d,
         c.rva = d.rva, c.size = d.size, NEW x, x.nfunctions \in Nat, x.functions \in Nat
  PROVE  ExportsMatch(Range(ExportsOf(g, h, c, x)), Range(ExportsOf(f, k, d, x)))
<1> DEFINE s == ExportsOf(g, h, c, x)
           t == ExportsOf(f, k, d, x)
           a == RvaToOff(h, x.functions)
           b == RvaToOff(k, x.functions)
           many == x.nfunctions > MaxExports \/ x.nnames > MaxExports
<1>1. a \in {None, b} /\ b \in Nat \cup {None}
  BY RvaOfCut
<1>2. CASE many \/ a = None
  <2>1. s = <<>>
    BY <1>2 DEF ExportsOf
  <2>2. Range(s) = {}
    BY <2>1 DEF Range
  <2>. QED  BY <2>2 DEF ExportsMatch
<1>3. CASE ~ (many \/ a = None)
  <2>1. a = b /\ a \in Nat
    BY <1>1, <1>3
  <2>2. s = ExportsAt(g, h, c, x, NamePairs(g, h, x), a) /\ t = ExportsAt(f, k, d, x, NamePairs(f, k, x), a)
    BY <1>3, <2>1 DEF ExportsOf
  <2> HIDE DEF s, t, a, b
  <2>3. ExportsMatch(Range(s), Range(t))
    BY <2>1, <2>2, ExportsAtOfCut
  <2>. QED  BY <2>3 DEF s, t
<1>. QED  BY <1>2, <1>3

LEMMA PeExportsOfCut ==
  ASSUME NEW g, NEW f, CutOff(g, f), NEW h, NEW k, HeadersBegin(h, k)
  PROVE  ExportsMatch(Range(ParseExports(g, h)), Range(ParseExports(f, k)))
<1> DEFINE c == Dir(h, Directory.export)
           d == Dir(k, Directory.export)
           a == IF c.rva = 0 \/ c.size = 0 THEN None ELSE RvaToOff(h, c.rva)
           b == IF d.rva = 0 \/ d.size = 0 THEN None ELSE RvaToOff(k, d.rva)
           r == IF a = None THEN None ELSE Slice(g, a, ExportSize)
           q == IF b = None THEN None ELSE Slice(f, b, ExportSize)
           s == ParseExports(g, h)
           t == ParseExports(f, k)
<1>1. /\ s = IF r = None THEN <<>> ELSE ExportsOf(g, h, c, ExportDirectory(r))
      /\ t = IF q = None THEN <<>> ELSE ExportsOf(f, k, d, ExportDirectory(q))
  BY Zenon DEF ParseExports
<1>2. /\ d.rva \in Nat /\ d.size \in Nat
      /\ \/ c.rva = 0 /\ c.size = 0
         \/ c.rva = d.rva /\ c.size \in {0, d.size}
  <2>1. Directory.export \in Nat
    BY DEF Directory
  <2>. QED  BY <2>1, DirOfCut
<1> HIDE DEF c, d, s, t
<1>3. CASE r = None
  <2>1. s = <<>>
    BY <1>1, <1>3
  <2>2. Range(s) = {}
    BY <2>1 DEF Range
  <2>. QED  BY <2>2 DEF ExportsMatch, s
<1>4. CASE r # None
  <2>1. a # None
    BY <1>4
  <2>2. c.rva # 0 /\ c.size # 0
    BY <2>1
  <2>3. c.rva = d.rva /\ c.size = d.size
    BY <1>2, <2>2
  <2>4. a = RvaToOff(h, d.rva) /\ b = RvaToOff(k, d.rva)
    BY <2>2, <2>3
  <2>5. a = b /\ a \in Nat
    <3>1. RvaToOff(h, d.rva) \in {None, RvaToOff(k, d.rva)} /\ RvaToOff(k, d.rva) \in Nat \cup {None}
      BY <1>2, RvaOfCut
    <3>. QED  BY <2>1, <2>4, <3>1
  <2>6. r = Slice(g, a, ExportSize) /\ q = Slice(f, a, ExportSize)
    BY <2>1, <2>5
  <2> HIDE DEF a, b, r, q
  <2>7. r = q
    <3>1. ExportSize \in Nat
      BY DEF ExportSize
    <3>. QED  BY <1>4, <2>5, <2>6, <3>1, SliceOfCut
  <2> DEFINE x == ExportDirectory(r)
  <2>8. x.nfunctions \in Nat /\ x.functions \in Nat
    <3>1. g \in Seq(Nat)
      BY DEF CutOff
    <3>. QED  BY <1>4, <2>5, <2>6, <3>1, ExportDirectoryIsTyped
  <2>9. s = ExportsOf(g, h, c, x) /\ t = ExportsOf(f, k, d, x)
    BY <1>1, <1>4, <2>7
  <2> HIDE DEF x
  <2>10. ExportsMatch(Range(s), Range(t))
    BY <2>3, <2>8, <2>9, ExportsOfOfCut
  <2>. QED  BY <2>10 DEF s, t
<1>. QED  BY <1>3, <1>4

-----------------------------------------------------------------------------
(***************************************************************************)
(* PE: the base relocations.                                               *)
(***************************************************************************)
\* The entries of a block.
EntriesOf(f, at, size) ==
  {f[i] : i \in {j \in 1 .. Len(f) : at + BlockHeader + 1 <= j /\ j <= at + size /\ f[j] \div OffsetMod # 0}}
ListsBlock(block, f, h, at, size) ==
  /\ block \in Seq(Range(block))
  /\ Range(block) = {RelocAt(h, Cell(f, at), e) : e \in EntriesOf(f, at, size)}

LEMMA BlockEntries ==
  ASSUME NEW f \in Seq(Nat), NEW h, NEW at \in Nat, NEW size \in Nat
  PROVE  ListsBlock(Block(f, h, at, size), f, h, at, size)
<1> DEFINE a == at + BlockHeader + 1
           b == IF at + size < Len(f) THEN at + size ELSE Len(f)
           cells == SubSeq(f, a, b)
           used == {e \in Range(cells) : e \div OffsetMod # 0}
           entries == AllIn(cells, used)
           block == Block(f, h, at, size)
           page == Cell(f, at)
<1>1. block = [j \in DOMAIN entries |-> RelocAt(h, page, entries[j])]
  BY DEF Block
<1>2. a \in Nat \ {0} /\ b \in Nat /\ b <= Len(f) /\ \A j \in 1 .. Len(f) : j <= b <=> j <= at + size
  BY DEF BlockHeader
<1>3. EntriesOf(f, at, size) = {f[i] : i \in {j \in 1 .. Len(f) : a <= j /\ j <= b /\ f[j] \div OffsetMod # 0}}
  BY <1>2 DEF EntriesOf
<1> HIDE DEF a, b, block, page
<1>4. cells \in Seq(Nat) /\ Range(cells) = {f[i] : i \in a .. b}
  <2> DEFINE n == IF a <= b THEN b - a + 1 ELSE 0
  <2>1. \A i \in a .. b : f[i] \in Nat
    BY <1>2
  <2>2. cells \in Seq(Nat) /\ Len(cells) = n /\ \A i \in 1 .. b - a + 1 : cells[i] = f[a + i - 1]
    BY <1>2, <2>1, SubSeqProperties
  <2>3. \A i \in 1 .. n : i \in 1 .. b - a + 1 /\ a + i - 1 \in a .. b
    BY <1>2
  <2>4. \A i \in a .. b : i - a + 1 \in 1 .. n /\ i - a + 1 \in 1 .. b - a + 1 /\ a + (i - a + 1) - 1 = i
    BY <1>2
  <2> HIDE DEF cells, n
  <2>5. Range(cells) = {cells[i] : i \in 1 .. n}
    <3>1. DOMAIN cells = 1 .. n
      BY <2>2
    <3>. QED  BY <3>1 DEF Range
  <2>6. \A i \in 1 .. n : cells[i] \in {f[j] : j \in a .. b}
    BY <2>2, <2>3
  <2>7. \A i \in a .. b : f[i] \in {cells[j] : j \in 1 .. n}
    BY <2>2, <2>4
  <2>. QED  BY <2>2, <2>5, <2>6, <2>7
<1> HIDE DEF cells, used
<1>5. entries \in Seq(Nat) /\ Range(entries) = Range(cells) \cap used
  BY <1>4, AllInElements
<1>6. Range(entries) = EntriesOf(f, at, size)
  <2>1. \A i \in a .. b : i \in 1 .. Len(f) /\ a <= i /\ i <= b
    BY <1>2
  <2>2. \A i \in 1 .. Len(f) : a <= i /\ i <= b => i \in a .. b
    BY <1>2
  <2>. QED  BY <1>3, <1>4, <1>5, <2>1, <2>2 DEF used
<1> HIDE DEF entries
<1>7. Range(block) = {RelocAt(h, page, e) : e \in Range(entries)}
  BY <1>1 DEF Range
<1>8. block \in Seq(Range(block))
  <2> DEFINE n == Len(entries)
  <2>1. n \in Nat /\ DOMAIN entries = 1 .. n
    BY <1>5
  <2> HIDE DEF n
  <2>2. block = [j \in 1 .. n |-> block[j]]
    BY <1>1, <2>1
  <2>. QED  BY <2>1, <2>2, ListsAreSequences
<1>. QED  BY <1>6, <1>7, <1>8 DEF block, page, ListsBlock

LEMMA BlockOfCut ==
  ASSUME NEW g, NEW f, CutOff(g, f), NEW h, NEW k, HeadersBegin(h, k), NEW at \in Nat, Readable(g, at),
         NEW size \in Nat
  PROVE  AllMatch(Range(Block(g, h, at, size)), Range(Block(f, k, at, size)), {"symbol"})
<1>1. g \in Seq(Nat) /\ f \in Seq(Nat) /\ Len(g) <= Len(f) /\ \A j \in 1 .. Len(g) : g[j] = f[j]
  BY DEF CutOff
<1> DEFINE page == Cell(f, at)
<1>2. Cell(g, at) = page
  BY CellOfCut
<1>3. EntriesOf(g, at, size) \subseteq EntriesOf(f, at, size)
  <2>1. \A j \in 1 .. Len(g) : j \in 1 .. Len(f) /\ g[j] = f[j]
    BY <1>1
  <2>. QED  BY <2>1 DEF EntriesOf
<1>4. /\ Range(Block(g, h, at, size)) = {RelocAt(h, page, e) : e \in EntriesOf(g, at, size)}
      /\ Range(Block(f, k, at, size)) = {RelocAt(k, page, e) : e \in EntriesOf(f, at, size)}
  <2>1. ListsBlock(Block(g, h, at, size), g, h, at, size) /\ ListsBlock(Block(f, k, at, size), f, k, at, size)
    BY <1>1, BlockEntries
  <2>. QED  BY <1>2, <2>1 DEF ListsBlock
<1> HIDE DEF page
<1>5. ASSUME NEW e
      PROVE  Matches(RelocAt(h, page, e), RelocAt(k, page, e), {"symbol"})
  <2> DEFINE s == RelocAt(h, page, e)
             t == RelocAt(k, page, e)
  <2>1. s = t
    BY DEF RelocAt, Address, HeadersBegin
  <2>2. t.symbol = None
    BY DEF RelocAt
  <2> HIDE DEF s, t
  <2>3. Shortened(s.symbol, t.symbol)
    BY <2>1, <2>2, ShortenedNames
  <2>4. Matches(s, t, {"symbol"})
    BY <2>1, <2>3 DEF Matches
  <2>. QED  BY <2>4 DEF s, t
<1>. QED  BY <1>3, <1>4, <1>5 DEF AllMatch

\* A block of the walk, and the walk from each position on.
BlockSize(f, base, pos) == Cell(f, base + pos + 1)
BlockFits(f, base, total, pos) ==
  /\ pos + BlockHeader <= total /\ Readable(f, base + pos + 1)
  /\ BlockSize(f, base, pos) >= BlockHeader /\ pos + BlockSize(f, base, pos) <= total
BlockAt(f, h, base, pos) == Block(f, h, base + pos, BlockSize(f, base, pos))
\* What the walk w lists from pos on, from what it lists from the next block on.
WalksFrom(w, f, h, base, total, pos) ==
  IF BlockFits(f, base, total, pos)
  THEN BlockAt(f, h, base, pos) \o w[pos + BlockSize(f, base, pos)] ELSE <<>>
IsWalk(w, f, h, base, total) == w = [pos \in Nat |-> WalksFrom(w, f, h, base, total, pos)]

LEMMA BlocksAreWalked ==
  ASSUME NEW f, NEW h, NEW base, NEW total,
         \E w : IsWalk(w, f, h, base, total)
  PROVE  \E w : IsWalk(w, f, h, base, total) /\ RelocBlocks(f, h, base, total) = w[0]
<1> DEFINE walk == CHOOSE w : w = [pos \in Nat |->
             IF BlockFits(f, base, total, pos)
             THEN Block(f, h, base + pos, BlockSize(f, base, pos)) \o w[pos + BlockSize(f, base, pos)]
             ELSE <<>>]
<1>1. RelocBlocks(f, h, base, total) = walk[0]
  BY DEF RelocBlocks, BlockFits, BlockSize
<1>2. \E w : w = [pos \in Nat |->
             IF BlockFits(f, base, total, pos)
             THEN Block(f, h, base + pos, BlockSize(f, base, pos)) \o w[pos + BlockSize(f, base, pos)]
             ELSE <<>>]
  BY DEF IsWalk, WalksFrom, BlockAt
<1>3. walk = [pos \in Nat |->
             IF BlockFits(f, base, total, pos)
             THEN Block(f, h, base + pos, BlockSize(f, base, pos)) \o walk[pos + BlockSize(f, base, pos)]
             ELSE <<>>]
  BY <1>2, Zenon
<1> HIDE DEF walk
<1>4. IsWalk(walk, f, h, base, total)
  BY <1>3 DEF IsWalk, WalksFrom, BlockAt
<1>. QED  BY <1>1, <1>4

\* A block is in the file and in the directory, and the next one is after it.
LEMMA BlockIsThere ==
  ASSUME NEW f \in Seq(Nat), NEW base \in Nat, NEW total \in Nat, NEW p \in Nat, BlockFits(f, base, total, p)
  PROVE  /\ BlockSize(f, base, p) \in Nat /\ base + p \in Nat /\ Readable(f, base + p)
         /\ p + BlockSize(f, base, p) \in Nat /\ p + BlockSize(f, base, p) >= p + 2 /\ p < total
<1> DEFINE size == BlockSize(f, base, p)
<1>1. size \in Nat
  BY DEF BlockFits, BlockSize, Readable, Cell
<1>2. size >= 2 /\ p + 2 <= total
  BY DEF BlockFits, BlockHeader
<1>3. base + p \in Nat /\ Readable(f, base + p)
  BY DEF BlockFits, Readable
<1> HIDE DEF size
<1>4. p + size \in Nat /\ p + size >= p + 2 /\ p < total
  BY <1>1, <1>2
<1>. QED  BY <1>1, <1>3, <1>4 DEF size

\* The walk ends: the blocks from the last positions on are walked first.
LEMMA WalkExists ==
  ASSUME NEW f \in Seq(Nat), NEW h, NEW base \in Nat, NEW total \in Nat
  PROVE  \E w : IsWalk(w, f, h, base, total)
<1> DEFINE P(n) == {p \in Nat : p + n >= total}
           F(w, p) == WalksFrom(w, f, h, base, total, p)
           S == {n \in Nat : \E w : w = [p \in P(n) |-> F(w, p)]}
<1>1. \A p \in Nat : BlockFits(f, base, total, p) =>
        p + BlockSize(f, base, p) \in Nat /\ p + BlockSize(f, base, p) >= p + 2 /\ p < total
  BY BlockIsThere
<1>2. 0 \in S
  <2> DEFINE w == [p \in P(0) |-> <<>>]
  <2>1. ASSUME NEW p \in P(0)
        PROVE  F(w, p) = <<>>
    <3>1. p \in Nat /\ p >= total
      OBVIOUS
    <3>2. ~ BlockFits(f, base, total, p)
      BY <1>1, <3>1
    <3>. QED  BY <3>2 DEF WalksFrom
  <2> HIDE DEF F, P
  <2>2. w = [p \in P(0) |-> F(w, p)]
    BY <2>1
  <2>. QED  BY <2>2
<1>3. ASSUME NEW n \in Nat, n \in S
      PROVE  n + 1 \in S
  <2>1. PICK w : w = [p \in P(n) |-> F(w, p)]
    BY <1>3
  <2> DEFINE v == [p \in P(n + 1) |-> F(w, p)]
  <2>2. \A p \in P(n) : p \in P(n + 1)
    OBVIOUS
  <2>3. ASSUME NEW p \in P(n + 1)
        PROVE  F(v, p) = F(w, p)
    <3>1. CASE BlockFits(f, base, total, p)
      <4> DEFINE q == p + BlockSize(f, base, p)
      <4>1. q \in P(n)
        <5>1. p \in Nat /\ p + (n + 1) >= total
          OBVIOUS
        <5>2. q \in Nat /\ q >= p + 2
          BY <1>1, <3>1, <5>1
        <5> HIDE DEF q
        <5>. QED  BY <5>1, <5>2
      <4>2. v[q] = w[q]
        <5> HIDE DEF q, F, P
        <5>1. v[q] = F(w, q)
          BY <2>2, <4>1
        <5>2. w[q] = F(w, q)
          BY <2>1, <4>1
        <5>. QED  BY <5>1, <5>2
      <4> HIDE DEF v, P
      <4>. QED  BY <4>2 DEF WalksFrom
    <3>2. CASE ~ BlockFits(f, base, total, p)
      BY <3>2 DEF WalksFrom
    <3>. QED  BY <3>1, <3>2
  <2> HIDE DEF F, P
  <2>4. v = [p \in P(n + 1) |-> F(v, p)]
    BY <2>3
  <2>5. n + 1 \in Nat
    OBVIOUS
  <2>. QED  BY <2>4, <2>5
<1>4. total \in S
  <2> HIDE DEF S
  <2>1. \A n \in 1 .. total : n - 1 \in S => n \in S
    <3>1. ASSUME NEW n \in 1 .. total, n - 1 \in S
          PROVE  n \in S
      <4>1. n - 1 \in Nat /\ (n - 1) + 1 = n
        OBVIOUS
      <4>. QED  BY <1>3, <3>1, <4>1
    <3>. QED  BY <3>1
  <2>2. total \in 0 .. total
    OBVIOUS
  <2>. QED  BY <1>2, <2>1, <2>2, OneByOne
<1>5. PICK w : w = [p \in P(total) |-> F(w, p)]
  BY <1>4
<1>6. P(total) = Nat
  OBVIOUS
<1> HIDE DEF P
<1>7. w = [pos \in Nat |-> WalksFrom(w, f, h, base, total, pos)]
  BY <1>5, <1>6
<1>. QED  BY <1>7 DEF IsWalk

\* What the walk of the rest lists from a position on, the walk of the file does too.
LEMMA WalksAlike ==
  ASSUME NEW g, NEW f, CutOff(g, f), NEW h, NEW k, HeadersBegin(h, k), NEW base \in Nat, NEW total \in Nat,
         NEW v, IsWalk(v, g, h, base, total), NEW w, IsWalk(w, f, k, base, total)
  PROVE  AllMatch(Range(v[0]), Range(w[0]), {"symbol"})
<1> DEFINE Good(p) == /\ v[p] \in Seq(Range(v[p])) /\ w[p] \in Seq(Range(w[p]))
                      /\ AllMatch(Range(v[p]), Range(w[p]), {"symbol"})
           S == {n \in Nat : \A p \in Nat : p + n >= total => Good(p)}
<1>1. g \in Seq(Nat) /\ f \in Seq(Nat) /\ Len(g) \in Nat
  BY DEF CutOff
<1>2. \A p \in Nat : /\ v[p] = WalksFrom(v, g, h, base, total, p)
                     /\ w[p] = WalksFrom(w, f, k, base, total, p)
  BY DEF IsWalk
<1>3. <<>> \in Seq(Range(<<>>)) /\ Range(<<>>) = {}
  BY DEF Range
<1>4. ASSUME NEW p \in Nat, BlockFits(g, base, total, p)
      PROVE  BlockFits(f, base, total, p) /\ BlockSize(g, base, p) = BlockSize(f, base, p)
  <2>1. Readable(g, base + p + 1) /\ base + p + 1 \in Int
    BY <1>4 DEF BlockFits
  <2>2. Readable(f, base + p + 1) /\ Cell(g, base + p + 1) = Cell(f, base + p + 1)
    BY <2>1, CellOfCut
  <2>. QED  BY <1>4, <2>2 DEF BlockFits, BlockSize
<1>5. ASSUME NEW p \in Nat, ~ BlockFits(f, base, total, p)
      PROVE  Good(p)
  <2>1. v[p] = <<>> /\ w[p] = <<>>
    BY <1>2, <1>4, <1>5 DEF WalksFrom
  <2>. QED  BY <1>3, <2>1 DEF AllMatch
<1>6. ASSUME NEW p \in Nat, BlockFits(f, base, total, p), Good(p + BlockSize(f, base, p))
      PROVE  Good(p)
  <2> DEFINE size == BlockSize(f, base, p)
             q == p + size
             at == base + p
             y == Block(f, k, at, size)
             z == Block(g, h, at, size)
  <2>1. size \in Nat /\ at \in Nat
    BY <1>1, <1>6, BlockIsThere
  <2>2. w[p] = y \o w[q]
    BY <1>2, <1>6 DEF WalksFrom, BlockAt
  <2>3. w[q] \in Seq(Range(w[q])) /\ v[q] \in Seq(Range(v[q])) /\ AllMatch(Range(v[q]), Range(w[q]), {"symbol"})
    BY <1>6
  <2> HIDE DEF q, Good
  <2>4. BlockFits(g, base, total, p) => v[p] = z \o v[q] /\ Readable(g, at)
    <3>1. ASSUME BlockFits(g, base, total, p)
          PROVE  v[p] = z \o v[q] /\ Readable(g, at)
      <4>1. BlockSize(g, base, p) = size
        BY <1>4, <3>1
      <4>2. v[p] = z \o v[q]
        BY <1>2, <3>1, <4>1 DEF WalksFrom, BlockAt, q
      <4>3. Readable(g, at)
        BY <1>1, <3>1, BlockIsThere
      <4>. QED  BY <4>2, <4>3
    <3>. QED  BY <3>1
  <2> HIDE DEF size, at
  <2>5. y \in Seq(Range(y)) /\ z \in Seq(Range(z))
    BY <1>1, <2>1, BlockEntries DEF ListsBlock
  <2>6. Readable(g, at) => AllMatch(Range(z), Range(y), {"symbol"})
    BY <2>1, BlockOfCut
  <2> HIDE DEF y, z
  <2>7. w[p] \in Seq(Range(w[p])) /\ Range(w[p]) = Range(y) \cup Range(w[q])
    BY <2>2, <2>3, <2>5, JoinedRanges
  <2>8. CASE BlockFits(g, base, total, p)
    <3>1. v[p] \in Seq(Range(v[p])) /\ Range(v[p]) = Range(z) \cup Range(v[q])
      BY <2>3, <2>4, <2>5, <2>8, JoinedRanges
    <3>2. AllMatch(Range(v[p]), Range(w[p]), {"symbol"})
      BY <2>3, <2>4, <2>6, <2>7, <2>8, <3>1 DEF AllMatch
    <3>. QED  BY <2>7, <3>1, <3>2 DEF Good
  <2>9. CASE ~ BlockFits(g, base, total, p)
    <3>1. v[p] = <<>>
      BY <1>2, <2>9 DEF WalksFrom
    <3>. QED  BY <1>3, <2>7, <3>1 DEF AllMatch, Good
  <2>. QED  BY <2>8, <2>9
<1> HIDE DEF Good
<1>7. 0 \in S
  <2>1. ASSUME NEW p \in Nat, p + 0 >= total
        PROVE  Good(p)
    <3>1. ~ BlockFits(f, base, total, p)
      <4>1. ~ (p < total)
        BY <2>1
      <4>. QED  BY <1>1, <4>1, BlockIsThere
    <3>. QED  BY <1>5, <3>1
  <2>. QED  BY <2>1
<1>8. ASSUME NEW n \in 1 .. total, n - 1 \in S
      PROVE  n \in S
  <2>1. ASSUME NEW p \in Nat, p + n >= total
        PROVE  Good(p)
    <3>1. CASE BlockFits(f, base, total, p)
      <4> DEFINE q == p + BlockSize(f, base, p)
      <4>1. q \in Nat /\ q >= p + 2
        BY <1>1, <3>1, BlockIsThere
      <4> HIDE DEF q
      <4>2. q + (n - 1) >= total
        BY <2>1, <4>1
      <4>3. Good(q)
        BY <1>8, <4>1, <4>2
      <4>. QED  BY <1>6, <3>1, <4>3 DEF q
    <3>2. CASE ~ BlockFits(f, base, total, p)
      BY <1>5, <3>2
    <3>. QED  BY <3>1, <3>2
  <2>. QED  BY <2>1
<1> HIDE DEF S
<1>9. total \in S
  <2>1. \A n \in 1 .. total : n - 1 \in S => n \in S
    BY <1>8
  <2>2. total \in 0 .. total
    OBVIOUS
  <2>. QED  BY <1>7, <2>1, <2>2, OneByOne
<1>10. Good(0)
  BY <1>9 DEF S
<1>. QED  BY <1>10 DEF Good

LEMMA PeRelocationsOfCut ==
  ASSUME NEW g, NEW f, CutOff(g, f), NEW h, NEW k, HeadersBegin(h, k)
  PROVE  AllMatch(Range(ParseBaseRelocs(g, h)), Range(ParseBaseRelocs(f, k)), {"symbol"})
<1> DEFINE c == Dir(h, Directory.relocs)
           d == Dir(k, Directory.relocs)
           a == IF c.rva = 0 \/ c.size = 0 THEN None ELSE RvaToOff(h, c.rva)
           b == IF d.rva = 0 \/ d.size = 0 THEN None ELSE RvaToOff(k, d.rva)
           s == ParseBaseRelocs(g, h)
           t == ParseBaseRelocs(f, k)
<1>1. /\ s = IF a = None THEN <<>> ELSE RelocBlocks(g, h, a, c.size)
      /\ t = IF b = None THEN <<>> ELSE RelocBlocks(f, k, b, d.size)
  BY Zenon DEF ParseBaseRelocs
<1>2. /\ d.rva \in Nat /\ d.size \in Nat
      /\ \/ c.rva = 0 /\ c.size = 0
         \/ c.rva = d.rva /\ c.size \in {0, d.size}
  <2>1. Directory.relocs \in Nat
    BY DEF Directory
  <2>. QED  BY <2>1, DirOfCut
<1> HIDE DEF c, d, s, t
<1>3. CASE a = None
  <2>1. s = <<>>
    BY <1>1, <1>3
  <2>2. Range(s) = {}
    BY <2>1 DEF Range
  <2>. QED  BY <2>2 DEF AllMatch, s
<1>4. CASE a # None
  <2>1. c.rva # 0 /\ c.size # 0
    BY <1>4
  <2>2. c.rva = d.rva /\ c.size = d.size
    BY <1>2, <2>1
  <2>3. a = RvaToOff(h, d.rva) /\ b = RvaToOff(k, d.rva)
    BY <2>1, <2>2
  <2>4. a = b /\ a \in Nat
    <3>1. RvaToOff(h, d.rva) \in {None, RvaToOff(k, d.rva)} /\ RvaToOff(k, d.rva) \in Nat \cup {None}
      BY <1>2, RvaOfCut
    <3>. QED  BY <1>4, <2>3, <3>1
  <2> DEFINE total == d.size
  <2>5. s = RelocBlocks(g, h, a, total) /\ t = RelocBlocks(f, k, a, total) /\ total \in Nat
    BY <1>1, <1>2, <1>4, <2>2, <2>4
  <2>6. g \in Seq(Nat) /\ f \in Seq(Nat)
    BY DEF CutOff
  <2> HIDE DEF a, b, total
  <2>7. PICK v : IsWalk(v, g, h, a, total) /\ s = v[0]
    BY <2>4, <2>5, <2>6, WalkExists, BlocksAreWalked
  <2>8. PICK w : IsWalk(w, f, k, a, total) /\ t = w[0]
    BY <2>4, <2>5, <2>6, WalkExists, BlocksAreWalked
  <2>9. AllMatch(Range(v[0]), Range(w[0]), {"symbol"})
    BY <2>4, <2>5, <2>7, <2>8, WalksAlike
  <2>. QED  BY <2>7, <2>8, <2>9 DEF s, t
<1>. QED  BY <1>3, <1>4

-----------------------------------------------------------------------------
(***************************************************************************)
(* PE: the image, and a file whose end is cut off.                         *)
(***************************************************************************)
LEMMA PeTablesOfCut ==
  ASSUME NEW h, NEW k, HeadersBegin(h, k)
  PROVE  /\ AllMatch(Range(PeSections(h)), Range(PeSections(k)), {"name"})
         /\ \A j \in DOMAIN PeSegments(h) :
              j \in DOMAIN PeSegments(k) /\ Matches(PeSegments(h)[j], PeSegments(k)[j], {})
<1> DEFINE a == h.sections
           b == k.sections
           s == PeSections(h)
           t == PeSections(k)
           u == PeSegments(h)
           v == PeSegments(k)
<1>1. /\ DOMAIN a = 1 .. Len(a) /\ DOMAIN b = 1 .. Len(b) /\ Len(a) \in Nat /\ Len(b) \in Nat
      /\ Len(a) <= Len(b) /\ \A j \in 1 .. Len(a) : a[j] = b[j]
  BY DEF HeadersBegin, Begins
<1>2. \A j \in 1 .. Len(b) : b[j].name \in Seq(Nat)
  BY DEF HeadersBegin, SectionsOfPe
<1>3. h.base = k.base
  BY DEF HeadersBegin
<1>4. DOMAIN s = DOMAIN a /\ DOMAIN t = DOMAIN b /\ DOMAIN u = DOMAIN a /\ DOMAIN v = DOMAIN b
  BY DEF PeSections, PeSegments
<1>5. ASSUME NEW j \in DOMAIN a
      PROVE  j \in DOMAIN b /\ s[j] = t[j] /\ t[j].name \in Seq(Nat) /\ u[j] = v[j]
  <2>1. j \in DOMAIN b /\ a[j] = b[j]
    BY <1>1
  <2>2. s[j] = t[j]
    BY <1>3, <2>1 DEF PeSections, Address
  <2>3. t[j].name = b[j].name
    BY <2>1 DEF PeSections
  <2>4. u[j] = v[j]
    BY <1>3, <2>1 DEF PeSegments, Address
  <2>. QED  BY <1>1, <1>2, <2>1, <2>2, <2>3, <2>4
<1> HIDE DEF a, b, s, t, u, v
<1>6. AllMatch(Range(s), Range(t), {"name"})
  <2>1. ASSUME NEW j \in DOMAIN a
        PROVE  Matches(s[j], t[j], {"name"})
    <3>1. Shortened(s[j].name, t[j].name)
      BY <1>5, <2>1, ShortenedNames
    <3>. QED  BY <1>5, <3>1 DEF Matches
  <2>. QED  BY <1>4, <1>5, <2>1 DEF AllMatch, Range
<1>7. \A j \in DOMAIN u : j \in DOMAIN v /\ Matches(u[j], v[j], {})
  BY <1>4, <1>5 DEF Matches
<1>. QED  BY <1>6, <1>7 DEF s, t, u, v

\* The parts of an image that is shown of a PE file.
LEMMA PeImages ==
  ASSUME NEW f, ~ IsElf(f), NEW shown, shown = Inspected(f), ~ Refused(shown)
  PROVE  /\ IsPe(f) /\ PeError(f) = None
         /\ shown.format = "pe" /\ shown.sections = PeSections(Headers(f))
         /\ shown.segments = PeSegments(Headers(f)) /\ shown.symbols = <<>>
         /\ shown.imports = Range(ParseImportDir(f, Headers(f), FALSE) \o ParseImportDir(f, Headers(f), TRUE))
         /\ shown.exports = Range(ParseExports(f, Headers(f)))
         /\ shown.relocations = ParseBaseRelocs(f, Headers(f))
<1> DEFINE h == Headers(f)
<1>1. \A e : Refused([error |-> e])
  BY DEF Refused
<1>2. f # <<>> /\ shown = Parse(f)
  BY <1>1 DEF Inspected
<1>3. IsPe(f) /\ shown = PeParse(f)
  BY <1>1, <1>2 DEF Parse
<1>4. PeError(f) = None /\ shown = WithPeHeaders(f, h)
  <2>1. PeError(f) # None => shown = [error |-> PeError(f)]
    BY <1>3 DEF PeParse
  <2>2. PeError(f) = None
    BY <1>1, <2>1
  <2>. QED  BY <1>3, <2>2 DEF PeParse
<1> HIDE DEF h
<1>5. /\ shown.format = "pe" /\ shown.sections = PeSections(h)
      /\ shown.segments = PeSegments(h) /\ shown.symbols = <<>>
      /\ shown.imports = Range(ParseImportDir(f, h, FALSE) \o ParseImportDir(f, h, TRUE))
      /\ shown.exports = Range(ParseExports(f, h))
      /\ shown.relocations = ParseBaseRelocs(f, h)
  BY <1>4 DEF WithPeHeaders
<1>. QED  BY <1>3, <1>4, <1>5 DEF h

\* What is left of a PE file shows nothing that the file does not.
LEMMA PeOfCut ==
  ASSUME NEW g, NEW f, CutOff(g, f), ~ IsElf(g), ~ IsElf(f), NEW small, NEW large,
         small = Inspected(g), large = Inspected(f), ~ Refused(small), ~ Refused(large)
  PROVE  Within(small, large)
<1> DEFINE h == Headers(g)
           k == Headers(f)
<1>1. /\ IsPe(g) /\ PeError(g) = None
      /\ small.format = "pe" /\ small.sections = PeSections(h)
      /\ small.segments = PeSegments(h) /\ small.symbols = <<>>
      /\ small.imports = Range(ParseImportDir(g, h, FALSE) \o ParseImportDir(g, h, TRUE))
      /\ small.exports = Range(ParseExports(g, h))
      /\ small.relocations = ParseBaseRelocs(g, h)
  BY PeImages
<1>2. /\ large.sections = PeSections(k)
      /\ large.segments = PeSegments(k)
      /\ large.imports = Range(ParseImportDir(f, k, FALSE) \o ParseImportDir(f, k, TRUE))
      /\ large.exports = Range(ParseExports(f, k))
      /\ large.relocations = ParseBaseRelocs(f, k)
  BY PeImages
<1>3. HeadersBegin(h, k)
  BY <1>1, PeHeadersOfCut
<1> HIDE DEF h, k
<1>4. /\ AllMatch(Range(small.sections), Range(large.sections), {"name"})
      /\ \A j \in DOMAIN small.segments :
           j \in DOMAIN large.segments /\ Matches(small.segments[j], large.segments[j], {})
  BY <1>1, <1>2, <1>3, PeTablesOfCut
<1>5. AllMatch(Range(small.symbols), Range(large.symbols), {"name", "section"})
  <2>1. Range(small.symbols) = {}
    BY <1>1 DEF Range
  <2>. QED  BY <2>1 DEF AllMatch
<1>6. AllMatch(Range(small.relocations), Range(large.relocations), {"symbol"})
  BY <1>1, <1>2, <1>3, PeRelocationsOfCut
<1>7. AllMatch(small.imports, large.imports, {"name", "library"})
  BY <1>1, <1>2, <1>3, PeImportsOfCut
<1>8. \A e \in small.exports : \E x \in large.exports : Matches([e EXCEPT !.name = x.name], x, {"forwarder"})
  BY <1>1, <1>2, <1>3, PeExportsOfCut DEF ExportsMatch
<1>9. small.format # "elf"
  BY <1>1
<1>. QED  BY <1>4, <1>5, <1>6, <1>7, <1>8, <1>9 DEF Within

-----------------------------------------------------------------------------
(***************************************************************************)
(* What a step does to the file and to what is shown of it.                *)
(***************************************************************************)
\* A file gets shorter only by losing its end.
LEMMA ShorterIsCutOff ==
  ASSUME InspectInv, [InspectNext]_inspectVars, Len(file') < Len(file)
  PROVE  CutOff(file', file)
<1>1. file \in Seq(Nat) /\ Len(file) \in Nat
  BY DEF InspectInv
<1>2. ASSUME NEW j \in DOMAIN file, NEW v \in Values, Damage(j, v)
      PROVE  FALSE
  <2>1. file' = [file EXCEPT ![j] = v]
    BY <1>2 DEF Damage, Upload
  <2>2. v \in Nat
    BY DamagesAreCells
  <2>3. Len(file') = Len(file)
    BY <1>1, <2>1, <2>2
  <2>. QED  BY <1>1, <2>3
<1>3. ASSUME NEW n \in Cuts, Cut(n)
      PROVE  CutOff(file', file)
  <2>1. n \in Nat /\ n < Len(file) /\ file' = SubSeq(file, 1, n)
    BY <1>3, DamagesAreCells DEF Cut, Upload
  <2> DEFINE f == file
             g == file'
  <2>2. f \in Seq(Nat) /\ g = SubSeq(f, 1, n) /\ n < Len(f)
    BY <1>1, <2>1
  <2> HIDE DEF f, g
  <2>3. g \in Seq(Nat) /\ Len(g) = n /\ \A j \in 1 .. n : g[j] = f[j]
    BY <2>1, <2>2
  <2>4. CutOff(g, f)
    BY <2>1, <2>2, <2>3 DEF CutOff
  <2>. QED  BY <2>4 DEF f, g
<1>4. CASE UNCHANGED inspectVars
  BY <1>1, <1>4 DEF inspectVars
<1>. QED  BY <1>2, <1>3, <1>4 DEF InspectNext

LEMMA CutsShowLess ==
  ASSUME NEW g, NEW f, CutOff(g, f), NEW small, NEW large,
         small = Inspected(g), large = Inspected(f), ~ Refused(small), ~ Refused(large)
  PROVE  Within(small, large)
<1>1. g # <<>>
  BY DEF Inspected, Refused
<1>2. IsElf(g) <=> IsElf(f)
  <2>1. Len(g) >= 1 /\ Len(f) >= 1 /\ 1 \in 1 .. Len(g)
    BY <1>1 DEF CutOff
  <2>2. g[1] = f[1]
    BY <2>1 DEF CutOff
  <2>. QED  BY <2>1, <2>2 DEF IsElf
<1>. QED  BY <1>2, ElfOfCut, PeOfCut

\* Cutting off the end of a file never makes its inspection show something that the whole
\* file does not show, whatever the file, ELF or PE, linked or damaged before (bounds-checked
\* reads of reader.rs; parse_shdrs, parse_symtab, parse_relocs of elf.rs; parse_sections,
\* parse_import_dir, walk_thunks, parse_exports, parse_base_relocs of pe.rs).
THEOREM CutsInventNothing == InspectSpec => NothingIsInvented
<1>1. InspectInv /\ [InspectNext]_inspectVars /\ InspectInv' =>
        [Len(file') < Len(file) /\ ~ Refused(image') /\ ~ Refused(image) => Within(image', image)]_inspectVars
  <2> SUFFICES ASSUME InspectInv, [InspectNext]_inspectVars, InspectInv',
                      Len(file') < Len(file), ~ Refused(image'), ~ Refused(image)
               PROVE  Within(image', image)
    OBVIOUS
  <2>1. CutOff(file', file)
    BY ShorterIsCutOff
  <2>2. image = Inspected(file) /\ image' = Inspected(file')
    BY DEF InspectInv
  <2> DEFINE f == file
             g == file'
             small == image'
             large == image
  <2>3. CutOff(g, f) /\ small = Inspected(g) /\ large = Inspected(f) /\ ~ Refused(small) /\ ~ Refused(large)
    BY <2>1, <2>2
  <2> HIDE DEF f, g, small, large
  <2>4. Within(small, large)
    BY <2>3, CutsShowLess
  <2>. QED  BY <2>4 DEF small, large
<1>. QED  BY <1>1, InspectInvInit, InspectInvNext, PTL DEF InspectSpec, NothingIsInvented
==============================================================================
