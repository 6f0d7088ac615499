---------------------------- MODULE MachineProofs ----------------------------
(***************************************************************************)
(* What one access to memory and one instruction preserve: the types of    *)
(* the machine, the protection of its memory, and the account the log of a *)
(* step gives of it.                                                       *)
(***************************************************************************)
EXTENDS Machine, FiniteSetTheorems, WellFoundedInduction, TLAPS

(***************************************************************************)
(* The memory map, for every memory and every access.                      *)
(***************************************************************************)
\* A non-empty set of numbers has a first element: the region `locate` stops
\* at exists.
LEMMA FirstIsLeast ==
  ASSUME NEW S \in SUBSET Nat, S # {}
  PROVE  FirstOf(S) \in S /\ \A j \in S : FirstOf(S) <= j
<1>1. PICK x \in S : \A y \in S : ~(<<y, x>> \in OpToRel(<, Nat))
  BY WFMin, NatLessThanWellFounded
<1>2. ASSUME NEW y \in S
      PROVE  x <= y
  <2>1. ~(y < x)
    BY <1>1 DEF OpToRel
  <2>. QED  BY <2>1
<1>. QED  BY <1>2 DEF FirstOf

\* So it is one of them.
LEMMA FirstExists ==
  ASSUME NEW S \in SUBSET Nat, S # {}
  PROVE  FirstOf(S) \in S
BY FirstIsLeast

\* Facts about `%` that the solver needs one at a time.
LEMMA ModStaysBelow ==
  ASSUME NEW a \in Int, NEW b \in Nat \ {0}
  PROVE  a % b \in 0 .. b - 1
OBVIOUS

\* Reducing a natural number never makes it larger.
LEMMA ModDoesNotGrow ==
  ASSUME NEW a \in Nat, NEW b \in Nat \ {0}
  PROVE  a % b \in Nat /\ a % b <= a
OBVIOUS

\* What a region covers lies within its data, also where its end wraps around.
LEMMA CoveredIsInBounds ==
  ASSUME NEW r \in Regions, NEW addr \in Nat, NEW n \in Nat, Covers(r, addr, n)
  PROVE  /\ r.base \in Nat /\ r.data \in Seq(Word)
         /\ addr >= r.base /\ addr + n <= r.base + Len(r.data)
<1> DEFINE top == r.base + Len(r.data)
<1>1. r.base \in Nat /\ Len(r.data) \in Nat /\ r.data \in Seq(Word) /\ top \in Nat
  BY DEF Regions, Word
<1> HIDE DEF top
<1>2. top % WordMod \in Nat /\ top % WordMod <= top
  BY <1>1, WordModIsPositive, ModDoesNotGrow
<1>. QED  BY <1>1, <1>2 DEF Covers, RegionEnd, top

\* `locate` never yields an index that is out of range (lib.rs:18): an access
\* it lets through lies within the data of one region that grants the
\* permission asked for, even where a region's end wraps around.
THEOREM LocateStaysInBounds ==
  ASSUME NEW mem \in Memories, NEW addr \in Nat, NEW n \in Nat,
         NEW need, Locate(mem, addr, n, need).fault = "none"
  PROVE  LET at == Locate(mem, addr, n, need)
         IN  /\ at.region \in DOMAIN mem
             /\ at.off \in Nat
             /\ at.off + n <= Len(mem[at.region].data)
             /\ need \in mem[at.region].perms
<1> DEFINE i == FirstOf(Covering(mem, addr, n))
           at == Locate(mem, addr, n, need)
<1>1. /\ Covering(mem, addr, n) # {}
      /\ need \in mem[i].perms
      /\ at = [fault |-> "none", region |-> i, off |-> addr - mem[i].base]
  BY DEF Locate, NotMapped
<1>2. Covering(mem, addr, n) \in SUBSET Nat
  BY DEF Covering, Memories
<1>3. i \in DOMAIN mem /\ Covers(mem[i], addr, n)
  BY <1>1, <1>2, FirstExists DEF Covering
<1>4. mem[i] \in Regions
  BY <1>3 DEF Memories
<1> HIDE DEF i
<1>5. mem[i].base \in Nat /\ addr >= mem[i].base /\ addr + n <= mem[i].base + Len(mem[i].data)
  BY <1>3, <1>4, CoveredIsInBounds
<1>. QED  BY <1>1, <1>3, <1>5 DEF i

\* Its own cell of a mapped address is one of the region it is found in.
LEMMA MappedIsInBounds ==
  ASSUME NEW mem \in Memories, NEW x \in Nat, Covering(mem, x, 1) # {}
  PROVE  LET j == FirstOf(Covering(mem, x, 1))
         IN  /\ j \in DOMAIN mem /\ mem[j] \in Regions /\ mem[j].base \in Nat
             /\ x - mem[j].base + 1 \in DOMAIN mem[j].data
<1> DEFINE j == FirstOf(Covering(mem, x, 1))
<1>1. Covering(mem, x, 1) \in SUBSET Nat
  BY DEF Covering, Memories
<1>2. j \in DOMAIN mem /\ Covers(mem[j], x, 1)
  BY <1>1, FirstExists DEF Covering
<1>3. mem[j] \in Regions
  BY <1>2 DEF Memories
<1> HIDE DEF j
<1>4. /\ mem[j].base \in Nat /\ mem[j].data \in Seq(Word)
      /\ x >= mem[j].base /\ x + 1 <= mem[j].base + Len(mem[j].data)
  BY <1>2, <1>3, CoveredIsInBounds
<1>. QED  BY <1>2, <1>3, <1>4 DEF j

\* Two protected steps of the memory make a protected one.
LEMMA ProtectedIsTransitive ==
  ASSUME NEW a, NEW b, NEW c, Protected(a, b), Protected(b, c)
  PROVE  Protected(a, c)
BY DEF Protected

\* A memory left alone was protected.
LEMMA ProtectedIsReflexive == \A a : Protected(a, a)
BY DEF Protected

\* A write that was located keeps the memory a memory, and stays within what
\* W^X allows.
LEMMA WriteIsProtected ==
  ASSUME NEW mem \in Memories, NEW cells \in Seq(Word),
         NEW at, at.region \in DOMAIN mem, "w" \in mem[at.region].perms
  PROVE  /\ WriteCells(mem, at, cells) \in Memories
         /\ Protected(mem, WriteCells(mem, at, cells))
<1> DEFINE r == mem[at.region]
           data == Overwrite(r.data, at.off, cells)
           new == [r EXCEPT !.data = data]
<1>1. r \in Regions
  BY DEF Memories
<1>2. data \in Seq(Word) /\ Len(data) = Len(r.data)
  <2>1. r.data \in Seq(Word)
    BY <1>1 DEF Regions
  <2>2. data \in [1 .. Len(r.data) -> Word]
    BY <2>1 DEF Overwrite
  <2>. QED  BY <2>1, <2>2
<1>3. new \in Regions /\ new.base = r.base /\ new.perms = r.perms /\ new.data = data
  BY <1>1, <1>2 DEF Regions
<1>4. WriteCells(mem, at, cells) = [mem EXCEPT ![at.region] = new]
  BY <1>1 DEF WriteCells, Regions
<1> HIDE DEF new, data
<1>5. WriteCells(mem, at, cells) \in Memories
  BY <1>3, <1>4 DEF Memories
<1>6. Protected(mem, WriteCells(mem, at, cells))
  BY <1>2, <1>3, <1>4 DEF Protected, Memories
<1>. QED  BY <1>5, <1>6

\* What a located read returns are cells.
LEMMA ReadIsTyped ==
  ASSUME NEW mem \in Memories, NEW n \in Nat,
         NEW at, at.region \in DOMAIN mem, at.off \in Nat,
         at.off + n <= Len(mem[at.region].data)
  PROVE  ReadCells(mem, at, n) \in Seq(Word) /\ Len(ReadCells(mem, at, n)) = n
<1>1. mem[at.region] \in Regions
  BY DEF Memories
<1>2. mem[at.region].data \in Seq(Word)
  BY <1>1 DEF Regions
<1>. QED  BY <1>2 DEF ReadCells

\* `map_with` yields a memory: what it shifts aside stays in order.
LEMMA MapWithIsTyped ==
  ASSUME NEW mem \in Memories, NEW r \in Regions
  PROVE  MapWith(mem, r) \in Memories
<1> DEFINE below == {i \in DOMAIN mem : mem[i].base < r.base}
           pos == Cardinality(below)
<1>1. mem \in Seq(Regions) /\ Len(mem) \in Nat /\ DOMAIN mem = 1 .. Len(mem)
  BY DEF Memories
<1>2. pos \in Nat /\ pos <= Len(mem)
  <2>1. IsFiniteSet(1 .. Len(mem)) /\ Cardinality(1 .. Len(mem)) = Len(mem)
    BY <1>1, FS_Interval
  <2>2. below \in SUBSET (1 .. Len(mem))
    BY <1>1
  <2>3. IsFiniteSet(below) /\ pos <= Len(mem)
    BY <2>1, <2>2, FS_Subset
  <2>. QED  BY <2>3, FS_CardinalityType
<1> HIDE DEF pos
<1>3. SubSeq(mem, 1, pos) \in Seq(Regions) /\ SubSeq(mem, pos + 1, Len(mem)) \in Seq(Regions)
  BY <1>1, <1>2
<1>4. <<r>> \in Seq(Regions)
  OBVIOUS
<1>5. SubSeq(mem, 1, pos) \o <<r>> \o SubSeq(mem, pos + 1, Len(mem)) \in Seq(Regions)
  BY <1>3, <1>4
<1>. QED  BY <1>5 DEF MapWith, Memories, pos

-----------------------------------------------------------------------------
USE WidthIsConsistent, LogicIsATable

(***************************************************************************)
(* The arithmetic core at full width.                                      *)
(***************************************************************************)
LEMMA FullWidth == Pow2[WordBits] = WordMod /\ WordMod \in Nat \ {0}
BY WordModIsPositive

\* Wrapping arithmetic always ends in a word.
LEMMA TruncIsWord == \A v \in Int : v % WordMod \in Word
BY ModStaysBelow, WordModIsPositive DEF Word

\* The result of any operation is a word with well-formed flags.
LEMMA FlagsAreTyped ==
  ASSUME NEW v \in Word, NEW cf \in BOOLEAN, NEW of \in BOOLEAN
  PROVE  /\ Result(v, cf, of, WordBits).val \in Word
         /\ Result(v, cf, of, WordBits).flags \in Flags
<1>1. (v = 0) \in BOOLEAN /\ Negative(v, WordBits) \in BOOLEAN
  BY DEF Negative
<1>. QED  BY <1>1 DEF Result, Flags

\* Addition with carry yields a word and flags.
LEMMA AdcIsTyped ==
  ASSUME NEW a \in Word, NEW b \in Nat, NEW c \in BOOLEAN
  PROVE  Adc(a, b, c, WordBits).val \in Word /\ Adc(a, b, c, WordBits).flags \in Flags
<1> DEFINE sum == a + b + Bit(c)
           res == sum % Pow2[WordBits]
           of == Negative(a, WordBits) = Negative(b, WordBits)
                   /\ Negative(res, WordBits) # Negative(a, WordBits)
<1>1. sum \in Int
  BY DEF Bit, Word
<1>2. res \in Word
  BY <1>1, TruncIsWord, FullWidth
<1>3. (sum >= Pow2[WordBits]) \in BOOLEAN /\ of \in BOOLEAN
  OBVIOUS
<1> HIDE DEF res, of
<1>4. /\ Result(res, sum >= Pow2[WordBits], of, WordBits).val \in Word
      /\ Result(res, sum >= Pow2[WordBits], of, WordBits).flags \in Flags
  BY <1>2, <1>3, FlagsAreTyped
<1>. QED  BY <1>4 DEF Adc, res, of

\* Subtraction with borrow yields a word and flags.
LEMMA SbbIsTyped ==
  ASSUME NEW a \in Word, NEW b \in Nat, NEW c \in BOOLEAN
  PROVE  Sbb(a, b, c, WordBits).val \in Word /\ Sbb(a, b, c, WordBits).flags \in Flags
<1> DEFINE dif == a - b - Bit(c)
           res == dif % Pow2[WordBits]
           of == Negative(a, WordBits) # Negative(b, WordBits)
                   /\ Negative(res, WordBits) # Negative(a, WordBits)
<1>1. dif \in Int
  BY DEF Bit, Word
<1>2. res \in Word
  BY <1>1, TruncIsWord, FullWidth
<1>3. (a < b + Bit(c)) \in BOOLEAN /\ of \in BOOLEAN
  OBVIOUS
<1> HIDE DEF res, of
<1>4. /\ Result(res, a < b + Bit(c), of, WordBits).val \in Word
      /\ Result(res, a < b + Bit(c), of, WordBits).flags \in Flags
  BY <1>2, <1>3, FlagsAreTyped
<1>. QED  BY <1>4 DEF Sbb, res, of

\* A bitwise operation yields a word and flags.
LEMMA LogicIsTyped ==
  ASSUME NEW a \in Word, NEW b \in Word, NEW op \in LogicOps
  PROVE  /\ LogicOp(op, a, b, WordBits).val \in Word
         /\ LogicOp(op, a, b, WordBits).flags \in Flags
<1>1. Logic[op][a][b] \in Int
  <2>1. Logic[op] \in [Word -> [Word -> Word]]
    OBVIOUS
  <2>2. Logic[op][a] \in [Word -> Word]
    BY <2>1
  <2>3. Logic[op][a][b] \in Word
    BY <2>2
  <2>. QED  BY <2>3 DEF Word
<1>2. Logic[op][a][b] % Pow2[WordBits] \in Word
  BY <1>1, TruncIsWord, FullWidth
<1>. QED  BY <1>2, FlagsAreTyped DEF LogicOp

\* A quotient by a positive number is no larger than what is divided.
LEMMA DivShrinks ==
  ASSUME NEW a \in Nat, NEW b \in Nat \ {0}
  PROVE  a \div b \in Nat /\ a \div b <= a
<1> DEFINE q == a \div b
<1>1. q \in Int /\ b * q <= a /\ a < b * q + b
  OBVIOUS
<1> HIDE DEF q
<1>2. q >= 0
  <2>1. CASE q <= 0 - 1
    <3>1. 0 <= b * (0 - 1 - q)
      BY <1>1, <2>1
    <3>2. b * (0 - 1 - q) = 0 - b - b * q
      BY <1>1
    <3>3. 0 <= 0 - b - b * q
      BY <3>1, <3>2
    <3> DEFINE p == b * q
    <3>4. p \in Int /\ a < p + b /\ 0 <= 0 - b - p
      BY <1>1, <3>3
    <3> HIDE DEF p
    <3>. QED  BY <3>4
  <2>. QED  BY <1>1, <2>1
<1>3. (b - 1) * q >= 0
  BY <1>1, <1>2
<1>4. b * q = (b - 1) * q + q
  BY <1>1
<1>. QED  BY <1>1, <1>2, <1>3, <1>4 DEF q

\* The signed reading of a word is an integer.
LEMMA SignedIsInt == \A v \in Word : Signed(v, WordBits) \in Int
BY FullWidth DEF Signed, Word

\* Both halves of a product are words.
LEMMA ProductIsTyped ==
  ASSUME NEW a \in Int, NEW b \in Int
  PROVE  Product(a, b, WordBits).low \in Word /\ Product(a, b, WordBits).high \in Word
<1>1. a * b \in Int /\ (a * b) \div Pow2[WordBits] \in Int
  BY FullWidth
<1>. QED  BY <1>1, TruncIsWord, FullWidth DEF Product

\* A division that does not fault yields two words, and one that does a fault.
LEMMA DivideIsTyped ==
  ASSUME NEW signed \in BOOLEAN, NEW high \in Word, NEW low \in Word, NEW d \in Word
  PROVE  LET r == Divide(signed, high, low, d, WordBits)
         IN  r.fault \in {"none", "divide"} /\ r.quot \in Word /\ r.rem \in Word
<1> DEFINE dividend == (IF signed THEN Signed(high, WordBits) ELSE high) * Pow2[WordBits] + low
           divisor == IF signed THEN Signed(d, WordBits) ELSE d
           q == Quotient(dividend, divisor)
<1>1. CASE d = 0
  BY <1>1, WordModIsPositive DEF Divide, Word
<1>2. CASE d # 0
  <2>1. dividend \in Int /\ divisor \in Int
    <3>1. (IF signed THEN Signed(high, WordBits) ELSE high) \in Int /\ divisor \in Int
      BY SignedIsInt DEF Word
    <3>. QED  BY <3>1, FullWidth DEF Word
  <2>2. divisor # 0
    BY <1>2, FullWidth DEF Signed, Negative, Word
  <2> HIDE DEF dividend, divisor
  <2>3. q \in Int
    BY <2>1, <2>2 DEF Quotient, Magnitude
  <2> HIDE DEF q
  <2>4. dividend - divisor * q \in Int
    BY <2>1, <2>3
  <2>5. q % Pow2[WordBits] \in Word /\ Remainder(dividend, divisor) % Pow2[WordBits] \in Word
    BY <2>3, <2>4, TruncIsWord, FullWidth DEF Remainder, q
  <2>. QED  BY <1>2, <2>5, WordModIsPositive DEF Divide, dividend, divisor, q, Word
<1>. QED  BY <1>1, <1>2

\* not, neg, inc and dec yield a word and flags.
LEMMA UnaryIsTyped ==
  ASSUME NEW op, NEW a \in Word, NEW f \in Flags
  PROVE  UnaryResult(op, a, f).val \in Word /\ UnaryResult(op, a, f).flags \in Flags
<1>1. 0 \in Word /\ a \in Nat /\ WordMod - 1 - a \in Word
  BY WordModIsPositive DEF Word
<1>2. f.cf \in BOOLEAN
  BY DEF Flags
<1>3. ASSUME NEW r, r.val \in Word, r.flags \in Flags
      PROVE  KeepCarry(r, f.cf).val \in Word /\ KeepCarry(r, f.cf).flags \in Flags
  BY <1>2, <1>3 DEF KeepCarry, Flags
<1>4. CASE op = "not"
  BY <1>1, <1>4 DEF UnaryResult
<1>5. CASE op = "neg"
  BY <1>1, <1>5, SbbIsTyped DEF UnaryResult
<1>6. CASE op = "inc"
  BY <1>3, <1>6, AdcIsTyped DEF UnaryResult
<1>7. CASE op \notin {"not", "neg", "inc"}
  BY <1>3, <1>7, SbbIsTyped DEF UnaryResult
<1>. QED  BY <1>4, <1>5, <1>6, <1>7

(***************************************************************************)
(* The log of a step is an account of it: a machine c accounts for a step  *)
(* in progress m if undoing the log of m gives c, and redoing it gives m.  *)
(***************************************************************************)
RegsAccount(c, m) ==
  \A r \in Reg : /\ c.regs[r] = RegBefore(m.cpu.regs, m.regWrites, r)
                 /\ m.cpu.regs[r] = RegAfter(c.regs, m.regWrites, r)

MemAccount(c, m) ==
  \A a \in Mapped(c.mem) : /\ CellAt(c.mem, a) = MemBefore(m.cpu.mem, m.memWrites, a)
                           /\ CellAt(m.cpu.mem, a) = MemAfter(c.mem, m.memWrites, a)

Accounts(c, m) ==
  Protected(c.mem, m.cpu.mem) /\ RegsAccount(c, m) /\ MemAccount(c, m)

\* What accounts for m accounts for n.
KeepsAccounts(m, n) == \A c \in Cpus : Accounts(c, m) => Accounts(c, n)

\* Registers, memory and logs are all that an account is about.
LEMMA SameLogsKeepAccounts ==
  ASSUME NEW m, NEW n, n.cpu.regs = m.cpu.regs, n.cpu.mem = m.cpu.mem,
         n.regWrites = m.regWrites, n.memWrites = m.memWrites
  PROVE  KeepsAccounts(m, n)
BY DEF KeepsAccounts, Accounts, RegsAccount, MemAccount

\* Some of the first n numbers have a last.
LEMMA LastExists ==
  ASSUME NEW n \in Nat, NEW S \in SUBSET (1 .. n), S # {}
  PROVE  LastOf(S) \in S /\ \A j \in S : j <= LastOf(S)
<1> DEFINE back == {n - i : i \in S}
<1>0. \A i \in S : i \in Nat /\ n - i \in Nat
  OBVIOUS
<1>1. back \in SUBSET Nat /\ back # {}
  <2>1. \A b \in back : b \in Nat
    BY <1>0
  <2>2. back # {}
    <3>1. PICK i \in S : TRUE
      OBVIOUS
    <3>2. n - i \in back
      OBVIOUS
    <3>. QED  BY <3>2
  <2> HIDE DEF back
  <2>. QED  BY <2>1, <2>2
<1>2. FirstOf(back) \in back /\ \A j \in back : FirstOf(back) <= j
  <2> HIDE DEF back
  <2>. QED  BY <1>1, FirstIsLeast
<1>3. PICK i \in S : FirstOf(back) = n - i
  BY <1>2
<1>4. \A j \in S : j <= i
  <2> TAKE j \in S
  <2>1. n - j \in back
    OBVIOUS
  <2>2. n - i <= n - j
    <3> HIDE DEF back
    <3>. QED  BY <1>2, <1>3, <2>1
  <2>3. i \in Nat /\ j \in Nat
    BY <1>0
  <2>. QED  BY <2>2, <2>3
<1> HIDE DEF back
<1>5. i \in S /\ \A j \in S : j <= i
  BY <1>4
<1>. QED  BY <1>5 DEF LastOf

\* The first of some numbers stays so when a larger one is added, which is the last.
LEMMA FirstAndLast ==
  ASSUME NEW S \in SUBSET Nat, NEW n \in Nat, \A i \in S : i < n
  PROVE  /\ S # {} => FirstOf(S \cup {n}) = FirstOf(S)
         /\ FirstOf({n}) = n
         /\ LastOf(S \cup {n}) = n
<1>1. ASSUME S # {}
      PROVE  FirstOf(S \cup {n}) = FirstOf(S)
  <2>1. FirstOf(S) \in S /\ \A j \in S : FirstOf(S) <= j
    BY <1>1, FirstIsLeast
  <2>2. FirstOf(S \cup {n}) \in S \cup {n} /\ \A j \in S \cup {n} : FirstOf(S \cup {n}) <= j
    <3>1. S \cup {n} \in SUBSET Nat /\ S \cup {n} # {}
      OBVIOUS
    <3>. QED  BY <3>1, FirstIsLeast
  <2>3. FirstOf(S) \in Nat /\ FirstOf(S \cup {n}) \in Nat /\ FirstOf(S) < n
    BY <2>1, <2>2
  <2>4. FirstOf(S \cup {n}) <= FirstOf(S)
    BY <2>1, <2>2
  <2>5. FirstOf(S) <= FirstOf(S \cup {n})
    <3>1. CASE FirstOf(S \cup {n}) \in S
      BY <2>1, <3>1
    <3>2. CASE FirstOf(S \cup {n}) = n
      BY <2>3, <3>2
    <3>. QED  BY <2>2, <3>1, <3>2
  <2> DEFINE x == FirstOf(S \cup {n})
             y == FirstOf(S)
  <2>6. x \in Nat /\ y \in Nat /\ x <= y /\ y <= x
    BY <2>3, <2>4, <2>5
  <2> HIDE DEF x, y
  <2>7. x = y
    BY <2>6
  <2>. QED  BY <2>7 DEF x, y
<1>2. FirstOf({n}) = n
  BY DEF FirstOf
<1>3. LastOf(S \cup {n}) = n
  <2>0. \A j \in S : j \in Nat /\ j < n
    OBVIOUS
  <2>1. \A j \in S \cup {n} : j <= n
    BY <2>0
  <2>2. \A i \in S \cup {n} : (\A j \in S \cup {n} : j <= i) => i = n
    <3> TAKE i \in S \cup {n}
    <3> HAVE \A j \in S \cup {n} : j <= i
    <3>1. n <= i
      OBVIOUS
    <3>2. i \in S => FALSE
      BY <2>0, <3>1
    <3>. QED  BY <3>2
  <2>. QED  BY <2>1, <2>2 DEF LastOf
<1>. QED  BY <1>1, <1>2, <1>3

\* The first and the last of the touches of a log of n writes, when one more touches.
LEMMA LaterTouch ==
  ASSUME NEW n \in Nat, NEW S \in SUBSET (1 .. n)
  PROVE  /\ LastOf(S \cup {n + 1}) = n + 1 /\ FirstOf({n + 1}) = n + 1
         /\ S # {} => /\ FirstOf(S \cup {n + 1}) = FirstOf(S)
                      /\ FirstOf(S) \in S /\ LastOf(S) \in S
<1> DEFINE k == n + 1
<1>1. S \in SUBSET Nat /\ k \in Nat /\ \A i \in S : i < k
  OBVIOUS
<1> HIDE DEF k
<1>2. /\ LastOf(S \cup {k}) = k /\ FirstOf({k}) = k
      /\ S # {} => FirstOf(S \cup {k}) = FirstOf(S)
  BY <1>1, FirstAndLast
<1>3. S # {} => FirstOf(S) \in S /\ LastOf(S) \in S
  BY <1>1, FirstIsLeast, LastExists
<1>. QED  BY <1>2, <1>3 DEF k

\* A register write: the log says what was there before the first write to the register,
\* and what is there after the last, which is this one.
LEMMA PutRegKeepsAccounts ==
  ASSUME NEW m \in Steps, NEW r \in Reg, NEW v \in Word
  PROVE  KeepsAccounts(m, PutReg(m, r, v))
<1> DEFINE write == [reg |-> r, before |-> m.cpu.regs[r], after |-> v]
           regs == [m.cpu.regs EXCEPT ![r] = v]
           old == m.regWrites
           log == Append(old, write)
           n == PutReg(m, r, v)
           here == Len(old) + 1
<1>1. /\ n.cpu.regs = regs /\ n.cpu.mem = m.cpu.mem
      /\ n.regWrites = log /\ n.memWrites = m.memWrites
  BY DEF PutReg, Steps, Cpus
<1>2. /\ m.cpu.regs \in [Reg -> Word] /\ old \in Seq(RegWrites) /\ Len(old) \in Nat
      /\ DOMAIN old = 1 .. Len(old)
  BY DEF Steps, Cpus
<1>3. /\ regs[r] = v
      /\ \A q \in Reg \ {r} : regs[q] = m.cpu.regs[q]
  BY <1>2
<1>4. write \in RegWrites /\ write.reg = r /\ write.before = m.cpu.regs[r] /\ write.after = v
  BY <1>2 DEF RegWrites
<1> HIDE DEF n, regs, write
<1>5. /\ DOMAIN log = 1 .. here /\ log[here] = write
      /\ \A j \in 1 .. Len(old) : log[j] = old[j]
  BY <1>2, <1>4
<1> HIDE DEF log
<1>6. ASSUME NEW c \in Cpus, RegsAccount(c, m), NEW q \in Reg
      PROVE  /\ c.regs[q] = RegBefore(regs, log, q)
             /\ regs[q] = RegAfter(c.regs, log, q)
  <2> DEFINE touched == RegTouches(old, q)
  <2>0. touched \in SUBSET (1 .. Len(old))
    BY <1>2 DEF RegTouches
  <2>1. /\ LastOf(touched \cup {here}) = here /\ FirstOf({here}) = here
        /\ touched # {} => /\ FirstOf(touched \cup {here}) = FirstOf(touched)
                           /\ FirstOf(touched) \in touched /\ LastOf(touched) \in touched
    BY <1>2, <2>0, LaterTouch
  <2>2. /\ c.regs[q] = RegBefore(m.cpu.regs, old, q)
        /\ m.cpu.regs[q] = RegAfter(c.regs, old, q)
    BY <1>6 DEF RegsAccount
  <2>3. CASE q = r
    <3>1. RegTouches(log, q) = touched \cup {here}
      BY <1>2, <1>4, <1>5, <2>3 DEF RegTouches
    <3> HIDE DEF touched
    <3>2. LastOf(RegTouches(log, q)) = here
      BY <2>1, <3>1
    <3>3. RegAfter(c.regs, log, q) = v
      BY <1>4, <1>5, <3>1, <3>2 DEF RegAfter
    <3>4. CASE touched = {}
      <4>1. FirstOf(RegTouches(log, q)) = here
        BY <2>1, <3>1, <3>4
      <4>2. RegBefore(regs, log, q) = m.cpu.regs[r]
        BY <1>4, <1>5, <3>1, <4>1 DEF RegBefore
      <4>3. m.cpu.regs[q] = c.regs[q]
        BY <2>2, <3>4 DEF RegAfter, touched
      <4>. QED  BY <1>3, <2>3, <3>3, <4>2, <4>3
    <3>5. CASE touched # {}
      <4>1. FirstOf(RegTouches(log, q)) = FirstOf(touched) /\ FirstOf(touched) \in touched
        BY <2>1, <3>1, <3>5
      <4>2. RegBefore(regs, log, q) = old[FirstOf(touched)].before
        BY <1>5, <2>0, <3>1, <4>1 DEF RegBefore
      <4>3. c.regs[q] = old[FirstOf(touched)].before
        BY <2>2, <3>5 DEF RegBefore, touched
      <4>. QED  BY <1>3, <2>3, <3>3, <4>2, <4>3
    <3>. QED  BY <3>4, <3>5
  <2>4. CASE q # r
    <3>1. RegTouches(log, q) = touched
      BY <1>2, <1>4, <1>5, <2>4 DEF RegTouches
    <3>2. CASE touched = {}
      BY <1>3, <2>2, <2>4, <3>1, <3>2 DEF RegBefore, RegAfter
    <3>3. CASE touched # {}
      <4>2. /\ log[FirstOf(touched)] = old[FirstOf(touched)]
            /\ log[LastOf(touched)] = old[LastOf(touched)]
        BY <1>5, <2>0, <2>1, <3>3
      <4>. QED  BY <1>3, <2>2, <2>4, <3>1, <3>3, <4>2 DEF RegBefore, RegAfter
    <3>. QED  BY <3>2, <3>3
  <2>. QED  BY <2>3, <2>4
<1>7. ASSUME NEW c \in Cpus, Accounts(c, m)
      PROVE  Accounts(c, n)
  <2>1. RegsAccount(c, n)
    BY <1>1, <1>6, <1>7 DEF Accounts, RegsAccount
  <2>2. Protected(c.mem, n.cpu.mem) /\ MemAccount(c, n)
    BY <1>1, <1>7 DEF Accounts, MemAccount
  <2>. QED  BY <2>1, <2>2 DEF Accounts
<1>. QED  BY <1>7 DEF KeepsAccounts, n

\* A memory that was protected has its regions where they were.
LEMMA CoveringIsKept ==
  ASSUME NEW p, NEW q, Protected(p, q), NEW a, NEW n
  PROVE  Covering(q, a, n) = Covering(p, a, n)
BY DEF Protected, Covering, Covers, RegionEnd

\* What one located cell holds is what the memory holds at the address.
LEMMA LocatedCell ==
  ASSUME NEW mem \in Memories, NEW a \in Word, NEW need,
         Locate(mem, a, 1, need).fault = "none"
  PROVE  /\ a \in Mapped(mem)
         /\ Locate(mem, a, 1, need).region = FirstOf(Covering(mem, a, 1))
         /\ ReadCells(mem, Locate(mem, a, 1, need), 1)[1] = CellAt(mem, a)
<1> DEFINE at == Locate(mem, a, 1, need)
           i == FirstOf(Covering(mem, a, 1))
<1>1. /\ Covering(mem, a, 1) # {} /\ at.region = i /\ at.off = a - mem[i].base
      /\ a \in Mapped(mem)
  BY DEF Locate, NotMapped, Mapped
<1>2. i \in DOMAIN mem /\ at.off \in Nat /\ at.off + 1 <= Len(mem[i].data)
  <2>1. a \in Nat
    BY DEF Word
  <2>. QED  BY <1>1, <2>1, LocateStaysInBounds
<1> HIDE DEF at, i
<1>3. mem[i].data \in Seq(Word) /\ mem[i].base \in Nat
  <2>1. mem[i] \in Regions
    BY <1>2 DEF Memories
  <2>. QED  BY <2>1 DEF Regions, Word
<1>4. ReadCells(mem, at, 1)[1] = CellAt(mem, a)
  BY <1>1, <1>2, <1>3 DEF ReadCells, CellAt, i
<1>. QED  BY <1>1, <1>4 DEF at, i

\* A store of one cell: the cell holds it, and every other cell what it did.
LEMMA StoredCell ==
  ASSUME NEW mem \in Memories, NEW a \in Word, NEW v \in Word,
         Locate(mem, a, 1, "w").fault = "none"
  PROVE  LET at == Locate(mem, a, 1, "w")
         IN  /\ a \in Mapped(mem)
             /\ ReadCells(mem, at, 1)[1] = CellAt(mem, a)
             /\ Protected(mem, WriteCells(mem, at, <<v>>))
             /\ \A x \in Mapped(mem) :
                  CellAt(WriteCells(mem, at, <<v>>), x) = IF x = a THEN v ELSE CellAt(mem, x)
<1> DEFINE at == Locate(mem, a, 1, "w")
           i == FirstOf(Covering(mem, a, 1))
           new == WriteCells(mem, at, <<v>>)
<1>1. /\ Covering(mem, a, 1) # {} /\ at.region = i /\ at.off = a - mem[i].base
      /\ a \in Mapped(mem)
  BY DEF Locate, NotMapped, Mapped
<1>2. i \in DOMAIN mem /\ at.off \in Nat /\ at.off + 1 <= Len(mem[i].data) /\ "w" \in mem[i].perms
  <2>1. a \in Nat
    BY DEF Word
  <2>. QED  BY <1>1, <2>1, LocateStaysInBounds
<1> HIDE DEF at, i
<1>3. mem[i] \in Regions /\ mem[i].data \in Seq(Word) /\ mem[i].base \in Nat
  <2>1. mem[i] \in Regions
    BY <1>2 DEF Memories
  <2>. QED  BY <2>1 DEF Regions, Word
<1>4. ReadCells(mem, at, 1)[1] = CellAt(mem, a)
  BY LocatedCell DEF at
<1>5. Protected(mem, new)
  <2>1. <<v>> \in Seq(Word)
    OBVIOUS
  <2>. QED  BY <1>1, <1>2, <2>1, WriteIsProtected
<1>6. ASSUME NEW x \in Mapped(mem)
      PROVE  CellAt(new, x) = IF x = a THEN v ELSE CellAt(mem, x)
  <2> DEFINE j == FirstOf(Covering(mem, x, 1))
             k == x - mem[j].base + 1
  <2>1. /\ j \in DOMAIN mem /\ k \in DOMAIN mem[j].data /\ x \in Int
        /\ mem[j].base \in Nat
    BY MappedIsInBounds DEF Mapped, Word
  <2>2. CellAt(new, x) = new[j].data[k] /\ CellAt(mem, x) = mem[j].data[k]
    <3>1. FirstOf(Covering(new, x, 1)) = j
      BY <1>5, CoveringIsKept
    <3>2. new[j].base = mem[j].base
      BY <1>5, <2>1 DEF Protected
    <3>3. CellAt(new, x) = new[j].data[x - new[j].base + 1]
      BY <3>1, Zenon DEF CellAt
    <3>4. CellAt(mem, x) = mem[j].data[k]
      BY Zenon DEF CellAt
    <3> HIDE DEF j, new
    <3>. QED  BY <3>2, <3>3, <3>4
  <2>3. x = a => j = i
    BY DEF i
  <2> HIDE DEF j, k
  <2>4. CASE j # i
    <3>1. new[j] = mem[j]
      BY <1>1, <1>2, <2>1, <2>4 DEF WriteCells
    <3>. QED  BY <2>2, <2>3, <2>4, <3>1
  <2>5. CASE j = i
    <3> DEFINE c == <<v>>
    <3>1. new[j].data = Overwrite(mem[i].data, at.off, c)
      <4>1. new[j] = [mem[i] EXCEPT !.data = Overwrite(mem[i].data, at.off, c)]
        BY <1>1, <1>2, <2>5 DEF WriteCells, Memories
      <4>. QED  BY <1>3, <4>1 DEF Regions
    <3>2. DOMAIN c = {1} /\ c[1] = v
      OBVIOUS
    <3> HIDE DEF c, new
    <3>3. new[j].data[k] = IF k - at.off \in DOMAIN c THEN c[k - at.off] ELSE mem[i].data[k]
      BY <2>1, <2>5, <3>1 DEF Overwrite
    <3>4. k - at.off = x - a + 1
      <4> DEFINE base == mem[i].base
      <4>1. base \in Int /\ a \in Int /\ x \in Int
        BY <1>3, <2>1 DEF Word
      <4>2. k = x - base + 1 /\ at.off = a - base
        BY <1>1, <2>5 DEF k
      <4> HIDE DEF base
      <4>. QED  BY <4>1, <4>2
    <3>5. x - a + 1 \in DOMAIN c <=> x = a
      BY <2>1, <3>2 DEF Word
    <3>. QED  BY <2>1, <2>2, <2>5, <3>2, <3>3, <3>4, <3>5
  <2>. QED  BY <2>4, <2>5
<1>. QED  BY <1>1, <1>4, <1>5, <1>6 DEF at

\* A store of one cell keeps the account of the memory.
LEMMA StoreKeepsAccounts ==
  ASSUME NEW m \in Steps, NEW a \in Word, NEW v \in Word
  PROVE  KeepsAccounts(m, Store(m, a, <<v>>))
<1> DEFINE mem == m.cpu.mem
           at == Locate(mem, a, 1, "w")
           write == [addr |-> a, before |-> ReadCells(mem, at, 1), after |-> <<v>>]
           new == WriteCells(mem, at, <<v>>)
           old == m.memWrites
           log == Append(old, write)
           n == Store(m, a, <<v>>)
           here == Len(old) + 1
<1>1. /\ mem \in Memories /\ old \in Seq(MemWrites) /\ Len(old) \in Nat
      /\ DOMAIN old = 1 .. Len(old) /\ Len(<<v>>) = 1
  BY DEF Steps, Cpus
<1>2. CASE at.fault # "none"
  <2>1. n = Raise(m, at.fault)
    BY <1>1, <1>2 DEF Store, Unless
  <2>. QED  BY <2>1, SameLogsKeepAccounts DEF Raise, Steps
<1>3. CASE at.fault = "none"
  <2>1. /\ n.cpu.regs = m.cpu.regs /\ n.cpu.mem = new
        /\ n.regWrites = m.regWrites /\ n.memWrites = log
    <3>1. n = [m EXCEPT !.cpu = [m.cpu EXCEPT !.mem = new], !.memWrites = log]
      BY <1>1, <1>3 DEF Store, Unless
    <3> HIDE DEF n, new, log
    <3>. QED  BY <3>1 DEF Steps, Cpus
  <2>2. /\ ReadCells(mem, at, 1)[1] = CellAt(mem, a)
        /\ Protected(mem, new)
        /\ \A x \in Mapped(mem) : CellAt(new, x) = IF x = a THEN v ELSE CellAt(mem, x)
    BY <1>1, <1>3, StoredCell
  <2>3. /\ write.addr = a /\ write.before[1] = CellAt(mem, a)
        /\ write.after[1] = v /\ DOMAIN write.after = {1}
    BY <2>2
  <2> HIDE DEF n, new, write, at
  <2>4. /\ DOMAIN log = 1 .. here /\ log[here] = write
        /\ \A j \in 1 .. Len(old) : log[j] = old[j]
    BY <1>1
  <2> HIDE DEF log
  <2>5. ASSUME NEW c \in Cpus, Protected(c.mem, mem), MemAccount(c, m), NEW x \in Mapped(c.mem)
        PROVE  /\ CellAt(c.mem, x) = MemBefore(new, log, x)
               /\ CellAt(new, x) = MemAfter(c.mem, log, x)
    <3> DEFINE touched == MemTouches(old, x)
    <3>0. touched \in SUBSET (1 .. Len(old))
      BY <1>1 DEF MemTouches
    <3>1. /\ LastOf(touched \cup {here}) = here /\ FirstOf({here}) = here
          /\ touched # {} => /\ FirstOf(touched \cup {here}) = FirstOf(touched)
                             /\ FirstOf(touched) \in touched /\ LastOf(touched) \in touched
      BY <1>1, <3>0, LaterTouch
    <3>2. /\ CellAt(c.mem, x) = MemBefore(mem, old, x)
          /\ CellAt(mem, x) = MemAfter(c.mem, old, x)
      BY <2>5 DEF MemAccount
    <3>3. x \in Mapped(mem) /\ x \in Int
      BY <2>5, CoveringIsKept DEF Mapped, Word
    <3>4. CASE x = a
      <4>1. MemTouches(log, x) = touched \cup {here}
        <5>1. x - a + 1 = 1
          BY <3>3, <3>4
        <5>. QED  BY <1>1, <2>3, <2>4, <5>1 DEF MemTouches
      <4> HIDE DEF touched
      <4>2. LastOf(MemTouches(log, x)) = here
        BY <3>1, <4>1
      <4>3. x - log[here].addr + 1 = 1
        BY <2>3, <2>4, <3>3, <3>4
      <4>4. MemAfter(c.mem, log, x) = v
        BY <2>3, <2>4, <4>1, <4>2, <4>3 DEF MemAfter
      <4>5. CASE touched = {}
        <5>1. FirstOf(MemTouches(log, x)) = here
          BY <3>1, <4>1, <4>5
        <5>2. MemBefore(new, log, x) = CellAt(mem, a)
          BY <2>3, <2>4, <4>1, <4>3, <5>1 DEF MemBefore
        <5>3. CellAt(mem, x) = CellAt(c.mem, x)
          BY <3>2, <4>5 DEF MemAfter, touched
        <5>. QED  BY <2>2, <3>3, <3>4, <4>4, <5>2, <5>3
      <4>6. CASE touched # {}
        <5>1. FirstOf(MemTouches(log, x)) = FirstOf(touched) /\ FirstOf(touched) \in touched
          BY <3>1, <4>1, <4>6
        <5>2. MemBefore(new, log, x) = old[FirstOf(touched)].before
                                         [x - old[FirstOf(touched)].addr + 1]
          <6>1. log[FirstOf(touched)] = old[FirstOf(touched)]
            BY <2>4, <3>0, <5>1
          <6>2. MemTouches(log, x) # {}
            BY <4>1
          <6>. QED  BY <5>1, <6>1, <6>2 DEF MemBefore
        <5>3. CellAt(c.mem, x) = old[FirstOf(touched)].before
                                   [x - old[FirstOf(touched)].addr + 1]
          BY <3>2, <4>6 DEF MemBefore, touched
        <5>. QED  BY <2>2, <3>3, <3>4, <4>4, <5>2, <5>3
      <4>. QED  BY <4>5, <4>6
    <3>5. CASE x # a
      <4>1. MemTouches(log, x) = touched
        <5>1. x - a + 1 \notin DOMAIN write.after
          BY <2>3, <3>3, <3>5 DEF Word
        <5>2. \A j \in 1 .. here : j \in 1 .. Len(old) \/ j = here
          BY <1>1
        <5>3. 1 .. Len(old) \in SUBSET (1 .. here)
          BY <1>1
        <5>4. here \notin MemTouches(log, x)
          BY <2>3, <2>4, <5>1 DEF MemTouches
        <5> HIDE DEF here
        <5>5. MemTouches(log, x) \in SUBSET (1 .. Len(old))
          BY <2>4, <5>2, <5>4 DEF MemTouches
        <5>6. \A j \in 1 .. Len(old) : j \in MemTouches(log, x) <=> j \in touched
          BY <1>1, <2>4, <5>3 DEF MemTouches
        <5>. QED  BY <3>0, <5>5, <5>6
      <4>2. CASE touched = {}
        BY <2>2, <3>2, <3>3, <3>5, <4>1, <4>2 DEF MemBefore, MemAfter
      <4>3. CASE touched # {}
        <5>2. /\ log[FirstOf(touched)] = old[FirstOf(touched)]
              /\ log[LastOf(touched)] = old[LastOf(touched)]
          BY <2>4, <3>0, <3>1, <4>3
        <5>. QED  BY <2>2, <3>2, <3>3, <3>5, <4>1, <4>3, <5>2 DEF MemBefore, MemAfter
      <4>. QED  BY <4>2, <4>3
    <3>. QED  BY <3>4, <3>5
  <2>6. \A c \in Cpus : Protected(c.mem, mem) => Protected(c.mem, new)
    BY <2>2, ProtectedIsTransitive
  <2>7. ASSUME NEW c \in Cpus, Accounts(c, m)
        PROVE  Accounts(c, n)
    <3>1. Protected(c.mem, mem) /\ RegsAccount(c, m) /\ MemAccount(c, m)
      BY <2>7 DEF Accounts
    <3>2. RegsAccount(c, n)
      BY <2>1, <3>1 DEF RegsAccount
    <3>3. Protected(c.mem, n.cpu.mem)
      BY <2>1, <2>6, <3>1
    <3>4. MemAccount(c, n)
      BY <2>1, <2>5, <3>1 DEF MemAccount
    <3>. QED  BY <3>2, <3>3, <3>4 DEF Accounts
  <2>. QED  BY <2>7 DEF KeepsAccounts, n
<1>. QED  BY <1>2, <1>3

(***************************************************************************)
(* What every operation on a step in progress keeps: it stays a step, the  *)
(* memory stays protected, the machine is not halted, only the decoder     *)
(* reports what cannot be decoded, and the logs stay accounts of it.       *)
(***************************************************************************)
ExecFaults == Faults \ {"decode"}

Evolves(m, n) ==
  /\ n \in Steps
  /\ Protected(m.cpu.mem, n.cpu.mem)
  /\ n.cpu.halt = m.cpu.halt
  /\ n.fault = "decode" => m.fault = "decode"
  /\ KeepsAccounts(m, n)

\* Accounts that are kept are kept by one operation after the other.
LEMMA KeepingAccountsComposes ==
  ASSUME NEW a, NEW b, NEW c, KeepsAccounts(a, b), KeepsAccounts(b, c)
  PROVE  KeepsAccounts(a, c)
BY DEF KeepsAccounts

\* An operation that leaves registers, memory, halt and logs as they were.
LEMMA UntouchedEvolves ==
  ASSUME NEW m, NEW n \in Steps, n.cpu.regs = m.cpu.regs, n.cpu.mem = m.cpu.mem,
         n.cpu.halt = m.cpu.halt, n.regWrites = m.regWrites, n.memWrites = m.memWrites,
         n.fault = "decode" => m.fault = "decode"
  PROVE  Evolves(m, n)
BY SameLogsKeepAccounts, ProtectedIsReflexive DEF Evolves

\* Operations that evolve a step compose.
LEMMA EvolvesIsTransitive ==
  ASSUME NEW a, NEW b, NEW c, Evolves(a, b), Evolves(b, c)
  PROVE  Evolves(a, c)
BY ProtectedIsTransitive, KeepingAccountsComposes DEF Evolves

\* Doing nothing evolves a step.
LEMMA EvolvesIsReflexive ==
  ASSUME NEW m \in Steps
  PROVE  Evolves(m, m)
BY UntouchedEvolves

\* A fault leaves everything but the fault as it was.
LEMMA RaiseIsTyped ==
  ASSUME NEW m \in Steps, NEW f \in Faults
  PROVE  /\ Raise(m, f) \in Steps /\ Raise(m, f).cpu = m.cpu /\ Raise(m, f).fault = f
         /\ Raise(m, f).regWrites = m.regWrites /\ Raise(m, f).memWrites = m.memWrites
BY DEF Raise, Steps

\* A fault of an instruction.
LEMMA RaiseEvolves ==
  ASSUME NEW m \in Steps, NEW f \in ExecFaults
  PROVE  Evolves(m, Raise(m, f)) /\ Raise(m, f).fault = f
<1>1. f \in Faults /\ f # "decode"
  BY DEF ExecFaults
<1>. QED  BY <1>1, RaiseIsTyped, UntouchedEvolves

\* The `?` of the code: an operation guarded by a test for a fault.
LEMMA UnlessEvolves ==
  ASSUME NEW m \in Steps, NEW f \in ExecFaults, NEW next, f = "none" => Evolves(m, next)
  PROVE  Evolves(m, Unless(f, m, next))
BY RaiseEvolves DEF Unless

\* An operation that only happens when the one before did not fault.
LEMMA AfterOkEvolves ==
  ASSUME NEW m \in Steps, NEW next, m.fault = "none" => Evolves(m, next)
  PROVE  Evolves(m, AfterOk(m, next))
BY EvolvesIsReflexive DEF AfterOk

\* Writing the flags touches neither the memory nor the halt.
LEMMA SetFlagsEvolves ==
  ASSUME NEW m \in Steps, NEW f \in Flags
  PROVE  Evolves(m, SetFlags(m, f))
<1>1. /\ SetFlags(m, f) \in Steps
      /\ SetFlags(m, f).cpu.regs = m.cpu.regs /\ SetFlags(m, f).cpu.mem = m.cpu.mem
      /\ SetFlags(m, f).cpu.halt = m.cpu.halt
      /\ SetFlags(m, f).regWrites = m.regWrites /\ SetFlags(m, f).memWrites = m.memWrites
      /\ SetFlags(m, f).fault = m.fault
  BY DEF SetFlags, WithCpu, Steps, Cpus
<1>. QED  BY <1>1, UntouchedEvolves

\* A jump touches neither the memory nor the halt.
LEMMA SetRipEvolves ==
  ASSUME NEW m \in Steps, NEW a \in Word
  PROVE  Evolves(m, SetRip(m, a))
<1>1. /\ SetRip(m, a) \in Steps
      /\ SetRip(m, a).cpu.regs = m.cpu.regs /\ SetRip(m, a).cpu.mem = m.cpu.mem
      /\ SetRip(m, a).cpu.halt = m.cpu.halt
      /\ SetRip(m, a).regWrites = m.regWrites /\ SetRip(m, a).memWrites = m.memWrites
      /\ SetRip(m, a).fault = m.fault
  BY DEF SetRip, WithCpu, Steps, Cpus
<1>. QED  BY <1>1, UntouchedEvolves

\* A register write is logged and touches no memory.
LEMMA PutRegEvolves ==
  ASSUME NEW m \in Steps, NEW r \in Reg, NEW v \in Word
  PROVE  Evolves(m, PutReg(m, r, v))
<1> DEFINE regs == [m.cpu.regs EXCEPT ![r] = v]
           write == [reg |-> r, before |-> m.cpu.regs[r], after |-> v]
           c == [m.cpu EXCEPT !.regs = regs]
<1>1. m.cpu \in Cpus /\ m.regWrites \in Seq(RegWrites)
  BY DEF Steps
<1>2. regs \in [Reg -> Word] /\ write \in RegWrites
  BY <1>1 DEF Cpus, RegWrites
<1>3. c \in Cpus /\ c.mem = m.cpu.mem /\ c.halt = m.cpu.halt
  BY <1>1, <1>2 DEF Cpus
<1> HIDE DEF regs, write, c
<1>4. Append(m.regWrites, write) \in Seq(RegWrites)
  BY <1>1, <1>2
<1>5. PutReg(m, r, v) = [m EXCEPT !.cpu = c, !.regWrites = Append(m.regWrites, write)]
  BY DEF PutReg, c, regs, write
<1>6. PutReg(m, r, v) \in Steps /\ PutReg(m, r, v).cpu = c /\ PutReg(m, r, v).fault = m.fault
  BY <1>3, <1>4, <1>5 DEF Steps
<1>. QED  BY <1>3, <1>6, ProtectedIsReflexive, PutRegKeepsAccounts DEF Evolves

\* The three outcomes of `locate`.
LEMMA LocateFaults ==
  ASSUME NEW mem, NEW addr, NEW n, NEW need
  PROVE  Locate(mem, addr, n, need).fault \in {"none", "notMapped", "permission"}
BY DEF Locate, NotMapped

\* A load that did not fault returned as many cells as it was asked for.
LEMMA LoadedIsTyped ==
  ASSUME NEW m \in Steps, NEW a \in Word, NEW n \in Nat, LoadFault(m, a, n) = "none"
  PROVE  Loaded(m, a, n) \in Seq(Word) /\ Len(Loaded(m, a, n)) = n
<1> DEFINE at == Locate(m.cpu.mem, a, n, "r")
<1>1. m.cpu.mem \in Memories /\ a \in Nat
  BY DEF Steps, Cpus, Word
<1>2. at.region \in DOMAIN m.cpu.mem /\ at.off \in Nat
        /\ at.off + n <= Len(m.cpu.mem[at.region].data)
  BY <1>1, LocateStaysInBounds DEF LoadFault
<1> HIDE DEF at
<1>3. ReadCells(m.cpu.mem, at, n) \in Seq(Word) /\ Len(ReadCells(m.cpu.mem, at, n)) = n
  BY <1>1, <1>2, ReadIsTyped
<1>. QED  BY <1>3 DEF Loaded, at

\* A store is located with the write permission, logged, and protects the memory.
LEMMA StoreEvolves ==
  ASSUME NEW m \in Steps, NEW a \in Word, NEW v \in Word
  PROVE  Evolves(m, Store(m, a, <<v>>))
<1> DEFINE cells == <<v>>
           mem == m.cpu.mem
           at == Locate(mem, a, Len(cells), "w")
           write == [addr |-> a, before |-> ReadCells(mem, at, Len(cells)), after |-> cells]
           c == [m.cpu EXCEPT !.mem = WriteCells(mem, at, cells)]
           n == [m EXCEPT !.cpu = c, !.memWrites = Append(m.memWrites, write)]
<1>1. m.cpu \in Cpus /\ mem \in Memories /\ a \in Nat /\ cells \in Seq(Word)
        /\ Len(cells) \in Nat /\ m.memWrites \in Seq(MemWrites)
  BY DEF Steps, Cpus, Word
<1>0. KeepsAccounts(m, Store(m, a, cells))
  BY StoreKeepsAccounts
<1> HIDE DEF cells
<1>2. at.fault \in ExecFaults
  BY LocateFaults DEF ExecFaults, Faults
<1>3. ASSUME at.fault = "none"
      PROVE  Evolves(m, n)
  <2>0. Store(m, a, cells) = n
    BY <1>3 DEF Store, Unless
  <2>1. /\ at.region \in DOMAIN mem /\ at.off \in Nat
        /\ at.off + Len(cells) <= Len(mem[at.region].data)
        /\ "w" \in mem[at.region].perms
    BY <1>1, <1>3, LocateStaysInBounds
  <2> HIDE DEF at
  <2>2. WriteCells(mem, at, cells) \in Memories /\ Protected(mem, WriteCells(mem, at, cells))
    BY <1>1, <2>1, WriteIsProtected
  <2>3. ReadCells(mem, at, Len(cells)) \in Seq(Word)
    BY <1>1, <2>1, ReadIsTyped
  <2>4. write \in MemWrites
    BY <1>1, <2>3 DEF MemWrites
  <2>5. c \in Cpus /\ c.mem = WriteCells(mem, at, cells) /\ c.halt = m.cpu.halt
    BY <1>1, <2>2 DEF Cpus
  <2> HIDE DEF write, c
  <2>6. Append(m.memWrites, write) \in Seq(MemWrites)
    BY <1>1, <2>4
  <2>7. n \in Steps /\ n.cpu = c /\ n.fault = m.fault
    BY <2>5, <2>6 DEF Steps
  <2>8. KeepsAccounts(m, n)
    BY <1>0, <2>0
  <2> HIDE DEF n
  <2>. QED  BY <2>2, <2>5, <2>7, <2>8 DEF Evolves
<1> HIDE DEF n
<1>4. Evolves(m, Unless(at.fault, m, n))
  BY <1>2, <1>3, UnlessEvolves
<1>. QED  BY <1>4 DEF Store, n, cells

(***************************************************************************)
(* Operands and the stack.                                                 *)
(***************************************************************************)
LEMMA RegIsWord ==
  ASSUME NEW m \in Steps, NEW r \in Reg
  PROVE  RegOf(m, r) \in Word
<1>1. m.cpu.regs \in [Reg -> Word]
  BY DEF Steps, Cpus
<1>. QED  BY <1>1 DEF RegOf

\* An effective address wraps into the address space.
LEMMA AddressIsWord ==
  ASSUME NEW m \in Steps, NEW o \in Operand
  PROVE  EffectiveAddress(m, o) \in Word
<1>1. o.reg \in Reg /\ o.disp \in Int
  BY DEF Operand, Word
<1>2. RegOf(m, o.reg) \in Int
  BY <1>1, RegIsWord DEF Word
<1>3. RegOf(m, o.reg) + o.disp \in Int
  BY <1>1, <1>2
<1>. QED  BY <1>3, TruncIsWord DEF EffectiveAddress, Trunc

\* A load of one cell yields a word.
LEMMA LoadedCellIsWord ==
  ASSUME NEW m \in Steps, NEW a \in Word, LoadFault(m, a, 1) = "none"
  PROVE  Loaded(m, a, 1)[1] \in Word
<1>1. Loaded(m, a, 1) \in Seq(Word) /\ Len(Loaded(m, a, 1)) = 1
  BY LoadedIsTyped
<1>. QED  BY <1>1

\* Reading an operand ends in one of the known faults, or none.
LEMMA ReadFaultIsTyped ==
  ASSUME NEW m, NEW o
  PROVE  ReadFault(m, o) \in ExecFaults
<1>1. LoadFault(m, EffectiveAddress(m, o), 1) \in ExecFaults
  BY LocateFaults DEF LoadFault, ExecFaults, Faults
<1>2. "none" \in ExecFaults /\ "unsupported" \in ExecFaults
  BY DEF ExecFaults, Faults
<1>3. CASE o.mode \in {"reg", "imm"}
  BY <1>2, <1>3, Zenon DEF ReadFault
<1>4. CASE o.mode = "mem"
  BY <1>1, <1>4, Zenon DEF ReadFault
<1>5. CASE o.mode \notin {"reg", "imm", "mem"}
  BY <1>2, <1>5, Zenon DEF ReadFault
<1>. QED  BY <1>3, <1>4, <1>5

\* So does reading two.
LEMMA ReadsFaultIsTyped ==
  ASSUME NEW m, NEW o, NEW p
  PROVE  ReadsFault(m, o, p) \in ExecFaults
BY ReadFaultIsTyped DEF ReadsFault

\* An operand that could be read is a word.
LEMMA ReadIsWord ==
  ASSUME NEW m \in Steps, NEW o \in Operand, ReadFault(m, o) = "none"
  PROVE  ReadOp(m, o) \in Word
<1>1. o.reg \in Reg /\ o.disp \in Word
  BY DEF Operand
<1>2. CASE o.mode = "reg"
  <2>1. ReadOp(m, o) = RegOf(m, o.reg)
    BY <1>2, Zenon DEF ReadOp
  <2>. QED  BY <1>1, <2>1, RegIsWord
<1>3. CASE o.mode = "imm"
  <2>1. ReadOp(m, o) = o.disp
    BY <1>3, Zenon DEF ReadOp
  <2>. QED  BY <1>1, <2>1
<1>4. CASE o.mode \notin {"reg", "imm"}
  <2>1. ReadOp(m, o) = Loaded(m, EffectiveAddress(m, o), 1)[1]
    BY <1>4, Zenon DEF ReadOp
  <2>2. o.mode = "mem"
    <3>1. CASE o.mode # "mem"
      <4>1. ReadFault(m, o) = "unsupported"
        BY <1>4, <3>1, Zenon DEF ReadFault
      <4>. QED  BY <4>1
    <3>. QED  BY <3>1
  <2>3. LoadFault(m, EffectiveAddress(m, o), 1) = "none"
    BY <1>4, <2>2, Zenon DEF ReadFault
  <2>. QED  BY <2>1, <2>3, AddressIsWord, LoadedCellIsWord
<1>. QED  BY <1>2, <1>3, <1>4

\* Two operands that could be read are words.
LEMMA ReadsAreWords ==
  ASSUME NEW m \in Steps, NEW o \in Operand, NEW p \in Operand,
         ReadsFault(m, o, p) = "none"
  PROVE  ReadOp(m, o) \in Word /\ ReadOp(m, p) \in Word
BY ReadIsWord DEF ReadsFault

\* Writing an operand, whatever its kind.
LEMMA WriteOpEvolves ==
  ASSUME NEW m \in Steps, NEW o \in Operand, NEW v \in Word
  PROVE  Evolves(m, WriteOp(m, o, v))
<1>1. o.reg \in Reg
  BY DEF Operand
<1>2. CASE o.mode = "reg"
  <2>1. WriteOp(m, o, v) = PutReg(m, o.reg, v)
    BY <1>2, Zenon DEF WriteOp
  <2>. QED  BY <1>1, <2>1, PutRegEvolves
<1>3. CASE o.mode = "mem"
  <2>1. WriteOp(m, o, v) = Store(m, EffectiveAddress(m, o), <<v>>)
    BY <1>3, Zenon DEF WriteOp
  <2>. QED  BY <2>1, AddressIsWord, StoreEvolves
<1>4. CASE o.mode \notin {"reg", "mem"}
  <2>1. WriteOp(m, o, v) = Raise(m, "unsupported")
    BY <1>4, Zenon DEF WriteOp
  <2>. QED  BY <2>1, RaiseEvolves DEF ExecFaults, Faults
<1>. QED  BY <1>2, <1>3, <1>4

\* Writing after the flags, and setting the flags after a write.
LEMMA FlagsThenWriteEvolves ==
  ASSUME NEW m \in Steps, NEW f \in Flags, NEW o \in Operand, NEW v \in Word
  PROVE  Evolves(m, WriteOp(SetFlags(m, f), o, v))
<1>1. Evolves(m, SetFlags(m, f))
  BY SetFlagsEvolves
<1>2. Evolves(SetFlags(m, f), WriteOp(SetFlags(m, f), o, v))
  BY <1>1, WriteOpEvolves DEF Evolves
<1>. QED  BY <1>1, <1>2, EvolvesIsTransitive

\* The flags are only set when the write did not fault.
LEMMA WriteThenFlagsEvolves ==
  ASSUME NEW m \in Steps, NEW n, Evolves(m, n), NEW f \in Flags
  PROVE  Evolves(m, AfterOk(n, SetFlags(n, f)))
<1>1. n \in Steps
  BY DEF Evolves
<1>2. Evolves(n, AfterOk(n, SetFlags(n, f)))
  BY <1>1, SetFlagsEvolves, AfterOkEvolves
<1>. QED  BY <1>2, EvolvesIsTransitive

\* A push keeps the step one, also when the store behind it faults.
LEMMA PushEvolves ==
  ASSUME NEW m \in Steps, NEW v \in Word
  PROVE  Evolves(m, Push(m, v))
<1> DEFINE sp == Trunc(RegOf(m, "rsp") - 1)
           lowered == PutReg(m, "rsp", sp)
<1>1. sp \in Word
  <2>1. RegOf(m, "rsp") \in Int
    BY RegIsWord DEF Reg, Word
  <2>2. RegOf(m, "rsp") - 1 \in Int
    BY <2>1
  <2>. QED  BY <2>2, TruncIsWord DEF Trunc
<1> HIDE DEF sp
<1>2. Evolves(m, lowered)
  BY <1>1, PutRegEvolves DEF Reg
<1>3. lowered \in Steps
  BY <1>2 DEF Evolves
<1> HIDE DEF lowered
<1>4. Evolves(lowered, Store(lowered, sp, <<v>>))
  BY <1>1, <1>3, StoreEvolves
<1>5. Push(m, v) = Store(lowered, sp, <<v>>)
  BY DEF Push, lowered, sp
<1>. QED  BY <1>2, <1>4, <1>5, EvolvesIsTransitive

\* Raising rsp touches no memory.
LEMMA DropTopEvolves ==
  ASSUME NEW m \in Steps
  PROVE  Evolves(m, DropTop(m))
<1>1. RegOf(m, "rsp") \in Int
  BY RegIsWord DEF Reg, Word
<1>2. RegOf(m, "rsp") + 1 \in Int
  BY <1>1
<1>3. Trunc(RegOf(m, "rsp") + 1) \in Word
  BY <1>2, TruncIsWord DEF Trunc
<1>. QED  BY <1>3, PutRegEvolves DEF DropTop, Reg

\* What a pop loads is a word.
LEMMA PoppedIsWord ==
  ASSUME NEW m \in Steps
  PROVE  PopFault(m) \in ExecFaults /\ (PopFault(m) = "none" => Popped(m) \in Word)
<1>1. RegOf(m, "rsp") \in Word
  BY RegIsWord DEF Reg
<1>2. PopFault(m) \in ExecFaults
  BY LocateFaults DEF PopFault, LoadFault, ExecFaults, Faults
<1>. QED  BY <1>1, <1>2, LoadedCellIsWord DEF PopFault, Popped

\* Writing rax and rdx.
LEMMA PutPairEvolves ==
  ASSUME NEW m \in Steps, NEW low \in Word, NEW high \in Word
  PROVE  Evolves(m, PutPair(m, low, high))
<1>1. Evolves(m, PutReg(m, "rax", low))
  BY PutRegEvolves DEF Reg
<1>2. Evolves(PutReg(m, "rax", low), PutPair(m, low, high))
  BY <1>1, PutRegEvolves DEF Evolves, PutPair, Reg
<1>. QED  BY <1>1, <1>2, EvolvesIsTransitive

\* Setting CF and OF after a write.
LEMMA SetOverflowEvolves ==
  ASSUME NEW m \in Steps, NEW n, Evolves(m, n), NEW b \in BOOLEAN
  PROVE  Evolves(m, SetOverflow(n, b)) /\ Evolves(m, AfterOk(n, SetOverflow(n, b)))
<1>1. n \in Steps /\ n.cpu.flags \in Flags
  BY DEF Evolves, Steps, Cpus
<1>2. [n.cpu.flags EXCEPT !.cf = b, !.of = b] \in Flags
  BY <1>1 DEF Flags
<1>3. Evolves(n, SetOverflow(n, b))
  BY <1>1, <1>2, SetFlagsEvolves DEF SetOverflow
<1>4. Evolves(n, AfterOk(n, SetOverflow(n, b)))
  BY <1>1, <1>3, AfterOkEvolves
<1>. QED  BY <1>3, <1>4, EvolvesIsTransitive

(***************************************************************************)
(* The results of the arithmetic operations.                               *)
(***************************************************************************)
LEMMA BinaryIsTyped ==
  ASSUME NEW op \in BinaryOps \cup CompareOps, NEW a \in Word, NEW b \in Word,
         NEW f \in Flags
  PROVE  BinaryResult(op, a, b, f).val \in Word /\ BinaryResult(op, a, b, f).flags \in Flags
<1>1. b \in Nat /\ f.cf \in BOOLEAN
  BY DEF Word, Flags
<1>2. CASE op = "add"
  <2>1. BinaryResult(op, a, b, f) = Adc(a, b, FALSE, WordBits)
    BY <1>2, Zenon DEF BinaryResult
  <2>. QED  BY <1>1, <2>1, AdcIsTyped
<1>3. CASE op = "adc"
  <2>1. BinaryResult(op, a, b, f) = Adc(a, b, f.cf, WordBits)
    BY <1>3, Zenon DEF BinaryResult
  <2>. QED  BY <1>1, <2>1, AdcIsTyped
<1>4. CASE op \in {"sub", "cmp"}
  <2>1. BinaryResult(op, a, b, f) = Sbb(a, b, FALSE, WordBits)
    BY <1>4, Zenon DEF BinaryResult
  <2>. QED  BY <1>1, <2>1, SbbIsTyped
<1>5. CASE op = "sbb"
  <2>1. BinaryResult(op, a, b, f) = Sbb(a, b, f.cf, WordBits)
    BY <1>5, Zenon DEF BinaryResult
  <2>. QED  BY <1>1, <2>1, SbbIsTyped
<1>6. CASE op = "test"
  <2>1. BinaryResult(op, a, b, f) = LogicOp("and", a, b, WordBits)
    BY <1>6, Zenon DEF BinaryResult
  <2>. QED  BY <2>1, LogicIsTyped DEF LogicOps
<1>7. CASE op \notin {"add", "adc", "sub", "cmp", "sbb", "test"}
  <2>1. BinaryResult(op, a, b, f) = LogicOp(op, a, b, WordBits)
    BY <1>7, Zenon DEF BinaryResult
  <2>2. op \in LogicOps
    BY <1>7 DEF BinaryOps, CompareOps, LogicOps
  <2>. QED  BY <2>1, <2>2, LogicIsTyped
<1>. QED  BY <1>2, <1>3, <1>4, <1>5, <1>6, <1>7

\* The table of powers holds positive numbers.
LEMMA PowersArePositive ==
  ASSUME NEW k \in 0 .. WordBits
  PROVE  Pow2[k] \in Nat \ {0}
OBVIOUS

\* A rotate yields a word.
LEMMA RotateIsWord ==
  ASSUME NEW a \in Word, NEW k \in 0 .. WordBits
  PROVE  RotateLeft(a, k, WordBits) \in Word
<1>1. WordBits - k \in 0 .. WordBits
  OBVIOUS
<1>2. Pow2[k] \in Nat \ {0} /\ Pow2[WordBits - k] \in Nat \ {0} /\ a \in Int
  BY <1>1, PowersArePositive DEF Word
<1>3. a * Pow2[k] \in Int /\ a \div Pow2[WordBits - k] \in Int
  BY <1>2
<1>4. a * Pow2[k] + a \div Pow2[WordBits - k] \in Int
  BY <1>3
<1>. QED  BY <1>4, TruncIsWord, FullWidth DEF RotateLeft

\* A shift by any masked count yields a word.
LEMMA ShiftValueIsWord ==
  ASSUME NEW op, NEW a \in Word, NEW c \in 0 .. WordBits
  PROVE  ShiftValue(op, a, c, WordBits) \in Word
<1>1. Pow2[c] \in Nat \ {0} /\ a \in Nat /\ a < WordMod
  BY PowersArePositive, WordModIsPositive DEF Word
<1>2. c % WordBits \in 0 .. WordBits - 1
  <2>1. c \in Int /\ WordBits \in Nat \ {0}
    OBVIOUS
  <2>. QED  BY <2>1, ModStaysBelow
<1>3. CASE op = "shl"
  <2>1. ShiftValue(op, a, c, WordBits) = (a * Pow2[c]) % WordMod
    BY <1>3, FullWidth, Zenon DEF ShiftValue
  <2>2. a * Pow2[c] \in Int
    BY <1>1
  <2>. QED  BY <2>1, <2>2, TruncIsWord
<1>4. CASE op = "shr"
  <2>1. ShiftValue(op, a, c, WordBits) = a \div Pow2[c]
    BY <1>4, Zenon DEF ShiftValue
  <2>2. a \div Pow2[c] \in Nat /\ a \div Pow2[c] <= a
    BY <1>1, DivShrinks
  <2>. QED  BY <1>1, <2>1, <2>2, WordModIsPositive DEF Word
<1>5. CASE op = "sar"
  <2>1. ShiftValue(op, a, c, WordBits) = (Signed(a, WordBits) \div Pow2[c]) % WordMod
    BY <1>5, FullWidth, Zenon DEF ShiftValue
  <2>2. Signed(a, WordBits) \in Int
    BY SignedIsInt
  <2>3. Signed(a, WordBits) \div Pow2[c] \in Int
    BY <1>1, <2>2
  <2>. QED  BY <2>1, <2>3, TruncIsWord
<1>6. CASE op = "rol"
  <2>1. ShiftValue(op, a, c, WordBits) = RotateLeft(a, c % WordBits, WordBits)
    BY <1>6, Zenon DEF ShiftValue
  <2>2. c % WordBits \in 0 .. WordBits
    BY <1>2
  <2>. QED  BY <2>1, <2>2, RotateIsWord
<1>7. CASE op \notin {"shl", "shr", "sar", "rol"}
  <2>1. ShiftValue(op, a, c, WordBits)
          = IF c % WordBits = 0 THEN a ELSE RotateLeft(a, WordBits - (c % WordBits), WordBits)
    BY <1>7, Zenon DEF ShiftValue
  <2>2. WordBits - (c % WordBits) \in 0 .. WordBits
    BY <1>2
  <2>. QED  BY <2>1, <2>2, RotateIsWord
<1>. QED  BY <1>3, <1>4, <1>5, <1>6, <1>7

\* A shift or rotate yields a word and flags.
LEMMA ShiftIsTyped ==
  ASSUME NEW op \in ShiftOps, NEW a \in Word, NEW raw \in Word, NEW f \in Flags
  PROVE  LET r == Shift(op, a, raw, f, WordBits)
         IN  r.val \in Word /\ r.flags \in Flags
<1> DEFINE c == ShiftCount(raw, WordBits)
           v == ShiftValue(op, a, c, WordBits)
           carry == ShiftCarry(op, a, c, WordBits)
           over == ShiftOverflow(op, a, c, WordBits)
<1>1. c \in 0 .. WordBits
  <2>1. raw % WordBits \in 0 .. WordBits - 1
    BY ModStaysBelow DEF Word
  <2>. QED  BY <2>1 DEF ShiftCount
<1> HIDE DEF c
<1>2. v \in Word
  BY <1>1, ShiftValueIsWord
<1>3. carry \in BOOLEAN
  <2>1. CASE op = "shl"
    BY <2>1, Zenon DEF ShiftCarry
  <2>2. CASE op \in {"shr", "sar"}
    BY <2>2, Zenon DEF ShiftCarry, BitOf
  <2>3. CASE op = "rol"
    BY <2>3, Zenon DEF ShiftCarry, BitOf
  <2>4. CASE op \notin {"shl", "shr", "sar", "rol"}
    <3>1. carry = Negative(v, WordBits)
      BY <2>4, Zenon DEF ShiftCarry
    <3>2. Negative(v, WordBits) \in BOOLEAN
      BY <1>2, FullWidth DEF Negative, Word
    <3>. QED  BY <3>1, <3>2, Zenon
  <2>. QED  BY <2>1, <2>2, <2>3, <2>4
<1>4. over \in BOOLEAN
  <2>1. CASE op \in {"shl", "rol"}
    BY <2>1, Zenon DEF ShiftOverflow
  <2>2. CASE op = "shr"
    <3>1. over = Negative(a, WordBits)
      BY <2>2, Zenon DEF ShiftOverflow
    <3>2. Negative(a, WordBits) \in BOOLEAN
      BY FullWidth DEF Negative, Word
    <3>. QED  BY <3>1, <3>2, Zenon
  <2>3. CASE op = "sar"
    BY <2>3, Zenon DEF ShiftOverflow
  <2>4. CASE op \notin {"shl", "rol", "shr", "sar"}
    BY <2>4, Zenon DEF ShiftOverflow
  <2>. QED  BY <2>1, <2>2, <2>3, <2>4
<1>5. (v = 0) \in BOOLEAN /\ Negative(v, WordBits) \in BOOLEAN
  BY <1>2, FullWidth DEF Negative, Word
<1> HIDE DEF v, carry, over
<1>. QED  BY <1>2, <1>3, <1>4, <1>5 DEF Shift, Flags, c, v, carry, over

(***************************************************************************)
(* The instructions.                                                       *)
(***************************************************************************)
LEMMA OperandsOf ==
  ASSUME NEW i \in Instruction
  PROVE  i.dst \in Operand /\ i.src \in Operand
BY DEF Instruction

\* The flags of a step are flags.
LEMMA FlagsOf ==
  ASSUME NEW m \in Steps
  PROVE  m.cpu.flags \in Flags
BY DEF Steps, Cpus

\* The result of a two-operand operation is a word with flags.
LEMMA ComputeIsTyped ==
  ASSUME NEW m \in Steps, NEW i \in Instruction, i.op \in BinaryOps \cup CompareOps,
         ReadsFault(m, i.dst, i.src) = "none"
  PROVE  Compute(m, i).val \in Word /\ Compute(m, i).flags \in Flags
<1>1. ReadOp(m, i.dst) \in Word /\ ReadOp(m, i.src) \in Word
  BY OperandsOf, ReadsAreWords
<1>. QED  BY <1>1, FlagsOf, BinaryIsTyped DEF Compute

\* add, adc, sub, sbb, and, or, xor.
LEMMA BinaryEvolves ==
  ASSUME NEW m \in Steps, NEW i \in Instruction, i.op \in BinaryOps
  PROVE  Evolves(m, ExecBinary(m, i))
<1>1. ReadsFault(m, i.dst, i.src) = "none" =>
        Evolves(m, WriteOp(SetFlags(m, Compute(m, i).flags), i.dst, Compute(m, i).val))
  BY OperandsOf, ComputeIsTyped, FlagsThenWriteEvolves
<1>. QED  BY <1>1, ReadsFaultIsTyped, UnlessEvolves DEF ExecBinary

\* cmp and test.
LEMMA CompareEvolves ==
  ASSUME NEW m \in Steps, NEW i \in Instruction, i.op \in CompareOps
  PROVE  Evolves(m, ExecCompare(m, i))
<1>1. ReadsFault(m, i.dst, i.src) = "none" => Evolves(m, SetFlags(m, Compute(m, i).flags))
  BY ComputeIsTyped, SetFlagsEvolves
<1>. QED  BY <1>1, ReadsFaultIsTyped, UnlessEvolves DEF ExecCompare

\* not, neg, inc and dec.
LEMMA UnaryEvolves ==
  ASSUME NEW m \in Steps, NEW i \in Instruction
  PROVE  Evolves(m, ExecUnary(m, i))
<1> DEFINE r == UnaryResult(i.op, ReadOp(m, i.dst), m.cpu.flags)
<1>1. ReadFault(m, i.dst) = "none" => r.val \in Word /\ r.flags \in Flags
  BY OperandsOf, ReadIsWord, FlagsOf, UnaryIsTyped
<1> HIDE DEF r
<1>2. ReadFault(m, i.dst) = "none" => Evolves(m, WriteOp(SetFlags(m, r.flags), i.dst, r.val))
  BY <1>1, OperandsOf, FlagsThenWriteEvolves
<1>3. Evolves(m, Unless(ReadFault(m, i.dst), m, WriteOp(SetFlags(m, r.flags), i.dst, r.val)))
  BY <1>2, ReadFaultIsTyped, UnlessEvolves
<1>. QED  BY <1>3 DEF ExecUnary, r

\* The unsigned multiply into rdx:rax.
LEMMA MulEvolves ==
  ASSUME NEW m \in Steps, NEW i \in Instruction
  PROVE  Evolves(m, ExecMul(m, i))
<1> DEFINE p == Product(RegOf(m, "rax"), ReadOp(m, i.dst), WordBits)
<1>1. ASSUME ReadFault(m, i.dst) = "none"
      PROVE  Evolves(m, SetOverflow(PutPair(m, p.low, p.high), p.high # 0))
  <2>1. RegOf(m, "rax") \in Int /\ ReadOp(m, i.dst) \in Int
    BY <1>1, OperandsOf, ReadIsWord, RegIsWord DEF Reg, Word
  <2>2. p.low \in Word /\ p.high \in Word
    BY <2>1, ProductIsTyped
  <2> HIDE DEF p
  <2>3. Evolves(m, PutPair(m, p.low, p.high))
    BY <2>2, PutPairEvolves
  <2>. QED  BY <2>3, SetOverflowEvolves
<1>. QED  BY <1>1, ReadFaultIsTyped, UnlessEvolves DEF ExecMul

\* The signed multiply into rdx:rax.
LEMMA ImulEvolves ==
  ASSUME NEW m \in Steps, NEW i \in Instruction
  PROVE  Evolves(m, ExecImul(m, i))
<1> DEFINE a == Signed(RegOf(m, "rax"), WordBits)
           b == Signed(ReadOp(m, i.dst), WordBits)
           p == Product(a, b, WordBits)
<1>1. ASSUME ReadFault(m, i.dst) = "none"
      PROVE  Evolves(m, SetOverflow(PutPair(m, p.low, p.high), Signed(p.low, WordBits) # a * b))
  <2>1. a \in Int /\ b \in Int
    BY <1>1, OperandsOf, ReadIsWord, RegIsWord, SignedIsInt DEF Reg
  <2> HIDE DEF a, b
  <2>2. p.low \in Word /\ p.high \in Word
    BY <2>1, ProductIsTyped
  <2> HIDE DEF p
  <2>3. Evolves(m, PutPair(m, p.low, p.high))
    BY <2>2, PutPairEvolves
  <2>. QED  BY <2>3, SetOverflowEvolves
<1>. QED  BY <1>1, ReadFaultIsTyped, UnlessEvolves DEF ExecImul

\* The two-operand multiply.
LEMMA Imul2Evolves ==
  ASSUME NEW m \in Steps, NEW i \in Instruction
  PROVE  Evolves(m, ExecImul2(m, i))
<1> DEFINE a == Signed(ReadOp(m, i.dst), WordBits)
           b == Signed(ReadOp(m, i.src), WordBits)
           low == Trunc(a * b)
           written == WriteOp(m, i.dst, low)
           next == AfterOk(written, SetOverflow(written, Signed(low, WordBits) # a * b))
<1>1. ASSUME ReadsFault(m, i.dst, i.src) = "none"
      PROVE  Evolves(m, next)
  <2>1. a \in Int /\ b \in Int
    BY <1>1, OperandsOf, ReadsAreWords, SignedIsInt
  <2> HIDE DEF a, b
  <2>2. a * b \in Int
    BY <2>1
  <2>3. low \in Word
    BY <2>2, TruncIsWord DEF Trunc
  <2> HIDE DEF low
  <2>4. Evolves(m, written)
    BY <2>3, OperandsOf, WriteOpEvolves
  <2> HIDE DEF written
  <2>. QED  BY <2>4, SetOverflowEvolves
<1>2. Evolves(m, Unless(ReadsFault(m, i.dst, i.src), m, next))
  BY <1>1, ReadsFaultIsTyped, UnlessEvolves
<1>. QED  BY <1>2 DEF ExecImul2

\* Both divisions, the divide fault included.
LEMMA DivEvolves ==
  ASSUME NEW m \in Steps, NEW i \in Instruction
  PROVE  Evolves(m, ExecDiv(m, i))
<1> DEFINE signed == i.op = "idiv"
           r == Divide(signed, RegOf(m, "rdx"), RegOf(m, "rax"), ReadOp(m, i.dst), WordBits)
<1>1. ASSUME ReadFault(m, i.dst) = "none"
      PROVE  Evolves(m, Unless(r.fault, m, PutPair(m, r.quot, r.rem)))
  <2>1. RegOf(m, "rdx") \in Word /\ RegOf(m, "rax") \in Word /\ ReadOp(m, i.dst) \in Word
    BY <1>1, OperandsOf, ReadIsWord, RegIsWord DEF Reg
  <2>2. signed \in BOOLEAN
    OBVIOUS
  <2> HIDE DEF signed
  <2>3. r.fault \in {"none", "divide"} /\ r.quot \in Word /\ r.rem \in Word
    BY <2>1, <2>2, DivideIsTyped
  <2>4. r.fault \in ExecFaults
    BY <2>3 DEF ExecFaults, Faults
  <2> HIDE DEF r
  <2>. QED  BY <2>3, <2>4, PutPairEvolves, UnlessEvolves
<1>. QED  BY <1>1, ReadFaultIsTyped, UnlessEvolves DEF ExecDiv

\* cqo.
LEMMA CqoEvolves ==
  ASSUME NEW m \in Steps
  PROVE  Evolves(m, ExecCqo(m))
<1>1. 0 \in Word /\ WordMod - 1 \in Word
  BY WordModIsPositive DEF Word
<1>. QED  BY <1>1, PutRegEvolves DEF ExecCqo, Reg

\* Shifts and rotates.
LEMMA ShiftEvolves ==
  ASSUME NEW m \in Steps, NEW i \in Instruction, i.op \in ShiftOps
  PROVE  Evolves(m, ExecShift(m, i))
<1> DEFINE r == Shift(i.op, ReadOp(m, i.dst), ReadOp(m, i.src), m.cpu.flags, WordBits)
           written == WriteOp(m, i.dst, r.val)
<1>1. ASSUME ReadsFault(m, i.dst, i.src) = "none"
      PROVE  Evolves(m, AfterOk(written, SetFlags(written, r.flags)))
  <2>1. r.val \in Word /\ r.flags \in Flags
    BY <1>1, OperandsOf, ReadsAreWords, FlagsOf, ShiftIsTyped
  <2> HIDE DEF r
  <2>2. Evolves(m, written)
    BY <2>1, OperandsOf, WriteOpEvolves
  <2> HIDE DEF written
  <2>. QED  BY <2>1, <2>2, WriteThenFlagsEvolves
<1>. QED  BY <1>1, ReadsFaultIsTyped, UnlessEvolves DEF ExecShift

\* mov.
LEMMA MovEvolves ==
  ASSUME NEW m \in Steps, NEW i \in Instruction
  PROVE  Evolves(m, ExecMov(m, i))
<1>1. ReadFault(m, i.src) = "none" => Evolves(m, WriteOp(m, i.dst, ReadOp(m, i.src)))
  BY OperandsOf, ReadIsWord, WriteOpEvolves
<1>. QED  BY <1>1, ReadFaultIsTyped, UnlessEvolves DEF ExecMov

\* lea.
LEMMA LeaEvolves ==
  ASSUME NEW m \in Steps, NEW i \in Instruction
  PROVE  Evolves(m, ExecLea(m, i))
BY OperandsOf, AddressIsWord, WriteOpEvolves, RaiseEvolves DEF ExecLea, ExecFaults, Faults

\* xchg, whose second write happens on what the first one did.
LEMMA XchgEvolves ==
  ASSUME NEW m \in Steps, NEW i \in Instruction
  PROVE  Evolves(m, ExecXchg(m, i))
<1> DEFINE first == WriteOp(m, i.dst, ReadOp(m, i.src))
           next == AfterOk(first, WriteOp(first, i.src, ReadOp(m, i.dst)))
<1>1. ASSUME ReadsFault(m, i.dst, i.src) = "none"
      PROVE  Evolves(m, next)
  <2>1. ReadOp(m, i.dst) \in Word /\ ReadOp(m, i.src) \in Word
    BY <1>1, OperandsOf, ReadsAreWords
  <2>2. Evolves(m, first)
    BY <2>1, OperandsOf, WriteOpEvolves
  <2>3. first \in Steps
    BY <2>2 DEF Evolves
  <2> HIDE DEF first
  <2>4. Evolves(first, next)
    BY <2>1, <2>3, OperandsOf, WriteOpEvolves, AfterOkEvolves
  <2>. QED  BY <2>2, <2>4, EvolvesIsTransitive
<1>. QED  BY <1>1, ReadsFaultIsTyped, UnlessEvolves DEF ExecXchg

\* cmov, taken or not.
LEMMA CmovEvolves ==
  ASSUME NEW m \in Steps, NEW i \in Instruction
  PROVE  Evolves(m, ExecCmov(m, i))
<1> DEFINE next == IF Holds(i.cond, m.cpu.flags) THEN WriteOp(m, i.dst, ReadOp(m, i.src)) ELSE m
<1>1. ReadFault(m, i.src) = "none" => Evolves(m, WriteOp(m, i.dst, ReadOp(m, i.src)))
  BY OperandsOf, ReadIsWord, WriteOpEvolves
<1>2. ReadFault(m, i.src) = "none" => Evolves(m, next)
  BY <1>1, EvolvesIsReflexive
<1> HIDE DEF next
<1>3. Evolves(m, Unless(ReadFault(m, i.src), m, next))
  BY <1>2, ReadFaultIsTyped, UnlessEvolves
<1>. QED  BY <1>3 DEF ExecCmov, next

\* push.
LEMMA ExecPushEvolves ==
  ASSUME NEW m \in Steps, NEW i \in Instruction
  PROVE  Evolves(m, ExecPush(m, i))
<1>1. ReadFault(m, i.dst) = "none" => Evolves(m, Push(m, ReadOp(m, i.dst)))
  BY OperandsOf, ReadIsWord, PushEvolves
<1>. QED  BY <1>1, ReadFaultIsTyped, UnlessEvolves DEF ExecPush

\* pop, which raises rsp before it writes.
LEMMA ExecPopEvolves ==
  ASSUME NEW m \in Steps, NEW i \in Instruction
  PROVE  Evolves(m, ExecPop(m, i))
<1>1. ASSUME PopFault(m) = "none"
      PROVE  Evolves(m, WriteOp(DropTop(m), i.dst, Popped(m)))
  <2>1. Evolves(m, DropTop(m)) /\ DropTop(m) \in Steps
    BY DropTopEvolves DEF Evolves
  <2>2. Evolves(DropTop(m), WriteOp(DropTop(m), i.dst, Popped(m)))
    BY <1>1, <2>1, PoppedIsWord, OperandsOf, WriteOpEvolves
  <2>. QED  BY <2>1, <2>2, EvolvesIsTransitive
<1>. QED  BY <1>1, PoppedIsWord, UnlessEvolves DEF ExecPop

\* leave, which moves rsp before the pop that can fault.
LEMMA LeaveEvolves ==
  ASSUME NEW m \in Steps
  PROVE  Evolves(m, ExecLeave(m))
<1> DEFINE framed == PutReg(m, "rsp", RegOf(m, "rbp"))
           next == PutReg(DropTop(framed), "rbp", Popped(framed))
<1>1. Evolves(m, framed) /\ framed \in Steps
  BY RegIsWord, PutRegEvolves DEF Reg, Evolves
<1> HIDE DEF framed
<1>2. ASSUME PopFault(framed) = "none"
      PROVE  Evolves(framed, next)
  <2>1. Evolves(framed, DropTop(framed)) /\ DropTop(framed) \in Steps
    BY <1>1, DropTopEvolves DEF Evolves
  <2>2. Evolves(DropTop(framed), next)
    BY <1>1, <1>2, <2>1, PoppedIsWord, PutRegEvolves DEF Reg
  <2>. QED  BY <2>1, <2>2, EvolvesIsTransitive
<1>3. Evolves(framed, Unless(PopFault(framed), framed, next))
  BY <1>1, <1>2, PoppedIsWord, UnlessEvolves
<1>4. Evolves(m, Unless(PopFault(framed), framed, next))
  BY <1>1, <1>3, EvolvesIsTransitive
<1>. QED  BY <1>4 DEF ExecLeave, framed

\* The destination of a branch, when it could be read, is a word.
LEMMA BranchIsTyped ==
  ASSUME NEW m \in Steps, NEW o \in Operand
  PROVE  BranchFault(m, o) \in ExecFaults /\ (BranchFault(m, o) = "none" => BranchDest(m, o) \in Word)
<1>1. BranchFault(m, o) \in ExecFaults
  BY ReadFaultIsTyped DEF BranchFault, ExecFaults, Faults
<1>2. CASE o.mode = "rel"
  <2>1. m.cpu.rip \in Int /\ o.disp \in Int
    BY DEF Steps, Cpus, Operand, Word
  <2>2. m.cpu.rip + o.disp \in Int
    BY <2>1
  <2>. QED  BY <1>1, <1>2, <2>2, TruncIsWord DEF BranchDest, Trunc
<1>3. CASE o.mode # "rel"
  BY <1>1, <1>3, ReadIsWord DEF BranchFault, BranchDest
<1>. QED  BY <1>2, <1>3

\* jmp.
LEMMA JmpEvolves ==
  ASSUME NEW m \in Steps, NEW i \in Instruction
  PROVE  Evolves(m, ExecJmp(m, i))
<1>1. BranchFault(m, i.dst) = "none" => Evolves(m, SetRip(m, BranchDest(m, i.dst)))
  BY OperandsOf, BranchIsTyped, SetRipEvolves
<1>. QED  BY <1>1, OperandsOf, BranchIsTyped, UnlessEvolves DEF ExecJmp

\* A conditional jump, taken or not.
LEMMA JccEvolves ==
  ASSUME NEW m \in Steps, NEW i \in Instruction
  PROVE  Evolves(m, ExecJcc(m, i))
<1>1. CASE ~Holds(i.cond, m.cpu.flags)
  <2>1. ExecJcc(m, i) = m
    BY <1>1, Zenon DEF ExecJcc
  <2>. QED  BY <2>1, EvolvesIsReflexive
<1>2. CASE Holds(i.cond, m.cpu.flags) /\ i.dst.mode = "rel"
  <2>1. ExecJcc(m, i) = SetRip(m, BranchDest(m, i.dst))
    BY <1>2, Zenon DEF ExecJcc
  <2>2. BranchFault(m, i.dst) = "none"
    BY <1>2 DEF BranchFault
  <2>. QED  BY <2>1, <2>2, OperandsOf, BranchIsTyped, SetRipEvolves
<1>3. CASE Holds(i.cond, m.cpu.flags) /\ i.dst.mode # "rel"
  <2>1. ExecJcc(m, i) = Raise(m, "unsupported")
    BY <1>3, Zenon DEF ExecJcc
  <2>. QED  BY <2>1, RaiseEvolves DEF ExecFaults, Faults
<1>. QED  BY <1>1, <1>2, <1>3

\* call, which jumps only when the push did not fault.
LEMMA CallEvolves ==
  ASSUME NEW m \in Steps, NEW i \in Instruction
  PROVE  Evolves(m, ExecCall(m, i))
<1> DEFINE pushed == Push(m, m.cpu.rip)
           dest == BranchDest(m, i.dst)
           next == AfterOk(pushed, SetRip(pushed, dest))
<1>1. Evolves(m, pushed) /\ pushed \in Steps
  BY PushEvolves DEF Steps, Cpus, Evolves
<1> HIDE DEF pushed
<1>2. ASSUME BranchFault(m, i.dst) = "none"
      PROVE  Evolves(m, next)
  <2>1. dest \in Word
    BY <1>2, OperandsOf, BranchIsTyped
  <2>2. Evolves(pushed, next)
    BY <1>1, <2>1, SetRipEvolves, AfterOkEvolves
  <2>. QED  BY <1>1, <2>2, EvolvesIsTransitive
<1> HIDE DEF next
<1>3. Evolves(m, Unless(BranchFault(m, i.dst), m, next))
  BY <1>2, OperandsOf, BranchIsTyped, UnlessEvolves
<1>. QED  BY <1>3 DEF ExecCall, pushed, next, dest

\* ret, with and without an immediate.
LEMMA RetEvolves ==
  ASSUME NEW m \in Steps, NEW i \in Instruction
  PROVE  Evolves(m, ExecRet(m, i))
<1> DEFINE popped == DropTop(m)
           dropped == IF i.dst.mode = "imm"
                        THEN PutReg(popped, "rsp", Trunc(RegOf(popped, "rsp") + i.dst.disp))
                        ELSE popped
<1>1. Evolves(m, popped) /\ popped \in Steps
  BY DropTopEvolves DEF Evolves
<1> HIDE DEF popped
<1>2. Evolves(m, dropped) /\ dropped \in Steps
  <2>1. RegOf(popped, "rsp") \in Int /\ i.dst.disp \in Int
    <3>1. RegOf(popped, "rsp") \in Word
      BY <1>1, RegIsWord DEF Reg
    <3>2. i.dst.disp \in Word
      BY OperandsOf DEF Operand
    <3>. QED  BY <3>1, <3>2 DEF Word
  <2>2. RegOf(popped, "rsp") + i.dst.disp \in Int
    BY <2>1
  <2>3. Trunc(RegOf(popped, "rsp") + i.dst.disp) \in Word
    BY <2>2, TruncIsWord DEF Trunc
  <2>4. Evolves(popped, dropped)
    BY <1>1, <2>3, PutRegEvolves, EvolvesIsReflexive DEF Reg
  <2>. QED  BY <1>1, <2>4, EvolvesIsTransitive DEF Evolves
<1> HIDE DEF dropped
<1>3. ASSUME PopFault(m) = "none"
      PROVE  Evolves(m, SetRip(dropped, Popped(m)))
  <2>1. Evolves(dropped, SetRip(dropped, Popped(m)))
    BY <1>2, <1>3, PoppedIsWord, SetRipEvolves
  <2>. QED  BY <1>2, <2>1, EvolvesIsTransitive
<1>4. Evolves(m, Unless(PopFault(m), m, SetRip(dropped, Popped(m))))
  BY <1>3, PoppedIsWord, UnlessEvolves
<1>. QED  BY <1>4 DEF ExecRet, popped, dropped

\* The write system call, to a known descriptor or not.
LEMMA WriteSyscallEvolves ==
  ASSUME NEW m \in Steps
  PROVE  Evolves(m, ExecWrite(m))
<1> DEFINE fd == RegOf(m, "rdi")
           count == RegOf(m, "rdx")
           buf == RegOf(m, "rsi")
           bytes == Loaded(m, buf, count)
           c == IF fd = Stdout THEN [m.cpu EXCEPT !.stdout = m.cpu.stdout \o bytes]
                               ELSE [m.cpu EXCEPT !.stderr = m.cpu.stderr \o bytes]
           printed == WithCpu(m, c)
           next == IF fd \in {Stdout, Stderr} THEN PutReg(printed, "rax", count)
                                              ELSE Raise(m, "syscall")
<1>1. count \in Word /\ buf \in Word /\ count \in Nat
  BY RegIsWord DEF Reg, Word
<1> HIDE DEF fd, count, buf
<1>2. ASSUME LoadFault(m, buf, count) = "none"
      PROVE  Evolves(m, next)
  <2>1. bytes \in Seq(Word)
    BY <1>1, <1>2, LoadedIsTyped
  <2> HIDE DEF bytes
  <2>2. m.cpu \in Cpus /\ m.cpu.stdout \in Seq(Word) /\ m.cpu.stderr \in Seq(Word)
    BY DEF Steps, Cpus
  <2>3. m.cpu.stdout \o bytes \in Seq(Word) /\ m.cpu.stderr \o bytes \in Seq(Word)
    BY <2>1, <2>2
  <2>4. c \in Cpus /\ c.regs = m.cpu.regs /\ c.mem = m.cpu.mem /\ c.halt = m.cpu.halt
    BY <2>2, <2>3 DEF Cpus
  <2> HIDE DEF c
  <2>5. /\ printed \in Steps /\ printed.cpu = c /\ printed.fault = m.fault
        /\ printed.regWrites = m.regWrites /\ printed.memWrites = m.memWrites
    BY <2>4 DEF WithCpu, Steps
  <2>6. Evolves(m, printed)
    BY <2>4, <2>5, UntouchedEvolves
  <2> HIDE DEF printed
  <2>7. Evolves(printed, PutReg(printed, "rax", count))
    BY <1>1, <2>5, PutRegEvolves DEF Reg
  <2>8. Evolves(m, PutReg(printed, "rax", count))
    BY <2>6, <2>7, EvolvesIsTransitive
  <2>. QED  BY <2>8, RaiseEvolves DEF ExecFaults, Faults
<1> HIDE DEF next
<1>3. Evolves(m, Unless(LoadFault(m, buf, count), m, next))
  BY <1>2, LocateFaults, UnlessEvolves DEF LoadFault, ExecFaults, Faults
<1>. QED  BY <1>3 DEF ExecWrite, fd, count, buf, bytes, c, printed, next

\* Halting touches neither registers nor memory, neither the logs nor the fault.
LEMMA SetHaltIsTyped ==
  ASSUME NEW m \in Steps, NEW h \in Halts
  PROVE  /\ SetHalt(m, h) \in Steps
         /\ SetHalt(m, h).cpu.mem = m.cpu.mem
         /\ SetHalt(m, h).fault = m.fault
         /\ KeepsAccounts(m, SetHalt(m, h))
<1>1. /\ SetHalt(m, h) \in Steps
      /\ SetHalt(m, h).cpu.regs = m.cpu.regs /\ SetHalt(m, h).cpu.mem = m.cpu.mem
      /\ SetHalt(m, h).regWrites = m.regWrites /\ SetHalt(m, h).memWrites = m.memWrites
      /\ SetHalt(m, h).fault = m.fault
  BY DEF SetHalt, WithCpu, Steps, Cpus
<1>. QED  BY <1>1, SameLogsKeepAccounts

\* What executing an instruction guarantees; it may halt the machine, but not
\* when it faults, and it has been decoded.
Advances(m, n) ==
  /\ n \in Steps
  /\ Protected(m.cpu.mem, n.cpu.mem)
  /\ n.fault # "none" => n.cpu.halt = m.cpu.halt
  /\ n.fault # "decode"
  /\ KeepsAccounts(m, n)

\* hlt and int3 halt the machine and do not fault.
LEMMA HaltAdvances ==
  ASSUME NEW m \in Steps, m.fault = "none", NEW h \in Halts
  PROVE  Advances(m, SetHalt(m, h))
BY SetHaltIsTyped, ProtectedIsReflexive DEF Advances

\* A system call that exits does not fault.
LEMMA SyscallAdvances ==
  ASSUME NEW m \in Steps, m.fault = "none"
  PROVE  Advances(m, ExecSyscall(m))
<1>0. SysWrite # SysExit
  BY DEF SysWrite, SysExit
<1>1. CASE RegOf(m, "rax") = SysWrite
  <2>1. ExecSyscall(m) = ExecWrite(m)
    BY <1>0, <1>1, Zenon DEF ExecSyscall
  <2>. QED  BY <2>1, WriteSyscallEvolves DEF Evolves, Advances
<1>2. CASE RegOf(m, "rax") # SysWrite /\ RegOf(m, "rax") = SysExit
  <2> DEFINE exited == SetHalt(m, "exited")
  <2>1. ExecSyscall(m) = PutReg(exited, "rax", 0)
    BY <1>0, <1>2, Zenon DEF ExecSyscall
  <2>2. /\ exited \in Steps /\ exited.cpu.mem = m.cpu.mem /\ exited.fault = "none"
        /\ KeepsAccounts(m, exited)
    BY SetHaltIsTyped DEF Halts
  <2> HIDE DEF exited
  <2>3. 0 \in Word
    BY WordModIsPositive DEF Word
  <2>4. Evolves(exited, PutReg(exited, "rax", 0))
    BY <2>2, <2>3, PutRegEvolves DEF Reg
  <2>5. PutReg(exited, "rax", 0).fault = "none"
    BY <2>2 DEF PutReg, Steps
  <2>6. KeepsAccounts(m, PutReg(exited, "rax", 0))
    BY <2>2, <2>4, KeepingAccountsComposes DEF Evolves
  <2>. QED  BY <2>1, <2>2, <2>4, <2>5, <2>6 DEF Evolves, Advances
<1>3. CASE RegOf(m, "rax") # SysWrite /\ RegOf(m, "rax") # SysExit
  <2>1. ExecSyscall(m) = Raise(m, "syscall")
    BY <1>3, Zenon DEF ExecSyscall
  <2>. QED  BY <2>1, RaiseEvolves DEF ExecFaults, Faults, Evolves, Advances
<1>. QED  BY <1>1, <1>2, <1>3

(***************************************************************************)
(* What a fault leaves behind: an instruction that faults has written no   *)
(* register but rsp.                                                       *)
(***************************************************************************)
Spares(m, n) ==
  n.fault # "none" => \A r \in Reg \ {"rsp"} : n.cpu.regs[r] = m.cpu.regs[r]

\* The `?` of the code: nothing was done before the test.
LEMMA UnlessSpares ==
  ASSUME NEW m \in Steps, NEW f \in ExecFaults, NEW next, f = "none" => Spares(m, next)
  PROVE  Spares(m, Unless(f, m, next))
BY RaiseIsTyped DEF Unless, Spares, ExecFaults

\* A second operation that cannot fault, or does not happen.
LEMMA AfterOkSpares ==
  ASSUME NEW m, NEW n, NEW next, Spares(m, n), n.fault = "none" => Spares(m, next)
  PROVE  Spares(m, AfterOk(n, next))
BY DEF AfterOk

\* Writing a register, the flags or rip never faults.
LEMMA PutRegIsSafe ==
  ASSUME NEW m \in Steps, NEW r, NEW v
  PROVE  PutReg(m, r, v).fault = m.fault
BY DEF PutReg, Steps

LEMMA SetFlagsIsSafe ==
  ASSUME NEW m \in Steps, NEW f
  PROVE  SetFlags(m, f).fault = m.fault /\ SetFlags(m, f).cpu.regs = m.cpu.regs
BY DEF SetFlags, WithCpu, Steps, Cpus

LEMMA SetRipIsSafe ==
  ASSUME NEW m \in Steps, NEW a
  PROVE  SetRip(m, a).fault = m.fault
BY DEF SetRip, WithCpu, Steps

\* A store writes no register, and what it writes it writes only if it is granted.
LEMMA StoreSpares ==
  ASSUME NEW m \in Steps, NEW a, NEW cells
  PROVE  Store(m, a, cells).cpu.regs = m.cpu.regs
<1> DEFINE at == Locate(m.cpu.mem, a, Len(cells), "w")
           c == [m.cpu EXCEPT !.mem = WriteCells(m.cpu.mem, at, cells)]
           write == [addr |-> a, before |-> ReadCells(m.cpu.mem, at, Len(cells)), after |-> cells]
           n == [m EXCEPT !.cpu = c, !.memWrites = Append(m.memWrites, write)]
<1>1. Store(m, a, cells) = Unless(at.fault, m, n)
  BY DEF Store
<1>2. at.fault \in Faults
  BY LocateFaults DEF Faults
<1> HIDE DEF at
<1>3. c.regs = m.cpu.regs
  BY DEF Steps, Cpus
<1> HIDE DEF c, write
<1>4. n.cpu = c
  BY DEF Steps
<1> HIDE DEF n
<1>. QED  BY <1>1, <1>2, <1>3, <1>4, RaiseIsTyped DEF Unless

\* Writing one operand changes a register or faults, never both.
LEMMA WriteOpSpares ==
  ASSUME NEW m \in Steps, m.fault = "none", NEW o \in Operand, NEW v
  PROVE  Spares(m, WriteOp(m, o, v))
<1>1. CASE o.mode = "reg"
  <2>1. WriteOp(m, o, v) = PutReg(m, o.reg, v)
    BY <1>1, Zenon DEF WriteOp
  <2>. QED  BY <2>1, PutRegIsSafe DEF Spares
<1>2. CASE o.mode = "mem"
  <2>1. WriteOp(m, o, v) = Store(m, EffectiveAddress(m, o), <<v>>)
    BY <1>2, Zenon DEF WriteOp
  <2>. QED  BY <2>1, StoreSpares DEF Spares
<1>3. CASE o.mode \notin {"reg", "mem"}
  <2>1. WriteOp(m, o, v) = Raise(m, "unsupported")
    BY <1>3, Zenon DEF WriteOp
  <2>. QED  BY <2>1, RaiseIsTyped DEF Spares, Faults
<1>. QED  BY <1>1, <1>2, <1>3

\* Writing rax and rdx, and the flags behind a write, never faults.
LEMMA PutPairIsSafe ==
  ASSUME NEW m \in Steps, m.fault = "none", NEW low \in Word, NEW high \in Word, NEW b
  PROVE  /\ Spares(m, PutPair(m, low, high))
         /\ Spares(m, SetOverflow(PutPair(m, low, high), b))
<1>1. PutReg(m, "rax", low) \in Steps /\ PutPair(m, low, high) \in Steps
  BY PutRegEvolves, PutPairEvolves DEF Evolves, Reg
<1>2. PutPair(m, low, high).fault = "none"
  BY <1>1, PutRegIsSafe DEF PutPair
<1>. QED  BY <1>1, <1>2, SetFlagsIsSafe DEF Spares, SetOverflow

LEMMA WriteThenFlagsSpares ==
  ASSUME NEW m \in Steps, m.fault = "none", NEW o \in Operand, NEW v \in Word, NEW f
  PROVE  Spares(m, AfterOk(WriteOp(m, o, v), SetFlags(WriteOp(m, o, v), f)))
<1>1. WriteOp(m, o, v) \in Steps
  BY WriteOpEvolves DEF Evolves
<1>2. WriteOp(m, o, v).fault = "none" => Spares(m, SetFlags(WriteOp(m, o, v), f))
  BY <1>1, SetFlagsIsSafe DEF Spares
<1>. QED  BY <1>2, WriteOpSpares, AfterOkSpares

\* A push lowers rsp and may then fault.
LEMMA PushSpares ==
  ASSUME NEW m \in Steps, NEW v
  PROVE  Spares(m, Push(m, v))
<1> DEFINE sp == Trunc(RegOf(m, "rsp") - 1)
           lowered == PutReg(m, "rsp", sp)
<1>1. RegOf(m, "rsp") - 1 \in Int
  BY RegIsWord DEF Reg, Word
<1>2. sp \in Word
  BY <1>1, TruncIsWord DEF Trunc
<1> HIDE DEF sp
<1>3. lowered \in Steps
  BY <1>2, PutRegEvolves DEF Evolves, Reg
<1>4. \A r \in Reg \ {"rsp"} : lowered.cpu.regs[r] = m.cpu.regs[r]
  BY DEF PutReg, Steps, Cpus
<1> HIDE DEF lowered
<1>5. Push(m, v) = Store(lowered, sp, <<v>>)
  BY DEF Push, lowered, sp
<1>. QED  BY <1>3, <1>4, <1>5, StoreSpares DEF Spares

\* add, adc, sub, sbb, and, or, xor: the flags come first, and are no register.
LEMMA BinarySpares ==
  ASSUME NEW m \in Steps, m.fault = "none", NEW i \in Instruction, i.op \in BinaryOps
  PROVE  Spares(m, ExecBinary(m, i))
<1> DEFINE flagged == SetFlags(m, Compute(m, i).flags)
<1>1. ASSUME ReadsFault(m, i.dst, i.src) = "none"
      PROVE  Spares(m, WriteOp(flagged, i.dst, Compute(m, i).val))
  <2>1. flagged \in Steps /\ flagged.fault = "none" /\ flagged.cpu.regs = m.cpu.regs
    BY <1>1, ComputeIsTyped, SetFlagsEvolves, SetFlagsIsSafe DEF Evolves
  <2> HIDE DEF flagged
  <2>2. Spares(flagged, WriteOp(flagged, i.dst, Compute(m, i).val))
    BY <2>1, OperandsOf, WriteOpSpares
  <2>. QED  BY <2>1, <2>2 DEF Spares
<1>. QED  BY <1>1, ReadsFaultIsTyped, UnlessSpares DEF ExecBinary

\* cmp and test.
LEMMA CompareSpares ==
  ASSUME NEW m \in Steps, m.fault = "none", NEW i \in Instruction
  PROVE  Spares(m, ExecCompare(m, i))
<1>1. Spares(m, SetFlags(m, Compute(m, i).flags))
  BY SetFlagsIsSafe DEF Spares
<1>. QED  BY <1>1, ReadsFaultIsTyped, UnlessSpares DEF ExecCompare

\* not, neg, inc and dec.
LEMMA UnarySpares ==
  ASSUME NEW m \in Steps, m.fault = "none", NEW i \in Instruction
  PROVE  Spares(m, ExecUnary(m, i))
<1> DEFINE r == UnaryResult(i.op, ReadOp(m, i.dst), m.cpu.flags)
           flagged == SetFlags(m, r.flags)
<1>1. ASSUME ReadFault(m, i.dst) = "none"
      PROVE  Spares(m, WriteOp(flagged, i.dst, r.val))
  <2>1. r.flags \in Flags
    BY <1>1, OperandsOf, ReadIsWord, FlagsOf, UnaryIsTyped
  <2> HIDE DEF r
  <2>2. flagged \in Steps /\ flagged.fault = "none" /\ flagged.cpu.regs = m.cpu.regs
    BY <2>1, SetFlagsEvolves, SetFlagsIsSafe DEF Evolves
  <2> HIDE DEF flagged
  <2>3. Spares(flagged, WriteOp(flagged, i.dst, r.val))
    BY <2>2, OperandsOf, WriteOpSpares
  <2>. QED  BY <2>2, <2>3 DEF Spares
<1> HIDE DEF r
<1>2. Spares(m, Unless(ReadFault(m, i.dst), m, WriteOp(flagged, i.dst, r.val)))
  BY <1>1, ReadFaultIsTyped, UnlessSpares
<1>. QED  BY <1>2 DEF ExecUnary, r

\* The multiplications and divisions into rdx:rax.
LEMMA MulSpares ==
  ASSUME NEW m \in Steps, m.fault = "none", NEW i \in Instruction
  PROVE  Spares(m, ExecMul(m, i))
<1> DEFINE p == Product(RegOf(m, "rax"), ReadOp(m, i.dst), WordBits)
<1>1. ASSUME ReadFault(m, i.dst) = "none"
      PROVE  Spares(m, SetOverflow(PutPair(m, p.low, p.high), p.high # 0))
  <2>1. RegOf(m, "rax") \in Int /\ ReadOp(m, i.dst) \in Int
    BY <1>1, OperandsOf, ReadIsWord, RegIsWord DEF Reg, Word
  <2>2. p.low \in Word /\ p.high \in Word
    BY <2>1, ProductIsTyped
  <2> HIDE DEF p
  <2>. QED  BY <2>2, PutPairIsSafe
<1>. QED  BY <1>1, ReadFaultIsTyped, UnlessSpares DEF ExecMul

LEMMA ImulSpares ==
  ASSUME NEW m \in Steps, m.fault = "none", NEW i \in Instruction
  PROVE  Spares(m, ExecImul(m, i))
<1> DEFINE a == Signed(RegOf(m, "rax"), WordBits)
           b == Signed(ReadOp(m, i.dst), WordBits)
           p == Product(a, b, WordBits)
<1>1. ASSUME ReadFault(m, i.dst) = "none"
      PROVE  Spares(m, SetOverflow(PutPair(m, p.low, p.high), Signed(p.low, WordBits) # a * b))
  <2>1. a \in Int /\ b \in Int
    BY <1>1, OperandsOf, ReadIsWord, RegIsWord, SignedIsInt DEF Reg
  <2> HIDE DEF a, b
  <2>2. p.low \in Word /\ p.high \in Word
    BY <2>1, ProductIsTyped
  <2> HIDE DEF p
  <2>. QED  BY <2>2, PutPairIsSafe
<1>. QED  BY <1>1, ReadFaultIsTyped, UnlessSpares DEF ExecImul

\* The two-operand multiply, whose operand may be memory that is not writable.
LEMMA Imul2Spares ==
  ASSUME NEW m \in Steps, m.fault = "none", NEW i \in Instruction
  PROVE  Spares(m, ExecImul2(m, i))
<1> DEFINE a == Signed(ReadOp(m, i.dst), WordBits)
           b == Signed(ReadOp(m, i.src), WordBits)
           low == Trunc(a * b)
           written == WriteOp(m, i.dst, low)
           next == AfterOk(written, SetOverflow(written, Signed(low, WordBits) # a * b))
<1>1. ASSUME ReadsFault(m, i.dst, i.src) = "none"
      PROVE  Spares(m, next)
  <2>1. a \in Int /\ b \in Int
    BY <1>1, OperandsOf, ReadsAreWords, SignedIsInt
  <2> HIDE DEF a, b
  <2>2. a * b \in Int
    BY <2>1
  <2>3. low \in Word
    BY <2>2, TruncIsWord DEF Trunc
  <2> HIDE DEF low
  <2>. QED  BY <2>3, OperandsOf, WriteThenFlagsSpares DEF SetOverflow
<1>2. Spares(m, Unless(ReadsFault(m, i.dst, i.src), m, next))
  BY <1>1, ReadsFaultIsTyped, UnlessSpares
<1>. QED  BY <1>2 DEF ExecImul2

LEMMA DivSpares ==
  ASSUME NEW m \in Steps, m.fault = "none", NEW i \in Instruction
  PROVE  Spares(m, ExecDiv(m, i))
<1> DEFINE signed == i.op = "idiv"
           r == Divide(signed, RegOf(m, "rdx"), RegOf(m, "rax"), ReadOp(m, i.dst), WordBits)
<1>1. ASSUME ReadFault(m, i.dst) = "none"
      PROVE  Spares(m, Unless(r.fault, m, PutPair(m, r.quot, r.rem)))
  <2>1. RegOf(m, "rdx") \in Word /\ RegOf(m, "rax") \in Word /\ ReadOp(m, i.dst) \in Word
    BY <1>1, OperandsOf, ReadIsWord, RegIsWord DEF Reg
  <2>2. signed \in BOOLEAN
    OBVIOUS
  <2> HIDE DEF signed
  <2>3. r.fault \in {"none", "divide"} /\ r.quot \in Word /\ r.rem \in Word
    BY <2>1, <2>2, DivideIsTyped
  <2>4. r.fault \in ExecFaults
    BY <2>3 DEF ExecFaults, Faults
  <2> HIDE DEF r
  <2>. QED  BY <2>3, <2>4, PutPairIsSafe, UnlessSpares
<1>. QED  BY <1>1, ReadFaultIsTyped, UnlessSpares DEF ExecDiv

\* Shifts and rotates.
LEMMA ShiftSpares ==
  ASSUME NEW m \in Steps, m.fault = "none", NEW i \in Instruction, i.op \in ShiftOps
  PROVE  Spares(m, ExecShift(m, i))
<1> DEFINE r == Shift(i.op, ReadOp(m, i.dst), ReadOp(m, i.src), m.cpu.flags, WordBits)
           written == WriteOp(m, i.dst, r.val)
<1>1. ASSUME ReadsFault(m, i.dst, i.src) = "none"
      PROVE  Spares(m, AfterOk(written, SetFlags(written, r.flags)))
  <2>1. r.val \in Word
    BY <1>1, OperandsOf, ReadsAreWords, FlagsOf, ShiftIsTyped
  <2> HIDE DEF r
  <2>. QED  BY <2>1, OperandsOf, WriteThenFlagsSpares
<1>. QED  BY <1>1, ReadsFaultIsTyped, UnlessSpares DEF ExecShift

\* mov and lea.
LEMMA MovSpares ==
  ASSUME NEW m \in Steps, m.fault = "none", NEW i \in Instruction
  PROVE  Spares(m, ExecMov(m, i))
BY OperandsOf, WriteOpSpares, ReadFaultIsTyped, UnlessSpares DEF ExecMov

LEMMA LeaSpares ==
  ASSUME NEW m \in Steps, m.fault = "none", NEW i \in Instruction
  PROVE  Spares(m, ExecLea(m, i))
<1>1. Spares(m, Raise(m, "unsupported"))
  BY RaiseIsTyped DEF Spares, Faults
<1>. QED  BY <1>1, OperandsOf, WriteOpSpares DEF ExecLea

\* xchg: only its first operand can fault, because the second is a register.
LEMMA XchgSpares ==
  ASSUME NEW m \in Steps, m.fault = "none", NEW i \in Instruction, i.src.mode = "reg"
  PROVE  Spares(m, ExecXchg(m, i))
<1> DEFINE first == WriteOp(m, i.dst, ReadOp(m, i.src))
           second == WriteOp(first, i.src, ReadOp(m, i.dst))
<1>1. ASSUME ReadsFault(m, i.dst, i.src) = "none"
      PROVE  Spares(m, AfterOk(first, second))
  <2>1. ReadOp(m, i.src) \in Word
    BY <1>1, OperandsOf, ReadsAreWords
  <2>2. first \in Steps /\ Spares(m, first)
    BY <2>1, OperandsOf, WriteOpEvolves, WriteOpSpares DEF Evolves
  <2> HIDE DEF first
  <2>3. second = PutReg(first, i.src.reg, ReadOp(m, i.dst))
    BY Zenon DEF WriteOp
  <2>4. second.fault = first.fault
    BY <2>2, <2>3, PutRegIsSafe
  <2> HIDE DEF second
  <2>5. first.fault = "none" => Spares(m, second)
    BY <2>4 DEF Spares
  <2>. QED  BY <2>2, <2>5, AfterOkSpares
<1>. QED  BY <1>1, ReadsFaultIsTyped, UnlessSpares DEF ExecXchg

\* cmov, taken or not.
LEMMA CmovSpares ==
  ASSUME NEW m \in Steps, m.fault = "none", NEW i \in Instruction
  PROVE  Spares(m, ExecCmov(m, i))
<1> DEFINE next == IF Holds(i.cond, m.cpu.flags) THEN WriteOp(m, i.dst, ReadOp(m, i.src)) ELSE m
<1>1. Spares(m, m) /\ Spares(m, WriteOp(m, i.dst, ReadOp(m, i.src)))
  BY OperandsOf, WriteOpSpares DEF Spares
<1>2. Spares(m, next)
  BY <1>1
<1> HIDE DEF next
<1>3. Spares(m, Unless(ReadFault(m, i.src), m, next))
  BY <1>2, ReadFaultIsTyped, UnlessSpares
<1>. QED  BY <1>3 DEF ExecCmov, next

\* push, and pop into an operand that may fault behind the raised rsp.
LEMMA ExecPushSpares ==
  ASSUME NEW m \in Steps, m.fault = "none", NEW i \in Instruction
  PROVE  Spares(m, ExecPush(m, i))
BY PushSpares, ReadFaultIsTyped, UnlessSpares DEF ExecPush

LEMMA ExecPopSpares ==
  ASSUME NEW m \in Steps, m.fault = "none", NEW i \in Instruction
  PROVE  Spares(m, ExecPop(m, i))
<1> DEFINE raised == DropTop(m)
<1>1. raised \in Steps
  BY DropTopEvolves DEF Evolves
<1>2. raised.fault = "none"
  BY PutRegIsSafe DEF DropTop
<1>3. \A r \in Reg \ {"rsp"} : raised.cpu.regs[r] = m.cpu.regs[r]
  BY DEF DropTop, PutReg, Steps, Cpus
<1> HIDE DEF raised
<1>4. Spares(raised, WriteOp(raised, i.dst, Popped(m)))
  BY <1>1, <1>2, OperandsOf, WriteOpSpares
<1>5. Spares(m, WriteOp(raised, i.dst, Popped(m)))
  BY <1>3, <1>4 DEF Spares
<1>6. Spares(m, Unless(PopFault(m), m, WriteOp(raised, i.dst, Popped(m))))
  BY <1>5, PoppedIsWord, UnlessSpares
<1>. QED  BY <1>6 DEF ExecPop, raised

\* leave, which faults behind rsp = rbp.
LEMMA LeaveSpares ==
  ASSUME NEW m \in Steps, m.fault = "none"
  PROVE  Spares(m, ExecLeave(m))
<1> DEFINE framed == PutReg(m, "rsp", RegOf(m, "rbp"))
           next == PutReg(DropTop(framed), "rbp", Popped(framed))
<1>1. framed \in Steps /\ framed.fault = "none"
  <2>1. "rsp" \in Reg /\ RegOf(m, "rbp") \in Word
    BY RegIsWord DEF Reg
  <2>2. Evolves(m, framed)
    BY <2>1, PutRegEvolves
  <2>3. framed.fault = m.fault
    BY PutRegIsSafe
  <2>. QED  BY <2>2, <2>3 DEF Evolves
<1>2. \A r \in Reg \ {"rsp"} : framed.cpu.regs[r] = m.cpu.regs[r]
  BY DEF PutReg, Steps, Cpus
<1> HIDE DEF framed
<1>3. DropTop(framed) \in Steps /\ DropTop(framed).fault = "none"
  BY <1>1, DropTopEvolves, PutRegIsSafe DEF Evolves, DropTop
<1>4. next.fault = "none"
  BY <1>3, PutRegIsSafe
<1> HIDE DEF next
<1>5. Spares(framed, Unless(PopFault(framed), framed, next))
  BY <1>1, <1>4, PoppedIsWord, UnlessSpares DEF Spares
<1>6. Spares(m, Unless(PopFault(framed), framed, next))
  BY <1>2, <1>5 DEF Spares
<1>. QED  BY <1>6 DEF ExecLeave, framed, next

\* Branches: what can fault comes before anything is written, but for the push of a call.
LEMMA JmpSpares ==
  ASSUME NEW m \in Steps, m.fault = "none", NEW i \in Instruction
  PROVE  Spares(m, ExecJmp(m, i))
<1>1. Spares(m, SetRip(m, BranchDest(m, i.dst)))
  BY SetRipIsSafe DEF Spares
<1>. QED  BY <1>1, OperandsOf, BranchIsTyped, UnlessSpares DEF ExecJmp

LEMMA JccSpares ==
  ASSUME NEW m \in Steps, m.fault = "none", NEW i \in Instruction
  PROVE  Spares(m, ExecJcc(m, i))
<1>1. Spares(m, m) /\ Spares(m, SetRip(m, BranchDest(m, i.dst)))
  BY SetRipIsSafe DEF Spares
<1>2. Spares(m, Raise(m, "unsupported"))
  BY RaiseIsTyped DEF Spares, Faults
<1>3. \/ ExecJcc(m, i) = m
      \/ ExecJcc(m, i) = SetRip(m, BranchDest(m, i.dst))
      \/ ExecJcc(m, i) = Raise(m, "unsupported")
  <2>1. CASE ~Holds(i.cond, m.cpu.flags)
    BY <2>1, Zenon DEF ExecJcc
  <2>2. CASE Holds(i.cond, m.cpu.flags) /\ i.dst.mode = "rel"
    BY <2>2, Zenon DEF ExecJcc
  <2>3. CASE Holds(i.cond, m.cpu.flags) /\ i.dst.mode # "rel"
    BY <2>3, Zenon DEF ExecJcc
  <2>. QED  BY <2>1, <2>2, <2>3
<1>. QED  BY <1>1, <1>2, <1>3

LEMMA CallSpares ==
  ASSUME NEW m \in Steps, m.fault = "none", NEW i \in Instruction
  PROVE  Spares(m, ExecCall(m, i))
<1> DEFINE pushed == Push(m, m.cpu.rip)
           next == AfterOk(pushed, SetRip(pushed, BranchDest(m, i.dst)))
<1>1. pushed \in Steps /\ Spares(m, pushed)
  BY PushEvolves, PushSpares DEF Steps, Cpus, Evolves
<1> HIDE DEF pushed
<1>2. pushed.fault = "none" => Spares(m, SetRip(pushed, BranchDest(m, i.dst)))
  BY <1>1, SetRipIsSafe DEF Spares
<1>3. Spares(m, next)
  BY <1>1, <1>2, AfterOkSpares
<1> HIDE DEF next
<1>4. Spares(m, Unless(BranchFault(m, i.dst), m, next))
  BY <1>3, OperandsOf, BranchIsTyped, UnlessSpares
<1>. QED  BY <1>4 DEF ExecCall, pushed, next

LEMMA RetSpares ==
  ASSUME NEW m \in Steps, m.fault = "none", NEW i \in Instruction
  PROVE  Spares(m, ExecRet(m, i))
<1> DEFINE popped == DropTop(m)
           sp == Trunc(RegOf(popped, "rsp") + i.dst.disp)
           dropped == IF i.dst.mode = "imm" THEN PutReg(popped, "rsp", sp) ELSE popped
<1>1. popped \in Steps /\ popped.fault = "none"
  BY DropTopEvolves, PutRegIsSafe DEF Evolves, DropTop
<1> HIDE DEF popped
<1>2. sp \in Word
  <2>1. RegOf(popped, "rsp") \in Int /\ i.dst.disp \in Int
    <3>1. RegOf(popped, "rsp") \in Word
      BY <1>1, RegIsWord DEF Reg
    <3>2. i.dst.disp \in Word
      BY OperandsOf DEF Operand
    <3>. QED  BY <3>1, <3>2 DEF Word
  <2>2. RegOf(popped, "rsp") + i.dst.disp \in Int
    BY <2>1
  <2>. QED  BY <2>2, TruncIsWord DEF Trunc
<1> HIDE DEF sp
<1>3. dropped \in Steps /\ dropped.fault = "none"
  <2>1. PutReg(popped, "rsp", sp) \in Steps /\ PutReg(popped, "rsp", sp).fault = "none"
    <3>1. "rsp" \in Reg
      BY DEF Reg
    <3>2. Evolves(popped, PutReg(popped, "rsp", sp))
      BY <1>1, <1>2, <3>1, PutRegEvolves
    <3>3. PutReg(popped, "rsp", sp).fault = popped.fault
      BY <1>1, PutRegIsSafe
    <3>. QED  BY <1>1, <3>2, <3>3 DEF Evolves
  <2>. QED  BY <1>1, <2>1
<1> HIDE DEF dropped
<1>4. Spares(m, SetRip(dropped, Popped(m)))
  BY <1>3, SetRipIsSafe DEF Spares
<1>5. Spares(m, Unless(PopFault(m), m, SetRip(dropped, Popped(m))))
  BY <1>4, PoppedIsWord, UnlessSpares
<1>. QED  BY <1>5 DEF ExecRet, popped, sp, dropped

\* A system call writes rax last.
LEMMA SyscallSpares ==
  ASSUME NEW m \in Steps, m.fault = "none"
  PROVE  Spares(m, ExecSyscall(m))
<1>0. SysWrite # SysExit
  BY DEF SysWrite, SysExit
<1>1. Spares(m, Raise(m, "syscall"))
  BY RaiseIsTyped DEF Spares, Faults
<1>2. Spares(m, ExecWrite(m))
  <2> DEFINE fd == RegOf(m, "rdi")
             count == RegOf(m, "rdx")
             bytes == Loaded(m, RegOf(m, "rsi"), count)
             c == IF fd = Stdout THEN [m.cpu EXCEPT !.stdout = m.cpu.stdout \o bytes]
                                 ELSE [m.cpu EXCEPT !.stderr = m.cpu.stderr \o bytes]
             printed == WithCpu(m, c)
             next == IF fd \in {Stdout, Stderr} THEN PutReg(printed, "rax", count)
                                                ELSE Raise(m, "syscall")
  <2> HIDE DEF c
  <2>1. PutReg(printed, "rax", count).fault = "none"
    BY DEF PutReg, WithCpu, Steps
  <2>2. Spares(m, next)
    BY <1>1, <2>1 DEF Spares
  <2> HIDE DEF next
  <2>3. LoadFault(m, RegOf(m, "rsi"), count) \in ExecFaults
    BY LocateFaults DEF LoadFault, ExecFaults, Faults
  <2>4. Spares(m, Unless(LoadFault(m, RegOf(m, "rsi"), count), m, next))
    BY <2>2, <2>3, UnlessSpares
  <2>. QED  BY <2>4 DEF ExecWrite, next, c
<1>3. Spares(m, PutReg(SetHalt(m, "exited"), "rax", 0))
  <2>1. SetHalt(m, "exited") \in Steps /\ SetHalt(m, "exited").fault = "none"
    BY SetHaltIsTyped DEF Halts
  <2>. QED  BY <2>1, PutRegIsSafe DEF Spares
<1>4. \/ ExecSyscall(m) = ExecWrite(m)
      \/ ExecSyscall(m) = PutReg(SetHalt(m, "exited"), "rax", 0)
      \/ ExecSyscall(m) = Raise(m, "syscall")
  <2>1. CASE RegOf(m, "rax") = SysWrite
    BY <1>0, <2>1, Zenon DEF ExecSyscall
  <2>2. CASE RegOf(m, "rax") # SysWrite /\ RegOf(m, "rax") = SysExit
    BY <1>0, <2>2, Zenon DEF ExecSyscall
  <2>3. CASE RegOf(m, "rax") # SysWrite /\ RegOf(m, "rax") # SysExit
    BY <1>0, <2>3, Zenon DEF ExecSyscall
  <2>. QED  BY <2>1, <2>2, <2>3
<1>. QED  BY <1>1, <1>2, <1>3, <1>4

(***************************************************************************)
(* The dispatcher.                                                         *)
(***************************************************************************)
\* The classes of operations that the dispatcher tells apart are disjoint.
NamedOps == MoveOps \cup StackOps \cup BranchOps \cup SystemOps
WideNames == WideOps \cup {"imul2", "cqo"}

\* No operation is in two classes.
LEMMA ClassesAreDisjoint ==
  /\ \A op \in BinaryOps : op \notin CompareOps \cup UnaryOps \cup ShiftOps \cup WideNames \cup NamedOps
  /\ \A op \in CompareOps : op \notin BinaryOps \cup UnaryOps \cup ShiftOps \cup WideNames \cup NamedOps
  /\ \A op \in UnaryOps : op \notin BinaryOps \cup CompareOps \cup ShiftOps \cup WideNames \cup NamedOps
  /\ \A op \in ShiftOps : op \notin BinaryOps \cup CompareOps \cup UnaryOps \cup WideNames \cup NamedOps
  /\ \A op \in WideNames \cup NamedOps \cup {"invalid"} :
       op \notin BinaryOps \cup CompareOps \cup UnaryOps \cup ShiftOps
BY DEF BinaryOps, CompareOps, UnaryOps, ShiftOps, WideNames, WideOps, NamedOps, MoveOps,
       StackOps, BranchOps, SystemOps

\* The operations that are told apart by their class.
LEMMA CalculateAdvances ==
  ASSUME NEW m \in Steps, m.fault = "none", NEW i \in Instruction,
         i.op \in BinaryOps \cup CompareOps \cup UnaryOps \cup WideOps \cup ShiftOps
                    \cup {"imul2", "cqo"}
  PROVE  Evolves(m, Execute(m, i)) /\ Spares(m, Execute(m, i))
<1> DEFINE others == WideNames \cup NamedOps
<1>1. others = {"mul", "imul", "div", "idiv", "imul2", "cqo", "mov", "lea", "xchg", "cmov",
                "push", "pop", "leave", "jmp", "jcc", "call", "ret", "syscall", "nop", "hlt",
                "int3", "ud2"}
  BY DEF WideNames, WideOps, NamedOps, MoveOps, StackOps, BranchOps, SystemOps
<1> HIDE DEF others
<1>2. CASE i.op \in BinaryOps
  <2>1. i.op \notin CompareOps /\ i.op \notin UnaryOps /\ i.op \notin ShiftOps /\ i.op \notin others
    BY <1>2, ClassesAreDisjoint DEF others
  <2>2. Execute(m, i) = ExecBinary(m, i)
    BY <1>1, <1>2, <2>1, Zenon DEF Execute
  <2>. QED  BY <1>2, <2>2, BinaryEvolves, BinarySpares
<1>3. CASE i.op \in CompareOps
  <2>1. i.op \notin BinaryOps /\ i.op \notin UnaryOps /\ i.op \notin ShiftOps /\ i.op \notin others
    BY <1>3, ClassesAreDisjoint DEF others
  <2>2. Execute(m, i) = ExecCompare(m, i)
    BY <1>1, <1>3, <2>1, Zenon DEF Execute
  <2>. QED  BY <1>3, <2>2, CompareEvolves, CompareSpares
<1>4. CASE i.op \in UnaryOps
  <2>1. i.op \notin BinaryOps /\ i.op \notin CompareOps /\ i.op \notin ShiftOps /\ i.op \notin others
    BY <1>4, ClassesAreDisjoint DEF others
  <2>2. Execute(m, i) = ExecUnary(m, i)
    BY <1>1, <1>4, <2>1, Zenon DEF Execute
  <2>. QED  BY <2>2, UnaryEvolves, UnarySpares
<1>5. CASE i.op \in ShiftOps
  <2>1. i.op \notin BinaryOps /\ i.op \notin CompareOps /\ i.op \notin UnaryOps /\ i.op \notin others
    BY <1>5, ClassesAreDisjoint DEF others
  <2>2. Execute(m, i) = ExecShift(m, i)
    BY <1>1, <1>5, <2>1, Zenon DEF Execute
  <2>. QED  BY <1>5, <2>2, ShiftEvolves, ShiftSpares
<1>6. CASE i.op \in WideNames
  <2>1. i.op \notin BinaryOps /\ i.op \notin CompareOps /\ i.op \notin UnaryOps /\ i.op \notin ShiftOps
    BY <1>6, ClassesAreDisjoint
  <2>2. CASE i.op = "mul"
    <3>1. Execute(m, i) = ExecMul(m, i)
      BY <2>1, <2>2, Zenon DEF Execute
    <3>. QED  BY <3>1, MulEvolves, MulSpares
  <2>3. CASE i.op = "imul"
    <3>1. Execute(m, i) = ExecImul(m, i)
      BY <2>1, <2>3, Zenon DEF Execute
    <3>. QED  BY <3>1, ImulEvolves, ImulSpares
  <2>4. CASE i.op = "imul2"
    <3>1. Execute(m, i) = ExecImul2(m, i)
      BY <2>1, <2>4, Zenon DEF Execute
    <3>. QED  BY <3>1, Imul2Evolves, Imul2Spares
  <2>5. CASE i.op \in {"div", "idiv"}
    <3>1. Execute(m, i) = ExecDiv(m, i)
      BY <2>1, <2>5, Zenon DEF Execute
    <3>. QED  BY <3>1, DivEvolves, DivSpares
  <2>6. CASE i.op = "cqo"
    <3>1. Execute(m, i) = ExecCqo(m)
      BY <2>1, <2>6, Zenon DEF Execute
    <3>. QED  BY <3>1, CqoEvolves, PutRegIsSafe DEF Spares, ExecCqo
  <2>. QED  BY <1>6, <2>2, <2>3, <2>4, <2>5, <2>6 DEF WideNames, WideOps
<1>. QED  BY <1>2, <1>3, <1>4, <1>5, <1>6 DEF WideNames

\* The operations that are told apart by their name.
LEMMA NamedAdvances ==
  ASSUME NEW m \in Steps, m.fault = "none", NEW i \in Instruction,
         i.op \in NamedOps \cup {"invalid"}, i.op = "xchg" => i.src.mode = "reg"
  PROVE  Advances(m, Execute(m, i)) /\ Spares(m, Execute(m, i))
<1>1. ASSUME NEW n, Evolves(m, n)
      PROVE  Advances(m, n)
  BY <1>1 DEF Evolves, Advances
<1>2. i.op \notin BinaryOps /\ i.op \notin CompareOps /\ i.op \notin UnaryOps /\ i.op \notin ShiftOps
  BY ClassesAreDisjoint
<1>3. CASE i.op = "mov"
  <2>1. Execute(m, i) = ExecMov(m, i)
    BY <1>2, <1>3, Zenon DEF Execute
  <2>. QED  BY <1>1, <2>1, MovEvolves, MovSpares
<1>4. CASE i.op = "lea"
  <2>1. Execute(m, i) = ExecLea(m, i)
    BY <1>2, <1>4, Zenon DEF Execute
  <2>. QED  BY <1>1, <2>1, LeaEvolves, LeaSpares
<1>5. CASE i.op = "xchg"
  <2>1. Execute(m, i) = ExecXchg(m, i)
    BY <1>2, <1>5, Zenon DEF Execute
  <2>. QED  BY <1>1, <1>5, <2>1, XchgEvolves, XchgSpares
<1>6. CASE i.op = "cmov"
  <2>1. Execute(m, i) = ExecCmov(m, i)
    BY <1>2, <1>6, Zenon DEF Execute
  <2>. QED  BY <1>1, <2>1, CmovEvolves, CmovSpares
<1>7. CASE i.op = "push"
  <2>1. Execute(m, i) = ExecPush(m, i)
    BY <1>2, <1>7, Zenon DEF Execute
  <2>. QED  BY <1>1, <2>1, ExecPushEvolves, ExecPushSpares
<1>8. CASE i.op = "pop"
  <2>1. Execute(m, i) = ExecPop(m, i)
    BY <1>2, <1>8, Zenon DEF Execute
  <2>. QED  BY <1>1, <2>1, ExecPopEvolves, ExecPopSpares
<1>9. CASE i.op = "leave"
  <2>1. Execute(m, i) = ExecLeave(m)
    BY <1>2, <1>9, Zenon DEF Execute
  <2>. QED  BY <1>1, <2>1, LeaveEvolves, LeaveSpares
<1>10. CASE i.op = "jmp"
  <2>1. Execute(m, i) = ExecJmp(m, i)
    BY <1>2, <1>10, Zenon DEF Execute
  <2>. QED  BY <1>1, <2>1, JmpEvolves, JmpSpares
<1>11. CASE i.op = "jcc"
  <2>1. Execute(m, i) = ExecJcc(m, i)
    BY <1>2, <1>11, Zenon DEF Execute
  <2>. QED  BY <1>1, <2>1, JccEvolves, JccSpares
<1>12. CASE i.op = "call"
  <2>1. Execute(m, i) = ExecCall(m, i)
    BY <1>2, <1>12, Zenon DEF Execute
  <2>. QED  BY <1>1, <2>1, CallEvolves, CallSpares
<1>13. CASE i.op = "ret"
  <2>1. Execute(m, i) = ExecRet(m, i)
    BY <1>2, <1>13, Zenon DEF Execute
  <2>. QED  BY <1>1, <2>1, RetEvolves, RetSpares
<1>14. CASE i.op = "syscall"
  <2>1. Execute(m, i) = ExecSyscall(m)
    BY <1>2, <1>14, Zenon DEF Execute
  <2>. QED  BY <1>1, <2>1, SyscallAdvances, SyscallSpares
<1>15. CASE i.op = "nop"
  <2>1. Execute(m, i) = m
    BY <1>2, <1>15, Zenon DEF Execute
  <2>. QED  BY <1>1, <2>1, EvolvesIsReflexive DEF Spares
<1>16. CASE i.op = "hlt"
  <2>1. Execute(m, i) = SetHalt(m, "halted")
    BY <1>2, <1>16, Zenon DEF Execute
  <2>. QED  BY <2>1, HaltAdvances, SetHaltIsTyped DEF Halts, Spares
<1>17. CASE i.op = "int3"
  <2>1. Execute(m, i) = SetHalt(m, "breakpoint")
    BY <1>2, <1>17, Zenon DEF Execute
  <2>. QED  BY <2>1, HaltAdvances, SetHaltIsTyped DEF Halts, Spares
<1>18. CASE i.op \in {"ud2", "invalid"}
  <2>1. Execute(m, i) = Raise(m, "unsupported")
    BY <1>2, <1>18, Zenon DEF Execute
  <2>2. Evolves(m, Raise(m, "unsupported"))
    BY RaiseEvolves DEF ExecFaults, Faults
  <2>3. Spares(m, Raise(m, "unsupported"))
    BY RaiseIsTyped DEF Faults, Spares
  <2>. QED  BY <1>1, <2>1, <2>2, <2>3
<1>. QED  BY <1>3, <1>4, <1>5, <1>6, <1>7, <1>8, <1>9, <1>10, <1>11, <1>12, <1>13, <1>14,
             <1>15, <1>16, <1>17, <1>18
          DEF NamedOps, MoveOps, StackOps, BranchOps, SystemOps

\* Every instruction, whatever its operands.
LEMMA ExecuteAdvances ==
  ASSUME NEW m \in Steps, m.fault = "none", NEW i \in Instruction,
         i.op = "xchg" => i.src.mode = "reg"
  PROVE  Advances(m, Execute(m, i)) /\ Spares(m, Execute(m, i))
<1>1. i.op \in Ops \cup {"invalid"}
  BY DEF Instruction
<1>2. CASE i.op \in NamedOps \cup {"invalid"}
  BY <1>2, NamedAdvances
<1>3. CASE i.op \notin NamedOps \cup {"invalid"}
  <2>1. i.op \in BinaryOps \cup CompareOps \cup UnaryOps \cup WideOps \cup ShiftOps
                   \cup {"imul2", "cqo"}
    BY <1>1, <1>3 DEF Ops, NamedOps
  <2>. QED  BY <2>1, CalculateAdvances DEF Evolves, Advances
<1>. QED  BY <1>2, <1>3

(***************************************************************************)
(* The step.                                                               *)
(***************************************************************************)
LEMMA WindowIsTyped ==
  ASSUME NEW c \in Cpus, Window(c).fault = "none"
  PROVE  Window(c).cells \in Seq(Word)
<1> DEFINE at == Locate(c.mem, c.rip, 0, "x")
           data == c.mem[at.region].data
           take == IF Len(data) - at.off < MaxInsnLen THEN Len(data) - at.off ELSE MaxInsnLen
<1>1. c.mem \in Memories /\ c.rip \in Nat
  BY DEF Cpus, Word
<1>2. at.fault = "none" /\ Window(c).cells = SubSeq(data, at.off + 1, at.off + take)
  <2>1. CASE at.fault = "none"
    BY <2>1 DEF Window, FetchWindow
  <2>2. CASE at.fault # "none"
    BY <2>2 DEF Window, FetchWindow
  <2>. QED  BY <2>1, <2>2
<1>3. at.region \in DOMAIN c.mem /\ at.off \in Nat /\ at.off + 0 <= Len(c.mem[at.region].data)
  BY <1>1, <1>2, LocateStaysInBounds
<1> HIDE DEF at
<1>4. c.mem[at.region] \in Regions
  BY <1>1, <1>3 DEF Memories
<1>5. data \in Seq(Word)
  BY <1>4 DEF Regions
<1>6. Len(data) \in Nat /\ at.off <= Len(data)
  BY <1>3, <1>5
<1> HIDE DEF data
<1>7. take \in Nat /\ at.off + take <= Len(data)
  BY <1>3, <1>6, WindowIsPositive
<1> HIDE DEF take
<1>8. SubSeq(data, at.off + 1, at.off + take) \in Seq(Word)
  BY <1>3, <1>5, <1>7
<1>. QED  BY <1>2, <1>8

\* Fetching and decoding end in a known fault or in an instruction.
LEMMA CurrentIsTyped ==
  ASSUME NEW c \in Cpus
  PROVE  /\ DecodeFault(c) \in Faults
         /\ DecodeFault(c) = "none" => Current(c) \in Instruction
<1>1. CASE Window(c).fault # "none"
  <2>1. DecodeFault(c) = Window(c).fault
    BY <1>1, Zenon DEF DecodeFault
  <2>2. Window(c).fault \in {"none", "notMapped", "permission"}
    <3>1. CASE Locate(c.mem, c.rip, 0, "x").fault = "none"
      BY <3>1 DEF Window, FetchWindow
    <3>2. CASE Locate(c.mem, c.rip, 0, "x").fault # "none"
      BY <3>2, LocateFaults DEF Window, FetchWindow
    <3>. QED  BY <3>1, <3>2
  <2>. QED  BY <1>1, <2>1, <2>2 DEF Faults
<1>2. CASE Window(c).fault = "none" /\ Window(c).cells = <<>>
  <2>1. DecodeFault(c) = "decode"
    BY <1>2, Zenon DEF DecodeFault
  <2>. QED  BY <2>1 DEF Faults
<1>3. CASE Window(c).fault = "none" /\ Window(c).cells # <<>>
  <2>1. DecodeFault(c) = IF Current(c).op = "invalid" \/ Current(c).len > Len(Window(c).cells)
                           THEN "decode" ELSE "none"
    BY <1>3, Zenon DEF DecodeFault
  <2>2. Window(c).cells \in Seq(Word)
    BY <1>3, WindowIsTyped
  <2>3. Window(c).cells[1] \in Word
    BY <1>3, <2>2
  <2>4. Current(c) \in Instruction
    BY <2>3, TableCoversEveryCell DEF Current
  <2>. QED  BY <2>1, <2>4 DEF Faults
<1>. QED  BY <1>1, <1>2, <1>3

\* What was decoded starts with a cell of the window.
LEMMA CurrentIsACell ==
  ASSUME NEW c \in Cpus, DecodeFault(c) = "none"
  PROVE  Window(c).cells[1] \in Word
<1>1. Window(c).fault = "none"
  <2>1. CASE Window(c).fault # "none"
    <3>1. DecodeFault(c) = Window(c).fault
      BY <2>1, Zenon DEF DecodeFault
    <3>. QED  BY <2>1, <3>1
  <2>. QED  BY <2>1
<1>2. Window(c).cells # <<>>
  <2>1. CASE Window(c).cells = <<>>
    <3>1. DecodeFault(c) = "decode"
      BY <1>1, <2>1, Zenon DEF DecodeFault
    <3>. QED  BY <3>1
  <2>. QED  BY <2>1
<1>. QED  BY <1>1, <1>2, WindowIsTyped

\* A step starts with nothing logged and no fault.
LEMMA BeginIsTyped ==
  ASSUME NEW c \in Cpus, NEW a \in Word
  PROVE  /\ Begin(c, a) \in Steps
         /\ Begin(c, a).fault = "none"
         /\ Begin(c, a).cpu.mem = c.mem
         /\ Begin(c, a).cpu.halt = c.halt
         /\ Accounts(c, Begin(c, a))
<1> DEFINE moved == [c EXCEPT !.rip = a]
           begun == Begin(c, a)
<1>1. moved \in Cpus /\ moved.regs = c.regs /\ moved.mem = c.mem /\ moved.halt = c.halt
  BY DEF Cpus
<1> HIDE DEF moved
<1>2. <<>> \in Seq(RegWrites) /\ <<>> \in Seq(MemWrites) /\ "none" \in Faults
  BY DEF Faults
<1>3. begun.cpu = moved /\ begun.regWrites = <<>> /\ begun.memWrites = <<>>
  BY DEF Begin, moved
<1>4. \A log : log = <<>> =>
        (\A r : RegTouches(log, r) = {}) /\ (\A x : MemTouches(log, x) = {})
  BY DEF RegTouches, MemTouches
<1>5. Accounts(c, begun)
  <2> HIDE DEF begun
  <2>1. RegsAccount(c, begun)
    BY <1>1, <1>3, <1>4 DEF RegsAccount, RegBefore, RegAfter
  <2>2. MemAccount(c, begun)
    BY <1>1, <1>3, <1>4 DEF MemAccount, MemBefore, MemAfter
  <2>. QED  BY <1>1, <1>3, <2>1, <2>2, ProtectedIsReflexive DEF Accounts
<1>. QED  BY <1>1, <1>2, <1>5 DEF Begin, Steps, moved

\* One call of `Cpu::step`, whatever the machine and whatever is at rip: the
\* result is a machine, its memory is protected, a fault does not halt it, what
\* cannot be decoded changes nothing, the logs account for every register
\* and every mapped cell, and what faults has written no register but rsp.
THEOREM StepAdvances ==
  ASSUME NEW c \in Cpus
  PROVE  /\ Step(c) \in Steps
         /\ Protected(c.mem, Step(c).cpu.mem)
         /\ Step(c).fault # "none" => Step(c).cpu.halt = c.halt
         /\ Step(c).fault = "decode" => Step(c).cpu = c
         /\ Accounts(c, Step(c))
         /\ Step(c).fault # "none" => \A r \in Reg \ {"rsp"} : Step(c).cpu.regs[r] = c.regs[r]
<1>1. CASE DecodeFault(c) # "none"
  <2>1. c.rip \in Word /\ DecodeFault(c) \in Faults
    BY CurrentIsTyped DEF Cpus
  <2> DEFINE begun == Begin(c, c.rip)
  <2>2. begun \in Steps /\ Accounts(c, begun)
    BY <2>1, BeginIsTyped
  <2>3. begun.cpu = c
    <3>1. [c EXCEPT !.rip = c.rip] = c
      BY DEF Cpus
    <3>. QED  BY <3>1 DEF Begin
  <2>4. Step(c) = Raise(begun, DecodeFault(c))
    BY <1>1 DEF Step
  <2> HIDE DEF begun
  <2>5. /\ Step(c) \in Steps /\ Step(c).cpu = c
        /\ Step(c).regWrites = begun.regWrites /\ Step(c).memWrites = begun.memWrites
    BY <2>1, <2>2, <2>3, <2>4, RaiseIsTyped
  <2>6. Accounts(c, Step(c))
    BY <2>2, <2>3, <2>5, SameLogsKeepAccounts DEF KeepsAccounts
  <2>. QED  BY <2>5, <2>6, ProtectedIsReflexive
<1>2. CASE DecodeFault(c) = "none"
  <2> DEFINE next == Trunc(c.rip + Current(c).len)
  <2>1. Current(c) \in Instruction
    BY <1>2, CurrentIsTyped
  <2>2. c.rip \in Int /\ Current(c).len \in Int
    BY <2>1 DEF Cpus, Word, Instruction
  <2>3. c.rip + Current(c).len \in Int
    BY <2>2
  <2>4. next \in Word
    BY <2>3, TruncIsWord DEF Trunc
  <2> HIDE DEF next
  <2>5. /\ Begin(c, next) \in Steps
        /\ Begin(c, next).fault = "none"
        /\ Begin(c, next).cpu.mem = c.mem
        /\ Begin(c, next).cpu.halt = c.halt
        /\ Accounts(c, Begin(c, next))
    BY <2>4, BeginIsTyped
  <2>9. Current(c).op = "xchg" => Current(c).src.mode = "reg"
    BY <1>2, CurrentIsACell, XchgSourceIsARegister DEF Current
  <2>10. Begin(c, next).cpu.regs = c.regs
    BY DEF Begin, Cpus
  <2>6. /\ Advances(Begin(c, next), Execute(Begin(c, next), Current(c)))
        /\ Spares(Begin(c, next), Execute(Begin(c, next), Current(c)))
    BY <2>1, <2>5, <2>9, ExecuteAdvances
  <2>7. Step(c) = Execute(Begin(c, next), Current(c))
    BY <1>2 DEF Step, next
  <2>8. Accounts(c, Step(c))
    BY <2>5, <2>6, <2>7 DEF Advances, KeepsAccounts
  <2>. QED  BY <2>5, <2>6, <2>7, <2>8, <2>10 DEF Advances, Spares
<1>. QED  BY <1>1, <1>2

\* The record of a step that retired is well-formed.
LEMMA EffectsAreTyped ==
  ASSUME NEW c \in Cpus, Step(c).fault = "none"
  PROVE  EffectsOf(c, Step(c)) \in Effects
<1>1. DecodeFault(c) = "none"
  <2>1. CASE DecodeFault(c) # "none"
    <3>1. Step(c).fault = DecodeFault(c)
      BY <2>1 DEF Step, Raise, Begin
    <3>. QED  BY <2>1, <3>1
  <2>. QED  BY <2>1
<1>2. Current(c) \in Instruction
  BY <1>1, CurrentIsTyped
<1>3. Step(c) \in Steps
  BY StepAdvances
<1>. QED  BY <1>2, <1>3 DEF EffectsOf, Effects, Steps, Cpus
=============================================================================
