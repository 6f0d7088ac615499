-------------------------- MODULE RoundTripProofs --------------------------
(***************************************************************************)
(* What the decoder guarantees of any bytes and of any instruction that    *)
(* was assembled: an instruction ends where it says it ends.               *)
(***************************************************************************)
EXTENDS RoundTrip, SequenceTheorems, WellFoundedInduction, TLAPS

\* A set that holds 0, and the number after each of its numbers below n, holds
\* every number up to n.
LEMMA OneByOne ==
  ASSUME NEW n \in Nat, NEW S, 0 \in S, \A k \in 1 .. n : k - 1 \in S => k \in S
  PROVE  \A k \in 0 .. n : k \in S
<1> DEFINE missing == {k \in 0 .. n : k \notin S}
<1>1. ASSUME missing # {}
      PROVE  FALSE
  <2>1. missing \in SUBSET Nat
    OBVIOUS
  <2>2. PICK k \in missing : \A j \in missing : ~(<<j, k>> \in OpToRel(<, Nat))
    <3> HIDE DEF missing
    <3>. QED  BY <1>1, <2>1, WFMin, NatLessThanWellFounded
  <2>3. k \in 1 .. n /\ k \notin S
    OBVIOUS
  <2>4. k - 1 \notin missing
    <3>1. k - 1 \in Nat /\ k \in Nat /\ k - 1 < k
      BY <2>3
    <3>. QED  BY <2>2, <3>1 DEF OpToRel
  <2>5. k - 1 \in S
    BY <2>3, <2>4
  <2>. QED  BY <2>3, <2>5
<1>. QED  BY <1>1

\* A set of numbers that is not empty has a least element.
LEMMA LeastExists ==
  ASSUME NEW S \in SUBSET Nat, S # {}
  PROVE  \E x \in S : \A y \in S : x <= y
<1>1. PICK x \in S : \A y \in S : ~(<<y, x>> \in OpToRel(<, Nat))
  BY WFMin, NatLessThanWellFounded
<1>2. ASSUME NEW y \in S
      PROVE  x <= y
  <2>1. ~(y < x)
    BY <1>1 DEF OpToRel
  <2>. QED  BY <2>1
<1>. QED  BY <1>2

\* And a greatest, if it is bounded.
LEMMA GreatestExists ==
  ASSUME NEW n \in Nat, NEW S \in SUBSET (1 .. n), S # {}
  PROVE  \E x \in S : \A y \in S : y <= x
<1> DEFINE T == {n - x : x \in S}
<1>1. T \in SUBSET Nat /\ T # {}
  <2>1. ASSUME NEW x \in S
        PROVE  n - x \in Nat /\ n - x \in T
    <3>1. x \in 1 .. n
      OBVIOUS
    <3>. QED  BY <3>1
  <2>. QED  BY <2>1
<1>2. PICK y \in T : \A z \in T : y <= z
  <2> HIDE DEF T
  <2>. QED  BY <1>1, LeastExists
<1>3. PICK x \in S : y = n - x
  OBVIOUS
<1>4. ASSUME NEW z \in S
      PROVE  z <= x
  <2>1. n - z \in T /\ z \in Nat /\ x \in Nat
    OBVIOUS
  <2>2. n - x <= n - z
    BY <1>2, <1>3, <2>1
  <2>. QED  BY <2>1, <2>2
<1>. QED  BY <1>4

-----------------------------------------------------------------------------
(***************************************************************************)
(* Numbers made of bytes, and bytes made of numbers.                       *)
(***************************************************************************)
LEMMA RadixIsPositive == Radix \in Nat /\ Radix > 0
BY RadixIsEven

LEMMA LittleEndianIsBytes ==
  ASSUME NEW v \in Int, NEW n \in Nat
  PROVE  LittleEndian(v, n) \in Seq(Nat)
<1>1. \A i \in 1 .. n : (v \div Radix^(i - 1)) % Radix \in Nat
  BY RadixIsPositive
<1>. QED  BY <1>1 DEF LittleEndian

\* The sum that SignExtend forms of its bytes, as a function of how many are in it.
Sums(b, n) ==
  LET Up[i \in 0 .. n] == IF i = 0 THEN 0 ELSE Up[i - 1] + b[i] * Radix^(i - 1)
  IN  Up

LEMMA SumsAreNumbers ==
  ASSUME NEW n \in Nat, NEW b \in [1 .. n -> Int]
  PROVE  Sums(b, n)[n] \in Int
<1> DEFINE Adds(k, f) == f[0] = 0 /\ \A i \in 1 .. k : f[i] = f[i - 1] + b[i] * Radix^(i - 1)
           S == {k \in Nat : \E f \in [0 .. k -> Int] : Adds(k, f)}
           Body(f) == [i \in 0 .. n |-> IF i = 0 THEN 0 ELSE f[i - 1] + b[i] * Radix^(i - 1)]
<1>1. 0 \in S
  <2>1. [i \in 0 .. 0 |-> 0] \in [0 .. 0 -> Int] /\ Adds(0, [i \in 0 .. 0 |-> 0])
    OBVIOUS
  <2>. QED  BY <2>1
<1>2. ASSUME NEW k \in 1 .. n, k - 1 \in S
      PROVE  k \in S
  <2>1. PICK f \in [0 .. k - 1 -> Int] : Adds(k - 1, f)
    BY <1>2
  <2> DEFINE new == f[k - 1] + b[k] * Radix^(k - 1)
             g == [i \in 0 .. k |-> IF i = k THEN new ELSE f[i]]
  <2>2. k \in Nat /\ k - 1 \in 0 .. k - 1 /\ f[k - 1] \in Int /\ b[k] \in Int
    OBVIOUS
  <2>3. new \in Int
    <3>1. Radix^(k - 1) \in Int
      BY RadixIsPositive
    <3>. QED  BY <2>2, <3>1
  <2>4. g \in [0 .. k -> Int]
    <3> HIDE DEF new
    <3>. QED  BY <2>2, <2>3
  <2>5. ASSUME NEW i \in 1 .. k
        PROVE  g[i] = g[i - 1] + b[i] * Radix^(i - 1)
    <3>1. g[i - 1] = f[i - 1]
      BY <2>2
    <3>2. CASE i = k
      <4>1. g[i] = new
        BY <3>2
      <4>. QED  BY <3>1, <3>2, <4>1
    <3>3. CASE i # k
      <4>1. g[i] = f[i] /\ i \in 1 .. k - 1
        BY <2>2, <3>3
      <4>. QED  BY <2>1, <3>1, <4>1
    <3>. QED  BY <3>2, <3>3
  <2>6. g[0] = 0
    BY <2>1, <2>2
  <2> HIDE DEF g, new
  <2>. QED  BY <2>2, <2>4, <2>5, <2>6
<1>3. n \in S
  <2> HIDE DEF S
  <2>1. \A k \in 0 .. n : k \in S
    BY <1>1, <1>2, OneByOne
  <2>. QED  BY <2>1
<1>4. PICK f \in [0 .. n -> Int] : Adds(n, f)
  BY <1>3
<1>5. f = Body(f)
  <2>1. ASSUME NEW i \in 0 .. n
        PROVE  f[i] = Body(f)[i]
    BY <1>4
  <2>. QED  BY <2>1
<1>6. Sums(b, n) = CHOOSE g : g = Body(g)
  BY DEF Sums
<1> DEFINE up == Sums(b, n)
<1>7. up = Body(up)
  <2> HIDE DEF Body, up
  <2>1. \E g : g = Body(g)
    BY <1>5
  <2>. QED  BY <1>6, <2>1 DEF up
<1> HIDE DEF up
<1>8. up[0] = 0 /\ \A i \in 1 .. n : up[i] = up[i - 1] + b[i] * Radix^(i - 1)
  <2>1. \A i \in 0 .. n : up[i] = IF i = 0 THEN 0 ELSE up[i - 1] + b[i] * Radix^(i - 1)
    BY <1>7
  <2>. QED  BY <2>1
<1> DEFINE T == {i \in 0 .. n : up[i] \in Int}
<1>9. ASSUME NEW i \in 1 .. n, i - 1 \in T
      PROVE  i \in T
  <2>1. up[i - 1] \in Int /\ b[i] \in Int /\ Radix^(i - 1) \in Int
    BY <1>9, RadixIsPositive
  <2>. QED  BY <1>8, <2>1
<1>10. n \in T
  <2>1. 0 \in T
    BY <1>8
  <2> HIDE DEF T
  <2>2. \A k \in 0 .. n : k \in T
    BY <1>9, <2>1, OneByOne
  <2>. QED  BY <2>2
<1>. QED  BY <1>10 DEF up

LEMMA ValueIsANumber ==
  ASSUME NEW s \in Seq(Nat), NEW i \in Nat \ {0}, NEW n \in Nat
  PROVE  Value(s, i, n) \in Int
<1> DEFINE bytes == [k \in 1 .. n |-> At(s, i + k - 1) % Radix]
<1>1. \A k \in 1 .. n : At(s, i + k - 1) % Radix \in Int
  BY RadixIsPositive DEF At
<1>2. bytes \in [1 .. n -> Int] /\ DOMAIN bytes = 1 .. n
  BY <1>1
<1> HIDE DEF bytes
<1>0. Len(bytes) = n
  <2>1. bytes \in Seq(Int)
    BY <1>2, SeqDef
  <2>2. Len(bytes) \in Nat /\ DOMAIN bytes = 1 .. Len(bytes)
    BY <2>1
  <2>. QED  BY <1>2, <2>2
<1>3. Sums(bytes, n)[n] \in Int
  BY <1>2, SumsAreNumbers
<1>4. Radix^n \in Int
  BY RadixIsPositive
<1>5. SignExtend(bytes) \in {Sums(bytes, n)[n], Sums(bytes, n)[n] - Radix^n}
  BY <1>0 DEF SignExtend, Sums
<1>6. SignExtend(bytes) \in Int
  BY <1>3, <1>4, <1>5
<1>. QED  BY <1>6 DEF Value, bytes

-----------------------------------------------------------------------------
(***************************************************************************)
(* Operands by their kind.                                                 *)
(***************************************************************************)
LEMMA OperandKinds ==
  ASSUME NEW o \in Operand
  PROVE  /\ o.kind = "reg" => o \in Registers
         /\ o.kind = "mem" => o \in Memories
         /\ o.kind \in {"imm", "rel"} => o.v \in Int
         /\ o.kind \in {"reg", "mem", "imm", "rel"}
         /\ OperandSize(o) \in Nat
<1>1. \/ o \in Registers /\ o.kind = "reg"
      \/ o \in Memories /\ o.kind = "mem"
      \/ o \in [kind : {"imm", "rel"}, v : Int] /\ o.kind \in {"imm", "rel"}
  BY DEF Operand, Registers, Memories
<1>2. CASE o \in Registers /\ o.kind = "reg"
  BY <1>2 DEF OperandSize, Registers, Size
<1>3. CASE o \in Memories /\ o.kind = "mem"
  BY <1>3 DEF OperandSize, Memories, Size
<1>4. CASE o \in [kind : {"imm", "rel"}, v : Int] /\ o.kind \in {"imm", "rel"}
  BY <1>4 DEF OperandSize
<1>. QED  BY <1>1, <1>2, <1>3, <1>4

LEMMA RegisterParts ==
  ASSUME NEW r \in Registers
  PROVE  /\ r.num \in Nat /\ r.size \in Nat /\ r.size \in Size /\ r.high \in BOOLEAN
         /\ EncNum(r) \in Nat /\ r \in Operand /\ r.kind = "reg"
BY DEF Registers, Operand, EncNum, Size

LEMMA MemoryParts ==
  ASSUME NEW m \in Memories
  PROVE  /\ m.seg \in Nat /\ m.disp \in Int /\ m.rip \in BOOLEAN /\ m.kind = "mem"
         /\ m.base \in Registers \cup {NoReg} /\ m.index \in Registers \cup {NoReg}
         /\ EncNum(m.base) \in Nat /\ EncNum(m.index) \in Nat
         /\ m.base.num \in Nat /\ m.index.num \in Nat /\ m \in Operand
<1>1. /\ m.seg \in Nat /\ m.disp \in Int /\ m.rip \in BOOLEAN /\ m.kind = "mem"
      /\ m.base \in Registers \cup {NoReg} /\ m.index \in Registers \cup {NoReg}
  BY DEF Memories
<1>2. ASSUME NEW r \in Registers \cup {NoReg}
      PROVE  r.num \in Nat /\ EncNum(r) \in Nat
  BY DEF Registers, NoReg, EncNum
<1>3. m \in Operand
  BY DEF Operand
<1>. QED  BY <1>1, <1>2, <1>3

-----------------------------------------------------------------------------
(***************************************************************************)
(* Everything the builder of the encoder holds is a byte or a register.    *)
(***************************************************************************)
Builder ==
  [ok : BOOLEAN, legacy : Seq(Nat), o16 : BOOLEAN, w : BOOLEAN, r : BOOLEAN, x : BOOLEAN,
   b : BOOLEAN, regs : SUBSET Registers, opcode : Seq(Nat), tail : Seq(Nat)]

LEMMA EmptyBuilds == Empty \in Builder
<1>1. <<>> \in Seq(Nat) /\ {} \in SUBSET Registers
  OBVIOUS
<1>. QED  BY <1>1, Zenon DEF Empty, Builder

LEMMA RefuseBuilds == Refuse \in Builder
BY EmptyBuilds DEF Refuse, Builder

LEMMA OpBuilds ==
  ASSUME NEW bytes \in Seq(Nat)
  PROVE  Op(bytes) \in Builder
BY EmptyBuilds DEF Op, Builder

LEMMA SizeBuilds ==
  ASSUME NEW e \in Builder, NEW size
  PROVE  SetSize(e, size) \in Builder /\ SetStackSize(e, size) \in Builder
BY DEF SetSize, SetStackSize, Builder

LEMMA NoteBuilds ==
  ASSUME NEW e \in Builder, NEW r \in Registers
  PROVE  NoteReg(e, r) \in Builder
BY DEF NoteReg, Builder

LEMMA ImmBuilds ==
  ASSUME NEW e \in Builder, NEW v \in Int, NEW n \in Nat
  PROVE  Imm(e, v, n) \in Builder
<1>1. e.tail \o LittleEndian(v, n) \in Seq(Nat)
  <2>1. e.tail \in Seq(Nat)
    BY DEF Builder
  <2>. QED  BY <2>1, LittleEndianIsBytes
<1> DEFINE tail == e.tail \o LittleEndian(v, n)
<1>2. [e EXCEPT !.tail = tail] \in Builder
  <2> HIDE DEF tail
  <2>. QED  BY <1>1 DEF Builder, tail
<1>. QED  BY <1>2, RefuseBuilds DEF Imm

LEMMA ModRMIsAByte ==
  ASSUME NEW md \in Nat, NEW field \in Nat, NEW rm \in Nat
  PROVE  ModRM(md, field, rm) \in Nat
BY DEF ModRM

LEMMA MemBuilds ==
  ASSUME NEW e \in Builder, NEW field \in Nat, NEW m \in Memories
  PROVE  ModRMMem(e, field, m) \in Builder /\ ModRMRip(e, field, m) \in Builder
<1>1. /\ m.seg \in Nat /\ m.disp \in Int
      /\ m.base \in Registers \cup {NoReg} /\ m.index \in Registers \cup {NoReg}
      /\ EncNum(m.base) \in Nat /\ EncNum(m.index) \in Nat
      /\ m.base.num \in Nat /\ m.index.num \in Nat
  BY MemoryParts
<1>2. e.legacy \o MemPrefixes(m) \in Seq(Nat)
  <2>1. MemPrefixes(m) \in Seq(Nat)
    BY <1>1 DEF MemPrefixes
  <2>2. e.legacy \in Seq(Nat)
    BY DEF Builder
  <2>. QED  BY <2>1, <2>2
<1>3. DispLen(m) \in Nat /\ Mode(m) \in Nat
  BY DEF DispLen, Mode
<1>4. Sib(m) \in Nat
  <2>1. ScaleBits(m.scale) \in 0 .. 3
    BY DEF ScaleBits
  <2>2. EncNum(m.index) % 8 \in 0 .. 7 /\ EncNum(m.base) % 8 \in 0 .. 7
    BY <1>1
  <2>. QED  BY <2>1, <2>2 DEF Sib
<1> DEFINE first == IF NeedsSib(m) THEN <<ModRM(Mode(m), field, 4), Sib(m)>>
                                   ELSE <<ModRM(Mode(m), field, EncNum(m.base))>>
           tail == first \o LittleEndian(m.disp, DispLen(m))
           rip == <<ModRM(0, field, 5)>> \o LittleEndian(m.disp, 4)
           legacy == e.legacy \o MemPrefixes(m)
           regs == e.regs \cup ({m.base, m.index} \ {NoReg})
<1>5. tail \in Seq(Nat)
  <2>1. ModRM(Mode(m), field, 4) \in Nat /\ ModRM(Mode(m), field, EncNum(m.base)) \in Nat
    BY <1>1, <1>3, ModRMIsAByte
  <2>2. first \in Seq(Nat)
    BY <1>4, <2>1
  <2>3. LittleEndian(m.disp, DispLen(m)) \in Seq(Nat)
    BY <1>1, <1>3, LittleEndianIsBytes
  <2> HIDE DEF first
  <2>. QED  BY <2>2, <2>3
<1>6. rip \in Seq(Nat)
  <2>1. ModRM(0, field, 5) \in Nat
    BY ModRMIsAByte
  <2>2. LittleEndian(m.disp, 4) \in Seq(Nat)
    BY <1>1, LittleEndianIsBytes
  <2>. QED  BY <2>1, <2>2
<1>7. regs \in SUBSET Registers
  BY <1>1 DEF Builder
<1>8. ModRMRip(e, field, m) = [e EXCEPT !.legacy = legacy, !.tail = rip]
  BY DEF ModRMRip
<1>9. \/ ModRMMem(e, field, m) = Refuse
      \/ ModRMMem(e, field, m) =
           [e EXCEPT !.legacy = legacy, !.regs = regs, !.x = @ \/ m.index.num >= 8,
                     !.b = @ \/ m.base.num >= 8, !.tail = tail]
  BY DEF ModRMMem
<1> HIDE DEF tail, rip, legacy, regs, first
<1>10. [e EXCEPT !.legacy = legacy, !.tail = rip] \in Builder
  BY <1>2, <1>6 DEF Builder, legacy
<1>11. [e EXCEPT !.legacy = legacy, !.regs = regs, !.x = @ \/ m.index.num >= 8,
                 !.b = @ \/ m.base.num >= 8, !.tail = tail] \in Builder
  BY <1>2, <1>5, <1>7 DEF Builder, legacy
<1>. QED  BY <1>8, <1>9, <1>10, <1>11, RefuseBuilds

LEMMA RmBuilds ==
  ASSUME NEW e \in Builder, NEW field \in Nat, NEW rm \in Operand
  PROVE  Rm(e, field, rm) \in Builder
<1> DEFINE high == field >= 8
           f == [e EXCEPT !.r = high]
<1>1. f \in Builder
  <2>1. high \in BOOLEAN
    OBVIOUS
  <2> HIDE DEF high
  <2>. QED  BY <2>1 DEF Builder
<1>2. CASE rm.kind = "reg"
  <2>1. rm \in Registers
    BY <1>2, OperandKinds
  <2>2. EncNum(rm) \in Nat
    BY <2>1, RegisterParts
  <2>3. ModRM(3, field, EncNum(rm)) \in Nat
    BY <2>2, ModRMIsAByte
  <2>4. <<ModRM(3, field, EncNum(rm))>> \in Seq(Nat)
    BY <2>3
  <2>5. NoteReg(f, rm) \in Builder
    BY <1>1, <2>1, NoteBuilds
  <2>6. Rm(e, field, rm) = ModRMReg(f, field, rm)
    BY <1>2 DEF Rm
  <2>7. ModRMReg(f, field, rm) =
          [NoteReg(f, rm) EXCEPT !.b = EncNum(rm) >= 8, !.tail = <<ModRM(3, field, EncNum(rm))>>]
    BY DEF ModRMReg
  <2> DEFINE tail == <<ModRM(3, field, EncNum(rm))>>
             noted == NoteReg(f, rm)
  <2> HIDE DEF tail, noted
  <2>8. [noted EXCEPT !.b = EncNum(rm) >= 8, !.tail = tail] \in Builder
    <3>1. tail \in Seq(Nat) /\ noted \in Builder
      BY <2>4, <2>5 DEF tail, noted
    <3>2. (EncNum(rm) >= 8) \in BOOLEAN
      BY <2>2
    <3>. QED  BY <3>1, <3>2 DEF Builder
  <2>. QED  BY <2>6, <2>7, <2>8 DEF tail, noted
<1>3. CASE rm.kind = "mem"
  <2>1. rm \in Memories
    BY <1>3, OperandKinds
  <2>2. rm.rip \in BOOLEAN
    BY <2>1, MemoryParts
  <2>3. Rm(e, field, rm) \in {ModRMRip(f, field, rm), ModRMMem(f, field, rm)}
    BY <1>3, <2>2 DEF Rm
  <2> HIDE DEF f
  <2>. QED  BY <1>1, <2>1, <2>3, MemBuilds
<1>4. CASE rm.kind \in {"imm", "rel"}
  BY <1>4, RefuseBuilds DEF Rm
<1>. QED  BY <1>2, <1>3, <1>4, OperandKinds

LEMMA FormsBuild ==
  ASSUME NEW opcode \in Seq(Nat), NEW size, NEW rm \in Operand
  PROVE  /\ \A digit \in Nat : DigitForm(opcode, size, digit, rm) \in Builder
         /\ \A reg \in Registers : RegForm(opcode, size, reg, rm) \in Builder
         /\ \A digit \in Nat : Rm(Op(opcode), digit, rm) \in Builder
         /\ SetSize(Op(opcode), size) \in Builder
<1>1. Op(opcode) \in Builder /\ SetSize(Op(opcode), size) \in Builder
  BY OpBuilds, SizeBuilds
<1>2. \A digit \in Nat : DigitForm(opcode, size, digit, rm) \in Builder
  BY <1>1, RmBuilds DEF DigitForm
<1>3. ASSUME NEW reg \in Registers
      PROVE  RegForm(opcode, size, reg, rm) \in Builder
  <2>1. NoteReg(SetSize(Op(opcode), size), reg) \in Builder /\ EncNum(reg) \in Nat
    BY <1>1, NoteBuilds, RegisterParts
  <2>. QED  BY <2>1, RmBuilds DEF RegForm
<1>4. \A digit \in Nat : Rm(Op(opcode), digit, rm) \in Builder
  BY <1>1, RmBuilds
<1>. QED  BY <1>1, <1>2, <1>3, <1>4

LEMMA ByWidthIsAByte ==
  ASSUME NEW size, NEW opcode \in Nat
  PROVE  ByWidth(size, opcode) \in Seq(Nat)
BY DEF ByWidth

LEMMA WidthFormsBuild ==
  ASSUME NEW opcode \in Nat, NEW size, NEW rm \in Operand
  PROVE  /\ \A digit \in Nat : DigitForm(ByWidth(size, opcode), size, digit, rm) \in Builder
         /\ \A reg \in Registers : RegForm(ByWidth(size, opcode), size, reg, rm) \in Builder
         /\ SetSize(Op(ByWidth(size, opcode)), size) \in Builder
<1> DEFINE bytes == ByWidth(size, opcode)
<1>1. bytes \in Seq(Nat)
  BY ByWidthIsAByte
<1> HIDE DEF bytes
<1>2. /\ \A digit \in Nat : DigitForm(bytes, size, digit, rm) \in Builder
      /\ \A reg \in Registers : RegForm(bytes, size, reg, rm) \in Builder
      /\ SetSize(Op(bytes), size) \in Builder
  BY <1>1, FormsBuild
<1>. QED  BY <1>2 DEF bytes

LEMMA OpcodeRegBuilds ==
  ASSUME NEW lead \in Seq(Nat), NEW opcode \in Nat, NEW r \in Registers, NEW size
  PROVE  /\ OpcodeReg(lead, opcode, r) \in Builder
         /\ SetSize(OpcodeReg(lead, opcode, r), size) \in Builder
         /\ SetStackSize(OpcodeReg(lead, opcode, r), size) \in Builder
<1> DEFINE bytes == lead \o <<opcode + (EncNum(r) % 8)>>
           noted == NoteReg(Op(bytes), r)
<1>1. EncNum(r) \in Nat
  BY RegisterParts
<1>2. bytes \in Seq(Nat)
  <2>1. opcode + (EncNum(r) % 8) \in Nat
    BY <1>1
  <2>2. <<opcode + (EncNum(r) % 8)>> \in Seq(Nat)
    BY <2>1
  <2>. QED  BY <2>2
<1>3. noted \in Builder
  <2> HIDE DEF bytes
  <2>. QED  BY <1>2, OpBuilds, NoteBuilds
<1>4. OpcodeReg(lead, opcode, r) = [noted EXCEPT !.b = EncNum(r) >= 8]
  BY DEF OpcodeReg
<1>5. (EncNum(r) >= 8) \in BOOLEAN
  BY <1>1
<1> HIDE DEF noted
<1>6. [noted EXCEPT !.b = EncNum(r) >= 8] \in Builder
  BY <1>3, <1>5 DEF Builder
<1>7. OpcodeReg(lead, opcode, r) \in Builder
  BY <1>4, <1>6
<1>. QED  BY <1>7, SizeBuilds

LEMMA ImmBytesIsANumber ==
  ASSUME NEW size
  PROVE  ImmBytes(size) \in Nat
BY DEF ImmBytes

-----------------------------------------------------------------------------
(***************************************************************************)
(* And so is what each form of instruction builds.                         *)
(***************************************************************************)
LEMMA ArithBuilds ==
  ASSUME NEW i \in Nat, NEW size \in Nat, NEW dst \in Operand, NEW src \in Operand
  PROVE  EncodeArith(i, size, dst, src) \in Builder
<1>1. /\ <<4 + i * 8>> \in Seq(Nat) /\ <<5 + i * 8>> \in Seq(Nat)
      /\ <<128>> \in Seq(Nat) /\ <<129>> \in Seq(Nat) /\ <<131>> \in Seq(Nat)
      /\ i * 8 \in Nat /\ i * 8 + 2 \in Nat
  OBVIOUS
<1>2. CASE src.kind = "imm" /\ IsWriteTarget(dst)
  <2>1. src.v \in Int
    BY <1>2, OperandKinds
  <2> DEFINE low == SetSize(Op(<<4 + i * 8>>), size)
             wide == SetSize(Op(<<5 + i * 8>>), size)
             Group(op) == DigitForm(<<op>>, size, i, dst)
  <2>2. low \in Builder /\ wide \in Builder
    BY <1>1, OpBuilds, SizeBuilds
  <2>3. Group(128) \in Builder /\ Group(129) \in Builder /\ Group(131) \in Builder
    BY <1>1, FormsBuild
  <2>4. EncodeArith(i, size, dst, src) \in
          {Imm(low, src.v, 1), Imm(Group(128), src.v, 1), Imm(Group(131), src.v, 1),
           Imm(wide, src.v, ImmBytes(size)), Imm(Group(129), src.v, ImmBytes(size))}
    BY <1>2 DEF EncodeArith
  <2> HIDE DEF low, wide, Group
  <2>5. /\ Imm(low, src.v, 1) \in Builder /\ Imm(Group(128), src.v, 1) \in Builder
        /\ Imm(Group(131), src.v, 1) \in Builder
        /\ Imm(wide, src.v, ImmBytes(size)) \in Builder
        /\ Imm(Group(129), src.v, ImmBytes(size)) \in Builder
    BY <2>1, <2>2, <2>3, ImmBuilds, ImmBytesIsANumber
  <2>. QED  BY <2>4, <2>5
<1>3. CASE src.kind = "reg"
  <2>1. src \in Registers
    BY <1>3, OperandKinds
  <2>2. RegForm(ByWidth(size, i * 8), size, src, dst) \in Builder
    BY <1>1, <2>1, WidthFormsBuild
  <2>3. EncodeArith(i, size, dst, src) \in
          {RegForm(ByWidth(size, i * 8), size, src, dst), Refuse}
    BY <1>3 DEF EncodeArith
  <2>. QED  BY <2>2, <2>3, RefuseBuilds
<1>4. CASE src.kind = "mem" /\ dst.kind = "reg"
  <2>1. dst \in Registers
    BY <1>4, OperandKinds
  <2>2. RegForm(ByWidth(size, i * 8 + 2), size, dst, src) \in Builder
    BY <1>1, <2>1, WidthFormsBuild
  <2>3. EncodeArith(i, size, dst, src) = RegForm(ByWidth(size, i * 8 + 2), size, dst, src)
    BY <1>4 DEF EncodeArith
  <2>. QED  BY <2>2, <2>3
<1>5. CASE /\ ~(src.kind = "imm" /\ IsWriteTarget(dst)) /\ src.kind # "reg"
           /\ ~(src.kind = "mem" /\ dst.kind = "reg")
  <2>1. EncodeArith(i, size, dst, src) = Refuse
    BY <1>5 DEF EncodeArith
  <2>. QED  BY <2>1, RefuseBuilds
<1>. QED  BY <1>2, <1>3, <1>4, <1>5

LEMMA ShiftBuilds ==
  ASSUME NEW digit \in Nat, NEW size \in Nat, NEW dst \in Operand, NEW count \in Operand
  PROVE  EncodeShift(digit, size, dst, count) \in Builder
<1> DEFINE Group(op) == DigitForm(ByWidth(size, op), size, digit, dst)
<1>1. Group(208) \in Builder /\ Group(192) \in Builder /\ Group(210) \in Builder
  <2>1. \A op \in Nat : Group(op) \in Builder
    BY WidthFormsBuild
  <2> HIDE DEF Group
  <2>. QED  BY <2>1
<1>2. EncodeShift(digit, size, dst, count) \in
        {Group(208), Group(210), Refuse} \cup
        (IF count.kind = "imm" THEN {Imm(Group(192), count.v, 1)} ELSE {})
  BY DEF EncodeShift, Register
<1> HIDE DEF Group
<1>3. count.kind = "imm" => Imm(Group(192), count.v, 1) \in Builder
  BY <1>1, ImmBuilds, OperandKinds
<1>. QED  BY <1>1, <1>2, <1>3, RefuseBuilds

LEMMA MovBuilds ==
  ASSUME NEW size \in Nat, NEW dst \in Operand, NEW src \in Operand
  PROVE  EncodeMov(size, dst, src) \in Builder
<1>1. CASE src.kind = "imm" /\ dst.kind = "reg"
  <2> DEFINE lead == IF size = 1 THEN 176 ELSE 184
             sized == SetSize(OpcodeReg(<<>>, lead, dst), size)
             digit == DigitForm(<<199>>, 8, 0, dst)
  <2>1. src.v \in Int /\ dst \in Registers
    BY <1>1, OperandKinds
  <2>2. lead \in Nat /\ <<>> \in Seq(Nat) /\ <<199>> \in Seq(Nat)
    OBVIOUS
  <2>3. EncodeMov(size, dst, src) \in {Imm(digit, src.v, 4), Imm(sized, src.v, size)}
    BY <1>1 DEF EncodeMov
  <2> HIDE DEF lead
  <2>4. sized \in Builder /\ digit \in Builder
    BY <2>1, <2>2, OpcodeRegBuilds, FormsBuild
  <2> HIDE DEF sized, digit
  <2>. QED  BY <2>1, <2>3, <2>4, ImmBuilds
<1>2. CASE src.kind = "imm" /\ dst.kind = "mem"
  <2> DEFINE form == DigitForm(ByWidth(size, 198), size, 0, dst)
  <2>1. src.v \in Int
    BY <1>2, OperandKinds
  <2>2. form \in Builder
    BY WidthFormsBuild
  <2>3. EncodeMov(size, dst, src) = Imm(form, src.v, ImmBytes(size))
    BY <1>2 DEF EncodeMov
  <2> HIDE DEF form
  <2>. QED  BY <2>1, <2>2, <2>3, ImmBuilds, ImmBytesIsANumber
<1>3. CASE src.kind = "reg"
  <2>1. src \in Registers
    BY <1>3, OperandKinds
  <2>2. RegForm(ByWidth(size, 136), size, src, dst) \in Builder
    BY <2>1, WidthFormsBuild
  <2>3. EncodeMov(size, dst, src) \in {RegForm(ByWidth(size, 136), size, src, dst), Refuse}
    BY <1>3 DEF EncodeMov
  <2>. QED  BY <2>2, <2>3, RefuseBuilds
<1>4. CASE src.kind = "mem" /\ dst.kind = "reg"
  <2>1. dst \in Registers
    BY <1>4, OperandKinds
  <2>2. RegForm(ByWidth(size, 138), size, dst, src) \in Builder
    BY <2>1, WidthFormsBuild
  <2>3. EncodeMov(size, dst, src) = RegForm(ByWidth(size, 138), size, dst, src)
    BY <1>4 DEF EncodeMov
  <2>. QED  BY <2>2, <2>3
<1>5. CASE /\ ~(src.kind = "imm" /\ dst.kind \in {"reg", "mem"}) /\ src.kind # "reg"
           /\ ~(src.kind = "mem" /\ dst.kind = "reg")
  <2>1. EncodeMov(size, dst, src) = Refuse
    BY <1>5 DEF EncodeMov
  <2>. QED  BY <2>1, RefuseBuilds
<1>. QED  BY <1>1, <1>2, <1>3, <1>4, <1>5

LEMMA TestBuilds ==
  ASSUME NEW size \in Nat, NEW dst \in Operand, NEW src \in Operand
  PROVE  EncodeTest(size, dst, src) \in Builder
<1>1. CASE src.kind = "imm"
  <2> DEFINE acc == SetSize(Op(ByWidth(size, 168)), size)
             form == DigitForm(ByWidth(size, 246), size, 0, dst)
  <2>1. src.v \in Int
    BY <1>1, OperandKinds
  <2>2. acc \in Builder /\ form \in Builder
    <3>1. acc \in Builder
      BY ByWidthIsAByte, OpBuilds, SizeBuilds
    <3>2. form \in Builder
      BY WidthFormsBuild
    <3>. QED  BY <3>1, <3>2
  <2>3. EncodeTest(size, dst, src) \in
          {Imm(acc, src.v, ImmBytes(size)), Imm(form, src.v, ImmBytes(size))}
    BY <1>1 DEF EncodeTest
  <2> HIDE DEF acc, form
  <2>. QED  BY <2>1, <2>2, <2>3, ImmBuilds, ImmBytesIsANumber
<1>2. CASE src.kind = "reg"
  <2>1. src \in Registers
    BY <1>2, OperandKinds
  <2>2. RegForm(ByWidth(size, 132), size, src, dst) \in Builder
    BY <2>1, WidthFormsBuild
  <2>3. EncodeTest(size, dst, src) = RegForm(ByWidth(size, 132), size, src, dst)
    BY <1>2 DEF EncodeTest
  <2>. QED  BY <2>2, <2>3
<1>3. CASE src.kind \notin {"imm", "reg"}
  <2>1. EncodeTest(size, dst, src) = Refuse
    BY <1>3 DEF EncodeTest
  <2>. QED  BY <2>1, RefuseBuilds
<1>. QED  BY <1>1, <1>2, <1>3

LEMMA XchgBuilds ==
  ASSUME NEW size \in Nat, NEW dst \in Operand, NEW src \in Operand
  PROVE  EncodeXchg(size, dst, src) \in Builder
<1> DEFINE other == IF IsAcc(dst) THEN src ELSE dst
           short == SetSize(OpcodeReg(<<>>, 144, other), other.size)
           long == RegForm(ByWidth(size, 134), size, src, dst)
<1>1. \/ EncodeXchg(size, dst, src) = short /\ dst.kind = "reg" /\ src.kind = "reg"
      \/ EncodeXchg(size, dst, src) = long /\ src.kind = "reg"
      \/ EncodeXchg(size, dst, src) = Refuse
  BY DEF EncodeXchg
<1>2. dst.kind = "reg" /\ src.kind = "reg" => short \in Builder
  <2>1. <<>> \in Seq(Nat)
    OBVIOUS
  <2>2. dst.kind = "reg" /\ src.kind = "reg" => other \in Registers
    BY OperandKinds
  <2> HIDE DEF other
  <2>. QED  BY <2>1, <2>2, OpcodeRegBuilds
<1>3. src.kind = "reg" => long \in Builder
  BY OperandKinds, WidthFormsBuild
<1> HIDE DEF short, long
<1>. QED  BY <1>1, <1>2, <1>3, RefuseBuilds

LEMMA StackFormsBuild ==
  ASSUME NEW o \in Operand
  PROVE  EncodePush(o) \in Builder /\ EncodePop(o) \in Builder
<1>1. <<>> \in Seq(Nat) /\ \A op \in Nat : <<op>> \in Seq(Nat)
  OBVIOUS
<1>2. CASE o.kind = "reg"
  <2>1. o \in Registers
    BY <1>2, OperandKinds
  <2>2. /\ EncodePush(o) = SetStackSize(OpcodeReg(<<>>, 80, o), o.size)
        /\ EncodePop(o) = SetStackSize(OpcodeReg(<<>>, 88, o), o.size)
    BY <1>2 DEF EncodePush, EncodePop
  <2> DEFINE lead == <<>>
             push == OpcodeReg(lead, 80, o)
             pop == OpcodeReg(lead, 88, o)
  <2>3. lead \in Seq(Nat) /\ 80 \in Nat /\ 88 \in Nat
    OBVIOUS
  <2> HIDE DEF lead
  <2>4. push \in Builder /\ pop \in Builder
    BY <2>1, <2>3, OpcodeRegBuilds
  <2>5. EncodePush(o) = SetStackSize(push, o.size) /\ EncodePop(o) = SetStackSize(pop, o.size)
    BY <2>2 DEF lead
  <2> HIDE DEF push, pop
  <2>. QED  BY <2>4, <2>5, SizeBuilds
<1>3. CASE o.kind = "imm"
  <2>1. o.v \in Int
    BY <1>3, OperandKinds
  <2>2. Op(<<106>>) \in Builder /\ Op(<<104>>) \in Builder
    BY <1>1, OpBuilds
  <2>3. /\ EncodePush(o) \in {Imm(Op(<<106>>), o.v, 1), Imm(Op(<<104>>), o.v, 4)}
        /\ EncodePop(o) = Refuse
    BY <1>3 DEF EncodePush, EncodePop
  <2>. QED  BY <2>1, <2>2, <2>3, ImmBuilds, RefuseBuilds
<1>4. CASE o.kind = "mem"
  <2>1. Rm(Op(<<255>>), 6, o) \in Builder /\ Rm(Op(<<143>>), 0, o) \in Builder
    <3>1. \A digit \in Nat, op \in Nat : Rm(Op(<<op>>), digit, o) \in Builder
      BY <1>1, FormsBuild
    <3>. QED  BY <3>1
  <2>2. EncodePush(o) = Rm(Op(<<255>>), 6, o) /\ EncodePop(o) = Rm(Op(<<143>>), 0, o)
    BY <1>4 DEF EncodePush, EncodePop
  <2>. QED  BY <2>1, <2>2
<1>5. CASE o.kind = "rel"
  <2>1. EncodePush(o) = Refuse /\ EncodePop(o) = Refuse
    BY <1>5 DEF EncodePush, EncodePop
  <2>. QED  BY <2>1, RefuseBuilds
<1>. QED  BY <1>2, <1>3, <1>4, <1>5, OperandKinds

LEMMA WideningsBuild ==
  ASSUME NEW dst \in Operand, NEW src \in Operand, NEW i \in Operand
  PROVE  /\ EncodeImul2(dst, src) \in Builder
         /\ EncodeImul3(dst, src, i) \in Builder
         /\ \A opcode \in Nat : EncodeWiden(opcode, dst, src) \in Builder
<1>1. \A size : \A a, c \in Nat : dst.kind = "reg" => RegForm(<<a, c>>, size, dst, src) \in Builder
  <2>1. ASSUME NEW a \in Nat, NEW c \in Nat, NEW size, dst.kind = "reg"
        PROVE  RegForm(<<a, c>>, size, dst, src) \in Builder
    <3>1. <<a, c>> \in Seq(Nat) /\ dst \in Registers
      BY <2>1, OperandKinds
    <3>. QED  BY <3>1, FormsBuild
  <2>. QED  BY <2>1
<1>2. \A size : \A a \in Nat : dst.kind = "reg" => RegForm(<<a>>, size, dst, src) \in Builder
  <2>1. ASSUME NEW a \in Nat, NEW size, dst.kind = "reg"
        PROVE  RegForm(<<a>>, size, dst, src) \in Builder
    <3>1. <<a>> \in Seq(Nat) /\ dst \in Registers
      BY <2>1, OperandKinds
    <3>. QED  BY <3>1, FormsBuild
  <2>. QED  BY <2>1
<1>3. EncodeImul2(dst, src) \in Builder
  BY <1>1, RefuseBuilds DEF EncodeImul2
<1>4. EncodeImul3(dst, src, i) \in Builder
  <2> DEFINE one == RegForm(<<107>>, dst.size, dst, src)
             more == RegForm(<<105>>, dst.size, dst, src)
             n == IF dst.size = 2 THEN 2 ELSE 4
  <2>1. \/ EncodeImul3(dst, src, i) = Refuse
        \/ /\ EncodeImul3(dst, src, i) \in {Imm(one, i.v, 1), Imm(more, i.v, n)}
           /\ dst.kind = "reg" /\ i.kind = "imm"
    BY DEF EncodeImul3
  <2>2. n \in Nat
    OBVIOUS
  <2>3. dst.kind = "reg" => one \in Builder /\ more \in Builder
    BY <1>2
  <2>4. i.kind = "imm" => i.v \in Int
    BY OperandKinds
  <2> HIDE DEF one, more, n
  <2>. QED  BY <2>1, <2>2, <2>3, <2>4, ImmBuilds, RefuseBuilds
<1>5. ASSUME NEW opcode \in Nat
      PROVE  EncodeWiden(opcode, dst, src) \in Builder
  <2> DEFINE second == IF OperandSize(src) = 2 THEN opcode + 1 ELSE opcode
  <2>1. second \in Nat
    OBVIOUS
  <2>2. \/ EncodeWiden(opcode, dst, src) = Refuse
        \/ EncodeWiden(opcode, dst, src) = RegForm(<<15, second>>, dst.size, dst, src)
           /\ dst.kind = "reg"
    BY DEF EncodeWiden
  <2> HIDE DEF second
  <2>. QED  BY <1>1, <2>1, <2>2, RefuseBuilds
<1>. QED  BY <1>3, <1>4, <1>5

LEMMA BranchBuilds ==
  ASSUME NEW m \in {"jmp", "jcc", "call"}, NEW cc \in Nat, NEW o \in Operand
  PROVE  EncodeBranch(m, cc, o) \in Builder
<1>1. /\ <<235>> \in Seq(Nat) /\ <<233>> \in Seq(Nat) /\ <<112 + cc>> \in Seq(Nat)
      /\ <<15, 128 + cc>> \in Seq(Nat) /\ <<232>> \in Seq(Nat) /\ <<255>> \in Seq(Nat)
  OBVIOUS
<1>2. CASE o.kind = "rel"
  <2>1. o.v \in Int
    BY <1>2, OperandKinds
  <2>2. EncodeBranch(m, cc, o) \in
          {Imm(Op(<<235>>), o.v, 1), Imm(Op(<<233>>), o.v, 4), Imm(Op(<<112 + cc>>), o.v, 1),
           Imm(Op(<<15, 128 + cc>>), o.v, 4), Imm(Op(<<232>>), o.v, 4)}
    BY <1>2 DEF EncodeBranch
  <2>3. \A bytes \in Seq(Nat) : Imm(Op(bytes), o.v, 1) \in Builder /\ Imm(Op(bytes), o.v, 4) \in Builder
    BY <2>1, OpBuilds, ImmBuilds
  <2>4. /\ Imm(Op(<<235>>), o.v, 1) \in Builder /\ Imm(Op(<<233>>), o.v, 4) \in Builder
        /\ Imm(Op(<<112 + cc>>), o.v, 1) \in Builder /\ Imm(Op(<<15, 128 + cc>>), o.v, 4) \in Builder
        /\ Imm(Op(<<232>>), o.v, 4) \in Builder
    BY <1>1, <2>3
  <2>. QED  BY <2>2, <2>4
<1>3. CASE o.kind # "rel"
  <2>1. EncodeBranch(m, cc, o) \in {Refuse, Rm(Op(<<255>>), 4, o), Rm(Op(<<255>>), 2, o)}
    BY <1>3 DEF EncodeBranch
  <2>2. \A digit \in Nat : Rm(Op(<<255>>), digit, o) \in Builder
    BY <1>1, FormsBuild
  <2>. QED  BY <2>1, <2>2, RefuseBuilds
<1>. QED  BY <1>2, <1>3

LEMMA FixedBuild ==
  ASSUME NEW m \in DOMAIN Fixed
  PROVE  Fixed[m] \in Builder
<1>1. /\ <<201>> \in Seq(Nat) /\ <<244>> \in Seq(Nat) /\ <<204>> \in Seq(Nat)
      /\ <<15, 5>> \in Seq(Nat) /\ <<15, 11>> \in Seq(Nat) /\ <<152>> \in Seq(Nat)
      /\ <<153>> \in Seq(Nat) /\ <<15, 30>> \in Seq(Nat) /\ <<243>> \in Seq(Nat)
      /\ <<250>> \in Seq(Nat)
  OBVIOUS
<1>2. /\ Op(<<201>>) \in Builder /\ Op(<<244>>) \in Builder /\ Op(<<204>>) \in Builder
      /\ Op(<<15, 5>>) \in Builder /\ Op(<<15, 11>>) \in Builder /\ Op(<<152>>) \in Builder
      /\ Op(<<153>>) \in Builder /\ Op(<<15, 30>>) \in Builder
  BY <1>1, OpBuilds
<1>3. \A size : SetSize(Op(<<152>>), size) \in Builder /\ SetSize(Op(<<153>>), size) \in Builder
  BY <1>2, SizeBuilds
<1>4. [Op(<<15, 30>>) EXCEPT !.legacy = <<243>>, !.tail = <<250>>] \in Builder
  <2> DEFINE base == Op(<<15, 30>>)
             legacy == <<243>>
             tail == <<250>>
  <2>1. base \in Builder /\ legacy \in Seq(Nat) /\ tail \in Seq(Nat)
    BY <1>1, <1>2
  <2> HIDE DEF base, legacy, tail
  <2>2. [base EXCEPT !.legacy = legacy, !.tail = tail] \in Builder
    BY <2>1 DEF Builder
  <2>. QED  BY <2>2 DEF base, legacy, tail
<1> DEFINE endbr == [Op(<<15, 30>>) EXCEPT !.legacy = <<243>>, !.tail = <<250>>]
<1>5. Fixed[m] \in {Op(<<201>>), Op(<<244>>), Op(<<204>>), Op(<<15, 5>>), Op(<<15, 11>>), endbr,
                    Op(<<152>>), SetSize(Op(<<152>>), 2), SetSize(Op(<<152>>), 8), Op(<<153>>),
                    SetSize(Op(<<153>>), 2), SetSize(Op(<<153>>), 8)}
  <2> HIDE DEF endbr
  <2>1. Fixed = [leave |-> Op(<<201>>), hlt |-> Op(<<244>>), int3 |-> Op(<<204>>),
                 syscall |-> Op(<<15, 5>>), ud2 |-> Op(<<15, 11>>), endbr64 |-> endbr,
                 cwde |-> Op(<<152>>), cbw |-> SetSize(Op(<<152>>), 2),
                 cdqe |-> SetSize(Op(<<152>>), 8), cdq |-> Op(<<153>>),
                 cwd |-> SetSize(Op(<<153>>), 2), cqo |-> SetSize(Op(<<153>>), 8)]
    BY DEF Fixed, endbr
  <2>. QED  BY <2>1
<1>6. endbr \in Builder
  BY <1>4
<1> HIDE DEF endbr
<1>. QED  BY <1>2, <1>3, <1>5, <1>6

LEMMA SizeOfOperands ==
  ASSUME NEW ops \in Seq(Operand)
  PROVE  SizeOf(ops) \in Nat /\ (SizeOf(ops) # 0 => ops[1] \in Operand)
<1> DEFINE sized == {k \in DOMAIN ops : OperandSize(ops[k]) # 0}
           first == CHOOSE k \in sized : \A j \in sized : k <= j
<1>1. Len(ops) \in Nat /\ DOMAIN ops = 1 .. Len(ops) /\ \A k \in DOMAIN ops : ops[k] \in Operand
  OBVIOUS
<1>2. SizeOf(ops) = IF sized = {} THEN 0 ELSE OperandSize(ops[first])
  BY DEF SizeOf
<1>3. CASE sized = {}
  <2>1. SizeOf(ops) = 0
    BY <1>2, <1>3
  <2>. QED  BY <2>1
<1>4. CASE sized # {}
  <2>1. sized \in SUBSET Nat
    BY <1>1
  <2>2. first \in sized
    <3> HIDE DEF sized
    <3>. QED  BY <1>4, <2>1, LeastExists
  <2>3. first \in DOMAIN ops
    BY <2>2
  <2>4. ops[first] \in Operand /\ ops[1] \in Operand
    BY <1>1, <2>3
  <2> HIDE DEF first, sized
  <2>. QED  BY <1>2, <1>4, <2>4, OperandKinds
<1>. QED  BY <1>3, <1>4

\* The tables of mnemonics.
LEMMA Digits ==
  /\ \A m \in Names(Arithmetic) : DigitOf(Arithmetic, m) - 1 \in Nat
  /\ \A m \in Names(Shifts) : DigitOf(Shifts, m) \in Nat
  /\ \A m \in Names(Unaries) : DigitOf(Unaries, m) \in Nat
<1>1. ASSUME NEW table, NEW m \in Names(table)
      PROVE  DigitOf(table, m) \in DOMAIN table
  <2>1. \E d \in DOMAIN table : table[d] = m
    BY DEF Names
  <2>. QED  BY <2>1, Zenon DEF DigitOf
<1>2. DOMAIN Arithmetic = 1 .. 8
  BY DEF Arithmetic
<1>3. DOMAIN Shifts \subseteq Nat
  BY DEF Shifts
<1>4. DOMAIN Unaries \subseteq Nat
  BY DEF Unaries
<1>5. \A m \in Names(Arithmetic) : DigitOf(Arithmetic, m) - 1 \in Nat
  <2>1. \A m \in Names(Arithmetic) : DigitOf(Arithmetic, m) \in 1 .. 8
    BY <1>1, <1>2
  <2>. QED  BY <2>1
<1>6. \A m \in Names(Shifts) : DigitOf(Shifts, m) \in Nat
  BY <1>1, <1>3
<1>7. \A m \in Names(Unaries) : DigitOf(Unaries, m) \in Nat
  BY <1>1, <1>4
<1>. QED  BY <1>5, <1>6, <1>7

LEMMA TableNames ==
  /\ Names(Unaries) \subseteq {"not", "neg", "mul", "imul", "div", "idiv"}
  /\ Names(Arithmetic) \subseteq {"add", "or", "adc", "sbb", "and", "sub", "xor", "cmp"}
  /\ Names(Shifts) \subseteq {"rol", "ror", "rcl", "rcr", "shl", "shr", "sar"}
<1>1. Names(Unaries) \subseteq {"not", "neg", "mul", "imul", "div", "idiv"}
  BY DEF Names, Unaries
<1>2. Names(Arithmetic) \subseteq {"add", "or", "adc", "sbb", "and", "sub", "xor", "cmp"}
  BY DEF Names, Arithmetic
<1>3. Names(Shifts) \subseteq {"rol", "ror", "rcl", "rcr", "shl", "shr", "sar"}
  BY DEF Names, Shifts
<1>. QED  BY <1>1, <1>2, <1>3

LEMMA OneOperandBuilds ==
  ASSUME NEW m, NEW cc \in Nat, NEW o \in Operand
  PROVE  OneOperand(m, cc, o) \in Builder
<1> DEFINE size == OperandSize(o)
<1>1. size \in Nat /\ (o.kind = "imm" => o.v \in Int) /\ (o.kind = "reg" => o \in Registers)
  BY OperandKinds
<1>2. CASE m \in {"ret", "int"}
  <2>1. <<194>> \in Seq(Nat) /\ <<205>> \in Seq(Nat)
    OBVIOUS
  <2>2. Op(<<194>>) \in Builder /\ Op(<<205>>) \in Builder
    BY <2>1, OpBuilds
  <2>3. o.kind = "imm" =>
          Imm(Op(<<194>>), o.v, 2) \in Builder /\ Imm(Op(<<205>>), o.v, 1) \in Builder
    BY <1>1, <2>2, ImmBuilds
  <2>4. \/ o.kind = "imm" /\ OneOperand(m, cc, o) \in {Imm(Op(<<194>>), o.v, 2), Imm(Op(<<205>>), o.v, 1)}
        \/ OneOperand(m, cc, o) = Refuse
    BY <1>2, TableNames DEF OneOperand
  <2>. QED  BY <2>3, <2>4, RefuseBuilds
<1>3. CASE m \in Names(Unaries) /\ m \notin {"ret", "int"}
  <2>1. DigitForm(ByWidth(size, 246), size, DigitOf(Unaries, m), o) \in Builder
    <3>1. DigitOf(Unaries, m) \in Nat
      BY <1>3, Digits
    <3> HIDE DEF size
    <3>. QED  BY <3>1, WidthFormsBuild
  <2>2. OneOperand(m, cc, o) \in
          {Refuse, DigitForm(ByWidth(size, 246), size, DigitOf(Unaries, m), o)}
    BY <1>3, TableNames DEF OneOperand
  <2>. QED  BY <2>1, <2>2, RefuseBuilds
<1> DEFINE other == m \notin Names(Unaries) /\ m \notin {"ret", "int"}
<1>4. CASE other /\ m \in {"push", "pop"}
  <2>1. OneOperand(m, cc, o) \in {EncodePush(o), EncodePop(o)}
    BY <1>4 DEF OneOperand
  <2>. QED  BY <2>1, StackFormsBuild
<1>5. CASE other /\ m \in {"jmp", "call", "jcc"}
  <2>1. OneOperand(m, cc, o) = EncodeBranch(m, cc, o)
    BY <1>5 DEF OneOperand
  <2>. QED  BY <1>5, <2>1, BranchBuilds
<1>6. CASE other /\ m = "setcc"
  <2>1. <<15, 144 + cc>> \in Seq(Nat)
    OBVIOUS
  <2>2. \A digit \in Nat : Rm(Op(<<15, 144 + cc>>), digit, o) \in Builder
    BY <2>1, FormsBuild
  <2>3. OneOperand(m, cc, o) \in {Refuse, Rm(Op(<<15, 144 + cc>>), 0, o)}
    BY <1>6 DEF OneOperand
  <2>. QED  BY <2>2, <2>3, RefuseBuilds
<1>7. CASE other /\ m = "bswap"
  <2> DEFINE lead == <<15>>
  <2>1. lead \in Seq(Nat) /\ 200 \in Nat
    OBVIOUS
  <2> HIDE DEF lead
  <2>2. \A w : \A r \in Registers : SetSize(OpcodeReg(lead, 200, r), w) \in Builder
    <3>1. \A r \in Registers : OpcodeReg(lead, 200, r) \in Builder
      BY <2>1, OpcodeRegBuilds
    <3>. QED  BY <3>1, SizeBuilds
  <2>3. \/ OneOperand(m, cc, o) = Refuse
        \/ o.kind = "reg" /\ OneOperand(m, cc, o) = SetSize(OpcodeReg(lead, 200, o), size)
    BY <1>7 DEF OneOperand, lead
  <2> HIDE DEF size
  <2>. QED  BY <1>1, <2>2, <2>3, RefuseBuilds
<1>8. CASE other /\ m = "nop"
  <2> DEFINE width1 == IF size = 0 THEN 4 ELSE size
  <2>1. <<15, 31>> \in Seq(Nat)
    OBVIOUS
  <2>2. \A w : DigitForm(<<15, 31>>, w, 0, o) \in Builder
    BY <2>1, FormsBuild
  <2>3. OneOperand(m, cc, o) = DigitForm(<<15, 31>>, width1, 0, o)
    BY <1>8 DEF OneOperand
  <2>. QED  BY <2>2, <2>3
<1>9. CASE other /\ m \notin {"push", "pop", "jmp", "call", "jcc", "setcc", "bswap", "nop"}
  <2>1. OneOperand(m, cc, o) = Refuse
    BY <1>9 DEF OneOperand
  <2>. QED  BY <2>1, RefuseBuilds
<1>. QED  BY <1>2, <1>3, <1>4, <1>5, <1>6, <1>7, <1>8, <1>9

LEMMA StepBuilds ==
  ASSUME NEW m, NEW ops \in Seq(Operand)
  PROVE  EncodeStep(m, ops) \in Builder
<1> DEFINE size == SizeOf(ops)
           digit == IF m = "inc" THEN 0 ELSE 1
<1>1. size # 0 => ops[1] \in Operand
  BY SizeOfOperands
<1>2. digit \in Nat
  OBVIOUS
<1>3. EncodeStep(m, ops) =
        IF size = 0 THEN Refuse ELSE DigitForm(ByWidth(size, 254), size, digit, ops[1])
  BY DEF EncodeStep
<1> HIDE DEF size, digit
<1>4. \A o \in Operand : DigitForm(ByWidth(size, 254), size, digit, o) \in Builder
  BY <1>2, WidthFormsBuild
<1>. QED  BY <1>1, <1>3, <1>4, RefuseBuilds

LEMMA TwoOperandsBuild ==
  ASSUME NEW m, NEW cc \in Nat, NEW dst \in Operand, NEW src \in Operand
  PROVE  TwoOperands(m, cc, dst, src) \in Builder
<1> DEFINE size == SizeOf(<<dst, src>>)
           two == TwoOperands(m, cc, dst, src)
<1>1. size \in Nat /\ OperandSize(dst) \in Nat /\ (dst.kind = "reg" => dst \in Registers)
  <2>1. <<dst, src>> \in Seq(Operand)
    OBVIOUS
  <2>. QED  BY <2>1, SizeOfOperands, OperandKinds
<1>2. CASE m \in Names(Arithmetic)
  <2>1. two \in {Refuse, EncodeArith(DigitOf(Arithmetic, m) - 1, size, dst, src)}
    BY <1>2, TableNames DEF TwoOperands
  <2>2. DigitOf(Arithmetic, m) - 1 \in Nat
    BY <1>2, Digits
  <2> HIDE DEF size
  <2>. QED  BY <1>1, <2>1, <2>2, ArithBuilds, RefuseBuilds
<1>3. CASE m \in Names(Shifts)
  <2>1. two \in {Refuse, EncodeShift(DigitOf(Shifts, m), OperandSize(dst), dst, src)}
    BY <1>3, TableNames DEF TwoOperands
  <2>2. DigitOf(Shifts, m) \in Nat
    BY <1>3, Digits
  <2>. QED  BY <1>1, <2>1, <2>2, ShiftBuilds, RefuseBuilds
<1> DEFINE other == m \notin Names(Arithmetic) /\ m \notin Names(Shifts)
<1>4. CASE other /\ m \in {"mov", "test", "xchg"}
  <2>1. two \in {Refuse, EncodeMov(size, dst, src), EncodeTest(size, dst, src),
                 EncodeXchg(size, dst, src)}
    BY <1>4 DEF TwoOperands
  <2> HIDE DEF size
  <2>. QED  BY <1>1, <2>1, MovBuilds, TestBuilds, XchgBuilds, RefuseBuilds
<1>5. CASE other /\ m \in {"movzx", "movsx", "imul"}
  <2>1. two \in {EncodeWiden(182, dst, src), EncodeWiden(190, dst, src), EncodeImul2(dst, src)}
    BY <1>5 DEF TwoOperands
  <2>. QED  BY <2>1, WideningsBuild
<1>6. CASE other /\ m \in {"movsxd", "lea", "cmovcc"}
  <2>1. \/ two = Refuse
        \/ /\ dst.kind = "reg"
           /\ two \in {RegForm(<<99>>, dst.size, dst, src), RegForm(<<141>>, dst.size, dst, src),
                       RegForm(<<15, 64 + cc>>, dst.size, dst, src)}
    BY <1>6 DEF TwoOperands
  <2>2. <<99>> \in Seq(Nat) /\ <<141>> \in Seq(Nat) /\ <<15, 64 + cc>> \in Seq(Nat)
    OBVIOUS
  <2>3. \A bytes \in Seq(Nat) : dst.kind = "reg" => RegForm(bytes, dst.size, dst, src) \in Builder
    BY <1>1, FormsBuild
  <2>4. dst.kind = "reg" => /\ RegForm(<<99>>, dst.size, dst, src) \in Builder
                            /\ RegForm(<<141>>, dst.size, dst, src) \in Builder
                            /\ RegForm(<<15, 64 + cc>>, dst.size, dst, src) \in Builder
    BY <2>2, <2>3
  <2>. QED  BY <2>1, <2>4, RefuseBuilds
<1>7. CASE /\ other
           /\ m \notin {"mov", "test", "xchg", "movzx", "movsx", "imul", "movsxd", "lea", "cmovcc"}
  <2>1. two = Refuse
    BY <1>7 DEF TwoOperands
  <2>. QED  BY <2>1, RefuseBuilds
<1>. QED  BY <1>2, <1>3, <1>4, <1>5, <1>6, <1>7

(***************************************************************************)
(* An instruction, as far as its bytes depend on it.                       *)
(***************************************************************************)
WellFormed(i) == i.cc \in Nat /\ i.ops \in Seq(Operand)

LEMMA EmitBuilds ==
  ASSUME NEW i, WellFormed(i)
  PROVE  Emit(i) \in Builder
<1>1. i.cc \in Nat /\ i.ops \in Seq(Operand) /\ Len(i.ops) \in Nat
  BY DEF WellFormed
<1>2. \A k \in 1 .. Len(i.ops) : i.ops[k] \in Operand
  BY <1>1
<1>3. NoOperands(i) \in Builder
  <2>1. <<195>> \in Seq(Nat) /\ <<144>> \in Seq(Nat)
    OBVIOUS
  <2>2. NoOperands(i) \in {Op(<<195>>), Op(<<144>>), Refuse}
    BY DEF NoOperands
  <2>3. Op(<<195>>) \in Builder /\ Op(<<144>>) \in Builder
    BY <2>1, OpBuilds
  <2>. QED  BY <2>2, <2>3, RefuseBuilds
<1>4. EmitByArity(i) \in Builder
  <2>1. CASE Len(i.ops) = 0
    BY <1>3, <2>1 DEF EmitByArity
  <2>2. CASE Len(i.ops) = 1
    <3>1. i.ops[1] \in Operand
      BY <1>2, <2>2
    <3>2. EmitByArity(i) = OneOperand(i.m, i.cc, i.ops[1])
      BY <2>2 DEF EmitByArity
    <3>. QED  BY <1>1, <3>1, <3>2, OneOperandBuilds
  <2>3. CASE Len(i.ops) = 2
    <3>1. i.ops[1] \in Operand /\ i.ops[2] \in Operand
      BY <1>2, <2>3
    <3>2. EmitByArity(i) = TwoOperands(i.m, i.cc, i.ops[1], i.ops[2])
      BY <2>3 DEF EmitByArity
    <3>. QED  BY <1>1, <3>1, <3>2, TwoOperandsBuild
  <2>4. CASE Len(i.ops) = 3
    <3>1. i.ops[1] \in Operand /\ i.ops[2] \in Operand /\ i.ops[3] \in Operand
      BY <1>2, <2>4
    <3>2. EmitByArity(i) \in {Refuse, EncodeImul3(i.ops[1], i.ops[2], i.ops[3])}
      BY <2>4 DEF EmitByArity
    <3>. QED  BY <3>1, <3>2, WideningsBuild, RefuseBuilds
  <2>5. CASE Len(i.ops) \notin {0, 1, 2, 3}
    <3>1. EmitByArity(i) = Refuse
      BY <2>5 DEF EmitByArity
    <3>. QED  BY <3>1, RefuseBuilds
  <2>. QED  BY <2>1, <2>2, <2>3, <2>4, <2>5
<1>5. CASE i.m \in DOMAIN Fixed
  <2>1. DOMAIN Fixed = {"leave", "hlt", "int3", "syscall", "ud2", "endbr64", "cwde", "cbw", "cdqe",
                        "cdq", "cwd", "cqo"}
    BY DEF Fixed
  <2>2. Emit(i) = Fixed[i.m]
    BY <1>5, <2>1 DEF Emit
  <2>. QED  BY <1>5, <2>2, FixedBuild
<1>6. CASE i.m \notin DOMAIN Fixed
  <2>1. Emit(i) \in {EncodeStep(i.m, i.ops), EmitByArity(i)}
    BY <1>6 DEF Emit
  <2>. QED  BY <1>1, <1>4, <2>1, StepBuilds
<1>. QED  BY <1>5, <1>6

LEMMA EncodeIsBytes ==
  ASSUME NEW i, WellFormed(i)
  PROVE  Encode(i) \in Seq(Nat)
<1> DEFINE e == Emit(i)
           size == IF e.o16 THEN <<102>> ELSE <<>>
<1>1. e \in Builder
  BY EmitBuilds
<1> HIDE DEF e
<1>2. e.legacy \in Seq(Nat) /\ e.opcode \in Seq(Nat) /\ e.tail \in Seq(Nat)
  BY <1>1 DEF Builder
<1>3. size \in Seq(Nat) /\ <<>> \in Seq(Nat)
  OBVIOUS
<1>4. Rex(e) \in Seq(Nat)
  <2>1. /\ Bit(e.w, 8) \in Nat /\ Bit(e.r, 4) \in Nat /\ Bit(e.x, 2) \in Nat
        /\ Bit(e.b, 1) \in Nat
    BY DEF Bit
  <2>2. 64 + Bit(e.w, 8) + Bit(e.r, 4) + Bit(e.x, 2) + Bit(e.b, 1) \in Nat
    BY <2>1
  <2>. QED  BY <2>2 DEF Rex
<1>5. Finish(e) \in {<<>>, size \o e.legacy \o Rex(e) \o e.opcode \o e.tail}
  BY DEF Finish
<1> HIDE DEF size
<1>6. Finish(e) \in Seq(Nat)
  <2>1. size \o e.legacy \in Seq(Nat)
    BY <1>2, <1>3
  <2>2. size \o e.legacy \o Rex(e) \in Seq(Nat)
    BY <1>4, <2>1
  <2>3. size \o e.legacy \o Rex(e) \o e.opcode \in Seq(Nat)
    BY <1>2, <2>2
  <2>4. size \o e.legacy \o Rex(e) \o e.opcode \o e.tail \in Seq(Nat)
    BY <1>2, <2>3
  <2>. QED  BY <1>3, <1>5, <2>4
<1>. QED  BY <1>6 DEF Encode, e

-----------------------------------------------------------------------------
(***************************************************************************)
(* Bytes that are alike up to the nth, and the decoder at work on both.    *)
(***************************************************************************)
Alike(s, t, n) ==
  /\ s \in Seq(Nat) /\ t \in Seq(Nat)
  /\ n \in Nat /\ n <= Len(s) /\ n <= Len(t)
  /\ \A i \in 1 .. n : s[i] = t[i]

LEMMA AlikeAt ==
  ASSUME NEW s, NEW t, NEW n, Alike(s, t, n), NEW i \in Nat \ {0}
  PROVE  At(s, i) \in Nat /\ (i <= n => At(s, i) = At(t, i))
BY DEF Alike, At

LEMMA AlikeValue ==
  ASSUME NEW s, NEW t, NEW n, Alike(s, t, n), NEW i \in Nat \ {0}, NEW k \in Nat
  PROVE  Value(s, i, k) \in Int /\ (i + k - 1 <= n => Value(s, i, k) = Value(t, i, k))
<1>1. Value(s, i, k) \in Int
  BY ValueIsANumber DEF Alike
<1>2. ASSUME i + k - 1 <= n
      PROVE  Value(s, i, k) = Value(t, i, k)
  <2>1. ASSUME NEW j \in 1 .. k
        PROVE  At(s, i + j - 1) % Radix = At(t, i + j - 1) % Radix
    <3>1. i + j - 1 \in Nat \ {0} /\ i + j - 1 <= n
      BY <1>2 DEF Alike
    <3>. QED  BY <3>1, AlikeAt
  <2>2. [j \in 1 .. k |-> At(s, i + j - 1) % Radix] = [j \in 1 .. k |-> At(t, i + j - 1) % Radix]
    BY <2>1
  <2>. QED  BY <2>2, Zenon DEF Value
<1>. QED  BY <1>1, <1>2

\* struct Dec; an operand was read once rm is a register or in memory.
Dec ==
  [s : Seq(Nat), rex : BOOLEAN, w : BOOLEAN, r : BOOLEAN, x : BOOLEAN, b : BOOLEAN,
   seg : Nat, rep : Nat, addr : {4, 8}, size : {2, 4, 8}, stack : {2, 8}, pos : Nat \ {0},
   digit : 0 .. 7, reg : Nat, rm : Registers \cup Memories \cup {NoReg}, next : Nat]

\* The same prefixes before the same position.
SamePrefixes(d, e) ==
  /\ d.rex = e.rex /\ d.w = e.w /\ d.r = e.r /\ d.x = e.x /\ d.b = e.b
  /\ d.seg = e.seg /\ d.rep = e.rep /\ d.addr = e.addr /\ d.size = e.size
  /\ d.stack = e.stack /\ d.pos = e.pos
SameModRM(d, e) ==
  d.digit = e.digit /\ d.reg = e.reg /\ d.rm = e.rm /\ d.next = e.next

LEMMA GprIsARegister ==
  ASSUME NEW d, NEW num \in Nat, NEW size \in Size
  PROVE  Gpr(d, num, size) \in Registers
<1>1. num \in 4 .. 7 => num - 4 \in Nat
  OBVIOUS
<1>. QED  BY <1>1 DEF Gpr, HighByte, Register, Registers, Size

(***************************************************************************)
(* The ModRM byte that is read ahead, and what it says follows.  Once it   *)
(* is read, the same follows in both.                                      *)
(***************************************************************************)
\* D and E are what is known of d and of e behind the byte before i.
ReadAlike(d, D, E, n, i) ==
  /\ D \in Dec /\ D.s = d.s /\ SamePrefixes(D, d)
  /\ D.rm \in Registers \cup Memories
  /\ D.digit = d.digit /\ D.reg = d.reg
  /\ D.next >= i
  /\ D.next - 1 <= n => E.rm = D.rm /\ E.next = D.next

AddressParts(base, index, scale, rip) ==
  /\ base \in Registers \cup {NoReg} /\ index \in Registers \cup {NoReg}
  /\ scale \in Int /\ rip \in BOOLEAN

LEMMA DisplacementFollows ==
  ASSUME NEW d \in Dec, NEW e \in Dec, NEW n, Alike(d.s, e.s, n), SamePrefixes(d, e),
         NEW base, NEW index, NEW scale, NEW rip, AddressParts(base, index, scale, rip),
         NEW i \in Nat \ {0}, NEW k \in Nat
  PROVE  /\ ReadAlike(d, Address(d, base, index, scale, i, k, rip),
                      Address(e, base, index, scale, i, k, rip), n, i)
         /\ Address(d, base, index, scale, i, k, rip).next = i + k
<1> DEFINE a == Address(d, base, index, scale, i, k, rip)
           c == Address(e, base, index, scale, i, k, rip)
           v == Value(d.s, i, k)
           mem == Memory(d.seg, base, index, scale, v, 0, rip)
<1>1. v \in Int /\ (i + k - 1 <= n => v = Value(e.s, i, k))
  BY AlikeValue
<1>2. d.seg \in Nat /\ d.seg = e.seg
  BY DEF Dec, SamePrefixes
<1> HIDE DEF v
<1>3. mem \in Memories
  BY <1>1, <1>2 DEF AddressParts, Memory, Memories, Size
<1>4. i + k \in Nat
  OBVIOUS
<1>5. a = [d EXCEPT !.rm = mem, !.next = i + k]
  BY DEF Address, v
<1>6. i + k - 1 <= n => c = [e EXCEPT !.rm = mem, !.next = i + k]
  BY <1>1, <1>2 DEF Address
<1> HIDE DEF mem, a, c
<1>7. /\ a \in Dec /\ a.s = d.s /\ SamePrefixes(a, d) /\ a.rm = mem
      /\ a.next = i + k /\ a.digit = d.digit /\ a.reg = d.reg
  BY <1>3, <1>4, <1>5 DEF Dec, SamePrefixes
<1>8. a.next - 1 <= n => c.rm = a.rm /\ c.next = a.next
  <2>1. [e EXCEPT !.rm = mem, !.next = i + k].rm = mem
    BY DEF Dec
  <2>2. [e EXCEPT !.rm = mem, !.next = i + k].next = i + k
    BY DEF Dec
  <2>3. ASSUME a.next - 1 <= n
        PROVE  c.rm = a.rm /\ c.next = a.next
    <3>1. i + k - 1 <= n
      BY <1>7, <2>3
    <3>2. c = [e EXCEPT !.rm = mem, !.next = i + k]
      BY <1>6, <3>1
    <3>3. c.rm = mem /\ c.next = i + k
      BY <2>1, <2>2, <3>2, Zenon
    <3>. QED  BY <1>7, <3>3
  <2>. QED  BY <2>3
<1>9. a.next >= i
  BY <1>7
<1>. QED  BY <1>3, <1>7, <1>8, <1>9 DEF ReadAlike, a, c

LEMMA BasesAndIndices ==
  ASSUME NEW d \in Dec, NEW md \in Nat, NEW sib \in Nat, NEW rm \in Nat
  PROVE  /\ SibBase(d, md, sib) \in Registers \cup {NoReg}
         /\ SibIndex(d, sib) \in Registers \cup {NoReg}
         /\ SibScale(d, sib) \in Int
         /\ Register(Extend(d.b, rm), d.addr) \in Registers
         /\ Register(Extend(d.b, rm), 8) \in Registers
         /\ \A base : DispBytes(md, base) \in Nat
<1>1. d.addr \in Size /\ 8 \in Size
  BY DEF Dec, Size
<1>2. ASSUME NEW p, NEW low \in Nat, NEW size \in Size
      PROVE  Register(Extend(p, low), size) \in Registers
  <2>1. Extend(p, low) \in Nat
    BY DEF Extend
  <2>. QED  BY <2>1 DEF Register, Registers
<1>3. sib % 8 \in Nat /\ (sib \div 8) % 8 \in Nat /\ sib \div 64 \in Nat
  OBVIOUS
<1>4. /\ SibBase(d, md, sib) \in {NoReg, Register(Extend(d.b, sib % 8), d.addr)}
      /\ SibIndex(d, sib) \in {NoReg, Register(Extend(d.x, (sib \div 8) % 8), d.addr)}
  BY DEF SibBase, SibIndex
<1>5. SibScale(d, sib) \in Int
  <2>1. 2^(sib \div 64) \in Int
    BY <1>3
  <2>. QED  BY <2>1 DEF SibScale
<1>6. \A base : DispBytes(md, base) \in Nat
  BY DEF DispBytes
<1>. QED  BY <1>1, <1>2, <1>3, <1>4, <1>5, <1>6

LEMMA SibFollows ==
  ASSUME NEW d \in Dec, NEW e \in Dec, NEW n, Alike(d.s, e.s, n), SamePrefixes(d, e),
         NEW i \in Nat \ {0}, NEW md \in Nat, NEW sib \in Nat, NEW sib2,
         i - 1 <= n => sib = sib2,
         NEW D, D = WithSib(d, i, md, sib), NEW E, E = WithSib(e, i, md, sib2)
  PROVE  ReadAlike(d, D, E, n, i)
<1> DEFINE base == SibBase(d, md, sib)
           index == SibIndex(d, sib)
           scale == SibScale(d, sib)
           k == DispBytes(md, base)
           rip == FALSE
           twin == Address(e, base, index, scale, i, k, rip)
<1>1. /\ base \in Registers \cup {NoReg} /\ index \in Registers \cup {NoReg}
      /\ scale \in Int /\ k \in Nat
  BY BasesAndIndices
<1>2. D = Address(d, base, index, scale, i, k, rip)
  BY DEF WithSib
<1>3. i - 1 <= n => E = twin
  <2>1. d.b = e.b /\ d.x = e.x /\ d.addr = e.addr
    BY DEF SamePrefixes
  <2>2. /\ SibBase(e, md, sib) = base /\ SibIndex(e, sib) = index
        /\ SibScale(e, sib) = scale
    BY <2>1 DEF SibBase, SibIndex, SibScale
  <2> HIDE DEF base, index, scale
  <2>. QED  BY <2>2 DEF WithSib
<1> HIDE DEF base, index, scale, k
<1>4. /\ AddressParts(base, index, scale, rip)
      /\ twin = Address(e, base, index, scale, i, k, rip)
  BY <1>1 DEF AddressParts
<1> HIDE DEF twin, rip
<1>5. ReadAlike(d, D, twin, n, i) /\ D.next = i + k
  <2>1. /\ ReadAlike(d, Address(d, base, index, scale, i, k, rip),
                     Address(e, base, index, scale, i, k, rip), n, i)
        /\ Address(d, base, index, scale, i, k, rip).next = i + k
    BY <1>1, <1>4, DisplacementFollows
  <2>. QED  BY <1>2, <1>4, <2>1
<1>6. D.next - 1 <= n => i - 1 <= n
  BY <1>1, <1>5 DEF Alike
<1>. QED  BY <1>3, <1>5, <1>6 DEF ReadAlike

LEMMA BaseFollows ==
  ASSUME NEW d \in Dec, NEW e \in Dec, NEW n, Alike(d.s, e.s, n), SamePrefixes(d, e),
         NEW i \in Nat \ {0}, NEW md \in Nat, NEW base \in Registers \cup {NoReg}
  PROVE  ReadAlike(d, WithBase(d, i, md, base), WithBase(e, i, md, base), n, i)
<1> DEFINE k == DispBytes(md, base)
           rip == base = NoReg
<1>1. k \in Nat
  BY DEF DispBytes
<1>2. NoReg \in Registers \cup {NoReg} /\ 1 \in Int /\ rip \in BOOLEAN
  OBVIOUS
<1>3. /\ WithBase(d, i, md, base) = Address(d, base, NoReg, 1, i, k, rip)
      /\ WithBase(e, i, md, base) = Address(e, base, NoReg, 1, i, k, rip)
  BY DEF WithBase
<1> HIDE DEF k, rip
<1>4. AddressParts(base, NoReg, 1, rip)
  BY <1>2 DEF AddressParts
<1>5. ReadAlike(d, Address(d, base, NoReg, 1, i, k, rip), Address(e, base, NoReg, 1, i, k, rip), n, i)
  BY <1>1, <1>4, DisplacementFollows
<1>. QED  BY <1>3, <1>5

\* What is read from j on is read from i on, if the byte before j is.
LEMMA ReadLater ==
  ASSUME NEW d, NEW D, NEW C, NEW E, NEW n \in Nat, NEW i \in Nat, NEW j \in Nat, i <= j,
         ReadAlike(d, D, C, n, j), i - 1 <= n => E = C \/ ~(j - 1 <= n)
  PROVE  ReadAlike(d, D, E, n, i)
<1>1. D.next \in Nat
  BY DEF ReadAlike, Dec
<1>2. D.next >= i
  BY <1>1 DEF ReadAlike
<1>3. D.next - 1 <= n => i - 1 <= n /\ j - 1 <= n
  BY <1>1 DEF ReadAlike
<1>. QED  BY <1>2, <1>3 DEF ReadAlike

LEMMA OperandFollows ==
  ASSUME NEW d \in Dec, NEW e \in Dec, NEW n, Alike(d.s, e.s, n), SamePrefixes(d, e),
         NEW i \in Nat \ {0}, NEW md \in Nat, NEW rm \in 0 .. 7, NEW md2, NEW rm2,
         i - 1 <= n => md = md2 /\ rm = rm2
  PROVE  ReadAlike(d, WithOperand(d, i, md, rm), WithOperand(e, i, md2, rm2), n, i)
<1> DEFINE D == WithOperand(d, i, md, rm)
           E == WithOperand(e, i, md2, rm2)
<1>0. n \in Nat /\ i \in Nat /\ i + 1 \in Nat \ {0} /\ d.b = e.b /\ d.addr = e.addr
  BY DEF Alike, SamePrefixes
<1>1. CASE md = 3
  <2> DEFINE r == Register(Extend(d.b, rm), 8)
  <2>1. r \in Registers
    BY <1>1, BasesAndIndices
  <2>2. D = [d EXCEPT !.rm = r, !.next = i]
    BY <1>1 DEF WithOperand
  <2>3. i - 1 <= n => E = [e EXCEPT !.rm = r, !.next = i]
    BY <1>0, <1>1 DEF WithOperand
  <2> HIDE DEF r, D, E
  <2>4. /\ D \in Dec /\ D.s = d.s /\ SamePrefixes(D, d) /\ D.rm = r
        /\ D.next = i /\ D.digit = d.digit /\ D.reg = d.reg
    BY <2>1, <2>2 DEF Dec, SamePrefixes
  <2>5. [e EXCEPT !.rm = r, !.next = i].rm = r /\ [e EXCEPT !.rm = r, !.next = i].next = i
    BY DEF Dec
  <2>6. ASSUME D.next - 1 <= n
        PROVE  E.rm = D.rm /\ E.next = D.next
    <3>1. E = [e EXCEPT !.rm = r, !.next = i]
      BY <2>3, <2>4, <2>6
    <3>2. E.rm = r /\ E.next = i
      BY <2>5, <3>1, Zenon
    <3>. QED  BY <2>4, <3>2
  <2>7. D.next >= i
    BY <2>4
  <2>8. ReadAlike(d, D, E, n, i)
    BY <2>1, <2>4, <2>6, <2>7 DEF ReadAlike
  <2>. QED  BY <2>8 DEF D, E
<1>2. CASE md # 3 /\ rm = 4
  <2> DEFINE sib == At(d.s, i)
             sib2 == At(e.s, i)
             C == WithSib(e, i + 1, md, sib2)
  <2>1. sib \in Nat /\ (i <= n => sib = sib2)
    BY AlikeAt
  <2>2. D = WithSib(d, i + 1, md, sib)
    BY <1>2 DEF WithOperand
  <2>3. i - 1 <= n => E = C
    BY <1>2 DEF WithOperand
  <2> HIDE DEF sib, sib2, D, E
  <2>4. (i + 1) - 1 <= n => sib = sib2
    BY <1>0, <2>1
  <2>5. ReadAlike(d, D, C, n, i + 1)
    BY <1>0, <2>1, <2>2, <2>4, SibFollows
  <2> HIDE DEF C
  <2>6. ReadAlike(d, D, E, n, i)
    BY <1>0, <2>3, <2>5, ReadLater
  <2>. QED  BY <2>6 DEF D, E
<1>3. CASE md # 3 /\ rm # 4
  <2> DEFINE base == IF rm = 5 /\ md = 0 THEN NoReg ELSE Register(Extend(d.b, rm), d.addr)
             C == WithBase(e, i, md, base)
  <2>1. base \in Registers \cup {NoReg}
    BY BasesAndIndices
  <2>2. D = WithBase(d, i, md, base)
    BY <1>3 DEF WithOperand
  <2>3. i - 1 <= n => E = C
    BY <1>0, <1>3 DEF WithOperand
  <2> HIDE DEF base, D, E
  <2>4. ReadAlike(d, D, C, n, i)
    BY <2>1, <2>2, BaseFollows
  <2> HIDE DEF C
  <2>5. ReadAlike(d, D, E, n, i)
    BY <1>0, <2>3, <2>4, ReadLater
  <2>. QED  BY <2>5 DEF D, E
<1>. QED  BY <1>1, <1>2, <1>3

\* Two decoders behind the opcode, over bytes that are alike up to the nth: once
\* what the ModRM says has been read, both have read the same.
Facing(d, e, n) ==
  /\ d \in Dec /\ e \in Dec /\ Alike(d.s, e.s, n) /\ SamePrefixes(d, e)
  /\ d.rm \in Registers \cup Memories
  /\ d.next >= d.pos
  /\ d.next - 1 <= n => SameModRM(d, e)

LEMMA ModRMFollows ==
  ASSUME NEW d \in Dec, NEW e \in Dec, NEW n, Alike(d.s, e.s, n), SamePrefixes(d, e),
         NEW i \in Nat \ {0}
  PROVE  /\ Facing(WithModRM(d, i), WithModRM(e, i), n)
         /\ WithModRM(d, i).pos = i /\ WithModRM(d, i).s = d.s
<1> DEFINE low == (At(d.s, i) \div 8) % 8
           low2 == (At(e.s, i) \div 8) % 8
           d1 == [d EXCEPT !.pos = i, !.digit = low, !.reg = Extend(d.r, low)]
           e1 == [e EXCEPT !.pos = i, !.digit = low2, !.reg = Extend(e.r, low2)]
           md == At(d.s, i) \div 64
           md2 == At(e.s, i) \div 64
           rm == At(d.s, i) % 8
           rm2 == At(e.s, i) % 8
           D == WithOperand(d1, i + 1, md, rm)
           E == WithOperand(e1, i + 1, md2, rm2)
<1>1. Alike(e.s, d.s, n)
  BY DEF Alike
<1>2. At(d.s, i) \in Nat /\ At(e.s, i) \in Nat /\ (i <= n => At(d.s, i) = At(e.s, i))
  BY <1>1, AlikeAt
<1>3. /\ low \in 0 .. 7 /\ low2 \in 0 .. 7 /\ md \in Nat /\ md2 \in Nat
      /\ rm \in 0 .. 7 /\ rm2 \in 0 .. 7
  BY <1>2
<1>4. i <= n => low = low2 /\ md = md2 /\ rm = rm2
  BY <1>2
<1>5. WithModRM(d, i) = D /\ WithModRM(e, i) = E
  BY DEF WithModRM
<1>6. n \in Nat /\ i + 1 \in Nat \ {0} /\ i \in Nat /\ (i + 1) - 1 = i
  BY DEF Alike
<1> HIDE DEF low, low2, md, md2, rm, rm2
<1>7. /\ d1 \in Dec /\ d1.s = d.s /\ d1.pos = i /\ d1.digit = low /\ d1.reg = Extend(d.r, low)
      /\ e1 \in Dec /\ e1.s = e.s /\ e1.pos = i /\ e1.digit = low2 /\ e1.reg = Extend(e.r, low2)
  <2>1. Extend(d.r, low) \in Nat /\ Extend(e.r, low2) \in Nat
    BY <1>3 DEF Extend
  <2>. QED  BY <1>3, <2>1 DEF Dec
<1>8. SamePrefixes(d1, e1) /\ SamePrefixes(e1, d1)
  BY DEF SamePrefixes, Dec
<1>9. d.r = e.r
  BY DEF SamePrefixes
<1> HIDE DEF d1, e1, D, E
<1>10. ReadAlike(d1, D, E, n, i + 1)
  <2>1. (i + 1) - 1 <= n => md = md2 /\ rm = rm2
    BY <1>4, <1>6
  <2>. QED  BY <1>3, <1>6, <1>7, <1>8, <2>1, OperandFollows DEF D, E
<1>11. ReadAlike(e1, E, D, n, i + 1)
  <2>1. (i + 1) - 1 <= n => md2 = md /\ rm2 = rm
    BY <1>4, <1>6
  <2>. QED  BY <1>1, <1>3, <1>6, <1>7, <1>8, <2>1, OperandFollows DEF D, E
<1>12. /\ D \in Dec /\ E \in Dec /\ D.s = d.s /\ E.s = e.s
       /\ SamePrefixes(D, d1) /\ SamePrefixes(E, e1)
       /\ D.rm \in Registers \cup Memories /\ D.next >= i + 1
       /\ D.digit = low /\ D.reg = Extend(d.r, low)
       /\ E.digit = low2 /\ E.reg = Extend(e.r, low2)
       /\ D.next - 1 <= n => E.rm = D.rm /\ E.next = D.next
  BY <1>7, <1>10, <1>11 DEF ReadAlike
<1>13. SamePrefixes(D, E) /\ D.pos = i
  BY <1>7, <1>8, <1>12 DEF SamePrefixes
<1>14. D.next \in Nat /\ D.next >= D.pos /\ (D.next - 1 <= n => i <= n)
  <2>1. D.next \in Nat
    BY <1>12 DEF Dec
  <2>. QED  BY <1>6, <1>12, <1>13, <2>1
<1>15. D.next - 1 <= n => SameModRM(D, E)
  BY <1>4, <1>9, <1>12, <1>14 DEF SameModRM
<1>16. Facing(D, E, n)
  BY <1>12, <1>13, <1>14, <1>15 DEF Facing
<1>. QED  BY <1>5, <1>12, <1>13, <1>16

-----------------------------------------------------------------------------
(***************************************************************************)
(* The forms of instruction.                                               *)
(***************************************************************************)
\* What is found at p, f: if it ends among the bytes that are alike, g is the same.
FoundAlike(f, g, p, n) ==
  /\ f.ok => WellFormed(f.insn) /\ f.next \in Nat /\ f.next >= p
  /\ f.ok /\ f.next - 1 <= n => g = f

LEMMA FoundIsAlike ==
  ASSUME NEW n, NEW p, NEW m, NEW cc \in Nat, NEW ops \in Seq(Operand), NEW size,
         NEW next \in Nat, next >= p,
         NEW g, next - 1 <= n => g = Found(m, cc, ops, size, next)
  PROVE  FoundAlike(Found(m, cc, ops, size, next), g, p, n)
<1> DEFINE f == Found(m, cc, ops, size, next)
<1>1. f.next = next /\ f.insn = Instruction(m, cc, ops)
  BY DEF Found
<1>2. WellFormed(Instruction(m, cc, ops))
  BY DEF WellFormed, Instruction
<1>3. WellFormed(f.insn) /\ f.next \in Nat /\ f.next >= p
  BY <1>1, <1>2
<1>4. f.next - 1 <= n => g = f
  BY <1>1
<1> HIDE DEF f
<1>5. FoundAlike(f, g, p, n)
  BY <1>3, <1>4 DEF FoundAlike
<1>. QED  BY <1>5 DEF f

LEMMA UnknownIsAlike ==
  ASSUME NEW g, NEW p, NEW n
  PROVE  FoundAlike(Unknown, g, p, n)
BY DEF FoundAlike, Unknown

LEMMA FacingParts ==
  ASSUME NEW d, NEW e, NEW n, Facing(d, e, n)
  PROVE  /\ n \in Nat /\ d.pos \in Nat \ {0} /\ d.next \in Nat /\ d.next >= d.pos
         /\ d.next \in Nat \ {0} /\ d.size \in {2, 4, 8} /\ d.stack \in {2, 8}
         /\ d.digit \in 0 .. 7 /\ d.reg \in Nat
         /\ d.pos = e.pos /\ d.size = e.size /\ d.stack = e.stack /\ d.b = e.b
         /\ d.rex = e.rex /\ d.rep = e.rep
<1>1. d \in Dec /\ SamePrefixes(d, e) /\ n \in Nat /\ d.next >= d.pos
  BY DEF Facing, Alike
<1>2. /\ d.pos \in Nat \ {0} /\ d.next \in Nat /\ d.size \in {2, 4, 8} /\ d.stack \in {2, 8}
      /\ d.digit \in 0 .. 7 /\ d.reg \in Nat
  BY <1>1 DEF Dec
<1>. QED  BY <1>1, <1>2 DEF SamePrefixes

LEMMA OneIsASequence ==
  ASSUME NEW o \in Operand
  PROVE  <<o>> \in Seq(Operand)
OBVIOUS

LEMMA TwoAreASequence ==
  ASSUME NEW o \in Operand, NEW q \in Operand
  PROVE  <<o, q>> \in Seq(Operand)
OBVIOUS

LEMMA Constants ==
  /\ \A v \in Int : Immediate(v) \in Operand /\ Relative(v) \in Operand
  /\ \A num \in Nat, size \in Size : Register(num, size) \in Operand /\ Register(num, size) \in Registers
BY DEF Immediate, Relative, Register, Operand, Registers

LEMMA NoModRMFollows ==
  ASSUME NEW d, NEW e, NEW n, Facing(d, e, n), NEW m, NEW cc \in Nat, NEW size, NEW k \in Nat
  PROVE  /\ FoundAlike(Plain(d, m), Plain(e, m), d.pos, n)
         /\ \A r \in Registers :
              /\ FoundAlike(RegOnly(d, m, r, size), RegOnly(e, m, r, size), d.pos, n)
              /\ FoundAlike(RegImm(d, m, r, k), RegImm(e, m, r, k), d.pos, n)
         /\ FoundAlike(ImmOnly(d, m, size, k), ImmOnly(e, m, size, k), d.pos, n)
         /\ FoundAlike(Branches(d, m, cc, k), Branches(e, m, cc, k), d.pos, n)
<1> DEFINE v == Value(d.s, d.pos, k)
           next == d.pos + k
<1>1. /\ n \in Nat /\ d.pos \in Nat \ {0} /\ d.pos = e.pos /\ d.size = e.size
      /\ Alike(d.s, e.s, n)
  BY FacingParts DEF Facing
<1>2. v \in Int /\ (d.pos + k - 1 <= n => Value(e.s, e.pos, k) = v)
  BY <1>1, AlikeValue
<1> HIDE DEF v
<1>3. Immediate(v) \in Operand /\ Relative(v) \in Operand
  BY <1>2, Constants
<1>4. <<>> \in Seq(Operand) /\ <<Immediate(v)>> \in Seq(Operand) /\ <<Relative(v)>> \in Seq(Operand)
  BY <1>3
<1>5. next \in Nat /\ next >= d.pos /\ d.pos \in Nat /\ d.pos >= d.pos
  BY <1>1
<1>0. next - 1 <= n => Value(e.s, e.pos, k) = v
  <2>1. next - 1 = d.pos + k - 1
    BY <1>1
  <2> HIDE DEF next
  <2>. QED  BY <1>2, <2>1
<1>10. e.pos + k = next
  BY <1>1
<1> HIDE DEF next
<1>6. FoundAlike(Plain(d, m), Plain(e, m), d.pos, n)
  <2>1. Plain(e, m) = Plain(d, m) /\ Plain(d, m) = Found(m, 0, <<>>, d.size, d.pos)
    BY <1>1 DEF Plain
  <2>. QED  BY <1>4, <1>5, <2>1, FoundIsAlike
<1>7. ASSUME NEW r \in Registers
      PROVE  /\ FoundAlike(RegOnly(d, m, r, size), RegOnly(e, m, r, size), d.pos, n)
             /\ FoundAlike(RegImm(d, m, r, k), RegImm(e, m, r, k), d.pos, n)
  <2>1. r \in Operand
    BY RegisterParts
  <2>2. <<r>> \in Seq(Operand) /\ <<r, Immediate(v)>> \in Seq(Operand)
    BY <1>3, <2>1
  <2>3. /\ RegOnly(e, m, r, size) = RegOnly(d, m, r, size)
        /\ RegOnly(d, m, r, size) = Found(m, 0, <<r>>, size, d.pos)
    BY <1>1 DEF RegOnly
  <2>4. /\ RegImm(d, m, r, k) = Found(m, 0, <<r, Immediate(v)>>, d.size, next)
        /\ next - 1 <= n =>
             RegImm(e, m, r, k) = Found(m, 0, <<r, Immediate(v)>>, d.size, next)
    BY <1>0, <1>1, <1>10 DEF RegImm, v, next
  <2>5. FoundAlike(RegOnly(d, m, r, size), RegOnly(e, m, r, size), d.pos, n)
    BY <1>5, <2>2, <2>3, FoundIsAlike
  <2>6. FoundAlike(RegImm(d, m, r, k), RegImm(e, m, r, k), d.pos, n)
    BY <1>5, <2>2, <2>4, FoundIsAlike
  <2>. QED  BY <2>5, <2>6
<1>8. FoundAlike(ImmOnly(d, m, size, k), ImmOnly(e, m, size, k), d.pos, n)
  <2>1. /\ ImmOnly(d, m, size, k) = Found(m, 0, <<Immediate(v)>>, size, next)
        /\ next - 1 <= n =>
             ImmOnly(e, m, size, k) = Found(m, 0, <<Immediate(v)>>, size, next)
    BY <1>0, <1>1, <1>10 DEF ImmOnly, v, next
  <2>. QED  BY <1>4, <1>5, <2>1, FoundIsAlike
<1>9. FoundAlike(Branches(d, m, cc, k), Branches(e, m, cc, k), d.pos, n)
  <2>1. /\ Branches(d, m, cc, k) = Found(m, cc, <<Relative(v)>>, d.size, next)
        /\ next - 1 <= n =>
             Branches(e, m, cc, k) = Found(m, cc, <<Relative(v)>>, d.size, next)
    BY <1>0, <1>1, <1>10 DEF Branches, v, next
  <2>. QED  BY <1>4, <1>5, <2>1, FoundIsAlike
<1>. QED  BY <1>6, <1>7, <1>8, <1>9

LEMMA OperandsOfModRM ==
  ASSUME NEW d, NEW e, NEW n, Facing(d, e, n), NEW size \in Size
  PROVE  /\ RmOf(d, size) \in Operand /\ RegOf(d, size) \in Operand
         /\ SameModRM(d, e) => RmOf(e, size) = RmOf(d, size) /\ RegOf(e, size) = RegOf(d, size)
<1>1. d.rm \in Registers \cup Memories /\ d.reg \in Nat /\ d.rex = e.rex
  BY FacingParts DEF Facing
<1>2. \A num \in Nat : Gpr(d, num, size) \in Operand
  BY GprIsARegister, RegisterParts
<1>3. \A num : Gpr(e, num, size) = Gpr(d, num, size)
  BY <1>1 DEF Gpr
<1>4. RmOf(d, size) \in Operand
  <2>1. CASE d.rm \in Registers
    <3>1. d.rm.kind = "reg" /\ d.rm.num \in Nat
      BY <2>1 DEF Registers
    <3>. QED  BY <1>2, <3>1 DEF RmOf
  <2>2. CASE d.rm \in Memories
    <3>1. d.rm.kind = "mem"
      BY <2>2 DEF Memories
    <3>2. [d.rm EXCEPT !.size = size] \in Memories
      BY <2>2 DEF Memories
    <3>. QED  BY <3>1, <3>2 DEF RmOf, Operand
  <2>. QED  BY <1>1, <2>1, <2>2
<1>5. SameModRM(d, e) => RmOf(e, size) = RmOf(d, size) /\ RegOf(e, size) = RegOf(d, size)
  BY <1>3 DEF SameModRM, RmOf, RegOf
<1>6. RegOf(d, size) \in Operand
  BY <1>1, <1>2 DEF RegOf
<1>. QED  BY <1>4, <1>5, <1>6

\* Whatever is made of the ModRM alone, with an immediate behind it or without.
LEMMA RmFormFollows ==
  ASSUME NEW d, NEW e, NEW n, Facing(d, e, n), NEW m, NEW m2, NEW cc \in Nat,
         NEW ops \in Seq(Operand), NEW ops2, SameModRM(d, e) => m2 = m /\ ops2 = ops
  PROVE  FoundAlike(RmForm(d, m, cc, ops), RmForm(e, m2, cc, ops2), d.pos, n)
<1>1. /\ d.next \in Nat /\ d.next >= d.pos /\ d.size = e.size
      /\ d.next - 1 <= n => SameModRM(d, e)
  BY FacingParts DEF Facing
<1>2. RmForm(d, m, cc, ops) = Found(m, cc, ops, d.size, d.next)
  BY DEF RmForm
<1>3. d.next - 1 <= n => RmForm(e, m2, cc, ops2) = Found(m, cc, ops, d.size, d.next)
  BY <1>1 DEF RmForm, SameModRM
<1>. QED  BY <1>1, <1>2, <1>3, FoundIsAlike

LEMMA RmImmFollows ==
  ASSUME NEW d, NEW e, NEW n, Facing(d, e, n), NEW m, NEW m2, NEW k \in Nat,
         NEW ops \in Seq(Operand), NEW ops2, SameModRM(d, e) => m2 = m /\ ops2 = ops
  PROVE  FoundAlike(RmImm(d, m, ops, k), RmImm(e, m2, ops2, k), d.pos, n)
<1> DEFINE v == Value(d.s, d.next, k)
           all == Append(ops, Immediate(v))
           next == d.next + k
<1>1. /\ n \in Nat /\ d.next \in Nat \ {0} /\ d.pos \in Nat /\ d.next >= d.pos
      /\ d.size = e.size /\ Alike(d.s, e.s, n) /\ (d.next - 1 <= n => SameModRM(d, e))
  BY FacingParts DEF Facing
<1>2. v \in Int /\ (d.next + k - 1 <= n => Value(e.s, d.next, k) = v)
  BY <1>1, AlikeValue
<1>3. next - 1 = d.next + k - 1 /\ next \in Nat /\ next >= d.pos /\ next >= d.next
  BY <1>1
<1> HIDE DEF v, next
<1>4. all \in Seq(Operand)
  <2>1. Immediate(v) \in Operand
    BY <1>2, Constants
  <2>. QED  BY <2>1
<1>5. RmImm(d, m, ops, k) = Found(m, 0, all, d.size, next)
  BY DEF RmImm, v, next
<1>6. ASSUME next - 1 <= n
      PROVE  RmImm(e, m2, ops2, k) = Found(m, 0, all, d.size, next)
  <2>1. d.next - 1 <= n
    BY <1>1, <1>3, <1>6
  <2>2. m2 = m /\ ops2 = ops /\ e.next = d.next
    BY <1>1, <2>1 DEF SameModRM
  <2>3. Value(e.s, d.next, k) = v
    BY <1>2, <1>3, <1>6
  <2>. QED  BY <1>1, <2>2, <2>3 DEF RmImm, next
<1> HIDE DEF all
<1>. QED  BY <1>3, <1>4, <1>5, <1>6, FoundIsAlike

LEMMA WidthsFollow ==
  ASSUME NEW d, NEW e, NEW n, Facing(d, e, n), NEW op \in Nat
  PROVE  /\ Wide(d, op) \in Size /\ Wide(e, op) = Wide(d, op)
         /\ ImmZ(d) \in Nat /\ ImmZ(e) = ImmZ(d)
         /\ \A size \in Size : /\ InOpcode(d, op, size) \in Registers
                               /\ InOpcode(e, op, size) = InOpcode(d, op, size)
         /\ \A num \in Nat, size \in Size : /\ Gpr(d, num, size) \in Registers
                                            /\ Gpr(e, num, size) = Gpr(d, num, size)
<1>1. d.size \in {2, 4, 8} /\ d.size = e.size /\ d.b = e.b /\ d.rex = e.rex
  BY FacingParts
<1>2. Wide(d, op) \in Size /\ Wide(e, op) = Wide(d, op) /\ ImmZ(d) \in Nat /\ ImmZ(e) = ImmZ(d)
  BY <1>1 DEF Wide, ImmZ, Size
<1>3. ASSUME NEW num \in Nat, NEW size \in Size
      PROVE  Gpr(d, num, size) \in Registers /\ Gpr(e, num, size) = Gpr(d, num, size)
  BY <1>1, GprIsARegister DEF Gpr
<1>4. Extend(d.b, op % 8) \in Nat /\ Extend(e.b, op % 8) = Extend(d.b, op % 8)
  BY <1>1 DEF Extend
<1>. QED  BY <1>2, <1>3, <1>4 DEF InOpcode

LEMMA ModRMFormsFollow ==
  ASSUME NEW d, NEW e, NEW n, Facing(d, e, n), NEW m, NEW m2, SameModRM(d, e) => m2 = m,
         NEW cc \in Nat, NEW size \in Size, NEW from \in Size, NEW k \in Nat
  PROVE  /\ FoundAlike(RmOnly(d, m, cc, size), RmOnly(e, m2, cc, size), d.pos, n)
         /\ FoundAlike(RmReg(d, m, size), RmReg(e, m2, size), d.pos, n)
         /\ FoundAlike(RegRm(d, m, cc, size, from), RegRm(e, m2, cc, size, from), d.pos, n)
         /\ FoundAlike(RmImm(d, m, <<RmOf(d, size)>>, k), RmImm(e, m2, <<RmOf(e, size)>>, k), d.pos, n)
         /\ FoundAlike(RmImm(d, m, <<RegOf(d, size), RmOf(d, from)>>, k),
                       RmImm(e, m2, <<RegOf(e, size), RmOf(e, from)>>, k), d.pos, n)
         /\ \A o \in Operand :
              FoundAlike(RmForm(d, m, cc, <<RmOf(d, size), o>>),
                         RmForm(e, m2, cc, <<RmOf(e, size), o>>), d.pos, n)
<1> DEFINE one == <<RmOf(d, size)>>
           one2 == <<RmOf(e, size)>>
           two == <<RmOf(d, size), RegOf(d, size)>>
           two2 == <<RmOf(e, size), RegOf(e, size)>>
           back == <<RegOf(d, size), RmOf(d, from)>>
           back2 == <<RegOf(e, size), RmOf(e, from)>>
<1>1. /\ RmOf(d, size) \in Operand /\ RegOf(d, size) \in Operand /\ RmOf(d, from) \in Operand
      /\ SameModRM(d, e) => /\ RmOf(e, size) = RmOf(d, size) /\ RegOf(e, size) = RegOf(d, size)
                            /\ RmOf(e, from) = RmOf(d, from)
  BY OperandsOfModRM
<1>2. one \in Seq(Operand) /\ two \in Seq(Operand) /\ back \in Seq(Operand)
  BY <1>1
<1>3. /\ SameModRM(d, e) => m2 = m /\ one2 = one
      /\ SameModRM(d, e) => m2 = m /\ two2 = two
      /\ SameModRM(d, e) => m2 = m /\ back2 = back
  BY <1>1
<1>4. ASSUME NEW o \in Operand
      PROVE  FoundAlike(RmForm(d, m, cc, <<RmOf(d, size), o>>),
                        RmForm(e, m2, cc, <<RmOf(e, size), o>>), d.pos, n)
  <2> DEFINE all == <<RmOf(d, size), o>>
             all2 == <<RmOf(e, size), o>>
  <2>1. all \in Seq(Operand) /\ (SameModRM(d, e) => m2 = m /\ all2 = all)
    BY <1>1
  <2> HIDE DEF all, all2
  <2>2. FoundAlike(RmForm(d, m, cc, all), RmForm(e, m2, cc, all2), d.pos, n)
    BY <2>1, RmFormFollows
  <2>. QED  BY <2>2 DEF all, all2
<1> HIDE DEF one, one2, two, two2, back, back2
<1>5. FoundAlike(RmForm(d, m, cc, one), RmForm(e, m2, cc, one2), d.pos, n)
  BY <1>2, <1>3, RmFormFollows
<1>6. FoundAlike(RmForm(d, m, 0, two), RmForm(e, m2, 0, two2), d.pos, n)
  BY <1>2, <1>3, RmFormFollows
<1>7. FoundAlike(RmForm(d, m, cc, back), RmForm(e, m2, cc, back2), d.pos, n)
  BY <1>2, <1>3, RmFormFollows
<1>8. FoundAlike(RmImm(d, m, one, k), RmImm(e, m2, one2, k), d.pos, n)
  BY <1>2, <1>3, RmImmFollows
<1>9. FoundAlike(RmImm(d, m, back, k), RmImm(e, m2, back2, k), d.pos, n)
  BY <1>2, <1>3, RmImmFollows
<1>. QED  BY <1>4, <1>5, <1>6, <1>7, <1>8, <1>9 DEF RmOnly, RmReg, RegRm, one, one2, two, two2, back, back2

LEMMA ArithmeticFormFollows ==
  ASSUME NEW d, NEW e, NEW n, Facing(d, e, n), NEW m, NEW form \in 0 .. 5
  PROVE  FoundAlike(ArithmeticForm(d, m, form), ArithmeticForm(e, m, form), d.pos, n)
<1> DEFINE size == Wide(d, form)
           k == ImmZ(d)
<1>1. /\ size \in Size /\ Wide(e, form) = size /\ k \in Nat /\ ImmZ(e) = k
      /\ Gpr(d, 0, 1) \in Registers /\ Gpr(e, 0, 1) = Gpr(d, 0, 1)
      /\ Register(0, d.size) \in Registers /\ d.size = e.size
  <2>1. form \in Nat /\ 1 \in Size /\ 0 \in Nat /\ d.size \in Size /\ d.size = e.size
    BY FacingParts DEF Size
  <2>2. Register(0, d.size) \in Registers
    BY <2>1, Constants
  <2>. QED  BY <2>1, <2>2, WidthsFollow
<1> HIDE DEF size, k
<1>2. 0 \in Nat /\ 1 \in Nat
  OBVIOUS
<1>3. CASE form \in {0, 1}
  <2>1. ArithmeticForm(d, m, form) = RmReg(d, m, size) /\ ArithmeticForm(e, m, form) = RmReg(e, m, size)
    BY <1>1, <1>3 DEF ArithmeticForm, size
  <2>. QED  BY <1>1, <1>2, <2>1, ModRMFormsFollow
<1>4. CASE form \in {2, 3}
  <2>1. /\ ArithmeticForm(d, m, form) = RegRm(d, m, 0, size, size)
        /\ ArithmeticForm(e, m, form) = RegRm(e, m, 0, size, size)
    BY <1>1, <1>4 DEF ArithmeticForm, size
  <2>. QED  BY <1>1, <1>2, <2>1, ModRMFormsFollow
<1>5. CASE form = 4
  <2>1. /\ ArithmeticForm(d, m, form) = RegImm(d, m, Gpr(d, 0, 1), 1)
        /\ ArithmeticForm(e, m, form) = RegImm(e, m, Gpr(d, 0, 1), 1)
    BY <1>1, <1>5 DEF ArithmeticForm
  <2>. QED  BY <1>1, <1>2, <2>1, NoModRMFollows
<1>6. CASE form = 5
  <2>1. /\ ArithmeticForm(d, m, form) = RegImm(d, m, Register(0, d.size), k)
        /\ ArithmeticForm(e, m, form) = RegImm(e, m, Register(0, d.size), k)
    BY <1>1, <1>6 DEF ArithmeticForm, k
  <2>. QED  BY <1>1, <1>2, <2>1, NoModRMFollows
<1>. QED  BY <1>3, <1>4, <1>5, <1>6

\* A form that is only there under a condition the ModRM decides.
LEMMA GuardedFollows ==
  ASSUME NEW d, NEW e, NEW n, Facing(d, e, n), NEW p, NEW p2, NEW f, NEW g,
         FoundAlike(f, g, d.pos, n), SameModRM(d, e) => p2 = p, f.ok => f.next >= d.next
  PROVE  FoundAlike(Guarded(p, f), Guarded(p2, g), d.pos, n)
<1>1. CASE ~p
  <2>1. Guarded(p, f) = Unknown
    BY <1>1 DEF Guarded
  <2>. QED  BY <2>1, UnknownIsAlike
<1>2. CASE p
  <2>1. Guarded(p, f) = f
    BY <1>2 DEF Guarded
  <2>2. ASSUME f.ok, f.next - 1 <= n
        PROVE  Guarded(p2, g) = f
    <3>1. f.next \in Nat /\ f.next >= d.next /\ d.next \in Nat /\ n \in Nat
      BY <2>2, FacingParts DEF FoundAlike
    <3>2. d.next - 1 <= n
      BY <2>2, <3>1
    <3>3. SameModRM(d, e)
      BY <3>2 DEF Facing
    <3>4. p2
      BY <1>2, <3>3
    <3>5. g = f
      BY <2>2 DEF FoundAlike
    <3>. QED  BY <3>4, <3>5 DEF Guarded
  <2>. QED  BY <2>1, <2>2 DEF FoundAlike
<1>. QED  BY <1>1, <1>2

LEMMA FormsEndBehindTheModRM ==
  ASSUME NEW d, NEW e, NEW n, Facing(d, e, n), NEW m, NEW cc, NEW ops, NEW size, NEW k \in Nat
  PROVE  /\ RmForm(d, m, cc, ops).next >= d.next
         /\ RmOnly(d, m, cc, size).next >= d.next
         /\ RmImm(d, m, ops, k).next >= d.next
<1>1. d.next \in Nat
  BY FacingParts
<1>. QED  BY <1>1 DEF RmForm, RmOnly, RmImm, Found

LEMMA GroupsFollow ==
  ASSUME NEW d, NEW e, NEW n, Facing(d, e, n), NEW op \in Nat
  PROVE  /\ FoundAlike(Group1(d, op), Group1(e, op), d.pos, n)
         /\ FoundAlike(Group3(d, op), Group3(e, op), d.pos, n)
         /\ FoundAlike(Group4(d), Group4(e), d.pos, n)
<1> DEFINE size == Wide(d, op)
           z == ImmZ(d)
<1>1. /\ size \in Size /\ Wide(e, op) = size /\ z \in Nat /\ ImmZ(e) = z
      /\ d.digit \in 0 .. 7 /\ (SameModRM(d, e) => e.digit = d.digit)
  BY WidthsFollow, FacingParts DEF SameModRM
<1> HIDE DEF size, z
<1>2. 0 \in Nat /\ 1 \in Nat /\ 1 \in Size
  BY DEF Size
<1>3. FoundAlike(Group1(d, op), Group1(e, op), d.pos, n)
  <2> DEFINE k == IF op = 129 THEN z ELSE 1
             m == Arithmetic[d.digit + 1]
             m2 == Arithmetic[e.digit + 1]
  <2>1. k \in Nat /\ (SameModRM(d, e) => m2 = m)
    BY <1>1
  <2>2. /\ Group1(d, op) = RmImm(d, m, <<RmOf(d, size)>>, k)
        /\ Group1(e, op) = RmImm(e, m2, <<RmOf(e, size)>>, k)
    BY <1>1 DEF Group1, size, z
  <2> HIDE DEF k, m, m2
  <2>3. FoundAlike(RmImm(d, m, <<RmOf(d, size)>>, k), RmImm(e, m2, <<RmOf(e, size)>>, k), d.pos, n)
    BY <1>1, <1>2, <2>1, ModRMFormsFollow
  <2>. QED  BY <2>2, <2>3
<1>4. FoundAlike(Group3(d, op), Group3(e, op), d.pos, n)
  <2> DEFINE k == IF op = 246 THEN 1 ELSE z
             test(x) == RmImm(x, "test", <<RmOf(x, size)>>, k)
             unary(x) == RmOnly(x, Unaries[x.digit], 0, size)
  <2>1. k \in Nat
    BY <1>1
  <2>2. /\ Group3(d, op) = IF d.digit \in {0, 1} THEN test(d) ELSE unary(d)
        /\ Group3(e, op) = IF e.digit \in {0, 1} THEN test(e) ELSE unary(e)
    BY <1>1 DEF Group3, size, z
  <2>3. FoundAlike(test(d), test(e), d.pos, n)
    <3> HIDE DEF k
    <3>. QED  BY <1>1, <1>2, <2>1, ModRMFormsFollow
  <2>4. FoundAlike(unary(d), unary(e), d.pos, n)
    <3> DEFINE m == Unaries[d.digit]
               m2 == Unaries[e.digit]
    <3>1. SameModRM(d, e) => m2 = m
      BY <1>1
    <3> HIDE DEF m, m2
    <3>2. FoundAlike(RmOnly(d, m, 0, size), RmOnly(e, m2, 0, size), d.pos, n)
      BY <1>1, <1>2, <3>1, ModRMFormsFollow
    <3>. QED  BY <3>2 DEF m, m2
  <2>5. test(d).next >= d.next /\ unary(d).next >= d.next
    <3> HIDE DEF k
    <3>. QED  BY <2>1, FormsEndBehindTheModRM
  <2> DEFINE D == d.digit \in {0, 1}
             E == e.digit \in {0, 1}
  <2>6. SameModRM(d, e) => E = D /\ (~E) = (~D)
    BY <1>1
  <2>7. \/ D /\ Group3(d, op) = test(d)
        \/ ~D /\ Group3(d, op) = unary(d)
    BY <2>2
  <2>8. /\ E => Group3(e, op) = test(e)
        /\ ~E => Group3(e, op) = unary(e)
    BY <2>2
  <2> HIDE DEF test, unary, D, E
  <2>9. \A f : (f = test(d) \/ f = unary(d)) /\ f.ok /\ f.next - 1 <= n => SameModRM(d, e)
    <3>1. d.next \in Nat /\ n \in Nat
      BY FacingParts
    <3>2. /\ test(d).ok => test(d).next \in Nat
          /\ unary(d).ok => unary(d).next \in Nat
      BY <2>3, <2>4 DEF FoundAlike
    <3>3. /\ test(d).ok /\ test(d).next - 1 <= n => d.next - 1 <= n
          /\ unary(d).ok /\ unary(d).next - 1 <= n => d.next - 1 <= n
      BY <2>5, <3>1, <3>2
    <3>. QED  BY <3>3 DEF Facing
  <2>10. CASE D /\ Group3(d, op) = test(d)
    <3>1. test(d).ok /\ test(d).next - 1 <= n => Group3(e, op) = test(d)
      BY <2>3, <2>6, <2>8, <2>9, <2>10 DEF FoundAlike
    <3>. QED  BY <2>3, <2>10, <3>1 DEF FoundAlike
  <2>11. CASE ~D /\ Group3(d, op) = unary(d)
    <3>1. unary(d).ok /\ unary(d).next - 1 <= n => Group3(e, op) = unary(d)
      BY <2>4, <2>6, <2>8, <2>9, <2>11 DEF FoundAlike
    <3>. QED  BY <2>4, <2>11, <3>1 DEF FoundAlike
  <2>. QED  BY <2>7, <2>10, <2>11
<1>5. FoundAlike(Group4(d), Group4(e), d.pos, n)
  <2> DEFINE m == IF d.digit = 0 THEN "inc" ELSE "dec"
             m2 == IF e.digit = 0 THEN "inc" ELSE "dec"
             p == d.digit \in {0, 1}
             p2 == e.digit \in {0, 1}
  <2>1. SameModRM(d, e) => m2 = m /\ p2 = p
    BY <1>1
  <2>2. Group4(d) = Guarded(p, RmOnly(d, m, 0, 1)) /\ Group4(e) = Guarded(p2, RmOnly(e, m2, 0, 1))
    BY DEF Group4
  <2> HIDE DEF m, m2, p, p2
  <2>3. FoundAlike(RmOnly(d, m, 0, 1), RmOnly(e, m2, 0, 1), d.pos, n)
    BY <1>2, <2>1, ModRMFormsFollow
  <2>4. RmOnly(d, m, 0, 1).next >= d.next
    BY <1>2, FormsEndBehindTheModRM
  <2>. QED  BY <2>1, <2>2, <2>3, <2>4, GuardedFollows
<1>. QED  BY <1>3, <1>4, <1>5

LEMMA ShiftFormFollows ==
  ASSUME NEW d, NEW e, NEW n, Facing(d, e, n), NEW m, NEW m2, SameModRM(d, e) => m2 = m,
         NEW op \in Nat
  PROVE  FoundAlike(ShiftForm(d, m, op), ShiftForm(e, m2, op), d.pos, n)
<1> DEFINE size == Wide(d, op)
<1>1. size \in Size /\ Wide(e, op) = size
  BY WidthsFollow
<1>2. Immediate(1) \in Operand /\ Register(1, 1) \in Operand
  <2>1. 1 \in Int /\ 1 \in Nat /\ 1 \in Size
    BY DEF Size
  <2>. QED  BY <2>1, Constants
<1> HIDE DEF size
<1>3. 0 \in Nat /\ 1 \in Nat
  OBVIOUS
<1>4. FoundAlike(RmImm(d, m, <<RmOf(d, size)>>, 1), RmImm(e, m2, <<RmOf(e, size)>>, 1), d.pos, n)
  BY <1>1, <1>3, ModRMFormsFollow
<1>5. \A o \in Operand :
        FoundAlike(RmForm(d, m, 0, <<RmOf(d, size), o>>), RmForm(e, m2, 0, <<RmOf(e, size), o>>), d.pos, n)
  BY <1>1, <1>3, ModRMFormsFollow
<1>6. CASE op \in {192, 193}
  <2>1. /\ ShiftForm(d, m, op) = RmImm(d, m, <<RmOf(d, size)>>, 1)
        /\ ShiftForm(e, m2, op) = RmImm(e, m2, <<RmOf(e, size)>>, 1)
    BY <1>1, <1>6 DEF ShiftForm, size
  <2>. QED  BY <1>4, <2>1
<1>7. CASE op \in {208, 209}
  <2>1. /\ ShiftForm(d, m, op) = RmForm(d, m, 0, <<RmOf(d, size), Immediate(1)>>)
        /\ ShiftForm(e, m2, op) = RmForm(e, m2, 0, <<RmOf(e, size), Immediate(1)>>)
    BY <1>1, <1>7 DEF ShiftForm, size
  <2>. QED  BY <1>2, <1>5, <2>1
<1>8. CASE op \notin {192, 193, 208, 209}
  <2>1. /\ ShiftForm(d, m, op) = RmForm(d, m, 0, <<RmOf(d, size), Register(1, 1)>>)
        /\ ShiftForm(e, m2, op) = RmForm(e, m2, 0, <<RmOf(e, size), Register(1, 1)>>)
    BY <1>1, <1>8 DEF ShiftForm, size
  <2>. QED  BY <1>2, <1>5, <2>1
<1>. QED  BY <1>6, <1>7, <1>8

LEMMA Group5Follows ==
  ASSUME NEW d, NEW e, NEW n, Facing(d, e, n)
  PROVE  FoundAlike(Group5(d), Group5(e), d.pos, n)
<1>1. /\ d.size \in Size /\ d.stack \in Size /\ d.size = e.size /\ d.stack = e.stack
      /\ d.next \in Nat /\ n \in Nat /\ 0 \in Nat
      /\ d.next - 1 <= n => e.digit = d.digit
  BY FacingParts DEF Size, SameModRM, Facing
<1> DEFINE step == IF d.digit = 0 THEN "inc" ELSE "dec"
           step2 == IF e.digit = 0 THEN "inc" ELSE "dec"
           name == CASE d.digit = 2 -> "call" [] d.digit = 4 -> "jmp" [] OTHER -> "push"
           f == RmOnly(d, step, 0, d.size)
           g == RmOnly(d, name, 0, d.stack)
<1>2. SameModRM(d, e) => step2 = step
  BY DEF SameModRM
<1> HIDE DEF step, step2
<1>3. FoundAlike(f, RmOnly(e, step2, 0, d.size), d.pos, n)
  BY <1>1, <1>2, ModRMFormsFollow
<1>4. FoundAlike(g, RmOnly(e, name, 0, d.stack), d.pos, n)
  <2> HIDE DEF name
  <2>. QED  BY <1>1, ModRMFormsFollow
<1>5. f.next = d.next /\ g.next = d.next
  BY DEF RmOnly, RmForm, Found
<1>6. CASE d.digit \in {0, 1}
  <2>1. Group5(d) = f
    BY <1>6 DEF Group5, step
  <2>2. d.next - 1 <= n => Group5(e) = RmOnly(e, step2, 0, d.size)
    BY <1>1, <1>6 DEF Group5, step2
  <2> HIDE DEF f
  <2>3. f.ok /\ f.next - 1 <= n => Group5(e) = f
    BY <1>3, <1>5, <2>2 DEF FoundAlike
  <2>. QED  BY <1>3, <2>1, <2>3 DEF FoundAlike
<1>7. CASE d.digit \in {2, 4, 6}
  <2>1. Group5(d) = g
    BY <1>7 DEF Group5
  <2>2. d.next - 1 <= n => Group5(e) = RmOnly(e, name, 0, d.stack)
    BY <1>1, <1>7 DEF Group5
  <2> HIDE DEF g
  <2>3. g.ok /\ g.next - 1 <= n => Group5(e) = g
    BY <1>4, <1>5, <2>2 DEF FoundAlike
  <2>. QED  BY <1>4, <2>1, <2>3 DEF FoundAlike
<1>8. CASE d.digit \notin {0, 1, 2, 4, 6}
  <2>1. Group5(d) = Unknown
    BY <1>8 DEF Group5
  <2>. QED  BY <2>1, UnknownIsAlike
<1>. QED  BY <1>6, <1>7, <1>8

LEMMA LeaFollows ==
  ASSUME NEW d, NEW e, NEW n, Facing(d, e, n)
  PROVE  FoundAlike(Lea(d), Lea(e), d.pos, n)
<1>1. d.size \in Size /\ d.size = e.size
  BY FacingParts DEF Size
<1>2. RegOf(d, d.size) \in Operand /\ (SameModRM(d, e) => RegOf(e, e.size) = RegOf(d, d.size))
  BY <1>1, OperandsOfModRM
<1>3. d.rm \in Operand
  BY DEF Facing, Operand
<1> DEFINE ops == <<RegOf(d, d.size), d.rm>>
           ops2 == <<RegOf(e, e.size), e.rm>>
           p == d.rm.kind = "mem"
           p2 == e.rm.kind = "mem"
<1>4. ops \in Seq(Operand)
  BY <1>2, <1>3
<1>5. SameModRM(d, e) => ops2 = ops /\ p2 = p
  BY <1>2 DEF SameModRM
<1>6. /\ Lea(d) = Guarded(p, RmForm(d, "lea", 0, ops))
      /\ Lea(e) = Guarded(p2, RmForm(e, "lea", 0, ops2))
  BY DEF Lea
<1> HIDE DEF ops, ops2, p, p2
<1>7. FoundAlike(RmForm(d, "lea", 0, ops), RmForm(e, "lea", 0, ops2), d.pos, n)
  BY <1>4, <1>5, RmFormFollows
<1>8. RmForm(d, "lea", 0, ops).next >= d.next
  BY FormsEndBehindTheModRM
<1>. QED  BY <1>5, <1>6, <1>7, <1>8, GuardedFollows

LEMMA OtherFormsFollow ==
  ASSUME NEW d, NEW e, NEW n, Facing(d, e, n), NEW op \in Nat
  PROVE  /\ FoundAlike(Imul3(d, op), Imul3(e, op), d.pos, n)
         /\ FoundAlike(Accumulator(d, op), Accumulator(e, op), d.pos, n)
         /\ FoundAlike(Widen(d, op), Widen(e, op), d.pos, n)
<1> DEFINE k == IF op = 107 THEN 1 ELSE ImmZ(d)
<1>1. /\ d.size \in Size /\ d.size = e.size /\ d.pos = e.pos /\ d.b = e.b
      /\ d.pos \in Nat /\ d.pos >= d.pos
      /\ 0 \in Nat /\ 1 \in Size /\ 2 \in Size
  BY FacingParts DEF Size
<1>2. /\ k \in Nat /\ ImmZ(e) = ImmZ(d)
      /\ InOpcode(d, op, d.size) \in Registers /\ InOpcode(e, op, d.size) = InOpcode(d, op, d.size)
  BY <1>1, WidthsFollow
<1>3. FoundAlike(Imul3(d, op), Imul3(e, op), d.pos, n)
  <2>1. /\ Imul3(d, op) = RmImm(d, "imul", <<RegOf(d, d.size), RmOf(d, d.size)>>, k)
        /\ Imul3(e, op) = RmImm(e, "imul", <<RegOf(e, d.size), RmOf(e, d.size)>>, k)
    BY <1>1, <1>2 DEF Imul3
  <2> HIDE DEF k
  <2>. QED  BY <1>1, <1>2, <2>1, ModRMFormsFollow
<1>4. FoundAlike(Accumulator(d, op), Accumulator(e, op), d.pos, n)
  <2>1. CASE op = 144 /\ ~d.b
    <3>1. Accumulator(d, op) = Plain(d, "nop") /\ Accumulator(e, op) = Plain(e, "nop")
      BY <1>1, <2>1 DEF Accumulator
    <3>. QED  BY <1>1, <3>1, NoModRMFollows
  <2>2. CASE ~(op = 144 /\ ~d.b)
    <3> DEFINE ops == <<InOpcode(d, op, d.size), Register(0, d.size)>>
    <3>1. ops \in Seq(Operand)
      <4>1. InOpcode(d, op, d.size) \in Operand
        BY <1>2, RegisterParts
      <4>2. Register(0, d.size) \in Operand
        BY <1>1, Constants
      <4>. QED  BY <4>1, <4>2
    <3>2. /\ Accumulator(d, op) = Found("xchg", 0, ops, d.size, d.pos)
          /\ Accumulator(e, op) = Found("xchg", 0, ops, d.size, d.pos)
      BY <1>1, <1>2, <2>2 DEF Accumulator
    <3> HIDE DEF ops
    <3>. QED  BY <1>1, <3>1, <3>2, FoundIsAlike
  <2>. QED  BY <2>1, <2>2
<1>5. FoundAlike(Widen(d, op), Widen(e, op), d.pos, n)
  <2> DEFINE m == IF op < 190 THEN "movzx" ELSE "movsx"
             from == IF op % 2 = 0 THEN 1 ELSE 2
  <2>1. from \in Size
    BY <1>1
  <2>2. /\ Widen(d, op) = RegRm(d, m, 0, d.size, from)
        /\ Widen(e, op) = RegRm(e, m, 0, d.size, from)
    BY <1>1 DEF Widen
  <2> HIDE DEF m, from
  <2>. QED  BY <1>1, <2>1, <2>2, ModRMFormsFollow
<1>. QED  BY <1>3, <1>4, <1>5

Resized(f, size) == [f EXCEPT !.size = size]

LEMMA ResizedForm ==
  ASSUME NEW ops, NEW size \in Nat, NEW next \in Nat, NEW stack \in Nat
  PROVE  Resized(Found("pop", 0, ops, size, next), stack) = Found("pop", 0, ops, stack, next)
<1> DEFINE i == Instruction("pop", 0, ops)
           f == [ok |-> TRUE, insn |-> i, size |-> size, next |-> next]
           g == [f EXCEPT !.size = stack]
           results == [ok : BOOLEAN, insn : {i}, size : Nat, next : Nat]
<1> HIDE DEF i
<1>1. f \in results /\ f.ok = TRUE /\ f.insn = i /\ f.next = next
  OBVIOUS
<1> HIDE DEF f
<1>2. g \in results /\ g.ok = f.ok /\ g.insn = f.insn /\ g.size = stack /\ g.next = f.next
  BY <1>1
<1> HIDE DEF g
<1>3. g = [ok |-> TRUE, insn |-> i, size |-> stack, next |-> next]
  BY <1>1, <1>2
<1>. QED  BY <1>3 DEF Resized, Found, f, g, i

LEMMA SizedPopFollows ==
  ASSUME NEW d, NEW e, NEW n, Facing(d, e, n)
  PROVE  FoundAlike([RmOnly(d, "pop", 0, d.stack) EXCEPT !.size = d.stack],
                    [RmOnly(e, "pop", 0, e.stack) EXCEPT !.size = e.stack], d.pos, n)
<1> DEFINE ops == <<RmOf(d, d.stack)>>
           ops2 == <<RmOf(e, d.stack)>>
<1>1. /\ d.stack \in Size /\ d.stack = e.stack /\ d.next \in Nat /\ d.next >= d.pos /\ 0 \in Nat
      /\ d.next - 1 <= n => SameModRM(d, e)
  BY FacingParts DEF Size, Facing
<1>2. RmOf(d, d.stack) \in Operand /\ (SameModRM(d, e) => RmOf(e, d.stack) = RmOf(d, d.stack))
  BY <1>1, OperandsOfModRM
<1>3. ops \in Seq(Operand) /\ (SameModRM(d, e) => ops2 = ops)
  BY <1>2
<1>4. /\ RmOnly(d, "pop", 0, d.stack) = Found("pop", 0, ops, d.size, d.next)
      /\ RmOnly(e, "pop", 0, e.stack) = Found("pop", 0, ops2, e.size, e.next)
  BY <1>1 DEF RmOnly, RmForm
<1> HIDE DEF ops, ops2
<1>5. /\ [RmOnly(d, "pop", 0, d.stack) EXCEPT !.size = d.stack] = Found("pop", 0, ops, d.stack, d.next)
      /\ [RmOnly(e, "pop", 0, e.stack) EXCEPT !.size = e.stack] = Found("pop", 0, ops2, d.stack, e.next)
  <2>1. d.size \in Nat /\ e.size \in Nat /\ d.stack \in Nat /\ e.next \in Nat /\ e.stack = d.stack
    <3>1. e \in Dec
      BY DEF Facing
    <3>2. e.next \in Nat
      BY <3>1 DEF Dec
    <3>. QED  BY <1>1, <3>2, FacingParts
  <2>2. /\ Resized(Found("pop", 0, ops, d.size, d.next), d.stack) = Found("pop", 0, ops, d.stack, d.next)
        /\ Resized(Found("pop", 0, ops2, e.size, e.next), d.stack) = Found("pop", 0, ops2, d.stack, e.next)
    BY <1>1, <2>1, ResizedForm
  <2>. QED  BY <1>4, <2>1, <2>2, Zenon DEF Resized
<1>6. d.next - 1 <= n => Found("pop", 0, ops2, d.stack, e.next) = Found("pop", 0, ops, d.stack, d.next)
  BY <1>1, <1>3 DEF SameModRM
<1>7. FoundAlike(Found("pop", 0, ops, d.stack, d.next), Found("pop", 0, ops2, d.stack, e.next), d.pos, n)
  BY <1>1, <1>3, <1>6, FoundIsAlike
<1>. QED  BY <1>5, <1>7

LEMMA MovImmediateFollows ==
  ASSUME NEW d, NEW e, NEW n, Facing(d, e, n), NEW op \in Nat, NEW k \in Nat
  PROVE  FoundAlike(Guarded(d.digit = 0, RmImm(d, "mov", <<RmOf(d, Wide(d, op))>>, k)),
                    Guarded(e.digit = 0, RmImm(e, "mov", <<RmOf(e, Wide(e, op))>>, k)), d.pos, n)
<1> DEFINE size == Wide(d, op)
           p == d.digit = 0
           p2 == e.digit = 0
           f == RmImm(d, "mov", <<RmOf(d, size)>>, k)
           g == RmImm(e, "mov", <<RmOf(e, size)>>, k)
<1>1. size \in Size /\ Wide(e, op) = size
  BY WidthsFollow
<1>2. SameModRM(d, e) => p2 = p
  BY DEF SameModRM
<1> HIDE DEF size, p, p2
<1>3. 0 \in Nat /\ 1 \in Size
  BY DEF Size
<1>4. FoundAlike(f, g, d.pos, n)
  BY <1>1, <1>3, ModRMFormsFollow
<1>5. f.next >= d.next
  BY FormsEndBehindTheModRM
<1> HIDE DEF f, g
<1>6. FoundAlike(Guarded(p, f), Guarded(p2, g), d.pos, n)
  BY <1>2, <1>4, <1>5, GuardedFollows
<1>. QED  BY <1>1, <1>6 DEF f, g, p, p2, size

LEMMA OneByteFollows ==
  ASSUME NEW d, NEW e, NEW n, Facing(d, e, n), NEW op \in Nat
  PROVE  FoundAlike(OneByte(d, op), OneByte(e, op), d.pos, n)
<1>1. /\ d.size \in Size /\ d.stack \in Size /\ d.size = e.size /\ d.stack = e.stack
      /\ d.size \in Nat /\ 0 \in Nat /\ 1 \in Nat /\ 2 \in Nat /\ 4 \in Nat /\ 1 \in Size /\ 4 \in Size
      /\ op % 16 \in Nat /\ op % 8 \in Nat
  BY FacingParts DEF Size
<1>2. /\ Wide(d, op) \in Size /\ Wide(e, op) = Wide(d, op)
      /\ ImmZ(d) \in Nat /\ ImmZ(e) = ImmZ(d)
      /\ \A size \in Size : /\ InOpcode(d, op, size) \in Registers
                            /\ InOpcode(e, op, size) = InOpcode(d, op, size)
      /\ Gpr(d, 0, 1) \in Registers /\ Gpr(e, 0, 1) = Gpr(d, 0, 1)
      /\ Register(0, d.size) \in Registers
  <2>1. Register(0, d.size) \in Registers
    BY <1>1, Constants
  <2>. QED  BY <1>1, <2>1, WidthsFollow
<1>18. \A m : FoundAlike(Plain(d, m), Plain(e, m), d.pos, n)
  BY <1>1, NoModRMFollows
<1>3. CASE op \in 0 .. 63 /\ op % 8 <= 5
  <2>1. \A x : OneByte(x, op) = ArithmeticForm(x, Arithmetic[op \div 8 + 1], op % 8)
    BY <1>3 DEF OneByte
  <2>2. op % 8 \in 0 .. 5
    BY <1>1, <1>3
  <2>3. \A m : FoundAlike(ArithmeticForm(d, m, op % 8), ArithmeticForm(e, m, op % 8), d.pos, n)
    BY <2>2, ArithmeticFormFollows
  <2>. QED  BY <2>1, <2>3
<1>4. CASE op \in 80 .. 95
  <2>1. \E m \in {"push", "pop"} : \A x :
          OneByte(x, op) = RegOnly(x, m, InOpcode(x, op, x.stack), x.stack)
    <3>1. CASE op \in 80 .. 87
      BY <3>1 DEF OneByte
    <3>2. CASE op \in 88 .. 95
      BY <3>2 DEF OneByte
    <3>. QED  BY <1>4, <3>1, <3>2
  <2>2. PICK m \in {"push", "pop"} : \A x :
          OneByte(x, op) = RegOnly(x, m, InOpcode(x, op, x.stack), x.stack)
    BY <2>1
  <2> DEFINE r == InOpcode(d, op, d.stack)
  <2>3. r \in Registers /\ InOpcode(e, op, e.stack) = r
    BY <1>1, <1>2
  <2> HIDE DEF r
  <2>4. FoundAlike(RegOnly(d, m, r, d.stack), RegOnly(e, m, r, d.stack), d.pos, n)
    BY <1>1, <2>3, NoModRMFollows
  <2>. QED  BY <1>1, <2>2, <2>3, <2>4 DEF r
<1>5. CASE op \in {152, 153, 195, 201, 204, 244}
  <2>1. CASE op = 152
    <3> DEFINE m == BySize(d, <<"cbw", "cwde", "cdqe">>)
    <3>1. \A x : OneByte(x, op) = Plain(x, BySize(x, <<"cbw", "cwde", "cdqe">>))
      BY <2>1 DEF OneByte
    <3>2. BySize(e, <<"cbw", "cwde", "cdqe">>) = m
      BY <1>1 DEF BySize
    <3>3. OneByte(d, op) = Plain(d, m) /\ OneByte(e, op) = Plain(e, m)
      BY <3>1, <3>2
    <3>. QED  BY <1>18, <3>3
  <2>2. CASE op = 153
    <3> DEFINE m == BySize(d, <<"cwd", "cdq", "cqo">>)
    <3>1. \A x : OneByte(x, op) = Plain(x, BySize(x, <<"cwd", "cdq", "cqo">>))
      BY <2>2 DEF OneByte
    <3>2. BySize(e, <<"cwd", "cdq", "cqo">>) = m
      BY <1>1 DEF BySize
    <3>3. OneByte(d, op) = Plain(d, m) /\ OneByte(e, op) = Plain(e, m)
      BY <3>1, <3>2
    <3>. QED  BY <1>18, <3>3
  <2>3. CASE op = 195
    <3>1. \A x : OneByte(x, op) = Plain(x, "ret")
      BY <2>3 DEF OneByte
    <3>. QED  BY <1>18, <3>1
  <2>4. CASE op = 201
    <3>1. \A x : OneByte(x, op) = Plain(x, "leave")
      BY <2>4 DEF OneByte
    <3>. QED  BY <1>18, <3>1
  <2>5. CASE op = 204
    <3>1. \A x : OneByte(x, op) = Plain(x, "int3")
      BY <2>5 DEF OneByte
    <3>. QED  BY <1>18, <3>1
  <2>6. CASE op = 244
    <3>1. \A x : OneByte(x, op) = Plain(x, "hlt")
      BY <2>6 DEF OneByte
    <3>. QED  BY <1>18, <3>1
  <2>. QED  BY <1>5, <2>1, <2>2, <2>3, <2>4, <2>5, <2>6
<1>6. CASE op \in {104, 106, 194, 205}
  <2>1. CASE op = 104
    <3>1. \A x : OneByte(x, op) = ImmOnly(x, "push", x.stack, ImmZ(x))
      BY <2>1 DEF OneByte
    <3>2. OneByte(d, op) = ImmOnly(d, "push", d.stack, ImmZ(d)) /\ OneByte(e, op) = ImmOnly(e, "push", d.stack, ImmZ(d))
      BY <1>1, <1>2, <3>1
    <3>3. FoundAlike(ImmOnly(d, "push", d.stack, ImmZ(d)), ImmOnly(e, "push", d.stack, ImmZ(d)), d.pos, n)
      BY <1>1, <1>2, NoModRMFollows
    <3>. QED  BY <3>2, <3>3
  <2>2. CASE op = 106
    <3>1. \A x : OneByte(x, op) = ImmOnly(x, "push", x.stack, 1)
      BY <2>2 DEF OneByte
    <3>2. OneByte(d, op) = ImmOnly(d, "push", d.stack, 1) /\ OneByte(e, op) = ImmOnly(e, "push", d.stack, 1)
      BY <1>1, <1>2, <3>1
    <3>3. FoundAlike(ImmOnly(d, "push", d.stack, 1), ImmOnly(e, "push", d.stack, 1), d.pos, n)
      BY <1>1, <1>2, NoModRMFollows
    <3>. QED  BY <3>2, <3>3
  <2>3. CASE op = 194
    <3>1. \A x : OneByte(x, op) = ImmOnly(x, "ret", x.size, 2)
      BY <2>3 DEF OneByte
    <3>2. OneByte(d, op) = ImmOnly(d, "ret", d.size, 2) /\ OneByte(e, op) = ImmOnly(e, "ret", d.size, 2)
      BY <1>1, <1>2, <3>1
    <3>3. FoundAlike(ImmOnly(d, "ret", d.size, 2), ImmOnly(e, "ret", d.size, 2), d.pos, n)
      BY <1>1, <1>2, NoModRMFollows
    <3>. QED  BY <3>2, <3>3
  <2>4. CASE op = 205
    <3>1. \A x : OneByte(x, op) = ImmOnly(x, "int", x.size, 1)
      BY <2>4 DEF OneByte
    <3>2. OneByte(d, op) = ImmOnly(d, "int", d.size, 1) /\ OneByte(e, op) = ImmOnly(e, "int", d.size, 1)
      BY <1>1, <1>2, <3>1
    <3>3. FoundAlike(ImmOnly(d, "int", d.size, 1), ImmOnly(e, "int", d.size, 1), d.pos, n)
      BY <1>1, <1>2, NoModRMFollows
    <3>. QED  BY <3>2, <3>3
  <2>. QED  BY <1>6, <2>1, <2>2, <2>3, <2>4
<1>7. CASE op \in (112 .. 127) \cup {232, 233, 235}
  <2>1. CASE op \in 112 .. 127
    <3>1. \A x : OneByte(x, op) = Branches(x, "jcc", op % 16, 1)
      BY <2>1 DEF OneByte
    <3>2. OneByte(d, op) = Branches(d, "jcc", op % 16, 1) /\ OneByte(e, op) = Branches(e, "jcc", op % 16, 1)
      BY <1>1, <1>2, <3>1
    <3>3. FoundAlike(Branches(d, "jcc", op % 16, 1), Branches(e, "jcc", op % 16, 1), d.pos, n)
      BY <1>1, <1>2, NoModRMFollows
    <3>. QED  BY <3>2, <3>3
  <2>2. CASE op = 232
    <3>1. \A x : OneByte(x, op) = Branches(x, "call", 0, 4)
      BY <2>2 DEF OneByte
    <3>2. OneByte(d, op) = Branches(d, "call", 0, 4) /\ OneByte(e, op) = Branches(e, "call", 0, 4)
      BY <1>1, <1>2, <3>1
    <3>3. FoundAlike(Branches(d, "call", 0, 4), Branches(e, "call", 0, 4), d.pos, n)
      BY <1>1, <1>2, NoModRMFollows
    <3>. QED  BY <3>2, <3>3
  <2>3. CASE op = 233
    <3>1. \A x : OneByte(x, op) = Branches(x, "jmp", 0, 4)
      BY <2>3 DEF OneByte
    <3>2. OneByte(d, op) = Branches(d, "jmp", 0, 4) /\ OneByte(e, op) = Branches(e, "jmp", 0, 4)
      BY <1>1, <1>2, <3>1
    <3>3. FoundAlike(Branches(d, "jmp", 0, 4), Branches(e, "jmp", 0, 4), d.pos, n)
      BY <1>1, <1>2, NoModRMFollows
    <3>. QED  BY <3>2, <3>3
  <2>4. CASE op = 235
    <3>1. \A x : OneByte(x, op) = Branches(x, "jmp", 0, 1)
      BY <2>4 DEF OneByte
    <3>2. OneByte(d, op) = Branches(d, "jmp", 0, 1) /\ OneByte(e, op) = Branches(e, "jmp", 0, 1)
      BY <1>1, <1>2, <3>1
    <3>3. FoundAlike(Branches(d, "jmp", 0, 1), Branches(e, "jmp", 0, 1), d.pos, n)
      BY <1>1, <1>2, NoModRMFollows
    <3>. QED  BY <3>2, <3>3
  <2>. QED  BY <1>7, <2>1, <2>2, <2>3, <2>4
<1>8. CASE op \in {168, 169} \cup (176 .. 191)
  <2>1. CASE op = 168
    <3>1. \A x : OneByte(x, op) = RegImm(x, "test", Gpr(x, 0, 1), 1)
      BY <2>1 DEF OneByte
    <3>2. OneByte(d, op) = RegImm(d, "test", Gpr(d, 0, 1), 1) /\ OneByte(e, op) = RegImm(e, "test", Gpr(d, 0, 1), 1)
      BY <1>1, <1>2, <3>1
    <3>3. FoundAlike(RegImm(d, "test", Gpr(d, 0, 1), 1), RegImm(e, "test", Gpr(d, 0, 1), 1), d.pos, n)
      BY <1>1, <1>2, NoModRMFollows
    <3>. QED  BY <3>2, <3>3
  <2>2. CASE op = 169
    <3>1. \A x : OneByte(x, op) = RegImm(x, "test", Register(0, x.size), ImmZ(x))
      BY <2>2 DEF OneByte
    <3>2. OneByte(d, op) = RegImm(d, "test", Register(0, d.size), ImmZ(d)) /\ OneByte(e, op) = RegImm(e, "test", Register(0, d.size), ImmZ(d))
      BY <1>1, <1>2, <3>1
    <3>3. FoundAlike(RegImm(d, "test", Register(0, d.size), ImmZ(d)), RegImm(e, "test", Register(0, d.size), ImmZ(d)), d.pos, n)
      BY <1>1, <1>2, NoModRMFollows
    <3>. QED  BY <3>2, <3>3
  <2>3. CASE op \in 176 .. 183
    <3>1. \A x : OneByte(x, op) = RegImm(x, "mov", InOpcode(x, op, 1), 1)
      BY <2>3 DEF OneByte
    <3>2. OneByte(d, op) = RegImm(d, "mov", InOpcode(d, op, 1), 1) /\ OneByte(e, op) = RegImm(e, "mov", InOpcode(d, op, 1), 1)
      BY <1>1, <1>2, <3>1
    <3>3. FoundAlike(RegImm(d, "mov", InOpcode(d, op, 1), 1), RegImm(e, "mov", InOpcode(d, op, 1), 1), d.pos, n)
      BY <1>1, <1>2, NoModRMFollows
    <3>. QED  BY <3>2, <3>3
  <2>4. CASE op \in 184 .. 191
    <3>1. \A x : OneByte(x, op) = RegImm(x, "mov", InOpcode(x, op, x.size), x.size)
      BY <2>4 DEF OneByte
    <3>2. OneByte(d, op) = RegImm(d, "mov", InOpcode(d, op, d.size), d.size) /\ OneByte(e, op) = RegImm(e, "mov", InOpcode(d, op, d.size), d.size)
      BY <1>1, <1>2, <3>1
    <3>3. FoundAlike(RegImm(d, "mov", InOpcode(d, op, d.size), d.size), RegImm(e, "mov", InOpcode(d, op, d.size), d.size), d.pos, n)
      BY <1>1, <1>2, NoModRMFollows
    <3>. QED  BY <3>2, <3>3
  <2>. QED  BY <1>8, <2>1, <2>2, <2>3, <2>4
<1> DEFINE size == Wide(d, op)
<1>9. CASE op \in {132, 133, 134, 135, 136, 137}
  <2>1. \E m : \A x : OneByte(x, op) = RmReg(x, m, Wide(x, op))
    <3>1. CASE op \in {132, 133}
      BY <3>1 DEF OneByte
    <3>2. CASE op \in {134, 135}
      BY <3>2 DEF OneByte
    <3>3. CASE op \in {136, 137}
      BY <3>3 DEF OneByte
    <3>. QED  BY <1>9, <3>1, <3>2, <3>3
  <2>2. PICK m : \A x : OneByte(x, op) = RmReg(x, m, Wide(x, op))
    BY <2>1
  <2>3. OneByte(d, op) = RmReg(d, m, size) /\ OneByte(e, op) = RmReg(e, m, size) /\ size \in Size
    BY <1>2, <2>2
  <2> HIDE DEF size
  <2>4. FoundAlike(RmReg(d, m, size), RmReg(e, m, size), d.pos, n)
    BY <1>1, <2>3, ModRMFormsFollow
  <2>. QED  BY <2>3, <2>4
<1>10. CASE op \in {99, 138, 139}
  <2>1. CASE op = 99
    <3>1. \A x : OneByte(x, op) = RegRm(x, "movsxd", 0, x.size, 4)
      BY <2>1 DEF OneByte
    <3>2. OneByte(d, op) = RegRm(d, "movsxd", 0, d.size, 4) /\ OneByte(e, op) = RegRm(e, "movsxd", 0, d.size, 4)
      BY <1>1, <1>2, <3>1
    <3>3. FoundAlike(RegRm(d, "movsxd", 0, d.size, 4), RegRm(e, "movsxd", 0, d.size, 4), d.pos, n)
      BY <1>1, <1>2, ModRMFormsFollow
    <3>. QED  BY <3>2, <3>3
  <2>2. CASE op \in {138, 139}
    <3>1. \A x : OneByte(x, op) = RegRm(x, "mov", 0, Wide(x, op), Wide(x, op))
      BY <2>2 DEF OneByte
    <3>2. OneByte(d, op) = RegRm(d, "mov", 0, Wide(d, op), Wide(d, op)) /\ OneByte(e, op) = RegRm(e, "mov", 0, Wide(d, op), Wide(d, op))
      BY <1>1, <1>2, <3>1
    <3>3. FoundAlike(RegRm(d, "mov", 0, Wide(d, op), Wide(d, op)), RegRm(e, "mov", 0, Wide(d, op), Wide(d, op)), d.pos, n)
      BY <1>1, <1>2, ModRMFormsFollow
    <3>. QED  BY <3>2, <3>3
  <2>. QED  BY <1>10, <2>1, <2>2
<1>11. CASE op \in {128, 129, 131, 246, 247, 254}
  <2>1. CASE op \in {128, 129, 131}
    <3>1. \A x : OneByte(x, op) = Group1(x, op)
      BY <2>1 DEF OneByte
    <3>. QED  BY <3>1, GroupsFollow
  <2>2. CASE op \in {246, 247}
    <3>1. \A x : OneByte(x, op) = Group3(x, op)
      BY <2>2 DEF OneByte
    <3>. QED  BY <3>1, GroupsFollow
  <2>3. CASE op = 254
    <3>1. \A x : OneByte(x, op) = Group4(x)
      BY <2>3 DEF OneByte
    <3>. QED  BY <3>1, GroupsFollow
  <2>. QED  BY <1>11, <2>1, <2>2, <2>3
<1>12. CASE op \in {192, 193, 208, 209, 210, 211}
  <2>1. \A x : OneByte(x, op) = ShiftForm(x, ShiftOp(x.digit), op)
    BY <1>12 DEF OneByte
  <2> DEFINE m == ShiftOp(d.digit)
             m2 == ShiftOp(e.digit)
  <2>2. SameModRM(d, e) => m2 = m
    BY DEF SameModRM
  <2>3. OneByte(d, op) = ShiftForm(d, m, op) /\ OneByte(e, op) = ShiftForm(e, m2, op)
    BY <2>1
  <2> HIDE DEF m, m2
  <2>. QED  BY <2>2, <2>3, ShiftFormFollows
<1>13. CASE op \in {105, 107} \cup (144 .. 151)
  <2>1. CASE op \in {105, 107}
    <3>1. \A x : OneByte(x, op) = Imul3(x, op)
      BY <2>1 DEF OneByte
    <3>. QED  BY <3>1, OtherFormsFollow
  <2>2. CASE op \in 144 .. 151
    <3>1. \A x : OneByte(x, op) = Accumulator(x, op)
      BY <2>2 DEF OneByte
    <3>. QED  BY <3>1, OtherFormsFollow
  <2>. QED  BY <1>13, <2>1, <2>2
<1>14. CASE op \in {141, 255}
  <2>1. CASE op = 141
    <3>1. \A x : OneByte(x, op) = Lea(x)
      BY <2>1 DEF OneByte
    <3>. QED  BY <3>1, LeaFollows
  <2>2. CASE op = 255
    <3>1. \A x : OneByte(x, op) = Group5(x)
      BY <2>2 DEF OneByte
    <3>. QED  BY <3>1, Group5Follows
  <2>. QED  BY <1>14, <2>1, <2>2
<1>15. CASE op = 143
  <2>1. \A x : OneByte(x, op) = [RmOnly(x, "pop", 0, x.stack) EXCEPT !.size = x.stack]
    BY <1>15 DEF OneByte
  <2>2. /\ OneByte(d, op) = [RmOnly(d, "pop", 0, d.stack) EXCEPT !.size = d.stack]
        /\ OneByte(e, op) = [RmOnly(e, "pop", 0, e.stack) EXCEPT !.size = e.stack]
    BY <2>1, Zenon
  <2>. QED  BY <2>2, SizedPopFollows
<1>16. CASE op \in {198, 199}
  <2> DEFINE k == IF op = 198 THEN 1 ELSE ImmZ(d)
             row(x) == Guarded(x.digit = 0, RmImm(x, "mov", <<RmOf(x, Wide(x, op))>>, k))
  <2>1. \A x : OneByte(x, op) = Guarded(x.digit = 0,
                 RmImm(x, "mov", <<RmOf(x, Wide(x, op))>>, IF op = 198 THEN 1 ELSE ImmZ(x)))
    BY <1>16 DEF OneByte
  <2>2. k \in Nat /\ OneByte(d, op) = row(d) /\ OneByte(e, op) = row(e)
    BY <1>1, <1>2, <2>1
  <2> HIDE DEF k
  <2>. QED  BY <2>2, MovImmediateFollows
<1>17. CASE /\ ~(op \in 0 .. 63 /\ op % 8 <= 5)
            /\ op \notin 80 .. 95 /\ op \notin 112 .. 127 /\ op \notin 144 .. 151 /\ op \notin 176 .. 191
            /\ op \notin {99, 104, 105, 106, 107, 128, 129, 131, 132, 133, 134, 135, 136, 137, 138,
                          139, 141, 143, 152, 153, 168, 169}
            /\ op \notin {192, 193, 194, 195, 198, 199, 201, 204, 205, 208, 209, 210, 211, 232, 233,
                          235, 244, 246, 247, 254, 255}
  <2>1. \A x : OneByte(x, op) = Unknown
    BY <1>17 DEF OneByte
  <2>. QED  BY <2>1, UnknownIsAlike
<1>. QED
  BY <1>3, <1>4, <1>5, <1>6, <1>7, <1>8, <1>9, <1>10, <1>11, <1>12, <1>13, <1>14, <1>15, <1>16, <1>17

LEMMA EndBranchFollows ==
  ASSUME NEW d, NEW e, NEW n, Facing(d, e, n)
  PROVE  FoundAlike(
           Guarded(d.rep = 243 /\ At(d.s, d.pos) = 250, Found("endbr64", 0, <<>>, d.size, d.pos + 1)),
           Guarded(e.rep = 243 /\ At(e.s, e.pos) = 250, Found("endbr64", 0, <<>>, e.size, e.pos + 1)),
           d.pos, n)
<1> DEFINE p == d.rep = 243 /\ At(d.s, d.pos) = 250
           p2 == e.rep = 243 /\ At(e.s, e.pos) = 250
           next == d.pos + 1
<1>1. /\ n \in Nat /\ d.pos \in Nat \ {0} /\ d.pos = e.pos /\ d.size = e.size /\ d.rep = e.rep
      /\ Alike(d.s, e.s, n)
  BY FacingParts DEF Facing
<1>2. d.pos <= n => p2 = p
  BY <1>1, AlikeAt
<1>3. next \in Nat /\ next >= d.pos /\ (next - 1 <= n => d.pos <= n) /\ e.pos + 1 = next
  BY <1>1
<1>4. <<>> \in Seq(Operand) /\ 0 \in Nat
  OBVIOUS
<1> DEFINE f == Found("endbr64", 0, <<>>, d.size, next)
<1>5. f = Found("endbr64", 0, <<>>, e.size, e.pos + 1) /\ f.next = next
  BY <1>1, <1>3 DEF Found
<1>6. FoundAlike(f, f, d.pos, n)
  <2> HIDE DEF next
  <2>. QED  BY <1>3, <1>4, FoundIsAlike
<1> HIDE DEF p, p2, f, next
<1>7. CASE ~p
  <2>1. Guarded(p, f) = Unknown
    BY <1>7 DEF Guarded
  <2>2. FoundAlike(Guarded(p, f), Guarded(p2, f), d.pos, n)
    BY <2>1, UnknownIsAlike
  <2>. QED  BY <1>5, <2>2 DEF p, p2, f, next
<1>8. CASE p
  <2>1. Guarded(p, f) = f
    BY <1>8 DEF Guarded
  <2>2. f.next - 1 <= n => Guarded(p2, f) = f
    BY <1>2, <1>3, <1>5, <1>8 DEF Guarded
  <2>3. FoundAlike(Guarded(p, f), Guarded(p2, f), d.pos, n)
    BY <1>6, <2>1, <2>2 DEF FoundAlike
  <2>. QED  BY <1>5, <2>3 DEF p, p2, f, next
<1>. QED  BY <1>7, <1>8

LEMMA TwoByteFollows ==
  ASSUME NEW d, NEW e, NEW n, Facing(d, e, n), NEW op \in Nat
  PROVE  FoundAlike(TwoByte(d, op), TwoByte(e, op), d.pos, n)
<1>1. /\ d.size \in Size /\ d.size = e.size /\ op % 16 \in Nat
      /\ 0 \in Nat /\ 1 \in Nat /\ 4 \in Nat /\ 1 \in Size
  BY FacingParts DEF Size
<1>2. InOpcode(d, op, d.size) \in Registers /\ InOpcode(e, op, d.size) = InOpcode(d, op, d.size)
  BY <1>1, WidthsFollow
<1>3. CASE op \in {5, 11}
  <2>1. CASE op = 5
    <3>1. \A x : TwoByte(x, op) = Plain(x, "syscall")
      BY <2>1 DEF TwoByte
    <3>2. FoundAlike(Plain(d, "syscall"), Plain(e, "syscall"), d.pos, n)
      BY <1>1, NoModRMFollows
    <3>. QED  BY <3>1, <3>2
  <2>2. CASE op = 11
    <3>1. \A x : TwoByte(x, op) = Plain(x, "ud2")
      BY <2>2 DEF TwoByte
    <3>2. FoundAlike(Plain(d, "ud2"), Plain(e, "ud2"), d.pos, n)
      BY <1>1, NoModRMFollows
    <3>. QED  BY <3>1, <3>2
  <2>. QED  BY <1>3, <2>1, <2>2
<1>4. CASE op = 30
  <2>1. \A x : TwoByte(x, op) = Guarded(x.rep = 243 /\ At(x.s, x.pos) = 250,
                                        Found("endbr64", 0, <<>>, x.size, x.pos + 1))
    BY <1>4 DEF TwoByte
  <2>2. /\ TwoByte(d, op) = Guarded(d.rep = 243 /\ At(d.s, d.pos) = 250,
                                    Found("endbr64", 0, <<>>, d.size, d.pos + 1))
        /\ TwoByte(e, op) = Guarded(e.rep = 243 /\ At(e.s, e.pos) = 250,
                                    Found("endbr64", 0, <<>>, e.size, e.pos + 1))
    BY <2>1, Zenon
  <2>. QED  BY <2>2, EndBranchFollows, Zenon
<1>5. CASE op = 31
  <2>1. \A x : TwoByte(x, op) = RmOnly(x, "nop", 0, x.size)
    BY <1>5 DEF TwoByte
  <2>2. FoundAlike(RmOnly(d, "nop", 0, d.size), RmOnly(e, "nop", 0, d.size), d.pos, n)
    BY <1>1, ModRMFormsFollow
  <2>3. TwoByte(d, op) = RmOnly(d, "nop", 0, d.size) /\ TwoByte(e, op) = RmOnly(e, "nop", 0, d.size)
    BY <1>1, <2>1
  <2>. QED  BY <2>2, <2>3
<1>6. CASE op \in (64 .. 79) \cup {175}
  <2>1. CASE op \in 64 .. 79
    <3>1. \A x : TwoByte(x, op) = RegRm(x, "cmovcc", op % 16, x.size, x.size)
      BY <2>1 DEF TwoByte
    <3>2. FoundAlike(RegRm(d, "cmovcc", op % 16, d.size, d.size),
                     RegRm(e, "cmovcc", op % 16, d.size, d.size), d.pos, n)
      <4> DEFINE cc == op % 16
      <4>1. cc \in Nat
        BY <1>1
      <4> HIDE DEF cc
      <4>2. FoundAlike(RegRm(d, "cmovcc", cc, d.size, d.size),
                       RegRm(e, "cmovcc", cc, d.size, d.size), d.pos, n)
        BY <1>1, <4>1, ModRMFormsFollow
      <4>. QED  BY <4>2 DEF cc
    <3>3. /\ TwoByte(d, op) = RegRm(d, "cmovcc", op % 16, d.size, d.size)
          /\ TwoByte(e, op) = RegRm(e, "cmovcc", op % 16, d.size, d.size)
      BY <1>1, <3>1
    <3>. QED  BY <3>2, <3>3
  <2>2. CASE op = 175
    <3>1. \A x : TwoByte(x, op) = RegRm(x, "imul", 0, x.size, x.size)
      BY <2>2 DEF TwoByte
    <3>2. FoundAlike(RegRm(d, "imul", 0, d.size, d.size), RegRm(e, "imul", 0, d.size, d.size), d.pos, n)
      BY <1>1, ModRMFormsFollow
    <3>3. /\ TwoByte(d, op) = RegRm(d, "imul", 0, d.size, d.size)
          /\ TwoByte(e, op) = RegRm(e, "imul", 0, d.size, d.size)
      BY <1>1, <3>1
    <3>. QED  BY <3>2, <3>3
  <2>. QED  BY <1>6, <2>1, <2>2
<1>7. CASE op \in (128 .. 159)
  <2> DEFINE cc == op % 16
  <2>1. cc \in Nat
    BY <1>1
  <2>2. CASE op \in 128 .. 143
    <3>1. \A x : TwoByte(x, op) = Branches(x, "jcc", cc, 4)
      BY <2>2 DEF TwoByte
    <3> HIDE DEF cc
    <3>2. FoundAlike(Branches(d, "jcc", cc, 4), Branches(e, "jcc", cc, 4), d.pos, n)
      BY <1>1, <2>1, NoModRMFollows
    <3>. QED  BY <3>1, <3>2
  <2>3. CASE op \in 144 .. 159
    <3>1. \A x : TwoByte(x, op) = RmOnly(x, "setcc", cc, 1)
      BY <2>3 DEF TwoByte
    <3> HIDE DEF cc
    <3>2. FoundAlike(RmOnly(d, "setcc", cc, 1), RmOnly(e, "setcc", cc, 1), d.pos, n)
      BY <1>1, <2>1, ModRMFormsFollow
    <3>. QED  BY <3>1, <3>2
  <2>. QED  BY <1>7, <2>2, <2>3
<1>8. CASE op \in {182, 183, 190, 191}
  <2>1. \A x : TwoByte(x, op) = Widen(x, op)
    BY <1>8 DEF TwoByte
  <2>. QED  BY <2>1, OtherFormsFollow
<1>9. CASE op \in 200 .. 207
  <2> DEFINE r == InOpcode(d, op, d.size)
  <2>1. \A x : TwoByte(x, op) = RegOnly(x, "bswap", InOpcode(x, op, x.size), x.size)
    BY <1>9 DEF TwoByte
  <2>2. TwoByte(d, op) = RegOnly(d, "bswap", r, d.size) /\ TwoByte(e, op) = RegOnly(e, "bswap", r, d.size)
    BY <1>1, <1>2, <2>1
  <2>3. r \in Registers
    BY <1>2
  <2> HIDE DEF r
  <2>4. FoundAlike(RegOnly(d, "bswap", r, d.size), RegOnly(e, "bswap", r, d.size), d.pos, n)
    BY <1>1, <2>3, NoModRMFollows
  <2>. QED  BY <2>2, <2>4
<1>10. CASE /\ op \notin {5, 11, 30, 31, 175, 182, 183, 190, 191}
            /\ op \notin 64 .. 79 /\ op \notin 128 .. 159 /\ op \notin 200 .. 207
  <2>1. \A x : TwoByte(x, op) = Unknown
    BY <1>10 DEF TwoByte
  <2>. QED  BY <2>1, UnknownIsAlike
<1>. QED  BY <1>3, <1>4, <1>5, <1>6, <1>7, <1>8, <1>9, <1>10

LEMMA OpcodeFollows ==
  ASSUME NEW d \in Dec, NEW e \in Dec, NEW n, Alike(d.s, e.s, n), SamePrefixes(d, e)
  PROVE  FoundAlike(Opcode(d), Opcode(e), d.pos + 1, n)
<1> DEFINE op == At(d.s, d.pos)
           op2 == At(e.s, e.pos)
           second == At(d.s, d.pos + 1)
           second2 == At(e.s, e.pos + 1)
           two == d.pos + 2
           one == d.pos + 1
<1>1. d.pos \in Nat \ {0} /\ e.pos = d.pos /\ n \in Nat
  BY DEF Dec, SamePrefixes, Alike
<1>2. one \in Nat \ {0} /\ two \in Nat \ {0} /\ e.pos + 1 = one /\ e.pos + 2 = two /\ two >= one
  BY <1>1
<1>3. /\ op \in Nat /\ second \in Nat /\ (d.pos <= n => op2 = op) /\ (one <= n => second2 = second)
  <2>1. op \in Nat /\ (d.pos <= n => op2 = op)
    BY <1>1, AlikeAt
  <2>2. At(d.s, one) \in Nat /\ (one <= n => At(d.s, one) = At(e.s, one))
    <3> HIDE DEF one
    <3>. QED  BY <1>2, AlikeAt
  <2>. QED  BY <1>1, <2>1, <2>2
<1>4. /\ Opcode(d) = IF op = 15 THEN TwoByte(WithModRM(d, two), second) ELSE OneByte(WithModRM(d, one), op)
      /\ Opcode(e) = IF op2 = 15 THEN TwoByte(WithModRM(e, two), second2)
                                 ELSE OneByte(WithModRM(e, one), op2)
  BY <1>1 DEF Opcode
<1>5. \A j : two - 1 <= j => one <= j
  BY <1>1
<1>6. \A j \in Nat : /\ j >= one /\ j - 1 <= n => d.pos <= n
                     /\ j >= two /\ j - 1 <= n => d.pos <= n /\ one <= n
  BY <1>1
<1> HIDE DEF op, op2, second, second2, one, two
<1>7. CASE op = 15
  <2> DEFINE f == TwoByte(WithModRM(d, two), second)
             g == TwoByte(WithModRM(e, two), second)
  <2>1. Facing(WithModRM(d, two), WithModRM(e, two), n) /\ WithModRM(d, two).pos = two
    BY <1>2, ModRMFollows
  <2>2. FoundAlike(f, g, two, n)
    BY <1>3, <2>1, TwoByteFollows
  <2>3. Opcode(d) = f /\ (op2 = op /\ second2 = second => Opcode(e) = g)
    BY <1>4, <1>7
  <2> HIDE DEF f, g
  <2>4. f.ok => WellFormed(f.insn) /\ f.next \in Nat /\ f.next >= two /\ f.next >= one
    BY <1>2, <2>2 DEF FoundAlike
  <2>5. f.ok /\ f.next - 1 <= n => Opcode(e) = f
    BY <1>3, <1>6, <2>2, <2>3, <2>4 DEF FoundAlike
  <2>6. FoundAlike(Opcode(d), Opcode(e), one, n)
    BY <2>3, <2>4, <2>5 DEF FoundAlike
  <2>. QED  BY <2>6 DEF one
<1>8. CASE op # 15
  <2> DEFINE f == OneByte(WithModRM(d, one), op)
             g == OneByte(WithModRM(e, one), op)
  <2>1. Facing(WithModRM(d, one), WithModRM(e, one), n) /\ WithModRM(d, one).pos = one
    BY <1>2, ModRMFollows
  <2>2. FoundAlike(f, g, one, n)
    BY <1>3, <2>1, OneByteFollows
  <2>3. Opcode(d) = f /\ (op2 = op => Opcode(e) = g)
    BY <1>4, <1>8
  <2> HIDE DEF f, g
  <2>4. f.ok => WellFormed(f.insn) /\ f.next \in Nat /\ f.next >= one
    BY <2>2 DEF FoundAlike
  <2>5. f.ok /\ f.next - 1 <= n => Opcode(e) = f
    BY <1>3, <1>6, <2>2, <2>3, <2>4 DEF FoundAlike
  <2>6. FoundAlike(Opcode(d), Opcode(e), one, n)
    BY <2>3, <2>4, <2>5 DEF FoundAlike
  <2>. QED  BY <2>6 DEF one
<1>. QED  BY <1>7, <1>8

-----------------------------------------------------------------------------
(***************************************************************************)
(* Prefixes: how many there are, and what they say.                        *)
(***************************************************************************)
AreThePrefixes(s, n) ==
  /\ \A i \in 1 .. n : s[i] \in Legacy
  /\ n = Len(s) \/ s[n + 1] \notin Legacy

LEMMA ThePrefixesEnd ==
  ASSUME NEW s \in Seq(Nat)
  PROVE  PrefixCount(s) \in 0 .. Len(s) /\ AreThePrefixes(s, PrefixCount(s))
<1> DEFINE S == {n \in 0 .. Len(s) : n = Len(s) \/ s[n + 1] \notin Legacy}
<1>1. Len(s) \in Nat /\ S \in SUBSET Nat /\ Len(s) \in S
  OBVIOUS
<1>2. PICK n \in S : \A k \in S : n <= k
  <2> HIDE DEF S
  <2>. QED  BY <1>1, LeastExists
<1>3. ASSUME NEW i \in 1 .. n
      PROVE  s[i] \in Legacy
  <2>1. i - 1 \in 0 .. Len(s) /\ i - 1 < n /\ n <= Len(s) /\ n \in Nat /\ (i - 1) + 1 = i
    BY <1>1, <1>2
  <2>2. i - 1 \notin S
    BY <1>2, <2>1
  <2>. QED  BY <2>1, <2>2
<1>4. n \in 0 .. Len(s) /\ AreThePrefixes(s, n)
  BY <1>3 DEF AreThePrefixes
<1>. QED  BY <1>4 DEF PrefixCount, AreThePrefixes

LEMMA NoOtherPrefixesEnd ==
  ASSUME NEW s \in Seq(Nat), NEW n \in 0 .. Len(s), AreThePrefixes(s, n)
  PROVE  PrefixCount(s) = n
<1> DEFINE k == PrefixCount(s)
<1>1. k \in 0 .. Len(s) /\ AreThePrefixes(s, k) /\ Len(s) \in Nat
  BY ThePrefixesEnd
<1> HIDE DEF k
<1>2. ~(k < n)
  <2>1. ASSUME k < n
        PROVE  FALSE
    <3>1. k + 1 \in 1 .. n /\ k # Len(s)
      BY <1>1, <2>1
    <3>. QED  BY <1>1, <3>1 DEF AreThePrefixes
  <2>. QED  BY <2>1
<1>3. ~(n < k)
  <2>1. ASSUME n < k
        PROVE  FALSE
    <3>1. n + 1 \in 1 .. k /\ n # Len(s)
      BY <1>1, <2>1
    <3>. QED  BY <1>1, <3>1 DEF AreThePrefixes
  <2>. QED  BY <2>1
<1>4. k = n
  BY <1>1, <1>2, <1>3
<1>. QED  BY <1>4 DEF k

LEMMA AlikePrefixCount ==
  ASSUME NEW s, NEW t, NEW n, Alike(s, t, n), PrefixCount(s) + 1 <= n
  PROVE  PrefixCount(t) = PrefixCount(s)
<1> DEFINE k == PrefixCount(s)
<1>1. /\ s \in Seq(Nat) /\ t \in Seq(Nat) /\ n \in Nat /\ n <= Len(s) /\ n <= Len(t)
      /\ \A i \in 1 .. n : s[i] = t[i]
  BY DEF Alike
<1>2. k \in 0 .. Len(s) /\ AreThePrefixes(s, k) /\ Len(s) \in Nat /\ Len(t) \in Nat
  BY <1>1, ThePrefixesEnd
<1>3. k + 1 <= n
  OBVIOUS
<1> HIDE DEF k
<1>4. k \in 0 .. Len(t) /\ k + 1 \in 1 .. n /\ k # Len(s) /\ (\A i \in 1 .. k : i \in 1 .. n)
  BY <1>1, <1>2, <1>3
<1>5. AreThePrefixes(t, k)
  BY <1>1, <1>2, <1>4 DEF AreThePrefixes
<1>6. PrefixCount(t) = k
  BY <1>1, <1>4, <1>5, NoOtherPrefixesEnd
<1>. QED  BY <1>6 DEF k

\* The last of the prefixes in P.
LastOf(s, n, P) ==
  LET at == {i \in 1 .. n : s[i] \in P}
  IN  IF at = {} THEN 0 ELSE s[CHOOSE i \in at : \A j \in at : j <= i]

LEMMA TheLastIsAlike ==
  ASSUME NEW s, NEW t, NEW n, Alike(s, t, n), NEW k \in 0 .. n, NEW P
  PROVE  LastOf(s, k, P) \in Nat /\ LastOf(t, k, P) = LastOf(s, k, P)
<1> DEFINE at == {i \in 1 .. k : s[i] \in P}
           at2 == {i \in 1 .. k : t[i] \in P}
           last == CHOOSE i \in at : \A j \in at : j <= i
<1>1. n \in Nat /\ n <= Len(s) /\ s \in Seq(Nat) /\ k \in Nat /\ k <= n /\ Len(s) \in Nat
  BY DEF Alike
<1>2. \A i \in 1 .. k : i \in 1 .. n /\ i \in 1 .. Len(s)
  BY <1>1
<1>3. \A i \in 1 .. k : s[i] = t[i] /\ s[i] \in Nat
  BY <1>1, <1>2 DEF Alike
<1>4. at = at2
  BY <1>3
<1>5. /\ LastOf(s, k, P) = IF at = {} THEN 0 ELSE s[last]
      /\ LastOf(t, k, P) = IF at = {} THEN 0 ELSE t[last]
  <2>1. LastOf(s, k, P) = IF at = {} THEN 0 ELSE s[last]
    BY DEF LastOf
  <2>2. LastOf(t, k, P) = IF at2 = {} THEN 0 ELSE t[CHOOSE i \in at2 : \A j \in at2 : j <= i]
    BY DEF LastOf
  <2> HIDE DEF at, at2
  <2>. QED  BY <1>4, <2>1, <2>2
<1>6. at # {} => last \in 1 .. k
  <2>1. ASSUME at # {}
        PROVE  last \in at
    <3>1. at \in SUBSET (1 .. k)
      OBVIOUS
    <3> HIDE DEF at
    <3>2. \E i \in at : \A j \in at : j <= i
      BY <1>1, <2>1, <3>1, GreatestExists
    <3>. QED  BY <3>2
  <2>. QED  BY <2>1
<1> HIDE DEF at, last
<1>. QED  BY <1>3, <1>5, <1>6

LEMMA PrefixesAreAlike ==
  ASSUME NEW s, NEW t, NEW n, Alike(s, t, n), NEW k \in 0 .. n
  PROVE  /\ Prefixes(s, k) \in Dec /\ Prefixes(s, k).s = s /\ Prefixes(s, k).pos >= k + 1
         /\ k + 1 <= n => SamePrefixes(Prefixes(s, k), Prefixes(t, k))
<1> DEFINE b == At(s, k + 1)
           b2 == At(t, k + 1)
           rex == IF b \in 64 .. 79 THEN b ELSE 0
           rex2 == IF b2 \in 64 .. 79 THEN b2 ELSE 0
           d == Begin(s, k, rex)
           e == Begin(t, k, rex2)
<1>1. n \in Nat /\ k \in Nat /\ k <= n /\ s \in Seq(Nat) /\ t \in Seq(Nat)
  BY DEF Alike
<1>2. b \in Nat /\ (k + 1 <= n => b2 = b)
  <2>1. k + 1 \in Nat \ {0}
    BY <1>1
  <2>. QED  BY <2>1, AlikeAt
<1>3. rex \in Nat /\ (k + 1 <= n => rex2 = rex)
  BY <1>2
<1>4. Prefixes(s, k) = d /\ Prefixes(t, k) = e
  BY DEF Prefixes
<1> HIDE DEF b, b2, rex, rex2
<1>5. /\ SegOf(s, k) \in Nat /\ SegOf(t, k) = SegOf(s, k)
      /\ RepOf(s, k) \in Nat /\ RepOf(t, k) = RepOf(s, k)
  <2>1. /\ SegOf(s, k) = LastOf(s, k, SegPrefixes) /\ RepOf(s, k) = LastOf(s, k, {242, 243})
        /\ SegOf(t, k) = LastOf(t, k, SegPrefixes) /\ RepOf(t, k) = LastOf(t, k, {242, 243})
    BY DEF SegOf, RepOf, LastOf
  <2>2. /\ LastOf(s, k, SegPrefixes) \in Nat /\ LastOf(t, k, SegPrefixes) = LastOf(s, k, SegPrefixes)
        /\ LastOf(s, k, {242, 243}) \in Nat /\ LastOf(t, k, {242, 243}) = LastOf(s, k, {242, 243})
    BY TheLastIsAlike
  <2>. QED  BY <2>1, <2>2
<1>6. (Has(t, k, 102) <=> Has(s, k, 102)) /\ (Has(t, k, 103) <=> Has(s, k, 103))
  <2>1. \A i \in 1 .. k : s[i] = t[i]
    <3>1. \A i \in 1 .. k : i \in 1 .. n
      BY <1>1
    <3>. QED  BY <3>1 DEF Alike
  <2>. QED  BY <2>1 DEF Has
<1>7. \A v : RexBit(rex, v) \in BOOLEAN
  BY DEF RexBit
<1> DEFINE o66 == Has(s, k, 102)
           a67 == Has(s, k, 103)
           rexW == RexBit(rex, 8)
<1>8. /\ (IF a67 THEN 4 ELSE 8) \in {4, 8} /\ (IF o66 THEN 2 ELSE 8) \in {2, 8}
      /\ OpSizeOf(rexW, o66) \in {2, 4, 8}
      /\ (IF rex # 0 THEN k + 2 ELSE k + 1) \in Nat \ {0}
      /\ (IF rex # 0 THEN k + 2 ELSE k + 1) >= k + 1
      /\ (rex # 0) \in BOOLEAN
  BY <1>1 DEF OpSizeOf
<1>9. NoReg \in Registers \cup Memories \cup {NoReg} /\ 0 \in 0 .. 7 /\ 0 \in Nat
  OBVIOUS
<1>10. d \in Dec /\ d.s = s /\ d.pos >= k + 1
  <2> DEFINE addr == IF a67 THEN 4 ELSE 8
             size == OpSizeOf(rexW, o66)
             stack == IF o66 THEN 2 ELSE 8
             pos == IF rex # 0 THEN k + 2 ELSE k + 1
             seg == SegOf(s, k)
             rep == RepOf(s, k)
             rexed == rex # 0
  <2>1. d = [s |-> s, rex |-> rexed, w |-> rexW, r |-> RexBit(rex, 4), x |-> RexBit(rex, 2),
             b |-> RexBit(rex, 1), seg |-> seg, rep |-> rep, addr |-> addr, size |-> size,
             stack |-> stack, pos |-> pos, digit |-> 0, reg |-> 0, rm |-> NoReg, next |-> 0]
    BY DEF Begin
  <2>2. /\ addr \in {4, 8} /\ size \in {2, 4, 8} /\ stack \in {2, 8} /\ pos \in Nat \ {0} /\ pos >= k + 1
        /\ seg \in Nat /\ rep \in Nat /\ rexed \in BOOLEAN /\ rexW \in BOOLEAN
    BY <1>5, <1>7, <1>8
  <2> HIDE DEF addr, size, stack, pos, seg, rep, rexed, rexW, d
  <2>. QED  BY <1>1, <1>7, <1>9, <2>1, <2>2 DEF Dec
<1>11. k + 1 <= n => SamePrefixes(d, e)
  <2>1. /\ (IF Has(t, k, 103) THEN 4 ELSE 8) = (IF Has(s, k, 103) THEN 4 ELSE 8)
        /\ (IF Has(t, k, 102) THEN 2 ELSE 8) = (IF Has(s, k, 102) THEN 2 ELSE 8)
        /\ \A w : OpSizeOf(w, Has(t, k, 102)) = OpSizeOf(w, Has(s, k, 102))
    BY <1>6 DEF OpSizeOf
  <2>. QED  BY <1>3, <1>5, <2>1 DEF SamePrefixes, Begin
<1>. QED  BY <1>4, <1>10, <1>11

-----------------------------------------------------------------------------
(***************************************************************************)
(* `decode`: what comes out of bytes, and out of bytes that begin alike.   *)
(***************************************************************************)
Reading(s) == Opcode(Prefixes(s, PrefixCount(s)))

LEMMA AlikeToItself ==
  ASSUME NEW s \in Seq(Nat)
  PROVE  Alike(s, s, Len(s))
BY DEF Alike

LEMMA ReadingIsWellFormed ==
  ASSUME NEW s \in Seq(Nat), Reading(s).ok
  PROVE  /\ WellFormed(Reading(s).insn) /\ Reading(s).next \in Nat
         /\ Reading(s).next >= PrefixCount(s) + 2
<1> DEFINE k == PrefixCount(s)
           d == Prefixes(s, k)
           f == Opcode(d)
<1>1. Alike(s, s, Len(s)) /\ k \in 0 .. Len(s) /\ k \in Nat
  <2>1. k \in 0 .. Len(s)
    BY ThePrefixesEnd
  <2>. QED  BY <2>1, AlikeToItself
<1> HIDE DEF k
<1>2. d \in Dec /\ d.s = s /\ d.pos >= k + 1
  BY <1>1, PrefixesAreAlike
<1> HIDE DEF d
<1>3. FoundAlike(f, f, d.pos + 1, Len(s))
  <2>1. Alike(d.s, d.s, Len(s)) /\ SamePrefixes(d, d)
    BY <1>1, <1>2 DEF SamePrefixes
  <2>. QED  BY <1>2, <2>1, OpcodeFollows
<1>4. f.ok
  BY DEF Reading, d, k
<1> HIDE DEF f
<1>5. WellFormed(f.insn) /\ f.next \in Nat /\ f.next >= d.pos + 1
  BY <1>3, <1>4 DEF FoundAlike
<1>6. f.next >= k + 2
  <2>1. d.pos \in Nat
    BY <1>2 DEF Dec
  <2>. QED  BY <1>1, <1>2, <1>5, <2>1
<1>. QED  BY <1>5, <1>6 DEF Reading, f, d, k

LEMMA ReadingFollows ==
  ASSUME NEW s, NEW t, NEW n, Alike(s, t, n), Reading(s).ok, Reading(s).next - 1 <= n
  PROVE  Reading(t) = Reading(s)
<1> DEFINE k == PrefixCount(s)
           d == Prefixes(s, k)
           e == Prefixes(t, k)
           f == Opcode(d)
<1>1. /\ s \in Seq(Nat) /\ t \in Seq(Nat) /\ n \in Nat /\ Alike(t, s, n)
      /\ Reading(s).next \in Nat /\ Reading(s).next >= k + 2
  BY ReadingIsWellFormed DEF Alike
<1>2. k \in 0 .. Len(s)
  BY <1>1, ThePrefixesEnd
<1>3. k \in Nat /\ k + 1 <= n /\ k \in 0 .. n
  BY <1>1, <1>2
<1>4. PrefixCount(t) = k
  BY <1>3, AlikePrefixCount
<1>5. Reading(s) = f /\ Reading(t) = Opcode(e)
  BY <1>4 DEF Reading
<1> HIDE DEF k
<1>6. d \in Dec /\ e \in Dec /\ d.s = s /\ e.s = t /\ SamePrefixes(d, e)
  BY <1>1, <1>3, PrefixesAreAlike
<1> HIDE DEF d, e
<1>7. FoundAlike(f, Opcode(e), d.pos + 1, n)
  BY <1>6, OpcodeFollows
<1> HIDE DEF f
<1>. QED  BY <1>5, <1>7 DEF FoundAlike

LEMMA Decodings ==
  ASSUME NEW s
  PROVE  /\ Decode(s).len # 0 =>
              /\ Reading(s).ok /\ Reading(s).next - 1 <= Len(s) /\ Reading(s).next - 1 <= MaxInsnLen
              /\ Decode(s) = [insn |-> Reading(s).insn, size |-> Reading(s).size, len |-> Reading(s).next - 1]
         /\ Reading(s).ok /\ Reading(s).next - 1 <= Len(s) /\ Reading(s).next - 1 <= MaxInsnLen =>
              Decode(s) = [insn |-> Reading(s).insn, size |-> Reading(s).size, len |-> Reading(s).next - 1]
<1>1. Decode(s) = Conclude(s, Reading(s))
  BY DEF Decode, Reading
<1>2. Refusal.len = 0
  BY DEF Refusal
<1>. QED  BY <1>1, <1>2 DEF Conclude

\* An instruction that was decoded is one that could have been written, and it
\* has at least the byte of its opcode.
LEMMA DecodedIsWellFormed ==
  ASSUME NEW s \in Seq(Nat), Decode(s).len # 0
  PROVE  /\ WellFormed(Decode(s).insn)
         /\ Decode(s).len \in Nat \ {0} /\ Decode(s).len <= Len(s) /\ Decode(s).len <= MaxInsnLen
<1> DEFINE f == Reading(s)
<1>1. /\ f.ok /\ f.next - 1 <= Len(s) /\ f.next - 1 <= MaxInsnLen
      /\ Decode(s).insn = f.insn /\ Decode(s).len = f.next - 1
  BY Decodings
<1>2. WellFormed(f.insn) /\ f.next \in Nat /\ f.next >= PrefixCount(s) + 2
  BY <1>1, ReadingIsWellFormed
<1>3. PrefixCount(s) \in Nat
  BY ThePrefixesEnd
<1> HIDE DEF f
<1>. QED  BY <1>1, <1>2, <1>3

\* What is decoded from s is decoded from all that begins alike.
LEMMA DecodeFollows ==
  ASSUME NEW s, NEW t, NEW n, Alike(s, t, n), Decode(s).len # 0, Decode(s).len <= n
  PROVE  Decode(t) = Decode(s)
<1>1. /\ s \in Seq(Nat) /\ t \in Seq(Nat) /\ n \in Nat /\ n <= Len(t) /\ Len(t) \in Nat
  BY DEF Alike
<1>2. /\ Reading(s).ok /\ Reading(s).next - 1 <= MaxInsnLen /\ Decode(s).len = Reading(s).next - 1
      /\ Decode(s) = [insn |-> Reading(s).insn, size |-> Reading(s).size, len |-> Reading(s).next - 1]
  BY Decodings
<1>3. Reading(t) = Reading(s)
  BY <1>2, ReadingFollows
<1>4. Reading(s).next - 1 <= Len(t)
  <2>1. Reading(s).next \in Nat
    BY <1>1, <1>2, ReadingIsWellFormed
  <2>. QED  BY <1>1, <1>2, <2>1
<1>5. Decode(t) = [insn |-> Reading(t).insn, size |-> Reading(t).size, len |-> Reading(t).next - 1]
  BY <1>2, <1>3, <1>4, Decodings
<1>. QED  BY <1>2, <1>3, <1>5

LEMMA PrefixesOfBytes ==
  ASSUME NEW s \in Seq(Nat), NEW n \in 0 .. Len(s)
  PROVE  /\ Alike(s, SubSeq(s, 1, n), n) /\ Alike(SubSeq(s, 1, n), s, n)
         /\ Len(SubSeq(s, 1, n)) = n
<1> DEFINE t == SubSeq(s, 1, n)
<1>1. n \in Nat /\ n <= Len(s)
  OBVIOUS
<1>2. t \in Seq(Nat) /\ Len(t) = n /\ \A i \in 1 .. n : t[i] = s[i]
  BY <1>1
<1> HIDE DEF t
<1>3. Alike(s, t, n) /\ Alike(t, s, n)
  BY <1>1, <1>2 DEF Alike
<1>. QED  BY <1>2, <1>3 DEF t

\* The bytes of an instruction are that instruction, and fewer of them are none.
LEMMA DecodedBytesDelimitThemselves ==
  ASSUME NEW s \in Seq(Nat), Decode(s).len # 0
  PROVE  /\ Decode(SubSeq(s, 1, Decode(s).len)) = Decode(s)
         /\ \A n \in 0 .. Decode(s).len - 1 : Decode(SubSeq(s, 1, n)).len = 0
<1> DEFINE m == Decode(s).len
<1>1. m \in Nat /\ m \in 0 .. Len(s) /\ Len(s) \in Nat /\ m # 0
  BY DecodedIsWellFormed
<1> HIDE DEF m
<1>2. Decode(SubSeq(s, 1, m)) = Decode(s)
  BY <1>1, PrefixesOfBytes, DecodeFollows DEF m
<1>3. ASSUME NEW n \in 0 .. m - 1
      PROVE  Decode(SubSeq(s, 1, n)).len = 0
  <2> DEFINE t == SubSeq(s, 1, n)
  <2>1. n \in 0 .. Len(s) /\ n < m /\ n \in Nat
    BY <1>1
  <2>2. Alike(t, s, n) /\ Len(t) = n /\ t \in Seq(Nat)
    BY <2>1, PrefixesOfBytes DEF Alike
  <2> HIDE DEF t
  <2>3. ASSUME Decode(t).len # 0
        PROVE  FALSE
    <3>1. Decode(t).len \in Nat /\ Decode(t).len <= n
      BY <2>2, <2>3, DecodedIsWellFormed
    <3>2. Decode(s) = Decode(t)
      BY <2>2, <2>3, <3>1, DecodeFollows
    <3>. QED  BY <1>1, <2>1, <3>1, <3>2 DEF m
  <2>. QED  BY <2>3 DEF t
<1>. QED  BY <1>2, <1>3 DEF m

-----------------------------------------------------------------------------
(***************************************************************************)
(* Going round.  InstructionsDelimitThemselves says nothing of the stages  *)
(* in between; what is kept throughout is that there is an instruction     *)
(* that can be encoded and there are bytes that can be decoded, and that a *)
(* decoded instruction is still the one in front of the bytes.             *)
(***************************************************************************)
DecodedFromCode ==
  /\ len \in 1 .. MaxInsnLen
  /\ Decode(code) = [insn |-> insn, size |-> width, len |-> len]

InsnAndCode ==
  /\ WellFormed(insn)
  /\ code \in Seq(Nat)
  /\ stage = "decoded" => DecodedFromCode

LEMMA InitInsnAndCode == Init => InsnAndCode
<1> SUFFICES ASSUME Init
             PROVE  InsnAndCode
  OBVIOUS
<1>1. CASE Written
  <2>1. PICK k \in DOMAIN Forms : \E m \in Forms[k].names, ops \in Forms[k].operands :
          insn = Instruction(m, Forms[k].cc, ops)
    BY <1>1 DEF Written
  <2>2. PICK m \in Forms[k].names, ops \in Forms[k].operands : insn = Instruction(m, Forms[k].cc, ops)
    BY <2>1
  <2>3. Forms[k].cc \in Nat /\ ops \in Seq(Operand)
    BY FormsAreInstructions
  <2>4. WellFormed(insn)
    BY <2>2, <2>3 DEF WellFormed, Instruction
  <2>5. code = <<>> /\ stage = "written"
    BY <1>1 DEF Written
  <2>6. code \in Seq(Nat)
    BY <2>5
  <2>. QED  BY <2>4, <2>5, <2>6 DEF InsnAndCode
<1>2. CASE FoundInMemory
  <2>1. stage = "found" /\ insn = Unknown.insn
    BY <1>2 DEF FoundInMemory
  <2>2. WellFormed(insn)
    <3>1. insn = [m |-> "(bad)", cc |-> 0, ops |-> <<>>]
      BY <2>1, Zenon DEF Unknown, Instruction
    <3>2. insn.cc = 0 /\ insn.ops = <<>>
      BY <3>1
    <3>3. <<>> \in Seq(Operand)
      OBVIOUS
    <3>. QED  BY <3>2, <3>3 DEF WellFormed
  <2>3. PICK k \in DOMAIN Contexts :
          \E h \in Contexts[k].heads, op \in Contexts[k].opcodes, t \in Contexts[k].tails :
            code = h \o op \o t
    BY <1>2 DEF FoundInMemory
  <2>4. PICK h \in Contexts[k].heads, op \in Contexts[k].opcodes, t \in Contexts[k].tails :
          code = h \o op \o t
    BY <2>3
  <2>5. h \in Seq(Nat) /\ op \in Seq(Nat) /\ t \in Seq(Nat)
    <3>1. Contexts[k].heads \cup Contexts[k].opcodes \cup Contexts[k].tails \subseteq Seq(Nat)
      BY ContextsAreBytes
    <3>. QED  BY <3>1
  <2>6. h \o op \in Seq(Nat)
    BY <2>5
  <2>7. code \in Seq(Nat)
    BY <2>4, <2>5, <2>6
  <2>. QED  BY <2>1, <2>2, <2>7 DEF InsnAndCode
<1>. QED  BY <1>1, <1>2 DEF Init

LEMMA NextInsnAndCode == InsnAndCode /\ [Next]_vars => InsnAndCode'
<1> SUFFICES ASSUME InsnAndCode, [Next]_vars
             PROVE  InsnAndCode'
  OBVIOUS
<1>1. WellFormed(insn) /\ code \in Seq(Nat)
  BY DEF InsnAndCode
<1>2. CASE Assemble
  <2>1. code' = Encode(insn) /\ insn' = insn /\ stage' \in {"refused", "encoded"}
    BY <1>2 DEF Assemble
  <2>2. code' \in Seq(Nat)
    BY <1>1, <2>1, EncodeIsBytes
  <2>3. WellFormed(insn)'
    BY <1>1, <2>1 DEF WellFormed
  <2>. QED  BY <2>1, <2>2, <2>3 DEF InsnAndCode
<1>3. CASE Disassemble
  <2> DEFINE d == Decode(code)
  <2>1. /\ insn' = IF d.len = 0 THEN insn ELSE d.insn
        /\ len' = d.len /\ width' = d.size
        /\ stage' = IF d.len = 0 THEN "refused" ELSE "decoded"
        /\ code' = code
    BY <1>3 DEF Disassemble
  <2>2. CASE d.len = 0
    <3>1. insn' = insn /\ stage' = "refused"
      BY <2>1, <2>2
    <3>2. WellFormed(insn)'
      BY <1>1, <3>1 DEF WellFormed
    <3>. QED  BY <1>1, <2>1, <3>1, <3>2 DEF InsnAndCode
  <2>3. CASE d.len # 0
    <3>1. insn' = d.insn
      BY <2>1, <2>3
    <3>2. WellFormed(d.insn) /\ d.len \in 1 .. MaxInsnLen
      <4>1. MaxInsnLen \in Nat
        BY DEF MaxInsnLen
      <4>. QED  BY <1>1, <2>3, <4>1, DecodedIsWellFormed
    <3>3. d = [insn |-> d.insn, size |-> d.size, len |-> d.len]
      <4>1. d = [insn |-> Reading(code).insn, size |-> Reading(code).size, len |-> Reading(code).next - 1]
        BY <2>3, Decodings
      <4> HIDE DEF d
      <4>. QED  BY <4>1
    <3>4. Decode(code') = [insn |-> insn', size |-> width', len |-> len']
      BY <2>1, <3>1, <3>3
    <3>5. DecodedFromCode'
      BY <2>1, <3>2, <3>4 DEF DecodedFromCode
    <3>6. WellFormed(insn)'
      BY <3>1, <3>2 DEF WellFormed
    <3>. QED  BY <1>1, <2>1, <3>5, <3>6 DEF InsnAndCode
  <2>. QED  BY <2>2, <2>3
<1>4. CASE UNCHANGED vars
  <2>1. insn' = insn /\ code' = code /\ stage' = stage /\ width' = width /\ len' = len
    BY <1>4 DEF vars
  <2>2. WellFormed(insn)' /\ (DecodedFromCode => DecodedFromCode')
    BY <1>1, <2>1 DEF WellFormed, DecodedFromCode
  <2>. QED  BY <2>1, <2>2 DEF InsnAndCode
<1>. QED  BY <1>2, <1>3, <1>4 DEF Next

\* Whatever goes round is an instruction with operands and a row of bytes, and no
\* instruction that was decoded is empty or longer than fifteen bytes
\* (decode.rs:123, Truncated and TooLong; encode.rs, the bytes that are emitted).
THEOREM InstructionsAndBytes == Spec => []InsnAndCode
<1>1. Init => InsnAndCode
  BY InitInsnAndCode
<1>2. InsnAndCode /\ [Next]_vars => InsnAndCode'
  BY NextInsnAndCode
<1>. QED  BY <1>1, <1>2, PTL DEF Spec

\* A buffer that ends inside an instruction is an error, and what was decoded does
\* not depend on what comes behind it (decode.rs:123).
THEOREM InstructionsAreDelimited == Spec => []InstructionsDelimitThemselves
<1>1. InsnAndCode => InstructionsDelimitThemselves
  <2> SUFFICES ASSUME InsnAndCode, stage = "decoded"
               PROVE  /\ Decode(SubSeq(code, 1, len)) = [insn |-> insn, size |-> width, len |-> len]
                      /\ \A n \in 0 .. len - 1 : Decode(SubSeq(code, 1, n)).len = 0
    BY DEF InstructionsDelimitThemselves
  <2>1. /\ code \in Seq(Nat) /\ len \in 1 .. MaxInsnLen
        /\ Decode(code) = [insn |-> insn, size |-> width, len |-> len]
    BY DEF InsnAndCode, DecodedFromCode
  <2>2. Decode(code).len = len /\ len # 0
    BY <2>1
  <2>. QED  BY <2>1, <2>2, DecodedBytesDelimitThemselves
<1>. QED  BY <1>1, InstructionsAndBytes, PTL
=============================================================================
