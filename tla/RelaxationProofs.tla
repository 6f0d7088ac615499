-------------------------- MODULE RelaxationProofs --------------------------
(***************************************************************************)
(* What the layout loop of the assembler guarantees, for every program,    *)
(* origin and round limit.  An address is the value of a recursive         *)
(* function; what it is follows by induction on the statements, with the   *)
(* induction stated over sets of numbers.                                  *)
(***************************************************************************)
EXTENDS Relaxation, FiniteSetTheorems, WellFoundedInduction, TLAPS

USE ProgramsAreStatements, OriginsAreAddresses, LimitsAreNaturals

\* A set of numbers that is not empty has a least element.
LEMMA LeastExists ==
  ASSUME NEW S \in SUBSET Nat, S # {}
  PROVE  \E x \in S : \A y \in S : x <= y
<1>1. PICK x \in S : \A y \in S : ~(<<y, x>> \in OpToRel(<, Nat))
  BY WFMin, NatLessThanWellFounded
<1>2. ASSUME NEW y \in S
      PROVE  x <= y
  <2>1. ~(y < x)
    BY <1>1 DEF OpToRel
  <2>. QED  BY <2>1
<1>. QED  BY <1>2

\* A set that holds 1, and the number after each of its numbers up to n, holds
\* every number up to n + 1.
LEMMA StepByStep ==
  ASSUME NEW n \in Nat, NEW S, 1 \in S, \A k \in 1 .. n : k \in S => k + 1 \in S
  PROVE  \A k \in 1 .. n + 1 : k \in S
<1> DEFINE missing == {k \in 1 .. n + 1 : k \notin S}
<1>1. ASSUME missing # {}
      PROVE  FALSE
  <2>0. missing \in SUBSET Nat
    OBVIOUS
  <2>1. PICK k \in missing : \A j \in missing : k <= j
    <3> HIDE DEF missing
    <3>. QED  BY <1>1, <2>0, LeastExists
  <2>2. k \in Nat /\ k # 1 /\ k >= 1 /\ k <= n + 1
    OBVIOUS
  <2>3. k - 1 \in 1 .. n /\ k - 1 < k
    BY <2>2
  <2>4. k - 1 \in S
    <3>1. k - 1 \notin missing
      BY <2>1, <2>2, <2>3
    <3>. QED  BY <2>3, <3>1
  <2>5. k \in S
    BY <2>2, <2>3, <2>4
  <2>. QED  BY <2>5
<1>. QED  BY <1>1

-----------------------------------------------------------------------------
(***************************************************************************)
(* Layouts.                                                                *)
(***************************************************************************)
\* Addresses, of n statements from address o.
Layout(n, o, ls) ==
  LET at[i \in 1 .. n + 1] == IF i = 1 THEN o ELSE at[i - 1] + ls[i - 1]
  IN  at

LEMMA AddressesAreALayout ==
  ASSUME NEW ls
  PROVE  Addresses(ls) = Layout(Len(stmts), origin, ls)
BY DEF Addresses, Layout

\* A layout puts every statement at the end of the one before.
LEMMA LayoutRecurs ==
  ASSUME NEW n \in Nat, NEW o \in Int, NEW ls \in [1 .. n -> Int]
  PROVE  /\ Layout(n, o, ls) \in [1 .. n + 1 -> Int]
         /\ Layout(n, o, ls)[1] = o
         /\ \A i \in 1 .. n : Layout(n, o, ls)[i + 1] = Layout(n, o, ls)[i] + ls[i]
<1> DEFINE LaidOut(k, f) == f[1] = o /\ \A i \in 1 .. k - 1 : f[i + 1] = f[i] + ls[i]
           S == {k \in Nat : \E f \in [1 .. k -> Int] : LaidOut(k, f)}
<1>1. 1 \in S
  <2> DEFINE f == [i \in 1 .. 1 |-> o]
  <2>1. f \in [1 .. 1 -> Int] /\ LaidOut(1, f)
    OBVIOUS
  <2>. QED  BY <2>1
<1>2. ASSUME NEW k \in 1 .. n, k \in S
      PROVE  k + 1 \in S
  <2>1. PICK f \in [1 .. k -> Int] : LaidOut(k, f)
    BY <1>2
  <2> DEFINE g == [i \in 1 .. k + 1 |-> IF i = k + 1 THEN f[k] + ls[k] ELSE f[i]]
  <2>2. k \in Nat /\ k \in 1 .. k /\ ls[k] \in Int
    BY <1>2
  <2>3. g \in [1 .. k + 1 -> Int]
    BY <2>2
  <2>4. g[1] = o
    BY <2>1, <2>2
  <2>5. ASSUME NEW i \in 1 .. k
        PROVE  g[i + 1] = g[i] + ls[i]
    <3>1. i \in 1 .. k + 1 /\ i + 1 \in 1 .. k + 1 /\ i # k + 1
      BY <2>2
    <3>2. CASE i = k
      BY <2>2, <3>1, <3>2
    <3>3. CASE i # k
      <4>1. i \in 1 .. k - 1 /\ i + 1 # k + 1
        BY <2>2, <3>3
      <4>. QED  BY <2>1, <3>1, <4>1
    <3>. QED  BY <3>2, <3>3
  <2>6. k + 1 \in Nat /\ k + 1 - 1 = k
    BY <2>2
  <2> HIDE DEF g
  <2>7. LaidOut(k + 1, g)
    BY <2>4, <2>5, <2>6
  <2>. QED  BY <2>3, <2>6, <2>7
<1>3. n + 1 \in S
  <2> HIDE DEF S
  <2>1. \A k \in 1 .. n + 1 : k \in S
    BY <1>1, <1>2, StepByStep
  <2>. QED  BY <2>1
<1>4. PICK f \in [1 .. n + 1 -> Int] : LaidOut(n + 1, f)
  BY <1>3
<1>5. f[1] = o /\ \A i \in 1 .. n : f[i + 1] = f[i] + ls[i]
  BY <1>4
<1> DEFINE Body(at) == [i \in 1 .. n + 1 |-> IF i = 1 THEN o ELSE at[i - 1] + ls[i - 1]]
<1>6. f = Body(f)
  <2>1. ASSUME NEW i \in 1 .. n + 1
        PROVE  f[i] = Body(f)[i]
    <3>1. CASE i = 1
      BY <1>5, <3>1
    <3>2. CASE i # 1
      <4>1. i - 1 \in 1 .. n /\ i - 1 + 1 = i
        BY <3>2
      <4>2. f[i] = f[i - 1] + ls[i - 1]
        BY <1>5, <4>1
      <4>. QED  BY <3>2, <4>2
    <3>. QED  BY <3>1, <3>2
  <2>. QED  BY <2>1
<1>7. Layout(n, o, ls) = CHOOSE at : at = Body(at)
  BY DEF Layout
<1> DEFINE at == Layout(n, o, ls)
<1>8. at = Body(at)
  <2> HIDE DEF Body, at
  <2>1. \E x : x = Body(x)
    BY <1>6
  <2>. QED  BY <1>7, <2>1 DEF at
<1> HIDE DEF at
<1>9. DOMAIN at = 1 .. n + 1 /\ at[1] = o /\ \A i \in 1 .. n : at[i + 1] = at[i] + ls[i]
  <2>1. DOMAIN at = 1 .. n + 1
    BY <1>8
  <2>2. \A i \in 1 .. n + 1 : at[i] = IF i = 1 THEN o ELSE at[i - 1] + ls[i - 1]
    BY <1>8
  <2>3. at[1] = o
    BY <2>2
  <2>4. ASSUME NEW i \in 1 .. n
        PROVE  at[i + 1] = at[i] + ls[i]
    <3>1. i + 1 \in 1 .. n + 1 /\ i + 1 # 1 /\ i + 1 - 1 = i
      OBVIOUS
    <3>. QED  BY <2>2, <3>1
  <2>. QED  BY <2>1, <2>3, <2>4
<1>10. \A k \in 1 .. n + 1 : at[k] \in Int
  <2> DEFINE T == {k \in 1 .. n + 1 : at[k] \in Int}
  <2>1. 1 \in T
    BY <1>9
  <2>2. \A k \in 1 .. n : k \in T => k + 1 \in T
    <3> TAKE k \in 1 .. n
    <3> HAVE k \in T
    <3>1. at[k + 1] = at[k] + ls[k] /\ at[k] \in Int /\ ls[k] \in Int
      BY <1>9
    <3>. QED  BY <3>1
  <2>3. \A k \in 1 .. n + 1 : k \in T
    <3> HIDE DEF T
    <3>. QED  BY <2>1, <2>2, StepByStep
  <2>. QED  BY <2>3
<1>11. at = [i \in 1 .. n + 1 |-> at[i]]
  BY <1>8
<1>. QED  BY <1>9, <1>10, <1>11 DEF at

\* In a layout of statements that are as long or longer, statements lie as far
\* apart or farther.
LEMMA SpansGrow ==
  ASSUME NEW n \in Nat, NEW o \in Int, NEW ls \in [1 .. n -> Nat], NEW ms \in [1 .. n -> Nat],
         \A i \in 1 .. n : ls[i] <= ms[i]
  PROVE  \A k \in 1 .. n + 1 : \A i \in 1 .. k :
           /\ 0 <= Layout(n, o, ls)[k] - Layout(n, o, ls)[i]
           /\ Layout(n, o, ls)[k] - Layout(n, o, ls)[i]
                <= Layout(n, o, ms)[k] - Layout(n, o, ms)[i]
<1> DEFINE a == Layout(n, o, ls)
           b == Layout(n, o, ms)
           S == {k \in 1 .. n + 1 :
                   \A i \in 1 .. k : 0 <= a[k] - a[i] /\ a[k] - a[i] <= b[k] - b[i]}
<1>1. ls \in [1 .. n -> Int] /\ ms \in [1 .. n -> Int]
  OBVIOUS
<1>2. /\ a \in [1 .. n + 1 -> Int] /\ b \in [1 .. n + 1 -> Int]
      /\ \A i \in 1 .. n : a[i + 1] = a[i] + ls[i] /\ b[i + 1] = b[i] + ms[i]
  <2>1. a \in [1 .. n + 1 -> Int] /\ \A i \in 1 .. n : a[i + 1] = a[i] + ls[i]
    BY <1>1, LayoutRecurs, Zenon
  <2>2. b \in [1 .. n + 1 -> Int] /\ \A i \in 1 .. n : b[i + 1] = b[i] + ms[i]
    BY <1>1, LayoutRecurs, Zenon
  <2> HIDE DEF a, b
  <2>. QED  BY <2>1, <2>2
<1> HIDE DEF a, b
<1>3. 1 \in S
  BY <1>2
<1>4. \A k \in 1 .. n : k \in S => k + 1 \in S
  <2> SUFFICES ASSUME NEW k \in 1 .. n, k \in S
               PROVE  k + 1 \in S
    OBVIOUS
  <2>1. /\ k \in 1 .. n + 1 /\ k + 1 \in 1 .. n + 1
        /\ a[k + 1] = a[k] + ls[k] /\ b[k + 1] = b[k] + ms[k]
        /\ a[k] \in Int /\ b[k] \in Int /\ ls[k] \in Nat /\ ms[k] \in Nat /\ ls[k] <= ms[k]
    BY <1>2
  <2>2. ASSUME NEW i \in 1 .. k + 1
        PROVE  0 <= a[k + 1] - a[i] /\ a[k + 1] - a[i] <= b[k + 1] - b[i]
    <3>1. CASE i = k + 1
      BY <2>1, <3>1
    <3>2. CASE i # k + 1
      <4>1. i \in 1 .. k /\ i \in 1 .. n + 1
        BY <3>2
      <4>2. 0 <= a[k] - a[i] /\ a[k] - a[i] <= b[k] - b[i]
        BY <4>1
      <4>3. a[i] \in Int /\ b[i] \in Int
        BY <1>2, <4>1
      <4>4. ASSUME NEW x \in Int, NEW y \in Int, NEW u \in Int, NEW v \in Int,
                   NEW l \in Nat, NEW m \in Nat,
                   l <= m, 0 <= x - u, x - u <= y - v
            PROVE  0 <= (x + l) - u /\ (x + l) - u <= (y + m) - v
        BY <4>4
      <4>5. 0 <= (a[k] + ls[k]) - a[i] /\ (a[k] + ls[k]) - a[i] <= (b[k] + ms[k]) - b[i]
        BY <2>1, <4>2, <4>3, <4>4
      <4>. QED  BY <2>1, <4>5
    <3>. QED  BY <3>1, <3>2
  <2>. QED  BY <2>1, <2>2
<1>5. \A k \in 1 .. n + 1 : k \in S
  <2> HIDE DEF S
  <2>. QED  BY <1>3, <1>4, StepByStep
<1>. QED  BY <1>5 DEF a, b

\* The layout of statements of no length puts them all at the origin.
LEMMA FlatLayout ==
  ASSUME NEW n \in Nat, NEW o \in Int, NEW ls \in [1 .. n -> Nat], \A i \in 1 .. n : ls[i] = 0
  PROVE  \A k \in 1 .. n + 1 : Layout(n, o, ls)[k] = o
<1> DEFINE a == Layout(n, o, ls)
           S == {k \in 1 .. n + 1 : a[k] = o}
<1>1. ls \in [1 .. n -> Int]
  OBVIOUS
<1>2. a[1] = o /\ \A i \in 1 .. n : a[i + 1] = a[i] + ls[i]
  BY <1>1, LayoutRecurs
<1> HIDE DEF a
<1>3. 1 \in S /\ \A k \in 1 .. n : k \in S => k + 1 \in S
  BY <1>2
<1>4. \A k \in 1 .. n + 1 : k \in S
  <2> HIDE DEF S
  <2>. QED  BY <1>3, StepByStep
<1>. QED  BY <1>4 DEF a

-----------------------------------------------------------------------------
(***************************************************************************)
(* Statements.                                                             *)
(***************************************************************************)
Conditional == {"jmp", "jcc"}
Targeted == Branches \cup {"riprel", "ref"}

LEMMA StatementFields ==
  ASSUME NEW s \in Statement
  PROVE  /\ s.kind \in {"label", "data"} \cup Targeted
         /\ s.kind \in Targeted => s.to \in Destination
         /\ s.kind \in {"riprel", "ref"} => s.bias \in Int
         /\ s.kind \in {"data", "riprel"} => s.size \in Nat
         /\ s.kind = "ref" => s.forms \in Seq(OperandForm)
<1>1. CASE s \in [kind : {"label"}, name : Labels]
  BY <1>1 DEF Targeted, Branches
<1>2. CASE s \in [kind : {"data"}, size : Nat]
  BY <1>2 DEF Targeted, Branches
<1>3. CASE s \in [kind : Branches, to : Destination]
  BY <1>3 DEF Targeted, Branches
<1>4. CASE s \in [kind : {"riprel"}, to : Destination, bias : Int, size : Nat]
  BY <1>4 DEF Targeted, Branches
<1>5. CASE s \in [kind : {"ref"}, to : Destination, bias : Int, forms : Seq(OperandForm)]
  BY <1>5 DEF Targeted, Branches
<1>. QED  BY <1>1, <1>2, <1>3, <1>4, <1>5 DEF Statement

\* The types of what the loop works on.
Typed ==
  /\ stmts \in Seq(Statement)
  /\ origin \in Nat
  /\ lens \in [DOMAIN stmts -> Nat]
  /\ short \in [DOMAIN stmts -> BOOLEAN]
  /\ round \in Nat

\* The addresses of the current layout.
LEMMA TheLayout ==
  ASSUME Typed
  PROVE  /\ Len(stmts) \in Nat /\ DOMAIN stmts = 1 .. Len(stmts)
         /\ Addresses(lens) = Layout(Len(stmts), origin, lens)
         /\ Addresses(lens) \in [1 .. Len(stmts) + 1 -> Int]
         /\ Addresses(lens)[1] = origin
         /\ \A i \in 1 .. Len(stmts) : Addresses(lens)[i + 1] = Addresses(lens)[i] + lens[i]
<1>1. /\ Len(stmts) \in Nat /\ DOMAIN stmts = 1 .. Len(stmts) /\ origin \in Int
      /\ lens \in [1 .. Len(stmts) -> Int]
  BY DEF Typed
<1>2. Addresses(lens) = Layout(Len(stmts), origin, lens)
  BY DEF Addresses, Layout
<1> DEFINE n == Len(stmts)
           at == Layout(n, origin, lens)
<1> HIDE DEF n
<1>3. at \in [1 .. n + 1 -> Int] /\ at[1] = origin /\ \A i \in 1 .. n : at[i + 1] = at[i] + lens[i]
  <2>1. n \in Nat /\ lens \in [1 .. n -> Int]
    BY <1>1 DEF n
  <2>. QED  BY <1>1, <2>1, LayoutRecurs
<1>. QED  BY <1>1, <1>2, <1>3 DEF n

\* The lengths of each kind of statement.
LEMMA LengthsByKind ==
  ASSUME NEW i, NEW ls, NEW sh
  PROVE  /\ stmts[i].kind = "call" => EmittedLength(i, ls, sh) = 5
         /\ stmts[i].kind = "jmp" =>
              EmittedLength(i, ls, sh) = IF WantShort(i, ls, sh) THEN 2 ELSE 5
         /\ stmts[i].kind = "jcc" =>
              EmittedLength(i, ls, sh) = IF WantShort(i, ls, sh) THEN 2 ELSE 6
         /\ stmts[i].kind = "ref" =>
              EmittedLength(i, ls, sh) = OperandLength(i, Displacement(i, ls))
         /\ stmts[i].kind \in {"data", "riprel"} => EmittedLength(i, ls, sh) = stmts[i].size
         /\ stmts[i].kind = "label" => EmittedLength(i, ls, sh) = 0
<1> DEFINE k == stmts[i].kind
<1>1. /\ k = "call" => k \in Branches
      /\ k = "jmp" => k \in Branches /\ k # "call"
      /\ k = "jcc" => k \in Branches /\ k # "call" /\ k # "jmp"
      /\ k = "ref" => k \notin Branches
      /\ k \in {"data", "riprel"} => k \notin Branches /\ k # "ref"
      /\ k = "label" => k \notin Branches /\ k # "ref" /\ k \notin {"data", "riprel"}
  BY DEF Branches
<1>2. k \in Branches => EmittedLength(i, ls, sh) = BranchLength(i, ls, sh)
  BY <1>1, Zenon DEF EmittedLength
<1>3. CASE k = "call"
  BY <1>1, <1>2, <1>3, Zenon DEF BranchLength
<1>4. CASE k \in {"jmp", "jcc"}
  <2>1. CASE WantShort(i, ls, sh)
    BY <1>1, <1>2, <1>4, <2>1, Zenon DEF BranchLength
  <2>2. CASE ~WantShort(i, ls, sh)
    BY <1>1, <1>2, <1>4, <2>2, Zenon DEF BranchLength
  <2>. QED  BY <1>4, <2>1, <2>2
<1>5. k = "ref" => EmittedLength(i, ls, sh) = OperandLength(i, Displacement(i, ls))
  BY <1>1, Zenon DEF EmittedLength
<1>6. k \in {"data", "riprel"} => EmittedLength(i, ls, sh) = stmts[i].size
  BY <1>1, Zenon DEF EmittedLength
<1>7. k = "label" => EmittedLength(i, ls, sh) = 0
  BY <1>1, Zenon DEF EmittedLength
<1>. QED  BY <1>1, <1>3, <1>4, <1>5, <1>6, <1>7

\* What a statement emits has a length.
LEMMA LengthsAreTyped ==
  ASSUME Typed, ~EmitFails, NEW i \in DOMAIN stmts
  PROVE  EmittedLength(i, lens, short) \in Nat
<1>1. stmts[i] \in Statement
  BY DEF Typed
<1>2. ASSUME stmts[i].kind = "ref"
      PROVE  OperandLength(i, Displacement(i, lens)) \in Nat
  <2> DEFINE v == Displacement(i, lens)
             A == Admitting(i, v)
  <2>1. A # {}
    BY <1>2 DEF EmitFails, OutOfRange, HasTarget
  <2>2. stmts[i].forms \in Seq(OperandForm)
    BY <1>1, <1>2, StatementFields
  <2>3. A \subseteq DOMAIN stmts[i].forms /\ A \in SUBSET Nat
    BY <2>2 DEF Admitting
  <2> HIDE DEF A, v
  <2>4. \E k \in A : \A j \in A : k <= j
    BY <2>1, <2>3, LeastExists
  <2>5. (CHOOSE k \in A : \A j \in A : k <= j) \in A
    BY <2>4
  <2>6. stmts[i].forms[CHOOSE k \in A : \A j \in A : k <= j] \in OperandForm
    <3>1. ASSUME NEW f \in Seq(OperandForm), NEW k \in DOMAIN f
          PROVE  f[k] \in OperandForm
      OBVIOUS
    <3>. QED  BY <2>2, <2>3, <2>5, <3>1
  <2>7. OperandLength(i, v) = stmts[i].forms[CHOOSE k \in A : \A j \in A : k <= j].size
    BY DEF OperandLength, A
  <2>. QED  BY <2>6, <2>7 DEF OperandForm, v
<1>. QED  BY <1>1, <1>2, StatementFields, LengthsByKind DEF Targeted, Branches

\* The types are kept.
LEMMA TypedIsInvariant ==
  /\ Init => Typed
  /\ Typed /\ [Next]_vars => Typed'
<1>1. ASSUME Init
      PROVE  Typed
  BY <1>1 DEF Init, Typed
<1>2. ASSUME Typed, [Next]_vars
      PROVE  Typed'
  <2>1. CASE Relax
    <3>1. NewLengths \in [DOMAIN stmts -> Nat]
      BY <1>2, <2>1, LengthsAreTyped DEF NewLengths, Relax
    <3>2. short' \in [DOMAIN stmts -> BOOLEAN]
      BY <1>2, <2>1 DEF Relax, Typed
    <3>. QED  BY <1>2, <2>1, <3>1, <3>2 DEF Relax, Typed
  <2>2. CASE Settle \/ Fail \/ UNCHANGED vars
    BY <1>2, <2>2 DEF Settle, Fail, vars, Typed
  <2>. QED  BY <1>2, <2>1, <2>2 DEF Next
<1>. QED  BY <1>1, <1>2

-----------------------------------------------------------------------------
(***************************************************************************)
(* Plain programs.  The operators below take the program and the layout as *)
(* arguments, so that a step is a fact about their arguments only.         *)
(***************************************************************************)
Where(p, l) == CHOOSE i \in {j \in DOMAIN p : p[j].kind = "label" /\ p[j].name = l} : TRUE
Plain(p) ==
  \A i \in DOMAIN p : p[i].kind \in Targeted => p[i].to.label /\ p[i].kind # "ref"
Resolved(p) == \A i \in DOMAIN p : p[i].kind \in Targeted => Where(p, p[i].to.name) \in DOMAIN p

\* The displacement of branch i in the layout where it alone has two bytes.
Reach(p, o, ls, i) ==
  LET t == Where(p, p[i].to.name)
      at == Layout(Len(p), o, ls)
  IN  IF t > i THEN at[t] - at[i + 1] ELSE at[t] - at[i] - 2

\* The length of statement s, with or without its short form.
Form(s, sh) ==
  IF s.kind \in Conditional
    THEN IF sh THEN 2 ELSE IF s.kind = "jmp" THEN 5 ELSE 6
    ELSE IF s.kind = "call" THEN 5
    ELSE IF s.kind \in {"data", "riprel"} THEN s.size ELSE 0

Lost(p, sh) == {i \in DOMAIN p : ~sh[i]}

\* What the rounds have reached: nothing yet, or every statement in the form
\* its flag says, and a branch without the flag out of the reach of a byte.
Unstarted(p, ls, sh) == \A i \in DOMAIN p : ls[i] = 0 /\ sh[i]
Underway(p, o, ls, sh) ==
  /\ Resolved(p)
  /\ \A i \in DOMAIN p :
       /\ ls[i] = Form(p[i], sh[i])
       /\ ~sh[i] => p[i].kind \in Conditional /\ ~FitsI8(Reach(p, o, ls, i))

Progress ==
  Plain(stmts) =>
    \/ round = 0 /\ status # "panicked" /\ Unstarted(stmts, lens, short)
    \/ /\ round > 0
       /\ Underway(stmts, origin, lens, short)
       /\ round <= 1 + Cardinality(Lost(stmts, short))
       /\ status = "panicked" => RoundLimit < round /\ round <= Cardinality(Lost(stmts, short))

LEMMA PlainIsPlain == PlainProgram <=> Plain(stmts)
BY DEF PlainProgram, Plain, HasTarget, Targeted

LEMMA LostAreFinite ==
  ASSUME Typed
  PROVE  /\ IsFiniteSet(DOMAIN stmts)
         /\ IsFiniteSet(Lost(stmts, short)) /\ Cardinality(Lost(stmts, short)) \in Nat
<1>1. IsFiniteSet(DOMAIN stmts)
  BY TheLayout, FS_Interval
<1>2. Lost(stmts, short) \subseteq DOMAIN stmts
  BY DEF Lost
<1>3. IsFiniteSet(Lost(stmts, short))
  BY <1>1, <1>2, FS_Subset
<1>. QED  BY <1>1, <1>3, FS_CardinalityType

\* A branch out of the reach of a byte stays out of it when statements grow.
LEMMA ReachGrows ==
  ASSUME NEW p \in Seq(Statement), NEW o \in Int,
         NEW ls \in [DOMAIN p -> Nat], NEW ms \in [DOMAIN p -> Nat],
         \A k \in DOMAIN p : ls[k] <= ms[k],
         NEW i \in DOMAIN p, Where(p, p[i].to.name) \in DOMAIN p,
         ~FitsI8(Reach(p, o, ls, i))
  PROVE  ~FitsI8(Reach(p, o, ms, i))
<1> DEFINE n == Len(p)
           t == Where(p, p[i].to.name)
           a == Layout(n, o, ls)
           b == Layout(n, o, ms)
<1>1. n \in Nat /\ DOMAIN p = 1 .. n
  OBVIOUS
<1>2. /\ Reach(p, o, ls, i) = IF t > i THEN a[t] - a[i + 1] ELSE a[t] - a[i] - 2
      /\ Reach(p, o, ms, i) = IF t > i THEN b[t] - b[i + 1] ELSE b[t] - b[i] - 2
  BY DEF Reach
<1>3. t \in 1 .. n /\ i \in 1 .. n
  BY <1>1
<1> HIDE DEF n, t, a, b
<1>4. ls \in [1 .. n -> Nat] /\ ms \in [1 .. n -> Nat] /\ \A k \in 1 .. n : ls[k] <= ms[k]
  BY <1>1
<1>5. a \in [1 .. n + 1 -> Int] /\ b \in [1 .. n + 1 -> Int]
  <2>1. ls \in [1 .. n -> Int] /\ ms \in [1 .. n -> Int]
    BY <1>4
  <2>. QED  BY <1>1, <2>1, LayoutRecurs DEF a, b
<1>6. \A k \in 1 .. n + 1 : \A j \in 1 .. k : 0 <= a[k] - a[j] /\ a[k] - a[j] <= b[k] - b[j]
  BY <1>1, <1>4, SpansGrow DEF a, b
<1>7. CASE t > i
  <2>0. n \in Nat /\ t \in Int /\ i \in Int /\ 1 <= i /\ i <= n /\ 1 <= t /\ t <= n
    BY <1>1, <1>3
  <2>1. t \in 1 .. n + 1 /\ i + 1 \in 1 .. t /\ i + 1 \in 1 .. n + 1
    <3>1. t <= n + 1 /\ 1 <= i + 1 /\ i + 1 <= t /\ i + 1 <= n + 1 /\ i + 1 \in Int
      BY <1>7, <2>0
    <3>. QED  BY <2>0, <3>1
  <2>2. 0 <= a[t] - a[i + 1] /\ a[t] - a[i + 1] <= b[t] - b[i + 1]
    BY <1>6, <2>1
  <2>3. a[t] \in Int /\ a[i + 1] \in Int /\ b[t] \in Int /\ b[i + 1] \in Int
    BY <1>5, <2>1
  <2> DEFINE x == a[t] - a[i + 1]
             y == b[t] - b[i + 1]
  <2>4. x \in Int /\ y \in Int /\ 0 <= x /\ x <= y
    <3>1. ASSUME NEW u \in Int, NEW v \in Int, NEW w \in Int, NEW z \in Int,
                 0 <= u - v, u - v <= w - z
          PROVE  /\ u - v \in Int /\ w - z \in Int
                 /\ v - u - 2 \in Int /\ z - w - 2 \in Int
                 /\ v - u - 2 <= -2 /\ z - w - 2 <= v - u - 2
      BY <3>1
    <3>. QED  BY <2>2, <2>3, <3>1, Zenon
  <2>5. Reach(p, o, ls, i) = x /\ Reach(p, o, ms, i) = y
    BY <1>2, <1>7
  <2> HIDE DEF x, y
  <2>6. ~FitsI8(x)
    BY <2>5
  <2>7. ~FitsI8(y)
    BY <2>4, <2>6 DEF FitsI8
  <2>. QED  BY <2>5, <2>7
<1>8. CASE ~(t > i)
  <2>1. i \in 1 .. n + 1 /\ t \in 1 .. i /\ t \in 1 .. n + 1
    BY <1>1, <1>3, <1>8
  <2>2. 0 <= a[i] - a[t] /\ a[i] - a[t] <= b[i] - b[t]
    BY <1>6, <2>1
  <2>3. a[t] \in Int /\ a[i] \in Int /\ b[t] \in Int /\ b[i] \in Int
    BY <1>5, <2>1
  <2> DEFINE x == a[t] - a[i] - 2
             y == b[t] - b[i] - 2
  <2>4. x \in Int /\ y \in Int /\ x <= -2 /\ y <= x
    <3>1. ASSUME NEW u \in Int, NEW v \in Int, NEW w \in Int, NEW z \in Int,
                 0 <= u - v, u - v <= w - z
          PROVE  /\ u - v \in Int /\ w - z \in Int
                 /\ v - u - 2 \in Int /\ z - w - 2 \in Int
                 /\ v - u - 2 <= -2 /\ z - w - 2 <= v - u - 2
      BY <3>1
    <3>. QED  BY <2>2, <2>3, <3>1, Zenon
  <2>5. Reach(p, o, ls, i) = x /\ Reach(p, o, ms, i) = y
    BY <1>2, <1>8
  <2> HIDE DEF x, y
  <2>6. ~FitsI8(x)
    BY <2>5
  <2>7. ~FitsI8(y)
    BY <2>4, <2>6 DEF FitsI8
  <2>. QED  BY <2>5, <2>7
<1>. QED  BY <1>7, <1>8

\* The target of a branch of a plain program that can be emitted.
LEMMA PlainTargets ==
  ASSUME Typed, Plain(stmts), ~EmitFails
  PROVE  /\ Resolved(stmts)
         /\ \A i \in DOMAIN stmts :
              stmts[i].kind \in Targeted =>
                Target(i, lens) = Addresses(lens)[Where(stmts, stmts[i].to.name)]
<1> SUFFICES ASSUME NEW i \in DOMAIN stmts, stmts[i].kind \in Targeted
             PROVE  /\ Where(stmts, stmts[i].to.name) \in DOMAIN stmts
                    /\ Target(i, lens) = Addresses(lens)[Where(stmts, stmts[i].to.name)]
  BY DEF Resolved
<1> DEFINE l == stmts[i].to.name
<1>1. stmts[i].to.label
  BY DEF Plain
<1>2. ~UndefinedLabel(i)
  BY DEF EmitFails
<1>3. Definitions(l) # {}
  BY <1>1, <1>2 DEF UndefinedLabel, HasTarget, Targeted
<1>4. Definitions(l) = {j \in DOMAIN stmts : stmts[j].kind = "label" /\ stmts[j].name = l}
  BY DEF Definitions, Defines
<1>5. Where(stmts, l) = CHOOSE j \in Definitions(l) : TRUE
  BY <1>4 DEF Where
<1>6. Where(stmts, l) \in Definitions(l)
  BY <1>3, <1>5
<1>7. Target(i, lens) = Addresses(lens)[Where(stmts, l)]
  BY <1>1, <1>5 DEF Target, LabelValue
<1>. QED  BY <1>4, <1>6, <1>7

\* The displacement of a branch of a plain program, in its layout.
LEMMA BranchDisplacement ==
  ASSUME Typed, NEW i \in DOMAIN stmts, stmts[i].kind \in Branches
  PROVE  Displacement(i, lens) = Target(i, lens) - (Addresses(lens)[i] + Assumed(i, lens))
<1>1. stmts[i].kind # "riprel" /\ stmts[i].kind # "ref"
  BY DEF Branches
<1>. QED  BY <1>1, Zenon DEF Displacement

\* The length a statement of a plain program is given.
LEMMA EmittedForms ==
  ASSUME Typed, Plain(stmts), NEW i \in DOMAIN stmts
  PROVE  /\ EmittedLength(i, lens, short) = Form(stmts[i], WantShort(i, lens, short))
         /\ NewLengths[i] = Form(stmts[i], WantShort(i, lens, short))
<1>1. stmts[i] \in Statement
  BY DEF Typed
<1>2. stmts[i].kind \in {"label", "data", "jmp", "jcc", "call", "riprel"}
  BY <1>1, StatementFields DEF Plain, Targeted, Branches
<1>3. EmittedLength(i, lens, short) = Form(stmts[i], WantShort(i, lens, short))
  BY <1>2, LengthsByKind DEF Form, Conditional
<1>. QED  BY <1>3 DEF NewLengths

\* The flags after a round.
NewShort == [i \in DOMAIN stmts |-> short[i] /\ ~Grew(i)]

\* In the first round every branch is measured as if nothing lay between it and
\* its target, and takes the short form.
LEMMA FirstRound ==
  ASSUME Typed, Plain(stmts), ~EmitFails, Unstarted(stmts, lens, short)
  PROVE  NewShort = short /\ Underway(stmts, origin, NewLengths, NewShort)
<1>1. NewShort = short
  BY DEF NewShort, Grew, Unstarted, Typed
<1>2. Resolved(stmts)
  BY PlainTargets
<1>3. \A k \in 1 .. Len(stmts) + 1 : Addresses(lens)[k] = origin
  <2>1. /\ Len(stmts) \in Nat /\ origin \in Int /\ lens \in [1 .. Len(stmts) -> Nat]
        /\ \A i \in 1 .. Len(stmts) : lens[i] = 0
    BY TheLayout DEF Typed, Unstarted
  <2>2. Addresses(lens) = Layout(Len(stmts), origin, lens)
    BY TheLayout
  <2> DEFINE n == Len(stmts)
  <2> HIDE DEF n
  <2>3. \A k \in 1 .. n + 1 : Layout(n, origin, lens)[k] = origin
    <3>1. n \in Nat /\ origin \in Int /\ lens \in [1 .. n -> Nat] /\ \A i \in 1 .. n : lens[i] = 0
      BY <2>1 DEF n
    <3>. QED  BY <3>1, FlatLayout
  <2>. QED  BY <2>2, <2>3 DEF n
<1>4. ASSUME NEW i \in DOMAIN stmts, stmts[i].kind \in Conditional
      PROVE  WantShort(i, lens, short)
  <2>1. lens[i] = 0 /\ short[i] /\ origin \in Int
    BY DEF Unstarted, Typed
  <2>2. /\ i \in 1 .. Len(stmts) + 1
        /\ Where(stmts, stmts[i].to.name) \in 1 .. Len(stmts) + 1
    <3>1. stmts[i].kind \in Targeted
      BY <1>4 DEF Conditional, Targeted, Branches
    <3>2. Where(stmts, stmts[i].to.name) \in DOMAIN stmts
      BY <1>2, <3>1 DEF Resolved
    <3>. QED  BY <3>2, TheLayout
  <2>3. Target(i, lens) = origin /\ Addresses(lens)[i] = origin
    <3>1. stmts[i].kind \in Targeted
      BY <1>4 DEF Conditional, Targeted, Branches
    <3>. QED  BY <1>3, <2>2, <3>1, PlainTargets
  <2>4. stmts[i].kind # "call" /\ stmts[i].kind \in Branches
    BY <1>4 DEF Conditional, Branches
  <2>5. Assumed(i, lens) = 2
    BY <2>1, <2>4 DEF Assumed
  <2>6. Displacement(i, lens) = -2
    BY <2>1, <2>3, <2>4, <2>5, BranchDisplacement
  <2>. QED  BY <2>1, <2>4, <2>6 DEF WantShort, FitsI8
<1>5. ASSUME NEW i \in DOMAIN stmts
      PROVE  NewLengths[i] = Form(stmts[i], short[i]) /\ short[i]
  <2>1. short[i]
    BY DEF Unstarted
  <2>2. NewLengths[i] = Form(stmts[i], WantShort(i, lens, short))
    BY EmittedForms
  <2>3. CASE stmts[i].kind \in Conditional
    BY <1>4, <2>1, <2>2, <2>3 DEF Form
  <2>4. CASE stmts[i].kind \notin Conditional
    BY <2>1, <2>2, <2>4 DEF Form
  <2>. QED  BY <2>1, <2>3, <2>4
<1>. QED  BY <1>1, <1>2, <1>5 DEF Underway

\* A later round changes the length of a branch only by taking its short form
\* away for good.
LEMMA LaterRound ==
  ASSUME Typed, Plain(stmts), ~EmitFails, Underway(stmts, origin, lens, short)
  PROVE  /\ Underway(stmts, origin, NewLengths, NewShort)
         /\ Lost(stmts, short) \subseteq Lost(stmts, NewShort)
         /\ NewLengths # lens => Lost(stmts, short) # Lost(stmts, NewShort)
<1>1. ASSUME NEW i \in DOMAIN stmts
      PROVE  /\ lens[i] = Form(stmts[i], short[i])
             /\ NewLengths[i] = Form(stmts[i], WantShort(i, lens, short))
             /\ short[i] \in BOOLEAN /\ lens[i] \in Nat
             /\ stmts[i] \in Statement
             /\ stmts[i].kind \in {"data", "riprel"} => stmts[i].size \in Nat
  BY EmittedForms, StatementFields DEF Underway, Typed
<1>2. ASSUME NEW i \in DOMAIN stmts, stmts[i].kind \in Conditional
      PROVE  /\ lens[i] = IF short[i] THEN 2 ELSE IF stmts[i].kind = "jmp" THEN 5 ELSE 6
             /\ NewLengths[i] = IF WantShort(i, lens, short) THEN 2
                                ELSE IF stmts[i].kind = "jmp" THEN 5 ELSE 6
             /\ NewShort[i] <=> WantShort(i, lens, short)
  <2>1. lens[i] = IF short[i] THEN 2 ELSE IF stmts[i].kind = "jmp" THEN 5 ELSE 6
    BY <1>1, <1>2 DEF Form
  <2>2. NewLengths[i] = IF WantShort(i, lens, short) THEN 2
                        ELSE IF stmts[i].kind = "jmp" THEN 5 ELSE 6
    BY <1>1, <1>2 DEF Form
  <2>3. WantShort(i, lens, short) => short[i]
    BY DEF WantShort
  <2>4. Grew(i) <=> short[i] /\ ~WantShort(i, lens, short)
    BY <1>2, <2>1, <2>2, <2>3 DEF Grew, Conditional
  <2>5. NewShort[i] <=> short[i] /\ ~Grew(i)
    BY DEF NewShort
  <2>. QED  BY <2>1, <2>2, <2>3, <2>4, <2>5
<1>3. ASSUME NEW i \in DOMAIN stmts, stmts[i].kind \notin Conditional
      PROVE  NewLengths[i] = lens[i] /\ short[i] /\ NewShort[i] /\ NewLengths[i] = Form(stmts[i], NewShort[i])
  <2>1. short[i]
    BY <1>3 DEF Underway
  <2>2. ~Grew(i)
    BY <1>3 DEF Grew, Conditional
  <2>3. NewShort[i]
    BY <2>1, <2>2 DEF NewShort
  <2>. QED  BY <1>1, <1>3, <2>1, <2>3 DEF Form
<1>4. ASSUME NEW i \in DOMAIN stmts
      PROVE  lens[i] <= NewLengths[i] /\ NewLengths[i] \in Nat
  <2>1. CASE stmts[i].kind \in Conditional
    <3>1. WantShort(i, lens, short) => short[i]
      BY DEF WantShort
    <3>. QED  BY <1>2, <2>1, <3>1
  <2>2. CASE stmts[i].kind \notin Conditional
    BY <1>1, <1>3, <2>2
  <2>. QED  BY <2>1, <2>2
<1>5. Lost(stmts, short) \subseteq Lost(stmts, NewShort)
  <2>1. ASSUME NEW i \in DOMAIN stmts, ~short[i]
        PROVE  ~NewShort[i]
    BY <2>1 DEF NewShort
  <2>. QED  BY <2>1 DEF Lost
<1>6. ASSUME NewLengths # lens
      PROVE  Lost(stmts, short) # Lost(stmts, NewShort)
  <2>1. PICK i \in DOMAIN stmts : NewLengths[i] # lens[i]
    <3>1. NewLengths = [i \in DOMAIN stmts |-> NewLengths[i]] /\ lens = [i \in DOMAIN stmts |-> lens[i]]
      BY DEF NewLengths, Typed
    <3>. QED  BY <1>6, <3>1, Zenon
  <2>2. stmts[i].kind \in Conditional
    BY <1>3, <2>1
  <2>3. short[i] /\ ~NewShort[i]
    <3>1. WantShort(i, lens, short) => short[i]
      BY DEF WantShort
    <3>. QED  BY <1>2, <2>1, <2>2, <3>1
  <2>. QED  BY <2>3 DEF Lost
<1>7. ASSUME NEW i \in DOMAIN stmts, ~NewShort[i]
      PROVE  stmts[i].kind \in Conditional /\ ~FitsI8(Reach(stmts, origin, NewLengths, i))
  <2>1. stmts[i].kind \in Conditional
    BY <1>3, <1>7
  <2>2. Where(stmts, stmts[i].to.name) \in DOMAIN stmts /\ stmts[i].kind \in Targeted
        /\ stmts[i].kind \in Branches /\ stmts[i].kind # "call"
    BY <2>1 DEF Underway, Resolved, Conditional, Targeted, Branches
  <2>3. ~FitsI8(Reach(stmts, origin, lens, i))
    <3>1. CASE ~short[i]
      BY <3>1 DEF Underway
    <3>2. CASE short[i]
      <4>1. lens[i] = 2 /\ ~WantShort(i, lens, short)
        BY <1>2, <1>7, <2>1, <3>2
      <4>2. ~FitsI8(Displacement(i, lens))
        BY <2>2, <3>2, <4>1 DEF WantShort
      <4> DEFINE t == Where(stmts, stmts[i].to.name)
                 a == Addresses(lens)
      <4>3. Displacement(i, lens) = a[t] - (a[i] + 2)
        <5>1. Assumed(i, lens) = 2
          BY <4>1 DEF Assumed
        <5>2. Target(i, lens) = a[t]
          BY <2>2, PlainTargets
        <5>. QED  BY <2>2, <5>1, <5>2, BranchDisplacement
      <4>4. Reach(stmts, origin, lens, i) = IF t > i THEN a[t] - a[i + 1] ELSE a[t] - a[i] - 2
        <5>1. a = Layout(Len(stmts), origin, lens)
          BY TheLayout
        <5>. QED  BY <5>1 DEF Reach
      <4>5. a[t] \in Int /\ a[i] \in Int /\ a[i + 1] = a[i] + 2
        <5>1. i \in 1 .. Len(stmts) + 1 /\ t \in 1 .. Len(stmts) + 1 /\ i \in 1 .. Len(stmts)
          BY <2>2, TheLayout
        <5>2. a[i + 1] = a[i] + lens[i]
          BY <5>1, TheLayout
        <5>. QED  BY <4>1, <5>1, <5>2, TheLayout
      <4> HIDE DEF t, a
      <4>6. Displacement(i, lens) = Reach(stmts, origin, lens, i)
        <5>1. ASSUME NEW x \in Int, NEW y \in Int
              PROVE  x - (y + 2) = x - y - 2
          OBVIOUS
        <5>2. a[t] - (a[i] + 2) = a[t] - a[i] - 2
          BY <4>5, <5>1
        <5>3. CASE t > i
          BY <4>3, <4>4, <4>5, <5>3
        <5>4. CASE ~(t > i)
          BY <4>3, <4>4, <5>2, <5>4
        <5>. QED  BY <5>3, <5>4
      <4>. QED  BY <4>2, <4>6
    <3>. QED  BY <3>1, <3>2
  <2>4. /\ lens \in [DOMAIN stmts -> Nat] /\ NewLengths \in [DOMAIN stmts -> Nat]
        /\ stmts \in Seq(Statement) /\ origin \in Int
    BY <1>4, LengthsAreTyped DEF Typed, NewLengths
  <2>5. ~FitsI8(Reach(stmts, origin, NewLengths, i))
    BY <1>4, <2>2, <2>3, <2>4, ReachGrows
  <2>. QED  BY <2>1, <2>5
<1>8. ASSUME NEW i \in DOMAIN stmts
      PROVE  NewLengths[i] = Form(stmts[i], NewShort[i])
  <2>1. CASE stmts[i].kind \in Conditional
    BY <1>2, <2>1 DEF Form
  <2>2. CASE stmts[i].kind \notin Conditional
    BY <1>3, <2>2
  <2>. QED  BY <2>1, <2>2
<1>9. Resolved(stmts)
  BY DEF Underway
<1>10. Underway(stmts, origin, NewLengths, NewShort)
  BY <1>7, <1>8, <1>9 DEF Underway
<1>. QED  BY <1>5, <1>6, <1>10

\* A round that changes a length is paid for by a branch.
LEMMA RelaxProgresses ==
  ASSUME Typed, Progress, Relax
  PROVE  Progress'
<1> SUFFICES ASSUME Plain(stmts)
             PROVE  \/ round' = 0 /\ status' # "panicked" /\ Unstarted(stmts, lens', short')
                    \/ /\ round' > 0
                       /\ Underway(stmts, origin, lens', short')
                       /\ round' <= 1 + Cardinality(Lost(stmts, short'))
                       /\ status' = "panicked" =>
                            RoundLimit < round' /\ round' <= Cardinality(Lost(stmts, short'))
  BY DEF Relax, Progress
<1>1. /\ ~EmitFails /\ NewLengths # lens /\ lens' = NewLengths /\ short' = NewShort
      /\ \/ round > RoundLimit /\ round' = round
         \/ round <= RoundLimit /\ round' = round + 1 /\ status' # "panicked"
      /\ round \in Nat /\ RoundLimit \in Nat
  BY LimitsAreNaturals DEF Relax, NewShort, Typed
<1>2. CASE round = 0 /\ Unstarted(stmts, lens, short)
  <2>1. short' = short /\ Underway(stmts, origin, lens', short')
    BY <1>1, <1>2, FirstRound
  <2>2. round' = 1 /\ status' # "panicked"
    BY <1>1, <1>2
  <2>3. Cardinality(Lost(stmts, short')) \in Nat
    BY <2>1, LostAreFinite
  <2>. QED  BY <2>1, <2>2, <2>3
<1>3. CASE /\ round > 0
           /\ Underway(stmts, origin, lens, short)
           /\ round <= 1 + Cardinality(Lost(stmts, short))
  <2>1. /\ Underway(stmts, origin, lens', short')
        /\ Lost(stmts, short) \subseteq Lost(stmts, short')
        /\ Lost(stmts, short) # Lost(stmts, short')
    BY <1>1, <1>3, LaterRound
  <2>2. IsFiniteSet(Lost(stmts, short'))
    <3>1. Lost(stmts, short') \subseteq DOMAIN stmts
      BY DEF Lost
    <3>. QED  BY <3>1, LostAreFinite, FS_Subset
  <2>3. /\ Cardinality(Lost(stmts, short)) < Cardinality(Lost(stmts, short'))
        /\ Cardinality(Lost(stmts, short')) \in Nat
        /\ Cardinality(Lost(stmts, short)) \in Nat
    <3>1. Cardinality(Lost(stmts, short)) \in Nat /\ Cardinality(Lost(stmts, short')) \in Nat
      BY <2>2, LostAreFinite, FS_CardinalityType
    <3>2. /\ Cardinality(Lost(stmts, short)) <= Cardinality(Lost(stmts, short'))
          /\ Cardinality(Lost(stmts, short)) = Cardinality(Lost(stmts, short'))
               => Lost(stmts, short) = Lost(stmts, short')
      BY <2>1, <2>2, FS_Subset
    <3>. QED  BY <2>1, <3>1, <3>2
  <2>4. round' > 0 /\ round' <= round + 1
    BY <1>1, <1>3
  <2>5. round' \in Nat /\ round' <= 1 + Cardinality(Lost(stmts, short'))
    BY <1>1, <1>3, <2>3, <2>4
  <2>6. status' = "panicked" =>
          RoundLimit < round' /\ round' <= Cardinality(Lost(stmts, short'))
    BY <1>1, <1>3, <2>3
  <2>. QED  BY <2>1, <2>4, <2>5, <2>6
<1>. QED  BY <1>2, <1>3 DEF Progress

LEMMA ProgressIsInvariant ==
  /\ Init => Progress
  /\ Typed /\ Progress /\ [Next]_vars => Progress'
<1>1. Init => Progress
  BY DEF Init, Progress, Unstarted
<1>2. ASSUME Typed, Progress, Settle \/ Fail \/ UNCHANGED vars
      PROVE  Progress'
  <2>1. /\ stmts' = stmts /\ origin' = origin /\ lens' = lens /\ short' = short /\ round' = round
        /\ status' = "panicked" => status = "panicked"
    BY <1>2 DEF Settle, Fail, vars
  <2>. QED  BY <1>2, <2>1 DEF Progress
<1>3. Typed /\ Progress /\ [Next]_vars => Progress'
  BY <1>2, RelaxProgresses DEF Next
<1>. QED  BY <1>1, <1>3

\* The branches that have lost their short form are jumps of the program.
LEMMA LostAreJumps ==
  ASSUME Typed, Underway(stmts, origin, lens, short)
  PROVE  /\ Cardinality(Jumps) \in Nat
         /\ Cardinality(Lost(stmts, short)) <= Cardinality(Jumps)
<1>1. Lost(stmts, short) \subseteq Jumps /\ Jumps \subseteq DOMAIN stmts
  BY DEF Underway, Lost, Jumps, Conditional
<1>2. IsFiniteSet(Jumps)
  BY <1>1, LostAreFinite, FS_Subset
<1>. QED  BY <1>1, <1>2, FS_Subset, FS_CardinalityType

\* Every round after the first is paid for by a branch that lost its short
\* form, so the jumps of a plain program bound the rounds of the loop.
THEOREM RoundsAreBounded == Spec => []RoundsArePaidFor
<1>1. Typed /\ Progress => RoundsArePaidFor
  <2> SUFFICES ASSUME Typed, Progress, Plain(stmts)
               PROVE  round <= 1 + Cardinality(Jumps)
    BY PlainIsPlain DEF RoundsArePaidFor
  <2>1. CASE round = 0
    <3>1. Jumps \subseteq DOMAIN stmts
      BY DEF Jumps
    <3>2. Cardinality(Jumps) \in Nat
      BY <3>1, LostAreFinite, FS_Subset, FS_CardinalityType
    <3>. QED  BY <2>1, <3>2
  <2>2. CASE round > 0
    <3>1. Underway(stmts, origin, lens, short) /\ round <= 1 + Cardinality(Lost(stmts, short))
      BY <2>2 DEF Progress, Typed
    <3>2. Cardinality(Lost(stmts, short)) \in Nat /\ round \in Nat
      BY LostAreFinite DEF Typed
    <3>. QED  BY <3>1, <3>2, LostAreJumps
  <2>. QED  BY <2>1, <2>2 DEF Typed
<1>2. Spec => [][Next]_vars
  BY PTL DEF Spec
<1>. QED  BY <1>1, <1>2, TypedIsInvariant, ProgressIsInvariant, PTL DEF Spec

\* A plain program with no more jumps than the loop has rounds is never met by
\* the panic that guards the loop: for such programs the claim of asm.rs:695 is
\* right.
THEOREM FewJumpsNeverPanic ==
  Spec => [](PlainProgram /\ Cardinality(Jumps) <= RoundLimit => NeverPanics)
<1>1. Typed /\ Progress => (PlainProgram /\ Cardinality(Jumps) <= RoundLimit => NeverPanics)
  <2> SUFFICES ASSUME Typed, Progress, Plain(stmts), status = "panicked"
               PROVE  RoundLimit < Cardinality(Jumps)
    <3>1. ASSUME Typed, Progress, PlainProgram, Cardinality(Jumps) <= RoundLimit,
                 ~NeverPanics
          PROVE  FALSE
      <4>1. RoundLimit < Cardinality(Jumps)
        BY <3>1, PlainIsPlain DEF NeverPanics
      <4>2. Cardinality(Jumps) \in Nat
        BY <3>1, LostAreFinite, FS_Subset, FS_CardinalityType DEF Jumps
      <4>. QED  BY <3>1, <4>1, <4>2, LimitsAreNaturals
    <3>. QED  BY <3>1
  <2>1. /\ Underway(stmts, origin, lens, short)
        /\ RoundLimit < round /\ round <= Cardinality(Lost(stmts, short))
    BY DEF Progress
  <2>2. Cardinality(Lost(stmts, short)) \in Nat /\ round \in Nat
    BY LostAreFinite DEF Typed
  <2>. QED  BY <2>1, <2>2, LostAreJumps, LimitsAreNaturals
<1>2. Spec => [][Next]_vars
  BY PTL DEF Spec
<1>. QED  BY <1>1, <1>2, TypedIsInvariant, ProgressIsInvariant, PTL DEF Spec

-----------------------------------------------------------------------------
(***************************************************************************)
(* The settled program.                                                    *)
(***************************************************************************)
\* Once settled, another round would change nothing, and the lines are those
\* of the layout the loop ended with.
Settled ==
  status = "settled" =>
    /\ \A i \in DOMAIN stmts : ~UndefinedLabel(i)
    /\ NewLengths = lens
    /\ lines = [i \in DOMAIN stmts |-> Line(i)]

\* What the loop computes is a function of the program, its origin, the lengths
\* and the flags.
LEMMA SameProgram ==
  ASSUME stmts' = stmts, origin' = origin, lens' = lens, short' = short
  PROVE  /\ \A i : UndefinedLabel(i)' <=> UndefinedLabel(i)
         /\ NewLengths' = NewLengths
         /\ \A i : Line(i)' = Line(i)
<1>1. Addresses(lens)' = Addresses(lens)
  BY DEF Addresses
<1>2. \A l : Definitions(l)' = Definitions(l)
  BY DEF Definitions, Defines
<1>3. ASSUME NEW i
      PROVE  UndefinedLabel(i)' <=> UndefinedLabel(i)
  BY <1>2 DEF UndefinedLabel, HasTarget
<1>4. ASSUME NEW i
      PROVE  Target(i, lens)' = Target(i, lens)
  <2>1. ASSUME NEW l
        PROVE  LabelValue(l, lens)' = LabelValue(l, lens)
    <3>1. (CHOOSE j \in Definitions(l) : TRUE)' = CHOOSE j \in Definitions(l) : TRUE
      BY <1>2
    <3>. QED  BY <1>1, <3>1, Zenon DEF LabelValue
  <2>. QED  BY <2>1, Zenon DEF Target
<1>5. ASSUME NEW i
      PROVE  Assumed(i, lens)' = Assumed(i, lens)
  BY DEF Assumed
<1>6. ASSUME NEW i
      PROVE  Displacement(i, lens)' = Displacement(i, lens)
  BY <1>1, <1>4, <1>5, Zenon DEF Displacement
<1>7. ASSUME NEW i
      PROVE  WantShort(i, lens, short)' <=> WantShort(i, lens, short)
  BY <1>6, Zenon DEF WantShort
<1>8. ASSUME NEW i
      PROVE  BranchLength(i, lens, short)' = BranchLength(i, lens, short)
  BY <1>7, Zenon DEF BranchLength
<1>9. ASSUME NEW i
      PROVE  OperandLength(i, Displacement(i, lens))' = OperandLength(i, Displacement(i, lens))
  BY <1>6, Zenon DEF OperandLength, Admitting
<1>10. ASSUME NEW i
       PROVE  EmittedLength(i, lens, short)' = EmittedLength(i, lens, short)
  BY <1>8, <1>9, Zenon DEF EmittedLength
<1>11. NewLengths' = NewLengths
  BY <1>10, Zenon DEF NewLengths
<1>12. ASSUME NEW i
       PROVE  Line(i)' = Line(i)
  <2>1. Written(i, lens)' = Written(i, lens)
    BY <1>6, Zenon DEF Written, AsI32
  <2>. QED  BY <1>1, <1>10, <2>1, Zenon DEF Line
<1>. QED  BY <1>3, <1>11, <1>12

LEMMA SettledIsInvariant ==
  /\ Init => Settled
  /\ Settled /\ [Next]_vars => Settled'
<1>1. Init => Settled
  BY DEF Init, Settled
<1>2. ASSUME Relax \/ Fail
      PROVE  Settled'
  BY <1>2 DEF Relax, Fail, Settled
<1>3. ASSUME Settle
      PROVE  Settled'
  <2>1. /\ \A i : UndefinedLabel(i)' <=> UndefinedLabel(i)
        /\ NewLengths' = NewLengths
        /\ \A i : Line(i)' = Line(i)
    BY <1>3, SameProgram DEF Settle
  <2>2. \A i \in DOMAIN stmts : ~UndefinedLabel(i)
    BY <1>3 DEF Settle, EmitFails
  <2>. QED  BY <1>3, <2>1, <2>2 DEF Settle, Settled
<1>4. ASSUME Settled, UNCHANGED vars
      PROVE  Settled'
  <2>1. /\ \A i : UndefinedLabel(i)' <=> UndefinedLabel(i)
        /\ NewLengths' = NewLengths
        /\ \A i : Line(i)' = Line(i)
    BY <1>4, SameProgram DEF vars
  <2>. QED  BY <1>4, <2>1 DEF vars, Settled
<1>. QED  BY <1>1, <1>2, <1>3, <1>4 DEF Next

\* What a statement refers to is an address.
LEMMA TargetsAreAddresses ==
  ASSUME Typed, NEW i \in DOMAIN stmts, stmts[i].kind \in Targeted, ~UndefinedLabel(i)
  PROVE  Target(i, lens) \in Int
<1>1. stmts[i].to \in Destination
  BY StatementFields DEF Typed
<1>2. CASE stmts[i].to.label
  <2> DEFINE D == Definitions(stmts[i].to.name)
  <2>1. D # {} /\ D \subseteq DOMAIN stmts
    BY <1>2 DEF UndefinedLabel, HasTarget, Targeted, Definitions
  <2>2. (CHOOSE j \in D : TRUE) \in 1 .. Len(stmts) + 1
    <3>1. (CHOOSE j \in D : TRUE) \in D
      BY <2>1
    <3>. QED  BY <2>1, <3>1, TheLayout
  <2>. QED  BY <1>2, <2>2, TheLayout DEF Target, LabelValue
<1>3. CASE ~stmts[i].to.label
  BY <1>1, <1>3 DEF Target, Destination
<1>. QED  BY <1>2, <1>3

\* Every emitted line of a settled program.
LEMMA SettledLine ==
  ASSUME Typed, Settled, status = "settled", NEW i \in DOMAIN stmts
  PROVE  /\ lines[i].address = Addresses(lens)[i]
         /\ lines[i].length = lens[i] /\ lens[i] = EmittedLength(i, lens, short)
         /\ lines[i].disp = Written(i, lens)
         /\ stmts[i].kind # "riprel" => lines[i].disp = Displacement(i, lens)
<1>1. lines[i] = Line(i) /\ NewLengths = lens
  BY DEF Settled
<1>. QED  BY <1>1 DEF Line, NewLengths, Written

\* A branch that was emitted has a length, and is measured with it.
LEMMA SettledBranch ==
  ASSUME Typed, Settled, status = "settled", NEW i \in DOMAIN stmts, stmts[i].kind \in Branches
  PROVE  /\ lens[i] \in {2, 5, 6} /\ Assumed(i, lens) = lens[i]
         /\ lines[i].disp = Displacement(i, lens)
<1>1. lens[i] \in {2, 5, 6}
  BY SettledLine, LengthsByKind DEF Branches
<1>2. stmts[i].kind # "riprel"
  BY DEF Branches
<1>. QED  BY <1>1, <1>2, SettledLine DEF Assumed

\* A product is at least as large as a positive factor of it.
LEMMA MultiplesGrow ==
  ASSUME NEW m \in Nat \ {0}, NEW d \in Int, d >= 1
  PROVE  m * d \in Int /\ m * d >= m
<1> DEFINE e == d - 1
<1>1. e \in Nat /\ d = e + 1
  OBVIOUS
<1>2. m * e >= 0 /\ m * e \in Int
  BY <1>1
<1>3. m * d = m * e + m
  BY <1>1
<1>. QED  BY <1>2, <1>3

\* There is one quotient and one remainder.
LEMMA DivisionIsUnique ==
  ASSUME NEW m \in Nat \ {0}, NEW q \in Int, NEW p \in Int,
         NEW r \in Nat, NEW s \in Nat, r < m, s < m, m * q + r = m * p + s
  PROVE  q = p /\ r = s
<1>1. ASSUME NEW x \in Int, NEW y \in Int, NEW u \in Nat, NEW v \in Nat, u < m, v < m,
             m * x + u = m * y + v, x > y
      PROVE  FALSE
  <2>1. x - y \in Int /\ x - y >= 1
    BY <1>1
  <2>2. m * (x - y) >= m
    BY <2>1, MultiplesGrow
  <2>3. m * (x - y) = m * x - m * y
    BY <1>1
  <2> DEFINE mx == m * x
             my == m * y
  <2>4. mx \in Int /\ my \in Int /\ mx - my >= m /\ mx + u = my + v
    BY <1>1, <2>2, <2>3
  <2> HIDE DEF mx, my
  <2>. QED  BY <1>1, <2>4
<1>2. ~(q > p) /\ ~(p > q)
  BY <1>1
<1>3. q = p
  BY <1>2
<1>4. r = s
  <2> DEFINE mq == m * q
  <2>1. mq \in Int /\ mq + r = mq + s
    BY <1>3
  <2> HIDE DEF mq
  <2>. QED  BY <2>1
<1>. QED  BY <1>3, <1>4

\* So what is a quotient and a remainder is what \div and % say.
LEMMA DivModAre ==
  ASSUME NEW m \in Nat \ {0}, NEW v \in Int, NEW q \in Int, NEW r \in Nat, r < m,
         v = m * q + r
  PROVE  v \div m = q /\ v % m = r
<1> DEFINE p == v \div m
           s == v % m
<1>1. p \in Int /\ s \in Nat /\ s < m /\ v = m * p + s
  <2>1. p \in Int /\ s \in Int /\ 0 <= s /\ s < m
    OBVIOUS
  <2>2. v = m * p + s
    OBVIOUS
  <2>. QED  BY <2>1, <2>2
<1> HIDE DEF p, s
<1>2. m * q + r = m * p + s
  BY <1>1
<1>3. q = p /\ r = s
  BY <1>1, <1>2, DivisionIsUnique
<1>. QED  BY <1>3 DEF p, s

\* What `as i32` keeps of a displacement: all of one that fits, and any other but
\* for a multiple of 2^32.
LEMMA WhatAsI32Keeps ==
  ASSUME NEW v \in Int
  PROVE  /\ AsI32(v) \in Int
         /\ FitsI32(v) => AsI32(v) = v
         /\ (AsI32(v) - v) % Span32 = 0
<1> DEFINE m == Span32
           h == MaxDisp32 + 1
           q == (v + h) \div m
           r == (v + h) % m
<1>1. m \in Nat \ {0} /\ h \in Nat /\ m = h + h
  BY DEF Span32
<1>2. AsI32(v) = r - h
  BY DEF AsI32
<1>3. FitsI32(v) => 0 <= v + h /\ v + h < m
  BY DEF FitsI32, Span32
<1> HIDE DEF m, h
<1>4. q \in Int /\ r \in Nat /\ v + h \in Int /\ v + h = m * q + r
  BY <1>1
<1>5. FitsI32(v) => r = v + h
  <2>1. ASSUME 0 <= v + h, v + h < m
        PROVE  (v + h) % m = v + h
    <3>1. v + h \in Nat /\ v + h = m * 0 + (v + h)
      BY <1>1, <2>1
    <3>. QED  BY <1>1, <2>1, <3>1, DivModAre
  <2>. QED  BY <1>3, <2>1
<1> HIDE DEF q, r
<1>6. m * (-q) \in Int /\ m * (-q) = -(m * q) /\ m * (-q) = m * (-q) + 0 /\ -q \in Int
  BY <1>1, <1>4
<1>7. AsI32(v) - v = m * (-q)
  <2> DEFINE mq == m * q
  <2>1. mq \in Int /\ v + h = mq + r
    BY <1>1, <1>4
  <2> HIDE DEF mq
  <2>2. r - h - v = -mq
    BY <1>1, <1>4, <2>1
  <2>. QED  BY <1>2, <1>6, <2>2 DEF mq
<1>8. (m * (-q)) % m = 0
  <2> DEFINE w == m * (-q)
  <2>1. w \in Int /\ w = m * (-q) + 0
    BY <1>6
  <2> HIDE DEF w
  <2>2. w % m = 0
    BY <1>1, <1>6, <2>1, DivModAre
  <2>. QED  BY <2>2 DEF w
<1>. QED  BY <1>1, <1>2, <1>4, <1>5, <1>7, <1>8 DEF m

\* Whatever the program, its origin and the order in which the lengths settled:
\* the statements lie end to end from the origin; every branch, measured from the
\* end of its own encoding, reaches its target; and so does every rip-relative
\* operand whose target is in reach of its 32 bits, any other missing it by a
\* multiple of 2^32.
THEOREM BranchesAlwaysLand == Spec => []BranchesLand
<1>1. Typed /\ Settled => BranchesLand
  <2> SUFFICES ASSUME Typed, Settled, status = "settled", NEW i \in DOMAIN stmts
               PROVE  /\ lines[i].address = Start(i)
                      /\ stmts[i].kind \in Branches => Reached(i) = Target(i, lens)
                      /\ stmts[i].kind = "riprel" =>
                           LET aim == Target(i, lens) + stmts[i].bias IN
                           /\ FitsI32(aim - End(i)) => Reached(i) = aim
                           /\ (Reached(i) - aim) % Span32 = 0
    BY DEF BranchesLand
  <2>1. /\ Len(stmts) \in Nat /\ i \in 1 .. Len(stmts)
        /\ Addresses(lens)[i] \in Int /\ lens[i] \in Nat
    BY TheLayout DEF Typed
  <2>2. lines[i].address = Start(i)
    <3>1. CASE i = 1
      BY <3>1, SettledLine, TheLayout DEF Start
    <3>2. CASE i # 1
      <4>1. i - 1 \in 1 .. Len(stmts) /\ i - 1 + 1 = i /\ i - 1 \in DOMAIN stmts
        BY <2>1, <3>2
      <4>2. Start(i) = Addresses(lens)[i - 1] + lens[i - 1]
        BY <3>2, <4>1, SettledLine DEF Start
      <4>. QED  BY <4>1, <4>2, SettledLine, TheLayout
    <3>. QED  BY <3>1, <3>2
  <2>3. stmts[i].kind \in Targeted => Target(i, lens) \in Int
    BY TargetsAreAddresses DEF Settled
  <2>4. End(i) = Addresses(lens)[i] + lens[i] /\ End(i) \in Int
    BY <2>1, SettledLine DEF End
  <2>5. ASSUME stmts[i].kind \in Branches
        PROVE  Reached(i) = Target(i, lens)
    <3>1. lines[i].disp = Target(i, lens) - End(i)
      BY <2>4, <2>5, BranchDisplacement, SettledBranch
    <3>2. Target(i, lens) \in Int
      BY <2>3, <2>5 DEF Targeted
    <3>3. \A e, t \in Int : e + (t - e) = t
      OBVIOUS
    <3>. QED  BY <2>4, <3>1, <3>2, <3>3 DEF Reached
  <2>6. ASSUME stmts[i].kind = "riprel"
        PROVE  LET aim == Target(i, lens) + stmts[i].bias IN
               /\ FitsI32(aim - End(i)) => Reached(i) = aim
               /\ (Reached(i) - aim) % Span32 = 0
    <3> DEFINE aim == Target(i, lens) + stmts[i].bias
               e == End(i)
    <3>1. stmts[i].kind \notin Branches /\ stmts[i].kind # "ref" /\ stmts[i].kind \in Targeted
      BY <2>6 DEF Branches, Targeted
    <3>2. Displacement(i, lens) = aim - e
      <4>1. Displacement(i, lens)
              = Target(i, lens) + stmts[i].bias - (Addresses(lens)[i] + lens[i])
        BY <2>6, <3>1, Zenon DEF Displacement
      <4>2. Target(i, lens) \in Int /\ stmts[i].bias \in Int
        BY <2>3, <2>6, <3>1, StatementFields DEF Typed
      <4>3. \A t, b, x \in Int : t + b - x = (t + b) - x
        OBVIOUS
      <4>. QED  BY <2>4, <4>1, <4>2, <4>3
    <3>3. aim \in Int /\ e \in Int
      BY <2>3, <2>4, <2>6, <3>1, StatementFields DEF Typed
    <3>4. Reached(i) = e + AsI32(aim - e)
      BY <2>6, <3>2, SettledLine, Zenon DEF Reached, Written
    <3> HIDE DEF aim, e
    <3>5. ASSUME NEW x \in Int
          PROVE  /\ (e + x) - aim = x - (aim - e)
                 /\ x = aim - e => e + x = aim
      BY <3>3
    <3>6. /\ aim - e \in Int /\ AsI32(aim - e) \in Int
          /\ FitsI32(aim - e) => AsI32(aim - e) = aim - e
          /\ (AsI32(aim - e) - (aim - e)) % Span32 = 0
      BY <3>3, WhatAsI32Keeps
    <3>7. FitsI32(aim - e) => Reached(i) = aim
      BY <3>4, <3>5, <3>6
    <3>8. Reached(i) - aim = AsI32(aim - e) - (aim - e)
      <4>1. (e + AsI32(aim - e)) - aim = AsI32(aim - e) - (aim - e)
        BY <3>5, <3>6
      <4>. QED  BY <3>4, <4>1
    <3>9. (Reached(i) - aim) % Span32 = 0
      BY <3>6, <3>8, Zenon
    <3>. QED  BY <3>7, <3>9 DEF aim, e
  <2>. QED  BY <2>2, <2>5, <2>6
<1>2. Spec => [][Next]_vars
  BY PTL DEF Spec
<1>. QED  BY <1>1, <1>2, TypedIsInvariant, SettledIsInvariant, PTL DEF Spec

\* The layout of a plain program is the best one: a short branch reaches its
\* target, and no long branch would in the layout where it alone is shortened.
THEOREM FormsAreShortest == Spec => []ShortestForms
<1>1. Typed /\ Settled /\ Progress => ShortestForms
  <2> SUFFICES ASSUME Typed, Settled, Progress, status = "settled", PlainProgram,
                      NEW i \in DOMAIN stmts, stmts[i].kind \in {"jmp", "jcc"}
               PROVE  /\ ShortFits(i)
                      /\ lines[i].length > 2 => ~FitsI8(Shortened(i))
    BY DEF ShortestForms
  <2> DEFINE long == IF stmts[i].kind = "jmp" THEN 5 ELSE 6
             t == Where(stmts, stmts[i].to.name)
             a == Addresses(lens)
  <2>1. /\ stmts[i].kind \in Branches /\ stmts[i].kind \in Targeted
        /\ stmts[i].kind # "call" /\ stmts[i].kind \in Conditional
    BY DEF Branches, Targeted, Conditional
  <2>2. lens[i] = IF WantShort(i, lens, short) THEN 2 ELSE long
    BY <2>1, SettledLine, LengthsByKind
  <2>3. ShortFits(i)
    BY <2>1, <2>2, SettledLine, SettledBranch DEF ShortFits, WantShort
  <2>4. ASSUME lines[i].length > 2
        PROVE  ~FitsI8(Shortened(i))
    <3>1. lens[i] # 0 /\ lens[i] # 2 /\ lens[i] \in {5, 6} /\ lines[i].length = lens[i]
      BY <2>2, <2>4, SettledLine
    <3>2. Underway(stmts, origin, lens, short)
      BY <3>1, PlainIsPlain DEF Progress, Unstarted
    <3>3. ~short[i]
      BY <2>1, <3>1, <3>2 DEF Underway, Form
    <3>4. ~FitsI8(Reach(stmts, origin, lens, i))
      BY <3>2, <3>3 DEF Underway
    <3>5. t \in DOMAIN stmts /\ Target(i, lens) = a[t]
      <4>1. stmts[i].to.label
        BY <2>1, PlainIsPlain DEF Plain
      <4>2. t = CHOOSE j \in Definitions(stmts[i].to.name) : TRUE
        BY DEF Where, Definitions, Defines
      <4>3. Target(i, lens) = a[t]
        BY <4>1, <4>2 DEF Target, LabelValue
      <4>. QED  BY <2>1, <3>2, <4>3 DEF Underway, Resolved
    <3>6. lines[i].disp = a[t] - (a[i] + lens[i])
      BY <2>1, <3>5, SettledLine, BranchDisplacement, SettledBranch
    <3>7. Reach(stmts, origin, lens, i) = IF t > i THEN a[t] - a[i + 1] ELSE a[t] - a[i] - 2
      <4>1. a = Layout(Len(stmts), origin, lens)
        BY TheLayout
      <4>. QED  BY <4>1 DEF Reach
    <3>8. /\ a[t] \in Int /\ a[i] \in Int /\ a[i + 1] = a[i] + lens[i]
          /\ t > i => a[i + 1] <= a[t]
          /\ ~(t > i) => a[t] <= a[i]
      <4> DEFINE n == Len(stmts)
      <4>1. n \in Nat /\ t \in 1 .. n /\ i \in 1 .. n
        BY <3>5, TheLayout
      <4>2. a \in [1 .. n + 1 -> Int] /\ a[i + 1] = a[i] + lens[i]
        BY <4>1, TheLayout
      <4>3. a = Layout(n, origin, lens) /\ lens \in [1 .. n -> Nat] /\ origin \in Int
        BY TheLayout DEF Typed
      <4> HIDE DEF n, a, t
      <4>4. \A k \in 1 .. n + 1 : \A j \in 1 .. k : 0 <= a[k] - a[j]
        <5>1. \A k \in 1 .. n : lens[k] <= lens[k]
          BY <4>3
        <5>2. \A k \in 1 .. n + 1 : \A j \in 1 .. k :
                0 <= Layout(n, origin, lens)[k] - Layout(n, origin, lens)[j]
          BY <4>1, <4>3, <5>1, SpansGrow
        <5>. QED  BY <4>3, <5>2
      <4>5. t \in Int /\ i \in Int /\ 1 <= i /\ i <= n /\ 1 <= t /\ t <= n
        BY <4>1
      <4>6. a[t] \in Int /\ a[i] \in Int /\ a[i + 1] \in Int
        BY <4>1, <4>2, <4>5
      <4>7. \A x, y \in Int : 0 <= x - y => y <= x
        OBVIOUS
      <4>8. ASSUME t > i
            PROVE  a[i + 1] <= a[t]
        <5>1. t \in 1 .. n + 1 /\ i + 1 \in 1 .. t
          BY <4>1, <4>5, <4>8
        <5>2. 0 <= a[t] - a[i + 1]
          BY <4>4, <5>1
        <5>. QED  BY <4>6, <4>7, <5>2
      <4>9. ASSUME ~(t > i)
            PROVE  a[t] <= a[i]
        <5>1. i \in 1 .. n + 1 /\ t \in 1 .. i
          BY <4>1, <4>5, <4>9
        <5>2. 0 <= a[i] - a[t]
          BY <4>4, <5>1
        <5>. QED  BY <4>6, <4>7, <5>2
      <4>. QED  BY <4>2, <4>6, <4>8, <4>9
    <3> HIDE DEF t, a
    <3>9. lines[i].disp + lens[i] - 2 = a[t] - a[i] - 2
      <4>1. \A x, y, z \in Int : x - (y + z) + z - 2 = x - y - 2
        OBVIOUS
      <4>2. a[t] \in Int /\ a[i] \in Int /\ lens[i] \in Int
        BY <3>1, <3>8
      <4>3. (a[t] - (a[i] + lens[i])) + lens[i] - 2 = a[t] - a[i] - 2
        BY <4>1, <4>2, Zenon
      <4>. QED  BY <3>6, <4>3
    <3>10. Shortened(i) = Reach(stmts, origin, lens, i)
      <4>1. CASE t > i
        <5>1. lines[i].disp = a[t] - a[i + 1]
          BY <3>6, <3>8
        <5>2. \A x, y \in Int : y <= x => x - y >= 0
          OBVIOUS
        <5>3. lines[i].disp >= 0
          BY <3>1, <3>8, <4>1, <5>1, <5>2
        <5>. QED  BY <3>7, <4>1, <5>1, <5>3 DEF Shortened
      <4>2. CASE ~(t > i)
        <5>1. \A x, y \in Int, z \in {5, 6} : x <= y => ~(x - (y + z) >= 0)
          OBVIOUS
        <5>2. ~(lines[i].disp >= 0)
          BY <3>1, <3>6, <3>8, <4>2, <5>1
        <5>. QED  BY <3>1, <3>7, <3>9, <4>2, <5>2 DEF Shortened
      <4>. QED  BY <4>1, <4>2
    <3>. QED  BY <3>4, <3>10
  <2>. QED  BY <2>3, <2>4
<1>2. Spec => [][Next]_vars
  BY PTL DEF Spec
<1>. QED  BY <1>1, <1>2, TypedIsInvariant, SettledIsInvariant, ProgressIsInvariant, PTL DEF Spec
=============================================================================
