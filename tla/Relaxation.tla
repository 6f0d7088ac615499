----------------------------- MODULE Relaxation -----------------------------
(***************************************************************************)
(* Layout and branch relaxation of the assembler, `layout` in              *)
(* crates/asm-core/src/asm.rs.                                             *)
(*                                                                         *)
(* A program is a sequence of statements.  Every round lays the program    *)
(* out with the statement lengths of the round before, emits every         *)
(* statement again, and stops when no length has changed.  A `jmp` or      *)
(* `jcc` that is seen to grow loses its `short` flag for good.             *)
(*                                                                         *)
(* The code keeps labels out of the vectors `lens` and `short`; here a     *)
(* label is a statement like the others that emits nothing, so that one    *)
(* index names a statement everywhere.                                     *)
(***************************************************************************)
EXTENDS Integers, Sequences, FiniteSets

CONSTANTS
  Programs,     \* the statement sequences handed to `layout`
  Origins,      \* the addresses a program can be assembled for
  Labels,       \* label names
  RoundLimit,   \* the loop gives up in a round above this one (64)
  MaxDisp32     \* largest 32-bit displacement (2^31 - 1)

(***************************************************************************)
(* Statements.  Only what decides a length is kept of an instruction:      *)
(*   label   a label definition                                            *)
(*   data    `size` bytes that depend on nothing (db, or any instruction   *)
(*           without a label)                                              *)
(*   jmp, jcc, call   a relative branch to a label or to an absolute       *)
(*           address                                                       *)
(*   riprel  an instruction of `size` bytes with a `[rip + label + bias]`  *)
(*           operand, of whose displacement 32 bits are written            *)
(*   ref     an instruction whose immediate or displacement is the value   *)
(*           `label + bias` itself; it takes the first of its forms that   *)
(*           admits the value (no displacement, a byte, four; a byte or    *)
(*           four of an immediate; `mov` or `movabs`)                      *)
(***************************************************************************)
Branches == {"jmp", "jcc", "call"}

ToLabel(l) == [label |-> TRUE, name |-> l, addr |-> 0]
ToAddress(a) == [label |-> FALSE, name |-> CHOOSE l \in Labels : TRUE, addr |-> a]
Destination == [label : BOOLEAN, name : Labels, addr : Int]

\* A form of an instruction: the values it admits, and its length.
OperandForm == [low : Int, high : Int, size : Nat]

Statement ==
       [kind : {"label"}, name : Labels]
  \cup [kind : {"data"}, size : Nat]
  \cup [kind : Branches, to : Destination]
  \cup [kind : {"riprel"}, to : Destination, bias : Int, size : Nat]
  \cup [kind : {"ref"}, to : Destination, bias : Int, forms : Seq(OperandForm)]

ASSUME ProgramsAreStatements == Programs \subseteq Seq(Statement)
ASSUME OriginsAreAddresses == Origins \subseteq Nat
ASSUME LabelsExist == Labels # {}
ASSUME LimitsAreNaturals == RoundLimit \in Nat /\ MaxDisp32 \in Nat

VARIABLES
  stmts,    \* the program
  origin,   \* the address of its first byte
  lens,     \* lens[i]: the length statement i had in the previous round
  short,    \* short[i]: statement i may still use its short form
  round,    \* the loop counter
  status,   \* "relaxing", then "settled", "failed" (an AsmError) or "panicked"
  lines     \* the emitted statements, once settled: address, length, displacement

vars == <<stmts, origin, lens, short, round, status, lines>>

(***************************************************************************)
(* One layout                                                              *)
(***************************************************************************)

\* The address of every statement, and of the end, under the lengths ls.
Addresses(ls) ==
  LET at[i \in 1 .. Len(stmts) + 1] ==
        IF i = 1 THEN origin ELSE at[i - 1] + ls[i - 1]
  IN  at

Defines(i, l) == stmts[i].kind = "label" /\ stmts[i].name = l
Definitions(l) == {i \in DOMAIN stmts : Defines(i, l)}

LabelValue(l, ls) == Addresses(ls)[CHOOSE i \in Definitions(l) : TRUE]

\* label_map rejects a label that is defined twice.
DuplicateLabel ==
  \E i \in DOMAIN stmts :
     stmts[i].kind = "label" /\ \E j \in 1 .. i - 1 : Defines(j, stmts[i].name)

HasTarget(i) == stmts[i].kind \in Branches \cup {"riprel", "ref"}
UndefinedLabel(i) ==
  HasTarget(i) /\ stmts[i].to.label /\ Definitions(stmts[i].to.name) = {}

Target(i, ls) ==
  IF stmts[i].to.label THEN LabelValue(stmts[i].to.name, ls) ELSE stmts[i].to.addr

FitsI8(v) == -128 <= v /\ v <= 127
FitsI32(v) == -MaxDisp32 - 1 <= v /\ v <= MaxDisp32

\* `v as i32`.
Span32 == 2 * (MaxDisp32 + 1)
AsI32(v) == ((v + MaxDisp32 + 1) % Span32) - (MaxDisp32 + 1)

(***************************************************************************)
(* Emitting one statement                                                  *)
(***************************************************************************)

\* Mutant of Assumed: every round measures from the end of the shortest form.
AssumedShortest(i, ls) == IF stmts[i].kind = "call" THEN 5 ELSE 2

\* The length the displacement of a branch is measured with: that of the
\* previous round, or the shortest form in the first.
Assumed(i, ls) ==
  IF ls[i] # 0 THEN ls[i] ELSE IF stmts[i].kind = "call" THEN 5 ELSE 2

\* The displacement or value the encoder is given.
Displacement(i, ls) ==
  CASE stmts[i].kind \in Branches ->
         Target(i, ls) - (Addresses(ls)[i] + Assumed(i, ls))
    [] stmts[i].kind = "riprel" ->
         Target(i, ls) + stmts[i].bias - (Addresses(ls)[i] + ls[i])
    [] stmts[i].kind = "ref" -> Target(i, ls) + stmts[i].bias
    [] OTHER -> 0

\* Mutant of WantShort: a byte is taken to start at -127.
WantShortShy(i, ls, sh) ==
  /\ sh[i] /\ stmts[i].kind # "call"
  /\ FitsI8(Displacement(i, ls)) /\ Displacement(i, ls) > -128

WantShort(i, ls, sh) ==
  sh[i] /\ stmts[i].kind # "call" /\ FitsI8(Displacement(i, ls))

BranchLength(i, ls, sh) ==
  CASE stmts[i].kind = "call" -> 5
    [] stmts[i].kind # "call" /\ WantShort(i, ls, sh) -> 2
    [] stmts[i].kind = "jmp" /\ ~WantShort(i, ls, sh) -> 5
    [] OTHER -> 6

Admitting(i, v) ==
  {k \in DOMAIN stmts[i].forms : stmts[i].forms[k].low <= v /\ v <= stmts[i].forms[k].high}

OperandLength(i, v) ==
  stmts[i].forms[CHOOSE k \in Admitting(i, v) : \A j \in Admitting(i, v) : k <= j].size

EmittedLength(i, ls, sh) ==
  CASE stmts[i].kind \in Branches -> BranchLength(i, ls, sh)
    [] stmts[i].kind = "ref" -> OperandLength(i, Displacement(i, ls))
    [] stmts[i].kind \in {"data", "riprel"} -> stmts[i].size
    [] OTHER -> 0

\* The encoder checks the displacement of a branch, and the value of an immediate or
\* displacement, but not a displacement from rip.
OutOfRange(i, ls, sh) ==
  /\ HasTarget(i) /\ ~UndefinedLabel(i)
  /\ \/ /\ stmts[i].kind \in Branches
        /\ ~WantShort(i, ls, sh) /\ ~FitsI32(Displacement(i, ls))
     \/ stmts[i].kind = "ref" /\ Admitting(i, Displacement(i, ls)) = {}

EmitFails ==
  \/ DuplicateLabel
  \/ \E i \in DOMAIN stmts : UndefinedLabel(i) \/ OutOfRange(i, lens, short)

NewLengths == [i \in DOMAIN stmts |-> EmittedLength(i, lens, short)]

\* What is written of the displacement.
Written(i, ls) ==
  IF stmts[i].kind = "riprel" THEN AsI32(Displacement(i, ls)) ELSE Displacement(i, ls)

Line(i) ==
  [address |-> Addresses(lens)[i],
   length  |-> EmittedLength(i, lens, short),
   disp    |-> Written(i, lens)]

(***************************************************************************)
(* The loop                                                                *)
(***************************************************************************)

Init ==
  /\ stmts \in Programs
  /\ origin \in Origins
  /\ lens = [i \in DOMAIN stmts |-> 0]
  /\ short = [i \in DOMAIN stmts |-> TRUE]
  /\ round = 0
  /\ status = "relaxing"
  /\ lines = <<>>

\* A length changed: remember the branches that grew and go round again, or
\* hit the `unreachable!` above the round limit.
Grew(i) ==
  /\ stmts[i].kind \in {"jmp", "jcc"}
  /\ lens[i] # 0
  /\ NewLengths[i] > lens[i]

\* Mutant of Relax: the new lengths are not carried over.
RelaxForgets ==
  /\ status = "relaxing" /\ ~EmitFails /\ NewLengths # lens
  /\ \/ round > RoundLimit /\ status' = "panicked" /\ round' = round
     \/ round <= RoundLimit /\ status' = "relaxing" /\ round' = round + 1
  /\ UNCHANGED <<stmts, origin, lens, short, lines>>

Relax ==
  /\ status = "relaxing"
  /\ ~EmitFails
  /\ NewLengths # lens
  /\ short' = [i \in DOMAIN stmts |-> short[i] /\ ~Grew(i)]
  /\ lens' = NewLengths
  /\ \/ round > RoundLimit /\ status' = "panicked" /\ round' = round
     \/ round <= RoundLimit /\ status' = "relaxing" /\ round' = round + 1
  /\ UNCHANGED <<stmts, origin, lines>>

\* Nothing changed: the final emission uses the settled layout.
Settle ==
  /\ status = "relaxing"
  /\ ~EmitFails
  /\ NewLengths = lens
  /\ lines' = [i \in DOMAIN stmts |-> Line(i)]
  /\ status' = "settled"
  /\ UNCHANGED <<stmts, origin, lens, short, round>>

\* Mutant of Fail: the error is dropped and the loop tries again.
FailIgnored == status = "relaxing" /\ EmitFails /\ UNCHANGED vars

\* emit or label_map returned an AsmError.
Fail ==
  /\ status = "relaxing"
  /\ EmitFails
  /\ status' = "failed"
  /\ UNCHANGED <<stmts, origin, lens, short, round, lines>>

Next == Relax \/ Settle \/ Fail

\* The loop is one thread that nothing preempts for ever.
Spec == Init /\ [][Next]_vars /\ WF_vars(Next)

(***************************************************************************)
(* Properties                                                              *)
(***************************************************************************)

\* Whatever order the lengths settled in, the machine code is consistent: the
\* statements lie end to end from the origin, and every branch, measured from the
\* end of its own encoding, reaches its target as `labels` reports it.  So does a
\* rip-relative operand that is less than 2 GiB away from there; another, for which
\* there is no error either, misses it by a multiple of 4 GiB.
Start(i) == IF i = 1 THEN origin ELSE lines[i - 1].address + lines[i - 1].length
End(i) == lines[i].address + lines[i].length
Reached(i) == End(i) + lines[i].disp

BranchesLand ==
  status = "settled" =>
    \A i \in DOMAIN stmts :
      /\ lines[i].address = Start(i)
      /\ stmts[i].kind \in Branches => Reached(i) = Target(i, lens)
      /\ stmts[i].kind = "riprel" =>
           LET aim == Target(i, lens) + stmts[i].bias IN
           /\ FitsI32(aim - End(i)) => Reached(i) = aim
           /\ (Reached(i) - aim) % Span32 = 0

\* A short branch that was emitted holds its displacement in one byte.
ShortFits(i) ==
  stmts[i].kind \in {"jmp", "jcc"} /\ lines[i].length = 2 => FitsI8(lines[i].disp)

\* What the head comment of asm.rs argues about: branches to labels, over code
\* whose own length depends on no label.
PlainProgram ==
  \A i \in DOMAIN stmts : HasTarget(i) => stmts[i].to.label /\ stmts[i].kind # "ref"

\* The layout is not only consistent but the best one: no long branch would
\* reach its target in the short form in the layout where it alone is shortened
\* (backwards the displacement then loses what the branch loses in length).
Shortened(i) ==
  IF lines[i].disp >= 0 THEN lines[i].disp ELSE lines[i].disp + lines[i].length - 2

ShortestForms ==
  status = "settled" /\ PlainProgram =>
    \A i \in DOMAIN stmts :
      stmts[i].kind \in {"jmp", "jcc"} =>
        /\ ShortFits(i)
        /\ lines[i].length > 2 => ~FitsI8(Shortened(i))

\* Each round after the first is paid for by a branch that lost its short form,
\* so the number of branches bounds the work of the loop.
Jumps == {i \in DOMAIN stmts : stmts[i].kind \in {"jmp", "jcc"}}
RoundsArePaidFor == PlainProgram => round <= 1 + Cardinality(Jumps)

\* The assembler comes to an answer: machine code or an error for the user,
\* not the panic that guards the loop.
Converges == <>(status \in {"settled", "failed"})

\* asm.rs:695, of the panic that guards the loop: "Monotonic growth guarantees
\* this is unreachable".
NeverPanics == status # "panicked"
=============================================================================
