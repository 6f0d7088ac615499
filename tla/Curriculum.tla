----------------------------- MODULE Curriculum -----------------------------
(***************************************************************************)
(* The lesson crate (crates/lesson/src): a directory of parts and lessons  *)
(* is loaded, validated with the grader itself, and graded.                *)
(*                                                                         *)
(* A text, written by an author or a student, is kept as what the grader   *)
(* sees in it: the number it reads as, the bytes it assembles to, its      *)
(* words once `normalize` has been at it, and the run of the program.  The *)
(* assembler may panic on it, and so may the run.                          *)
(***************************************************************************)
EXTENDS Naturals, Sequences, FiniteSets, TLC, SequencesExt

CONSTANTS
  None,          \* what is not there, or what did not come out
  Panicked,      \* the result of a conversion that panics
  Undecodable,   \* the byte strings that are not instructions
  Registers      \* the names of `Regs::iter_named`

ASSUME SentinelsDiffer == None # Panicked

(***************************************************************************)
(* check.rs: hex strings, as sequences of characters.                      *)
(***************************************************************************)
HexDigits == <<"0", "1", "2", "3", "4", "5", "6", "7", "8", "9", "a", "b", "c", "d", "e", "f">>
Separators == {" ", ",", "_"}

\* What is left of s without `0x` and separators.
Cleaned(s) ==
  LET Prefixed(i) == i \in DOMAIN s /\ i + 1 \in DOMAIN s /\ s[i] = "0" /\ s[i + 1] = "x"
      spaced == [i \in DOMAIN s |-> IF Prefixed(i) \/ Prefixed(i - 1) THEN " " ELSE s[i]]
  IN SelectSeq(spaced, LAMBDA c : c \notin Separators)

\* The bytes of a character in UTF-8: an accented letter has two.
Utf8(c) == IF c = "accented" THEN <<"accented", "half">> ELSE <<c>>

\* `u8::from_str_radix(.., 16)`, which takes a sign.
TwoDigits(a, b) ==
  LET digit == [d \in Range(HexDigits) |-> CHOOSE k \in 0 .. 15 : HexDigits[k + 1] = d]
  IN IF b \notin DOMAIN digit THEN None
     ELSE IF a = "+" THEN digit[b]
     ELSE IF a \notin DOMAIN digit THEN None
     ELSE 16 * digit[a] + digit[b]

\* The string is sliced two bytes at a time, and a slice must not cut a character.
Slice(utf8, k) ==
  IF utf8[2 * k - 1] = "half" \/ (2 * k < Len(utf8) /\ utf8[2 * k + 1] = "half")
  THEN Panicked ELSE TwoDigits(utf8[2 * k - 1], utf8[2 * k])

\* The first slice that does not come out decides.
Collected(value) ==
  LET bad == {k \in DOMAIN value : value[k] \in {None, Panicked}}
  IN IF bad = {} THEN value ELSE value[CHOOSE k \in bad : \A j \in bad : k <= j]

FromUtf8(utf8) ==
  IF Len(utf8) % 2 # 0 THEN None
  ELSE Collected([k \in 1 .. Len(utf8) \div 2 |-> Slice(utf8, k)])

Chars(s) == FlattenSeq([k \in DOMAIN s |-> Utf8(s[k])])

FromHex(s) == FromUtf8(Chars(Cleaned(s)))

(***************************************************************************)
(* check.rs: grading an answer.                                            *)
(***************************************************************************)
Correct == [correct |-> TRUE, why |-> "correct"]
Wrong(why) == [correct |-> FALSE, why |-> why]

\* How a run may stop, other than at the limit of steps, and what a verdict says.
Stops == {"halted", "exited", "fault", "breakpoint"}
Reasons ==
  {"correct", "not a choice", "not quite", "misconfigured", "does not assemble", "other bytes",
   "other words", "unknown register", "register differs", "still running", "other output"}
  \cup Stops
Verdicts == [correct : BOOLEAN, why : Reasons]

ASSUME SentinelsAreNoVerdicts == Verdicts \cap {None, Panicked} = {}

GradeQuiz(e, t) ==
  IF t.choice = None THEN Wrong("not a choice")
  ELSE IF t.choice >= e.choices THEN Wrong("not a choice")
  ELSE IF t.choice = e.answer THEN Correct
  ELSE Wrong("not quite")

GradeAssemble(e, t) ==
  LET expected == FromHex(e.hex) IN
  IF expected = Panicked THEN Panicked
  ELSE IF expected = None THEN Wrong("misconfigured")
  ELSE IF t.bytes = Panicked THEN Panicked
  ELSE IF t.bytes = None THEN Wrong("does not assemble")
  ELSE IF t.bytes = expected THEN Correct
  ELSE Wrong("other bytes")

\* By meaning if the answer assembles, by its words if it does not.
GradeDisassemble(e, t) ==
  LET expected == FromHex(e.hex) IN
  IF expected = Panicked THEN Panicked
  ELSE IF expected = None THEN Wrong("misconfigured")
  ELSE IF t.bytes = Panicked THEN Panicked
  ELSE IF t.bytes = expected THEN Correct
  ELSE IF t.bytes # None THEN Wrong("other bytes")
  ELSE IF t.words = e.text.words THEN Correct
  ELSE Wrong("other words")

\* The first register that is not as expected decides what is said.
GradeRegisters(e, run) ==
  LET Unmet(k) == LET name == e.registers[k][1] IN
                  name \notin Registers \/ run.registers[name] # e.registers[k][2]
      unmet == {k \in DOMAIN e.registers : Unmet(k)}
      first == CHOOSE k \in unmet : \A j \in unmet : k <= j
  IN IF unmet = {} THEN Correct
     ELSE IF e.registers[first][1] \notin Registers THEN Wrong("unknown register")
     ELSE Wrong("register differs")

\* A fault is met by the step behind those that retired.
GradeEmulate(e, t) ==
  IF t.run = Panicked THEN Panicked
  ELSE IF t.run = None THEN Wrong("does not assemble")
  ELSE IF t.run.steps + (IF t.run.stop = "fault" THEN 1 ELSE 0) > e.max_steps
       THEN Wrong("still running")
  ELSE IF t.run.stop \notin {"halted", "exited"} THEN Wrong(t.run.stop)
  ELSE IF ~GradeRegisters(e, t.run).correct THEN GradeRegisters(e, t.run)
  ELSE IF e.stdout # None /\ e.stdout # t.run.stdout THEN Wrong("other output")
  ELSE Correct

\* `check`: a verdict, or Panicked.
Grade(e, t) ==
  CASE e.kind = "quiz" -> GradeQuiz(e, t)
    [] e.kind = "assemble" -> GradeAssemble(e, t)
    [] e.kind = "disassemble" -> GradeDisassemble(e, t)
    [] OTHER -> GradeEmulate(e, t)

(***************************************************************************)
(* model.rs: the curriculum, its reference answers and what a client sees. *)
(***************************************************************************)
\* The empty text, which assembles to nothing and faults when it runs; and a number.
Blank ==
  [choice |-> None, bytes |-> <<>>, words |-> "", blank |-> TRUE, big |-> FALSE,
   run |-> [steps |-> 0, stop |-> "fault", stdout |-> "", registers |-> [r \in Registers |-> 0]]]
ChoiceText(n) ==
  [choice |-> n, bytes |-> None, words |-> "a number", blank |-> FALSE, big |-> FALSE,
   run |-> None]

Solution(e) ==
  CASE e.kind = "quiz" -> ChoiceText(e.answer)
    [] e.kind = "disassemble" /\ e.solution = Blank -> e.text
    [] OTHER -> e.solution

\* An exercise without its answer, a lesson with such exercises.
PublicExercise(e) == [id |-> e.id, kind |-> e.kind, choices |-> e.choices]
PublicLesson(l) ==
  [id |-> l.id, exercises |-> [k \in DOMAIN l.exercises |-> PublicExercise(l.exercises[k])]]

Lessons(c) == FlattenSeq([p \in DOMAIN c |-> c[p].lessons])

\* The first with this id, or None.
FirstWith(id, s) ==
  LET First(k) == s[k].id = id /\ \A j \in DOMAIN s : s[j].id = id => k <= j
  IN IF \E k \in DOMAIN s : First(k) THEN s[CHOOSE k \in DOMAIN s : First(k)] ELSE None

LessonOf(c, id) == FirstWith(id, Lessons(c))
ExerciseOf(l, id) == FirstWith(id, l.exercises)

(***************************************************************************)
(* load.rs: from directories, sorted by name, to a curriculum.             *)
(***************************************************************************)
\* The front matter ends at the first line, after the one behind the opening
\* fence, that begins like a fence; None if there is no such line.
SplitFrontMatter(lines) ==
  LET ends == {k \in 3 .. Len(lines) : lines[k] \in {"+++", "+++ and more"}}
      end == CHOOSE k \in ends : \A j \in ends : k <= j
  IN IF lines = <<>> \/ Head(lines) # "+++" \/ ends = {} THEN None
     ELSE [front |-> SubSeq(lines, 2, end - 1),
           body |-> (IF lines[end] = "+++" THEN <<>> ELSE <<"and more">>)
                    \o SubSeq(lines, end + 1, Len(lines))]

\* Front matter is TOML, all that was written of it.
FrontMatterParses(d) ==
  LET halves == SplitFrontMatter(d.lines)
      toml == SelectSeq(d.lines, LAMBDA line : line = "toml")
  IN halves # None /\ halves.front = toml

\* A stable sort of s by keys.
SortedBy(keys, s) ==
  LET before(i, j) == keys[i] < keys[j] \/ (keys[i] = keys[j] /\ i < j)
      order == SortSeq([k \in DOMAIN s |-> k], before)
  IN [k \in DOMAIN order |-> s[order[k]]]

\* A directory without lesson.md is no lesson.
IsLesson(d) == d.lines # None
LessonLoads(d) == FrontMatterParses(d) /\ \A x \in Range(d.lesson.examples) : x.readable

LoadLesson(d) ==
  LET text == SelectSeq(SplitFrontMatter(d.lines).body, LAMBDA line : line # "")
  IN [d.lesson EXCEPT !.has = (@ \ {"body"}) \cup (IF text = <<>> THEN {} ELSE {"body"})]

LoadPart(p) ==
  LET dirs == SelectSeq(p.dirs, IsLesson)
      lessons == [k \in DOMAIN dirs |-> LoadLesson(dirs[k])]
  IN [number |-> p.number,
      lessons |-> SortedBy([k \in DOMAIN lessons |-> lessons[k].order], lessons)]

\* A directory without part.toml is no part; the rest must load, all of it.
\* The disk is None if there is no such directory.
LoadParts(disk) ==
  LET parts == SelectSeq(disk, LAMBDA p : p.toml # "absent")
      loaded == [k \in DOMAIN parts |-> LoadPart(parts[k])]
      loads == \A p \in Range(parts) :
                 p.toml = "parses" /\ \A d \in Range(p.dirs) : IsLesson(d) => LessonLoads(d)
  IN IF loads THEN SortedBy([k \in DOMAIN loaded |-> loaded[k].number], loaded) ELSE None

Load(disk) == IF disk = None THEN None ELSE LoadParts(disk)

(***************************************************************************)
(* validate.rs: issues, the solutions being graded like any answer.        *)
(***************************************************************************)
Pieces == {"title", "objectives", "body", "README"}

\* Issues that make grading meaningless: the exercise is left at that.
Malformed(e) ==
  CASE e.kind = "quiz" -> IF e.answer >= e.choices THEN {"answer out of range"} ELSE {}
    [] e.kind = "assemble" -> IF FromHex(e.hex) = None THEN {"not valid hex"}
                              ELSE IF e.solution.blank THEN {"no reference solution"} ELSE {}
    [] e.kind = "disassemble" -> IF FromHex(e.hex) = None THEN {"not valid hex"}
                                 ELSE IF FromHex(e.hex) = <<>> THEN {"hex is empty"} ELSE {}
    [] OTHER -> IF e.solution.blank THEN {"no reference solution"} ELSE {}

Doubtful(e) ==
  CASE e.kind = "quiz" -> IF e.choices < 2 THEN {"too few choices"} ELSE {}
    [] e.kind = "disassemble" ->
         IF FromHex(e.hex) \in Undecodable THEN {"does not disassemble"} ELSE {}
    [] e.kind = "emulate" ->
         IF e.registers = <<>> /\ e.stdout = None THEN {"nothing is asserted"} ELSE {}
    [] OTHER -> {}

ExerciseIssues(l, k) ==
  LET e == l.exercises[k] IN
     {"duplicate exercise id" : j \in {i \in DOMAIN l.exercises : i < k /\ l.exercises[i].id = e.id}}
  \cup (IF e.prompt THEN {} ELSE {"empty prompt"})
  \cup Malformed(e) \cup Doubtful(e)
  \cup (IF Malformed(e) = {} /\ Grade(e, Solution(e)) # Correct
        THEN {"the solution does not pass"} ELSE {})

\* Mutant of LessonIssues: lessons are not told apart.
LessonIssuesApart(ls, i) == UNION {ExerciseIssues(ls[i], k) : k \in DOMAIN ls[i].exercises}

LessonIssues(ls, i) ==
  LET l == ls[i] IN
     (IF l.id = "" THEN {"id is empty"} ELSE {})
  \cup {"duplicate lesson id" : j \in {k \in DOMAIN ls : k < i /\ ls[k].id = l.id}}
  \cup (Pieces \ l.has)
  \cup {"prerequisite is not a lesson" : p \in l.prerequisites \ {ls[j].id : j \in DOMAIN ls}}
  \cup (IF l.id \in l.prerequisites THEN {"lists itself"} ELSE {})
  \cup {"example does not assemble" : x \in {y \in Range(l.examples) : y.asm /\ y.bytes = None}}
  \cup UNION {ExerciseIssues(l, k) : k \in DOMAIN l.exercises}

Validate(c) == UNION {LessonIssues(Lessons(c), i) : i \in DOMAIN Lessons(c)}

\* An exercise makes validation panic when its hex string is read or, if it is well
\* formed, when its solution is graded.
ExercisePanics(e) ==
  \/ e.kind \in {"assemble", "disassemble"} /\ FromHex(e.hex) = Panicked
  \/ Malformed(e) = {} /\ Grade(e, Solution(e)) = Panicked

\* Validation looks at everything, whatever it found before.
ValidationPanics(c) ==
  \E l \in Range(Lessons(c)) :
    \/ \E x \in Range(l.examples) : x.asm /\ x.bytes = Panicked
    \/ \E e \in Range(l.exercises) : ExercisePanics(e)
=============================================================================
