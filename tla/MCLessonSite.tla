---------------------------- MODULE MCLessonSite ----------------------------
(***************************************************************************)
(* A directory with two lessons that have one exercise of each kind, and   *)
(* every way of getting one thing in it wrong.                             *)
(***************************************************************************)
EXTENDS LessonSite

(***************************************************************************)
(* Texts.                                                                  *)
(***************************************************************************)
Run(steps, stop, rax, out) ==
  [steps |-> steps, stop |-> stop, stdout |-> out, registers |-> [r \in Registers |-> rax]]
Program(bytes, words, run) ==
  [Blank EXCEPT !.bytes = bytes, !.words = words, !.run = run, !.blank = FALSE]

XorText == Program(<<49, 192>>, "xor eax, eax", Run(3, "halted", 0, "hi"))
LoopText == Program(<<235, 254>>, "jmp here", Run(9, "exited", 1, "hi"))
ProseText == Program(None, "xor eax with itself", None)
HugeText == [XorText EXCEPT !.big = TRUE]
\* A chain of branches that grows by one in each of too many rounds.
ChainText == Program(Panicked, "a chain of jumps", Panicked)

MCUndecodable == {<<255>>}
MCAnswers == {XorText, LoopText, ProseText, HugeText, ChainText}

(***************************************************************************)
(* Exercises and lessons.                                                  *)
(***************************************************************************)
Xor == <<"3", "1", " ", "c", "0">>
Exercise(id, kind) ==
  [id |-> id, kind |-> kind, prompt |-> TRUE, choices |-> 0, answer |-> 0, hex |-> <<>>,
   text |-> Blank, solution |-> XorText, registers |-> <<>>, stdout |-> None, max_steps |-> 5]

Quiz == [Exercise("q", "quiz") EXCEPT !.choices = 2, !.answer = 1]
Assemble == [Exercise("a", "assemble") EXCEPT !.hex = Xor]
Disassemble == [Exercise("d", "disassemble") EXCEPT !.hex = Xor, !.text = XorText, !.solution = Blank]
Emulate == [Exercise("e", "emulate") EXCEPT !.registers = <<<<"rax", 0>>>>, !.stdout = "hi"]

Lesson(id, order, exercises) ==
  [id |-> id, order |-> order, has |-> Pieces, prerequisites |-> {},
   examples |-> <<[asm |-> TRUE, readable |-> TRUE, bytes |-> <<49, 192>>]>>,
   exercises |-> exercises]
First == Lesson("one", 1, <<Quiz, Assemble>>)
Second == [Lesson("two", 2, <<Emulate, Disassemble>>) EXCEPT !.prerequisites = {"one"}]

File == <<"+++", "toml", "+++", "", "text">>
Dir(lines, lesson) == [lines |-> lines, lesson |-> lesson]
Part(number, dirs) == [toml |-> "parses", number |-> number, dirs |-> dirs]
Disk(first, second) == <<Part(2, <<Dir(File, second)>>), Part(1, <<Dir(File, first)>>)>>

WithFirst(l) == Disk(l, Second)
WithExercises(es) == WithFirst([First EXCEPT !.exercises = es])
WithFile(lines) ==
  <<Part(1, <<Dir(lines, First), Dir(File, [Second EXCEPT !.order = 0])>>)>>

\* What can be served: also other exercises, an untidy fence, an answer in words
\* that nothing checks against the bytes, and one that is larger than what the API takes.
Good ==
  {Disk(First, Second),
   WithExercises(<<Assemble, [Quiz EXCEPT !.answer = 0]>>),
   WithFile(<<"+++", "toml", "+++ and more">>),
   WithExercises(<<Assemble, [Disassemble EXCEPT !.text = ProseText]>>),
   WithExercises(<<[Assemble EXCEPT !.solution = HugeText]>>)}

BadExercises ==
  {[Quiz EXCEPT !.answer = 2], [Quiz EXCEPT !.choices = 1, !.answer = 0], [Quiz EXCEPT !.prompt = FALSE],
   [Assemble EXCEPT !.hex = <<"3", "1", "c">>], [Assemble EXCEPT !.hex = <<"3", "1", "c", "z">>],
   [Assemble EXCEPT !.hex = <<"3", "accented", "0">>], [Assemble EXCEPT !.hex = <<"0", "x", "+", "1">>],
   [Assemble EXCEPT !.solution = Blank], [Assemble EXCEPT !.solution = LoopText],
   [Assemble EXCEPT !.solution = ProseText], [Assemble EXCEPT !.solution = ChainText],
   [Disassemble EXCEPT !.hex = <<"g", "g">>], [Disassemble EXCEPT !.hex = <<" ">>],
   [Disassemble EXCEPT !.hex = <<"f", "f">>],
   [Disassemble EXCEPT !.text = LoopText], [Disassemble EXCEPT !.solution = ProseText],
   [Disassemble EXCEPT !.solution = ChainText], [Emulate EXCEPT !.solution = ChainText],
   [Emulate EXCEPT !.solution = Blank], [Emulate EXCEPT !.registers = <<>>, !.stdout = None],
   [Emulate EXCEPT !.registers = <<<<"rax", 0>>, <<"r99", 0>>>>], [Emulate EXCEPT !.stdout = "ho"],
   [Emulate EXCEPT !.max_steps = 2], [Emulate EXCEPT !.solution = LoopText]}

BadLessons ==
  {[First EXCEPT !.id = ""], [First EXCEPT !.id = "two"], [First EXCEPT !.prerequisites = {"one"}],
   [First EXCEPT !.prerequisites = {"three"}], [First EXCEPT !.has = {}],
   [First EXCEPT !.examples = <<[asm |-> TRUE, readable |-> TRUE, bytes |-> None]>>],
   [First EXCEPT !.examples = <<[asm |-> TRUE, readable |-> TRUE, bytes |-> Panicked]>>],
   [First EXCEPT !.examples = <<[asm |-> FALSE, readable |-> FALSE, bytes |-> None]>>],
   [First EXCEPT !.exercises = <<Quiz, [Assemble EXCEPT !.id = "q"]>>]}

BadFiles ==
  {None, <<>>, <<"text">>, <<"+++", "toml">>, <<"+++", "+++">>, <<"+++", "toml", "text", "+++">>,
   <<"+++", "toml", "+++", "">>, <<"+++", "toml", "+++ and more", "toml", "+++">>}

MCDisks ==
  Good \cup {None} \cup {WithExercises(<<e>>) : e \in BadExercises}
       \cup {WithFirst(l) : l \in BadLessons} \cup {WithFile(f) : f \in BadFiles}
       \cup {<<[Part(1, <<>>) EXCEPT !.toml = "broken"]>>}
=============================================================================
