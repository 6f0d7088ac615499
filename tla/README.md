# Specifications of Assembly Teacher

TLA+ modules that model the program in this repository, TLC configurations that
check them on small instances, and proofs for TLAPS. The code is the reference:
every definition that models code says, in `PROJECT.json` under `map`, which
lines it stands for.

## 1. The system

Assembly Teacher teaches x86-64 assembly in a browser. A Rust server assembles,
disassembles, emulates and grades; a TypeScript page shows what it answers.

| Component | Source | State it keeps | Operations |
|---|---|---|---|
| Assembler, layout | `asm-core/src/asm.rs` | per statement: a length, "short" or not; a label map | layout rounds until nothing changes, final emission, source map |
| Assembler, parser | `asm-core/src/asm.rs` | none | lines, operands and expressions |
| Encoder, decoder | `asm-core/src/{encode,decode,insn,operand,reg}.rs` | none (decoder: a cursor) | instruction to bytes, bytes to instruction |
| Formatter | `asm-core/src/format.rs` | none | wording |
| Emulator memory | `asm-emu/src/mem.rs` | regions in mapping order, with permissions | map, read, write with capture, fetch |
| Emulator arithmetic | `asm-emu/src/{alu,flags}.rs` | none | adc/sbb, logic, shifts, rotates, wide multiply and divide, conditions |
| Emulator interpreter | `asm-emu/src/{cpu,effects,fault,regs}.rs` | registers, rip, flags, memory, halt, output | step; run up to a budget with a capped trace |
| Server, emulation | `server/src/routes/emu.rs` | none: the client carries the machine | run; one step from a state |
| Server, the rest | `server/src` | the loaded curriculum | assemble, disassemble, explain, inspect, lessons, search; timeout and panic layers |
| Curriculum | `lesson/src` | parts, lessons and exercises, never changed once loaded | load a directory, validate it, grade an answer, search |
| Executable parsers | `binfmt/src` | none (a reader that checks bounds) | a file to sections, segments, symbols, imports, exports, relocations, mitigations |
| Scrubber | `web/src/core/emu-state.ts` | none: one pure reconstruction | trace and final state to a snapshot per step |
| Playground, editor | `web/src/pages/playground.ts`, `web/src/components/code-editor.ts` | text, timer, requests under way, panels | edit, assemble, select, run |
| Search palette | `web/src/components/command-palette.ts`, `web/src/core/omni-search.ts` | text, hits, selection, timer, token | open, close, type, select |
| Lesson pages | `web/src/pages/lessons.ts`, `web/src/main.ts` | the route, the page, a verdict per exercise, requests under way | navigate, submit |
| Inspector, memory viewer, help | `web/src/pages`, `web/src/components` | caret, selection | rendering |

**How they interact.** The page calls the server over HTTP; every response is a
promise that may resolve in any order relative to others. `/api/emu/run`
assembles, loads the code with `Cpu::with_code`, runs it with `run_bounded` and
returns a capped trace and the final state. `/api/emu/step` rebuilds a machine
from the state in the request, steps once, and returns the new state. The
scrubber gets the trace and the final state and walks backwards over the effects
to recover each intermediate snapshot, so its correctness rests on what the
interpreter promises about effects. The server loads the lesson directory once,
grades every reference answer with the grader that students will meet, and does not start
unless all of them pass; a page that was opened before a restart goes on asking the new server.
An uploaded executable is parsed whole, in one request.

**What is hard.** A layout loop whose end is argued in a comment and enforced by a
panic; instructions that fault half-way after they changed a register; effects
that must be exact because something else undoes them; a machine that travels
through JSON; address arithmetic at the top of the address space; pages on
which several requests are under way and nothing in a response says which
question it answers; a lesson directory that people edit, and a server that must not
serve what nobody can solve; and files that may be cut or damaged anywhere, walked
by offsets that come from the file itself. `PROJECT.json` lists each hazard at its line with the
properties that would catch it going wrong.

**What makes each component correct.** Layout: it ends, and every branch lands
where its label is. Memory: no store changes a cell that is not writable. ALU:
the results and flags agree with arithmetic on integers. Interpreter: effects are
exact, every stop has its cause, runs end. Step API: stepping is running.
Scrubber: reconstructed snapshots are the states that were. Palette: the hits
belong to the text and the selection is not moved under the user's hand.
Playground: a page left alone shows what was last asked. Encoder and decoder:
inverse to one another, and an instruction delimits itself. Curriculum: what is served
accepts its author's answer, under the id by which it is addressed. Lesson pages: the page is the
one asked for, and praise is for an answer to this exercise. Parsers: a linked file shows
what it was linked from, a damaged one nothing that is not there.

## 2. Modules

| Module | Models | Built on |
|---|---|---|
| `Relaxation` | `Assembler::assemble`: layout rounds, emission, relaxation of branches | |
| `Memory` | `mem.rs`: regions, lookup, read, write, fetch | |
| `Alu` | `alu.rs`, the conditions of `flags.rs` | |
| `Machine` | `Cpu::step` and every instruction's execution | `Memory`, `Alu` |
| `Emulator` | `Cpu::run_bounded` over `Cpu::with_code`, as a state machine | `Machine` |
| `AluLaws` | the ALU against a reference in ordinary arithmetic | `Alu` |
| `Scrubber` | `reconstruct` of `emu-state.ts` over runs of the emulator | `Emulator` |
| `StepApi` | `/api/emu/step` and a client of it; refines `Emulator` | `Machine`, `INSTANCE Emulator` |
| `Instructions` | registers, operands and the bytes of values (`reg.rs`, `operand.rs`, `insn.rs`) | |
| `Encoder` | `encode` of `encode.rs` | `Instructions` |
| `Decoder` | `decode` of `decode.rs` | `Instructions` |
| `RoundTrip` | what is assembled is disassembled, and back | `Encoder`, `Decoder` |
| `CommandPalette` | the palette of `command-palette.ts` | |
| `Playground` | the page of `playground.ts` with the editor | |
| `Curriculum` | `load.rs`, `validate.rs`, `check.rs`, `model.rs` of the lesson crate, as operators | |
| `LessonSite` | the server's start and lesson endpoints, and a browser on its lesson pages | `Curriculum` |
| `Cells` | `reader.rs`: reads that check bounds, strings, tables | |
| `ElfImage`, `PeImage` | `elf.rs` and `pe.rs`, from a file to an image | `Cells` |
| `Inspect` | `binfmt::parse` behind `/api/binfmt/inspect`, over files as linked, damaged and cut | `ElfImage`, `PeImage` |
| `MachineProofs` | theorems about `Memory` and `Machine` | `Machine` |
| `EmulatorProofs` | theorems about `Emulator` and `Scrubber` | `Scrubber`, `MachineProofs` |
| `StepApiProofs` | theorems about `StepApi`, its refinement among them | `StepApi`, `MachineProofs` |
| `AluProofs`, `RelaxationProofs`, `RoundTripProofs`, `InspectProofs` | theorems about the module of that name (`AluLaws`) | |
| `PageProofs` | theorems about `LessonSite`, `CommandPalette` and `Playground` | all three |
| `MC*` | the finite instances | |

### Relaxation
`status` says where `layout` is: `"relaxing"` (about to run a round), `"settled"`,
`"failed"` (an `AsmError`) or `"panicked"` (`unreachable!` after the
round limit). `lens` are the lengths of the last round and `short` the
statements that may still be short; `round` counts rounds, `lines` is what was emitted in the end. An instruction is
kept only as what decides its length: its kind, its target, the constant in front of a label, and,
if it holds the value of a label as an immediate or displacement, its forms (`OperandForm`) in the order in which the encoder tries them,
each with the values it admits. A branch is checked against 32 bits and a value against its forms; a displacement
from rip is not checked but cut (`AsI32`). One action is one round of the loop, which recomputes addresses
and labels from the previous lengths, resolves targets, encodes, updates `short`
and compares. Sizes and displacements are the real ones (2/5, 2/6 and 5 bytes, -128..127);
only the 32-bit limit is scaled down, so that it can be met. Addresses are
integers, as they are in the code unless they come near 2^63.

### Memory, Alu, Machine, Emulator
A cell is a full register: a machine has `WordMod = 2^WordBits` addresses and
every operand is one cell. An instruction is a member of a record type (operation,
length, two operands, a condition) and the constant `InsnTable` decodes a cell to
one; the decoder itself is not part of this model. `Machine` is functional:
`Step(c)` returns the machine, the fault (or none) and the log of the writes, in
the order of the code, so an instruction that faults half-way leaves what it
did. What a log says of a machine is defined here too: `RegBefore` and `MemBefore` undo it,
`RegAfter` and `MemAfter` replay it, and `EffectsOf` is the trace entry made of it. `cpu.rs:262` and the functions around it are translated operation by
operation, faults in the order of the reads and writes. `Emulator` has one action per class of
operation, all with the guards of `run_bounded`: halt before budget before step.
`start` is a history variable.

### AluLaws
Here a register is 8 bits and the widths are 2, 4 and 8, so the narrower views and
the mask of the shift counts keep their proportions. A behaviour takes a width, operands and flags and computes
one operation of them; the laws are invariants over the result. The run is about these widths, the theorems about all (section 5).

### Scrubber
Adds to a finished run the snapshots that `reconstruct` computes, by undoing and replaying
the logs of the trace put end to end (`Joined`). `Margin`, `Align` and `MaxWindow` stand for the constants of
the memory window; all are positive, as in the code. `ScrubberIsFaithful` is about machines whose regions do
not overlap (`Disjoint`), because the page shows the later of two regions and the machine reads the earlier, and about runs without a fault.
`FaultsSpoilOnlyTheStackPointer` says what a fault costs: at most `rsp`, in the snapshots of a run in which no step had moved it before.

### StepApi
`state` is what the client holds, `reply` the stop in the last response.
`Request` is one round trip; the client stops when told to. The refinement mapping reads the emulator's `cpu`
from the client's state plus the output received so far, `steps` and `trace`
from the entries received, and `stop` from `outcome`, the client's conclusion. What a response carries of a region is cut at `MaxRegionCells` (`Carried`), and
a request with a longer one is refused. `Describable` says which memories survive the round trip: those without two regions of one base or
one that is longer. Neither is refused when a program is loaded, and the instance has both.

### Instructions, Encoder, Decoder, RoundTrip
Prefix, REX, opcode, ModRM and SIB bytes are the machine's own bytes. A byte of a
displacement or an immediate takes one of `Radix` values instead of 256, in two's
complement, so that eight bytes remain a small number; the widths and their limits
keep their order (with 4: a byte holds -2..1, two -8..7, four -128..127).
`Encode` is the builder of `encode.rs` followed by `finish`; a refusal has no
bytes. `Decode` gives the instruction, the operand size and the length;
it reads the ModRM byte ahead, reads zeros behind the end of the bytes, and refuses in the
end, where the code stops at once.
`RoundTrip` starts from an instruction that was written, or bytes that were found,
and alternates the two. `Equivalent` compares mnemonic, condition and operands, the widths of memory operands
among them, and immediates as far as the operation uses them (-1 and 255 are the same byte). An immediate that is extended by its sign, and
is not the extension of its own, is compared in the bytes that there are for it (`SignIsKept`, `SameImmediate`): `add rax, 0xffffffff` comes back with the same four bytes
and another value, and this is all that may become of it. `MeaningIsKept` is about what was written with parts that agree (`PartsAgree`: one width
throughout, address registers of one size); the encoder takes more than that (section 4), and what it makes of the rest is still covered by
`EverythingAssembledDisassembles` and `InstructionsDelimitThemselves`. It is also about everything that was decoded and encoded again,
and there compares the width of the stack operation, which no operand carries. Where this encoder has no form for what the decoder reads, the property does not look away but says
what comes out instead: `Formed` makes a 64-bit register of a 32-bit index without a base, and 64-bit operands of the 16-bit ones of a branch or, in memory, of a push or pop;
`FormWidth` is the width at which a push or pop is written, whatever width it was decoded with.

### CommandPalette, Playground
The variables are the fields of the closures. Requests under way are tokens
(palette) or records of what was asked (playground); answers, failures and the
timers are actions of their own that interleave with the user's. In the playground a response, or a failure, may be that of any
request under way (`Responds`, `RequestFails`); `overtaken` remembers, for each kind, that the last request of this kind was answered
while an older one was not, and `alone` that a disassembly was asked for with no other under way. A text may assemble,
assemble to no instruction (`Rowless`) or not assemble (`Bad`). The palette's specification is
`PaletteSpec` and the inspector's `InspectSpec`, so that one module can extend all.

### Curriculum, LessonSite
A directory (a disk) is a sequence of parts with their directories; a lesson file is its lines,
of which only fences, blank lines and TOML are told apart. A text, an author's or a student's, is a record of what
the grader can see in it: the choice it reads as, the bytes it assembles to,
its words once normalised, and how the program runs; bytes and run may be `Panicked`, because `assemble` may panic. Only hex strings are spelled out, because
`from_hex` slices them by bytes. `Load`, `Validate` and `Grade` are the
functions of the crate, `Validate` calling `Grade` as the code does.

`LessonSite` has a server that is started with any disk (`Boot`, `Shutdown`) and one browser. `mount` counts renderings
of a route: a closure of `lessons.ts` holds nodes of its rendering, so what arrives for
an older `mount` is written where nobody sees it. `requests` are the fetches under way; `Deliver`
lets the server answer one and the page show it, `Fail` is every way in which a request
fails. Handling and delivery are one step because what the handlers read does not change while the server is
up. `sent`, `lone` and `graders` are history: the answers given on a card, whether
two were ever under way at once, and which curricula were served while the page was there.

### Cells, ElfImage, PeImage, Inspect
A file is a sequence of cells, and a field of any width is one cell, so that offsets count
fields. What the parsers do with offsets remains: sums that overflow a
word (`WordMod`), tables that end with the file, by count or by a null entry, addresses that are
translated through segments and sections, and values that are kept in 32 or 16 bits (`HalfMod`, `QuarterMod`). Names are strings of cells that end with 0; those the parsers look for are
constants. `ElfParse` and `PeParse` give an image, or the reason for refusing the file.

`Inspect` is about one file: `original` as it was linked, together with the image it was linked
from; `Damage` overwrites a cell and `Cut` drops the end, and each time it is inspected anew. `MCInspect`
holds a small linker: it lays a program out as a file and, independently of the
parsers, as the image that should be found in it.

### Mutants
Operators marked "Mutant of X" are X with a bug one could have written. They are
not reachable from any specification; they serve to show that each property
notices such a bug when X is replaced by its mutant.

## 3. Runs

| Run | Instance | What it shows |
|---|---|---|
| `Relax` | every program of six statements over branches, labels and data, of four over absolute targets and label-valued operands, and a few with operands about as far as 32 bits reach and farther | the layout ends without a panic, every branch lands, and every rip-relative operand up to a multiple of 2^32 (`BranchesLand`); for programs with only branches to labels, every round but the first is paid for by a branch that grew (`RoundsArePaidFor`) and the forms are the shortest possible |
| `RelaxBiased` (violation) | one program | `mov al, [rbx + a - 132]` makes the layout oscillate until the loop panics |
| `Scrub` | every three-cell program over 16 data instructions, every one over 16 control instructions, two-cell mixtures of both and four-cell ones up to a `hlt`, at 5 addresses | effects undo and redo each step exactly; nothing writes where it must not; a pop undoes the push before it, a ret the call (`TheStackGivesBack`); the trace is the prefix of the run, stops are explained, runs end; snapshots of a complete fault-free run are exact, and a fault spoils no register but `rsp` |
| `AluLaws` | three widths, every first operand, 16 second operands | carries, conditions, shifts and division agree with arithmetic |
| `StepApi` | two- to four-cell programs below, over, in and at the base of the stack, some longer than a response carries | stepping implements `Emulator`'s specification, fairness included, wherever a state can describe the memory; it describes it exactly there and nowhere else |
| `RoundTrip` | 7,700 written instructions and 48,000 byte strings: every one- and two-byte opcode after eight prefix contexts and before seven continuations, sixteen opcodes with a ModRM in many more | all that is assembled disassembles, with its meaning; what is decoded and encoded again is equivalent; no prefix of an instruction is one |
| `PushWidth` (violation) | the same | `push qword [m]` is decoded with a four-byte operand size |
| `CommandPalette` | four queries, four searches | hits, selection and the end of searching |
| `Playground` | four texts, one that does not assemble and one that assembles to nothing, two rows, three acts of the user, responses in any order, failures | the panels of a quiet page agree with the last request of their kind, or say that it failed, unless it overtook an older one |
| `LateDiagnostics` (violation) | the same with two acts | a request that overtook an older one leaves the markers of another text |
| `Lessons` | two lessons with an exercise of each kind, and 43 directories of which 4 can be served; two starts, three gestures, four answers | what is served can be solved; verdicts and pages belong to what was asked, across late answers, failures and restarts; nothing is left loading |
| `Inspect` | six linked files, of two formats and both widths of PE: one cell overwritten by any of five values, cut at a grid of lengths, in any order | what was linked is found; a cut file shows nothing that the whole one does not; a bad name costs only names; imports agree with relocations and symbols |

**Bounds.** A machine of 32 cells (of 16 for the step API) with code, a stack of two cells and a hole
between them meets every case the address arithmetic has: code below the
stack, overlapping it (both orders of lookup), at the top of the space (where
region ends and `rsp` wrap) and next to unmapped memory. Three cells of program
with every instruction of a table in every position give each instruction
every other one of its half of the table before it (and in two cells any one), self-modification through an overlapping stack, and
loops; budget 4 with trace limit 3 passes both caps, and leaves complete traces of three steps. Three acts in the
playground are enough for two requests of the same kind under way with a
third between them. Bounds named in the modules and absent from the code are
`MaxTokens`, `MaxGestures`, `MaxActs`, `MaxRequests` (how often a user or client does something), `MaxBoots` and `MaxDamages`.

In `Lessons`, three gestures open a lesson and submit twice, or submit and leave, with
requests of three renderings under way; two starts replace one curriculum by
another, with an exercise of the same id and another answer, under an open page. Each bad directory is wrong in
one thing. In `Inspect`, a file has 125 to 265 cells: every one of them is overwritten by a
null, a small number, an offset inside and an offset far outside of the file; one damage is enough for every
check of the parsers to fail by itself, and a cut before or behind it lets two faults meet. `MaxSections` to `MaxExports`
are the ceilings of `pe.rs`, small enough to be exceeded.

In `RoundTrip`, radix 4 leaves every width a boundary of its own: values on
both sides of the limit of one, two and four bytes, signed and unsigned, are among
the immediates and displacements; the registers are the ones with special cases
(accumulator, rsp, rbp, rdi, r12, r13, high bytes). A run of 13 to 16 prefixes meets the limit of 15 bytes.

**Fairness.** `run_bounded` and `assemble` are loops on a thread of their own:
weak fairness of the next-state relation. In `Emulator` and `StepApi` it is
written out as `[]<>(ended) \/ []<><<Next>>_vars`, because evaluating `ENABLED`
executes the machine again in every state; that the two agree is what the
deadlock check of the same runs shows, in which only `Finished` stutters.
In `CommandPalette` and `LessonSite` (`WF_vars(Resolve)`) the timers fire and a request is answered in the end, with a response or an error: the server cuts a request after 15
seconds (`server/src/lib.rs`, `REQUEST_TIMEOUT`). Nothing is assumed of the user. `Playground` has no liveness property: what it
claims, it claims of every state without a timer or a request under way.

**Order of responses.** HTTP promises none, and no model assumes one: any request under way may be answered next, or fail. What the playground
then shows is wrong when the last question of a kind is answered before an older one. The invariants of `Playground` exclude just this
(`overtaken`), which is a matter of one kind of request: they hold whatever order the other kinds come in. `LateDiagnostics`
shows what happens in the excluded case for the markers; explanations, listings and traces fare alike (section 4).

**Deadlock** is checked for the two loops (`Scrub`, `StepApi`). The other systems may
really stop: an assembler that is done, a page with no user, a server that gave up.

## 4. Disagreements between code and documentation

The violation runs reproduce the findings of `PROJECT.json`. Smaller
observations made while reading, which the models contain where they reach:

- `asm.rs:679`: a branch to an absolute address may shrink again, unlike what
  the comment on monotonic growth suggests; `ShortestForms`
  speaks of `PlainProgram`s only.
- `asm.rs:694`: with branches alone the loop does end, but the number of rounds
  grows with the program (`RoundsArePaidFor`); a chain of 66 jumps, each of which spans the
  next one and just fits until that one grows, needs more rounds than the limit and panics
  although nothing oscillates.
- `cpu.rs:100`: `step` does not look at `halt`. A caller that steps on past a `hlt`
  executes what is behind it, while `cpu.rs:40` says it "simply sees no further effects".
- `encode.rs:59`: a value may fit as an unsigned number and come back negative
  from a form that sign-extends: `add rax, 0xffffffff`, `push 0xffffffff`,
  `mov qword [m], 0xffffffff`, `ret 0xffff`, against "choices that change *meaning* are never made silently"
  (`encode.rs:17`; `SameImmediate` says what is kept). `encode.rs:186`: a rip-relative displacement is cut to four bytes without a check, so that `[rip + label]` 2 GiB or more away is
  not "the label" (`asm.rs:854`; `BranchesLand` says by how much it misses).
- `encode.rs:447`: the operands of `op r, m` may have different widths (the register's
  counts), `inc rax, rbx` ignores its second operand, `push eax` encodes `push rax` and `push ah` `push rsp`.
- `encode.rs:36`: `66 ff /6`, `66 8f`, `66 ff /2`, `66 ff /4`, `66 68` and `66 6a` lose their 16-bit
  width when encoded again, against "guaranteed to decode to an equivalent instruction" (`encode.rs:34`; `Formed` and `FormWidth` say what comes back), and so do `lock` and `rep`.
- `encode.rs:158`: the prefix `67` is emitted for a 32-bit base and not for a 32-bit index without one: `[r9d*4]` is assembled as `[r9*4]`, and a decoded one loses its prefix.
- `decode.rs:295`: the comment has a REX before a legacy prefix ignored; the code refuses it.
- `mem.rs:168`: the zero-length probe accepts the first address behind a region;
  falling off the end of the code is a decode error and not a page fault.
- `alu.rs:183`: a masked count above a narrow width underflows in a debug
  build; the model follows the release build, where the result is the same.
- `emu-state.ts:71`: a faulting `push` or `leave` has written `rsp` and no trace entry says so, so that
  undoing the trace does not recover the initial registers that `emu-state.ts:7` speaks of
  (`FaultsSpoilOnlyTheStackPointer` says when).
- `emu-state.ts:144`: with a truncated trace the registers are undone from the
  wrong end; `ScrubberIsFaithful` is about complete traces.
- `routes/emu.rs:398`: two regions with the same base swap places in a round
  trip (`CapturesAreExact`), against "any point in an execution can be captured" (`docs/architecture.md:153`): a program at the very base of the stack faults at once in a run, because the stack is found first, and executes step by step.
  `routes/emu.rs:285`: of a region over `MAX_REGION_BYTES` the rest is cut off. The response says so (`truncated`), the next request does not.
- `code-editor.ts:106`, `playground.ts:146`, `:172`: whatever response comes is applied, and nothing ties it to what it was
  asked for: a late one leaves markers of an older text, the explanation of another row, a second listing behind the first (`LateDiagnostics`).
  A failed listing empties the panel and so repairs it.
- `playground.ts:139`: a text that assembles to no instruction leaves the explanation of a row that is gone.
- `code-editor.ts:120`: a request that fails is underlined as an error in the first line of the text.
- `playground.ts:285`: the code length of a run is that of the last assembly, which need
  not be of the text that was run; the page colours with it.
- `inspector.ts:72`: of two files under inspection the one answered last stays on the page.
- `lessons.ts:128`: of two answers under way the verdict that comes last stays, and the card has the classes of both.
- `check.rs:28`: a hex string with a character of two bytes at an odd place makes `from_hex`
  panic, so that a lesson with one stops the server at its start with a panic instead of an issue; `+f` reads as 15.
- `check.rs:82`: grading assembles, and `assemble` may panic (`RelaxBiased`): an answer that makes it do so gets an error of the server, a reference
  answer or an example that does stops the server at its start.
- `check.rs:124`: the words of a disassembly count only for an answer that does not assemble. A
  reference answer in prose therefore validates whatever the bytes are.
- `model.rs:184`: "a student who finds a shorter one is not punished for it", but the bytes are compared.
- `validate.rs:47`: two lessons may be prerequisites of each other; and no one checks that a
  reference answer is below the 64 KiB that the endpoint takes, so that a larger one is served and refused (`ServedExercisesAreSolvable` excepts it).
- `load.rs:36`: the front matter ends at the first line that begins with a fence, and what follows on this line is body.
- `elf.rs:713`: a library is named if it is the only one whose name could be read, which in a
  damaged file is not the only one there is.
- `elf.rs:575`: a slot with symbol 0 is an import if that symbol has a name, and a relocation without one.
- `elf.rs:686`, `pe.rs:283`: a segment or section whose end overflows hides what is behind it in the table.
- `pe.rs:479`: of two names of one export the last is shown.
- `pe.rs:644`: the comment says "trust the smaller", the code takes the larger.

## 5. Proofs

All theorems hold for every value of the constants under assumptions that are named
in the modules and evaluated by TLC in the run of the module:

- machine: `WordMod` is the power of two that `WordBits` says (`WidthIsConsistent`), the bitwise operators are tables of
  words (`LogicIsATable`), the instruction table has an instruction for every cell (`TableCoversEveryCell`), and
  the second operand of its `xchg`s is a register, as the decoder has it (`XchgSourceIsARegister`; `decode.rs:453`, `:495`);
- arithmetic: each power is twice the one before it (`PowersDouble`), and no operand is wider than a register (`WidthsFit`);
- encoder and decoder: what is written has sequences of operands and a condition that is a number (`FormsAreInstructions`), what
  is found is numbers (`ContextsAreBytes`), and `Radix` is even (`RadixIsEven`);
- runs: images are words, bases are addresses, the stack fits the address space, limits and windows are numbers
  (`ImagesAreCode`, `BasesAreAddresses`, `StackFits`, `LimitsAreCounts`, `RequestsAreCounted`, `RegionsAreCapped`, `WindowIsSensible`);
- layout: programs are sequences of statements, origins addresses, limits numbers (`ProgramsAreStatements`,
  `OriginsAreAddresses`, `LimitsAreNaturals`);
- files: what is uploaded is a sequence of numbers, as are the values a cell is overwritten with (`FilesAreCells`, `DamagesAreCells`), the
  ceilings of `pe.rs` are numbers (`LimitsAreNumbers`), and nothing is not a cell, a name, a header or an error (`NoneIsNothing`, `NoneIsNoHeader`,
  `NoneIsNoError`, `NoneIsNoPeError`), the parts of a word are numbers (`PartsAreNumbers`): in the code these are an `Option` or a `Result`, whose `None` is no value;
- pages: hits are sequences (`HitsAreSequences`), what is on a disk is listed (`DisksAreListed`), a text of the playground assembles or does not (`TextsAssemble`), a run stops in one of the known ways (`RunsStop`),
  and neither "nothing" nor a panic is a verdict (`SentinelsAreNoVerdicts`).

### Machine (`MachineProofs`)

- `LocateStaysInBounds`: an access that is granted lies within one region, wherever it wraps.
- `StepAdvances`: a step of a well-typed machine ends in a well-typed machine with a well-typed log; memory differs only
  in cells of writable regions; a step that cannot decode changes nothing; its log accounts for it; and one that faults has written no register but `rsp` (`Spares`:
  what can fault comes before what is written, but for the stack; of the two writes of an `xchg` only the first can fault).
  The proof goes instruction by instruction. `Evolves` is the reflexive and transitive relation
  that every micro-operation (set flags, write a register, store, push) preserves, so an
  instruction is the composition of its micro-operations, and a fault in the
  middle is covered by the same relation. `Accounts(c, m)` says that the log of a step in progress gives back machine `c` when undone and
  leads to the present one when replayed; a write whose `before` is the present value, appended to a log that accounts, gives one that
  accounts (`KeepsAccounts`), whichever register or cell was written before and how often.

### Arithmetic (`AluProofs`)

- `CarriesAlwaysChain`, `ConditionsAlwaysOrder`, `ShiftsAreAlwaysArithmetic`, `DivisionAlwaysRebuilds`: the four laws of `AluLaws`, which a run
  checks at widths of up to 8 bits, at every width and for all operands. The invariant (`LawInv`) is that the result is that of the operation on
  the operands; the rest is arithmetic. Everything rests on one fact, that there is one quotient and one remainder (`DivisionIsUnique`), so that the solver is
  told what `\div` and `%` are where a sum has wrapped once. A word is a number below two halves (`SignOf`), and overflow, signed order and the
  sign bit are linear facts about halves. A rotation splits the word at the count and swaps the parts (`Rotates`), so that the opposite rotation
  swaps them back (`FullTurn`). Truncating division leaves a remainder smaller than the divisor and of the dividend's sign (`QuotientLeaves`), and
  no other quotient does (`QuotientIsUnique`): a fault therefore means that there is none of the width.

### Emulator and scrubber (`EmulatorProofs`)

- `TypeCorrectness`: `Spec => []TypeOK`, by `StepAdvances`.
- `MemoryIsProtected`: `Spec => WritesAreProtected`, an action property, from the type invariant and the same lemma.
- `StepsAreExact`: `Spec => EffectsAreExact`, an action property, from the account of a step.
- `StopsAreExplained`: `Spec => []StopIsExplained`. Inductive relative to `TypeOK`
  (the halt of a machine is one of the halts, so a halt is never mistaken for a fault).
- `TraceIsThePrefix`: `Spec => []TraceIsThePrefixOfTheRun`. Inductive together with
  `TypeOK` and `StopIsExplained`: the last clause, that an uncapped trace ends where the machine
  is, is what makes the next entry chain up, and it needs to know that a run that is on has not faulted.
- `ReturnsAreMatched`: `Spec => []ReturnsComeBack`, one half of `TheStackAlwaysGivesBack`. The property speaks of two entries of the trace and is not inductive:
  `CallIsPending` says what connects them, that behind a call the cell under `rsp` holds the return address. It holds because a
  push that succeeds leaves its value where `rsp` points, also where `rsp` wraps (`PushedCell`).
- `PopsAreMatched`: `Spec => []PopsUndoPushes`, the other half, in the same way: `PushIsPending` says that behind a push the cell under `rsp`
  is what the log of the push says, and that its `rsp` before is one up (`DownAndUpAgain`, across the wrap). What a pop writes, and in
  which order, is `PopTakesUnderRsp`.
- `TheScrubberIsFaithful`, `TheStackIsShown`: `ScrubSpec => []ScrubberIsFaithful` and `[]WindowShowsTheStack`. `Recorded` ties each entry of the
  trace to the two machines of the history it lies between, and the log of each entry accounts for its step (`Witnessed`). Logs put end to end account for
  the steps in a row (`AccountsTogether`, by induction on their number), so undoing all of them gives the first machine and replaying the
  first k the one after k steps. `ScrubInv` adds that nothing is shown of a run that is on. For memory, what was copied into the window
  is the machine's cell only where regions are disjoint (`SeedIsTheCell`).
- `FaultsCostOnlyRsp`: `ScrubSpec => []FaultsSpoilOnlyTheStackPointer`. After a fault the machine is ahead of its history, in `rsp` only (`OnlyRspIsAhead`,
  from `StepAdvances`); a register that some entry wrote is undone to what that entry says, wherever undoing starts (`OnlyRspIsOff`).

### Step API (`StepApiProofs`)

- `CapturesAlwaysExact`: `[]CapturesAreExact`, an equivalence: the memory rebuilt from a state is that of the machine if and only if it is `Describable`. For all
  programs and bases: the invariant (`Described`) is that the machine the client's state was taken from has two regions in the order of their bases that
  differ in what they permit, the code and the stack (`CodeAndStack`), which no step, cut or mapping changes. Mapping two such regions gives them back if the first
  base is the lower one and swaps them if the bases are one (`MappingOfTwo`), and what was cut is shorter than what it was cut from (`RoundTripOfTwo`).
- `SteppingFollowsTheRun`: `Spec => SteppingIsTheRun`, the refinement of `Emulator`'s specification, fairness included, for every program that can be described, which no step changes. The server's machine has
  printed nothing yet, the run's machine all the output so far: the two are twins (`Twins`), and no instruction reads what was printed, so a step of one is
  a step of the other. Each action of the client is then a turn of the loop of the run. Fairness of both is written without `ENABLED`, so that
  it maps like the actions.

### Layout (`RelaxationProofs`)

- `BranchesAlwaysLand`: `Spec => []BranchesLand`, for all programs; for a rip-relative operand, that it lands if 32 bits reach and else misses by a multiple of 2^32 (`AsI32`). `Settled` says that once the loop has ended another round would change
  nothing and the lines were made with the lengths they were measured with. `Addresses` is a recursive function; that each
  address is the one before it plus a length is proved by looking at the least number for which it is not.
- `RoundsAreBounded`, `FewJumpsNeverPanic`: of programs with branches to labels only. `Progress` counts: after the first round,
  the flags lost are at least as many as the rounds behind it, because a round that loses none changes no length and ends the loop. It needs to
  know that a flag is lost for a reason that stays: a branch out of the reach of a byte stays out of it while statements only grow (`ReachGrows`). The
  second theorem is what of the claim of `asm.rs:695` is right: with no more jumps than rounds allowed, there is no panic.
- `FormsAreShortest`: `Spec => []ShortestForms`, from `Settled` and `Progress`.

### Encoder and decoder (`RoundTripProofs`)

- `InstructionsAndBytes`: `Spec => []InsnAndCode`, the inductive invariant: what is held is an instruction and bytes, and what was decoded
  has 1 to 15 bytes and is what `Decode` reads in them. That an instruction that was decoded can be encoded again needs it to
  have well-formed operands, and that what was encoded is bytes needs every row of `encode.rs` to leave a well-formed builder
  (`EncodeIsBytes`, one lemma per form of the encoder).
- `InstructionsAreDelimited`: `Spec => []InstructionsDelimitThemselves`, for all bytes. The argument is about two decoders over files that are
  alike up to some byte. As long as what one has read ends there, the other has read the same (`Facing`): byte by byte
  through the prefixes (`PrefixesAreAlike`), the ModRM byte, SIB and displacement (`ModRMFollows`), and each row of the
  opcode tables (`OneByteFollows`, `TwoByteFollows`). Hence what is decoded with length `len` is decoded alike in every
  file with the same first `len` bytes (`DecodeFollows`), the file that ends there among them; and a shorter
  prefix that decoded to something would have been what the whole decodes to, which is longer. It is
  not obvious because the code reads ahead (the ModRM byte is peeked before it is known whether there is one) and reads zeros
  behind the end: the proof shows that neither reaches the result.

### Pages (`PageProofs`)

- `ThePageIsAlwaysTheOneAskedFor`: `Spec => []ThePageIsTheOneAskedFor`. The invariant says where
  a request belongs (`Belongs`): to a rendering that is gone, or to the present one, and then either the present one is loading
  and this is its only request, or it is a lesson that is shown and this is a submission of one of its cards. Without the "only"
  a second answer could replace the page behind its cards. A request that is sent is an `Append` and one that ends is a
  `RemoveAt`, so that two lemmas on sequences carry every step.
- `PraiseIsAlwaysEarned`: `Spec => []PraiseIsEarned`, over the same invariant: a submission under way knows
  its card, the exercise of this card and an answer given on it (`OfACard`), and what is served is among the graders. The grader enters by
  one lemma: what says that an answer is correct is `Correct`, and nothing else is.
- `QuietCardsSpeakOfTheLastAnswer`: `Spec => []QuietCardSpeaksOfTheLastAnswer`. A card that never had two answers
  under way (`lone`) has at most one request, for the last answer given, and shows nothing meanwhile, or has none and is at rest (`Orderly`).
- `ServedIsAlwaysSolvable`: `Spec => []ServedExercisesAreSolvable`. What is served has validated without a panic (`ServedIsValid`);
  no issue means that no two lessons, and no two exercises of a lesson, share an id, so that looking up an exercise by its ids finds the
  exercise that was graded; and the grader panics only over hex strings, which grading the solutions has tried, and over answers that panic themselves (`OnlyHexAndAnswersPanic`).
- `HitsAlwaysMatch`, `LateHitsNeverMoveIt`, `ClosedStaysQuiet`: the three safety properties of the palette.
  The invariant is what the token is for: a search that is still wanted is for the text in the field of an open palette whose
  lessons are not painted yet, there is at most one, and none while the timer is armed. The last two clauses are what keeps the highlight: a
  second answer for the same token would paint over lessons that may be selected.
- `DiagnosticsStayLive`, `TheSelectionGetsExplained`, `TheLastRunGetsTraced`, `TheDisassemblyGetsCurrent`: what a playground at rest shows, with responses in any order and failures.
  The invariant looks ahead: as long as no answer of a kind has overtaken an older one, the last request of this kind under way asks about what the panel must show in the
  end, and if there is none the panel shows it already. A request sent is the last of its kind and forgives what was overtaken before; one that is
  answered or fails leaves its kind without a request, or with the same last one, or is remembered as having overtaken.

### Parsers (`InspectProofs`)

- `ImportsAreAlwaysNeeded`: `InspectSpec => []ImportsAreNeeded`, for all files and all damages. The invariant is only
  that what is shown is the inspection of the present file, and that this is cells (`InspectInv`); the rest is about the parser. The two walks meet in
  the table that a relocation section links to: if no other section has that type, it is the one whose symbols were decoded
  (`OnlyOneOfType`), and the cell at `index * SYM_SIZE` of its raw contents is the first of the record that was decoded at `index`
  (`BothNamesAreOne`). Both walks put lists end to end and select from them, of which two lemmas say what is in the result (`FlattenedElements`, `AllInElements`).
- `CutsInventNothing`: `InspectSpec => NothingIsInvented`, an action property, over the same invariant. A step that shortens a file cuts
  it (`ShorterIsCutOff`), so the theorem is about a file and a beginning of it, both parsed: every parser is monotone in what can be read. What is
  read of the beginning is read alike of the file (`CellOfCut`, `SliceOfCut`, `NameOfCut`), so what is read less is read not at all.
  Three things do not follow from this, because they search, and a search that stops early could find something else:
  - a table found by what its header says (`OfTypeOfCut`, `SymtabOfCut`): the headers of the beginning come first among those of
    the file (`ShdrsOfCut`), so that the first of a type stays the first;
  - a section found by an address (`RvaOfCut`): the first section that decides an address in the beginning of the table decides it in
    the whole (`Decides`), so that no address of the beginning moves;
  - lists that end at a null or at the end of the file (`ListedOfCut`, `DescriptorsOfCut`, `ExportsAtOfCut`): those of the beginning are initial
    segments. The relocation blocks of a PE are walked by a recursive function; that it has values is shown from its last block on
    (`WalkExists`), and that two walks agree as long as both go on, one block at a time (`WalksAlike`).

  `ElfOfCut` and `PeOfCut` put the parts together.

**Model-checked only.** Liveness (`Terminates`, `Converges`, `SearchingEnds`, `SettlesDown`),
because the prover has no `ENABLED` and the arguments need a measure that decreases. `RoundTrip`: that decoding undoes encoding
(`EverythingAssembledDisassembles`, `MeaningIsKept`) pairs each form of the encoder with its row of the decoder, for which the runs are the better means. `Inspect`:
`LinkedIsFound` and `BadNamesSinkNothing` compare with what a linker wrote, and where it put the names; the linker is a constant (of `MCInspect`), and without one there is nothing to
prove. Where a recursive function over
numbers is simple (addresses, joined logs, mapped regions, powers of two), its values are proved by looking at the least number at which
they would be wrong, which needs no induction theorem.

## 6. Not modelled

Sub-width registers and the instructions for them (`movzx`, `movsx`, `setcc`,
`cbw` and its family, `bswap`), `rcl`/`rcr`, three-operand `imul`, PF and AF (in the machine; the encoder and decoder have them); the parser and formatter;
the errors and the explanation that go with
an encoding; the ranking of the lesson search (`search.rs`), the wording of verdicts and their hints; `section_data`, `text`
and `symbol_at` of `types.rs`; fields of a file that are cut in their middle; the server's timeout and thread pool, of which a failed request is all that is
seen; inspector, memory viewer and help cards. `PROJECT.json` gives the reason for each.

## 7. Plan

Done: layout, memory, arithmetic, interpreter, step API, scrubber, palette, playground,
encoder and decoder, curriculum and lesson pages, parsers. Proved: the safety of the machine and its arithmetic, the run loop, the scrubber, the
step API with its refinement, the layout, that instructions delimit themselves, the lesson pages, the palette, the playground, that an ELF file needs what it is said to import, and that a cut file
shows nothing of its own. Next, in this order:

1. `Parser`: statements, labels and operands of the assembler as token classes, composed with `Encoder`
   and `Relaxation`, so that a program that assembles runs on `Machine`.
2. Sub-width registers in `Machine`, with the instructions that exist for them.
3. `Inspector`: two files under inspection, sections loaded while another is disassembled; `MemoryViewer`: caret and selection at the edges.
4. Search: what `search.rs` ranks first, and that it finds what it indexed.
5. Proofs: for the encoder, that `Finish` refuses whenever a high byte meets a REX.
