------------------------------ MODULE Machine ------------------------------
(***************************************************************************)
(* One instruction of the interpreter, `Cpu::step` and `Cpu::execute` in   *)
(* crates/asm-emu/src/cpu.rs, as an operator on the machine.               *)
(*                                                                         *)
(* Registers are seen at full width only, and a cell holds what one        *)
(* full-width access moves.  Which instruction the bytes at rip are is in  *)
(* InsnTable: the first cell of an instruction determines it, and its      *)
(* length says how many cells the decoder needs to see.                    *)
(***************************************************************************)
EXTENDS Memory, Alu

CONSTANTS
  InsnTable,    \* the instruction a cell starts, or one with op "invalid"
  MaxInsnLen    \* the decode window (15 bytes)

Reg == {"rax", "rcx", "rdx", "rbx", "rsp", "rbp", "rsi", "rdi"}

Conditions ==
  {"o", "no", "b", "ae", "e", "ne", "be", "a", "s", "ns", "l", "ge", "le", "g"}

\* Operands: a register, an immediate, [reg + disp], or a relative target.
Operand == [mode : {"reg", "imm", "mem", "rel", "none"}, reg : Reg, disp : Word]

BinaryOps == {"add", "adc", "sub", "sbb", "and", "or", "xor"}
CompareOps == {"cmp", "test"}
UnaryOps == {"not", "neg", "inc", "dec"}
WideOps == {"mul", "imul", "div", "idiv"}
MoveOps == {"mov", "lea", "xchg", "cmov"}
ShiftOps == {"shl", "shr", "sar", "rol", "ror"}
StackOps == {"push", "pop", "leave"}
BranchOps == {"jmp", "jcc", "call", "ret"}
SystemOps == {"syscall", "nop", "hlt", "int3", "ud2"}
Ops == BinaryOps \cup CompareOps \cup UnaryOps \cup WideOps \cup {"imul2", "cqo"}
         \cup MoveOps \cup ShiftOps \cup StackOps \cup BranchOps \cup SystemOps

Instruction ==
  [op : Ops \cup {"invalid"}, len : Nat, dst : Operand, src : Operand,
   cond : Conditions]

ASSUME TableCoversEveryCell == InsnTable \in [Word -> Instruction]
\* The decoder gives xchg its ModRM operand first and a register second
\* (decode.rs:453, :495), so that only the first write can fault.
ASSUME XchgSourceIsARegister ==
  \A x \in Word : InsnTable[x].op = "xchg" => InsnTable[x].src.mode = "reg"
ASSUME WindowIsPositive == MaxInsnLen \in Nat \ {0}
ASSUME WidthIsConsistent ==
  /\ WordBits \in Nat \ {0}
  /\ Pow2 \in [0 .. WordBits -> Nat \ {0}]
  /\ Pow2[WordBits] = WordMod
ASSUME LogicIsATable == Logic \in [LogicOps -> [Word -> [Word -> Word]]]

(***************************************************************************)
(* struct Cpu, without the step counter nobody reads.  `halt` is "none",   *)
(* "halted", "exited" or "breakpoint".                                     *)
(***************************************************************************)
Halts == {"none", "halted", "exited", "breakpoint"}
Faults ==
  {"none", "notMapped", "permission", "divide", "unsupported", "decode", "syscall"}

Cpus ==
  [regs : [Reg -> Word], rip : Word, flags : Flags, mem : Memories, halt : Halts,
   stdout : Seq(Word), stderr : Seq(Word)]

RegWrites == [reg : Reg, before : Word, after : Word]
MemWrites == [addr : Word, before : Seq(Word), after : Seq(Word)]

(***************************************************************************)
(* A step in progress: the machine, the effects logged so far, and the     *)
(* fault that ended it, if any.  The code's `?` is the test on `fault`: an *)
(* operation after a fault does nothing, and what was done stays done.     *)
(***************************************************************************)
Begin(c, nextIp) ==
  [cpu |-> [c EXCEPT !.rip = nextIp], regWrites |-> <<>>, memWrites |-> <<>>,
   fault |-> "none"]

Steps ==
  [cpu : Cpus, regWrites : Seq(RegWrites), memWrites : Seq(MemWrites), fault : Faults]

Raise(m, f) == [m EXCEPT !.fault = f]
Unless(f, m, next) == IF f # "none" THEN Raise(m, f) ELSE next
AfterOk(m, next) == IF m.fault # "none" THEN m ELSE next

RegOf(m, r) == m.cpu.regs[r]
Trunc(v) == v % WordMod

WithCpu(m, c) == [m EXCEPT !.cpu = c]

\* Mutant of PutReg: the old value is read after the write.
PutRegLate(m, r, v) ==
  LET regs == [m.cpu.regs EXCEPT ![r] = v]
      write == [reg |-> r, before |-> v, after |-> v]
  IN  [m EXCEPT !.cpu = [m.cpu EXCEPT !.regs = regs],
                !.regWrites = Append(m.regWrites, write)]

PutReg(m, r, v) ==
  LET regs == [m.cpu.regs EXCEPT ![r] = v]
      write == [reg |-> r, before |-> m.cpu.regs[r], after |-> v]
  IN  [m EXCEPT !.cpu = [m.cpu EXCEPT !.regs = regs],
                !.regWrites = Append(m.regWrites, write)]

SetFlags(m, f) == WithCpu(m, [m.cpu EXCEPT !.flags = f])
SetRip(m, a) == WithCpu(m, [m.cpu EXCEPT !.rip = a])
SetHalt(m, h) == WithCpu(m, [m.cpu EXCEPT !.halt = h])

Store(m, a, cells) ==
  LET at == Locate(m.cpu.mem, a, Len(cells), "w")
      write == [addr |-> a, before |-> ReadCells(m.cpu.mem, at, Len(cells)), after |-> cells]
  IN  Unless(at.fault, m,
        [m EXCEPT !.cpu = [m.cpu EXCEPT !.mem = WriteCells(m.cpu.mem, at, cells)],
                  !.memWrites = Append(m.memWrites, write)])

(***************************************************************************)
(* Operands                                                                *)
(***************************************************************************)
EffectiveAddress(m, o) == Trunc(RegOf(m, o.reg) + o.disp)

LoadFault(m, a, n) == Locate(m.cpu.mem, a, n, "r").fault
Loaded(m, a, n) == ReadCells(m.cpu.mem, Locate(m.cpu.mem, a, n, "r"), n)

ReadFault(m, o) ==
  CASE o.mode \in {"reg", "imm"} -> "none"
    [] o.mode = "mem" -> LoadFault(m, EffectiveAddress(m, o), 1)
    [] OTHER -> "unsupported"

ReadsFault(m, o1, o2) == IF ReadFault(m, o1) # "none" THEN ReadFault(m, o1) ELSE ReadFault(m, o2)

ReadOp(m, o) ==
  CASE o.mode = "reg" -> RegOf(m, o.reg)
    [] o.mode = "imm" -> o.disp
    [] OTHER -> Loaded(m, EffectiveAddress(m, o), 1)[1]

WriteOp(m, o, v) ==
  CASE o.mode = "reg" -> PutReg(m, o.reg, v)
    [] o.mode = "mem" -> Store(m, EffectiveAddress(m, o), <<v>>)
    [] OTHER -> Raise(m, "unsupported")

(***************************************************************************)
(* The stack: push lowers rsp and then stores, pop loads and then raises   *)
(* rsp.                                                                    *)
(***************************************************************************)
\* Mutant of Push: rsp does not wrap.
PushUnwrapped(m, v) ==
  LET sp == RegOf(m, "rsp") - 1 IN Store(PutReg(m, "rsp", sp), sp, <<v>>)

Push(m, v) ==
  LET sp == Trunc(RegOf(m, "rsp") - 1)
  IN  Store(PutReg(m, "rsp", sp), sp, <<v>>)

PopFault(m) == LoadFault(m, RegOf(m, "rsp"), 1)
Popped(m) == Loaded(m, RegOf(m, "rsp"), 1)[1]
DropTop(m) == PutReg(m, "rsp", Trunc(RegOf(m, "rsp") + 1))

(***************************************************************************)
(* Arithmetic.  The flags are applied before the result is written.        *)
(***************************************************************************)
BinaryResult(op, a, b, f) ==
  CASE op = "add" -> Adc(a, b, FALSE, WordBits)
    [] op = "adc" -> Adc(a, b, f.cf, WordBits)
    [] op \in {"sub", "cmp"} -> Sbb(a, b, FALSE, WordBits)
    [] op = "sbb" -> Sbb(a, b, f.cf, WordBits)
    [] op = "test" -> LogicOp("and", a, b, WordBits)
    [] OTHER -> LogicOp(op, a, b, WordBits)

Compute(m, i) ==
  BinaryResult(i.op, ReadOp(m, i.dst), ReadOp(m, i.src), m.cpu.flags)

ExecBinary(m, i) ==
  Unless(ReadsFault(m, i.dst, i.src), m,
    WriteOp(SetFlags(m, Compute(m, i).flags), i.dst, Compute(m, i).val))

ExecCompare(m, i) ==
  Unless(ReadsFault(m, i.dst, i.src), m, SetFlags(m, Compute(m, i).flags))

UnaryResult(op, a, f) ==
  CASE op = "not" -> [val |-> WordMod - 1 - a, flags |-> f]
    [] op = "neg" -> Sbb(0, a, FALSE, WordBits)
    [] op = "inc" -> KeepCarry(Adc(a, 1, FALSE, WordBits), f.cf)
    [] OTHER -> KeepCarry(Sbb(a, 1, FALSE, WordBits), f.cf)

ExecUnary(m, i) ==
  LET r == UnaryResult(i.op, ReadOp(m, i.dst), m.cpu.flags)
  IN  Unless(ReadFault(m, i.dst), m, WriteOp(SetFlags(m, r.flags), i.dst, r.val))

\* Multiplies set only CF and OF, after the result is written.
SetOverflow(m, b) == SetFlags(m, [m.cpu.flags EXCEPT !.cf = b, !.of = b])

PutPair(m, low, high) == PutReg(PutReg(m, "rax", low), "rdx", high)

ExecMul(m, i) ==
  LET p == Product(RegOf(m, "rax"), ReadOp(m, i.dst), WordBits)
  IN  Unless(ReadFault(m, i.dst), m,
        SetOverflow(PutPair(m, p.low, p.high), p.high # 0))

ExecImul(m, i) ==
  LET a == Signed(RegOf(m, "rax"), WordBits)
      b == Signed(ReadOp(m, i.dst), WordBits)
      p == Product(a, b, WordBits)
  IN  Unless(ReadFault(m, i.dst), m,
        SetOverflow(PutPair(m, p.low, p.high), Signed(p.low, WordBits) # a * b))

ExecImul2(m, i) ==
  LET a == Signed(ReadOp(m, i.dst), WordBits)
      b == Signed(ReadOp(m, i.src), WordBits)
      low == Trunc(a * b)
      written == WriteOp(m, i.dst, low)
  IN  Unless(ReadsFault(m, i.dst, i.src), m,
        AfterOk(written, SetOverflow(written, Signed(low, WordBits) # a * b)))

\* rdx:rax by the operand.
ExecDiv(m, i) ==
  LET r == Divide(i.op = "idiv", RegOf(m, "rdx"), RegOf(m, "rax"), ReadOp(m, i.dst),
                  WordBits)
  IN  Unless(ReadFault(m, i.dst), m,
        Unless(r.fault, m, PutPair(m, r.quot, r.rem)))

\* cqo spreads the sign of rax over rdx.
ExecCqo(m) ==
  PutReg(m, "rdx", IF Negative(RegOf(m, "rax"), WordBits) THEN WordMod - 1 ELSE 0)

ExecShift(m, i) ==
  LET r == Shift(i.op, ReadOp(m, i.dst), ReadOp(m, i.src), m.cpu.flags, WordBits)
      written == WriteOp(m, i.dst, r.val)
  IN  Unless(ReadsFault(m, i.dst, i.src), m,
        AfterOk(written, SetFlags(written, r.flags)))

(***************************************************************************)
(* Data movement                                                           *)
(***************************************************************************)
ExecMov(m, i) == Unless(ReadFault(m, i.src), m, WriteOp(m, i.dst, ReadOp(m, i.src)))

\* lea never touches memory.
ExecLea(m, i) ==
  IF i.src.mode = "mem" THEN WriteOp(m, i.dst, EffectiveAddress(m, i.src))
                        ELSE Raise(m, "unsupported")

\* Mutant of ExecXchg: the second operand is written first.
ExecXchgBackwards(m, i) ==
  LET first == WriteOp(m, i.src, ReadOp(m, i.dst))
  IN  Unless(ReadsFault(m, i.dst, i.src), m,
        AfterOk(first, WriteOp(first, i.dst, ReadOp(m, i.src))))

\* The second write sees what the first one did, its fault included.
ExecXchg(m, i) ==
  LET first == WriteOp(m, i.dst, ReadOp(m, i.src))
  IN  Unless(ReadsFault(m, i.dst, i.src), m,
        AfterOk(first, WriteOp(first, i.src, ReadOp(m, i.dst))))

\* The source of a cmov is read whether or not the condition holds.
ExecCmov(m, i) ==
  Unless(ReadFault(m, i.src), m,
    IF Holds(i.cond, m.cpu.flags) THEN WriteOp(m, i.dst, ReadOp(m, i.src)) ELSE m)

ExecPush(m, i) == Unless(ReadFault(m, i.dst), m, Push(m, ReadOp(m, i.dst)))

\* Mutant of ExecPop: rsp is raised after the operand is written.
ExecPopLate(m, i) ==
  LET written == WriteOp(m, i.dst, Popped(m))
  IN  Unless(PopFault(m), m, AfterOk(written, DropTop(written)))

ExecPop(m, i) == Unless(PopFault(m), m, WriteOp(DropTop(m), i.dst, Popped(m)))

\* leave moves rbp into rsp before the pop that can fault.
ExecLeave(m) ==
  LET framed == PutReg(m, "rsp", RegOf(m, "rbp"))
  IN  Unless(PopFault(framed), framed, PutReg(DropTop(framed), "rbp", Popped(framed)))

(***************************************************************************)
(* Control flow.  m.cpu.rip is already the fall-through address.           *)
(***************************************************************************)
BranchFault(m, o) == IF o.mode = "rel" THEN "none" ELSE ReadFault(m, o)
BranchDest(m, o) ==
  IF o.mode = "rel" THEN Trunc(m.cpu.rip + o.disp) ELSE ReadOp(m, o)

ExecJmp(m, i) == Unless(BranchFault(m, i.dst), m, SetRip(m, BranchDest(m, i.dst)))

ExecJcc(m, i) ==
  CASE ~Holds(i.cond, m.cpu.flags) -> m
    [] Holds(i.cond, m.cpu.flags) /\ i.dst.mode = "rel" ->
         SetRip(m, BranchDest(m, i.dst))
    [] OTHER -> Raise(m, "unsupported")

ExecCall(m, i) ==
  LET pushed == Push(m, m.cpu.rip)
  IN  Unless(BranchFault(m, i.dst), m,
        AfterOk(pushed, SetRip(pushed, BranchDest(m, i.dst))))

\* `ret imm` also drops its arguments.
ExecRet(m, i) ==
  LET popped == DropTop(m)
      dropped == IF i.dst.mode = "imm"
                   THEN PutReg(popped, "rsp", Trunc(RegOf(popped, "rsp") + i.dst.disp))
                   ELSE popped
  IN  Unless(PopFault(m), m, SetRip(dropped, Popped(m)))

(***************************************************************************)
(* System calls: write(fd, buf, count) and exit.  The buffer is read       *)
(* before the descriptor is looked at.                                     *)
(***************************************************************************)
SysWrite == 1
SysExit == 2
Stdout == 1
Stderr == 2

ExecWrite(m) ==
  LET fd == RegOf(m, "rdi")
      count == RegOf(m, "rdx")
      bytes == Loaded(m, RegOf(m, "rsi"), count)
      printed ==
        WithCpu(m, IF fd = Stdout THEN [m.cpu EXCEPT !.stdout = m.cpu.stdout \o bytes]
                                  ELSE [m.cpu EXCEPT !.stderr = m.cpu.stderr \o bytes])
  IN  Unless(LoadFault(m, RegOf(m, "rsi"), count), m,
        IF fd \in {Stdout, Stderr} THEN PutReg(printed, "rax", count)
                                   ELSE Raise(m, "syscall"))

ExecSyscall(m) ==
  CASE RegOf(m, "rax") = SysWrite -> ExecWrite(m)
    [] RegOf(m, "rax") = SysExit -> PutReg(SetHalt(m, "exited"), "rax", 0)
    [] OTHER -> Raise(m, "syscall")

(***************************************************************************)
(* The dispatcher                                                          *)
(***************************************************************************)
Execute(m, i) ==
  CASE i.op \in BinaryOps -> ExecBinary(m, i)
    [] i.op \in CompareOps -> ExecCompare(m, i)
    [] i.op \in UnaryOps -> ExecUnary(m, i)
    [] i.op = "mul" -> ExecMul(m, i)
    [] i.op = "imul" -> ExecImul(m, i)
    [] i.op = "imul2" -> ExecImul2(m, i)
    [] i.op \in {"div", "idiv"} -> ExecDiv(m, i)
    [] i.op = "cqo" -> ExecCqo(m)
    [] i.op \in ShiftOps -> ExecShift(m, i)
    [] i.op = "mov" -> ExecMov(m, i)
    [] i.op = "lea" -> ExecLea(m, i)
    [] i.op = "xchg" -> ExecXchg(m, i)
    [] i.op = "cmov" -> ExecCmov(m, i)
    [] i.op = "push" -> ExecPush(m, i)
    [] i.op = "pop" -> ExecPop(m, i)
    [] i.op = "leave" -> ExecLeave(m)
    [] i.op = "jmp" -> ExecJmp(m, i)
    [] i.op = "jcc" -> ExecJcc(m, i)
    [] i.op = "call" -> ExecCall(m, i)
    [] i.op = "ret" -> ExecRet(m, i)
    [] i.op = "syscall" -> ExecSyscall(m)
    [] i.op = "nop" -> m
    [] i.op = "hlt" -> SetHalt(m, "halted")
    [] i.op = "int3" -> SetHalt(m, "breakpoint")
    [] OTHER -> Raise(m, "unsupported")

(***************************************************************************)
(* `step`: fetch a window at rip, decode, advance rip, execute.            *)
(***************************************************************************)
Window(c) == FetchWindow(c.mem, c.rip, MaxInsnLen)
Current(c) == InsnTable[Window(c).cells[1]]

DecodeFault(c) ==
  LET w == Window(c)
  IN  CASE w.fault # "none" -> w.fault
        [] w.fault = "none" /\ w.cells = <<>> -> "decode"
        [] OTHER -> IF Current(c).op = "invalid" \/ Current(c).len > Len(w.cells)
                      THEN "decode" ELSE "none"

Step(c) ==
  IF DecodeFault(c) # "none"
    THEN Raise(Begin(c, c.rip), DecodeFault(c))
    ELSE Execute(Begin(c, Trunc(c.rip + Current(c).len)), Current(c))

(***************************************************************************)
(* The record of a step that retired, struct Effects.                      *)
(***************************************************************************)
EffectsOf(c, m) ==
  [insn |-> Current(c), ip |-> c.rip, next |-> m.cpu.rip,
   flagsBefore |-> c.flags, flagsAfter |-> m.cpu.flags,
   regWrites |-> m.regWrites, memWrites |-> m.memWrites]

Effects ==
  [insn : Instruction, ip : Word, next : Word, flagsBefore : Flags, flagsAfter : Flags,
   regWrites : Seq(RegWrites), memWrites : Seq(MemWrites)]

(***************************************************************************)
(* What a log of writes says: the value before the first of them, or after *)
(* the last of them, at a register or an address.                          *)
(***************************************************************************)
LastOf(S) == CHOOSE i \in S : \A j \in S : j <= i
CellAt(mem, a) == mem[FirstOf(Covering(mem, a, 1))].data
                     [a - mem[FirstOf(Covering(mem, a, 1))].base + 1]
Mapped(mem) == {a \in Word : Covering(mem, a, 1) # {}}

RegTouches(log, r) == {j \in DOMAIN log : log[j].reg = r}
RegBefore(regs, log, r) ==
  IF RegTouches(log, r) = {} THEN regs[r] ELSE log[FirstOf(RegTouches(log, r))].before
RegAfter(regs, log, r) ==
  IF RegTouches(log, r) = {} THEN regs[r] ELSE log[LastOf(RegTouches(log, r))].after

MemTouches(log, a) == {j \in DOMAIN log : a - log[j].addr + 1 \in DOMAIN log[j].after}
MemBefore(mem, log, a) ==
  LET j == FirstOf(MemTouches(log, a))
  IN  IF MemTouches(log, a) = {} THEN CellAt(mem, a)
                                 ELSE log[j].before[a - log[j].addr + 1]
MemAfter(mem, log, a) ==
  LET j == LastOf(MemTouches(log, a))
  IN  IF MemTouches(log, a) = {} THEN CellAt(mem, a)
                                 ELSE log[j].after[a - log[j].addr + 1]
=============================================================================
