------------------------------ MODULE Emulator ------------------------------
(***************************************************************************)
(* The run loop of the interpreter, `Cpu::run_bounded` over a machine made *)
(* by `Cpu::with_code` (crates/asm-emu/src/cpu.rs).  One action is one     *)
(* turn of the loop; the instructions are told apart by the class of their *)
(* operation, as the dispatcher does.                                      *)
(***************************************************************************)
EXTENDS Machine

CONSTANTS
  Images,       \* the code images that may be loaded: sequences of cells
  Bases,        \* the addresses they may be loaded at
  StackBase,    \* the lowest cell of the stack
  StackSize,    \* cells in the stack
  MaxSteps,     \* run_bounded's max_steps
  TraceLimit    \* run_bounded's trace_limit

ASSUME ImagesAreCode == Images \subseteq Seq(Word)
ASSUME BasesAreAddresses == Bases \subseteq Word
ASSUME StackFits ==
  StackBase \in Word /\ StackSize \in Nat \ {0} /\ StackBase + StackSize \in Word
ASSUME LimitsAreCounts == MaxSteps \in Nat /\ TraceLimit \in Nat

VARIABLES
  cpu,     \* the machine
  trace,   \* the effects recorded so far
  steps,   \* instructions retired
  stop,    \* "running", or why the run ended
  start    \* history: the machine as it was loaded

vars == <<cpu, trace, steps, stop, start>>

Stops == {"running", "stepLimit"} \cup (Halts \ {"none"}) \cup (Faults \ {"none"})

(***************************************************************************)
(* `with_code`: code in an r-x region, a zeroed rw- stack, rsp one cell    *)
(* below its top, everything else cleared.                                 *)
(***************************************************************************)
Text(code, base) == [base |-> base, perms |-> {"r", "x"}, data |-> code]
Stack == [base |-> StackBase, perms |-> {"r", "w"}, data |-> [k \in 1 .. StackSize |-> 0]]

WithCode(code, base) ==
  [regs |-> [r \in Reg |-> IF r = "rsp" THEN StackBase + StackSize - 1 ELSE 0],
   rip |-> base, flags |-> NoFlags,
   mem |-> MapWith(MapWith(<<>>, Text(code, base)), Stack),
   halt |-> "none", stdout |-> <<>>, stderr |-> <<>>]

Init ==
  /\ \E code \in Images, base \in Bases : cpu = WithCode(code, base)
  /\ start = cpu
  /\ trace = <<>>
  /\ steps = 0
  /\ stop = "running"

(***************************************************************************)
(* A turn of the loop.  The halt test comes first, then the budget, then   *)
(* the step.                                                               *)
(***************************************************************************)
StopOnHalt ==
  /\ stop = "running"
  /\ cpu.halt # "none"
  /\ stop' = cpu.halt
  /\ UNCHANGED <<cpu, trace, steps, start>>

\* Mutant of StopOnLimit: the budget is tested before the halt.
LimitBeforeHalt ==
  /\ stop = "running" /\ steps >= MaxSteps
  /\ stop' = "stepLimit"
  /\ UNCHANGED <<cpu, trace, steps, start>>

StopOnLimit ==
  /\ stop = "running"
  /\ cpu.halt = "none"
  /\ steps >= MaxSteps
  /\ stop' = "stepLimit"
  /\ UNCHANGED <<cpu, trace, steps, start>>

MayStep == stop = "running" /\ cpu.halt = "none" /\ steps < MaxSteps

\* Mutants of Retires: the trace grows one entry past its cap; the step is not
\* counted.
RetiresPastCap(m) ==
  /\ m.fault = "none"
  /\ steps' = steps + 1
  /\ trace' = IF Len(trace) <= TraceLimit THEN Append(trace, EffectsOf(cpu, m)) ELSE trace
  /\ UNCHANGED stop

RetiresUncounted(m) ==
  /\ m.fault = "none"
  /\ trace' = IF Len(trace) < TraceLimit THEN Append(trace, EffectsOf(cpu, m)) ELSE trace
  /\ UNCHANGED <<steps, stop>>

\* `step` returned its effects, or the fault; either way the machine keeps
\* whatever the instruction did.
Retires(m) ==
  /\ m.fault = "none"
  /\ steps' = steps + 1
  /\ trace' = IF Len(trace) < TraceLimit THEN Append(trace, EffectsOf(cpu, m)) ELSE trace
  /\ UNCHANGED stop

FaultsWith(m) ==
  /\ m.fault # "none"
  /\ stop' = m.fault
  /\ UNCHANGED <<trace, steps>>

\* The machine steps once; m is the step's outcome.
TakesStep ==
  \E m \in {Step(cpu)} : cpu' = m.cpu /\ UNCHANGED start /\ (Retires(m) \/ FaultsWith(m))

Executes(ops) ==
  MayStep /\ DecodeFault(cpu) = "none" /\ Current(cpu).op \in ops /\ TakesStep

CannotDecode == MayStep /\ DecodeFault(cpu) # "none" /\ TakesStep
Calculate == Executes(BinaryOps \cup UnaryOps \cup ShiftOps)
Compare == Executes(CompareOps)
Multiply == Executes(WideOps \cup {"imul2", "cqo"})
Move == Executes(MoveOps)
UseStack == Executes(StackOps)
Branch == Executes(BranchOps)
CallSystem == Executes(SystemOps)

\* The loop has returned.
Finished == stop # "running" /\ UNCHANGED vars

Next ==
  \/ Calculate \/ Compare \/ Multiply \/ Move \/ UseStack \/ Branch \/ CallSystem
  \/ CannotDecode \/ StopOnHalt \/ StopOnLimit \/ Finished

\* The loop runs on its own thread until it returns.  This is weak fairness of
\* Next, a step of which changes something exactly while the run is on (that one
\* can be taken is the absence of deadlock); written out because TLC would
\* execute the machine many times over to find out whether it is enabled.
Fairness == []<>(stop # "running") \/ []<><<Next>>_vars
Spec == Init /\ [][Next]_vars /\ Fairness
-----------------------------------------------------------------------------
\* Every variable holds a value of its type: the words of the machine stay
\* below 2^64, its regions stay regions, the log holds well-formed entries.
TypeOK ==
  /\ cpu \in Cpus
  /\ start \in Cpus
  /\ trace \in Seq(Effects)
  /\ steps \in 0 .. MaxSteps
  /\ stop \in Stops

\* The effects of a step are exact (effects.rs: "every observable change"):
\* the befores of its log are what undoing it must restore, whatever register
\* or cell it wrote twice, and the afters are what redoing it must reach.
EffectsAreExact ==
  [][Len(trace') > Len(trace) =>
       LET e == trace'[Len(trace')]
       IN  /\ \A r \in Reg : /\ cpu.regs[r] = RegBefore(cpu'.regs, e.regWrites, r)
                             /\ cpu'.regs[r] = RegAfter(cpu.regs, e.regWrites, r)
           /\ \A a \in Mapped(cpu.mem) :
                /\ CellAt(cpu.mem, a) = MemBefore(cpu'.mem, e.memWrites, a)
                /\ CellAt(cpu'.mem, a) = MemAfter(cpu.mem, e.memWrites, a)]_vars

\* W^X (mem.rs:8): no step, faulting or not, moves, resizes or re-permissions a
\* region, and none changes a cell of a region that is not writable.
WritesAreProtected == [][Protected(cpu.mem, cpu'.mem)]_vars

\* The trace is the run's prefix, capped (run_bounded's doc): entry i+1 starts
\* at the rip and with the flags that entry i left, the first one at the entry
\* point, and an uncapped trace of a run that did not fault ends where the
\* machine is (which is where it was loaded, when nothing retired).
TraceIsThePrefixOfTheRun ==
  /\ Len(trace) = (IF steps < TraceLimit THEN steps ELSE TraceLimit)
  /\ Len(trace) > 0 => trace[1].ip = start.rip /\ trace[1].flagsBefore = start.flags
  /\ \A i \in 1 .. Len(trace) - 1 :
       trace[i].next = trace[i+1].ip /\ trace[i].flagsAfter = trace[i+1].flagsBefore
  /\ Len(trace) = steps /\ steps > 0 /\ stop \notin Faults =>
       trace[steps].next = cpu.rip /\ trace[steps].flagsAfter = cpu.flags
  /\ steps = 0 /\ stop \notin Faults => cpu = start

\* Why a run ended is what ended it: a halt is reported as that halt even when
\* it used up the last step of the budget, "stepLimit" means that the whole
\* budget was spent on instructions that retired, and a faulted run had
\* budget left.
StopIsExplained ==
  /\ stop \in Halts => cpu.halt = stop
  /\ stop = "stepLimit" => cpu.halt = "none" /\ steps = MaxSteps
  /\ stop \in Faults => cpu.halt = "none" /\ steps < MaxSteps

\* A ret right after the call that pushed its return address comes back to the
\* instruction after the call.
ReturnsComeBack ==
  \A i \in 1 .. Len(trace) - 1 :
    trace[i].insn.op = "call" /\ trace[i+1].insn.op = "ret" =>
      trace[i+1].next = Trunc(trace[i].ip + trace[i].insn.len)

\* A pop right after a push undoes it (`M::Push`, `M::Pop`): it writes the value pushed,
\* rsp is what it was before, unless it is popped itself, and the address of an operand
\* in memory is taken with this rsp.
PopsUndoPushes ==
  \A i \in 1 .. Len(trace) - 1 :
    trace[i].insn.op = "push" /\ trace[i + 1].insn.op = "pop" =>
      LET dst == trace[i + 1].insn.dst
          value == trace[i].memWrites[1].after
          sp == trace[i].regWrites[1].before
          regs == trace[i + 1].regWrites
          stores == trace[i + 1].memWrites
      IN  /\ regs[1].after = sp
          /\ dst.mode = "reg" => regs[2].reg = dst.reg /\ regs[2].after = value[1]
          /\ dst.mode = "mem" =>
               /\ Len(regs) = 1 /\ stores[1].after = value
               /\ dst.reg = "rsp" => stores[1].addr = Trunc(sp + dst.disp)

\* The stack gives back what was put on it, wherever it lies and whatever overlaps it:
\* a push and the pop behind it, a call and the ret behind it, find the same cell.
TheStackGivesBack == ReturnsComeBack /\ PopsUndoPushes

\* Every run ends, whatever the program.
Terminates == <>(stop # "running")
=============================================================================
