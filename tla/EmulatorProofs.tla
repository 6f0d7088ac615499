--------------------------- MODULE EmulatorProofs ---------------------------
(***************************************************************************)
(* Safety of the run loop, for every instruction table, image, base and    *)
(* limit, and what the scrubber shows of its runs.  The arguments rest on  *)
(* StepAdvances: the loop itself only decides when to step and what to     *)
(* record.                                                                 *)
(***************************************************************************)
EXTENDS Scrubber, MachineProofs

USE ImagesAreCode, BasesAreAddresses, StackFits, LimitsAreCounts

\* A turn of the loop stops it or takes a step.
StepsOnce == MayStep /\ TakesStep

\* Every action of the loop either stops the run or steps the machine once.
LEMMA NextIsATurn ==
  Next => StopOnHalt \/ StopOnLimit \/ StepsOnce \/ UNCHANGED vars
BY DEF Next, StepsOnce, Calculate, Compare, Multiply, Move, UseStack, Branch, CallSystem,
       CannotDecode, Executes, Finished

\* A machine fresh from `with_code` is well-formed.
LEMMA WithCodeIsTyped ==
  ASSUME NEW code \in Images, NEW base \in Bases
  PROVE  WithCode(code, base) \in Cpus
<1> DEFINE regs == [r \in Reg |-> IF r = "rsp" THEN StackBase + StackSize - 1 ELSE 0]
           mem == MapWith(MapWith(<<>>, Text(code, base)), Stack)
<1>1. 0 \in Word /\ StackBase + StackSize - 1 \in Word /\ StackBase \in Word
  BY WordModIsPositive DEF Word
<1>2. regs \in [Reg -> Word]
  BY <1>1
<1>3. mem \in Memories
  <2>1. Text(code, base) \in Regions
    BY DEF Text, Regions, Perms
  <2>2. [k \in 1 .. StackSize |-> 0] \in Seq(Word)
    BY <1>1
  <2>3. Stack \in Regions
    BY <1>1, <2>2 DEF Stack, Regions, Perms
  <2>4. <<>> \in Memories
    BY DEF Memories
  <2>. QED  BY <2>1, <2>3, <2>4, MapWithIsTyped
<1> HIDE DEF regs, mem
<1>4. NoFlags \in Flags /\ base \in Word /\ "none" \in Halts /\ <<>> \in Seq(Word)
  BY DEF NoFlags, Flags, Halts
<1>. QED  BY <1>2, <1>3, <1>4 DEF WithCode, Cpus, regs, mem

\* What a step of the loop is: the machine moves as `step` says, and the loop
\* records the step or the fault.
LEMMA StepOfTheLoop ==
  ASSUME cpu \in Cpus, StepsOnce
  PROVE  /\ cpu' = Step(cpu).cpu
         /\ cpu' \in Cpus
         /\ Protected(cpu.mem, cpu'.mem)
         /\ start' = start
         /\ \/ /\ Step(cpu).fault = "none"
               /\ Retires(Step(cpu))
            \/ /\ Step(cpu).fault \in Faults \ {"none"}
               /\ FaultsWith(Step(cpu))
               /\ cpu'.halt = cpu.halt
<1>1. cpu' = Step(cpu).cpu /\ start' = start /\ (Retires(Step(cpu)) \/ FaultsWith(Step(cpu)))
  BY DEF StepsOnce, TakesStep
<1>2. /\ Step(cpu) \in Steps
      /\ Protected(cpu.mem, Step(cpu).cpu.mem)
      /\ Step(cpu).fault # "none" => Step(cpu).cpu.halt = cpu.halt
  BY StepAdvances
<1>3. Step(cpu).fault \in Faults /\ Step(cpu).cpu \in Cpus
  BY <1>2 DEF Steps
<1>. QED  BY <1>1, <1>2, <1>3 DEF Retires, FaultsWith

-----------------------------------------------------------------------------
(***************************************************************************)
(* Type correctness.                                                       *)
(***************************************************************************)
LEMMA InitIsTyped == Init => TypeOK
<1> SUFFICES ASSUME Init PROVE TypeOK
  OBVIOUS
<1>1. cpu \in Cpus /\ start \in Cpus
  BY WithCodeIsTyped DEF Init
<1>2. trace = <<>> /\ steps = 0 /\ stop = "running"
  BY DEF Init
<1>3. trace \in Seq(Effects) /\ steps \in 0 .. MaxSteps /\ stop \in Stops
  BY <1>2 DEF Stops
<1>. QED  BY <1>1, <1>3 DEF TypeOK

\* A turn of the loop keeps every variable in its type.
LEMMA NextIsTyped == TypeOK /\ [Next]_vars => TypeOK'
<1> SUFFICES ASSUME TypeOK, [Next]_vars PROVE TypeOK'
  OBVIOUS
<1>1. /\ cpu \in Cpus /\ start \in Cpus /\ trace \in Seq(Effects)
      /\ steps \in 0 .. MaxSteps /\ stop \in Stops
  BY DEF TypeOK
<1>2. CASE StopOnHalt
  <2>1. stop' \in Halts \ {"none"}
    BY <1>1, <1>2 DEF StopOnHalt, Cpus
  <2>. QED  BY <1>1, <1>2, <2>1 DEF StopOnHalt, TypeOK, Stops
<1>3. CASE StopOnLimit
  BY <1>1, <1>3 DEF StopOnLimit, TypeOK, Stops
<1>4. CASE StepsOnce
  <2>1. cpu' \in Cpus /\ start' \in Cpus
    BY <1>1, <1>4, StepOfTheLoop
  <2>2. CASE Step(cpu).fault = "none" /\ Retires(Step(cpu))
    <3>1. steps' \in 0 .. MaxSteps
      BY <1>1, <1>4, <2>2 DEF Retires, StepsOnce, MayStep
    <3>2. EffectsOf(cpu, Step(cpu)) \in Effects
      BY <1>1, <2>2, EffectsAreTyped
    <3>3. trace' \in Seq(Effects)
      BY <1>1, <2>2, <3>2 DEF Retires
    <3>4. stop' \in Stops
      BY <1>1, <2>2 DEF Retires
    <3>. QED  BY <2>1, <3>1, <3>3, <3>4 DEF TypeOK
  <2>3. CASE Step(cpu).fault \in Faults \ {"none"} /\ FaultsWith(Step(cpu))
    BY <1>1, <2>1, <2>3 DEF FaultsWith, TypeOK, Stops
  <2>. QED  BY <1>1, <1>4, <2>2, <2>3, StepOfTheLoop
<1>5. CASE UNCHANGED vars
  BY <1>5 DEF TypeOK, vars
<1>. QED  BY <1>2, <1>3, <1>4, <1>5, NextIsATurn

\* Every word stays below 2^64, every region a region and every log entry
\* well-formed, whatever program runs.
THEOREM TypeCorrectness == Spec => []TypeOK
<1>. QED  BY InitIsTyped, NextIsTyped, PTL DEF Spec

-----------------------------------------------------------------------------
(***************************************************************************)
(* W^X.                                                                    *)
(***************************************************************************)
LEMMA NextProtects == TypeOK /\ [Next]_vars => [Protected(cpu.mem, cpu'.mem)]_vars
<1> SUFFICES ASSUME TypeOK, Next PROVE Protected(cpu.mem, cpu'.mem)
  OBVIOUS
<1>1. CASE StopOnHalt \/ StopOnLimit
  <2>1. cpu' = cpu
    BY <1>1 DEF StopOnHalt, StopOnLimit
  <2>. QED  BY <2>1, ProtectedIsReflexive
<1>2. CASE StepsOnce
  BY <1>2, StepOfTheLoop DEF TypeOK
<1>3. CASE UNCHANGED vars
  BY <1>3, ProtectedIsReflexive DEF vars
<1>. QED  BY <1>1, <1>2, <1>3, NextIsATurn

\* No step of any program, faulting or not, changes a cell of a region that is
\* not writable, nor moves, resizes or re-permissions a region (mem.rs:8).
THEOREM MemoryIsProtected == Spec => WritesAreProtected
<1>. QED  BY TypeCorrectness, NextProtects, PTL DEF Spec, WritesAreProtected

-----------------------------------------------------------------------------
(***************************************************************************)
(* Why a run ended.                                                        *)
(***************************************************************************)
\* The reasons to stop are told apart.
LEMMA StopsAreDistinct ==
  /\ "running" \notin Halts /\ "running" \notin Faults
  /\ "stepLimit" \notin Halts /\ "stepLimit" \notin Faults
  /\ \A h \in Halts \ {"none"} : h \notin Faults /\ h \notin {"running", "stepLimit"}
  /\ \A f \in Faults \ {"none"} : f \notin Halts /\ f \notin {"running", "stepLimit"}
BY DEF Halts, Faults

\* A turn of the loop leaves a stop that what happened explains.
LEMMA NextExplains == TypeOK /\ StopIsExplained /\ [Next]_vars => StopIsExplained'
<1> SUFFICES ASSUME TypeOK, StopIsExplained, [Next]_vars PROVE StopIsExplained'
  OBVIOUS
<1>1. cpu \in Cpus /\ steps \in 0 .. MaxSteps /\ cpu.halt \in Halts
  BY DEF TypeOK, Cpus
<1>2. CASE StopOnHalt
  <2>1. stop' = cpu.halt /\ stop' \in Halts \ {"none"} /\ cpu' = cpu
    BY <1>1, <1>2 DEF StopOnHalt
  <2>2. stop' \notin Faults /\ stop' # "stepLimit"
    BY <2>1, StopsAreDistinct
  <2>. QED  BY <2>1, <2>2 DEF StopIsExplained
<1>3. CASE StopOnLimit
  <2>1. stop' = "stepLimit" /\ cpu'.halt = "none" /\ steps' = MaxSteps
    BY <1>1, <1>3 DEF StopOnLimit
  <2>. QED  BY <2>1, StopsAreDistinct DEF StopIsExplained
<1>4. CASE StepsOnce
  <2>1. CASE Step(cpu).fault = "none" /\ Retires(Step(cpu))
    <3>1. stop' = "running"
      BY <1>4, <2>1 DEF Retires, StepsOnce, MayStep
    <3>. QED  BY <3>1, StopsAreDistinct DEF StopIsExplained
  <2>2. CASE /\ Step(cpu).fault \in Faults \ {"none"} /\ FaultsWith(Step(cpu))
             /\ cpu'.halt = cpu.halt
    <3>1. stop' \in Faults \ {"none"} /\ steps' < MaxSteps /\ cpu'.halt = "none"
      BY <1>4, <2>2 DEF FaultsWith, StepsOnce, MayStep
    <3>2. stop' \notin Halts /\ stop' # "stepLimit"
      BY <3>1, StopsAreDistinct
    <3>. QED  BY <3>1, <3>2 DEF StopIsExplained
  <2>. QED  BY <1>1, <1>4, <2>1, <2>2, StepOfTheLoop
<1>5. CASE UNCHANGED vars
  BY <1>5 DEF StopIsExplained, vars
<1>. QED  BY <1>2, <1>3, <1>4, <1>5, NextIsATurn

\* A halt is reported as that halt even when it used the last step of the
\* budget; the step limit means a budget spent on instructions that retired; a
\* fault left budget over.
THEOREM StopsAreExplained == Spec => []StopIsExplained
<1>1. Init => StopIsExplained
  BY StopsAreDistinct DEF Init, StopIsExplained
<1>. QED  BY <1>1, TypeCorrectness, NextExplains, PTL DEF Spec

-----------------------------------------------------------------------------
(***************************************************************************)
(* The trace.                                                              *)
(***************************************************************************)
LEMMA InitTraces == Init => TraceIsThePrefixOfTheRun
<1> SUFFICES ASSUME Init PROVE TraceIsThePrefixOfTheRun
  OBVIOUS
<1>1. trace = <<>> /\ Len(trace) = 0 /\ steps = 0 /\ cpu = start
  BY DEF Init
<1>. QED  BY <1>1, LimitsAreCounts DEF TraceIsThePrefixOfTheRun

\* A step that retires extends an uncapped trace by its record, and leaves a
\* full one alone.
LEMMA RetiringKeepsTheTrace ==
  ASSUME TypeOK, TraceIsThePrefixOfTheRun, stop = "running", start' = start,
         cpu' = Step(cpu).cpu, Retires(Step(cpu))
  PROVE  TraceIsThePrefixOfTheRun'
<1> DEFINE e == EffectsOf(cpu, Step(cpu))
<1>1. /\ trace \in Seq(Effects) /\ Len(trace) \in Nat /\ steps \in Nat
      /\ TraceLimit \in Nat /\ cpu \in Cpus
  BY LimitsAreCounts DEF TypeOK
<1>2. /\ Len(trace) = (IF steps < TraceLimit THEN steps ELSE TraceLimit)
      /\ Len(trace) > 0 => trace[1].ip = start.rip /\ trace[1].flagsBefore = start.flags
      /\ \A i \in 1 .. Len(trace) - 1 :
           trace[i].next = trace[i+1].ip /\ trace[i].flagsAfter = trace[i+1].flagsBefore
      /\ Len(trace) = steps /\ steps > 0 =>
           trace[steps].next = cpu.rip /\ trace[steps].flagsAfter = cpu.flags
      /\ steps = 0 => cpu = start
  BY StopsAreDistinct DEF TraceIsThePrefixOfTheRun
<1>3. /\ e.ip = cpu.rip /\ e.flagsBefore = cpu.flags
      /\ e.next = cpu'.rip /\ e.flagsAfter = cpu'.flags
  BY DEF EffectsOf
<1> HIDE DEF e
<1>4. steps' = steps + 1 /\ trace' = IF Len(trace) < TraceLimit THEN Append(trace, e) ELSE trace
  BY DEF Retires, e
<1>5. CASE steps < TraceLimit
  <2>1. Len(trace) = steps
    BY <1>1, <1>2, <1>5
  <2>2. trace' = Append(trace, e)
    BY <1>4, <1>5, <2>1
  <2>3. /\ Len(trace') = steps + 1
        /\ trace'[steps + 1] = e
        /\ \A i \in 1 .. steps : trace'[i] = trace[i]
    BY <1>1, <2>1, <2>2
  <2>4. trace'[1].ip = start'.rip /\ trace'[1].flagsBefore = start'.flags
    <3>1. CASE steps = 0
      BY <1>2, <1>3, <2>3, <3>1
    <3>2. CASE steps > 0
      BY <1>1, <1>2, <2>1, <2>3, <3>2
    <3>. QED  BY <1>1, <3>1, <3>2
  <2>5. ASSUME NEW i \in 1 .. Len(trace') - 1
        PROVE  trace'[i].next = trace'[i+1].ip /\ trace'[i].flagsAfter = trace'[i+1].flagsBefore
    <3>1. CASE i = steps
      BY <1>1, <1>2, <1>3, <2>1, <2>3, <3>1
    <3>2. CASE i # steps
      <4>1. i \in 1 .. Len(trace) - 1 /\ i + 1 \in 1 .. steps /\ i \in 1 .. steps
        BY <1>1, <2>1, <2>3, <3>2
      <4>. QED  BY <1>2, <2>3, <4>1
    <3>. QED  BY <3>1, <3>2
  <2>6. trace'[steps'].next = cpu'.rip /\ trace'[steps'].flagsAfter = cpu'.flags
    BY <1>3, <1>4, <2>3
  <2>. QED  BY <1>1, <1>4, <1>5, <2>3, <2>4, <2>5, <2>6 DEF TraceIsThePrefixOfTheRun
<1>6. CASE steps >= TraceLimit
  <2>1. trace' = trace /\ Len(trace') = TraceLimit /\ Len(trace') # steps'
    BY <1>1, <1>2, <1>4, <1>6
  <2>2. /\ Len(trace') > 0 => trace'[1].ip = start'.rip /\ trace'[1].flagsBefore = start'.flags
        /\ \A i \in 1 .. Len(trace') - 1 :
             trace'[i].next = trace'[i+1].ip /\ trace'[i].flagsAfter = trace'[i+1].flagsBefore
    BY <1>2, <2>1
  <2>. QED  BY <1>1, <1>4, <1>6, <2>1, <2>2 DEF TraceIsThePrefixOfTheRun
<1>. QED  BY <1>1, <1>5, <1>6

\* A turn of the loop leaves the trace the prefix of the run.
LEMMA NextTraces ==
  TypeOK /\ TraceIsThePrefixOfTheRun /\ [Next]_vars => TraceIsThePrefixOfTheRun'
<1> SUFFICES ASSUME TypeOK, TraceIsThePrefixOfTheRun, [Next]_vars
             PROVE  TraceIsThePrefixOfTheRun'
  OBVIOUS
<1>1. cpu \in Cpus /\ "running" \notin Faults
  BY StopsAreDistinct DEF TypeOK
<1>2. CASE StopOnHalt \/ StopOnLimit
  <2>1. stop = "running" /\ UNCHANGED <<cpu, trace, steps, start>>
    BY <1>2 DEF StopOnHalt, StopOnLimit
  <2>. QED  BY <1>1, <2>1 DEF TraceIsThePrefixOfTheRun
<1>3. CASE StepsOnce
  <2>1. stop = "running"
    BY <1>3 DEF StepsOnce, MayStep
  <2>2. CASE Retires(Step(cpu))
    BY <1>1, <1>3, <2>1, <2>2, StepOfTheLoop, RetiringKeepsTheTrace
  <2>3. CASE Step(cpu).fault \in Faults \ {"none"} /\ FaultsWith(Step(cpu))
    <3>1. stop' \in Faults /\ UNCHANGED <<trace, steps>> /\ start' = start
      BY <1>1, <1>3, <2>3, StepOfTheLoop DEF FaultsWith
    <3>. QED  BY <3>1 DEF TraceIsThePrefixOfTheRun
  <2>. QED  BY <1>1, <1>3, <2>2, <2>3, StepOfTheLoop
<1>4. CASE UNCHANGED vars
  BY <1>4 DEF TraceIsThePrefixOfTheRun, vars
<1>. QED  BY <1>2, <1>3, <1>4, NextIsATurn

\* The trace is the capped prefix of the run, unbroken from the entry point: it
\* is what the time-travel view undoes, entry by entry.
THEOREM TraceIsThePrefix == Spec => []TraceIsThePrefixOfTheRun
<1>. QED  BY TypeCorrectness, InitTraces, NextTraces, PTL DEF Spec

-----------------------------------------------------------------------------
(***************************************************************************)
(* The effects.                                                            *)
(***************************************************************************)
\* What EffectsAreExact says of one turn of the loop.
LastEffectIsExact ==
  Len(trace') > Len(trace) =>
    LET e == trace'[Len(trace')]
    IN  /\ \A r \in Reg : /\ cpu.regs[r] = RegBefore(cpu'.regs, e.regWrites, r)
                          /\ cpu'.regs[r] = RegAfter(cpu.regs, e.regWrites, r)
        /\ \A a \in Mapped(cpu.mem) :
             /\ CellAt(cpu.mem, a) = MemBefore(cpu'.mem, e.memWrites, a)
             /\ CellAt(cpu'.mem, a) = MemAfter(cpu.mem, e.memWrites, a)

\* Only a step that retires makes the trace longer, by its own record.
LEMMA LongerTraceRetired ==
  ASSUME TypeOK, [Next]_vars, Len(trace') > Len(trace)
  PROVE  /\ cpu' = Step(cpu).cpu
         /\ trace'[Len(trace')] = EffectsOf(cpu, Step(cpu))
<1>1. trace \in Seq(Effects) /\ Len(trace) \in Nat /\ cpu \in Cpus
  BY DEF TypeOK
<1>2. ASSUME trace' = trace
      PROVE  FALSE
  BY <1>1, <1>2
<1>3. CASE StopOnHalt \/ StopOnLimit \/ UNCHANGED vars
  BY <1>2, <1>3 DEF StopOnHalt, StopOnLimit, vars
<1>4. CASE StepsOnce
  <2> DEFINE e == EffectsOf(cpu, Step(cpu))
  <2>1. Retires(Step(cpu)) /\ cpu' = Step(cpu).cpu
    BY <1>1, <1>2, <1>4, StepOfTheLoop DEF FaultsWith
  <2>2. trace' = Append(trace, e)
    BY <1>2, <2>1 DEF Retires
  <2> HIDE DEF e
  <2>3. trace'[Len(trace')] = e
    BY <1>1, <2>2
  <2>. QED  BY <2>1, <2>3 DEF e
<1>. QED  BY <1>3, <1>4, NextIsATurn

\* The record of the step is the account that Step gives of itself.
LEMMA NextIsExact == TypeOK /\ [Next]_vars => [LastEffectIsExact]_vars
<1> SUFFICES ASSUME TypeOK, [Next]_vars, Len(trace') > Len(trace)
             PROVE  LastEffectIsExact
  BY DEF LastEffectIsExact
<1>1. cpu' = Step(cpu).cpu /\ trace'[Len(trace')] = EffectsOf(cpu, Step(cpu))
  BY LongerTraceRetired
<1>2. Accounts(cpu, Step(cpu))
  BY StepAdvances DEF TypeOK
<1>3. /\ EffectsOf(cpu, Step(cpu)).regWrites = Step(cpu).regWrites
      /\ EffectsOf(cpu, Step(cpu)).memWrites = Step(cpu).memWrites
  BY DEF EffectsOf
<1>. QED  BY <1>1, <1>2, <1>3 DEF LastEffectIsExact, Accounts, RegsAccount, MemAccount

\* The effects of a step are exact: undoing its log restores every register and
\* every mapped cell, redoing it reaches what the step left, whichever of them
\* it wrote and how often.
THEOREM StepsAreExact == Spec => EffectsAreExact
<1>. QED
  BY TypeCorrectness, NextIsExact, PTL DEF Spec, EffectsAreExact, LastEffectIsExact

-----------------------------------------------------------------------------
(***************************************************************************)
(* Calls and returns.                                                      *)
(***************************************************************************)
\* While the call that was just recorded is the last step, the cell under rsp is
\* its return address.  ReturnsComeBack is not inductive without it.
CallIsPending ==
  Len(trace) = steps /\ steps > 0 /\ stop = "running" /\ trace[steps].insn.op = "call" =>
    CellAt(cpu.mem, cpu.regs["rsp"]) = Trunc(trace[steps].ip + trace[steps].insn.len)

\* A step in progress that did not fault did not fault before: the `?` of the code.
LEMMA NoFaultUnless ==
  ASSUME NEW f, NEW m, NEW next, Unless(f, m, next).fault = "none", m \in Steps, f \in Faults
  PROVE  f = "none" /\ Unless(f, m, next) = next
<1>1. CASE f # "none"
  BY <1>1, RaiseIsTyped DEF Unless
<1>. QED  BY <1>1 DEF Unless

\* A push that did not fault left its value under the rsp it lowered.
LEMMA PushedCell ==
  ASSUME NEW m \in Steps, NEW v \in Word, Push(m, v).fault = "none"
  PROVE  /\ CellAt(Push(m, v).cpu.mem, Push(m, v).cpu.regs["rsp"]) = v
         /\ Push(m, v).cpu.regs["rsp"] = Trunc(RegOf(m, "rsp") - 1)
         /\ m.regWrites = <<>> => Push(m, v).regWrites[1].before = RegOf(m, "rsp")
         /\ m.memWrites = <<>> => Push(m, v).memWrites[1].after = <<v>>
<1> DEFINE sp == Trunc(RegOf(m, "rsp") - 1)
           lowered == PutReg(m, "rsp", sp)
           mem == lowered.cpu.mem
           at == Locate(mem, sp, 1, "w")
           write == [addr |-> sp, before |-> ReadCells(mem, at, 1), after |-> <<v>>]
           stored == [lowered EXCEPT
                        !.cpu = [lowered.cpu EXCEPT !.mem = WriteCells(mem, at, <<v>>)],
                        !.memWrites = Append(lowered.memWrites, write)]
<1>1. sp \in Word
  <2>1. RegOf(m, "rsp") \in Int
    BY RegIsWord DEF Reg, Word
  <2>2. RegOf(m, "rsp") - 1 \in Int
    BY <2>1
  <2>. QED  BY <2>2, TruncIsWord DEF Trunc
<1>2. Push(m, v) = Store(lowered, sp, <<v>>)
  BY DEF Push
<1> HIDE DEF sp
<1>3. /\ lowered \in Steps /\ lowered.cpu.regs["rsp"] = sp
      /\ lowered.memWrites = m.memWrites
      /\ m.regWrites = <<>> => lowered.regWrites[1].before = RegOf(m, "rsp")
  <2>1. lowered \in Steps
    BY <1>1, PutRegEvolves DEF Reg, Evolves
  <2>2. m.cpu.regs \in [Reg -> Word]
    BY DEF Steps, Cpus
  <2>3. lowered.cpu.regs = [m.cpu.regs EXCEPT !["rsp"] = sp]
    BY DEF PutReg, Steps, Cpus
  <2>4. lowered.memWrites = m.memWrites
    BY DEF PutReg, Steps
  <2>5. lowered.regWrites = Append(m.regWrites, [reg |-> "rsp", before |-> RegOf(m, "rsp"), after |-> sp])
    BY DEF PutReg, Steps, RegOf
  <2>6. m.regWrites = <<>> => lowered.regWrites[1].before = RegOf(m, "rsp")
    <3> HIDE DEF lowered
    <3>. QED  BY <2>5
  <2>. QED  BY <2>1, <2>2, <2>3, <2>4, <2>6 DEF Reg
<1>4. mem \in Memories
  BY <1>3 DEF Steps, Cpus
<1> HIDE DEF lowered
<1>5. Store(lowered, sp, <<v>>) = Unless(at.fault, lowered, stored)
  <2>1. Len(<<v>>) = 1
    OBVIOUS
  <2>. QED  BY <2>1 DEF Store
<1>6. at.fault = "none" /\ Push(m, v) = stored
  <2>1. at.fault \in Faults
    BY LocateFaults DEF Faults
  <2> HIDE DEF at, stored
  <2>. QED  BY <1>2, <1>3, <1>5, <2>1, NoFaultUnless
<1>7. /\ stored.cpu.mem = WriteCells(mem, at, <<v>>) /\ stored.cpu.regs = lowered.cpu.regs
      /\ stored.regWrites = lowered.regWrites
      /\ stored.memWrites = Append(lowered.memWrites, write)
  <2> HIDE DEF at, write
  <2>. QED  BY <1>3 DEF Steps, Cpus
<1>8. CellAt(WriteCells(mem, at, <<v>>), sp) = v
  BY <1>1, <1>4, <1>6, StoredCell
<1>9. m.memWrites = <<>> => stored.memWrites[1].after = <<v>>
  <2>1. write.after = <<v>>
    OBVIOUS
  <2> HIDE DEF at, write, stored
  <2>. QED  BY <1>3, <1>7, <2>1
<1> HIDE DEF stored, at
<1>. QED  BY <1>3, <1>6, <1>7, <1>8, <1>9 DEF sp

\* A step whose instruction was decoded executes it.
LEMMA StepExecutes ==
  ASSUME NEW c \in Cpus, Step(c).fault = "none"
  PROVE  LET next == Trunc(c.rip + Current(c).len)
         IN  /\ Current(c) \in Instruction /\ next \in Word
             /\ Begin(c, next) \in Steps
             /\ Begin(c, next).cpu = [c EXCEPT !.rip = next]
             /\ Step(c) = Execute(Begin(c, next), Current(c))
<1> DEFINE next == Trunc(c.rip + Current(c).len)
<1>1. DecodeFault(c) = "none"
  <2>1. CASE DecodeFault(c) # "none"
    <3>1. Step(c).fault = DecodeFault(c)
      BY <2>1 DEF Step, Raise, Begin
    <3>. QED  BY <2>1, <3>1
  <2>. QED  BY <2>1
<1>2. Current(c) \in Instruction
  BY <1>1, CurrentIsTyped
<1>3. c.rip + Current(c).len \in Int
  BY <1>2 DEF Cpus, Word, Instruction
<1>4. next \in Word
  BY <1>3, TruncIsWord DEF Trunc
<1>5. Step(c) = Execute(Begin(c, next), Current(c))
  BY <1>1 DEF Step
<1> HIDE DEF next
<1>6. Begin(c, next) \in Steps /\ Begin(c, next).cpu = [c EXCEPT !.rip = next]
  BY <1>4, BeginIsTyped DEF Begin
<1>. QED  BY <1>2, <1>4, <1>5, <1>6 DEF next

\* A call leaves the address of the instruction after it under rsp.
LEMMA CallLeavesReturnAddress ==
  ASSUME NEW c \in Cpus, Step(c).fault = "none", Current(c).op = "call"
  PROVE  CellAt(Step(c).cpu.mem, Step(c).cpu.regs["rsp"]) = Trunc(c.rip + Current(c).len)
<1> DEFINE next == Trunc(c.rip + Current(c).len)
           m == Begin(c, next)
           i == Current(c)
           pushed == Push(m, m.cpu.rip)
           jumped == SetRip(pushed, BranchDest(m, i.dst))
<1>1. i \in Instruction /\ next \in Word /\ m \in Steps /\ Step(c) = Execute(m, i)
      /\ m.cpu = [c EXCEPT !.rip = next]
  BY StepExecutes
<1>2. m.cpu.rip = next
  BY <1>1 DEF Cpus
<1> HIDE DEF next, m, i
<1>3. Execute(m, i) = ExecCall(m, i)
  <2>1. i.op = "call"
    BY DEF i
  <2>2. i.op \notin BinaryOps /\ i.op \notin CompareOps /\ i.op \notin UnaryOps /\ i.op \notin ShiftOps
    BY <2>1, ClassesAreDisjoint DEF NamedOps, BranchOps
  <2>. QED  BY <2>1, <2>2, Zenon DEF Execute
<1>4. ExecCall(m, i) = AfterOk(pushed, jumped)
  <2>1. ExecCall(m, i) = Unless(BranchFault(m, i.dst), m, AfterOk(pushed, jumped))
    BY DEF ExecCall
  <2>2. BranchFault(m, i.dst) \in Faults
    BY <1>1, OperandsOf, BranchIsTyped DEF ExecFaults
  <2> HIDE DEF pushed, jumped
  <2>. QED  BY <1>1, <1>3, <2>1, <2>2, NoFaultUnless
<1>5. pushed.fault = "none" /\ ExecCall(m, i) = jumped
  <2> HIDE DEF pushed, jumped
  <2>. QED  BY <1>1, <1>3, <1>4 DEF AfterOk
<1>6. CellAt(pushed.cpu.mem, pushed.cpu.regs["rsp"]) = next
  BY <1>1, <1>2, <1>5, PushedCell
<1>7. jumped.cpu.mem = pushed.cpu.mem /\ jumped.cpu.regs = pushed.cpu.regs
  <2>1. pushed \in Steps
    BY <1>1, <1>2, PushEvolves DEF Evolves
  <2> HIDE DEF pushed
  <2>. QED  BY <2>1 DEF SetRip, WithCpu, Steps, Cpus
<1>. QED  BY <1>1, <1>3, <1>5, <1>6, <1>7 DEF next, i

\* A ret goes where the cell under rsp says.
LEMMA RetGoesUnderRsp ==
  ASSUME NEW c \in Cpus, Step(c).fault = "none", Current(c).op = "ret"
  PROVE  Step(c).cpu.rip = CellAt(c.mem, c.regs["rsp"])
<1> DEFINE next == Trunc(c.rip + Current(c).len)
           m == Begin(c, next)
           i == Current(c)
           popped == DropTop(m)
           dropped == IF i.dst.mode = "imm"
                        THEN PutReg(popped, "rsp", Trunc(RegOf(popped, "rsp") + i.dst.disp))
                        ELSE popped
           back == SetRip(dropped, Popped(m))
<1>1. i \in Instruction /\ next \in Word /\ m \in Steps /\ Step(c) = Execute(m, i)
      /\ m.cpu = [c EXCEPT !.rip = next]
  BY StepExecutes
<1>2. m.cpu.regs = c.regs /\ m.cpu.mem = c.mem
  BY <1>1 DEF Cpus
<1> HIDE DEF next, m, i
<1>3. Execute(m, i) = ExecRet(m, i)
  <2>1. i.op = "ret"
    BY DEF i
  <2>2. i.op \notin BinaryOps /\ i.op \notin CompareOps /\ i.op \notin UnaryOps /\ i.op \notin ShiftOps
    BY <2>1, ClassesAreDisjoint DEF NamedOps, BranchOps
  <2>. QED  BY <2>1, <2>2, Zenon DEF Execute
<1>4. PopFault(m) = "none" /\ ExecRet(m, i) = back
  <2>1. ExecRet(m, i) = Unless(PopFault(m), m, back)
    BY DEF ExecRet
  <2>2. PopFault(m) \in Faults
    BY <1>1, PoppedIsWord DEF ExecFaults
  <2> HIDE DEF back
  <2>. QED  BY <1>1, <1>3, <2>1, <2>2, NoFaultUnless
<1>5. back.cpu.rip = Popped(m)
  <2>1. dropped \in Steps
    <3>1. Evolves(m, popped) /\ popped \in Steps
      BY <1>1, DropTopEvolves DEF Evolves
    <3> HIDE DEF popped
    <3>2. RegOf(popped, "rsp") \in Word /\ i.dst.disp \in Word
      BY <1>1, <3>1, RegIsWord, OperandsOf DEF Reg, Operand
    <3>3. RegOf(popped, "rsp") + i.dst.disp \in Int
      BY <3>2 DEF Word
    <3>4. Trunc(RegOf(popped, "rsp") + i.dst.disp) \in Word
      BY <3>3, TruncIsWord DEF Trunc
    <3>. QED  BY <3>1, <3>4, PutRegEvolves DEF Reg, Evolves
  <2> HIDE DEF dropped
  <2>. QED  BY <2>1 DEF SetRip, WithCpu, Steps, Cpus
<1>6. Popped(m) = CellAt(c.mem, c.regs["rsp"])
  <2>1. c.mem \in Memories /\ c.regs["rsp"] \in Word
    BY DEF Cpus, Reg
  <2>2. Locate(c.mem, c.regs["rsp"], 1, "r").fault = "none"
    BY <1>2, <1>4 DEF PopFault, LoadFault, RegOf
  <2>3. Popped(m) = ReadCells(c.mem, Locate(c.mem, c.regs["rsp"], 1, "r"), 1)[1]
    BY <1>2 DEF Popped, Loaded, RegOf
  <2>. QED  BY <2>1, <2>2, <2>3, LocatedCell
<1>. QED  BY <1>1, <1>3, <1>4, <1>5, <1>6

\* A turn of the loop keeps both.
LEMMA NextReturns ==
  ASSUME TypeOK, TraceIsThePrefixOfTheRun, CallIsPending, ReturnsComeBack, [Next]_vars
  PROVE  CallIsPending' /\ ReturnsComeBack'
<1>1. /\ trace \in Seq(Effects) /\ Len(trace) \in Nat /\ steps \in Nat
      /\ TraceLimit \in Nat /\ cpu \in Cpus
  BY LimitsAreCounts DEF TypeOK
<1>2. CASE StopOnHalt \/ StopOnLimit \/ UNCHANGED vars
  <2>1. UNCHANGED <<trace, cpu, steps>> /\ (stop' = "running" => stop = "running")
    BY <1>1, <1>2 DEF StopOnHalt, StopOnLimit, vars
  <2>. QED  BY <2>1 DEF CallIsPending, ReturnsComeBack
<1>3. CASE StepsOnce /\ Step(cpu).fault # "none"
  <2>1. trace' = trace /\ stop' # "running"
    <3>1. FaultsWith(Step(cpu)) /\ Step(cpu).fault \in Faults
      BY <1>1, <1>3, StepOfTheLoop
    <3>. QED  BY <3>1, StopsAreDistinct DEF FaultsWith
  <2>. QED  BY <2>1 DEF CallIsPending, ReturnsComeBack
<1>4. CASE StepsOnce /\ Step(cpu).fault = "none"
  <2> DEFINE e == EffectsOf(cpu, Step(cpu))
  <2>1. Retires(Step(cpu)) /\ cpu' = Step(cpu).cpu /\ stop = "running"
    BY <1>1, <1>4, StepOfTheLoop DEF StepsOnce, MayStep
  <2>2. e.insn = Current(cpu) /\ e.ip = cpu.rip /\ e.next = cpu'.rip
    BY <2>1 DEF EffectsOf
  <2>3. steps' = steps + 1 /\ trace' = IF Len(trace) < TraceLimit THEN Append(trace, e) ELSE trace
    BY <2>1 DEF Retires
  <2> HIDE DEF e
  <2>4. Len(trace) = (IF steps < TraceLimit THEN steps ELSE TraceLimit)
    BY DEF TraceIsThePrefixOfTheRun
  <2>5. CASE Len(trace) >= TraceLimit
    <3>1. trace' = trace /\ Len(trace') # steps'
      BY <1>1, <2>3, <2>4, <2>5
    <3>. QED  BY <3>1 DEF CallIsPending, ReturnsComeBack
  <2>6. CASE Len(trace) < TraceLimit
    <3>1. Len(trace) = steps
      BY <1>1, <2>4, <2>6
    <3>2. trace' = Append(trace, e)
      BY <2>3, <2>6
    <3>3. /\ Len(trace') = steps + 1
          /\ trace'[steps + 1] = e
          /\ \A i \in 1 .. steps : trace'[i] = trace[i]
      BY <1>1, <3>1, <3>2
    <3>4. CallIsPending'
      <4>1. e.insn.op = "call" => CellAt(cpu'.mem, cpu'.regs["rsp"]) = Trunc(e.ip + e.insn.len)
        BY <1>1, <1>4, <2>1, <2>2, CallLeavesReturnAddress
      <4>. QED  BY <2>3, <3>3, <4>1 DEF CallIsPending
    <3>5. ASSUME NEW i \in 1 .. Len(trace') - 1,
                 trace'[i].insn.op = "call", trace'[i+1].insn.op = "ret"
          PROVE  trace'[i+1].next = Trunc(trace'[i].ip + trace'[i].insn.len)
      <4>1. CASE i = steps
        <5>1. i \in 1 .. steps /\ steps > 0
          BY <1>1, <3>3, <4>1
        <5>2. trace'[i] = trace[steps] /\ trace'[i+1] = e
          BY <3>3, <4>1, <5>1
        <5>3. CellAt(cpu.mem, cpu.regs["rsp"]) = Trunc(trace[steps].ip + trace[steps].insn.len)
          BY <2>1, <3>1, <3>5, <5>1, <5>2 DEF CallIsPending
        <5>4. e.next = CellAt(cpu.mem, cpu.regs["rsp"])
          BY <1>1, <1>4, <2>1, <2>2, <3>5, <5>2, RetGoesUnderRsp
        <5>. QED  BY <5>2, <5>3, <5>4
      <4>2. CASE i # steps
        <5>1. i \in 1 .. Len(trace) - 1 /\ i \in 1 .. steps /\ i + 1 \in 1 .. steps
          BY <1>1, <3>1, <3>3, <4>2
        <5>2. trace'[i] = trace[i] /\ trace'[i+1] = trace[i+1]
          BY <3>3, <5>1
        <5>. QED  BY <3>5, <5>1, <5>2 DEF ReturnsComeBack
      <4>. QED  BY <4>1, <4>2
    <3>. QED  BY <3>4, <3>5 DEF ReturnsComeBack
  <2>. QED  BY <1>1, <2>5, <2>6
<1>. QED  BY <1>2, <1>3, <1>4, NextIsATurn

\* A ret recorded right after a call comes back to the instruction after the
\* call, whatever the stack is and whatever overlaps it: push and ret find the
\* same cell.
THEOREM ReturnsAreMatched == Spec => []ReturnsComeBack
<1>1. Init => CallIsPending /\ ReturnsComeBack
  <2> SUFFICES ASSUME Init PROVE CallIsPending /\ ReturnsComeBack
    OBVIOUS
  <2>1. trace = <<>> /\ Len(trace) = 0 /\ steps = 0
    BY DEF Init
  <2>. QED  BY <2>1 DEF CallIsPending, ReturnsComeBack
<1>. QED  BY <1>1, TypeCorrectness, TraceIsThePrefix, NextReturns, PTL DEF Spec

(***************************************************************************)
(* Pushes and pops.                                                        *)
(***************************************************************************)
\* While the push that was just recorded is the last step, the cell under rsp is what it
\* pushed, and rsp is one below what it was.
PushIsPending ==
  Len(trace) = steps /\ steps > 0 /\ stop = "running" /\ trace[steps].insn.op = "push" =>
    /\ trace[steps].memWrites[1].after = <<CellAt(cpu.mem, cpu.regs["rsp"])>>
    /\ trace[steps].regWrites[1].before = Trunc(cpu.regs["rsp"] + 1)

\* rsp lowered and raised again is rsp, also where it wraps.
LEMMA DownAndUpAgain ==
  ASSUME NEW v \in Word
  PROVE  Trunc(Trunc(v - 1) + 1) = v
<1>1. v \in Int /\ 0 <= v /\ v < WordMod /\ WordMod \in Nat /\ WordMod > 0
  BY WordModIsPositive DEF Word
<1>2. CASE v = 0
  <2>1. (0 - 1) % WordMod = WordMod - 1
    BY <1>1
  <2>2. WordMod % WordMod = 0
    BY <1>1
  <2>. QED  BY <1>1, <1>2, <2>1, <2>2 DEF Trunc
<1>3. CASE v # 0
  <2>1. v - 1 \in 0 .. WordMod - 1
    BY <1>1, <1>3
  <2>2. (v - 1) % WordMod = v - 1 /\ v % WordMod = v
    BY <1>1, <2>1
  <2>. QED  BY <1>1, <2>2 DEF Trunc
<1>. QED  BY <1>2, <1>3

\* A push leaves what it pushed under the rsp it lowered by one, and says so.
LEMMA PushLeavesItsValue ==
  ASSUME NEW c \in Cpus, Step(c).fault = "none", Current(c).op = "push"
  PROVE  /\ Step(c).memWrites[1].after = <<CellAt(Step(c).cpu.mem, Step(c).cpu.regs["rsp"])>>
         /\ Step(c).regWrites[1].before = Trunc(Step(c).cpu.regs["rsp"] + 1)
<1> DEFINE next == Trunc(c.rip + Current(c).len)
           m == Begin(c, next)
           i == Current(c)
           v == ReadOp(m, i.dst)
<1>1. /\ i \in Instruction /\ m \in Steps /\ Step(c) = Execute(m, i)
      /\ m.regWrites = <<>> /\ m.memWrites = <<>>
  BY StepExecutes DEF Begin
<1> HIDE DEF next, m, i
<1>2. Execute(m, i) = ExecPush(m, i)
  <2>1. i.op = "push"
    BY DEF i
  <2>2. i.op \notin BinaryOps /\ i.op \notin CompareOps /\ i.op \notin UnaryOps /\ i.op \notin ShiftOps
    BY <2>1, ClassesAreDisjoint DEF NamedOps, StackOps
  <2>. QED  BY <2>1, <2>2, Zenon DEF Execute
<1>3. ReadFault(m, i.dst) = "none" /\ ExecPush(m, i) = Push(m, v)
  <2>1. ReadFault(m, i.dst) \in Faults
    BY LocateFaults DEF ReadFault, LoadFault, Faults
  <2>2. ExecPush(m, i) = Unless(ReadFault(m, i.dst), m, Push(m, v))
    BY DEF ExecPush
  <2> HIDE DEF v
  <2>. QED  BY <1>1, <1>2, <2>1, <2>2, NoFaultUnless
<1>4. v \in Word /\ RegOf(m, "rsp") \in Word
  BY <1>1, <1>3, OperandsOf, ReadIsWord, RegIsWord DEF Reg
<1> HIDE DEF v
<1>5. /\ CellAt(Push(m, v).cpu.mem, Push(m, v).cpu.regs["rsp"]) = v
      /\ Push(m, v).cpu.regs["rsp"] = Trunc(RegOf(m, "rsp") - 1)
      /\ Push(m, v).regWrites[1].before = RegOf(m, "rsp")
      /\ Push(m, v).memWrites[1].after = <<v>>
  BY <1>1, <1>2, <1>3, <1>4, PushedCell
<1>6. Trunc(Push(m, v).cpu.regs["rsp"] + 1) = RegOf(m, "rsp")
  BY <1>4, <1>5, DownAndUpAgain
<1>7. Step(c) = Push(m, v)
  BY <1>1, <1>2, <1>3
<1>. QED  BY <1>5, <1>6, <1>7

\* A pop takes the cell under rsp and raises rsp before it writes its operand.
LEMMA PopTakesUnderRsp ==
  ASSUME NEW c \in Cpus, Step(c).fault = "none", Current(c).op = "pop"
  PROVE  LET dst == Current(c).dst
             sp == Trunc(c.regs["rsp"] + 1)
             cell == CellAt(c.mem, c.regs["rsp"])
             regs == Step(c).regWrites
             stores == Step(c).memWrites
         IN  /\ regs[1].after = sp
             /\ dst.mode = "reg" => regs[2].reg = dst.reg /\ regs[2].after = cell
             /\ dst.mode = "mem" =>
                  /\ Len(regs) = 1 /\ stores[1].after = <<cell>>
                  /\ dst.reg = "rsp" => stores[1].addr = Trunc(sp + dst.disp)
<1> DEFINE next == Trunc(c.rip + Current(c).len)
           m == Begin(c, next)
           i == Current(c)
           sp == Trunc(c.regs["rsp"] + 1)
           cell == CellAt(c.mem, c.regs["rsp"])
           raised == DropTop(m)
           written == WriteOp(raised, i.dst, cell)
           first == [reg |-> "rsp", before |-> c.regs["rsp"], after |-> sp]
<1>1. /\ i \in Instruction /\ m \in Steps /\ Step(c) = Execute(m, i)
      /\ m.cpu = [c EXCEPT !.rip = next]
      /\ m.regWrites = <<>> /\ m.memWrites = <<>>
  BY StepExecutes DEF Begin
<1>2. m.cpu.regs = c.regs /\ m.cpu.mem = c.mem /\ c.regs \in [Reg -> Word]
  BY <1>1 DEF Cpus
<1> HIDE DEF next, m, i
<1>3. Execute(m, i) = ExecPop(m, i)
  <2>1. i.op = "pop"
    BY DEF i
  <2>2. i.op \notin BinaryOps /\ i.op \notin CompareOps /\ i.op \notin UnaryOps /\ i.op \notin ShiftOps
    BY <2>1, ClassesAreDisjoint DEF NamedOps, StackOps
  <2>. QED  BY <2>1, <2>2, Zenon DEF Execute
<1>4. PopFault(m) = "none" /\ ExecPop(m, i) = WriteOp(raised, i.dst, Popped(m))
  <2>1. PopFault(m) \in Faults
    BY <1>1, PoppedIsWord DEF ExecFaults
  <2>2. ExecPop(m, i) = Unless(PopFault(m), m, WriteOp(raised, i.dst, Popped(m)))
    BY DEF ExecPop
  <2> HIDE DEF raised
  <2>. QED  BY <1>1, <1>3, <2>1, <2>2, NoFaultUnless
<1>5. Popped(m) = cell /\ cell \in Word
  <2>1. c.mem \in Memories /\ c.regs["rsp"] \in Word
    BY <1>2 DEF Cpus, Reg
  <2>2. Locate(c.mem, c.regs["rsp"], 1, "r").fault = "none"
    BY <1>2, <1>4 DEF PopFault, LoadFault, RegOf
  <2>3. Popped(m) = ReadCells(c.mem, Locate(c.mem, c.regs["rsp"], 1, "r"), 1)[1]
    BY <1>2 DEF Popped, Loaded, RegOf
  <2>4. Popped(m) \in Word
    BY <1>1, <1>4, PoppedIsWord
  <2>. QED  BY <2>1, <2>2, <2>3, <2>4, LocatedCell
<1>6. /\ raised \in Steps /\ raised.regWrites = <<first>> /\ raised.memWrites = <<>>
      /\ raised.cpu.regs["rsp"] = sp
  <2>1. raised = PutReg(m, "rsp", sp)
    BY <1>2 DEF DropTop, RegOf
  <2>2. raised \in Steps
    BY <1>1, DropTopEvolves DEF Evolves
  <2>3. raised.cpu.regs = [c.regs EXCEPT !["rsp"] = sp]
    <3>1. PutReg(m, "rsp", sp).cpu.regs = [m.cpu.regs EXCEPT !["rsp"] = sp]
      <4> HIDE DEF sp
      <4>. QED  BY <1>1 DEF PutReg, Steps, Cpus
    <3>. QED  BY <1>2, <2>1, <3>1
  <2>4. raised.regWrites = Append(<<>>, first) /\ raised.memWrites = <<>>
    BY <1>1, <1>2, <2>1 DEF PutReg, Steps
  <2> HIDE DEF raised, first, sp
  <2>. QED  BY <1>2, <2>2, <2>3, <2>4 DEF Reg
<1> HIDE DEF raised
<1>7. Step(c) = written
  BY <1>1, <1>3, <1>4, <1>5
<1>8. CASE i.dst.mode = "reg"
  <2>1. written = PutReg(raised, i.dst.reg, cell)
    BY <1>8, Zenon DEF WriteOp
  <2>2. written.regWrites
          = Append(raised.regWrites, [reg |-> i.dst.reg, before |-> raised.cpu.regs[i.dst.reg], after |-> cell])
    <3> HIDE DEF cell
    <3>. QED  BY <1>6, <2>1 DEF PutReg, Steps
  <2> HIDE DEF written, cell, first, sp
  <2>3. written.regWrites[1] = first /\ written.regWrites[2].reg = i.dst.reg /\ written.regWrites[2].after = cell
    BY <1>6, <2>2
  <2>4. first.after = sp
    BY DEF first
  <2>. QED  BY <1>7, <1>8, <2>3, <2>4 DEF i, sp, cell
<1>9. CASE i.dst.mode = "mem"
  <2> DEFINE addr == EffectiveAddress(raised, i.dst)
             at == Locate(raised.cpu.mem, addr, 1, "w")
             write == [addr |-> addr, before |-> ReadCells(raised.cpu.mem, at, 1), after |-> <<cell>>]
             stored == [raised EXCEPT
                          !.cpu = [raised.cpu EXCEPT !.mem = WriteCells(raised.cpu.mem, at, <<cell>>)],
                          !.memWrites = Append(raised.memWrites, write)]
  <2>1. written = Store(raised, addr, <<cell>>)
    BY <1>9, Zenon DEF WriteOp
  <2>2. Store(raised, addr, <<cell>>) = Unless(at.fault, raised, stored)
    <3>1. Len(<<cell>>) = 1
      OBVIOUS
    <3>. QED  BY <3>1 DEF Store
  <2>3. written = stored
    <3>1. at.fault \in Faults
      BY LocateFaults DEF Faults
    <3> HIDE DEF at, stored, written
    <3>. QED  BY <1>6, <1>7, <2>1, <2>2, <3>1, NoFaultUnless
  <2>4. stored.regWrites = <<first>> /\ stored.memWrites = Append(<<>>, write)
    <3> HIDE DEF at, write, first, cell
    <3>. QED  BY <1>6 DEF Steps
  <2>5. write.after = <<cell>> /\ write.addr = addr
    OBVIOUS
  <2>6. i.dst.reg = "rsp" => addr = Trunc(sp + i.dst.disp)
    BY <1>6 DEF EffectiveAddress, RegOf
  <2>7. first.after = sp
    OBVIOUS
  <2> HIDE DEF stored, write, at, written, cell, first, sp, addr
  <2>8. /\ written.regWrites[1] = first /\ Len(written.regWrites) = 1
        /\ written.memWrites[1] = write
    BY <2>3, <2>4
  <2>. QED  BY <1>7, <1>9, <2>5, <2>6, <2>7, <2>8 DEF i, sp, cell
<1>10. CASE i.dst.mode \notin {"reg", "mem"}
  <2>1. written = Raise(raised, "unsupported")
    BY <1>10, Zenon DEF WriteOp
  <2>2. written.fault = "unsupported"
    BY <1>6, <2>1 DEF Raise, Steps
  <2>. QED  BY <1>7, <2>2
<1>. QED  BY <1>8, <1>9, <1>10

\* A turn of the loop keeps both.
LEMMA NextPops ==
  ASSUME TypeOK, TraceIsThePrefixOfTheRun, PushIsPending, PopsUndoPushes, [Next]_vars
  PROVE  PushIsPending' /\ PopsUndoPushes'
<1> DEFINE Undone(a, b) ==
             LET value == a.memWrites[1].after
                 sp == a.regWrites[1].before
             IN  /\ b.regWrites[1].after = sp
                 /\ b.insn.dst.mode = "reg" =>
                      b.regWrites[2].reg = b.insn.dst.reg /\ b.regWrites[2].after = value[1]
                 /\ b.insn.dst.mode = "mem" =>
                      /\ Len(b.regWrites) = 1 /\ b.memWrites[1].after = value
                      /\ b.insn.dst.reg = "rsp" =>
                           b.memWrites[1].addr = Trunc(sp + b.insn.dst.disp)
           Follows(s, i) == s[i].insn.op = "push" /\ s[i + 1].insn.op = "pop"
<1>0. PopsUndoPushes <=> \A i \in 1 .. Len(trace) - 1 : Follows(trace, i) => Undone(trace[i], trace[i + 1])
  BY Zenon DEF PopsUndoPushes
<1>00. (\A i \in 1 .. Len(trace') - 1 : Follows(trace', i) => Undone(trace'[i], trace'[i + 1]))
         => PopsUndoPushes'
  BY Zenon DEF PopsUndoPushes
<1>1. /\ trace \in Seq(Effects) /\ Len(trace) \in Nat /\ steps \in Nat
      /\ TraceLimit \in Nat /\ cpu \in Cpus
  BY LimitsAreCounts DEF TypeOK
<1>2. CASE StopOnHalt \/ StopOnLimit \/ UNCHANGED vars
  <2>1. UNCHANGED <<trace, cpu, steps>> /\ (stop' = "running" => stop = "running")
    BY <1>1, <1>2 DEF StopOnHalt, StopOnLimit, vars
  <2>. QED  BY <2>1 DEF PushIsPending, PopsUndoPushes
<1>3. CASE StepsOnce /\ Step(cpu).fault # "none"
  <2>1. trace' = trace /\ stop' # "running"
    <3>1. FaultsWith(Step(cpu)) /\ Step(cpu).fault \in Faults
      BY <1>1, <1>3, StepOfTheLoop
    <3>. QED  BY <3>1, StopsAreDistinct DEF FaultsWith
  <2>. QED  BY <2>1 DEF PushIsPending, PopsUndoPushes
<1>4. CASE StepsOnce /\ Step(cpu).fault = "none"
  <2> DEFINE e == EffectsOf(cpu, Step(cpu))
  <2>1. Retires(Step(cpu)) /\ cpu' = Step(cpu).cpu /\ stop = "running"
    BY <1>1, <1>4, StepOfTheLoop DEF StepsOnce, MayStep
  <2>2. /\ e.insn = Current(cpu) /\ e.regWrites = Step(cpu).regWrites
        /\ e.memWrites = Step(cpu).memWrites
    BY DEF EffectsOf
  <2>3. steps' = steps + 1 /\ trace' = IF Len(trace) < TraceLimit THEN Append(trace, e) ELSE trace
    BY <2>1 DEF Retires
  <2> HIDE DEF e
  <2>4. Len(trace) = (IF steps < TraceLimit THEN steps ELSE TraceLimit)
    BY DEF TraceIsThePrefixOfTheRun
  <2>5. CASE Len(trace) >= TraceLimit
    <3>1. trace' = trace /\ Len(trace') # steps'
      BY <1>1, <2>3, <2>4, <2>5
    <3>. QED  BY <3>1 DEF PushIsPending, PopsUndoPushes
  <2>6. CASE Len(trace) < TraceLimit
    <3>1. Len(trace) = steps
      BY <1>1, <2>4, <2>6
    <3>2. trace' = Append(trace, e)
      BY <2>3, <2>6
    <3>3. /\ Len(trace') = steps + 1
          /\ trace'[steps + 1] = e
          /\ \A i \in 1 .. steps : trace'[i] = trace[i]
      BY <1>1, <3>1, <3>2
    <3>4. PushIsPending'
      <4>1. e.insn.op = "push" =>
              /\ e.memWrites[1].after = <<CellAt(cpu'.mem, cpu'.regs["rsp"])>>
              /\ e.regWrites[1].before = Trunc(cpu'.regs["rsp"] + 1)
        BY <1>1, <1>4, <2>1, <2>2, PushLeavesItsValue
      <4>. QED  BY <2>3, <3>3, <4>1 DEF PushIsPending
    <3>5. ASSUME NEW i \in 1 .. Len(trace') - 1, Follows(trace', i)
          PROVE  Undone(trace'[i], trace'[i + 1])
      <4>1. CASE i = steps
        <5>1. i \in 1 .. steps /\ steps > 0
          BY <1>1, <3>3, <4>1
        <5>2. trace'[i] = trace[steps] /\ trace'[i+1] = e
          BY <3>3, <4>1, <5>1
        <5> DEFINE cell == CellAt(cpu.mem, cpu.regs["rsp"])
                   sp == Trunc(cpu.regs["rsp"] + 1)
        <5>3. /\ trace[steps].memWrites[1].after = <<cell>>
              /\ trace[steps].regWrites[1].before = sp
          BY <2>1, <3>1, <3>5, <5>1, <5>2 DEF PushIsPending
        <5>4. e.insn.op = "pop" /\ Current(cpu).op = "pop"
          BY <2>2, <3>5, <5>2
        <5>5. /\ e.regWrites[1].after = sp
              /\ e.insn.dst.mode = "reg" =>
                   e.regWrites[2].reg = e.insn.dst.reg /\ e.regWrites[2].after = cell
              /\ e.insn.dst.mode = "mem" =>
                   /\ Len(e.regWrites) = 1 /\ e.memWrites[1].after = <<cell>>
                   /\ e.insn.dst.reg = "rsp" => e.memWrites[1].addr = Trunc(sp + e.insn.dst.disp)
          BY <1>1, <1>4, <2>2, <5>4, PopTakesUnderRsp
        <5>6. <<cell>>[1] = cell
          OBVIOUS
        <5> HIDE DEF cell, sp
        <5>7. Undone(trace[steps], e)
          BY <5>3, <5>5, <5>6
        <5>. QED  BY <5>2, <5>7
      <4>2. CASE i # steps
        <5>1. i \in 1 .. Len(trace) - 1 /\ i \in 1 .. steps /\ i + 1 \in 1 .. steps
          BY <1>1, <3>1, <3>3, <4>2
        <5>2. trace'[i] = trace[i] /\ trace'[i+1] = trace[i+1]
          BY <3>3, <5>1
        <5>3. Follows(trace, i)
          BY <3>5, <5>2
        <5> HIDE DEF Undone, Follows
        <5>. QED  BY <1>0, <5>1, <5>2, <5>3
      <4>. QED  BY <4>1, <4>2
    <3> HIDE DEF Undone, Follows
    <3>. QED  BY <1>00, <3>4, <3>5
  <2>. QED  BY <1>1, <2>5, <2>6
<1>. QED  BY <1>2, <1>3, <1>4, NextIsATurn

\* A pop recorded right after a push writes what was pushed, with rsp where it was
\* before the push.
THEOREM PopsAreMatched == Spec => []PopsUndoPushes
<1>1. Init => PushIsPending /\ PopsUndoPushes
  <2> SUFFICES ASSUME Init PROVE PushIsPending /\ PopsUndoPushes
    OBVIOUS
  <2>1. trace = <<>> /\ Len(trace) = 0 /\ steps = 0
    BY DEF Init
  <2>. QED  BY <2>1 DEF PushIsPending, PopsUndoPushes
<1>. QED  BY <1>1, TypeCorrectness, TraceIsThePrefix, NextPops, PTL DEF Spec

\* Pushes and pops, calls and returns, find the same cell of the stack (cpu.rs:260,
\* `push` and `pop`), whatever the program does between other instructions.
THEOREM TheStackAlwaysGivesBack == Spec => []TheStackGivesBack
<1>. QED  BY ReturnsAreMatched, PopsAreMatched, PTL DEF TheStackGivesBack

-----------------------------------------------------------------------------
(***************************************************************************)
(* The scrubber.  The argument is about logs: that of one step accounts    *)
(* for it (StepAdvances), logs put end to end account for the steps in a   *)
(* row, and the reconstruction reads off the joined log what each account  *)
(* says.                                                                   *)
(***************************************************************************)
USE WindowIsSensible

(***************************************************************************)
(* Logs end to end.                                                        *)
(***************************************************************************)
LEMMA FirstIs ==
  ASSUME NEW S \in SUBSET Nat, NEW x \in S, \A j \in S : x <= j
  PROVE  FirstOf(S) = x
<1> DEFINE y == FirstOf(S)
<1>1. y \in S /\ \A j \in S : y <= j
  BY FirstIsLeast
<1> HIDE DEF y
<1>2. x \in Nat /\ y \in Nat /\ x <= y /\ y <= x
  BY <1>1
<1>3. x = y
  BY <1>2
<1>. QED  BY <1>3 DEF y

\* The last of some numbers is the one that none is larger than.
LEMMA LastIs ==
  ASSUME NEW S \in SUBSET Int, NEW x \in S, \A j \in S : j <= x
  PROVE  LastOf(S) = x
<1> DEFINE y == LastOf(S)
<1>1. y \in S /\ \A j \in S : j <= y
  <2>1. \E z \in S : \A j \in S : j <= z
    OBVIOUS
  <2>. QED  BY <2>1 DEF LastOf
<1> HIDE DEF y
<1>2. x \in Int /\ y \in Int /\ x <= y /\ y <= x
  BY <1>1
<1>3. x = y
  BY <1>2
<1>. QED  BY <1>3 DEF y

\* Numbers up to n, and others behind n: the first and the last of them all.
Behind(n, T) == {n + j : j \in T}

EndsOfBoth(n, S, T) ==
  /\ S # {} => FirstOf(S \cup Behind(n, T)) = FirstOf(S) /\ FirstOf(S) \in S
  /\ S = {} /\ T # {} => FirstOf(S \cup Behind(n, T)) = n + FirstOf(T)
  /\ T # {} => LastOf(S \cup Behind(n, T)) = n + LastOf(T) /\ LastOf(T) \in T
  /\ S # {} /\ T = {} => LastOf(S \cup Behind(n, T)) = LastOf(S) /\ LastOf(S) \in S
  /\ T # {} => FirstOf(T) \in T

LEMMA FirstAndLastOfBoth ==
  ASSUME NEW n \in Nat, NEW k \in Nat, NEW S \in SUBSET (1 .. n), NEW T \in SUBSET (1 .. k)
  PROVE  EndsOfBoth(n, S, T)
<1> DEFINE B == Behind(n, T)
<1>1. \A b \in B : \E j \in T : b = n + j
  BY DEF Behind
<1>2. \A j \in T : n + j \in B /\ j \in Nat /\ j > 0
  BY DEF Behind
<1>3. B \in SUBSET Nat /\ \A b \in B : b > n
  BY <1>1, <1>2
<1>4. S \in SUBSET Nat /\ T \in SUBSET Nat /\ \A i \in S : i <= n
  OBVIOUS
<1>5. S \cup B \in SUBSET Nat /\ S \cup B \in SUBSET Int
  <2>1. S \subseteq Nat /\ B \subseteq Nat /\ Nat \subseteq Int
    BY <1>3, <1>4
  <2> HIDE DEF B
  <2>. QED  BY <2>1, Zenon
<1>6. B = {} <=> T = {}
  BY <1>1, <1>2
<1> HIDE DEF B
<1>7. ASSUME S # {}
      PROVE  FirstOf(S \cup B) = FirstOf(S) /\ FirstOf(S) \in S
  <2>1. FirstOf(S) \in S /\ \A j \in S : FirstOf(S) <= j
    BY <1>4, <1>7, FirstIsLeast
  <2> DEFINE x == FirstOf(S)
  <2> HIDE DEF x
  <2>2. x \in S /\ \A j \in S : x <= j
    BY <2>1 DEF x
  <2>3. x \in S \cup B /\ \A j \in S \cup B : x <= j
    BY <1>3, <1>4, <2>2
  <2>4. FirstOf(S \cup B) = x
    BY <1>5, <2>3, FirstIs
  <2>. QED  BY <2>2, <2>4 DEF x
<1>8. ASSUME S = {}, T # {}
      PROVE  FirstOf(S \cup B) = n + FirstOf(T)
  <2> DEFINE x == FirstOf(T)
  <2>1. x \in T /\ \A j \in T : x <= j
    BY <1>4, <1>8, FirstIsLeast
  <2> HIDE DEF x
  <2>2. n + x \in S \cup B /\ \A b \in S \cup B : n + x <= b
    BY <1>1, <1>2, <1>8, <2>1
  <2>3. FirstOf(S \cup B) = n + x
    BY <1>5, <2>2, FirstIs
  <2>. QED  BY <2>3 DEF x
<1>9. ASSUME T # {}
      PROVE  LastOf(S \cup B) = n + LastOf(T) /\ LastOf(T) \in T
  <2> DEFINE x == LastOf(T)
  <2>1. x \in T /\ \A j \in T : j <= x
    BY <1>9, LastExists
  <2> HIDE DEF x
  <2>2. n + x \in S \cup B
    BY <1>2, <2>1
  <2>3. \A b \in B : b <= n + x
    BY <1>1, <1>2, <2>1
  <2>4. \A b \in S : b <= n + x
    BY <1>2, <1>4, <2>1
  <2>5. LastOf(S \cup B) = n + x
    BY <1>5, <2>2, <2>3, <2>4, LastIs
  <2>. QED  BY <2>1, <2>5 DEF x
<1>10. ASSUME S # {}, T = {}
       PROVE  LastOf(S \cup B) = LastOf(S) /\ LastOf(S) \in S
  <2>1. S \cup B = S
    BY <1>6, <1>10
  <2>2. LastOf(S) \in S
    BY <1>10, LastExists
  <2>. QED  BY <2>1, <2>2
<1>11. T # {} => FirstOf(T) \in T
  BY <1>4, FirstExists
<1>. QED  BY <1>7, <1>8, <1>9, <1>10, <1>11 DEF B, EndsOfBoth

\* Some entries of a log have a first and a last.
LEMMA TouchesExist ==
  ASSUME NEW n \in Nat, NEW S \in SUBSET (1 .. n), S # {}
  PROVE  FirstOf(S) \in 1 .. n /\ LastOf(S) \in 1 .. n
<1>1. S \in SUBSET Nat
  OBVIOUS
<1>2. FirstOf(S) \in S /\ LastOf(S) \in S
  BY <1>1, FirstExists, LastExists
<1>. QED  BY <1>2

\* Two logs end to end: f and g are the values of their entries, S and T the entries
\* that touch a place, a, b and c what is there before the first log, between the two
\* and after the second.  Undone, the joined log gives a, and replayed it gives c.
JoinedValues(n, S, T, f, g, h) ==
  /\ \A j \in S : h[j] = f[j]
  /\ \A j \in T : h[n + j] = g[j]

LEMMA UndoneTogether ==
  ASSUME NEW n \in Nat, NEW k \in Nat, NEW S \in SUBSET (1 .. n), NEW T \in SUBSET (1 .. k),
         NEW f, NEW g, NEW h, NEW a, NEW b, NEW c, JoinedValues(n, S, T, f, g, h),
         a = IF S = {} THEN b ELSE f[FirstOf(S)],
         b = IF T = {} THEN c ELSE g[FirstOf(T)]
  PROVE  LET U == S \cup Behind(n, T) IN a = IF U = {} THEN c ELSE h[FirstOf(U)]
<1> DEFINE U == S \cup Behind(n, T)
<1>1. EndsOfBoth(n, S, T)
  BY FirstAndLastOfBoth
<1>2. U = {} <=> S = {} /\ T = {}
  BY DEF Behind
<1>3. /\ S # {} => FirstOf(U) = FirstOf(S) /\ FirstOf(S) \in S
      /\ S = {} /\ T # {} => FirstOf(U) = n + FirstOf(T)
      /\ T # {} => FirstOf(T) \in T
  BY <1>1 DEF EndsOfBoth
<1> HIDE DEF U
<1>4. /\ S # {} => h[FirstOf(U)] = f[FirstOf(S)]
      /\ S = {} /\ T # {} => h[FirstOf(U)] = g[FirstOf(T)]
  BY <1>3 DEF JoinedValues
<1>5. a = IF U = {} THEN c ELSE h[FirstOf(U)]
  BY <1>2, <1>4
<1>. QED  BY <1>5 DEF U

\* And replayed.
LEMMA ReplayedTogether ==
  ASSUME NEW n \in Nat, NEW k \in Nat, NEW S \in SUBSET (1 .. n), NEW T \in SUBSET (1 .. k),
         NEW f, NEW g, NEW h, NEW a, NEW b, NEW c, JoinedValues(n, S, T, f, g, h),
         b = IF S = {} THEN a ELSE f[LastOf(S)],
         c = IF T = {} THEN b ELSE g[LastOf(T)]
  PROVE  LET U == S \cup Behind(n, T) IN c = IF U = {} THEN a ELSE h[LastOf(U)]
<1> DEFINE U == S \cup Behind(n, T)
<1>1. EndsOfBoth(n, S, T)
  BY FirstAndLastOfBoth
<1>2. U = {} <=> S = {} /\ T = {}
  BY DEF Behind
<1>3. /\ T # {} => LastOf(U) = n + LastOf(T) /\ LastOf(T) \in T
      /\ S # {} /\ T = {} => LastOf(U) = LastOf(S) /\ LastOf(S) \in S
  BY <1>1 DEF EndsOfBoth
<1> HIDE DEF U
<1>4. /\ T # {} => h[LastOf(U)] = g[LastOf(T)]
      /\ S # {} /\ T = {} => h[LastOf(U)] = f[LastOf(S)]
  BY <1>3 DEF JoinedValues
<1>5. c = IF U = {} THEN a ELSE h[LastOf(U)]
  BY <1>2, <1>4
<1>. QED  BY <1>5 DEF U

\* The entries of two logs end to end.
EndToEnd(p, q) ==
  /\ Len(p) \in Nat /\ Len(q) \in Nat /\ Len(p \o q) \in Nat
  /\ DOMAIN p = 1 .. Len(p) /\ DOMAIN q = 1 .. Len(q) /\ DOMAIN (p \o q) = 1 .. Len(p \o q)
  /\ \A j : j \in DOMAIN (p \o q) <=> j \in DOMAIN p \/ \E i \in DOMAIN q : j = Len(p) + i
  /\ \A j \in DOMAIN p : (p \o q)[j] = p[j]
  /\ \A j \in DOMAIN q : (p \o q)[Len(p) + j] = q[j]

LEMMA EntriesOfBoth ==
  ASSUME NEW E, NEW p \in Seq(E), NEW q \in Seq(E)
  PROVE  p \o q \in Seq(E) /\ EndToEnd(p, q)
<1>1. p \o q \in Seq(E) /\ Len(p \o q) = Len(p) + Len(q) /\ Len(p) \in Nat /\ Len(q) \in Nat
  OBVIOUS
<1>2. DOMAIN p = 1 .. Len(p) /\ DOMAIN q = 1 .. Len(q) /\ DOMAIN (p \o q) = 1 .. Len(p) + Len(q)
  BY <1>1
<1>3. ASSUME NEW j
      PROVE  j \in DOMAIN (p \o q) <=>
               j \in DOMAIN p \/ \E i \in DOMAIN q : j = Len(p) + i
  <2>1. ASSUME j \in DOMAIN (p \o q), j \notin DOMAIN p
        PROVE  \E i \in DOMAIN q : j = Len(p) + i
    <3>1. j - Len(p) \in DOMAIN q /\ j = Len(p) + (j - Len(p))
      BY <1>1, <1>2, <2>1
    <3>. QED  BY <3>1
  <2>2. ASSUME j \in DOMAIN p
        PROVE  j \in DOMAIN (p \o q)
    BY <1>1, <1>2, <2>2
  <2>3. ASSUME NEW i \in DOMAIN q, j = Len(p) + i
        PROVE  j \in DOMAIN (p \o q)
    BY <1>1, <1>2, <2>3
  <2>. QED  BY <2>1, <2>2, <2>3
<1>4. \A j \in DOMAIN p : (p \o q)[j] = p[j]
  BY <1>1, <1>2
<1>5. \A j \in DOMAIN q : (p \o q)[Len(p) + j] = q[j]
  BY <1>1, <1>2
<1>. QED  BY <1>1, <1>2, <1>3, <1>4, <1>5 DEF EndToEnd

\* What happens in m, and then in n, as if in one step.
Together(m, n) ==
  [cpu |-> n.cpu, regWrites |-> m.regWrites \o n.regWrites,
   memWrites |-> m.memWrites \o n.memWrites]

Logged(m) ==
  m.cpu \in Cpus /\ m.regWrites \in Seq(RegWrites) /\ m.memWrites \in Seq(MemWrites)

\* The registers of two steps in a row.
LEMMA RegsTogether ==
  ASSUME NEW c, NEW m, NEW n, Logged(m), Logged(n), RegsAccount(c, m), RegsAccount(m.cpu, n)
  PROVE  RegsAccount(c, Together(m, n))
<1> DEFINE p == m.regWrites
           q == n.regWrites
<1>1. p \in Seq(RegWrites) /\ q \in Seq(RegWrites)
  BY DEF Logged
<1>2. \A r \in Reg : /\ c.regs[r] = RegBefore(m.cpu.regs, p, r)
                      /\ m.cpu.regs[r] = RegAfter(c.regs, p, r)
                      /\ m.cpu.regs[r] = RegBefore(n.cpu.regs, q, r)
                      /\ n.cpu.regs[r] = RegAfter(m.cpu.regs, q, r)
  BY DEF RegsAccount
<1>3. Together(m, n).cpu = n.cpu /\ Together(m, n).regWrites = p \o q
  BY DEF Together
<1> HIDE DEF p, q
<1>4. EndToEnd(p, q)
  BY <1>1, EntriesOfBoth
<1>5. ASSUME NEW r \in Reg
      PROVE  /\ c.regs[r] = RegBefore(n.cpu.regs, p \o q, r)
             /\ n.cpu.regs[r] = RegAfter(c.regs, p \o q, r)
  <2> DEFINE S == RegTouches(p, r)
             T == RegTouches(q, r)
             U == S \cup Behind(Len(p), T)
             f == [j \in DOMAIN p |-> p[j].before]
             g == [j \in DOMAIN q |-> q[j].before]
             h == [j \in DOMAIN (p \o q) |-> (p \o q)[j].before]
             ff == [j \in DOMAIN p |-> p[j].after]
             gg == [j \in DOMAIN q |-> q[j].after]
             hh == [j \in DOMAIN (p \o q) |-> (p \o q)[j].after]
  <2>1. S \in SUBSET (1 .. Len(p)) /\ T \in SUBSET (1 .. Len(q))
    BY <1>4 DEF RegTouches, EndToEnd
  <2>2. RegTouches(p \o q, r) = U
    <3>1. ASSUME NEW j
          PROVE  j \in RegTouches(p \o q, r) <=> j \in U
      <4>1. j \in U <=> \/ j \in DOMAIN p /\ p[j].reg = r
                        \/ \E i \in DOMAIN q : j = Len(p) + i /\ q[i].reg = r
        BY DEF RegTouches, Behind
      <4>2. j \in RegTouches(p \o q, r) <=> j \in DOMAIN (p \o q) /\ (p \o q)[j].reg = r
        BY DEF RegTouches
      <4> HIDE DEF U
      <4>. QED  BY <1>4, <4>1, <4>2 DEF EndToEnd
    <3>. QED  BY <3>1
  <2>3. JoinedValues(Len(p), S, T, f, g, h) /\ JoinedValues(Len(p), S, T, ff, gg, hh)
    BY <1>4 DEF RegTouches, EndToEnd, JoinedValues
  <2>4. U \in SUBSET (1 .. Len(p \o q))
    BY <1>4, <2>2 DEF RegTouches, EndToEnd
  <2> HIDE DEF S, T, U
  <2>5. Len(p) \in Nat /\ Len(q) \in Nat /\ Len(p \o q) \in Nat
    BY <1>4 DEF EndToEnd
  <2>6. /\ S # {} => FirstOf(S) \in 1 .. Len(p) /\ LastOf(S) \in 1 .. Len(p)
        /\ T # {} => FirstOf(T) \in 1 .. Len(q) /\ LastOf(T) \in 1 .. Len(q)
        /\ U # {} => FirstOf(U) \in 1 .. Len(p \o q) /\ LastOf(U) \in 1 .. Len(p \o q)
    BY <2>1, <2>4, <2>5, TouchesExist, Zenon
  <2>7. /\ RegBefore(m.cpu.regs, p, r) = IF S = {} THEN m.cpu.regs[r] ELSE f[FirstOf(S)]
        /\ RegBefore(n.cpu.regs, q, r) = IF T = {} THEN n.cpu.regs[r] ELSE g[FirstOf(T)]
        /\ RegBefore(n.cpu.regs, p \o q, r) = IF U = {} THEN n.cpu.regs[r] ELSE h[FirstOf(U)]
    BY <1>4, <2>2, <2>6 DEF RegBefore, S, T, EndToEnd
  <2>8. /\ RegAfter(c.regs, p, r) = IF S = {} THEN c.regs[r] ELSE ff[LastOf(S)]
        /\ RegAfter(m.cpu.regs, q, r) = IF T = {} THEN m.cpu.regs[r] ELSE gg[LastOf(T)]
        /\ RegAfter(c.regs, p \o q, r) = IF U = {} THEN c.regs[r] ELSE hh[LastOf(U)]
    BY <1>4, <2>2, <2>6 DEF RegAfter, S, T, EndToEnd
  <2> HIDE DEF f, g, h, ff, gg, hh
  <2>9. c.regs[r] = IF U = {} THEN n.cpu.regs[r] ELSE h[FirstOf(U)]
    <3>1. /\ c.regs[r] = IF S = {} THEN m.cpu.regs[r] ELSE f[FirstOf(S)]
          /\ m.cpu.regs[r] = IF T = {} THEN n.cpu.regs[r] ELSE g[FirstOf(T)]
      BY <1>2, <2>7
    <3>. QED  BY <2>1, <2>3, <2>5, <3>1, UndoneTogether DEF U
  <2>10. n.cpu.regs[r] = IF U = {} THEN c.regs[r] ELSE hh[LastOf(U)]
    <3>1. /\ m.cpu.regs[r] = IF S = {} THEN c.regs[r] ELSE ff[LastOf(S)]
          /\ n.cpu.regs[r] = IF T = {} THEN m.cpu.regs[r] ELSE gg[LastOf(T)]
      BY <1>2, <2>8
    <3>. QED  BY <2>1, <2>3, <2>5, <3>1, ReplayedTogether DEF U
  <2>. QED  BY <2>7, <2>8, <2>9, <2>10, Zenon
<1>. QED  BY <1>3, <1>5 DEF RegsAccount

\* A memory that was protected maps what it mapped.
LEMMA MappedIsKept ==
  ASSUME NEW p, NEW q, Protected(p, q)
  PROVE  Mapped(q) = Mapped(p)
BY CoveringIsKept DEF Mapped

\* The memory of two steps in a row.
LEMMA MemoryTogether ==
  ASSUME NEW c, NEW m, NEW n, Logged(m), Logged(n),
         Protected(c.mem, m.cpu.mem), MemAccount(c, m), MemAccount(m.cpu, n)
  PROVE  MemAccount(c, Together(m, n))
<1> DEFINE p == m.memWrites
           q == n.memWrites
<1>1. p \in Seq(MemWrites) /\ q \in Seq(MemWrites)
  BY DEF Logged
<1>2. \A a \in Mapped(c.mem) :
        /\ CellAt(c.mem, a) = MemBefore(m.cpu.mem, p, a)
        /\ CellAt(m.cpu.mem, a) = MemAfter(c.mem, p, a)
        /\ CellAt(m.cpu.mem, a) = MemBefore(n.cpu.mem, q, a)
        /\ CellAt(n.cpu.mem, a) = MemAfter(m.cpu.mem, q, a)
  BY MappedIsKept DEF MemAccount
<1>3. Together(m, n).cpu = n.cpu /\ Together(m, n).memWrites = p \o q
  BY DEF Together
<1> HIDE DEF p, q
<1>4. EndToEnd(p, q)
  BY <1>1, EntriesOfBoth
<1>5. ASSUME NEW a \in Mapped(c.mem)
      PROVE  /\ CellAt(c.mem, a) = MemBefore(n.cpu.mem, p \o q, a)
             /\ CellAt(n.cpu.mem, a) = MemAfter(c.mem, p \o q, a)
  <2> DEFINE S == MemTouches(p, a)
             T == MemTouches(q, a)
             U == S \cup Behind(Len(p), T)
             f == [j \in DOMAIN p |-> p[j].before[a - p[j].addr + 1]]
             g == [j \in DOMAIN q |-> q[j].before[a - q[j].addr + 1]]
             h == [j \in DOMAIN (p \o q) |-> (p \o q)[j].before[a - (p \o q)[j].addr + 1]]
             ff == [j \in DOMAIN p |-> p[j].after[a - p[j].addr + 1]]
             gg == [j \in DOMAIN q |-> q[j].after[a - q[j].addr + 1]]
             hh == [j \in DOMAIN (p \o q) |-> (p \o q)[j].after[a - (p \o q)[j].addr + 1]]
  <2>1. S \in SUBSET (1 .. Len(p)) /\ T \in SUBSET (1 .. Len(q))
    BY <1>4 DEF MemTouches, EndToEnd
  <2>2. MemTouches(p \o q, a) = U
    <3>1. ASSUME NEW j
          PROVE  j \in MemTouches(p \o q, a) <=> j \in U
      <4>1. j \in U <=> \/ j \in DOMAIN p /\ a - p[j].addr + 1 \in DOMAIN p[j].after
                        \/ \E i \in DOMAIN q :
                             j = Len(p) + i /\ a - q[i].addr + 1 \in DOMAIN q[i].after
        BY DEF MemTouches, Behind
      <4>2. j \in MemTouches(p \o q, a) <=>
              /\ j \in DOMAIN (p \o q)
              /\ a - (p \o q)[j].addr + 1 \in DOMAIN (p \o q)[j].after
        BY DEF MemTouches
      <4> HIDE DEF U
      <4>. QED  BY <1>4, <4>1, <4>2 DEF EndToEnd
    <3>. QED  BY <3>1
  <2>3. JoinedValues(Len(p), S, T, f, g, h) /\ JoinedValues(Len(p), S, T, ff, gg, hh)
    BY <1>4 DEF MemTouches, EndToEnd, JoinedValues
  <2>4. U \in SUBSET (1 .. Len(p \o q))
    BY <1>4, <2>2 DEF MemTouches, EndToEnd
  <2> HIDE DEF S, T, U
  <2>5. Len(p) \in Nat /\ Len(q) \in Nat /\ Len(p \o q) \in Nat
    BY <1>4 DEF EndToEnd
  <2>6. /\ S # {} => FirstOf(S) \in 1 .. Len(p) /\ LastOf(S) \in 1 .. Len(p)
        /\ T # {} => FirstOf(T) \in 1 .. Len(q) /\ LastOf(T) \in 1 .. Len(q)
        /\ U # {} => FirstOf(U) \in 1 .. Len(p \o q) /\ LastOf(U) \in 1 .. Len(p \o q)
    BY <2>1, <2>4, <2>5, TouchesExist, Zenon
  <2>7. /\ MemBefore(m.cpu.mem, p, a) = IF S = {} THEN CellAt(m.cpu.mem, a) ELSE f[FirstOf(S)]
        /\ MemBefore(n.cpu.mem, q, a) = IF T = {} THEN CellAt(n.cpu.mem, a) ELSE g[FirstOf(T)]
        /\ MemBefore(n.cpu.mem, p \o q, a) = IF U = {} THEN CellAt(n.cpu.mem, a) ELSE h[FirstOf(U)]
    BY <1>4, <2>2, <2>6 DEF MemBefore, S, T, EndToEnd
  <2>8. /\ MemAfter(c.mem, p, a) = IF S = {} THEN CellAt(c.mem, a) ELSE ff[LastOf(S)]
        /\ MemAfter(m.cpu.mem, q, a) = IF T = {} THEN CellAt(m.cpu.mem, a) ELSE gg[LastOf(T)]
        /\ MemAfter(c.mem, p \o q, a) = IF U = {} THEN CellAt(c.mem, a) ELSE hh[LastOf(U)]
    BY <1>4, <2>2, <2>6 DEF MemAfter, S, T, EndToEnd
  <2> HIDE DEF f, g, h, ff, gg, hh
  <2>9. CellAt(c.mem, a) = IF U = {} THEN CellAt(n.cpu.mem, a) ELSE h[FirstOf(U)]
    <3>1. /\ CellAt(c.mem, a) = IF S = {} THEN CellAt(m.cpu.mem, a) ELSE f[FirstOf(S)]
          /\ CellAt(m.cpu.mem, a) = IF T = {} THEN CellAt(n.cpu.mem, a) ELSE g[FirstOf(T)]
      BY <1>2, <2>7
    <3>. QED  BY <2>1, <2>3, <2>5, <3>1, UndoneTogether DEF U
  <2>10. CellAt(n.cpu.mem, a) = IF U = {} THEN CellAt(c.mem, a) ELSE hh[LastOf(U)]
    <3>1. /\ CellAt(m.cpu.mem, a) = IF S = {} THEN CellAt(c.mem, a) ELSE ff[LastOf(S)]
          /\ CellAt(n.cpu.mem, a) = IF T = {} THEN CellAt(m.cpu.mem, a) ELSE gg[LastOf(T)]
      BY <1>2, <2>8
    <3>. QED  BY <2>1, <2>3, <2>5, <3>1, ReplayedTogether DEF U
  <2>. QED  BY <2>7, <2>8, <2>9, <2>10, Zenon
<1>. QED  BY <1>3, <1>5 DEF MemAccount

\* Accounts of one step after the other are an account of both.
LEMMA AccountsTogether ==
  ASSUME NEW c, NEW m, NEW n, Logged(m), Logged(n), Accounts(c, m), Accounts(m.cpu, n)
  PROVE  Accounts(c, Together(m, n)) /\ Logged(Together(m, n))
<1>1. Together(m, n).cpu = n.cpu
  BY DEF Together
<1>2. Protected(c.mem, n.cpu.mem)
  BY ProtectedIsTransitive DEF Accounts
<1>3. RegsAccount(c, Together(m, n)) /\ MemAccount(c, Together(m, n))
  BY RegsTogether, MemoryTogether DEF Accounts
<1>4. Logged(Together(m, n))
  <2> DEFINE p == m.regWrites \o n.regWrites
             q == m.memWrites \o n.memWrites
  <2>1. p \in Seq(RegWrites) /\ q \in Seq(MemWrites)
    BY EntriesOfBoth DEF Logged
  <2>2. Together(m, n).regWrites = p /\ Together(m, n).memWrites = q
    BY DEF Together
  <2>. QED  BY <1>1, <2>1, <2>2 DEF Logged
<1>. QED  BY <1>1, <1>2, <1>3, <1>4 DEF Accounts

\* Nothing happened.
LEMMA NothingIsAccounted ==
  ASSUME NEW c \in Cpus, NEW m, m.cpu = c, m.regWrites = <<>>, m.memWrites = <<>>
  PROVE  Accounts(c, m) /\ Logged(m)
<1>1. \A log : log = <<>> =>
        (\A r : RegTouches(log, r) = {}) /\ (\A x : MemTouches(log, x) = {})
  BY DEF RegTouches, MemTouches
<1>2. RegsAccount(c, m)
  BY <1>1 DEF RegsAccount, RegBefore, RegAfter
<1>3. MemAccount(c, m)
  BY <1>1 DEF MemAccount, MemBefore, MemAfter
<1>. QED  BY <1>2, <1>3, ProtectedIsReflexive DEF Accounts, Logged

-----------------------------------------------------------------------------
(***************************************************************************)
(* The joined logs of a trace.                                             *)
(***************************************************************************)
\* A set that holds 0, and each number up to n after the one before it.
LEMMA OneByOne ==
  ASSUME NEW n \in Nat, NEW S, 0 \in S, \A k \in 1 .. n : k - 1 \in S => k \in S
  PROVE  \A k \in 0 .. n : k \in S
<1> DEFINE missing == {k \in 0 .. n : k \notin S}
           k == FirstOf(missing)
<1>1. ASSUME missing # {}
      PROVE  FALSE
  <2>1. missing \in SUBSET Nat
    OBVIOUS
  <2>2. k \in missing /\ \A j \in missing : k <= j
    <3> HIDE DEF missing
    <3>. QED  BY <1>1, <2>1, FirstIsLeast
  <2> HIDE DEF k
  <2>3. k \in 1 .. n /\ k - 1 \in 0 .. n /\ ~(k <= k - 1)
    BY <2>2
  <2>4. k - 1 \in S
    BY <2>2, <2>3
  <2>. QED  BY <2>2, <2>3, <2>4
<1>. QED  BY <1>1

\* Logs can be joined one by one.
Joins(E, k, parts, f) ==
  /\ f \in [0 .. k -> Seq(E)]
  /\ f[0] = <<>>
  /\ \A i \in 1 .. k : f[i] = f[i - 1] \o parts[i]

LEMMA JoinsExist ==
  ASSUME NEW E, NEW n \in Nat, NEW parts \in [1 .. n -> Seq(E)]
  PROVE  \E f : Joins(E, n, parts, f)
<1> DEFINE S == {k \in Nat : \E f : Joins(E, k, parts, f)}
<1>1. 0 \in S
  <2> DEFINE f == [k \in 0 .. 0 |-> <<>>]
  <2>1. f \in [0 .. 0 -> Seq(E)] /\ f[0] = <<>>
    OBVIOUS
  <2> HIDE DEF f
  <2>2. \A i \in 1 .. 0 : FALSE
    OBVIOUS
  <2>3. Joins(E, 0, parts, f)
    BY <2>1, <2>2 DEF Joins
  <2>. QED  BY <2>3
<1>2. ASSUME NEW k \in 1 .. n, k - 1 \in S
      PROVE  k \in S
  <2>1. PICK f : Joins(E, k - 1, parts, f)
    BY <1>2
  <2> DEFINE g == [i \in 0 .. k |-> IF i = k THEN f[k - 1] \o parts[k] ELSE f[i]]
  <2>2. k \in Nat /\ k - 1 \in 0 .. k - 1 /\ parts[k] \in Seq(E) /\ f[k - 1] \in Seq(E)
    BY <2>1 DEF Joins
  <2>3. f[k - 1] \o parts[k] \in Seq(E)
    BY <2>2
  <2>4. g \in [0 .. k -> Seq(E)]
    BY <2>1, <2>2, <2>3 DEF Joins
  <2>5. g[0] = <<>>
    BY <2>1, <2>2 DEF Joins
  <2>6. ASSUME NEW i \in 1 .. k
        PROVE  g[i] = g[i - 1] \o parts[i]
    <3>1. i \in 0 .. k /\ i - 1 \in 0 .. k /\ i - 1 # k
      BY <2>2
    <3>2. CASE i = k
      BY <3>1, <3>2
    <3>3. CASE i # k
      <4>1. i \in 1 .. k - 1
        BY <2>2, <3>3
      <4>2. f[i] = f[i - 1] \o parts[i]
        BY <2>1, <4>1 DEF Joins
      <4>. QED  BY <3>1, <3>3, <4>2
    <3>. QED  BY <3>2, <3>3
  <2> HIDE DEF g
  <2>7. Joins(E, k, parts, g)
    BY <2>4, <2>5, <2>6 DEF Joins
  <2>. QED  BY <2>2, <2>7
<1>3. n \in S
  <2> HIDE DEF S
  <2>1. \A k \in 0 .. n : k \in S
    BY <1>1, <1>2, OneByOne
  <2>. QED  BY <2>1
<1>. QED  BY <1>3

\* The logs of the first k parts are those of one fewer and then the k-th.
Recurs(E, n, parts) ==
  /\ Joined([j \in 1 .. 0 |-> parts[j]]) = <<>>
  /\ \A k \in 0 .. n : Joined([j \in 1 .. k |-> parts[j]]) \in Seq(E)
  /\ \A k \in 1 .. n : Joined([j \in 1 .. k |-> parts[j]])
                         = Joined([j \in 1 .. k - 1 |-> parts[j]]) \o parts[k]

LEMMA JoinedRecurs ==
  ASSUME NEW E, NEW n \in Nat, NEW parts \in [1 .. n -> Seq(E)]
  PROVE  Recurs(E, n, parts)
<1>0. PICK f : Joins(E, n, parts, f)
  BY JoinsExist
<1>1. /\ f \in [0 .. n -> Seq(E)]
      /\ f[0] = <<>>
      /\ \A k \in 1 .. n : f[k] = f[k - 1] \o parts[k]
  BY <1>0 DEF Joins
<1>2. ASSUME NEW k \in 0 .. n
      PROVE  Joined([j \in 1 .. k |-> parts[j]]) = f[k]
  <2> DEFINE p == [j \in 1 .. k |-> parts[j]]
             Body(g) == [i \in 0 .. Len(p) |-> IF i = 0 THEN <<>> ELSE g[i - 1] \o p[i]]
             built == CHOOSE g : g = Body(g)
             fk == [i \in 0 .. k |-> f[i]]
  <2>1. k \in Nat /\ Len(p) = k
    OBVIOUS
  <2>2. \A i \in 1 .. k : p[i] = parts[i] /\ i \in 1 .. n /\ i - 1 \in 0 .. k /\ i \in 0 .. k
    OBVIOUS
  <2>3. Joined(p) = built[k]
    <3>1. Joined(p) = built[Len(p)]
      BY DEF Joined
    <3>. QED  BY <2>1, <3>1
  <2> HIDE DEF p
  <2>4. fk = Body(fk)
    <3>1. ASSUME NEW i \in 0 .. k
          PROVE  fk[i] = IF i = 0 THEN <<>> ELSE fk[i - 1] \o p[i]
      <4>1. CASE i = 0
        BY <1>1, <4>1
      <4>2. CASE i # 0
        <5>1. i \in 1 .. k
          BY <2>1, <4>2
        <5>2. fk[i] = f[i] /\ fk[i - 1] = f[i - 1]
          BY <2>2, <5>1
        <5>3. f[i] = f[i - 1] \o parts[i]
          BY <1>1, <2>2, <5>1
        <5>. QED  BY <2>2, <4>2, <5>1, <5>2, <5>3
      <4>. QED  BY <4>1, <4>2
    <3> HIDE DEF p
    <3>. QED  BY <2>1, <3>1
  <2>5. built = Body(built)
    <3> HIDE DEF Body, fk
    <3>. QED  BY <2>4, Zenon
  <2> HIDE DEF built
  <2>6. built[0] = <<>> /\ \A i \in 1 .. k : built[i] = built[i - 1] \o p[i]
    <3>1. \A i \in 0 .. Len(p) : Body(built)[i] = IF i = 0 THEN <<>> ELSE built[i - 1] \o p[i]
      OBVIOUS
    <3> HIDE DEF Body
    <3>2. \A i \in 0 .. k : built[i] = IF i = 0 THEN <<>> ELSE built[i - 1] \o p[i]
      BY <2>1, <2>5, <3>1
    <3>3. 0 \in 0 .. k /\ \A i \in 1 .. k : i \in 0 .. k /\ i # 0
      BY <2>1
    <3>. QED  BY <3>2, <3>3
  <2> DEFINE S == {i \in 0 .. k : built[i] = f[i]}
  <2>7. 0 \in S
    BY <1>1, <2>1, <2>6
  <2>8. ASSUME NEW i \in 1 .. k, i - 1 \in S
        PROVE  i \in S
    <3>1. built[i] = built[i - 1] \o p[i] /\ f[i] = f[i - 1] \o parts[i] /\ p[i] = parts[i]
      BY <1>1, <2>2, <2>6
    <3>. QED  BY <2>2, <2>8, <3>1
  <2>9. k \in S
    <3> HIDE DEF S
    <3>1. \A i \in 0 .. k : i \in S
      BY <2>1, <2>7, <2>8, OneByOne
    <3>. QED  BY <2>1, <3>1
  <2>. QED  BY <2>3, <2>9 DEF p
<1>3. \A k \in 1 .. n : k \in 0 .. n /\ k - 1 \in 0 .. n
  OBVIOUS
<1>4. 0 \in 0 .. n
  OBVIOUS
<1>. QED  BY <1>1, <1>2, <1>3, <1>4 DEF Recurs

\* What the first entries of the trace wrote is a log that grows entry by entry.
LogsGrow(n) ==
  /\ Registers(0) = <<>> /\ Stores(0) = <<>>
  /\ \A k \in 0 .. n : Registers(k) \in Seq(RegWrites) /\ Stores(k) \in Seq(MemWrites)
  /\ \A k \in 1 .. n : /\ Registers(k) = Registers(k - 1) \o trace[k].regWrites
                       /\ Stores(k) = Stores(k - 1) \o trace[k].memWrites

LEMMA EntriesAreTyped ==
  ASSUME trace \in Seq(Effects), NEW k \in 1 .. Len(trace)
  PROVE  trace[k].regWrites \in Seq(RegWrites) /\ trace[k].memWrites \in Seq(MemWrites)
<1>1. trace[k] \in Effects
  OBVIOUS
<1>. QED  BY <1>1 DEF Effects

LEMMA TraceLogsGrow ==
  ASSUME trace \in Seq(Effects)
  PROVE  LogsGrow(Len(trace))
<1> DEFINE n == Len(trace)
           regParts == [k \in 1 .. n |-> trace[k].regWrites]
           memParts == [k \in 1 .. n |-> trace[k].memWrites]
<1>1. n \in Nat /\ regParts \in [1 .. n -> Seq(RegWrites)] /\ memParts \in [1 .. n -> Seq(MemWrites)]
  BY EntriesAreTyped
<1>2. ASSUME NEW k \in 0 .. n
      PROVE  /\ [j \in 1 .. k |-> regParts[j]] = [j \in 1 .. k |-> trace[j].regWrites]
             /\ [j \in 1 .. k |-> memParts[j]] = [j \in 1 .. k |-> trace[j].memWrites]
  <2>1. \A j \in 1 .. k : j \in 1 .. n
    BY <1>1
  <2>. QED  BY <2>1
<1>3. \A k \in 0 .. n : /\ Registers(k) = Joined([j \in 1 .. k |-> regParts[j]])
                         /\ Stores(k) = Joined([j \in 1 .. k |-> memParts[j]])
  BY <1>2 DEF Registers, Stores
<1>4. \A k \in 1 .. n : /\ regParts[k] = trace[k].regWrites /\ memParts[k] = trace[k].memWrites
                         /\ k \in 0 .. n /\ k - 1 \in 0 .. n
  OBVIOUS
<1>5. 0 \in 0 .. n
  BY <1>1
<1> HIDE DEF n, regParts, memParts
<1>6. /\ Joined([j \in 1 .. 0 |-> regParts[j]]) = <<>>
      /\ \A k \in 0 .. n : Joined([j \in 1 .. k |-> regParts[j]]) \in Seq(RegWrites)
      /\ \A k \in 1 .. n : Joined([j \in 1 .. k |-> regParts[j]])
                             = Joined([j \in 1 .. k - 1 |-> regParts[j]]) \o regParts[k]
  <2>1. Recurs(RegWrites, n, regParts)
    BY <1>1, JoinedRecurs, Zenon
  <2>. QED  BY <2>1 DEF Recurs
<1>7. /\ Joined([j \in 1 .. 0 |-> memParts[j]]) = <<>>
      /\ \A k \in 0 .. n : Joined([j \in 1 .. k |-> memParts[j]]) \in Seq(MemWrites)
      /\ \A k \in 1 .. n : Joined([j \in 1 .. k |-> memParts[j]])
                             = Joined([j \in 1 .. k - 1 |-> memParts[j]]) \o memParts[k]
  <2>1. Recurs(MemWrites, n, memParts)
    BY <1>1, JoinedRecurs, Zenon
  <2>. QED  BY <2>1 DEF Recurs
<1>8. Registers(0) = <<>> /\ Stores(0) = <<>>
  BY <1>3, <1>5, <1>6, <1>7
<1>9. \A k \in 0 .. n : Registers(k) \in Seq(RegWrites) /\ Stores(k) \in Seq(MemWrites)
  BY <1>3, <1>6, <1>7, Zenon
<1>10. ASSUME NEW k \in 1 .. n
       PROVE  /\ Registers(k) = Registers(k - 1) \o trace[k].regWrites
              /\ Stores(k) = Stores(k - 1) \o trace[k].memWrites
  <2>1. k \in 0 .. n /\ k - 1 \in 0 .. n
    BY <1>4
  <2>2. /\ Registers(k) = Joined([j \in 1 .. k |-> regParts[j]])
        /\ Registers(k - 1) = Joined([j \in 1 .. k - 1 |-> regParts[j]])
        /\ Stores(k) = Joined([j \in 1 .. k |-> memParts[j]])
        /\ Stores(k - 1) = Joined([j \in 1 .. k - 1 |-> memParts[j]])
    BY <1>3, <2>1, Zenon
  <2>3. /\ Joined([j \in 1 .. k |-> regParts[j]])
             = Joined([j \in 1 .. k - 1 |-> regParts[j]]) \o regParts[k]
        /\ Joined([j \in 1 .. k |-> memParts[j]])
             = Joined([j \in 1 .. k - 1 |-> memParts[j]]) \o memParts[k]
    BY <1>6, <1>7, Zenon
  <2>4. regParts[k] = trace[k].regWrites /\ memParts[k] = trace[k].memWrites
    BY <1>4
  <2>. QED  BY <2>2, <2>3, <2>4, Zenon
<1>. QED  BY <1>8, <1>9, <1>10 DEF LogsGrow, n

-----------------------------------------------------------------------------
(***************************************************************************)
(* What is known while the program runs: the history is that of the        *)
(* machine, and each entry of the trace accounts for one step of it.       *)
(***************************************************************************)
LogOf(d, e) == [cpu |-> d, regWrites |-> e.regWrites, memWrites |-> e.memWrites]

\* e is the record of a step from c to d.
Witnessed(c, d, e) ==
  /\ Accounts(c, LogOf(d, e))
  /\ e.ip = c.rip
  /\ e.flagsBefore = c.flags /\ e.flagsAfter = d.flags

Recorded ==
  /\ history \in Seq(Cpus) /\ Len(history) = steps + 1
  /\ history[1] = start /\ start.flags = NoFlags
  /\ CleanEnd => cpu = history[steps + 1]
  /\ Len(trace) <= steps
  /\ \A k \in 1 .. Len(trace) : Witnessed(history[k], history[k + 1], trace[k])

\* What a fault did that no entry says: the machine is ahead of the history in rsp only.
OnlyRspIsAhead == \A r \in Reg \ {"rsp"} : cpu.regs[r] = history[steps + 1].regs[r]

\* The invariant: what is shown is the reconstruction of a run that ended.
ScrubInv ==
  /\ TypeOK /\ TraceIsThePrefixOfTheRun /\ Recorded /\ OnlyRspIsAhead
  /\ view.shown => stop # "running"
  /\ ScrubberIsFaithful /\ WindowShowsTheStack /\ FaultsSpoilOnlyTheStackPointer

\* A step that retired is witnessed by its record.
LEMMA StepsAreWitnessed ==
  ASSUME NEW c \in Cpus
  PROVE  Witnessed(c, Step(c).cpu, EffectsOf(c, Step(c)))
<1> DEFINE e == EffectsOf(c, Step(c))
           m == LogOf(Step(c).cpu, e)
<1>1. /\ e.ip = c.rip /\ e.flagsBefore = c.flags /\ e.flagsAfter = Step(c).cpu.flags
      /\ e.regWrites = Step(c).regWrites /\ e.memWrites = Step(c).memWrites
  BY DEF EffectsOf
<1> HIDE DEF e
<1>2. m.cpu = Step(c).cpu /\ m.regWrites = Step(c).regWrites /\ m.memWrites = Step(c).memWrites
  BY <1>1 DEF LogOf
<1> HIDE DEF m
<1>3. Accounts(c, Step(c))
  BY StepAdvances
<1>4. Accounts(c, m)
  BY <1>2, <1>3, SameLogsKeepAccounts DEF KeepsAccounts
<1>. QED  BY <1>1, <1>4 DEF Witnessed, e, m

LEMMA InitRecords == TypeOK /\ ScrubInit => Recorded
<1> SUFFICES ASSUME TypeOK, ScrubInit PROVE Recorded
  OBVIOUS
<1>1. /\ history = <<cpu>> /\ trace = <<>> /\ steps = 0 /\ start = cpu
      /\ cpu.flags = NoFlags /\ cpu \in Cpus
  BY DEF ScrubInit, Init, WithCode, TypeOK
<1>2. history \in Seq(Cpus) /\ Len(history) = 1 /\ history[1] = cpu /\ Len(trace) = 0
  BY <1>1
<1>. QED  BY <1>1, <1>2 DEF Recorded

\* The history grows by the machine that a step left, which is where it is.
LEMMA RetiringIsRecorded ==
  ASSUME TypeOK, TraceIsThePrefixOfTheRun, Recorded, stop = "running", start' = start,
         cpu' = Step(cpu).cpu, cpu' \in Cpus, Retires(Step(cpu)),
         history' = Append(history, cpu')
  PROVE  Recorded'
<1> DEFINE e == EffectsOf(cpu, Step(cpu))
<1>1. /\ trace \in Seq(Effects) /\ Len(trace) \in Nat /\ steps \in Nat /\ cpu \in Cpus
      /\ history \in Seq(Cpus) /\ Len(history) = steps + 1
  BY LimitsAreCounts DEF TypeOK, Recorded
<1>2. Witnessed(cpu, cpu', e)
  BY <1>1, StepsAreWitnessed
<1> HIDE DEF e
<1>3. steps' = steps + 1 /\ trace' = IF Len(trace) < TraceLimit THEN Append(trace, e) ELSE trace
  BY DEF Retires, e
<1>4. CleanEnd
  BY StopsAreDistinct DEF CleanEnd
<1>5. /\ history[1] = start /\ start.flags = NoFlags /\ cpu = history[steps + 1]
      /\ Len(trace) <= steps
      /\ \A k \in 1 .. Len(trace) : Witnessed(history[k], history[k + 1], trace[k])
  BY <1>4 DEF Recorded
<1>6. /\ history' \in Seq(Cpus) /\ Len(history') = steps + 2
      /\ history'[steps + 2] = cpu'
      /\ \A k \in 1 .. steps + 1 : history'[k] = history[k]
  BY <1>1
<1>7. /\ Len(trace') <= steps'
      /\ \A k \in 1 .. Len(trace') : Witnessed(history'[k], history'[k + 1], trace'[k])
  <2>1. ASSUME NEW k \in 1 .. Len(trace)
        PROVE  Witnessed(history'[k], history'[k + 1], trace[k])
    <3>1. k \in 1 .. steps + 1 /\ k + 1 \in 1 .. steps + 1
      BY <1>1, <1>5
    <3>. QED  BY <1>5, <1>6, <3>1
  <2>2. CASE Len(trace) < TraceLimit
    <3>1. Len(trace) = steps
      BY <1>1, <2>2, LimitsAreCounts DEF TraceIsThePrefixOfTheRun
    <3>2. trace' = Append(trace, e)
      BY <1>3, <2>2
    <3>3. /\ Len(trace') = steps + 1 /\ trace'[steps + 1] = e
          /\ \A k \in 1 .. steps : trace'[k] = trace[k]
      BY <1>1, <3>1, <3>2
    <3>4. Witnessed(history'[steps + 1], history'[steps + 2], trace'[steps + 1])
      <4>1. steps + 1 \in 1 .. steps + 1
        BY <1>1
      <4>2. history'[steps + 1] = cpu
        BY <1>5, <1>6, <4>1
      <4>. QED  BY <1>2, <1>6, <3>3, <4>2
    <3>5. ASSUME NEW k \in 1 .. Len(trace')
          PROVE  Witnessed(history'[k], history'[k + 1], trace'[k])
      <4>1. CASE k = steps + 1
        <5>1. k + 1 = steps + 2
          BY <1>1, <4>1
        <5>. QED  BY <3>4, <4>1, <5>1
      <4>2. CASE k # steps + 1
        <5>1. k \in 1 .. Len(trace) /\ trace'[k] = trace[k]
          BY <1>1, <3>1, <3>3, <4>2
        <5>. QED  BY <2>1, <5>1
      <4>. QED  BY <4>1, <4>2
    <3>. QED  BY <1>1, <1>3, <3>3, <3>5
  <2>3. CASE ~(Len(trace) < TraceLimit)
    <3>1. trace' = trace
      BY <1>3, <2>3
    <3>. QED  BY <1>1, <1>3, <1>5, <2>1, <3>1
  <2>. QED  BY <2>2, <2>3
<1>8. history'[1] = start' /\ start'.flags = NoFlags
  <2>1. 1 \in 1 .. steps + 1
    BY <1>1
  <2>. QED  BY <1>5, <1>6, <2>1
<1>9. Len(history') = steps' + 1 /\ cpu' = history'[steps' + 1]
  <2>1. steps' + 1 = steps + 2
    BY <1>1, <1>3
  <2>. QED  BY <1>6, <2>1
<1>. QED  BY <1>6, <1>7, <1>8, <1>9 DEF Recorded

\* Whatever the loop does, the history keeps step with it.
LEMMA RunRecords ==
  TypeOK /\ TraceIsThePrefixOfTheRun /\ Recorded /\ Run => Recorded'
<1> SUFFICES ASSUME TypeOK, TraceIsThePrefixOfTheRun, Recorded, Run PROVE Recorded'
  OBVIOUS
<1>1. /\ Next /\ history' = IF steps' > steps THEN Append(history, cpu') ELSE history
      /\ steps \in Nat /\ ~(steps > steps) /\ cpu \in Cpus
  BY LimitsAreCounts DEF Run, TypeOK
<1>2. CASE StopOnHalt \/ StopOnLimit
  <2>1. stop = "running" /\ UNCHANGED <<cpu, trace, steps, start>>
    BY <1>2 DEF StopOnHalt, StopOnLimit
  <2>2. history' = history /\ CleanEnd
    BY <1>1, <2>1, StopsAreDistinct DEF CleanEnd
  <2>. QED  BY <2>1, <2>2 DEF Recorded
<1>3. CASE StepsOnce
  <2>1. stop = "running" /\ CleanEnd
    BY <1>3, StopsAreDistinct DEF StepsOnce, MayStep, CleanEnd
  <2>2. cpu' = Step(cpu).cpu /\ cpu' \in Cpus /\ start' = start
    BY <1>1, <1>3, StepOfTheLoop
  <2>3. CASE Retires(Step(cpu))
    <3>1. steps' > steps
      BY <1>1, <2>3 DEF Retires
    <3>2. history' = Append(history, cpu')
      BY <1>1, <3>1
    <3>. QED  BY <2>1, <2>2, <2>3, <3>2, RetiringIsRecorded
  <2>4. CASE Step(cpu).fault \in Faults \ {"none"} /\ FaultsWith(Step(cpu))
    <3>1. UNCHANGED <<trace, steps, history>> /\ stop' = Step(cpu).fault
      BY <1>1, <2>4 DEF FaultsWith
    <3>2. CleanEnd' => cpu' = cpu
      <4>1. Step(cpu).fault = "decode" => Step(cpu).cpu = cpu
        BY <1>1, StepAdvances
      <4>. QED  BY <2>2, <2>4, <3>1, <4>1 DEF CleanEnd
    <3>. QED  BY <2>1, <2>2, <3>1, <3>2 DEF Recorded
  <2>. QED  BY <1>1, <1>3, <2>3, <2>4, StepOfTheLoop
<1>4. CASE UNCHANGED vars
  <2>1. history' = history
    BY <1>1, <1>4 DEF vars
  <2>. QED  BY <1>4, <2>1 DEF Recorded, CleanEnd, vars
<1>. QED  BY <1>1, <1>2, <1>3, <1>4, NextIsATurn

\* A step that faults has written no register but rsp.
LEMMA RunStaysAhead ==
  TypeOK /\ Recorded /\ OnlyRspIsAhead /\ Run => OnlyRspIsAhead'
<1> SUFFICES ASSUME TypeOK, Recorded, OnlyRspIsAhead, Run PROVE OnlyRspIsAhead'
  OBVIOUS
<1>1. /\ Next /\ history' = IF steps' > steps THEN Append(history, cpu') ELSE history
      /\ steps \in Nat /\ ~(steps > steps) /\ cpu \in Cpus
      /\ history \in Seq(Cpus) /\ Len(history) = steps + 1
  BY LimitsAreCounts DEF Run, TypeOK, Recorded
<1>2. CASE StopOnHalt \/ StopOnLimit
  <2>1. UNCHANGED <<cpu, steps>>
    BY <1>2 DEF StopOnHalt, StopOnLimit
  <2>2. history' = history
    BY <1>1, <2>1
  <2>. QED  BY <2>1, <2>2 DEF OnlyRspIsAhead
<1>3. CASE StepsOnce
  <2>1. CleanEnd
    BY <1>3, StopsAreDistinct DEF StepsOnce, MayStep, CleanEnd
  <2>2. cpu' = Step(cpu).cpu /\ cpu' \in Cpus
    BY <1>1, <1>3, StepOfTheLoop
  <2>3. CASE Retires(Step(cpu))
    <3>1. steps' = steps + 1
      BY <2>3 DEF Retires
    <3>2. history' = Append(history, cpu')
      BY <1>1, <3>1
    <3>3. history'[steps' + 1] = cpu'
      BY <1>1, <2>2, <3>1, <3>2
    <3>. QED  BY <3>3 DEF OnlyRspIsAhead
  <2>4. CASE Step(cpu).fault \in Faults \ {"none"} /\ FaultsWith(Step(cpu))
    <3>1. UNCHANGED <<steps, history>>
      BY <1>1, <2>4 DEF FaultsWith
    <3>2. cpu = history[steps + 1]
      BY <2>1 DEF Recorded
    <3>3. \A r \in Reg \ {"rsp"} : Step(cpu).cpu.regs[r] = cpu.regs[r]
      BY <1>1, <2>4, StepAdvances
    <3>. QED  BY <2>2, <3>1, <3>2, <3>3 DEF OnlyRspIsAhead
  <2>. QED  BY <1>1, <1>3, <2>3, <2>4, StepOfTheLoop
<1>4. CASE UNCHANGED vars
  <2>1. history' = history
    BY <1>1, <1>4 DEF vars
  <2>. QED  BY <1>4, <2>1 DEF OnlyRspIsAhead, vars
<1>. QED  BY <1>1, <1>2, <1>3, <1>4, NextIsATurn

-----------------------------------------------------------------------------
(***************************************************************************)
(* What the reconstruction makes of it.                                    *)
(***************************************************************************)
\* The first k entries, as if they were one step from the start.
Upto(k) ==
  [cpu |-> history[k + 1], regWrites |-> Registers(k), memWrites |-> Stores(k)]

Accounted(k) == Accounts(start, Upto(k)) /\ Logged(Upto(k))

LEMMA HistoryIsAccounted ==
  ASSUME TypeOK, Recorded
  PROVE  \A k \in 0 .. Len(trace) : Accounted(k)
<1> DEFINE n == Len(trace)
           S == {k \in Nat : Accounted(k)}
<1>1. /\ trace \in Seq(Effects) /\ n \in Nat /\ steps \in Nat /\ start \in Cpus
      /\ history \in Seq(Cpus) /\ Len(history) = steps + 1 /\ n <= steps
      /\ history[1] = start
  BY LimitsAreCounts DEF TypeOK, Recorded
<1>2. LogsGrow(n)
  BY <1>1, TraceLogsGrow
<1>3. 0 \in S
  <2>1. /\ Upto(0).cpu = start /\ Upto(0).regWrites = <<>> /\ Upto(0).memWrites = <<>>
    BY <1>1, <1>2 DEF Upto, LogsGrow
  <2>2. Accounted(0)
    BY <1>1, <2>1, NothingIsAccounted DEF Accounted
  <2>. QED  BY <2>2
<1>4. ASSUME NEW k \in 1 .. n, k - 1 \in S
      PROVE  k \in S
  <2> DEFINE m == Upto(k - 1)
             l == LogOf(history[k + 1], trace[k])
  <2>1. k \in Nat /\ (k - 1) + 1 = k /\ k \in 1 .. steps + 1 /\ k + 1 \in 1 .. steps + 1
    BY <1>1
  <2>2. m.cpu = history[k] /\ m.regWrites = Registers(k - 1) /\ m.memWrites = Stores(k - 1)
    BY <2>1 DEF Upto
  <2>3. /\ l.cpu = history[k + 1] /\ l.regWrites = trace[k].regWrites
        /\ l.memWrites = trace[k].memWrites
    BY DEF LogOf
  <2>4. Upto(k) = Together(m, l)
    BY <1>2, <2>2, <2>3 DEF Upto, Together, LogsGrow
  <2>5. Accounts(start, m) /\ Logged(m)
    BY <1>4 DEF Accounted
  <2> HIDE DEF m
  <2>6. Accounts(m.cpu, l)
    BY <2>2 DEF Recorded, Witnessed
  <2>7. Logged(l)
    BY <1>1, <2>1, <2>3, EntriesAreTyped DEF Logged
  <2> HIDE DEF l
  <2>8. Accounts(start, Together(m, l)) /\ Logged(Together(m, l))
    BY <2>5, <2>6, <2>7, AccountsTogether, Zenon
  <2>9. Accounted(k)
    BY <2>4, <2>8 DEF Accounted
  <2>. QED  BY <2>1, <2>9
<1>5. \A k \in 0 .. n : k \in S
  <2> HIDE DEF S, n
  <2>. QED  BY <1>1, <1>3, <1>4, OneByOne
<1>. QED  BY <1>5

\* A complete trace of a run that ended cleanly.
Complete == CleanEnd /\ Len(trace) = steps

LEMMA RegistersAreRebuilt ==
  ASSUME TypeOK, Recorded, Complete
  PROVE  /\ InitialRegs = start.regs
         /\ \A k \in 0 .. Len(trace) : RegsAt(k) = history[k + 1].regs
<1> DEFINE n == Len(trace)
<1>1. /\ n \in Nat /\ n = steps /\ start \in Cpus /\ cpu = history[n + 1]
      /\ history \in Seq(Cpus) /\ Len(history) = n + 1
  BY LimitsAreCounts DEF TypeOK, Recorded, Complete
<1>2. \A k \in 0 .. n : RegsAccount(start, Upto(k))
  BY HistoryIsAccounted DEF Accounted, Accounts
<1>3. InitialRegs = start.regs
  <2>1. n \in 0 .. n
    BY <1>1
  <2>2. Upto(n).cpu = cpu /\ Upto(n).regWrites = Registers(n)
    BY <1>1 DEF Upto
  <2>3. \A r \in Reg : start.regs[r] = RegBefore(cpu.regs, Registers(n), r)
    BY <1>2, <2>1, <2>2 DEF RegsAccount
  <2>4. start.regs \in [Reg -> Word]
    BY <1>1 DEF Cpus
  <2>. QED  BY <2>3, <2>4 DEF InitialRegs
<1>4. ASSUME NEW k \in 0 .. n
      PROVE  RegsAt(k) = history[k + 1].regs
  <2>1. Upto(k).cpu = history[k + 1] /\ Upto(k).regWrites = Registers(k)
    BY DEF Upto
  <2>2. \A r \in Reg : history[k + 1].regs[r] = RegAfter(start.regs, Registers(k), r)
    BY <1>2, <2>1 DEF RegsAccount
  <2>3. k + 1 \in 1 .. n + 1
    BY <1>1
  <2>4. history[k + 1] \in Cpus
    BY <1>1, <2>3
  <2>5. history[k + 1].regs \in [Reg -> Word]
    BY <2>4 DEF Cpus
  <2>. QED  BY <1>3, <2>2, <2>5 DEF RegsAt
<1>. QED  BY <1>3, <1>4

\* After any end of a run, a register of a snapshot is off only if it is rsp, a fault
\* moved it, and no entry says what it was before.
LEMMA OnlyRspIsOff ==
  ASSUME TypeOK, Recorded, OnlyRspIsAhead, Len(trace) = steps,
         NEW k \in 0 .. Len(trace), NEW r \in Reg, RegsAt(k)[r] # history[k + 1].regs[r]
  PROVE  r = "rsp" /\ Unwritten(r) /\ ~CleanEnd
<1> DEFINE n == Len(trace)
<1>1. n \in Nat /\ n = steps /\ n \in 0 .. n
  BY DEF TypeOK
<1>2. RegsAccount(start, Upto(n)) /\ RegsAccount(start, Upto(k))
  BY <1>1, HistoryIsAccounted DEF Accounted, Accounts
<1>3. start.regs[r] = RegBefore(history[n + 1].regs, Registers(n), r)
  BY <1>2 DEF RegsAccount, Upto
<1>4. InitialRegs[r] = RegBefore(cpu.regs, Registers(n), r)
  BY DEF InitialRegs
<1>5. history[k + 1].regs[r] = RegAfter(start.regs, Registers(k), r)
  BY <1>2 DEF RegsAccount, Upto
<1>6. RegsAt(k)[r] = RegAfter(InitialRegs, Registers(k), r)
  BY DEF RegsAt
<1>7. InitialRegs[r] # start.regs[r]
  BY <1>5, <1>6 DEF RegAfter
<1>8. Unwritten(r) /\ cpu.regs[r] # history[n + 1].regs[r]
  BY <1>3, <1>4, <1>7 DEF RegBefore, Unwritten
<1>. QED  BY <1>1, <1>8 DEF OnlyRspIsAhead, Recorded

\* The rip and the flags of a snapshot are those its entry starts with, or ended with.
LEMMA ControlIsRebuilt ==
  ASSUME TypeOK, Recorded, Complete
  PROVE  \A k \in 0 .. Len(trace) :
           RipAt(k) = history[k + 1].rip /\ FlagsAt(k) = history[k + 1].flags
<1> DEFINE n == Len(trace)
<1>1. /\ n \in Nat /\ n = steps /\ cpu = history[n + 1] /\ history[1] = start
      /\ start.flags = NoFlags
  BY LimitsAreCounts DEF TypeOK, Recorded, Complete
<1>2. \A k \in 1 .. n : /\ trace[k].ip = history[k].rip
                         /\ trace[k].flagsBefore = history[k].flags
                         /\ trace[k].flagsAfter = history[k + 1].flags
  BY DEF Recorded, Witnessed
<1> SUFFICES ASSUME NEW k \in 0 .. n
             PROVE  RipAt(k) = history[k + 1].rip /\ FlagsAt(k) = history[k + 1].flags
  OBVIOUS
<1>3. RipAt(k) = history[k + 1].rip
  <2>1. CASE k < n
    <3>1. k + 1 \in 1 .. n
      BY <1>1, <2>1
    <3>. QED  BY <1>2, <2>1, <3>1 DEF RipAt
  <2>2. CASE ~(k < n)
    <3>1. k = n
      BY <1>1, <2>2
    <3>. QED  BY <1>1, <2>2, <3>1 DEF RipAt
  <2>. QED  BY <2>1, <2>2
<1>4. FlagsAt(k) = history[k + 1].flags
  <2>1. CASE k > 0
    <3>1. k \in 1 .. n
      BY <1>1, <2>1
    <3>. QED  BY <1>2, <2>1, <3>1 DEF FlagsAt
  <2>2. CASE k = 0
    <3>1. history[k + 1] = start /\ ~(k > 0)
      BY <1>1, <2>2
    <3>2. CASE n > 0
      <4>1. 1 \in 1 .. n
        BY <1>1, <3>2
      <4>2. FlagsAt(k) = trace[1].flagsBefore
        BY <2>2, <3>2 DEF FlagsAt
      <4>. QED  BY <1>1, <1>2, <3>1, <4>1, <4>2
    <3>3. CASE ~(n > 0)
      <4>1. FlagsAt(k) = NoFlags
        BY <2>2, <3>3 DEF FlagsAt
      <4>. QED  BY <1>1, <3>1, <4>1
    <3>. QED  BY <3>2, <3>3
  <2>. QED  BY <1>1, <2>1, <2>2
<1>. QED  BY <1>3, <1>4

\* Where no regions overlap, the region copied last over an address is the one the
\* machine finds there.
LEMMA SeedIsTheCell ==
  ASSUME cpu \in Cpus, Disjoint(cpu.mem), NEW a \in Mapped(cpu.mem)
  PROVE  Seed(a) = CellAt(cpu.mem, a)
<1> DEFINE mem == cpu.mem
           j == FirstOf(Covering(mem, a, 1))
<1>1. mem \in Memories /\ a \in Nat /\ Covering(mem, a, 1) # {}
  BY DEF Cpus, Mapped, Word
<1>2. j \in DOMAIN mem /\ a - mem[j].base + 1 \in DOMAIN mem[j].data
  BY <1>1, MappedIsInBounds
<1>3. CellAt(mem, a) = mem[j].data[a - mem[j].base + 1]
  BY DEF CellAt
<1> HIDE DEF j
<1>4. ASSUME NEW i \in DOMAIN mem
      PROVE  /\ i \in Int /\ mem[i].base \in Int /\ Len(mem[i].data) \in Nat
             /\ DOMAIN mem[i].data = 1 .. Len(mem[i].data)
  <2>1. i \in Int /\ mem[i] \in Regions
    BY <1>1 DEF Memories
  <2>. QED  BY <2>1 DEF Regions, Word
<1>5. Disjoint(mem)
  OBVIOUS
<1> HIDE DEF mem
<1>6. ASSUME NEW i \in DOMAIN mem, a - mem[i].base + 1 \in DOMAIN mem[i].data
      PROVE  i = j
  <2>1. /\ mem[i].base <= a /\ a < mem[i].base + Len(mem[i].data)
        /\ mem[j].base <= a /\ a < mem[j].base + Len(mem[j].data)
    <3>1. ASSUME NEW b \in Int, NEW l \in Nat, a - b + 1 \in 1 .. l
          PROVE  b <= a /\ a < b + l
      BY <1>1, <3>1
    <3>2. /\ mem[i].base \in Int /\ Len(mem[i].data) \in Nat
          /\ a - mem[i].base + 1 \in 1 .. Len(mem[i].data)
      BY <1>4, <1>6
    <3>3. /\ mem[j].base \in Int /\ Len(mem[j].data) \in Nat
          /\ a - mem[j].base + 1 \in 1 .. Len(mem[j].data)
      BY <1>2, <1>4
    <3>4. mem[i].base <= a /\ a < mem[i].base + Len(mem[i].data)
      BY <3>1, <3>2
    <3>5. mem[j].base <= a /\ a < mem[j].base + Len(mem[j].data)
      BY <3>1, <3>3
    <3>. QED  BY <3>4, <3>5
  <2>2. ASSUME NEW u \in DOMAIN mem, NEW v \in DOMAIN mem, u < v,
               mem[u].base <= a, a < mem[u].base + Len(mem[u].data),
               mem[v].base <= a, a < mem[v].base + Len(mem[v].data)
        PROVE  FALSE
    <3>1. \/ mem[u].base + Len(mem[u].data) <= mem[v].base
          \/ mem[v].base + Len(mem[v].data) <= mem[u].base
      BY <1>5, <2>2, Zenon DEF Disjoint
    <3>2. /\ mem[u].base \in Int /\ Len(mem[u].data) \in Nat
          /\ mem[v].base \in Int /\ Len(mem[v].data) \in Nat
      BY <1>4
    <3>. QED  BY <1>1, <2>2, <3>1, <3>2
  <2>3. ~(i < j) /\ ~(j < i)
    BY <1>2, <2>1, <2>2, Zenon
  <2>4. i \in Int /\ j \in Int
    BY <1>2, <1>4
  <2>. QED  BY <2>3, <2>4
<1>7. Seeded(a) = {j}
  BY <1>2, <1>6 DEF Seeded, mem
<1>8. LastOf({j}) = j
  <2>1. {j} \in SUBSET Int /\ \A i \in {j} : i <= j
    BY <1>2, <1>4
  <2>. QED  BY <2>1, LastIs
<1>. QED  BY <1>3, <1>7, <1>8 DEF Seed, mem

LEMMA DisjointIsKept ==
  ASSUME NEW p, NEW q, Protected(p, q), Disjoint(p)
  PROVE  Disjoint(q)
BY DEF Protected, Disjoint

\* Every cell that is shown is the machine's.
LEMMA CellsAreRebuilt ==
  ASSUME TypeOK, Recorded, Complete, Disjoint(start.mem)
  PROVE  \A k \in 0 .. Len(trace) : SameCells(MemoryAt(k), history[k + 1].mem)
<1> DEFINE n == Len(trace)
<1>1. /\ n \in Nat /\ n = steps /\ cpu \in Cpus /\ cpu = history[n + 1]
  BY LimitsAreCounts DEF TypeOK, Recorded, Complete
<1>2. \A k \in 0 .. n : Accounts(start, Upto(k)) /\ Upto(k).cpu = history[k + 1]
                         /\ Upto(k).memWrites = Stores(k)
  BY HistoryIsAccounted DEF Accounted, Upto
<1>3. n \in 0 .. n
  BY <1>1
<1>4. Protected(start.mem, cpu.mem) /\ MemAccount(start, Upto(n))
  BY <1>1, <1>2, <1>3 DEF Accounts
<1>5. Disjoint(cpu.mem) /\ Mapped(cpu.mem) = Mapped(start.mem)
  BY <1>4, DisjointIsKept, MappedIsKept
<1>6. ASSUME NEW a \in Mapped(start.mem)
      PROVE  InitialCell(a) = CellAt(start.mem, a)
  <2>1. CellAt(start.mem, a) = MemBefore(cpu.mem, Stores(n), a)
    BY <1>1, <1>2, <1>3, <1>4 DEF MemAccount
  <2>2. Seed(a) = CellAt(cpu.mem, a)
    BY <1>1, <1>5, SeedIsTheCell
  <2>. QED  BY <2>1, <2>2 DEF InitialCell, MemBefore
<1> SUFFICES ASSUME NEW k \in 0 .. n
             PROVE  SameCells(MemoryAt(k), history[k + 1].mem)
  OBVIOUS
<1>7. /\ Protected(start.mem, history[k + 1].mem) /\ MemAccount(start, Upto(k))
      /\ Upto(k).cpu = history[k + 1] /\ Upto(k).memWrites = Stores(k)
  BY <1>2 DEF Accounts
<1>8. Mapped(history[k + 1].mem) = Mapped(start.mem)
  BY <1>7, MappedIsKept
<1> SUFFICES ASSUME NEW a \in DOMAIN MemoryAt(k), a \in Mapped(start.mem)
             PROVE  MemoryAt(k)[a] = CellAt(history[k + 1].mem, a)
  BY <1>8 DEF SameCells
<1>9. CellAt(history[k + 1].mem, a) = MemAfter(start.mem, Stores(k), a)
  BY <1>7 DEF MemAccount
<1>10. a \in Shown
  BY DEF MemoryAt
<1>11. MemoryAt(k)[a] = MemAfter(start.mem, Stores(k), a)
  BY <1>6, <1>10 DEF MemoryAt, MemAfter
<1>. QED  BY <1>9, <1>11

\* What is shown when a run has ended: the snapshots of Reconstruct.
LEMMA ReconstructionIsFaithful ==
  TypeOK /\ Recorded /\ Show => ScrubberIsFaithful'
<1> SUFFICES ASSUME TypeOK, Recorded, Show, view'.shown, ~view'.truncated, CleanEnd',
                    Disjoint(start'.mem), NEW k \in 1 .. Len(history')
             PROVE  LET s == view'.snapshots[k] IN
                    /\ s.regs = history'[k].regs
                    /\ s.rip = history'[k].rip
                    /\ s.flags = history'[k].flags
                    /\ SameCells(s.cells, history'[k].mem)
  BY DEF ScrubberIsFaithful
<1>1. /\ view' = Reconstruct /\ history' = history /\ stop' = stop /\ start' = start
      /\ CleanEnd /\ Disjoint(start.mem)
  BY DEF Show, vars, CleanEnd
<1>2. /\ trace \in Seq(Effects) /\ Len(trace) \in Nat /\ steps \in Nat
      /\ Len(history) = steps + 1 /\ Len(trace) <= steps
  BY LimitsAreCounts DEF TypeOK, Recorded
<1>3. Complete
  <2>1. ~(steps > Len(trace))
    BY <1>1 DEF Reconstruct
  <2>. QED  BY <1>1, <1>2, <2>1 DEF Complete
<1>4. k \in 1 .. Len(trace) + 1 /\ k - 1 \in 0 .. Len(trace) /\ (k - 1) + 1 = k
  BY <1>1, <1>2, <1>3 DEF Complete
<1>5. view'.snapshots[k] = Snapshot(k - 1)
  BY <1>1, <1>4 DEF Reconstruct
<1>6. /\ RegsAt(k - 1) = history[k].regs
      /\ RipAt(k - 1) = history[k].rip
      /\ FlagsAt(k - 1) = history[k].flags
      /\ SameCells(MemoryAt(k - 1), history[k].mem)
  <2>1. RegsAt(k - 1) = history[(k - 1) + 1].regs
    BY <1>3, <1>4, RegistersAreRebuilt
  <2>2. /\ RipAt(k - 1) = history[(k - 1) + 1].rip
        /\ FlagsAt(k - 1) = history[(k - 1) + 1].flags
    BY <1>3, <1>4, ControlIsRebuilt
  <2>3. SameCells(MemoryAt(k - 1), history[(k - 1) + 1].mem)
    BY <1>1, <1>3, <1>4, CellsAreRebuilt
  <2>. QED  BY <1>4, <2>1, <2>2, <2>3
<1>. QED  BY <1>1, <1>5, <1>6 DEF Snapshot

\* What a fault spoils of it.
LEMMA FaultsAreConfined ==
  TypeOK /\ Recorded /\ OnlyRspIsAhead /\ Show => FaultsSpoilOnlyTheStackPointer'
<1> SUFFICES ASSUME TypeOK, Recorded, OnlyRspIsAhead, Show, view'.shown, ~view'.truncated,
                    NEW k \in 1 .. Len(history'), NEW r \in Reg,
                    view'.snapshots[k].regs[r] # history'[k].regs[r]
             PROVE  r = "rsp" /\ Unwritten(r)' /\ ~CleanEnd'
  BY DEF FaultsSpoilOnlyTheStackPointer
<1>1. view' = Reconstruct /\ history' = history /\ stop' = stop /\ trace' = trace
  BY DEF Show, vars
<1>2. /\ trace \in Seq(Effects) /\ Len(trace) \in Nat /\ steps \in Nat
      /\ Len(history) = steps + 1 /\ Len(trace) <= steps
  BY LimitsAreCounts DEF TypeOK, Recorded
<1>3. ~(steps > Len(trace))
  BY <1>1 DEF Reconstruct
<1>4. Len(trace) = steps
  BY <1>2, <1>3
<1>5. k \in 1 .. Len(trace) + 1 /\ k - 1 \in 0 .. Len(trace) /\ (k - 1) + 1 = k
  BY <1>1, <1>2, <1>4
<1>6. view'.snapshots[k] = Snapshot(k - 1)
  BY <1>1, <1>5 DEF Reconstruct
<1>7. RegsAt(k - 1)[r] # history[(k - 1) + 1].regs[r]
  BY <1>1, <1>5, <1>6 DEF Snapshot
<1>8. r = "rsp" /\ Unwritten(r) /\ ~CleanEnd
  BY <1>4, <1>5, <1>7, OnlyRspIsOff
<1>. QED  BY <1>1, <1>8 DEF Unwritten, Registers, CleanEnd

-----------------------------------------------------------------------------
(***************************************************************************)
(* The memory window.                                                      *)
(***************************************************************************)
\* Numbers that are bounded have a lowest.
LEMMA LowestExists ==
  ASSUME NEW S \in SUBSET Int, NEW x \in S, NEW b \in Int, \A y \in S : b <= y
  PROVE  Lowest(S) \in S /\ \A y \in S : Lowest(S) <= y
<1> DEFINE T == {y - b : y \in S}
<1>1. \A y \in S : y \in Int /\ y - b \in Nat /\ y - b \in T
  OBVIOUS
<1>2. \A t \in T : \E y \in S : t = y - b
  OBVIOUS
<1> HIDE DEF T
<1>3. T \in SUBSET Nat /\ T # {}
  BY <1>1, <1>2
<1>4. FirstOf(T) \in T /\ \A t \in T : FirstOf(T) <= t
  BY <1>3, FirstIsLeast
<1>5. PICK z \in S : FirstOf(T) = z - b
  BY <1>2, <1>4
<1>6. \A y \in S : z <= y
  <2> TAKE y \in S
  <2>1. z - b <= y - b
    BY <1>1, <1>4, <1>5
  <2>. QED  BY <1>1, <2>1
<1>. QED  BY <1>6 DEF Lowest

\* And a highest.
LEMMA HighestExists ==
  ASSUME NEW S \in SUBSET Int, NEW x \in S, NEW b \in Int, \A y \in S : y <= b
  PROVE  Highest(S) \in S /\ \A y \in S : y <= Highest(S)
<1> DEFINE T == {b - y : y \in S}
<1>1. \A y \in S : y \in Int /\ b - y \in Nat /\ b - y \in T
  OBVIOUS
<1>2. \A t \in T : \E y \in S : t = b - y
  OBVIOUS
<1> HIDE DEF T
<1>3. T \in SUBSET Nat /\ T # {}
  BY <1>1, <1>2
<1>4. FirstOf(T) \in T /\ \A t \in T : FirstOf(T) <= t
  BY <1>3, FirstIsLeast
<1>5. PICK z \in S : FirstOf(T) = b - z
  BY <1>2, <1>4
<1>6. \A y \in S : y <= z
  <2> TAKE y \in S
  <2>1. b - z <= b - y
    BY <1>1, <1>4, <1>5
  <2>. QED  BY <1>1, <2>1
<1>. QED  BY <1>6 DEF Highest

\* Finitely many numbers have a bound.
LEMMA BoundExists ==
  ASSUME NEW n \in Nat, NEW f \in [1 .. n -> Nat]
  PROVE  \E b \in Nat : \A j \in 1 .. n : f[j] <= b
<1> DEFINE Bounds(k, b) == \A j \in 1 .. k : f[j] <= b
           S == {k \in Nat : \E b \in Nat : Bounds(k, b)}
<1>1. 0 \in S
  <2>1. Bounds(0, 0)
    OBVIOUS
  <2> HIDE DEF Bounds
  <2>. QED  BY <2>1
<1>2. ASSUME NEW k \in 1 .. n, k - 1 \in S
      PROVE  k \in S
  <2>1. PICK b \in Nat : Bounds(k - 1, b)
    BY <1>2
  <2>2. f[k] \in Nat /\ b + f[k] \in Nat /\ k \in Nat
    OBVIOUS
  <2>3. ASSUME NEW j \in 1 .. k
        PROVE  f[j] <= b + f[k]
    <3>1. f[j] \in Nat
      OBVIOUS
    <3>2. CASE j = k
      BY <2>2, <3>2
    <3>3. CASE j # k
      <4>1. j \in 1 .. k - 1
        BY <3>3
      <4>2. f[j] <= b
        BY <2>1, <4>1
      <4>. QED  BY <2>2, <3>1, <4>2
    <3>. QED  BY <3>2, <3>3
  <2>4. Bounds(k, b + f[k])
    BY <2>3
  <2> HIDE DEF Bounds
  <2>. QED  BY <2>2, <2>4
<1>3. n \in S
  <2> HIDE DEF S
  <2>1. \A k \in 0 .. n : k \in S
    BY <1>1, <1>2, OneByOne
  <2>. QED  BY <2>1
<1>. QED  BY <1>3

LEMMA AlignedBelow ==
  ASSUME NEW l \in Int
  PROVE  (l \div Align) * Align \in Int /\ (l \div Align) * Align <= l
<1>1. \A a \in Nat \ {0} : l \div a \in Int /\ l % a \in Nat /\ l = a * (l \div a) + (l % a)
  OBVIOUS
<1> DEFINE d == l \div Align
           m == l % Align
<1>2. d \in Int /\ m >= 0 /\ l = Align * d + m /\ m \in Int
  BY <1>1
<1> HIDE DEF d, m
<1>3. Align * d = d * Align /\ d * Align \in Int
  BY <1>2
<1>. QED  BY <1>2, <1>3 DEF d

\* The cells that are shown, between the lowest and the highest of interest: both
\* stack pointers are, unless the window is cut.
LEMMA StacksAreShown ==
  ASSUME NEW p, NEW q, NEW log \in Seq(MemWrites), Stores(Len(trace)) = log,
         InitialRegs["rsp"] = p, cpu.regs["rsp"] = q, p \in Word, q \in Word
  PROVE  Cardinality(Shown) = MaxWindow \/ (p \in Shown /\ q \in Shown)
<1> DEFINE sps == {p, q}
           from == {s - Margin : s \in sps} \cup {log[j].addr : j \in DOMAIN log}
           to == {s + Margin : s \in sps}
                   \cup {log[j].addr + Len(log[j].after) : j \in DOMAIN log}
           l == Lowest(from)
           h == Highest(to)
           base == (l \div Align) * Align
           top == IF h - base > MaxWindow THEN base + MaxWindow ELSE h
<1>1. Shown = base .. top - 1
  BY DEF Shown
<1>2. /\ p \in Nat /\ q \in Nat
      /\ Len(log) \in Nat /\ DOMAIN log = 1 .. Len(log)
      /\ \A j \in DOMAIN log : log[j].addr \in Nat /\ Len(log[j].after) \in Nat
  <2>1. /\ Len(log) \in Nat /\ DOMAIN log = 1 .. Len(log)
        /\ \A j \in DOMAIN log : log[j] \in MemWrites
    OBVIOUS
  <2>2. ASSUME NEW j \in DOMAIN log
        PROVE  log[j].addr \in Word /\ log[j].after \in Seq(Word)
    BY <2>1 DEF MemWrites
  <2>3. Word \subseteq Nat
    BY WordModIsPositive DEF Word
  <2>4. ASSUME NEW j \in DOMAIN log
        PROVE  Len(log[j].after) \in Nat
    BY <2>2
  <2>. QED  BY <2>1, <2>2, <2>3, <2>4
<1>3. /\ from \in SUBSET Int /\ p - Margin \in from /\ q - Margin \in from
      /\ \A y \in from : -Margin <= y
  <2>1. \A y \in from : \/ y = p - Margin \/ y = q - Margin
                        \/ \E j \in DOMAIN log : y = log[j].addr
    OBVIOUS
  <2>2. p - Margin \in from /\ q - Margin \in from
    OBVIOUS
  <2> HIDE DEF from
  <2>3. \A y \in from : y \in Int /\ -Margin <= y
    BY <1>2, <2>1
  <2>. QED  BY <2>2, <2>3
<1>4. PICK b \in Nat : \A j \in DOMAIN log : log[j].addr + Len(log[j].after) <= b
  <2> DEFINE f == [j \in 1 .. Len(log) |-> log[j].addr + Len(log[j].after)]
  <2>1. f \in [1 .. Len(log) -> Nat]
    BY <1>2
  <2>2. \A j \in DOMAIN log : f[j] = log[j].addr + Len(log[j].after)
    BY <1>2
  <2> HIDE DEF f
  <2>3. PICK b \in Nat : \A j \in 1 .. Len(log) : f[j] <= b
    BY <1>2, <2>1, BoundExists
  <2>4. \A j \in DOMAIN log : f[j] <= b
    BY <1>2, <2>3
  <2>5. \A j \in DOMAIN log : log[j].addr + Len(log[j].after) <= b
    BY <2>2, <2>4
  <2>. QED  BY <2>5
<1>5. /\ to \in SUBSET Int /\ p + Margin \in to /\ q + Margin \in to
      /\ \A y \in to : y <= b + p + q + Margin
  <2>1. \A y \in to : \/ y = p + Margin \/ y = q + Margin
                      \/ \E j \in DOMAIN log : y = log[j].addr + Len(log[j].after)
    OBVIOUS
  <2>2. p + Margin \in to /\ q + Margin \in to
    OBVIOUS
  <2> HIDE DEF to
  <2>3. \A j \in DOMAIN log : /\ log[j].addr + Len(log[j].after) \in Int
                              /\ log[j].addr + Len(log[j].after) <= b + p + q + Margin
    BY <1>2, <1>4
  <2>4. \A y \in to : y \in Int /\ y <= b + p + q + Margin
    BY <1>2, <2>1, <2>3
  <2>. QED  BY <2>2, <2>4
<1> HIDE DEF from, to
<1>6. l \in Int /\ l <= p - Margin /\ l <= q - Margin
  <2>1. -Margin \in Int
    OBVIOUS
  <2>2. l \in from /\ \A y \in from : l <= y
    BY <1>3, <2>1, LowestExists
  <2>. QED  BY <1>3, <2>2
<1>7. h \in Int /\ p + Margin <= h /\ q + Margin <= h
  <2>1. b + p + q + Margin \in Int
    BY <1>2
  <2>2. h \in to /\ \A y \in to : y <= h
    BY <1>5, <2>1, HighestExists
  <2>. QED  BY <1>5, <2>2
<1> HIDE DEF l, h
<1>8. base \in Int /\ base <= l
  BY <1>6, AlignedBelow
<1> HIDE DEF base
<1>9. CASE h - base > MaxWindow
  <2>1. top = base + MaxWindow
    BY <1>9
  <2> HIDE DEF top
  <2>2. top - 1 \in Int /\ base <= top - 1 /\ (top - 1) - base + 1 = MaxWindow
    BY <1>8, <2>1
  <2>3. Cardinality(base .. top - 1) = MaxWindow
    BY <1>8, <2>2, FS_Interval
  <2>. QED  BY <1>1, <2>3
<1>10. CASE ~(h - base > MaxWindow)
  <2>1. top = h
    BY <1>10
  <2>2. p \in base .. h - 1 /\ q \in base .. h - 1
    BY <1>2, <1>6, <1>7, <1>8
  <2>. QED  BY <1>1, <2>1, <2>2
<1>. QED  BY <1>9, <1>10

\* What the log says was in a register is a word.
LEMMA InitialRegsAreWords ==
  ASSUME TypeOK, NEW r \in Reg
  PROVE  InitialRegs[r] \in Word /\ cpu.regs[r] \in Word
<1> DEFINE log == Registers(Len(trace))
           T == RegTouches(log, r)
<1>1. trace \in Seq(Effects) /\ cpu.regs[r] \in Word /\ Len(trace) \in 0 .. Len(trace)
  BY DEF TypeOK, Cpus
<1>2. log \in Seq(RegWrites)
  BY <1>1, TraceLogsGrow DEF LogsGrow
<1>3. InitialRegs[r] = IF T = {} THEN cpu.regs[r] ELSE log[FirstOf(T)].before
  BY DEF InitialRegs, RegBefore
<1> HIDE DEF log
<1>4. T \in SUBSET (1 .. Len(log)) /\ Len(log) \in Nat
  BY <1>2 DEF RegTouches
<1> HIDE DEF T
<1>5. ASSUME T # {}
      PROVE  log[FirstOf(T)].before \in Word
  <2>1. FirstOf(T) \in 1 .. Len(log)
    BY <1>4, <1>5, TouchesExist
  <2>2. log[FirstOf(T)] \in RegWrites
    BY <1>2, <2>1
  <2>. QED  BY <2>2 DEF RegWrites
<1>. QED  BY <1>1, <1>3, <1>5

\* The first snapshot has the first rsp; that of a complete trace has the last one.
LEMMA WindowHasTheStack ==
  TypeOK /\ Recorded /\ Show => WindowShowsTheStack'
<1> SUFFICES ASSUME TypeOK, Recorded, Show, view'.shown, CleanEnd'
             PROVE  LET shown == DOMAIN view'.snapshots[1].cells IN
                    \/ Cardinality(shown) = MaxWindow
                    \/ /\ view'.snapshots[1].regs["rsp"] \in shown
                       /\ ~view'.truncated =>
                            view'.snapshots[Len(view'.snapshots)].regs["rsp"] \in shown
  BY DEF WindowShowsTheStack
<1> DEFINE n == Len(trace)
           shown == DOMAIN view'.snapshots[1].cells
<1>1. /\ view' = Reconstruct /\ CleanEnd
      /\ trace \in Seq(Effects) /\ n \in Nat /\ steps \in Nat /\ n <= steps
      /\ Len(history) = steps + 1 /\ cpu = history[steps + 1]
  BY LimitsAreCounts DEF Show, vars, CleanEnd, TypeOK, Recorded
<1>2. LogsGrow(n)
  BY <1>1, TraceLogsGrow
<1>3. "rsp" \in Reg
  BY DEF Reg
<1>4. view'.snapshots = [k \in 1 .. n + 1 |-> Snapshot(k - 1)]
  BY <1>1 DEF Reconstruct
<1>5. Len(view'.snapshots) = n + 1 /\ 1 \in 1 .. n + 1 /\ n + 1 \in 1 .. n + 1 /\ (n + 1) - 1 = n
  BY <1>1, <1>4
<1>6. view'.snapshots[1] = Snapshot(0) /\ view'.snapshots[n + 1] = Snapshot(n)
  BY <1>4, <1>5
<1>7. shown = Shown
  BY <1>6 DEF Snapshot, MemoryAt
<1>8. view'.snapshots[1].regs["rsp"] = InitialRegs["rsp"]
  <2>1. \A r : RegTouches(<<>>, r) = {}
    BY DEF RegTouches
  <2>2. Snapshot(0).regs["rsp"] = RegAfter(InitialRegs, <<>>, "rsp")
    BY <1>2, <1>3 DEF Snapshot, RegsAt, LogsGrow
  <2>. QED  BY <1>6, <2>1, <2>2 DEF RegAfter
<1>9. ~view'.truncated => view'.snapshots[n + 1].regs["rsp"] = cpu.regs["rsp"]
  <2> SUFFICES ASSUME ~view'.truncated
               PROVE  view'.snapshots[n + 1].regs["rsp"] = cpu.regs["rsp"]
    OBVIOUS
  <2>1. n = steps
    <3>1. ~(steps > n)
      BY <1>1 DEF Reconstruct
    <3>. QED  BY <1>1, <3>1
  <2>2. RegsAt(n) = history[n + 1].regs
    <3>1. Complete /\ n \in 0 .. n
      BY <1>1, <2>1 DEF Complete
    <3>. QED  BY <3>1, RegistersAreRebuilt
  <2>. QED  BY <1>1, <1>6, <2>1, <2>2 DEF Snapshot
<1>10. Cardinality(Shown) = MaxWindow
         \/ (InitialRegs["rsp"] \in Shown /\ cpu.regs["rsp"] \in Shown)
  <2>1. Stores(n) \in Seq(MemWrites)
    <3>1. n \in 0 .. n
      BY <1>1
    <3>. QED  BY <1>2, <3>1 DEF LogsGrow
  <2>2. InitialRegs["rsp"] \in Word /\ cpu.regs["rsp"] \in Word
    BY <1>3, InitialRegsAreWords
  <2>. QED  BY <2>1, <2>2, StacksAreShown
<1>. QED  BY <1>5, <1>7, <1>8, <1>9, <1>10

-----------------------------------------------------------------------------
(***************************************************************************)
(* The invariant.                                                          *)
(***************************************************************************)
LEMMA InitShowsNothing == ScrubInit => ScrubInv
<1> SUFFICES ASSUME ScrubInit PROVE ScrubInv
  OBVIOUS
<1>1. TypeOK /\ TraceIsThePrefixOfTheRun
  BY InitIsTyped, InitTraces DEF ScrubInit
<1>2. Recorded
  BY <1>1, InitRecords
<1>3. ~view.shown
  BY DEF ScrubInit, NoView
<1>4. OnlyRspIsAhead
  <2>1. history = <<cpu>> /\ steps = 0
    BY DEF ScrubInit, Init
  <2>2. history[steps + 1] = cpu
    BY <2>1
  <2>. QED  BY <2>2 DEF OnlyRspIsAhead
<1>. QED  BY <1>1, <1>2, <1>3, <1>4
          DEF ScrubInv, ScrubberIsFaithful, WindowShowsTheStack, FaultsSpoilOnlyTheStackPointer

\* Once the run has ended, the loop leaves everything as it is.
LEMMA EndedRunsStay ==
  ASSUME TypeOK, Run, stop # "running"
  PROVE  UNCHANGED scrubVars
<1>1. UNCHANGED vars
  <2>1. Next /\ ~StopOnHalt /\ ~StopOnLimit /\ ~StepsOnce
    BY DEF Run, StopOnHalt, StopOnLimit, StepsOnce, MayStep
  <2>. QED  BY <2>1, NextIsATurn
<1>2. steps' = steps /\ steps \in Nat
  BY <1>1, LimitsAreCounts DEF vars, TypeOK
<1>3. ~(steps' > steps)
  BY <1>2
<1>. QED  BY <1>1, <1>3 DEF Run, scrubVars

LEMMA NextStaysFaithful == ScrubInv /\ [ScrubNext]_scrubVars => ScrubInv'
<1> SUFFICES ASSUME ScrubInv, [ScrubNext]_scrubVars PROVE ScrubInv'
  OBVIOUS
<1>1. /\ TypeOK /\ TraceIsThePrefixOfTheRun /\ Recorded /\ OnlyRspIsAhead
      /\ view.shown => stop # "running"
  BY DEF ScrubInv
<1>2. CASE UNCHANGED scrubVars
  <2>1. UNCHANGED <<cpu, trace, steps, stop, start, history, view>>
    BY <1>2 DEF scrubVars, vars
  <2>2. TypeOK' /\ TraceIsThePrefixOfTheRun' /\ Recorded' /\ OnlyRspIsAhead'
    BY <1>1, <2>1 DEF TypeOK, TraceIsThePrefixOfTheRun, Recorded, OnlyRspIsAhead, CleanEnd
  <2>3. ScrubberIsFaithful' /\ WindowShowsTheStack'
    BY <2>1 DEF ScrubInv, ScrubberIsFaithful, WindowShowsTheStack, CleanEnd
  <2>4. FaultsSpoilOnlyTheStackPointer'
    BY <2>1 DEF ScrubInv, FaultsSpoilOnlyTheStackPointer, Unwritten, Registers, CleanEnd
  <2>. QED  BY <1>1, <2>1, <2>2, <2>3, <2>4 DEF ScrubInv
<1>3. CASE Run /\ stop = "running"
  <2>1. TypeOK' /\ TraceIsThePrefixOfTheRun' /\ Recorded' /\ OnlyRspIsAhead'
    BY <1>1, <1>3, NextIsTyped, NextTraces, RunRecords, RunStaysAhead DEF Run
  <2>2. ~view'.shown
    BY <1>1, <1>3 DEF Run
  <2>. QED  BY <2>1, <2>2
            DEF ScrubInv, ScrubberIsFaithful, WindowShowsTheStack, FaultsSpoilOnlyTheStackPointer
<1>4. CASE Show
  <2>1. UNCHANGED vars /\ history' = history /\ stop # "running"
    BY <1>4 DEF Show
  <2>2. TypeOK' /\ TraceIsThePrefixOfTheRun' /\ Recorded' /\ OnlyRspIsAhead'
    <3>1. TypeOK' /\ TraceIsThePrefixOfTheRun'
      BY <1>1, <2>1, NextIsTyped, NextTraces
    <3>2. Recorded' /\ OnlyRspIsAhead'
      BY <1>1, <2>1 DEF Recorded, OnlyRspIsAhead, CleanEnd, vars
    <3>. QED  BY <3>1, <3>2
  <2>3. ScrubberIsFaithful' /\ WindowShowsTheStack' /\ FaultsSpoilOnlyTheStackPointer'
    BY <1>1, <1>4, ReconstructionIsFaithful, WindowHasTheStack, FaultsAreConfined
  <2>4. stop' # "running"
    BY <2>1 DEF vars
  <2>. QED  BY <2>2, <2>3, <2>4 DEF ScrubInv
<1>. QED  BY <1>1, <1>2, <1>3, <1>4, EndedRunsStay DEF ScrubNext

LEMMA ScrubberInvariant == ScrubSpec => []ScrubInv
<1>. QED  BY InitShowsNothing, NextStaysFaithful, PTL DEF ScrubSpec

\* Whatever the program and the machine, the snapshots that the playground rebuilds
\* from the final state and the trace are the machine after each step: registers, rip,
\* flags and the cells of the window, for a complete trace of a run that no fault cut
\* short, of a machine whose regions do not overlap (emu-state.ts:79-236).
THEOREM TheScrubberIsFaithful == ScrubSpec => []ScrubberIsFaithful
<1>1. ScrubInv => ScrubberIsFaithful
  BY DEF ScrubInv
<1>. QED  BY <1>1, ScrubberInvariant, PTL

\* And the memory window has the cell rsp points at, in the first snapshot and in the
\* last one of a complete trace, unless it was cut to its largest size.
THEOREM TheStackIsShown == ScrubSpec => []WindowShowsTheStack
<1>1. ScrubInv => WindowShowsTheStack
  BY DEF ScrubInv
<1>. QED  BY <1>1, ScrubberInvariant, PTL
\* A fault in the middle of an instruction costs the page at most rsp: every other
\* register of every snapshot of a complete trace is the machine's, whatever faulted
\* (cpu.rs:112, emu-state.ts:71).
THEOREM FaultsCostOnlyRsp == ScrubSpec => []FaultsSpoilOnlyTheStackPointer
<1>1. ScrubInv => FaultsSpoilOnlyTheStackPointer
  BY DEF ScrubInv
<1>. QED  BY <1>1, ScrubberInvariant, PTL
=============================================================================
