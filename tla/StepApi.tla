------------------------------ MODULE StepApi ------------------------------
(***************************************************************************)
(* /api/emu/step, crates/server/src/routes/emu.rs: the client holds the    *)
(* machine state and sends it back to advance one instruction.  The server *)
(* keeps nothing: it builds a machine from the state, steps it once, and   *)
(* answers with what the state can carry of it.                            *)
(*                                                                         *)
(* A client that starts from the state of a loaded program (a run of no    *)
(* steps answers with it) and asks until it is told to stop, or has had    *)
(* enough, should see the run that /api/emu/run would have made.           *)
(***************************************************************************)
EXTENDS Machine

CONSTANTS
  Images, Bases, StackBase, StackSize,   \* the loaded programs, as in Emulator
  MaxRequests,                           \* how many steps the client asks for
  MaxRegions,                            \* MAX_REGIONS
  MaxRegionCells                         \* MAX_REGION_BYTES, in cells

ASSUME ImagesAreCode == Images \subseteq Seq(Word)
ASSUME BasesAreAddresses == Bases \subseteq Word
ASSUME StackFits ==
  StackBase \in Word /\ StackSize \in Nat \ {0} /\ StackBase + StackSize \in Word
ASSUME RequestsAreCounted == MaxRequests \in Nat
ASSUME ThereIsARegionToDescribe == MaxRegions \in Nat \ {0}
ASSUME RegionsAreCapped == MaxRegionCells \in Nat

VARIABLES
  state,      \* what the client holds: registers, rip, flags, memory
  reply,      \* the stop in the last response: "none", a halt or a fault
  outcome,    \* "stepping", or why the client asks no more
  trace,      \* the step entries received
  output,     \* what the responses said was written to stdout, in order
  lost,       \* history: what was written to stderr, which no response carries
  loaded,     \* history: the machine the first state was taken from
  served      \* history: the machine `state` was taken from

vars == <<state, reply, outcome, trace, output, lost, loaded, served>>

\* `regions_of`: of a region that is too long, only the beginning is carried.
Carried(mem) ==
  [i \in DOMAIN mem |->
     IF Len(mem[i].data) > MaxRegionCells
     THEN [mem[i] EXCEPT !.data = SubSeq(mem[i].data, 1, MaxRegionCells)] ELSE mem[i]]

\* `state_of` with `regions_of`: all of the machine that a response carries.
StateOf(c) == [regs |-> c.regs, rip |-> c.rip, flags |-> c.flags, memory |-> Carried(c.mem)]

\* `cpu_from_state`: the regions are mapped in the order given, and halt,
\* stdout and stderr start out empty.
Mapping(memory) ==
  LET Built[k \in 0 .. Len(memory)] ==
        IF k = 0 THEN <<>> ELSE MapWith(Built[k - 1], memory[k])
  IN  Built[Len(memory)]

\* Mutant of FromState: the flags do not make it into the machine.
FromStateNoFlags(s) ==
  [regs |-> s.regs, rip |-> s.rip, flags |-> NoFlags, mem |-> Mapping(s.memory),
   halt |-> "none", stdout |-> <<>>, stderr |-> <<>>]

FromState(s) ==
  [regs |-> s.regs, rip |-> s.rip, flags |-> s.flags, mem |-> Mapping(s.memory),
   halt |-> "none", stdout |-> <<>>, stderr |-> <<>>]

\* A state with no region, with too many, or with one that is too long is refused.
Accepts(s) ==
  /\ Len(s.memory) \in 1 .. MaxRegions
  /\ \A i \in DOMAIN s.memory : Len(s.memory[i].data) <= MaxRegionCells

(***************************************************************************)
(* The run this is compared with.                                          *)
(***************************************************************************)
TheRun ==
  INSTANCE Emulator WITH
    MaxSteps <- MaxRequests, TraceLimit <- MaxRequests,
    cpu <- [regs |-> state.regs, rip |-> state.rip, flags |-> state.flags,
            mem |-> state.memory, stdout |-> output, stderr |-> lost,
            halt |-> IF reply \in Halts THEN reply ELSE "none"],
    steps <- Len(trace),
    stop <- IF outcome = "stepping" /\ reply \in Faults \ {"none"} THEN reply
            ELSE IF outcome = "stepping" THEN "running" ELSE outcome,
    start <- loaded

Init ==
  /\ \E code \in Images, base \in Bases : loaded = TheRun!WithCode(code, base)
  /\ served = loaded
  /\ state = StateOf(loaded)
  /\ reply = "none"
  /\ outcome = "stepping"
  /\ trace = <<>>
  /\ output = <<>>
  /\ lost = <<>>

(***************************************************************************)
(* One request and its response.                                           *)
(***************************************************************************)
Answers(c, m) ==
  /\ served' = m.cpu
  /\ state' = StateOf(m.cpu)
  /\ reply' = IF m.fault # "none" THEN m.fault ELSE m.cpu.halt
  /\ trace' = IF m.fault # "none" THEN trace ELSE Append(trace, EffectsOf(c, m))
  /\ output' = output \o m.cpu.stdout
  /\ lost' = lost \o m.cpu.stderr
  /\ UNCHANGED <<outcome, loaded>>

\* A client that heeds the stop it was told.
Request ==
  /\ outcome = "stepping" /\ reply = "none"
  /\ Accepts(state)
  /\ Len(trace) < MaxRequests
  /\ \E c \in {FromState(state)} : \E m \in {Step(c)} : Answers(c, m)

Concludes ==
  /\ outcome = "stepping"
  /\ reply # "none" \/ Len(trace) = MaxRequests
  /\ outcome' = IF reply # "none" THEN reply ELSE "stepLimit"
  /\ UNCHANGED <<state, reply, trace, output, lost, loaded, served>>

\* The client has its answer.
Finished == outcome # "stepping" /\ UNCHANGED vars

Next == Request \/ Concludes \/ Finished

\* A client goes on until it concludes: weak fairness of Next, written out as in
\* Emulator.
Fairness == []<>(outcome # "stepping") \/ []<><<Next>>_vars
Spec == Init /\ [][Next]_vars /\ Fairness

-----------------------------------------------------------------------------
\* What a state can describe: no two regions that start at the same address, none
\* longer than a response carries.  Neither is refused by `program`: an org or a
\* base may be that of the stack, and hex may be longer than the cap.
Describable(mem) ==
  /\ \A i, j \in DOMAIN mem : i # j => mem[i].base # mem[j].base
  /\ \A i \in DOMAIN mem : Len(mem[i].data) <= MaxRegionCells

\* Stepping a program that can be described is its run: every request is a turn
\* of the run loop on the same machine, and the client stops where the loop
\* does, which it eventually does.
SteppingIsTheRun ==
  /\ Describable(loaded.mem) => TheRun!Init
  /\ [][Describable(loaded.mem) => TheRun!Next]_(TheRun!vars)
  /\ Describable(loaded.mem) => TheRun!Fairness

\* The memory the server rebuilds from a state is the memory the state was taken
\* from exactly when that can be described: a longer region is cut, two regions
\* of one base change places.
CapturesAreExact ==
  (Mapping(state.memory) = served.mem) <=> Describable(served.mem)
=============================================================================
