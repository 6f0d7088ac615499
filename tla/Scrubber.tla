------------------------------ MODULE Scrubber ------------------------------
(***************************************************************************)
(* The playground's view of a run: `reconstruct` in                        *)
(* web/src/core/emu-state.ts rebuilds the machine at every step from the   *)
(* response of /api/emu/run, which carries the final state and the trace.  *)
(* The emulator itself is the one of Emulator; the history of the real     *)
(* machine is kept to compare with.                                        *)
(***************************************************************************)
EXTENDS Emulator

CONSTANTS
  Margin,       \* cells shown on either side of rsp (64 bytes)
  Align,        \* the window starts at a multiple of this (16 bytes)
  MaxWindow     \* MAX_WINDOW

ASSUME WindowIsSensible ==
  Margin \in Nat \ {0} /\ Align \in Nat \ {0} /\ MaxWindow \in Nat \ {0}

VARIABLES
  history,   \* history[k + 1]: the machine after k steps retired
  view       \* what the playground shows; NoView before the response

scrubVars == <<vars, history, view>>

NoView == [shown |-> FALSE]

(***************************************************************************)
(* The response of the run, and the logs it holds.                         *)
(***************************************************************************)
Joined(logs) ==
  LET Log[k \in 0 .. Len(logs)] == IF k = 0 THEN <<>> ELSE Log[k - 1] \o logs[k]
  IN  Log[Len(logs)]

\* What the first n entries wrote.
Registers(n) == Joined([k \in 1 .. n |-> trace[k].regWrites])
Stores(n) == Joined([k \in 1 .. n |-> trace[k].memWrites])

\* Mutant of InitialRegs: the log is undone from its start.
UndoneForwards ==
  LET log == Registers(Len(trace))
  IN  [r \in Reg |-> IF RegTouches(log, r) = {} THEN cpu.regs[r]
                     ELSE log[LastOf(RegTouches(log, r))].before]

\* Undoing a log, latest write first, leaves the before of its earliest write;
\* replaying it leaves the after of its latest.
InitialRegs == [r \in Reg |-> RegBefore(cpu.regs, Registers(Len(trace)), r)]
RegsAt(k) == [r \in Reg |-> RegAfter(InitialRegs, Registers(k), r)]

RipAt(k) == IF k < Len(trace) THEN trace[k + 1].ip ELSE cpu.rip
FlagsAt(k) ==
  CASE k > 0 -> trace[k].flagsAfter
    [] k = 0 /\ Len(trace) > 0 -> trace[1].flagsBefore
    [] OTHER -> NoFlags

(***************************************************************************)
(* The memory window: the neighbourhood of the first and the last rsp and  *)
(* every range written, aligned down and cut to MaxWindow.  The regions    *)
(* are copied into it in order, a later one over an earlier one.           *)
(***************************************************************************)
Lowest(S) == CHOOSE x \in S : \A y \in S : x <= y
Highest(S) == CHOOSE x \in S : \A y \in S : y <= x

\* Mutant of Shown: only the neighbourhood of the last rsp is framed.
ShownAtTheEnd ==
  LET base == ((cpu.regs["rsp"] - Margin) \div Align) * Align
  IN  base .. cpu.regs["rsp"] + Margin - 1

Shown ==
  LET log == Stores(Len(trace))
      sps == {InitialRegs["rsp"], cpu.regs["rsp"]}
      from == {s - Margin : s \in sps} \cup {log[j].addr : j \in DOMAIN log}
      to == {s + Margin : s \in sps}
              \cup {log[j].addr + Len(log[j].after) : j \in DOMAIN log}
      base == (Lowest(from) \div Align) * Align
  IN  base .. (IF Highest(to) - base > MaxWindow THEN base + MaxWindow
                                                 ELSE Highest(to)) - 1

Seeded(a) == {i \in DOMAIN cpu.mem : a - cpu.mem[i].base + 1 \in DOMAIN cpu.mem[i].data}
Seed(a) ==
  LET r == cpu.mem[LastOf(Seeded(a))]
  IN  IF Seeded(a) = {} THEN 0 ELSE r.data[a - r.base + 1]

InitialCell(a) ==
  LET log == Stores(Len(trace))
      j == FirstOf(MemTouches(log, a))
  IN  IF MemTouches(log, a) = {} THEN Seed(a) ELSE log[j].before[a - log[j].addr + 1]

MemoryAt(k) ==
  LET log == Stores(k)
  IN  [a \in Shown |->
         IF MemTouches(log, a) = {} THEN InitialCell(a)
         ELSE log[LastOf(MemTouches(log, a))].after
                [a - log[LastOf(MemTouches(log, a))].addr + 1]]

Snapshot(k) ==
  [regs |-> RegsAt(k), rip |-> RipAt(k), flags |-> FlagsAt(k), cells |-> MemoryAt(k)]

Reconstruct ==
  [shown |-> TRUE, truncated |-> steps > Len(trace),
   snapshots |-> [k \in 1 .. Len(trace) + 1 |-> Snapshot(k - 1)]]

(***************************************************************************)
(* The run, and then the response of the server is shown.                  *)
(***************************************************************************)
ScrubInit == Init /\ history = <<cpu>> /\ view = NoView

Run ==
  /\ Next
  /\ history' = IF steps' > steps THEN Append(history, cpu') ELSE history
  /\ UNCHANGED view

Show ==
  /\ stop # "running"
  /\ view = NoView
  /\ view' = Reconstruct
  /\ UNCHANGED <<vars, history>>

ScrubNext == Run \/ Show
ScrubSpec == ScrubInit /\ [][ScrubNext]_scrubVars /\ Fairness

-----------------------------------------------------------------------------
SameCells(cells, mem) ==
  \A a \in DOMAIN cells \cap Mapped(mem) : cells[a] = CellAt(mem, a)

Disjoint(mem) ==
  \A i, j \in DOMAIN mem :
    i < j => \/ mem[i].base + Len(mem[i].data) <= mem[j].base
             \/ mem[j].base + Len(mem[j].data) <= mem[i].base

\* No fault left effects behind that no entry records.  A decode fault leaves none.
CleanEnd == stop \notin Faults \ {"decode"}

\* The scrubber shows the truth: snapshot k of a complete trace is the machine
\* after k steps, registers, rip, flags and every cell in the window, when no
\* fault left effects behind and no regions overlap.
ScrubberIsFaithful ==
  view.shown /\ ~view.truncated /\ CleanEnd /\ Disjoint(start.mem) =>
    \A k \in 1 .. Len(history) :
      LET s == view.snapshots[k] IN
      /\ s.regs = history[k].regs
      /\ s.rip = history[k].rip
      /\ s.flags = history[k].flags
      /\ SameCells(s.cells, history[k].mem)

\* The window has the cell rsp points at, in the first snapshot and, when the
\* trace is complete, in the last one, unless it was cut or a fault moved rsp.  (The
\* last snapshot of a truncated trace is in the middle of the run, and its stack
\* may be off the window.)
WindowShowsTheStack ==
  view.shown /\ CleanEnd =>
    LET shown == DOMAIN view.snapshots[1].cells IN
    \/ Cardinality(shown) = MaxWindow
    \/ /\ view.snapshots[1].regs["rsp"] \in shown
       /\ ~view.truncated => view.snapshots[Len(view.snapshots)].regs["rsp"] \in shown

\* What a fault costs the page (cpu.rs:112, emu-state.ts:71): the step that faulted is
\* not in the trace, but what it did before the fault is in the final registers.
\* That spoils nothing but rsp, and this only if no step before it moved rsp; every
\* other register of every snapshot is what it was.
Unwritten(r) == RegTouches(Registers(Len(trace)), r) = {}

FaultsSpoilOnlyTheStackPointer ==
  view.shown /\ ~view.truncated =>
    \A k \in 1 .. Len(history), r \in Reg :
      view.snapshots[k].regs[r] # history[k].regs[r] =>
        r = "rsp" /\ Unwritten(r) /\ ~CleanEnd
=============================================================================
