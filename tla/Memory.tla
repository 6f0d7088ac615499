------------------------------- MODULE Memory -------------------------------
(***************************************************************************)
(* The permission-checked memory map of the emulator,                      *)
(* crates/asm-emu/src/mem.rs.                                              *)
(*                                                                         *)
(* Addresses and cells are numbers below WordMod, which stands for 2^64.   *)
(* A cell is what one full-width access moves (eight bytes in the code).   *)
(* A memory is a sequence of regions in the order of `Memory::regions`.    *)
(***************************************************************************)
EXTENDS Integers, Sequences, FiniteSets

CONSTANT WordMod      \* the number of addresses, and of values of a cell
ASSUME WordModIsPositive == WordMod \in Nat \ {0}

Word == 0 .. WordMod - 1
Perms == SUBSET {"r", "w", "x"}
Regions == [base : Word, perms : Perms, data : Seq(Word)]
Memories == Seq(Regions)

\* `Region::end` wraps, so a region that reaches the top of the address space
\* ends below its base.
RegionEnd(r) == (r.base + Len(r.data)) % WordMod

\* `map_with` puts a new region before the first one whose base is not smaller;
\* it does not look for overlaps.
\* Mutant of MapWith: a new region goes to the front.
MapInFront(mem, r) == <<r>> \o mem

MapWith(mem, r) ==
  LET pos == Cardinality({i \in DOMAIN mem : mem[i].base < r.base})
  IN  SubSeq(mem, 1, pos) \o <<r>> \o SubSeq(mem, pos + 1, Len(mem))

(***************************************************************************)
(* `locate`: the first region, in order, that holds addr .. addr + n.      *)
(* The fault is "none", "notMapped" or "permission".                       *)
(***************************************************************************)
Covers(r, addr, n) == addr >= r.base /\ addr + n <= RegionEnd(r)
Covering(mem, addr, n) == {i \in DOMAIN mem : Covers(mem[i], addr, n)}
FirstOf(S) == CHOOSE i \in S : \A j \in S : i <= j

NotMapped == [fault |-> "notMapped", region |-> 0, off |-> 0]

\* Mutant of Locate: the permission is not asked for.
LocateAny(mem, addr, n, need) ==
  IF addr + n >= WordMod \/ Covering(mem, addr, n) = {} THEN NotMapped
  ELSE [fault |-> "none", region |-> FirstOf(Covering(mem, addr, n)),
        off |-> addr - mem[FirstOf(Covering(mem, addr, n))].base]

Locate(mem, addr, n, need) ==
  LET i == FirstOf(Covering(mem, addr, n))
  IN  IF addr + n >= WordMod \/ Covering(mem, addr, n) = {}
        THEN NotMapped
      ELSE IF need \notin mem[i].perms
        THEN [fault |-> "permission", region |-> i, off |-> 0]
      ELSE [fault |-> "none", region |-> i, off |-> addr - mem[i].base]

ReadCells(mem, at, n) == SubSeq(mem[at.region].data, at.off + 1, at.off + n)

Overwrite(data, off, cells) ==
  [k \in DOMAIN data |->
     IF k - off \in DOMAIN cells THEN cells[k - off] ELSE data[k]]

WriteCells(mem, at, cells) ==
  LET r == mem[at.region]
  IN  [mem EXCEPT ![at.region] = [r EXCEPT !.data = Overwrite(r.data, at.off, cells)]]

(***************************************************************************)
(* `fetch_slice`: classify the address with an empty probe, then take up   *)
(* to `max` cells from the region the probe found.                         *)
(***************************************************************************)
FetchWindow(mem, addr, max) ==
  LET at   == Locate(mem, addr, 0, "x")
      data == mem[at.region].data
      take == IF Len(data) - at.off < max THEN Len(data) - at.off ELSE max
  IN  IF at.fault # "none"
        THEN [fault |-> at.fault, cells |-> <<>>]
        ELSE [fault |-> "none", cells |-> SubSeq(data, at.off + 1, at.off + take)]

\* What no step may do to the memory: move, resize or re-permission a region,
\* or change a cell of one that is not writable.
Protected(before, after) ==
  /\ DOMAIN after = DOMAIN before
  /\ \A i \in DOMAIN before :
       /\ after[i].base = before[i].base
       /\ after[i].perms = before[i].perms
       /\ Len(after[i].data) = Len(before[i].data)
       /\ "w" \notin before[i].perms => after[i].data = before[i].data
=============================================================================
