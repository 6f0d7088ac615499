-------------------------------- MODULE Cells --------------------------------
(***************************************************************************)
(* Bounds-checked reads (binfmt/src/reader.rs).  A file is a sequence of   *)
(* cells, and a cell is a number of any width the format knows: a field of *)
(* a record is one cell, so is a character, and 0 ends a string.  Offsets  *)
(* count from 0.                                                           *)
(***************************************************************************)
EXTENDS Integers, Sequences, FiniteSets, SequencesExt

CONSTANTS
  None,        \* what is not there
  WordMod,     \* a word, which is also an address and an offset, is below this
  HalfMod,     \* what `as u32` leaves of a word is below this (2^32)
  QuarterMod   \* and below this what sixteen bits of it leave (2^16)

ASSUME WordModIsANumber == WordMod \in Nat \ {0}
ASSUME PartsAreNumbers == {HalfMod, QuarterMod} \subseteq Nat \ {0}
ASSUME NoneIsNothing == None \notin Nat /\ None \notin Seq(Nat)

\* `bytes_at` and `slice_of`: the cells from off to the one before off + len, all in
\* the file or None; the sum may not overflow.
Slice(f, off, len) ==
  IF off + len >= WordMod \/ off + len > Len(f) THEN None ELSE SubSeq(f, off + 1, off + len)

\* `u8_at` .. `u64_at`, with `unwrap_or(0)`.
Cell(f, off) == IF off \in 0 .. Len(f) - 1 THEN f[off + 1] ELSE 0

Readable(f, off) == off \in 0 .. Len(f) - 1

\* The least number in S, which is not empty.
Least(S) == CHOOSE k \in S : \A j \in S : k <= j

\* `cstr_at`: up to the first 0 or the end of the file.
Cstr(f, off) ==
  LET ends == {k \in off + 1 .. Len(f) : f[k] = 0}
  IN SubSeq(f, off + 1, IF ends = {} THEN Len(f) ELSE Least(ends) - 1)

\* s in records of this many cells; what is over at the end is no record.
Records(s, size) ==
  [k \in 1 .. Len(s) \div size |-> SubSeq(s, (k - 1) * size + 1, k * size)]

\* Mutant of Table: what is not in the file is read as zero.
TableZeroFilled(f, base, count, size) ==
  [k \in 1 .. count |-> [i \in 1 .. size |-> Cell(f, base + (k - 1) * size + i - 1)]]
\* A table of count records at base: reading stops where the file does.
Table(f, base, count, size) ==
  LET fits == {k \in 1 .. count : base + k * size <= Len(f)}
  IN [k \in 1 .. Cardinality(fits) |-> SubSeq(f, base + (k - 1) * size + 1, base + k * size)]

\* Whether the bit of this weight is set.
Has(flags, bit) == (flags \div bit) % 2 = 1

\* The elements of s that are in the set, in their order.
AllIn(s, S) == FlattenSeq([k \in DOMAIN s |-> IF s[k] \in S THEN <<s[k]>> ELSE <<>>])

\* The first element of s that is in the set, or None; the element s[k], counted from 0.
FirstIn(s, S) == IF Range(s) \cap S = {} THEN None ELSE s[Least({k \in DOMAIN s : s[k] \in S})]
Nth(s, k) == IF k \in 0 .. Len(s) - 1 THEN s[k + 1] ELSE None
=============================================================================
