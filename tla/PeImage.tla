------------------------------ MODULE PeImage ------------------------------
(***************************************************************************)
(* The PE parser (binfmt/src/pe.rs): headers, imports, exports, base       *)
(* relocations and the load configuration.                                 *)
(*                                                                         *)
(* Fields are cells as in ElfImage; a cell of the optional header is four  *)
(* bytes, so that PE32 and PE32+ differ where the format does.  A relative *)
(* address is a word whose sums are checked, an address wraps.             *)
(***************************************************************************)
EXTENDS Cells

CONSTANTS
  MaxSections, MaxDescriptors, MaxThunks, MaxExports   \* 96, 4096, 2^16 and 2^20

ASSUME LimitsAreNumbers == {MaxSections, MaxDescriptors, MaxThunks, MaxExports} \subseteq Nat

DosMagic == 77
Signature == 80
Plus == 2            \* the magic of PE32+, and
Plain == 1           \* of PE32
CoffSize == 3
RowSize == 6
ExportSize == 6
Directory == [export |-> 0, import |-> 1, relocs |-> 2, config |-> 3, delay |-> 4]
MaxDirectories == 5

IsPe(f) ==
  /\ Readable(f, 1) /\ f[1] = DosMagic
  /\ Slice(f, Cell(f, 1), 1) = <<Signature>>

(***************************************************************************)
(* Headers.                                                                *)
(***************************************************************************)
Coff(f) == Cell(f, 1) + 1
Opt(f) == Coff(f) + CoffSize
IsPlus(f) == Cell(f, Opt(f)) = Plus
CountAt(f) == Opt(f) + IF IsPlus(f) THEN 6 ELSE 5

ASSUME NoneIsNoPeError == None \notin {"truncated", "too many sections", "unsupported"}

\* Why the headers are refused, or None.
PeError(f) ==
  IF Slice(f, Coff(f), CoffSize) = None THEN "truncated"
  ELSE IF Cell(f, Coff(f) + 1) > MaxSections THEN "too many sections"
  ELSE IF ~Readable(f, Opt(f)) THEN "truncated"
  ELSE IF Cell(f, Opt(f)) \notin {Plus, Plain} THEN "unsupported"
  ELSE IF ~Readable(f, CountAt(f)) THEN "truncated"
  ELSE None

SecRow(r) ==
  [name |-> Cstr(<<r[1]>>, 0), vsize |-> r[2], vaddr |-> r[3], raw |-> r[4], pointer |-> r[5],
   flags |-> r[6]]

DataDir(r) == [rva |-> r[1], size |-> Cell(r, 1)]

\* The directories that are in the file, the size of the last perhaps not.
Dirs(f, count) ==
  LET most == IF count > MaxDirectories THEN MaxDirectories ELSE count
      readable == {k \in 1 .. most : Readable(f, CountAt(f) + 2 * k - 1)}
  IN [k \in 1 .. Cardinality(readable) |->
        DataDir(SubSeq(f, CountAt(f) + 2 * k, IF CountAt(f) + 2 * k + 1 > Len(f) THEN Len(f)
                                              ELSE CountAt(f) + 2 * k + 1))]

Headers(f) ==
  LET rows == Table(f, Opt(f) + Cell(f, Coff(f) + 2), Cell(f, Coff(f) + 1), RowSize)
  IN [machine |-> Cell(f, Coff(f)), plus |-> IsPlus(f), entry |-> Cell(f, Opt(f) + 1),
      base |-> Cell(f, Opt(f) + IF IsPlus(f) THEN 2 ELSE 3), dll |-> Cell(f, Opt(f) + 4),
      dirs |-> Dirs(f, Cell(f, CountAt(f))),
      sections |-> [k \in DOMAIN rows |-> SecRow(rows[k])]]

Dir(h, index) ==
  IF index < Len(h.dirs) THEN h.dirs[index + 1] ELSE [rva |-> 0, size |-> 0]

Address(h, rva) == (h.base + rva) % WordMod

SecFlags(flags) ==
  {a \in {"read", "write", "execute"} :
     CASE a = "read" -> Has(flags, 1)
       [] a = "write" -> Has(flags, 2)
       [] OTHER -> Has(flags, 4) \/ Has(flags, 8)}
PeSections(h) ==
  [k \in DOMAIN h.sections |->
     LET s == h.sections[k] IN
     [name |-> s.name, address |-> Address(h, s.vaddr), size |-> s.vsize, offset |-> s.pointer,
      filesz |-> s.raw, flags |-> SecFlags(s.flags)]]
PeSegments(h) ==
  [k \in DOMAIN h.sections |->
     LET s == h.sections[k] IN
     [kind |-> s.name, vaddr |-> Address(h, s.vaddr), filesz |-> s.raw,
      memsz |-> IF s.vsize > s.raw THEN s.vsize ELSE s.raw,
      offset |-> s.pointer, perms |-> SecFlags(s.flags)]]

\* `rva_to_off`: the first section whose part in the file holds it decides, and so does
\* one before it whose end overflows.
Decides(s, rva) == s.vaddr + s.raw >= WordMod \/ rva \in s.vaddr .. s.vaddr + s.raw - 1
InSection(s, rva) ==
  IF s.vaddr + s.raw >= WordMod \/ s.pointer + (rva - s.vaddr) >= WordMod THEN None
  ELSE s.pointer + (rva - s.vaddr)
RvaToOff(h, rva) ==
  LET decides == {k \in DOMAIN h.sections : Decides(h.sections[k], rva)}
  IN IF decides = {} THEN None ELSE InSection(h.sections[Least(decides)], rva)

NameAt(f, off) == IF off = None THEN <<>> ELSE Cstr(f, off)
NameAtRva(f, h, rva) == NameAt(f, RvaToOff(h, rva))

\* How many cells from off on may be read, up to a first 0.
Listed(f, off, most) ==
  Cardinality({k \in 1 .. most : Readable(f, off + k - 1) /\ \A j \in 1 .. k : Cell(f, off + j - 1) # 0})

(***************************************************************************)
(* Imports.                                                                *)
(***************************************************************************)
OrdinalFlag == WordMod \div 2

\* The address of slot i, unless that overflows.
SlotAddress(h, iat, i) ==
  IF iat = 0 \/ h.base + iat + i >= WordMod THEN None ELSE h.base + iat + i

\* An import by its ordinal, of which sixteen bits count, or by the name at an rva.
ThunkImport(f, h, value, address, delay, library) ==
  LET byName == RvaToOff(h, value % HalfMod) IN
  IF Has(value, OrdinalFlag)
  THEN [name |-> <<>>, library |-> library, kind |-> "function", ordinal |-> value % QuarterMod,
        address |-> address]
  ELSE [name |-> NameAt(f, IF byName = None THEN None ELSE byName + 1), library |-> library,
        kind |-> IF delay THEN "unknown" ELSE "function", ordinal |-> None, address |-> address]

\* `walk_thunks`.
WalkThunks(f, h, toff, iat, delay, library) ==
  IF toff = None THEN <<>>
  ELSE [k \in 1 .. Listed(f, toff, MaxThunks) |->
          ThunkImport(f, h, Cell(f, toff + k - 1), SlotAddress(h, iat, k - 1), delay, library)]

\* The names are in the lookup table, or in the slots if there is none.
Descriptor(r, delay) ==
  IF delay THEN [name |-> r[2], iat |-> r[3], ilt |-> r[4]]
  ELSE [ilt |-> r[1], name |-> r[2], iat |-> r[3]]
DescriptorImports(f, h, d, delay) ==
  LET name == NameAtRva(f, h, d.name)
      thunk == IF d.ilt # 0 THEN d.ilt ELSE d.iat
  IN WalkThunks(f, h, IF thunk = 0 THEN None ELSE RvaToOff(h, thunk), d.iat, delay,
                IF name = <<>> THEN None ELSE name)

\* `parse_import_dir`: descriptors up to one that is all zero or not in the file.
DescriptorsAt(f, h, off, delay) ==
  LET size == IF delay THEN 4 ELSE 3
      Row(k) == Slice(f, off + (k - 1) * size, size)
      Ends(k) == LET row == Row(k) IN IF row = None THEN TRUE ELSE Range(row) = {0}
      used == {k \in 1 .. MaxDescriptors : \A j \in 1 .. k : ~Ends(j)}
  IN FlattenSeq([k \in 1 .. Cardinality(used) |->
                   DescriptorImports(f, h, Descriptor(Row(k), delay), delay)])
ParseImportDir(f, h, delay) ==
  LET d == Dir(h, IF delay THEN Directory.delay ELSE Directory.import)
      off == IF d.rva = 0 THEN None ELSE RvaToOff(h, d.rva)
  IN IF off = None THEN <<>> ELSE DescriptorsAt(f, h, off, delay)

(***************************************************************************)
(* Exports.                                                                *)
(***************************************************************************)
\* `name_for_slot`: the pairs of a slot and a name, up to the first that is not there.
NamePairs(f, h, x) ==
  LET names == RvaToOff(h, x.names)
      ordinals == RvaToOff(h, x.ordinals)
      there == {k \in 1 .. x.nnames : Readable(f, names + k - 1) /\ Readable(f, ordinals + k - 1)}
  IN IF names = None \/ ordinals = None THEN <<>>
     ELSE [k \in 1 .. Cardinality(there) |->
             [slot |-> Cell(f, ordinals + k - 1),
              name |-> NameAtRva(f, h, Cell(f, names + k - 1))]]

\* The last name given to the slot.
NameOfSlot(pairs, slot) ==
  LET named == SelectSeq(pairs, LAMBDA p : p.slot = slot)
  IN IF named = <<>> THEN <<>> ELSE Last(named).name

\* An address inside the directory is the name of an export of another library.
Forwards(d, rva) ==
  rva >= d.rva /\ rva < IF d.rva + d.size >= WordMod THEN WordMod - 1 ELSE d.rva + d.size
ExportAt(f, h, d, x, pairs, slot, rva) ==
  [name |-> NameOfSlot(pairs, slot), ordinal |-> (x.base + slot) % WordMod,
   address |-> IF Forwards(d, rva) THEN 0 ELSE Address(h, rva),
   forwarder |-> IF Forwards(d, rva) THEN NameAtRva(f, h, rva) ELSE None]

ExportDirectory(r) ==
  [base |-> r[1], nfunctions |-> r[2], nnames |-> r[3], functions |-> r[4], names |-> r[5],
   ordinals |-> r[6]]
ExportsAt(f, h, d, x, pairs, eat) ==
  LET there == {k \in 1 .. x.nfunctions : Readable(f, eat + k - 1)}
      slots == AllIn([k \in 1 .. Cardinality(there) |-> k - 1], {k \in Nat : Cell(f, eat + k) # 0})
  IN [k \in DOMAIN slots |-> ExportAt(f, h, d, x, pairs, slots[k], Cell(f, eat + slots[k]))]
ExportsOf(f, h, d, x) ==
  IF x.nfunctions > MaxExports \/ x.nnames > MaxExports THEN <<>>
  ELSE IF RvaToOff(h, x.functions) = None THEN <<>>
  ELSE ExportsAt(f, h, d, x, NamePairs(f, h, x), RvaToOff(h, x.functions))
ParseExports(f, h) ==
  LET d == Dir(h, Directory.export)
      off == IF d.rva = 0 \/ d.size = 0 THEN None ELSE RvaToOff(h, d.rva)
      row == IF off = None THEN None ELSE Slice(f, off, ExportSize)
  IN IF row = None THEN <<>> ELSE ExportsOf(f, h, d, ExportDirectory(row))

(***************************************************************************)
(* Base relocations: blocks of entries for one page each.                  *)
(***************************************************************************)
BlockHeader == 2
OffsetMod == 16      \* an entry is a type and an offset below this
RelocAt(h, page, entry) ==
  [offset |-> Address(h, (page + (entry % OffsetMod)) % WordMod), kind |-> entry \div OffsetMod,
   symbol |-> None, addend |-> 0]
Block(f, h, at, size) ==
  LET cells == SubSeq(f, at + BlockHeader + 1, IF at + size < Len(f) THEN at + size ELSE Len(f))
      entries == AllIn(cells, {e \in Range(cells) : e \div OffsetMod # 0})
  IN [k \in DOMAIN entries |-> RelocAt(h, Cell(f, at), entries[k])]

\* The walk ends where the directory or the file does, or a block that is none.
RelocBlocks(f, h, base, total) ==
  LET Size(pos) == Cell(f, base + pos + 1)
      Fits(pos) == /\ pos + BlockHeader <= total /\ Readable(f, base + pos + 1)
                   /\ Size(pos) >= BlockHeader /\ pos + Size(pos) <= total
      walk[pos \in Nat] ==
        IF Fits(pos) THEN Block(f, h, base + pos, Size(pos)) \o walk[pos + Size(pos)] ELSE <<>>
  IN walk[0]
ParseBaseRelocs(f, h) ==
  LET d == Dir(h, Directory.relocs)
      base == IF d.rva = 0 \/ d.size = 0 THEN None ELSE RvaToOff(h, d.rva)
  IN IF base = None THEN <<>> ELSE RelocBlocks(f, h, base, d.size)

(***************************************************************************)
(* Mitigations.                                                            *)
(***************************************************************************)
CookieAt(plus) == IF plus THEN 2 ELSE 1
GuardFlagsAt == 4

\* `parse_load_config`: what the structure says of its size, or the directory, if larger.
Available(f, base, size) == IF Cell(f, base) > size THEN Cell(f, base) ELSE size
LoadConfig(f, h, base, avail) ==
  [canary |-> avail > CookieAt(h.plus) /\ Cell(f, base + CookieAt(h.plus)) # 0,
   cet |-> h.plus /\ avail > GuardFlagsAt + 1 /\ Has(Cell(f, base + GuardFlagsAt), 4)]
ParseLoadConfig(f, h) ==
  LET d == Dir(h, Directory.config)
      base == IF d.rva = 0 THEN None ELSE RvaToOff(h, d.rva)
  IN IF base = None THEN [canary |-> FALSE, cet |-> FALSE]
     ELSE LoadConfig(f, h, base, Available(f, base, d.size))

PeMitigations(h, config) ==
  [nx |-> Has(h.dll, 2), aslr |-> Has(h.dll, 1), pie |-> Has(h.dll, 1), cfg |-> Has(h.dll, 4),
   relro |-> None, bind_now |-> FALSE, canary |-> config.canary, cet |-> config.cet]

(***************************************************************************)
(* `parse`.                                                                *)
(***************************************************************************)
WithPeHeaders(f, h) ==
  [format |-> "pe", arch |-> h.machine, entry |-> IF h.entry = 0 THEN 0 ELSE Address(h, h.entry),
   base |-> h.base, pie |-> Has(h.dll, 1), sections |-> PeSections(h), segments |-> PeSegments(h),
   symbols |-> <<>>, imports |-> Range(ParseImportDir(f, h, FALSE) \o ParseImportDir(f, h, TRUE)),
   exports |-> Range(ParseExports(f, h)), relocations |-> ParseBaseRelocs(f, h),
   mitigations |-> PeMitigations(h, ParseLoadConfig(f, h))]

PeParse(f) == IF PeError(f) # None THEN [error |-> PeError(f)] ELSE WithPeHeaders(f, Headers(f))
=============================================================================
