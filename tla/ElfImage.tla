------------------------------ MODULE ElfImage ------------------------------
(***************************************************************************)
(* The ELF parser (binfmt/src/elf.rs): headers, symbols, relocations, the  *)
(* dynamic section, imports, exports and mitigations.                      *)
(*                                                                         *)
(* A record has one cell for each field that is read, in the order of the  *)
(* format; r_info has two.  Types, tags and the names the parser looks for *)
(* are small numbers; where the format has bits, so has the model.         *)
(***************************************************************************)
EXTENDS Cells

ElfMagic == 69
ElfIdent == 1        \* 64 bits, little-endian, version 1
EhdrSize == 10
PhdrSize == 6
ShdrSize == 7
SymSize == 5
DynSize == 2

Dyn == 3             \* e_type of what may be loaded anywhere
SegmentType ==
  [load |-> 1, dynamic |-> 2, interp |-> 3, stack |-> 5, relro |-> 6, property |-> 7]
SectionType == [null |-> 0, symtab |-> 2, rela |-> 4, nobits |-> 8, rel |-> 9, dynsym |-> 11]
Tag == [null |-> 0, needed |-> 1, strtab |-> 5, strsz |-> 10, now |-> 24, flags |-> 30, flags1 |-> 31]
RelocType == [data |-> 6, call |-> 7]
Bind == [global |-> 1, weak |-> 2]
Undefined == 0
FirstReserved == 100

\* Names the parser knows.
Dynamic == <<116>>
Dynstr == <<117>>
Property == <<118>>
RelPlt == <<119>>
Canary == <<120>>

IsElf(f) == Len(f) >= 1 /\ f[1] = ElfMagic

(***************************************************************************)
(* Headers.                                                                *)
(***************************************************************************)
Ehdr(f) ==
  [type |-> f[3], machine |-> f[4], entry |-> f[5], phoff |-> f[6], shoff |-> f[7],
   phnum |-> f[8], shnum |-> f[9], shstrndx |-> f[10]]

ASSUME NoneIsNoError ==
  None \notin {"truncated", "unsupported", "header table larger than file"}

\* Why the header is refused, or None.
EhdrError(f) ==
  IF Len(f) < EhdrSize THEN "truncated"
  ELSE IF f[2] # ElfIdent THEN "unsupported"
  ELSE IF Ehdr(f).phnum * PhdrSize > Len(f) \/ Ehdr(f).shnum * ShdrSize > Len(f)
       THEN "header table larger than file"
  ELSE None

Phdr(r) ==
  [type |-> r[1], flags |-> r[2], offset |-> r[3], vaddr |-> r[4], filesz |-> r[5], memsz |-> r[6]]

\* `parse_phdrs`: no table without an offset, and the rows that are in the file.
Phdrs(f, eh) ==
  IF eh.phoff = 0 THEN <<>>
  ELSE LET rows == Table(f, eh.phoff, eh.phnum, PhdrSize)
       IN [k \in DOMAIN rows |-> Phdr(rows[k])]

Header ==
  [name : Seq(Nat), type : Nat, flags : Nat, addr : Nat, offset : Nat, size : Nat, link : Nat]
ASSUME NoneIsNoHeader == None \notin Header

Shdr(r, names) ==
  [name |-> Cstr(names, r[1]), type |-> r[2], flags |-> r[3], addr |-> r[4], offset |-> r[5],
   size |-> r[6], link |-> r[7]]

\* What is in the file of a section header, or nothing.
Contents(f, s) ==
  LET slice == IF s = None THEN None ELSE Slice(f, s.offset, s.size)
  IN IF slice = None THEN <<>> ELSE slice

\* `parse_shdrs`: the names are in the section that shstrndx names, if it does.
Named(f, rows, shstrndx) ==
  LET row == IF shstrndx = 0 THEN None ELSE Nth(rows, shstrndx)
      names == IF row = None THEN <<>> ELSE Contents(f, Shdr(row, <<>>))
  IN [k \in DOMAIN rows |-> Shdr(rows[k], names)]

Shdrs(f, eh) ==
  IF eh.shoff = 0 THEN <<>> ELSE Named(f, Table(f, eh.shoff, eh.shnum, ShdrSize), eh.shstrndx)

Access(read, write, execute) ==
  {a \in {"read", "write", "execute"} :
     CASE a = "read" -> read [] a = "write" -> write [] OTHER -> execute}

Segments(phdrs) ==
  [k \in DOMAIN phdrs |->
     LET p == phdrs[k] IN
     [kind |-> p.type, vaddr |-> p.vaddr, filesz |-> p.filesz, memsz |-> p.memsz,
      offset |-> p.offset, perms |-> Access(Has(p.flags, 4), Has(p.flags, 2), Has(p.flags, 1))]]

\* `build_sections`, without the null entry.
Section(s) ==
  [name |-> s.name, address |-> s.addr, size |-> s.size, offset |-> s.offset,
   filesz |-> IF s.type = SectionType.nobits THEN 0 ELSE s.size,
   flags |-> Access(Has(s.flags, 2), Has(s.flags, 1), Has(s.flags, 4))]
\* Mutant of IsNull: whatever has no name.
IsNullByName(s) == s.name = <<>>
IsNull(s) == s.type = SectionType.null /\ s.name = <<>> /\ s.addr = 0 /\ s.size = 0
Sections(shdrs) ==
  LET shown == AllIn(shdrs, {s \in Range(shdrs) : ~IsNull(s)})
  IN [k \in DOMAIN shown |-> Section(shown[k])]

(***************************************************************************)
(* Symbols and relocations.                                                *)
(***************************************************************************)
Symbol(r, names) ==
  [name |-> Cstr(names, r[1]), bind |-> r[2] \div 16, type |-> r[2] % 16, shndx |-> r[3],
   value |-> r[4], size |-> r[5]]

OfType(shdrs, type) ==
  FirstIn(shdrs, {s \in Range(shdrs) : s.type = type})

\* `collect_symtab`: the first table of the type, with the strings its link names.
Symtab(f, shdrs, table) ==
  IF table = None THEN <<>>
  ELSE LET rows == Records(Contents(f, table), SymSize)
           names == Contents(f, Nth(shdrs, table.link))
       IN [k \in DOMAIN rows |-> Symbol(rows[k], names)]

\* `section_name_for_index`.
SectionName(shdrs, shndx) ==
  LET s == IF shndx = Undefined \/ shndx >= FirstReserved THEN None ELSE Nth(shdrs, shndx)
  IN IF s = None THEN None ELSE IF s.name = <<>> THEN None ELSE s.name
Shown(shdrs, s) ==
  [name |-> s.name, address |-> s.value, size |-> s.size, kind |-> s.type, binding |-> s.bind,
   section |-> SectionName(shdrs, s.shndx)]

RelocSections(shdrs) ==
  AllIn(shdrs, {s \in Range(shdrs) : s.type \in {SectionType.rela, SectionType.rel}})
RelocRows(f, s) ==
  Records(Contents(f, s), IF s.type = SectionType.rela THEN 4 ELSE 3)

\* `sym_name_at_index`: by the raw table the relocation section links to; symbol 0 has
\* no name, and an empty name is none.
SymbolName(symbols, names, index) ==
  LET base == index * SymSize
      name == IF index # 0 /\ Readable(symbols, base) THEN Cstr(names, symbols[base + 1]) ELSE <<>>
  IN IF name = <<>> THEN None ELSE name

Reloc(r, symbols, names) ==
  [offset |-> r[1], kind |-> r[3], symbol |-> SymbolName(symbols, names, r[2]),
   addend |-> Cell(r, 3)]

RelocsOf(f, shdrs, s, table) ==
  LET rows == RelocRows(f, s)
      symbols == Contents(f, table)
      names == IF table = None THEN <<>> ELSE Contents(f, Nth(shdrs, table.link))
  IN [k \in DOMAIN rows |-> Reloc(rows[k], symbols, names)]

Relocations(f, shdrs) ==
  LET sections == RelocSections(shdrs)
  IN FlattenSeq([k \in DOMAIN sections |->
                   RelocsOf(f, shdrs, sections[k], Nth(shdrs, sections[k].link))])

(***************************************************************************)
(* The dynamic section.                                                    *)
(***************************************************************************)
\* `vaddr_to_offset`: the first loaded segment that holds the address decides, and so
\* does one before it whose end overflows.
VaddrToOffset(phdrs, va) ==
  LET Ends(p) == p.vaddr + p.filesz
      decides == {k \in DOMAIN phdrs : phdrs[k].type = SegmentType.load /\
                    (Ends(phdrs[k]) >= WordMod \/ va \in phdrs[k].vaddr .. Ends(phdrs[k]) - 1)}
      p == phdrs[Least(decides)]
      off == p.offset + (va - p.vaddr)
  IN IF decides = {} THEN None
     ELSE IF Ends(p) >= WordMod \/ off >= WordMod THEN None ELSE off

\* Where it is: the segment, or else the section of that name.
DynamicRegion(phdrs, shdrs) ==
  LET segment == FirstIn(phdrs, {p \in Range(phdrs) : p.type = SegmentType.dynamic})
  IN IF segment # None THEN [offset |-> segment.offset, size |-> segment.filesz]
     ELSE FirstIn(shdrs, {s \in Range(shdrs) : s.name = Dynamic})

\* Mutant of Entries: the null entry does not end the list.
EntriesToTheEnd(rows) == SelectSeq(rows, LAMBDA d : d[1] # Tag.null)

\* Its entries up to the null entry, as pairs of a tag and a value.
Entries(rows) ==
  LET nulls == {k \in DOMAIN rows : rows[k][1] = Tag.null}
  IN SubSeq(rows, 1, IF nulls = {} THEN Len(rows) ELSE Least(nulls) - 1)

Tagged(entries, tag) == SelectSeq(entries, LAMBDA d : d[1] = tag)
LastValue(entries, tag) ==
  LET found == Tagged(entries, tag) IN IF found = <<>> THEN None ELSE Last(found)[2]

\* The dynamic strings: the section, or what DT_STRTAB leads to.
StringsAt(f, off, size) ==
  IF off = None THEN None
  ELSE IF size \in {None, 0}
       THEN IF off > Len(f) THEN None ELSE SubSeq(f, off + 1, Len(f))
       ELSE Slice(f, off, size)
DynamicStrings(f, phdrs, shdrs, entries) ==
  LET section == FirstIn(shdrs, {s \in Range(shdrs) : s.name = Dynstr})
      inSection == IF section = None THEN None ELSE Slice(f, section.offset, section.size)
      va == LastValue(entries, Tag.strtab)
      atAddress == IF va = None THEN None
                   ELSE StringsAt(f, VaddrToOffset(phdrs, va), LastValue(entries, Tag.strsz))
  IN IF inSection # None THEN inSection ELSE IF atAddress # None THEN atAddress ELSE <<>>

\* What is needed, the names that could be read; eager binding; and the PIE flag.
Digest(entries, strings) ==
  LET names == [k \in DOMAIN Tagged(entries, Tag.needed) |->
                  Cstr(strings, Tagged(entries, Tag.needed)[k][2] % HalfMod)]
      Flagged(tag, bit) == \E d \in Range(Tagged(entries, tag)) : Has(d[2], bit)
  IN [needed |-> SelectSeq(names, LAMBDA n : n # <<>>),
      bind_now |-> \/ Tagged(entries, Tag.now) # <<>>
                   \/ Flagged(Tag.flags, 8) \/ Flagged(Tag.flags1, 1),
      pie |-> Flagged(Tag.flags1, 16)]

ParseDynamic(f, phdrs, shdrs) ==
  LET region == DynamicRegion(phdrs, shdrs)
      entries == Entries(Records(Contents(f, region), DynSize))
  IN Digest(entries, DynamicStrings(f, phdrs, shdrs, entries))

(***************************************************************************)
(* Imports and exports.  The lists are sorted by name; they are kept as    *)
(* sets.                                                                   *)
(***************************************************************************)
\* Mutant of IsImport: symbols that a section defines are imported too.
IsImportOfAny(r, dynsym) ==
  /\ r[3] \in Range(RelocType) /\ r[2] \in 0 .. Len(dynsym) - 1
  /\ Nth(dynsym, r[2]).name # <<>>

\* Whether a relocation stands for an import: what is called or read through a slot of
\* the table and is not defined here.
IsImport(r, dynsym) ==
  /\ r[3] \in Range(RelocType) /\ r[2] \in 0 .. Len(dynsym) - 1
  /\ Nth(dynsym, r[2]).shndx = Undefined /\ Nth(dynsym, r[2]).name # <<>>

\* The import it stands for, in section s.
ImportOf(r, s, dynsym, library) ==
  LET sym == Nth(dynsym, r[2])
  IN [name |-> sym.name, library |-> library, ordinal |-> None,
      address |-> IF r[1] = 0 THEN None ELSE r[1],
      kind |-> CASE s.name = RelPlt \/ r[3] = RelocType.call \/ sym.type = 2 -> "function"
                 [] sym.type = 1 -> "data"
                 [] OTHER -> "unknown"]

\* Only sections that link to a table of dynamic symbols count, and of the imports with
\* one name only the first.
Imports(f, shdrs, dynsym, needed) ==
  LET library == IF Len(needed) = 1 THEN needed[1] ELSE None
      Counts(s) == LET table == Nth(shdrs, s.link) IN
                   IF table = None THEN FALSE ELSE table.type = SectionType.dynsym
      sections == AllIn(RelocSections(shdrs), {s \in Range(shdrs) : Counts(s)})
      Found(s) == LET all == RelocRows(f, s)
                      rows == AllIn(all, {r \in Range(all) : IsImport(r, dynsym)})
                  IN [k \in DOMAIN rows |-> ImportOf(rows[k], s, dynsym, library)]
      all == FlattenSeq([k \in DOMAIN sections |-> Found(sections[k])])
  IN {all[k] : k \in {j \in DOMAIN all : \A i \in 1 .. j - 1 : all[i].name # all[j].name}}

Exports(dynsym) ==
  {[name |-> s.name, address |-> s.value, ordinal |-> None, forwarder |-> None] :
     s \in {d \in Range(dynsym) : d.shndx # Undefined /\ d.name # <<>> /\ d.bind \in Range(Bind)}}

(***************************************************************************)
(* Mitigations.  In a note a cell is four bytes, so that only the padding  *)
(* to eight shows.                                                         *)
(***************************************************************************)
GnuProperty == 5
Feature1 == 9

\* `parse_gnu_property_cet`: the first feature property that says so.
SaysCet(desc) ==
  LET Size(pos) == Cell(desc, pos + 1)
      Says(pos) == /\ Cell(desc, pos) = Feature1 /\ Size(pos) >= 1
                   /\ Has(Cell(desc, pos + 2), 1) \/ Has(Cell(desc, pos + 2), 2)
      walk[pos \in Nat] ==
        /\ pos + 2 + Size(pos) <= Len(desc)
        /\ Says(pos) \/ walk[pos + 2 + Size(pos) + (Size(pos) % 2)]
  IN walk[0]
NoteSaysCet(note) ==
  LET start == 3 + Cell(note, 0)
      end == start + Cell(note, 1)
  IN Cell(note, 2) = GnuProperty /\ SaysCet(SubSeq(note, start + 1, IF end < Len(note) THEN end ELSE Len(note)))

\* `detect_cet`: in the section, or else in the segment.
DetectCet(f, phdrs, shdrs) ==
  LET section == FirstIn(shdrs, {s \in Range(shdrs) : s.name = Property})
      segment == FirstIn(phdrs, {p \in Range(phdrs) : p.type = SegmentType.property})
      inSection == IF section = None THEN None ELSE Slice(f, section.offset, section.size)
      inSegment == IF segment = None THEN None ELSE Slice(f, segment.offset, segment.filesz)
  IN IF inSection # None THEN NoteSaysCet(inSection)
     ELSE inSegment # None /\ NoteSaysCet(inSegment)

Mitigations(eh, phdrs, dynamic, names, cet) ==
  LET Segment(type) == FirstIn(phdrs, {p \in Range(phdrs) : p.type = type})
      pie == (eh.type = Dyn /\ Segment(SegmentType.interp) # None) \/ dynamic.pie
  IN [nx |-> LET stack == Segment(SegmentType.stack) IN
             IF stack = None THEN FALSE ELSE ~Has(stack.flags, 1),
      relro |-> IF Segment(SegmentType.relro) = None THEN "none"
                ELSE IF dynamic.bind_now THEN "full" ELSE "partial",
      pie |-> pie, aslr |-> pie, bind_now |-> dynamic.bind_now, canary |-> Canary \in names,
      cfg |-> FALSE, cet |-> cet]

(***************************************************************************)
(* `parse`.                                                                *)
(***************************************************************************)
LoadBase(phdrs) ==
  LET loaded == {p.vaddr : p \in {q \in Range(phdrs) : q.type = SegmentType.load}}
  IN IF loaded = {} THEN 0 ELSE Least(loaded)

ElfTables(f, eh, phdrs, shdrs, static, dynsym, dynamic, imports) ==
  [format |-> "elf", arch |-> eh.machine, entry |-> eh.entry, base |-> LoadBase(phdrs),
   pie |-> eh.type = Dyn, sections |-> Sections(shdrs), segments |-> Segments(phdrs),
   symbols |-> [k \in 1 .. Len(static \o dynsym) |-> Shown(shdrs, (static \o dynsym)[k])],
   imports |-> imports, exports |-> Exports(dynsym), relocations |-> Relocations(f, shdrs),
   mitigations |-> Mitigations(eh, phdrs, dynamic,
                     {s.name : s \in Range(static \o dynsym)} \cup {i.name : i \in imports},
                     DetectCet(f, phdrs, shdrs))]

WithDynamic(f, eh, phdrs, shdrs, dynsym, dynamic) ==
  ElfTables(f, eh, phdrs, shdrs, Symtab(f, shdrs, OfType(shdrs, SectionType.symtab)), dynsym,
            dynamic, Imports(f, shdrs, dynsym, dynamic.needed))

WithHeaders(f, eh, phdrs, shdrs) ==
  WithDynamic(f, eh, phdrs, shdrs, Symtab(f, shdrs, OfType(shdrs, SectionType.dynsym)),
              ParseDynamic(f, phdrs, shdrs))

ElfParse(f) ==
  IF EhdrError(f) # None THEN [error |-> EhdrError(f)]
  ELSE WithHeaders(f, Ehdr(f), Phdrs(f, Ehdr(f)), Shdrs(f, Ehdr(f)))
=============================================================================
