------------------------------ MODULE MCInspect ------------------------------
(***************************************************************************)
(* A linker for Inspect: a description of a program is laid out as a file  *)
(* and, without the file, as the image that its inspection should show.    *)
(***************************************************************************)
EXTENDS Inspect

CONSTANT Kinds       \* which of the programs below are linked

\* Where the k-th of these sequences starts when they follow each other from `from` on.
Start(chunks, k, from) == from + Len(FlattenSeq(SubSeq(chunks, 1, k - 1)))

Terminated(names) == [k \in DOMAIN names |-> Append(names[k], 0)]
StringTable(names) == <<0>> \o FlattenSeq(Terminated(names))
StringAt(names, k) == IF names[k] = <<>> THEN 0 ELSE Start(Terminated(names), k, 1)

\* Name cells, 1-based: all but the first of a string table of this length at off.
Letters(off, table) == off + 2 .. off + Len(table)

(***************************************************************************)
(* ELF: one segment loads the whole file at Base.                          *)
(***************************************************************************)
Base == 300

\* Symbols: undefined ones are imported, the others are in section 6.
Sym(name, bind, type, shndx, value) ==
  [name |-> name, bind |-> bind, type |-> type, shndx |-> shndx, value |-> value, size |-> 2]

\* A program that imports a function, the stack canary and data, and defines a function
\* that it exports and one that it does not.
Puts == <<97>>
Environ == <<98, 97>>
Start_ == <<99>>
Hidden == <<99, 98>>
LibC == <<108>>
LibM == <<109, 108>>
DynSyms == <<Sym(Puts, 1, 2, 0, 0), Sym(Canary, 1, 2, 0, 0), Sym(Environ, 2, 1, 0, 0),
             Sym(Start_, 1, 2, 6, 320), Sym(Hidden, 0, 2, 6, 322)>>
Statics == <<Sym(Hidden, 0, 2, 6, 322), Sym(Puts, 1, 2, 0, 0)>>

\* Relocations: offset, symbol, type, addend.  The call of Puts has a slot in both tables.
DataRelocs == <<<<330, 0, 8, 5>>, <<331, 3, 6, 0>>, <<332, 1, 6, 0>>>>
CallRelocs == <<<<340, 1, 7>>, <<341, 2, 7>>>>

SymCells(syms, names, first) ==
  FlattenSeq([k \in DOMAIN syms |->
    <<StringAt(names, first + k - 1), syms[k].bind * 16 + syms[k].type, syms[k].shndx,
      syms[k].value, syms[k].size>>])
SymNames(syms) == [k \in DOMAIN syms |-> syms[k].name]

\* The programs: what is needed, how it is bound, and what is hardened.
Elf(kind) ==
  CASE kind = "pie" ->
         [type |-> Dyn, needed |-> <<LibC>>, bind |-> <<<<Tag.flags1, 17>>>>, now |-> TRUE,
          flagged |-> TRUE, cet |-> 2, stack |-> 6, relro |-> TRUE, stripped |-> FALSE]
    [] kind = "plain" ->
         [type |-> 2, needed |-> <<LibC, LibM>>, bind |-> <<>>, now |-> FALSE,
          flagged |-> FALSE, cet |-> 0, stack |-> 7, relro |-> FALSE, stripped |-> FALSE]
    [] kind = "stripped" ->
         [type |-> Dyn, needed |-> <<LibC>>, bind |-> <<<<Tag.flags, 8>>>>, now |-> TRUE,
          flagged |-> FALSE, cet |-> 1, stack |-> 6, relro |-> TRUE, stripped |-> TRUE]

SectionNames(e) ==
  <<<<>>, Dynstr, <<65>>, <<66>>, RelPlt, Dynamic, <<67>>, <<68>>, Property, <<70>>, <<71>>, <<72>>>>

SegmentCount(e) == 5 + IF e.relro THEN 1 ELSE 0

ElfChunks(e) ==
  LET names == e.needed \o SymNames(DynSyms)
      dynstr == StringTable(names)
      strings == EhdrSize + SegmentCount(e) * PhdrSize
  IN <<dynstr,
       <<0, 0, 0, 0, 0>> \o SymCells(DynSyms, names, Len(e.needed) + 1),
       FlattenSeq(DataRelocs),
       FlattenSeq(CallRelocs),
       FlattenSeq([k \in DOMAIN e.needed |-> <<Tag.needed, StringAt(e.needed, k)>>] \o e.bind)
         \o <<Tag.strtab, Base + strings, Tag.strsz, Len(dynstr), 0, 0, Tag.needed, 1>>,
       <<1, 1, 1>>,
       <<1, 8, GnuProperty, 71, 8, 1, 3, 0, Feature1, 1, e.cet, 0>>,
       <<0, 0, 0, 0, 0>> \o SymCells(Statics, SymNames(Statics), 1),
       StringTable(SymNames(Statics)),
       StringTable(SectionNames(e))>>

\* type, flags, where in the chunks, link
SectionRows ==
  <<<<3, 2, 1, 0>>, <<SectionType.dynsym, 2, 2, 1>>, <<SectionType.rela, 2, 3, 2>>,
    <<SectionType.rel, 2, 4, 2>>, <<6, 3, 5, 1>>, <<1, 6, 6, 0>>, <<SectionType.nobits, 3, 0, 0>>,
    <<7, 2, 7, 0>>, <<SectionType.symtab, 0, 8, 10>>, <<3, 0, 9, 0>>, <<3, 0, 10, 0>>>>

ElfFile(e) ==
  LET chunks == ElfChunks(e)
      first == EhdrSize + SegmentCount(e) * PhdrSize
      At(c) == Start(chunks, c, first)
      end == At(Len(chunks) + 1)
      names == SectionNames(e)
      total == end + 12 * ShdrSize
      Seg(type, flags, c) == <<type, flags, At(c), Base + At(c), Len(chunks[c]), Len(chunks[c])>>
      phdrs == <<<<SegmentType.load, 5, 0, Base, total, total + 4>>, Seg(SegmentType.dynamic, 6, 5),
                 <<SegmentType.interp, 4, 0, Base, 0, 0>>, <<SegmentType.stack, e.stack, 0, 0, 0, 0>>,
                 Seg(SegmentType.property, 4, 7)>>
               \o IF e.relro THEN <<Seg(SegmentType.relro, 4, 5)>> ELSE <<>>
      Sec(k) == LET r == SectionRows[k] IN
                IF r[3] = 0 THEN <<StringAt(names, k + 1), r[1], r[2], Base + total, total, 9, r[4]>>
                ELSE <<StringAt(names, k + 1), r[1], r[2], IF r[3] > 7 THEN 0 ELSE Base + At(r[3]),
                       At(r[3]), Len(chunks[r[3]]), r[4]>>
      shdrs == <<<<0, 0, 0, 0, 0, 0, 0>>>> \o [k \in 1 .. 11 |-> Sec(k)]
      Flags(f, r, w, x) == {a \in {"read", "write", "execute"} :
                              (a = "read" /\ f \in r) \/ (a = "write" /\ f \in w) \/ (a = "execute" /\ f \in x)}
      SecOf(s) == IF s = 0 \/ e.stripped THEN None ELSE names[s + 1]
      Symb(s) == [name |-> s.name, address |-> s.value, size |-> s.size, kind |-> s.type,
                  binding |-> s.bind, section |-> SecOf(s.shndx)]
      NoSym == [name |-> <<>>, address |-> 0, size |-> 0, kind |-> 0, binding |-> 0, section |-> None]
      Rel(r) == [offset |-> r[1], kind |-> r[3], addend |-> IF Len(r) = 4 THEN r[4] ELSE 0,
                 symbol |-> IF r[2] = 0 THEN None ELSE DynSyms[r[2]].name]
      library == IF Len(e.needed) = 1 THEN e.needed[1] ELSE None
      Imp(name, address, kind) ==
        [name |-> name, library |-> library, ordinal |-> None, address |-> address, kind |-> kind]
  IN [cells |->
        <<ElfMagic, ElfIdent, e.type, 62, 320, EhdrSize>>
          \o (IF e.stripped THEN <<0, SegmentCount(e), 0, 0>> ELSE <<end, SegmentCount(e), 12, 11>>)
          \o FlattenSeq(phdrs) \o FlattenSeq(chunks)
          \o IF e.stripped THEN [k \in 1 .. 12 * ShdrSize |-> 0] ELSE FlattenSeq(shdrs),
      names |-> Letters(At(1), chunks[1]) \cup Letters(At(9), chunks[9]) \cup Letters(At(10), chunks[10]),
      image |->
        [format |-> "elf", arch |-> 62, entry |-> 320, base |-> Base, pie |-> e.type = Dyn,
         sections |->
           IF e.stripped THEN <<>>
           ELSE [k \in 1 .. 11 |->
                   [name |-> names[k + 1], address |-> shdrs[k + 1][4], size |-> shdrs[k + 1][6],
                    offset |-> shdrs[k + 1][5],
                    filesz |-> IF SectionRows[k][3] = 0 THEN 0 ELSE Len(chunks[SectionRows[k][3]]),
                    flags |-> Flags(shdrs[k + 1][3], {2, 3, 6}, {3}, {6})]],
         segments |->
           [k \in DOMAIN phdrs |->
              [kind |-> phdrs[k][1], vaddr |-> phdrs[k][4], filesz |-> phdrs[k][5],
               memsz |-> phdrs[k][6], offset |-> phdrs[k][3],
               perms |-> Flags(phdrs[k][2], {4, 5, 6, 7}, {6, 7}, {5, 7})]],
         symbols |->
           IF e.stripped THEN <<>>
           ELSE <<NoSym>> \o [k \in DOMAIN Statics |-> Symb(Statics[k])]
                  \o <<NoSym>> \o [k \in DOMAIN DynSyms |-> Symb(DynSyms[k])],
         imports |->
           IF e.stripped THEN {}
           ELSE {Imp(Environ, 331, "data"), Imp(Puts, 332, "function"), Imp(Canary, 341, "function")},
         exports |->
           IF e.stripped THEN {}
           ELSE {[name |-> Start_, address |-> 320, ordinal |-> None, forwarder |-> None]},
         relocations |->
           IF e.stripped THEN <<>>
           ELSE [k \in DOMAIN DataRelocs |-> Rel(DataRelocs[k])]
                  \o [k \in DOMAIN CallRelocs |-> Rel(CallRelocs[k])],
         mitigations |->
           [nx |-> e.stack = 6, relro |-> IF ~e.relro THEN "none" ELSE IF e.now THEN "full" ELSE "partial",
            pie |-> e.type = Dyn, aslr |-> e.type = Dyn, bind_now |-> e.now,
            canary |-> ~e.stripped, cfg |-> FALSE, cet |-> e.cet # 0]]]

(***************************************************************************)
(* PE: a section of code, one with all the tables, and one not in the file.*)
(***************************************************************************)
Shift == 200         \* from an offset in the tables to its relative address
ImageBase == 1000
Code == 101
KernelDll == <<107>>
UserDll == <<117, 107>>
LateDll == <<122>>
Sleep == <<115>>
Beep == <<98>>
Later == <<116, 115>>
Work == <<119>>
Alias == <<120, 119>>
Forward == <<102, 46>>

\* A library with every table, a program of 32 bits, and one with two directories only.
Pe(kind) ==
  CASE kind = "library" -> [plus |-> TRUE, entry |-> Code, dll |-> 7, count |-> 5]
    [] kind = "plain32" -> [plus |-> FALSE, entry |-> 0, dll |-> 2, count |-> 16]
    [] kind = "few" -> [plus |-> TRUE, entry |-> Code, dll |-> 0, count |-> 2]

\* The tables, given the relative address of each.
PeTables(At(_), p) ==
  <<<<At(3), At(9), At(4), 0, At(9) + 2, At(5), 0, 0, 0>>,
    <<1, At(9) + 5, At(7), At(6), 0, 0, 0, 0>>,
    <<At(8), OrdinalFlag + 7, 0>>,
    <<At(8), OrdinalFlag + 7, 0>>,
    <<At(8) + 3, 0>>,
    <<At(8) + 6, 0>>,
    <<9, 0>>,
    <<1>> \o Append(Sleep, 0) \o <<2>> \o Append(Beep, 0) \o <<0>> \o Append(Later, 0),
    FlattenSeq(Terminated(<<KernelDll, UserDll, LateDll>>)),
    <<3, 4, 2, At(10) + 6, At(10) + 10, At(10) + 12>> \o <<Code, 0, At(10) + 14, Code + 1>>
      \o <<At(10) + 17, At(10) + 19>> \o <<0, 2>>
      \o FlattenSeq(Terminated(<<Forward, Work, Alias>>)),
    <<100, 4, 3 * OffsetMod + 2, 0>> \o <<110, 3, 10 * OffsetMod + 1>>,
    <<6>> \o (IF p.plus THEN <<0, 5>> ELSE <<5, 0>>) \o <<0, 4, 0>>>>

PeFile(p) ==
  LET lengths == PeTables(LAMBDA c : 0, p)
      opt == 3 + 1 + CoffSize
      rows == opt + (IF p.plus THEN 7 ELSE 6) + 2 * MaxDirectories
      first == rows + 3 * RowSize + 3
      Off(c) == Start(lengths, c, first)
      At(c) == Shift + Off(c)
      tables == PeTables(At, p)
      cells == FlattenSeq(tables)
      Directories == [k \in 1 .. 5 |-> <<At(<<10, 1, 11, 12, 2>>[k]), Len(tables[<<10, 1, 11, 12, 2>>[k]])>>]
      sections == <<<<1, 8, 100, 3, first - 3, 13>>, <<2, 99, Shift + first, Len(cells), first, 1>>,
                    <<3, 9, 900, 0, 0, 3>>>>
      Perms(flags) == CASE flags = 13 -> {"read", "execute"} [] flags = 1 -> {"read"} [] OTHER -> {"read", "write"}
      Imp(name, library, kind, ordinal, slot) ==
        [name |-> name, library |-> library, kind |-> kind, ordinal |-> ordinal, address |-> ImageBase + slot]
      Exp(name, ordinal, address, forwarder) ==
        [name |-> name, ordinal |-> ordinal, address |-> address, forwarder |-> forwarder]
      Rel(offset, kind) == [offset |-> ImageBase + offset, kind |-> kind, symbol |-> None, addend |-> 0]
      Max2(a, b) == IF a > b THEN a ELSE b
  IN [cells |->
        <<DosMagic, 3, 0, Signature, 86, 3, rows - opt>>
          \o (IF p.plus THEN <<Plus, p.entry, ImageBase, 0, p.dll, 0, p.count>>
              ELSE <<Plain, p.entry, 0, ImageBase, p.dll, p.count>>)
          \o FlattenSeq(Directories) \o FlattenSeq(sections) \o <<1, 1, 1>> \o cells,
      names |-> {rows + 1, rows + 7, rows + 13} \cup (Off(9) + 1 .. Off(10))
                  \cup (Off(8) + 2 .. Off(8) + 3) \cup (Off(10) + 15 .. Off(11)),
      image |->
        [format |-> "pe", arch |-> 86, entry |-> IF p.entry = 0 THEN 0 ELSE ImageBase + p.entry,
         base |-> ImageBase, pie |-> p.dll = 7, symbols |-> <<>>,
         sections |->
           [k \in 1 .. 3 |->
              [name |-> <<k>>, address |-> ImageBase + sections[k][3], size |-> sections[k][2],
               offset |-> sections[k][5], filesz |-> sections[k][4], flags |-> Perms(sections[k][6])]],
         segments |->
           [k \in 1 .. 3 |->
              [kind |-> <<k>>, vaddr |-> ImageBase + sections[k][3], filesz |-> sections[k][4],
               memsz |-> Max2(sections[k][2], sections[k][4]), offset |-> sections[k][5],
               perms |-> Perms(sections[k][6])]],
         imports |->
           {Imp(Sleep, KernelDll, "function", None, At(4)), Imp(<<>>, KernelDll, "function", 7, At(4) + 1),
            Imp(Beep, UserDll, "function", None, At(5))}
           \cup IF p.count < 5 THEN {} ELSE {Imp(Later, LateDll, "unknown", None, At(7))},
         exports |->
           {Exp(Work, 3, ImageBase + Code, None), Exp(Alias, 5, 0, Forward),
            Exp(<<>>, 6, ImageBase + Code + 1, None)},
         relocations |-> IF p.count < 5 THEN <<>> ELSE <<Rel(102, 3), Rel(111, 10)>>,
         mitigations |->
           [nx |-> p.dll # 0, aslr |-> p.dll = 7, pie |-> p.dll = 7, cfg |-> p.dll = 7, relro |-> None,
            bind_now |-> FALSE, canary |-> p.count >= 5, cet |-> p.plus /\ p.count >= 5]]]

MCFiles ==
  {ElfFile(Elf(k)) : k \in Kinds \cap {"pie", "plain", "stripped"}}
    \cup {PeFile(Pe(k)) : k \in Kinds \cap {"library", "plain32", "few"}}
MCCuts == {19 * n + 6 : n \in 1 .. 14}
MCValues == {0, 1, 3, 8, 1500}
=============================================================================
