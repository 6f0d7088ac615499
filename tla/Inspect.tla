------------------------------- MODULE Inspect -------------------------------
(***************************************************************************)
(* Executable inspection: POST /api/binfmt/inspect                         *)
(* (crates/server/src/routes/inspect.rs) over the parsers of binfmt.  A    *)
(* file is uploaded as it was linked, or after one of its cells was        *)
(* overwritten, or with its end cut off, and is inspected each time.       *)
(***************************************************************************)
EXTENDS ElfImage, PeImage

CONSTANTS
  Files,       \* linked files: cells, the image they were linked from, and where names are
  Values,      \* what a cell may be overwritten with
  Cuts,        \* lengths a file may be cut to
  MaxDamages   \* how many cells may be overwritten

ASSUME FilesAreCells == \A x \in Files : x.cells \in Seq(Nat)
ASSUME DamagesAreCells == Values \subseteq Nat /\ Cuts \subseteq Nat
ASSUME DamagesAreCounted == MaxDamages \in Nat

VARIABLES
  original,    \* the file as it was linked
  file,        \* the cells of the file as it is
  image,       \* what its inspection shows
  damages      \* how many cells were overwritten

inspectVars == <<original, file, image, damages>>

(***************************************************************************)
(* lib.rs and the handler.                                                 *)
(***************************************************************************)
\* `detect` and `parse`.
Parse(f) ==
  IF IsElf(f) THEN ElfParse(f)
  ELSE IF IsPe(f) THEN PeParse(f)
  ELSE [error |-> "unknown"]

\* `inspect`: the body is read whole before it is parsed.
Inspected(f) == IF f = <<>> THEN [error |-> "no file contents"] ELSE Parse(f)

InspectInit ==
  /\ original \in Files
  /\ file = original.cells
  /\ image = Inspected(file)
  /\ damages = 0

Upload(f) ==
  /\ file' = f
  /\ image' = Inspected(f)
  /\ UNCHANGED original

Damage(k, v) ==
  /\ damages < MaxDamages
  /\ file[k] # v
  /\ Upload([file EXCEPT ![k] = v])
  /\ damages' = damages + 1

Cut(n) ==
  /\ n < Len(file)
  /\ Upload(SubSeq(file, 1, n))
  /\ UNCHANGED damages

InspectNext ==
  \/ \E k \in DOMAIN file : \E v \in Values : Damage(k, v)
  \/ \E n \in Cuts : Cut(n)

InspectSpec == InspectInit /\ [][InspectNext]_inspectVars

Refused(i) == "error" \in DOMAIN i

(***************************************************************************)
(* Properties.                                                             *)
(***************************************************************************)
\* A file that is as it was linked shows what it was linked from: the parsers undo the
\* layout of the formats (elf::parse, pe::parse).
LinkedIsFound == file = original.cells => image = original.image

\* Everything in the list small is in the list large, but for names that end early.
Shortened(n, m) == n \in {None, <<>>} \/ (m # None /\ IsPrefix(n, m))

\* A file whose end is missing shows nothing that the whole file does not: tables lose
\* records, records lose the end of their names, and nothing else is read in
\* their place (reader.rs, parse_phdrs, parse_shdrs, slice_of, rva_to_off).  Two things
\* are found by what else there is: of an ELF import only the name is compared (the
\* slot is that of the first relocation there is, the library is known if it is the
\* only one), and not the name of a PE export (the last of its names counts).
Matches(e, x, shortens) ==
  /\ \A field \in shortens : Shortened(e[field], x[field])
  /\ \A field \in DOMAIN e \ shortens : e[field] = x[field]
AllMatch(small, large, shortens) ==
  \A e \in small : \E x \in large : Matches(e, x, shortens)
Within(small, large) ==
  /\ \A k \in DOMAIN small.segments :
       k \in DOMAIN large.segments /\ Matches(small.segments[k], large.segments[k], {})
  /\ AllMatch(Range(small.sections), Range(large.sections), {"name"})
  /\ AllMatch(Range(small.symbols), Range(large.symbols), {"name", "section"})
  /\ AllMatch(Range(small.relocations), Range(large.relocations), {"symbol"})
  /\ IF small.format = "elf"
     THEN /\ \A i \in small.imports : \E j \in large.imports : j.name = i.name
          /\ small.exports \subseteq large.exports
     ELSE /\ AllMatch(small.imports, large.imports, {"name", "library"})
          /\ \A e \in small.exports : \E x \in large.exports :
               Matches([e EXCEPT !.name = x.name], x, {"forwarder"})
NothingIsInvented ==
  [][Len(file') < Len(file) /\ ~Refused(image') /\ ~Refused(image) => Within(image', image)]_inspectVars

\* An image without its names.
Skeleton(i) ==
  [sections |-> [k \in DOMAIN i.sections |-> [i.sections[k] EXCEPT !.name = None]],
   segments |-> [k \in DOMAIN i.segments |-> [i.segments[k] EXCEPT !.kind = None]],
   symbols |-> [k \in DOMAIN i.symbols |-> [i.symbols[k] EXCEPT !.name = None, !.section = None]],
   relocations |-> [k \in DOMAIN i.relocations |-> [i.relocations[k] EXCEPT !.symbol = None]]]

\* A name that is overwritten costs names, never a record or the parse (cstr_in: "a bad
\* name should never sink a whole parse").
Overwritten(cells) ==
  Len(file') = Len(file) /\ \E k \in cells \cap DOMAIN file : file' = [file EXCEPT ![k] = file'[k]]
BadNamesSinkNothing ==
  [][~Refused(image) /\ Overwritten(original.names) =>
       ~Refused(image') /\ Skeleton(image') = Skeleton(image)]_inspectVars

\* What an ELF file is said to import is named by a relocation of a slot, is a symbol
\* that no section defines, and is imported once: two walks over the file, one through
\* the raw symbols and one through the decoded ones, find the same (build_imports,
\* collect_relocations), if there is no second table of dynamic symbols and the first
\* symbol is the nameless one.
OneTable(f) ==
  LET shdrs == Shdrs(f, Ehdr(f))
      tables == {k \in DOMAIN shdrs : shdrs[k].type = SectionType.dynsym}
      symbols == Symtab(f, shdrs, OfType(shdrs, SectionType.dynsym))
  IN /\ \A j, k \in tables : j = k
     /\ symbols # <<>> => symbols[1].name = <<>>
ImportsAreNeeded ==
  ~Refused(image) /\ IsElf(file) /\ OneTable(file) =>
    \A i \in image.imports :
      /\ \E r \in Range(image.relocations) :
           /\ r.symbol = i.name /\ r.kind \in Range(RelocType)
           /\ i.address = IF r.offset = 0 THEN None ELSE r.offset
      /\ \E s \in Range(image.symbols) : s.name = i.name /\ s.section = None
      /\ \A j \in image.imports : j.name = i.name => j = i
=============================================================================
