----------------------------- MODULE ElfWriter -----------------------------
(***************************************************************************)
(* ELFWriter::write (src/src/elf_writer.cpp) on the object of module Elf:  *)
(* the file header, a null section header, the section headers in the      *)
(* order of the sections, then the section bodies in the same order.  The  *)
(* writer fills in and byte-swaps the headers of the object itself; when   *)
(* it is done its caller may go on changing the object and write again.    *)
(*                                                                         *)
(* Swap stands for the byte swap of swap_helpers.hpp: applying it twice    *)
(* gives the value back and 0 is its only fixed point, which is all the    *)
(* properties need; a big-endian reader of the file sees Swap(raw).        *)
(***************************************************************************)
EXTENDS Elf

CONSTANT MaxWrites  \* bound on the calls of write

ASSUME MaxWritesAssumption == MaxWrites \in Nat

VARIABLES
    wpc,          \* where write is: idle, null, headers or bodies
    it,           \* the section its loop is at, from 1
    section_offs, \* section_offs
    sh_name,      \* sh_name
    header,       \* elf_.header(), as far as the writer uses it
    file,         \* what the stream got: file header, section headers, bodies
    pos,          \* bytes written to the stream
    writes        \* calls of write that were completed

writerVars == <<wpc, it, section_offs, sh_name, header, file, pos, writes>>
allVars == <<vars, writerVars>>

EhdrSize == 52
ShdrSize == 40
SymSize == 16
RelSize == 8
ET_REL == 1

Swap(x) == -x

NullHeader == [sh_name |-> 0, sh_type |-> 0, sh_offset |-> 0, sh_size |-> 0]
NoFile == [ehdr |-> [e_type |-> 0, e_shoff |-> 0, e_shnum |-> 0, e_shstrndx |-> 0],
           shdrs |-> << >>, bodies |-> << >>]

WriterInit ==
    /\ Init
    /\ wpc = "idle" /\ it = 1 /\ section_offs = 0 /\ sh_name = 0
    /\ header = [e_type |-> ET_REL, e_shoff |-> 0, e_shnum |-> 0, e_shstrndx |-> 0]
    /\ file = NoFile /\ pos = 0 /\ writes = 0

----------------------------------------------------------------------------
(* Section bodies *)

StringsOf(i) == IF i = shstrtab_idx + 1 THEN shstrings
                ELSE IF i = strtab_idx + 1 THEN strings ELSE << EmptyString >>
SymbolsOf(i) == IF i = curr_symtab_idx + 1 THEN symbols ELSE << NullSymbol >>

(* StrTabSection::size() counts a terminating byte for every string. *)
StrTabSize(strs) == SumFunction([k \in DOMAIN strs |-> StrSize(strs[k]) + 1])

(* size() of each class of section *)
Size(i) ==
    CASE sections[i].type = "STRTAB" -> StrTabSize(StringsOf(i))
      [] sections[i].type = "SYMTAB" -> SymSize * Len(SymbolsOf(i))
      [] sections[i].type = "REL" -> RelSize * Len(sections[i].rels)
      [] sections[i].type = "PROGBITS" -> Len(sections[i].data)

(* write() of each class of section: the sizes of the pieces it hands to    *)
(* the stream, a string and its terminating byte, a symbol, a relocation,   *)
(* or the data as a whole.                                                  *)
Pieces(i) ==
    CASE sections[i].type = "STRTAB" ->
           [k \in DOMAIN StringsOf(i) |-> StrSize(StringsOf(i)[k]) + 1]
      [] sections[i].type = "SYMTAB" -> [k \in DOMAIN SymbolsOf(i) |-> SymSize]
      [] sections[i].type = "REL" -> [k \in DOMAIN sections[i].rels |-> RelSize]
      [] sections[i].type = "PROGBITS" -> << Len(sections[i].data) >>
Written(i) == SumFunction(Pieces(i))

----------------------------------------------------------------------------
(* write *)

(* Faulty variant of ShstrNdx: does not count the null header.              *)
ShstrNdxUncounted ==
    LET strtabs == {i \in DOMAIN sections : sections[i].sh_type = SHT_STRTAB}
    IN IF strtabs = {} THEN Len(sections) ELSE Min(strtabs) - 1

(* The first section whose header has type SHT_STRTAB, counted with the     *)
(* null header; the one past the last when no header has it.                *)
ShstrNdx ==
    LET strtabs == {i \in DOMAIN sections : sections[i].sh_type = SHT_STRTAB}
    IN IF strtabs = {} THEN Len(sections) + 1 ELSE Min(strtabs)

(* Faulty variant of FileHeader: the table begins after the null header.    *)
FileHeaderAfterNull ==
    [e_type |-> header.e_type, e_shoff |-> EhdrSize + ShdrSize,
     e_shnum |-> Len(sections), e_shstrndx |-> ShstrNdx]

FileHeader == [e_type |-> header.e_type, e_shoff |-> EhdrSize,
               e_shnum |-> Len(sections), e_shstrndx |-> ShstrNdx]

WriteFileHeader ==
    /\ wpc = "idle" /\ writes < MaxWrites
    /\ header' = [f \in DOMAIN FileHeader |-> Swap(FileHeader[f])]
    /\ file' = [NoFile EXCEPT !.ehdr = header']
    /\ pos' = EhdrSize
    /\ section_offs' = EhdrSize + Len(sections) * ShdrSize
    /\ wpc' = "null"
    /\ UNCHANGED <<vars, it, sh_name, writes>>

NullHeaderWritten(offs, name) ==
    /\ wpc = "null"
    /\ file' = [file EXCEPT !.shdrs = << NullHeader >>]
    /\ pos' = pos + ShdrSize
    /\ section_offs' = offs
    /\ sh_name' = name
    /\ it' = 1
    /\ wpc' = "headers"
    /\ UNCHANGED <<vars, header, writes>>

(* Faulty variants of WriteNullHeader: no room made for the null header; no *)
(* room left for the empty string that begins the name table.               *)
WriteNullHeaderNoRoom == NullHeaderWritten(section_offs, 1)
WriteNullHeaderNoName == NullHeaderWritten(section_offs + ShdrSize, 0)

WriteNullHeader == NullHeaderWritten(section_offs + ShdrSize, 1)

(* The header as the object keeps it: filled in, then swapped in place.     *)
SwappedSection(i) ==
    [sections[i] EXCEPT !.sh_name = Swap(sh_name),
                        !.sh_size = Swap(Size(i)),
                        !.sh_offset = Swap(section_offs),
                        !.sh_type = Swap(@)]

HeaderOf(s) == [sh_name |-> s.sh_name, sh_type |-> s.sh_type,
                sh_offset |-> s.sh_offset, sh_size |-> s.sh_size]

WriteSectionHeader ==
    /\ wpc = "headers" /\ it <= Len(sections)
    /\ sections' = [sections EXCEPT ![it] = SwappedSection(it)]
    /\ file' = [file EXCEPT !.shdrs = Append(@, HeaderOf(SwappedSection(it)))]
    /\ sh_name' = sh_name + StrSize(sections[it].name) + 1
    /\ section_offs' = section_offs + Size(it)
    /\ pos' = pos + ShdrSize
    /\ it' = it + 1
    /\ UNCHANGED <<tables, curr_section, curr_rel_idx, outcome, defined, wpc,
                   header, writes>>

(* Faulty variant of HeadersDone: waits for one section too many.           *)
HeadersDoneLate ==
    /\ wpc = "headers" /\ it > Len(sections) + 1
    /\ wpc' = "bodies" /\ it' = 1
    /\ UNCHANGED <<vars, section_offs, sh_name, header, file, pos, writes>>

HeadersDone ==
    /\ wpc = "headers" /\ it > Len(sections)
    /\ wpc' = "bodies" /\ it' = 1
    /\ UNCHANGED <<vars, section_offs, sh_name, header, file, pos, writes>>

(* Faulty variant of WriteBody: stays at the section it has written.        *)
WriteBodyAgain ==
    /\ wpc = "bodies" /\ it <= Len(sections)
    /\ file' = [file EXCEPT !.bodies = Append(@, [at |-> pos, len |-> Written(it)])]
    /\ pos' = pos + Written(it)
    /\ UNCHANGED <<vars, it, wpc, section_offs, sh_name, header, writes>>

WriteBody ==
    /\ wpc = "bodies" /\ it <= Len(sections)
    /\ file' = [file EXCEPT !.bodies = Append(@, [at |-> pos, len |-> Written(it)])]
    /\ pos' = pos + Written(it)
    /\ it' = it + 1
    /\ UNCHANGED <<vars, wpc, section_offs, sh_name, header, writes>>

WriteDone ==
    /\ wpc = "bodies" /\ it > Len(sections)
    /\ wpc' = "idle" /\ writes' = writes + 1
    /\ UNCHANGED <<vars, it, section_offs, sh_name, header, file, pos>>

(* The object is only changed by others while the writer is not at it.      *)
ChangeObject == wpc = "idle" /\ Next /\ UNCHANGED writerVars

WriterNext ==
    \/ ChangeObject \/ WriteFileHeader \/ WriteNullHeader \/ WriteSectionHeader
    \/ HeadersDone \/ WriteBody \/ WriteDone

(* write is a loop over finitely many sections that nothing blocks.         *)
WriterSpec ==
    /\ WriterInit /\ [][WriterNext]_allVars
    /\ WF_allVars(WriteNullHeader \/ WriteSectionHeader \/ HeadersDone
                  \/ WriteBody \/ WriteDone)

----------------------------------------------------------------------------
(* Types *)

WriterTypeOK ==
    /\ wpc \in {"idle", "null", "headers", "bodies"}
    /\ it \in 1..(Len(sections) + 1)
    /\ section_offs \in Nat /\ sh_name \in Nat /\ pos \in Nat
    /\ writes \in 0..MaxWrites
    /\ \A f \in DOMAIN header : header[f] \in Int
    /\ Len(file.shdrs) <= Len(sections) + 1
    /\ Len(file.bodies) < Len(file.shdrs) \/ file.bodies = << >>

(* Properties *)

Complete == wpc = "bodies" /\ it > Len(sections)

(* A reader that follows a section header finds the body of that section:   *)
(* the offset and size computed in the first pass are where and how long    *)
(* the body is when the second pass writes it, also in a second file        *)
(* written after the object has grown (elf_writer.cpp:50-84).               *)
BodiesWhereDeclared ==
    \A i \in DOMAIN file.bodies :
      /\ file.bodies[i].at = Swap(file.shdrs[i + 1].sh_offset)
      /\ file.bodies[i].len = Swap(file.shdrs[i + 1].sh_size)

(* The section header table is where the file header says, and no body      *)
(* overlaps it or another body (elf_writer.cpp:39, 50).                     *)
FileLayout ==
    LET end(i) == file.bodies[i].at + file.bodies[i].len IN
    /\ wpc # "idle" => Swap(file.ehdr.e_shoff) + ShdrSize * Len(file.shdrs)
                         <= pos
    /\ \A i \in DOMAIN file.bodies :
         /\ file.bodies[i].at >= EhdrSize + ShdrSize * Len(file.shdrs)
         /\ i > 1 => file.bodies[i].at = end(i - 1)

(* The string that starts at byte n of a string table, if one does.         *)
Offset(strs, k) == StrTabSize(SubSeq(strs, 1, k - 1))
StringAt(strs, n, str) == \E k \in DOMAIN strs : Offset(strs, k) = n /\ strs[k] = str

(* sh_name of a header is where the section's name starts in the section    *)
(* name string table (elf_writer.cpp:28-29 "sh_name, an index into the      *)
(* section name string table where the section's name is stored"): for all  *)
(* sections up to the first relocation section, whose name add_section did  *)
(* not put into the table.                                                  *)
NamesResolve ==
    Complete => \A i \in DOMAIN sections :
      (\A j \in 1..i : sections[j].type # "REL")
        => StringAt(shstrings, Swap(file.shdrs[i + 1].sh_name), sections[i].name)

(* In the first file written, the file header leads to the section name     *)
(* table (elf_writer.cpp:25-26 "e_shstrndx, the section header table index  *)
(* of the section name string table's header").  A second write looks for   *)
(* SHT_STRTAB in headers the first one byte-swapped.                        *)
ShstrndxTrue ==
    Complete /\ writes = 0 =>
      /\ Swap(file.ehdr.e_shstrndx) = shstrtab_idx + 1
      /\ Swap(file.shdrs[shstrtab_idx + 2].sh_type) = SHT_STRTAB

(* elf_writer.cpp:24: "e_shnum, the number of entries in the section header *)
(* table".                                                                  *)
ShnumCountsEntries == Complete => Swap(file.ehdr.e_shnum) = Len(file.shdrs)

(* A symbol in the file names, by its index in the section header table,    *)
(* the section it was added to (elf.hpp:290 "Add a symbol to the current    *)
(* section"; an index into the table the writer begins with a null entry,   *)
(* elf_writer.cpp:51).                                                      *)
SymbolsNameTheirHeader ==
    Complete => \A k \in DOMAIN defined :
      StringAt(shstrings, Swap(file.shdrs[symbols[k + 1].st_shndx + 1].sh_name),
               Nth(sections, defined[k].section).name)

(* A write that was begun ends. *)
WriteEnds == wpc # "idle" ~> wpc = "idle"
=============================================================================
