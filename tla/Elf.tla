-------------------------------- MODULE Elf --------------------------------
(***************************************************************************)
(* The object file under construction: class ELF of src/include/elf.hpp    *)
(* and src/src/elf.cpp.  One action per public operation, and one for the  *)
(* protected add_section that subclasses call.  A caller that catches the  *)
(* exception of one call may make the next, so an exception is an outcome  *)
(* of the step and not the end of the behaviour.                           *)
(*                                                                         *)
(* Indices are those of the code, from 0; Nth(s, i) is s.at(i).  The       *)
(* strings of shstrtab and strtab and the symbols of symtab have variables *)
(* of their own (shstrings, strings, symbols): the three sections are made *)
(* by the constructor and reached through the fixed indices below.  Any    *)
(* other section keeps its bytes in data and its relocations in rels.      *)
(***************************************************************************)
EXTENDS Integers, Sequences, FiniteSetsExt

CONSTANTS
    Selected,       \* names a caller gives to set_section
    NewSections,    \* sections a subclass may add: records [name, type, sh_type]
    Relocatable,    \* values of add_section's relocatable argument
    SymRelocatable, \* values of add_symbol's relocatable argument
    SymNames,       \* names a caller gives to add_symbol
    Values,         \* values a caller gives to add_symbol
    Strings,        \* strings a caller gives to add_string
    Chunks,         \* byte vectors a caller gives to add_progbits
    StrSize(_),     \* std::string::size()
    RelName(_),     \* "rel" followed by the argument
    ShndxMod,       \* values of st_shndx after static_cast<uint8_t>: 256
    MaxSections,    \* bound on sections_.size()
    MaxStrings,     \* bound on the entries of strtab
    MaxData         \* bound on the bytes added to all sections

SHT_PROGBITS == 1
SHT_SYMTAB == 2
SHT_STRTAB == 3
SHT_NOBITS == 8
SHT_REL == 9

SectionTypes == {"STRTAB", "SYMTAB", "PROGBITS", "REL"}
ShTypes == {SHT_PROGBITS, SHT_SYMTAB, SHT_STRTAB, SHT_NOBITS, SHT_REL}

InitialNames == {"shstrtab", "strtab", "data", "rodata", "bss", "text", "init",
                 "symtab"}

EmptyString == ""

(* Every name a section can have, and every string a table can hold. *)
SectionNames == InitialNames \cup {s.name : s \in NewSections}
                             \cup {RelName(s.name) : s \in NewSections}
AllStrings == {EmptyString} \cup SectionNames \cup SymNames \cup Strings

ASSUME NewSectionsAssumption ==
    \A s \in NewSections : s.type \in SectionTypes /\ s.sh_type \in ShTypes
ASSUME RelocatableAssumption ==
    Relocatable \subseteq BOOLEAN /\ SymRelocatable \subseteq BOOLEAN
ASSUME StrSizeAssumption == \A s \in AllStrings : StrSize(s) \in Nat
ASSUME EmptyStringAssumption == StrSize(EmptyString) = 0
ASSUME ValuesAssumption == Values \subseteq Nat
ASSUME ChunksAssumption == Chunks \subseteq Seq(0..255)
ASSUME BoundsAssumption ==
    /\ ShndxMod \in Nat \ {0} /\ MaxSections \in Nat
    /\ MaxStrings \in Nat /\ MaxData \in Nat

VARIABLES
    sections,      \* sections_: header, data and relocations of each section
    shstrings,     \* shstring_table().strings()
    strings,       \* string_table().strings()
    symbols,       \* current_symbol_table().symbols()
    symbol_names,  \* symbol_names_
    curr_section,  \* curr_section_
    curr_rel_idx,  \* curr_rel_idx_
    outcome,       \* how the last call ended: "ok" or the exception it threw
    defined        \* history: the add_symbol calls that recorded a symbol

tables == <<shstrings, strings, symbols, symbol_names>>
vars == <<sections, tables, curr_section, curr_rel_idx, outcome, defined>>

shstrtab_idx == 0
strtab_idx == 1
curr_symtab_idx == 7

Nth(s, i) == s[i + 1]

----------------------------------------------------------------------------
(* Sections as the constructors leave them *)

Section(name, type, sh_type) ==
    [name |-> name, type |-> type, sh_type |-> sh_type, sh_name |-> 0,
     sh_offset |-> 0, sh_size |-> 0, data |-> << >>, rels |-> << >>]

RelSection(name) == Section(RelName(name), "REL", SHT_REL)

InitialSections ==
    << Section("shstrtab", "STRTAB", SHT_STRTAB),
       Section("strtab", "STRTAB", SHT_STRTAB),
       Section("data", "PROGBITS", SHT_PROGBITS),
       Section("rodata", "PROGBITS", SHT_PROGBITS),
       Section("bss", "PROGBITS", SHT_NOBITS),
       Section("text", "PROGBITS", SHT_PROGBITS),
       Section("init", "PROGBITS", SHT_PROGBITS),
       Section("symtab", "SYMTAB", SHT_SYMTAB) >>

NullSymbol == [st_name |-> 0, st_value |-> 0, st_shndx |-> 0]

Init ==
    /\ sections = InitialSections
    /\ shstrings = << EmptyString, "shstrtab", "strtab", "data", "rodata", "bss",
                      "text", "init", "symtab" >>
    /\ strings = << EmptyString >>
    /\ symbols = << NullSymbol >>
    /\ symbol_names = {}
    /\ curr_section = 0
    /\ curr_rel_idx = 0
    /\ outcome = "ok"
    /\ defined = << >>

----------------------------------------------------------------------------
(* Lookups *)

HasSection(name) == \E i \in DOMAIN sections : sections[i].name = name

(* Faulty variant of FindSection: counts positions from 1.                  *)
FindSectionFromOne(name) ==
    IF HasSection(name) THEN CHOOSE i \in DOMAIN sections : sections[i].name = name
                        ELSE Len(sections) + 1

(* std::distance(begin, find_if(...)): the first section of that name, and  *)
(* the position past the end when there is none.                            *)
FindSection(name) ==
    IF HasSection(name)
      THEN CHOOSE i \in 0..(Len(sections) - 1) :
             /\ Nth(sections, i).name = name
             /\ \A j \in 0..(i - 1) : Nth(sections, j).name # name
      ELSE Len(sections)

(* What current_relocation_section() does: at() checks the index, the       *)
(* dynamic_cast to a reference checks the class.                            *)
RelLookup ==
    IF curr_rel_idx >= Len(sections) THEN "out_of_range"
    ELSE IF Nth(sections, curr_rel_idx).type # "REL" THEN "bad_cast"
    ELSE "ok"

Throw(exception) ==
    /\ outcome' = exception
    /\ UNCHANGED <<sections, tables, curr_section, curr_rel_idx, defined>>

----------------------------------------------------------------------------
(* set_section *)

(* Faulty variant of SetSection: sets the relocation section when there is  *)
(* one, and keeps the one before when there is none.                        *)
SetSectionKeepingRel(name) ==
    /\ HasSection(name)
    /\ curr_section' = FindSection(name)
    /\ curr_rel_idx' = IF HasSection(RelName(name)) THEN FindSection(RelName(name))
                                                    ELSE curr_rel_idx
    /\ outcome' = "ok"
    /\ UNCHANGED <<sections, tables, defined>>

SetSection(name) ==
    /\ HasSection(name)
    /\ curr_section' = FindSection(name)
    /\ curr_rel_idx' = FindSection(RelName(name))
    /\ outcome' = "ok"
    /\ UNCHANGED <<sections, tables, defined>>

SetMissingSection(name) ==
    /\ ~HasSection(name)
    /\ Throw("ELFException")

(* add_section *)

WithSection(s, reloc) ==
    sections \o << Section(s.name, s.type, s.sh_type) >>
             \o (IF reloc THEN << RelSection(s.name) >> ELSE << >>)

(* Faulty variant of AddSection: does not look for a section of that name.  *)
AddSectionUnchecked(s, reloc) ==
    /\ Len(WithSection(s, reloc)) <= MaxSections
    /\ shstrings' = Append(shstrings, s.name)
    /\ sections' = WithSection(s, reloc)
    /\ outcome' = "ok"
    /\ UNCHANGED <<strings, symbols, symbol_names, curr_section, curr_rel_idx,
                   defined>>

AddSection(s, reloc) ==
    /\ ~HasSection(s.name)
    /\ Len(WithSection(s, reloc)) <= MaxSections
    /\ shstrings' = Append(shstrings, s.name)
    /\ sections' = WithSection(s, reloc)
    /\ outcome' = "ok"
    /\ UNCHANGED <<strings, symbols, symbol_names, curr_section, curr_rel_idx,
                   defined>>

(* Faulty variant of AddDuplicateSection: adds the name before it throws.   *)
AddDuplicateSectionLate(s) ==
    /\ HasSection(s.name) /\ Len(shstrings) <= MaxSections
    /\ shstrings' = Append(shstrings, s.name)
    /\ outcome' = "ELFException"
    /\ UNCHANGED <<sections, strings, symbols, symbol_names, curr_section,
                   curr_rel_idx, defined>>

AddDuplicateSection(s) ==
    /\ HasSection(s.name)
    /\ Throw("ELFException")

(* add_string: strtab's header follows its strings *)

StrtabGrown(str) == [sections EXCEPT ![strtab_idx + 1].sh_size = @ + StrSize(str) + 1]

AddString(str) ==
    /\ Len(strings) < MaxStrings
    /\ strings' = Append(strings, str)
    /\ sections' = StrtabGrown(str)
    /\ outcome' = "ok"
    /\ UNCHANGED <<shstrings, symbols, symbol_names, curr_section, curr_rel_idx,
                   defined>>

(* add_symbol *)

(* Faulty variants of NewSymbol: the name's place taken from the symbol     *)
(* table; the section taken to be the relocation section or the last.       *)
NewSymbolNamedByIndex(value) ==
    [st_name |-> Len(symbols), st_value |-> value,
     st_shndx |-> curr_section % ShndxMod]
NewSymbolInRelSection(value) ==
    [st_name |-> Len(strings), st_value |-> value,
     st_shndx |-> curr_rel_idx % ShndxMod]
NewSymbolInLastSection(value) ==
    [st_name |-> Len(strings), st_value |-> value,
     st_shndx |-> (Len(sections) - 1) % ShndxMod]

NewSymbol(value) ==
    [st_name |-> Len(strings), st_value |-> value,
     st_shndx |-> curr_section % ShndxMod]

(* Faulty variant of NewReloc: names the symbol before.                     *)
NewRelocBefore(value) == [r_offset |-> value, r_sym |-> Len(symbols) - 1]

NewReloc(value) == [r_offset |-> value, r_sym |-> Len(symbols)]

(* The symbol is in the table before the relocation section is looked up,   *)
(* so it stays there when the lookup throws.                                *)
AddSymbol(name, value, reloc) ==
    /\ name \notin symbol_names
    /\ Len(strings) < MaxStrings
    /\ symbol_names' = symbol_names \cup {name}
    /\ strings' = Append(strings, name)
    /\ symbols' = Append(symbols, NewSymbol(value))
    /\ defined' = Append(defined, [name |-> name, section |-> curr_section,
                                   value |-> value, reloc |-> reloc,
                                   filed |-> reloc /\ RelLookup = "ok"])
    /\ \/ /\ reloc /\ RelLookup = "ok"
          /\ sections' = [StrtabGrown(name) EXCEPT
                            ![curr_rel_idx + 1].rels = Append(@, NewReloc(value))]
          /\ outcome' = "ok"
       \/ /\ ~(reloc /\ RelLookup = "ok")
          /\ sections' = StrtabGrown(name)
          /\ outcome' = IF reloc THEN RelLookup ELSE "ok"
    /\ UNCHANGED <<shstrings, curr_section, curr_rel_idx>>

AddDuplicateSymbol(name) ==
    /\ name \in symbol_names
    /\ Throw("ELFException")

(* add_progbits, both overloads *)

TotalData == MapThenSumSet(LAMBDA i : Len(sections[i].data), DOMAIN sections)

(* Faulty variants of AddProgbits: the bytes in front; any section will do. *)
AddProgbitsFront(bytes) ==
    /\ Nth(sections, curr_section).type = "PROGBITS"
    /\ TotalData + Len(bytes) <= MaxData
    /\ sections' = [sections EXCEPT ![curr_section + 1].data = bytes \o @]
    /\ outcome' = "ok"
    /\ UNCHANGED <<tables, curr_section, curr_rel_idx, defined>>
AddProgbitsAnywhere(bytes) ==
    /\ TotalData + Len(bytes) <= MaxData
    /\ sections' = [sections EXCEPT ![curr_section + 1].data = @ \o bytes]
    /\ outcome' = "ok"
    /\ UNCHANGED <<tables, curr_section, curr_rel_idx, defined>>

AddProgbits(bytes) ==
    /\ Nth(sections, curr_section).type = "PROGBITS"
    /\ TotalData + Len(bytes) <= MaxData
    /\ sections' = [sections EXCEPT ![curr_section + 1].data = @ \o bytes]
    /\ outcome' = "ok"
    /\ UNCHANGED <<tables, curr_section, curr_rel_idx, defined>>

AddProgbitsElsewhere ==
    /\ Nth(sections, curr_section).type # "PROGBITS"
    /\ Throw("ELFException")

----------------------------------------------------------------------------

Next ==
    \/ \E name \in Selected : SetSection(name) \/ SetMissingSection(name)
    \/ \E s \in NewSections, reloc \in Relocatable : AddSection(s, reloc)
    \/ \E s \in NewSections : AddDuplicateSection(s)
    \/ \E str \in Strings : AddString(str)
    \/ \E name \in SymNames, value \in Values, reloc \in SymRelocatable :
         AddSymbol(name, value, reloc)
    \/ \E name \in SymNames : AddDuplicateSymbol(name)
    \/ \E bytes \in Chunks : AddProgbits(bytes)
    \/ AddProgbitsElsewhere

Spec == Init /\ [][Next]_vars

----------------------------------------------------------------------------
(* Types *)

Symbol == [st_name : Nat, st_value : Nat, st_shndx : Nat]
Reloc == [r_offset : Nat, r_sym : Nat]
SectionRecord ==
    [name : SectionNames, type : SectionTypes, sh_type : ShTypes, sh_name : Nat,
     sh_offset : Nat, sh_size : Nat, data : Seq(0..255), rels : Seq(Reloc)]
Outcomes == {"ok", "ELFException", "out_of_range", "bad_cast"}
Definition == [name : SymNames, section : Nat, value : Nat, reloc : BOOLEAN,
               filed : BOOLEAN]

(* Every variable has its type; the current section exists.  The current    *)
(* relocation section need not: set_section leaves the index past the end.  *)
TypeOK ==
    /\ sections \in Seq(SectionRecord)
    /\ shstrings \in Seq(AllStrings)
    /\ strings \in Seq(AllStrings)
    /\ symbols \in Seq(Symbol)
    /\ symbol_names \subseteq SymNames
    /\ curr_section \in 0..(Len(sections) - 1)
    /\ curr_rel_idx \in Nat
    /\ outcome \in Outcomes
    /\ defined \in Seq(Definition)

(* Properties *)

(* The string table, the symbol table and the set that guards against       *)
(* duplicates never drift apart, whatever add_string calls and exceptions   *)
(* come between: each symbol keeps, through st_name, the name it was        *)
(* defined with, and the guard knows exactly those names, each once         *)
(* (ELF::add_symbol, elf.cpp:361-380).                                      *)
SymbolTableConsistent ==
    /\ Len(symbols) = Len(defined) + 1
    /\ symbols[1] = NullSymbol
    /\ symbol_names = {defined[k].name : k \in DOMAIN defined}
    /\ \A k \in DOMAIN defined :
         /\ symbols[k + 1].st_name + 1 \in DOMAIN strings
         /\ strings[symbols[k + 1].st_name + 1] = defined[k].name
         /\ symbols[k + 1].st_value = defined[k].value
    /\ \A j, k \in DOMAIN defined : defined[j].name = defined[k].name => j = k

(* A symbol stays bound to the section that was current when it was         *)
(* defined, however often set_section and add_section move on, as long as   *)
(* the eight bits of st_shndx can name that section                         *)
(* (elf.hpp:290 "Add a symbol to the current section").                     *)
SymbolsBound ==
    \A k \in DOMAIN defined :
      /\ defined[k].section < Len(sections)
      /\ defined[k].section < ShndxMod
           => symbols[k + 1].st_shndx = defined[k].section

(* Two sections share a name only if one of them is a relocation section    *)
(* and the other is none, as add_section does not look for the name of the  *)
(* relocation section it makes (elf.cpp:250 "Only one section may have a    *)
(* given name", 268-286).                                                   *)
IsRel(i) == sections[i].type = "REL"
UniqueSectionNames ==
    \A i, j \in DOMAIN sections :
      (sections[i].name = sections[j].name /\ IsRel(i) = IsRel(j)) => i = j

(* The section name table is the empty string and then the names of the     *)
(* sections handed to add_section, in their order, and the names of the     *)
(* relocation sections made with them are not in it: the running sh_name of *)
(* ELFWriter is right up to the first of those (elf.cpp:266-286).           *)
Place(i) == Cardinality({j \in 1..i : ~IsRel(j)})
SectionNameTable ==
    /\ Len(shstrings) = 1 + Place(Len(sections))
    /\ shstrings[1] = EmptyString
    /\ \A i \in DOMAIN sections :
         ~IsRel(i) => shstrings[1 + Place(i)] = sections[i].name

(* set_section leaves curr_rel_idx_ past the end when there is no           *)
(* relocation section, and add_section may then grow the vector over it.    *)
(* The stale index never reaches a relocation section of another section,   *)
(* as long as relocation sections are made by add_section itself            *)
(* (elf.cpp:344-351, 268-286).                                              *)
CurrentRelocation ==
    /\ curr_rel_idx <= Len(sections)
    /\ (curr_rel_idx < Len(sections) /\ Nth(sections, curr_rel_idx).type = "REL")
         => Nth(sections, curr_rel_idx).name
              = RelName(Nth(sections, curr_section).name)

(* A relocation is filed with the relocation section of the section its     *)
(* symbol is in, names that symbol and carries its value, and no            *)
(* relocation lies anywhere else (add_symbol, elf.cpp:384-393).             *)
RelocationsFiled ==
    \A i \in DOMAIN sections : \A r \in DOMAIN sections[i].rels :
      LET k == sections[i].rels[r].r_sym IN
        /\ sections[i].type = "REL"
        /\ k \in DOMAIN defined
        /\ defined[k].filed
        /\ sections[i].rels[r].r_offset = defined[k].value
        /\ sections[i].name = RelName(Nth(sections, defined[k].section).name)

(* Each relocatable symbol that was filed has its relocation in some        *)
(* section: relocations are not lost (add_symbol, elf.cpp:391).             *)
FiledSymbolsKept ==
    \A k \in DOMAIN defined : defined[k].filed =>
      \E i \in DOMAIN sections : \E r \in DOMAIN sections[i].rels :
        sections[i].rels[r].r_sym = k

(* The abstract object file these tables stand for *)

SectionContent ==
    [n \in {sections[i].name : i \in DOMAIN sections} |->
       Nth(sections, FindSection(n)).data]

SymbolEntry(k) ==
    [section |-> Nth(sections, symbols[k + 1].st_shndx).name,
     value |-> symbols[k + 1].st_value]

SymbolContent ==
    [n \in symbol_names |->
       SymbolEntry(CHOOSE k \in 1..(Len(symbols) - 1) :
                     strings[symbols[k + 1].st_name + 1] = n)]

Object == INSTANCE ObjectFile WITH
    InitialContent <- [n \in InitialNames |-> << >>],
    InitialCurrent <- "shstrtab",
    SectionNames <- SectionNames,
    SymbolNames <- SymNames,
    SymbolValues <- Values,
    Data <- Chunks,
    content <- SectionContent,
    symtab <- SymbolContent,
    current <- Nth(sections, curr_section).name

(* The tables implement the abstract object file: bytes are only ever added *)
(* at the end of the section selected last by that name, and a symbol once  *)
(* defined keeps its section and value (class ELF, elf.cpp:249-421).        *)
ObjectSpec == Object!Spec

(* What add_symbol's comment (elf.cpp:382) and its documentation            *)
(* (elf.hpp:302-305) say: a symbol that should be relocatable has an entry  *)
(* in the relocation section that corresponds to its section.               *)
RelocatableHasEntry == \A k \in DOMAIN defined : defined[k].reloc => defined[k].filed
=============================================================================
