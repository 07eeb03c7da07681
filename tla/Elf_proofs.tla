----------------------------- MODULE Elf_proofs -----------------------------
(***************************************************************************)
(* Theorems of Elf, for every value of its constants, and that it          *)
(* implements ObjectFile.                                                  *)
(***************************************************************************)
EXTENDS Elf, Lemmas

(* What the operations of the object need of the types.  They read no field *)
(* of a section's header, so these may hold any number, as they do once     *)
(* ELFWriter has swapped the bytes of them in place; it is a property of    *)
(* Elf alone that they have the types TypeOK gives them.                    *)
ObjectSection ==
    [name : SectionNames, type : SectionTypes, sh_type : Int, sh_name : Int,
     sh_offset : Int, sh_size : Int, data : Seq(0..255), rels : Seq(Reloc)]

ObjectTypeOK ==
    /\ sections \in Seq(ObjectSection)
    /\ shstrings \in Seq(AllStrings)
    /\ strings \in Seq(AllStrings)
    /\ symbols \in Seq(Symbol)
    /\ symbol_names \subseteq SymNames
    /\ curr_section \in 0..(Len(sections) - 1)
    /\ curr_rel_idx \in Nat
    /\ outcome \in Outcomes
    /\ defined \in Seq(Definition)

LEMMA ShTypesAreNumbers == ShTypes \subseteq Int
BY DEF ShTypes, SHT_PROGBITS, SHT_SYMTAB, SHT_STRTAB, SHT_NOBITS, SHT_REL

HeaderTyped(s) ==
    s.sh_type \in ShTypes /\ s.sh_name \in Nat /\ s.sh_offset \in Nat /\ s.sh_size \in Nat
HeadersTyped == \A i \in 1..Len(sections) : HeaderTyped(sections[i])

(* find_if returns the first section of the name, or the past-the-end       *)
(* position when there is none (std::find_if in ELF::set_section,           *)
(* elf.cpp:336 and 349).                                                    *)
LEMMA FindSectionFinds ==
  ASSUME NEW name, ObjectTypeOK
  PROVE  /\ FindSection(name) \in 0..Len(sections)
         /\ HasSection(name) =>
              /\ FindSection(name) \in 0..(Len(sections) - 1)
              /\ Nth(sections, FindSection(name)).name = name
              /\ \A j \in 0..(FindSection(name) - 1) :
                   Nth(sections, j).name # name
         /\ ~HasSection(name) => FindSection(name) = Len(sections)
<1> DEFINE Hits == {i \in 0..(Len(sections) - 1) : Nth(sections, i).name = name}
           First(i) == /\ Nth(sections, i).name = name
                       /\ \A j \in 0..(i - 1) : Nth(sections, j).name # name
<1>1. Len(sections) \in Nat /\ DOMAIN sections = 1..Len(sections)
  BY LenProperties DEF ObjectTypeOK
<1>2. CASE HasSection(name)
  <2>1. PICK k \in 1..Len(sections) : sections[k].name = name
    BY <1>1, <1>2 DEF HasSection
  <2>2. k - 1 \in Hits
    BY <1>1, <2>1 DEF Nth
  <2>3. PICK i \in Hits : \A y \in Hits : i <= y
    <3>1. Hits \subseteq Nat /\ Hits # {}
      BY <1>1, <2>2
    <3> QED BY <3>1, LeastNat
  <2>4. i \in 0..(Len(sections) - 1) /\ First(i)
    BY <1>1, <2>3
  <2>5. FindSection(name) = CHOOSE j \in 0..(Len(sections) - 1) : First(j)
    BY <1>2 DEF FindSection
  <2>6. /\ FindSection(name) \in 0..(Len(sections) - 1)
        /\ First(FindSection(name))
    <3> HIDE DEF First
    <3> QED BY <2>4, <2>5
  <2> QED BY <1>1, <1>2, <2>6
<1>3. CASE ~HasSection(name)
  BY <1>1, <1>3 DEF FindSection
<1> QED BY <1>2, <1>3

(* Changing the data or the relocations of a section leaves the rest of it.  *)
LEMMA DataExcept ==
  ASSUME NEW s \in ObjectSection, NEW x
  PROVE  LET e == [s EXCEPT !.data = @ \o x]
         IN /\ e.name = s.name /\ e.type = s.type /\ e.sh_type = s.sh_type
            /\ e.rels = s.rels /\ e.data = s.data \o x
BY DEF ObjectSection

LEMMA RelsExcept ==
  ASSUME NEW s \in ObjectSection, NEW x
  PROVE  LET e == [s EXCEPT !.rels = Append(@, x)]
         IN /\ e.name = s.name /\ e.type = s.type /\ e.sh_type = s.sh_type
            /\ e.data = s.data /\ e.rels = Append(s.rels, x)
BY DEF ObjectSection

(* Growing strtab changes one header field of one section.                  *)
LEMMA StrtabGrownType ==
  ASSUME ObjectTypeOK, Len(sections) >= 8, NEW str, StrSize(str) \in Nat
  PROVE  /\ StrtabGrown(str) \in Seq(ObjectSection)
         /\ Len(StrtabGrown(str)) = Len(sections)
         /\ \A i \in 1..Len(sections) :
              /\ StrtabGrown(str)[i].name = sections[i].name
              /\ StrtabGrown(str)[i].type = sections[i].type
              /\ StrtabGrown(str)[i].data = sections[i].data
              /\ StrtabGrown(str)[i].rels = sections[i].rels
              /\ StrtabGrown(str)[i].sh_type = sections[i].sh_type
              /\ HeaderTyped(sections[i]) => HeaderTyped(StrtabGrown(str)[i])
<1> DEFINE e == [sections[2] EXCEPT !.sh_size = @ + StrSize(str) + 1]
<1>1. 2 \in 1..Len(sections) /\ sections \in Seq(ObjectSection)
  BY LenProperties DEF ObjectTypeOK
<1>2. \A i \in 1..Len(sections) : sections[i] \in ObjectSection
  BY <1>1, ElementOfSeq
<1>3. e \in ObjectSection
  <2>1. sections[2] \in ObjectSection
    BY <1>1, <1>2
  <2>2. sections[2].sh_size + StrSize(str) + 1 \in Int
    BY <2>1 DEF ObjectSection
  <2> QED BY <2>1, <2>2 DEF ObjectSection
<1>4. StrtabGrown(str) = [sections EXCEPT ![2] = e]
  BY DEF StrtabGrown, strtab_idx
<1>5. /\ e.name = sections[2].name /\ e.type = sections[2].type
      /\ e.data = sections[2].data /\ e.rels = sections[2].rels
      /\ e.sh_type = sections[2].sh_type
  BY <1>1, <1>2 DEF ObjectSection
<1>6. HeaderTyped(sections[2]) => HeaderTyped(e)
  <2>1. sections[2] \in ObjectSection
    BY <1>1, <1>2
  <2> QED BY <2>1 DEF HeaderTyped, ObjectSection
<1> HIDE DEF e
<1> QED BY <1>1, <1>3, <1>4, <1>5, <1>6, ExceptSeq

(* Appending a section, with or without its relocation section, keeps every *)
(* section that was there at its index.                                     *)
LEMMA WithSectionType ==
  ASSUME ObjectTypeOK, NEW s \in NewSections, NEW reloc \in BOOLEAN
  PROVE  /\ WithSection(s, reloc) \in Seq(ObjectSection)
         /\ Len(WithSection(s, reloc)) =
              Len(sections) + (IF reloc THEN 2 ELSE 1)
         /\ \A i \in 1..Len(sections) : WithSection(s, reloc)[i] = sections[i]
         /\ WithSection(s, reloc)[Len(sections) + 1]
              = Section(s.name, s.type, s.sh_type)
         /\ reloc => WithSection(s, reloc)[Len(sections) + 2] = RelSection(s.name)
<1> DEFINE one == << Section(s.name, s.type, s.sh_type) >>
           two == IF reloc THEN << RelSection(s.name) >> ELSE << >>
<1>1. sections \in Seq(ObjectSection) /\ Len(sections) \in Nat
  BY LenProperties DEF ObjectTypeOK
<1>2. << >> \in Seq(0..255) /\ << >> \in Seq(Reloc)
  BY EmptySeq
<1>3. Section(s.name, s.type, s.sh_type) \in ObjectSection
  <2>1. s.type \in SectionTypes /\ s.sh_type \in Int
    BY NewSectionsAssumption, ShTypesAreNumbers
  <2> QED BY <1>2, <2>1 DEF Section, ObjectSection, SectionNames
<1>4. RelSection(s.name) \in ObjectSection
  BY <1>2 DEF RelSection, Section, ObjectSection, SectionTypes, ShTypes, SHT_REL,
              SectionNames
<1>5. one \in Seq(ObjectSection) /\ Len(one) = 1
  BY <1>3
<1>6. two \in Seq(ObjectSection) /\ Len(two) = IF reloc THEN 1 ELSE 0
  BY <1>4
<1>7. WithSection(s, reloc) = (sections \o one) \o two
  BY DEF WithSection
<1>8. /\ sections \o one \in Seq(ObjectSection)
      /\ Len(sections \o one) = Len(sections) + 1
      /\ \A i \in 1..Len(sections) : (sections \o one)[i] = sections[i]
      /\ (sections \o one)[Len(sections) + 1] = one[1]
  <2> HIDE DEF one
  <2>1. /\ sections \o one \in Seq(ObjectSection)
        /\ Len(sections \o one) = Len(sections) + Len(one)
        /\ \A i \in 1..(Len(sections) + Len(one)) : (sections \o one)[i] =
             IF i <= Len(sections) THEN sections[i] ELSE one[i - Len(sections)]
    BY <1>1, <1>5, ConcatProperties
  <2> QED BY <1>1, <1>5, <2>1
<1>9. /\ (sections \o one) \o two \in Seq(ObjectSection)
      /\ Len((sections \o one) \o two) = Len(sections) + 1 + Len(two)
      /\ \A i \in 1..(Len(sections) + 1) :
           ((sections \o one) \o two)[i] = (sections \o one)[i]
      /\ reloc => ((sections \o one) \o two)[Len(sections) + 2] = two[1]
  <2> HIDE DEF one, two
  <2> QED BY <1>1, <1>6, <1>8, ConcatProperties
<1> QED BY <1>1, <1>6, <1>7, <1>8, <1>9

(* ObjectTypeOK is inductive once it is known that the constructor's eight        *)
(* sections stay: strtab, whose header add_string and add_symbol grow, is   *)
(* one of them.                                                             *)
TypeInv == ObjectTypeOK /\ Len(sections) >= 8

LEMMA InitTypeInv == Init => TypeInv
<1> SUFFICES ASSUME Init PROVE TypeInv
  OBVIOUS
<1>1. << >> \in Seq(0..255) /\ << >> \in Seq(Reloc)
  BY EmptySeq
<1>2. \A n \in SectionNames, t \in SectionTypes, sh \in ShTypes :
        Section(n, t, sh) \in ObjectSection
  <2>1. \A n \in SectionNames, t \in SectionTypes, sh \in Int :
          Section(n, t, sh) \in ObjectSection
    BY <1>1 DEF Section, ObjectSection
  <2> QED BY <2>1, ShTypesAreNumbers
<1>3. InitialNames \subseteq SectionNames /\ InitialNames \subseteq AllStrings
  BY DEF SectionNames, AllStrings
<1>4. sections \in Seq(ObjectSection) /\ Len(sections) = 8
  <2> USE DEF InitialNames, SectionTypes, ShTypes, SHT_PROGBITS, SHT_SYMTAB,
              SHT_STRTAB, SHT_NOBITS
  <2>1. /\ Section("shstrtab", "STRTAB", SHT_STRTAB) \in ObjectSection
        /\ Section("strtab", "STRTAB", SHT_STRTAB) \in ObjectSection
        /\ Section("data", "PROGBITS", SHT_PROGBITS) \in ObjectSection
        /\ Section("rodata", "PROGBITS", SHT_PROGBITS) \in ObjectSection
        /\ Section("bss", "PROGBITS", SHT_NOBITS) \in ObjectSection
        /\ Section("text", "PROGBITS", SHT_PROGBITS) \in ObjectSection
        /\ Section("init", "PROGBITS", SHT_PROGBITS) \in ObjectSection
        /\ Section("symtab", "SYMTAB", SHT_SYMTAB) \in ObjectSection
    BY <1>2, <1>3
  <2> QED BY <2>1 DEF Init, InitialSections
<1>5. strings \in Seq(AllStrings) /\ shstrings \in Seq(AllStrings)
  <2>1. EmptyString \in AllStrings
    BY DEF AllStrings
  <2> QED BY <1>3, <2>1 DEF Init, InitialNames
<1>6. symbols \in Seq(Symbol) /\ defined \in Seq(Definition)
  BY EmptySeq DEF Init, NullSymbol, Symbol
<1>7. curr_section \in 0..(Len(sections) - 1) /\ curr_rel_idx \in Nat
  BY <1>4 DEF Init
<1>8. symbol_names \subseteq SymNames /\ outcome \in Outcomes
  BY DEF Init, Outcomes
<1> QED BY <1>4, <1>5, <1>6, <1>7, <1>8 DEF TypeInv, ObjectTypeOK

LEMMA NextTypeInv == TypeInv /\ [Next]_vars => TypeInv'
<1> SUFFICES ASSUME TypeInv, [Next]_vars PROVE TypeInv'
  OBVIOUS
<1> USE DEF TypeInv
<1>1. /\ Len(sections) \in Nat /\ sections \in Seq(ObjectSection)
      /\ curr_section \in Nat
  BY LenProperties DEF ObjectTypeOK
<1>2. ASSUME NEW name \in Selected, SetSection(name)
      PROVE  TypeInv'
  <2>1. curr_section' \in 0..(Len(sections) - 1)
    BY <1>2, FindSectionFinds DEF SetSection
  <2>2. curr_rel_idx' \in Nat
    BY <1>1, <1>2, FindSectionFinds DEF SetSection
  <2> QED BY <1>2, <2>1, <2>2 DEF SetSection, tables, ObjectTypeOK, Outcomes
<1>3. ASSUME NEW exception \in Outcomes, Throw(exception)
      PROVE  TypeInv'
  BY <1>3 DEF Throw, tables, ObjectTypeOK
<1>4. ASSUME NEW s \in NewSections, NEW reloc \in Relocatable, AddSection(s, reloc)
      PROVE  TypeInv'
  <2>1. reloc \in BOOLEAN
    BY RelocatableAssumption
  <2>2. /\ sections' \in Seq(ObjectSection) /\ Len(sections') \in Nat
        /\ Len(sections') > Len(sections)
    BY <1>1, <1>4, <2>1, WithSectionType DEF AddSection
  <2>3. curr_section' \in 0..(Len(sections') - 1)
    BY <1>1, <1>4, <2>2 DEF AddSection, ObjectTypeOK
  <2>4. shstrings' \in Seq(AllStrings)
    <3>1. s.name \in AllStrings
      BY DEF AllStrings, SectionNames
    <3> QED BY <1>4, <3>1, AppendProperties DEF AddSection, ObjectTypeOK
  <2> QED BY <1>1, <1>4, <2>2, <2>3, <2>4 DEF AddSection, ObjectTypeOK, Outcomes
<1>5. ASSUME NEW str \in Strings, AddString(str)
      PROVE  TypeInv'
  <2>1. str \in AllStrings /\ StrSize(str) \in Nat
    BY StrSizeAssumption DEF AllStrings
  <2>2. sections' \in Seq(ObjectSection) /\ Len(sections') = Len(sections)
    BY <1>5, <2>1, StrtabGrownType DEF AddString
  <2>3. strings' \in Seq(AllStrings)
    BY <1>5, <2>1, AppendProperties DEF AddString, ObjectTypeOK
  <2> QED BY <1>5, <2>2, <2>3 DEF AddString, ObjectTypeOK, Outcomes
<1>6. ASSUME NEW name \in SymNames, NEW value \in Values,
             NEW reloc \in SymRelocatable, AddSymbol(name, value, reloc)
      PROVE  TypeInv'
  <2>1. name \in AllStrings /\ StrSize(name) \in Nat /\ reloc \in BOOLEAN
        /\ value \in Nat
    BY StrSizeAssumption, RelocatableAssumption, ValuesAssumption DEF AllStrings
  <2>2. sections' \in Seq(ObjectSection) /\ Len(sections') = Len(sections)
    <3> DEFINE grown == StrtabGrown(name)
    <3>1. grown \in Seq(ObjectSection) /\ Len(grown) = Len(sections)
      BY <2>1, StrtabGrownType
    <3>2. CASE reloc /\ RelLookup = "ok"
      <4> DEFINE i == curr_rel_idx + 1
                 e == [grown[i] EXCEPT !.rels = Append(@, NewReloc(value))]
      <4>1. i \in 1..Len(grown)
        BY <1>1, <3>1, <3>2 DEF RelLookup, ObjectTypeOK
      <4>2. NewReloc(value) \in Reloc
        BY <2>1, LenProperties DEF NewReloc, Reloc, ObjectTypeOK
      <4>3. e \in ObjectSection
        <5> HIDE DEF grown, i
        <5>1. grown[i] \in ObjectSection
          BY <3>1, <4>1, ElementOfSeq
        <5>2. Append(grown[i].rels, NewReloc(value)) \in Seq(Reloc)
          BY <4>2, <5>1, AppendProperties DEF ObjectSection
        <5> QED BY <5>1, <5>2 DEF ObjectSection
      <4>4. sections' = [grown EXCEPT ![i] = e]
        BY <1>6, <3>2 DEF AddSymbol
      <4> HIDE DEF grown, e, i
      <4> QED BY <3>1, <4>1, <4>3, <4>4, ExceptSeq
    <3>3. CASE ~(reloc /\ RelLookup = "ok")
      BY <1>6, <3>1, <3>3 DEF AddSymbol
    <3> QED BY <3>2, <3>3
  <2>3. strings' \in Seq(AllStrings)
    BY <1>6, <2>1, AppendProperties DEF AddSymbol, ObjectTypeOK
  <2>4. symbols' \in Seq(Symbol)
    <3>1. NewSymbol(value) \in Symbol
      BY <1>1, <2>1, LenProperties, BoundsAssumption
         DEF NewSymbol, Symbol, ObjectTypeOK
    <3> QED BY <1>6, <3>1, AppendProperties DEF AddSymbol, ObjectTypeOK
  <2>5. defined' \in Seq(Definition)
    <3> DEFINE d == [name |-> name, section |-> curr_section, value |-> value,
                     reloc |-> reloc, filed |-> reloc /\ RelLookup = "ok"]
    <3>1. (reloc /\ RelLookup = "ok") \in BOOLEAN
      OBVIOUS
    <3>2. d \in Definition
      BY <1>1, <2>1, <3>1 DEF Definition
    <3>3. defined' = Append(defined, d)
      BY <1>6 DEF AddSymbol
    <3> HIDE DEF d
    <3> QED BY <3>2, <3>3, AppendProperties DEF ObjectTypeOK
  <2>6. outcome' \in Outcomes
    BY <1>6 DEF AddSymbol, RelLookup, Outcomes
  <2>7. symbol_names' \subseteq SymNames
    BY <1>6 DEF AddSymbol, ObjectTypeOK
  <2> QED BY <1>6, <2>2, <2>3, <2>4, <2>5, <2>6, <2>7 DEF AddSymbol, ObjectTypeOK
<1>7. ASSUME NEW bytes \in Chunks, AddProgbits(bytes)
      PROVE  TypeInv'
  <2> DEFINE i == curr_section + 1
             e == [sections[i] EXCEPT !.data = @ \o bytes]
  <2>1. i \in 1..Len(sections) /\ sections[i] \in ObjectSection
    <3>1. i \in 1..Len(sections)
      BY <1>1 DEF ObjectTypeOK
    <3> QED BY <1>1, <3>1, ElementOfSeq
  <2>2. e \in ObjectSection
    <3> HIDE DEF i
    <3>1. sections[i].data \o bytes \in Seq(0..255)
      BY <2>1, ChunksAssumption, ConcatProperties DEF ObjectSection
    <3> QED BY <2>1, <3>1 DEF ObjectSection
  <2>3. sections' = [sections EXCEPT ![i] = e]
    BY <1>7 DEF AddProgbits
  <2>4. sections' \in Seq(ObjectSection) /\ Len(sections') = Len(sections)
    <3> HIDE DEF e, i
    <3> QED BY <1>1, <2>1, <2>2, <2>3, ExceptSeq
  <2> QED BY <1>7, <2>4 DEF AddProgbits, tables, ObjectTypeOK, Outcomes
<1>8. CASE UNCHANGED vars
  BY <1>8 DEF vars, tables, ObjectTypeOK
<1>9. "ELFException" \in Outcomes
  BY DEF Outcomes
<1> QED
  BY <1>2, <1>3, <1>4, <1>5, <1>6, <1>7, <1>8, <1>9
     DEF Next, SetMissingSection, AddDuplicateSection, AddDuplicateSymbol,
         AddProgbitsElsewhere

(* The headers keep their types too, where nobody swaps their bytes.        *)
LEMMA TypeOKParts == TypeOK <=> ObjectTypeOK /\ HeadersTyped
<1>1. ASSUME TypeOK PROVE ObjectTypeOK /\ HeadersTyped
  <2>2. SectionRecord \subseteq ObjectSection
    <3>1. SUFFICES ASSUME NEW s \in SectionRecord PROVE s \in ObjectSection
      OBVIOUS
    <3>2. s.sh_type \in Int
      BY ShTypesAreNumbers DEF SectionRecord
    <3>3. s.sh_name \in Int /\ s.sh_offset \in Int /\ s.sh_size \in Int
      BY DEF SectionRecord
    <3> QED BY <3>2, <3>3 DEF SectionRecord, ObjectSection
  <2>3. \A i \in 1..Len(sections) : sections[i] \in SectionRecord
    BY <1>1, ElementOfSeq DEF TypeOK
  <2>4. sections \in Seq(ObjectSection)
    BY <1>1, <2>2 DEF TypeOK
  <2>5. HeadersTyped
    BY <2>3 DEF HeadersTyped, HeaderTyped, SectionRecord
  <2> QED BY <1>1, <2>4, <2>5 DEF TypeOK, ObjectTypeOK
<1>2. ASSUME ObjectTypeOK, HeadersTyped PROVE TypeOK
  <2>1. \A i \in 1..Len(sections) : sections[i] \in ObjectSection
    BY <1>2, ElementOfSeq DEF ObjectTypeOK
  <2>2. \A i \in 1..Len(sections) : sections[i] \in SectionRecord
    BY <1>2, <2>1 DEF HeadersTyped, HeaderTyped, SectionRecord, ObjectSection
  <2>3. sections \in Seq(SectionRecord)
    <3>1. Len(sections) \in Nat /\ sections \in [1..Len(sections) -> ObjectSection]
      BY <1>2, LenProperties DEF ObjectTypeOK
    <3>2. sections \in [1..Len(sections) -> SectionRecord]
      BY <2>2, <3>1
    <3> QED BY <3>1, <3>2
  <2> QED BY <1>2, <2>3 DEF TypeOK, ObjectTypeOK
<1> QED BY <1>1, <1>2

LEMMA InitTypeOK == Init => TypeOK
<1>1. Init => \A i \in 1..Len(sections) : HeaderTyped(sections[i])
  BY DEF Init, InitialSections, Section, HeaderTyped, ShTypes, SHT_PROGBITS,
         SHT_SYMTAB, SHT_STRTAB, SHT_NOBITS
<1> QED BY <1>1, InitTypeInv, TypeOKParts DEF TypeInv, HeadersTyped

LEMMA ProgbitsAt ==
  ASSUME TypeInv, NEW bytes, AddProgbits(bytes)
  PROVE  /\ DOMAIN sections' = 1..Len(sections) /\ Len(sections') = Len(sections)
         /\ \A i \in 1..Len(sections) :
              sections'[i] = IF i = curr_section + 1
                               THEN [sections[i] EXCEPT !.data = @ \o bytes]
                               ELSE sections[i]
<1> DEFINE e == [sections[curr_section + 1] EXCEPT !.data = @ \o bytes]
<1>1. sections' = [sections EXCEPT ![curr_section + 1] = e]
  BY DEF AddProgbits
<1>2. DOMAIN sections = 1..Len(sections) /\ Len(sections) \in Nat
  BY LenProperties DEF TypeInv, ObjectTypeOK
<1>3. \A x : /\ DOMAIN [sections EXCEPT ![curr_section + 1] = x] = 1..Len(sections)
             /\ Len([sections EXCEPT ![curr_section + 1] = x]) = Len(sections)
             /\ \A i \in 1..Len(sections) :
                  [sections EXCEPT ![curr_section + 1] = x][i]
                    = IF i = curr_section + 1 THEN x ELSE sections[i]
  BY <1>2 DEF TypeInv, ObjectTypeOK
<1> QED BY <1>1, <1>3, Zenon

LEMMA NextTypeOK == TypeInv /\ TypeOK /\ [Next]_vars => TypeOK'
<1> SUFFICES ASSUME TypeInv, HeadersTyped, [Next]_vars PROVE HeadersTyped'
  BY NextTypeInv, TypeOKParts, PTL DEF TypeInv
<1>1. \A i \in 1..Len(sections) : sections[i] \in ObjectSection
  BY ElementOfSeq DEF TypeInv, ObjectTypeOK
<1>2. /\ Len(sections) \in Nat
      /\ \A i \in 1..Len(sections) : HeaderTyped(sections[i])
  BY LenProperties DEF HeadersTyped, TypeInv, ObjectTypeOK
<1>3. CASE UNCHANGED sections
  BY <1>2, <1>3 DEF HeadersTyped
<1>4. ASSUME NEW s \in NewSections, NEW reloc \in Relocatable, AddSection(s, reloc)
      PROVE  HeadersTyped'
  <2>1. HeaderTyped(Section(s.name, s.type, s.sh_type)) /\ HeaderTyped(RelSection(s.name))
    BY NewSectionsAssumption DEF HeaderTyped, Section, RelSection, ShTypes, SHT_REL
  <2>2. \A i \in 1..Len(sections') :
          \/ i \in 1..Len(sections) \/ i = Len(sections) + 1
          \/ reloc /\ i = Len(sections) + 2
    BY <1>2, <1>4, RelocatableAssumption, WithSectionType DEF AddSection, TypeInv
  <2>3. sections' = WithSection(s, reloc) /\ reloc \in BOOLEAN
    BY <1>4, RelocatableAssumption DEF AddSection
  <2> QED BY <1>2, <2>1, <2>2, <2>3, WithSectionType DEF HeadersTyped, TypeInv
<1>5. ASSUME NEW str, StrSize(str) \in Nat, sections' = StrtabGrown(str)
      PROVE  HeadersTyped'
  BY <1>2, <1>5, StrtabGrownType DEF HeadersTyped, TypeInv
<1>6. ASSUME NEW str \in Strings, AddString(str)
      PROVE  HeadersTyped'
  BY <1>5, <1>6, StrSizeAssumption DEF AddString, AllStrings
<1>7. ASSUME NEW name \in SymNames, NEW value \in Values,
             NEW reloc \in SymRelocatable, AddSymbol(name, value, reloc)
      PROVE  HeadersTyped'
  <2>1. StrSize(name) \in Nat
    BY StrSizeAssumption DEF AllStrings
  <2>2. CASE sections' = StrtabGrown(name)
    BY <1>5, <2>1, <2>2
  <2>3. CASE sections' = [StrtabGrown(name) EXCEPT
                            ![curr_rel_idx + 1].rels = Append(@, NewReloc(value))]
    <3>1. PICK grown : grown = StrtabGrown(name)
      OBVIOUS
    <3>2. /\ grown \in Seq(ObjectSection) /\ Len(grown) = Len(sections)
          /\ \A i \in 1..Len(sections) : HeaderTyped(grown[i])
      BY <1>2, <2>1, <3>1, StrtabGrownType DEF TypeInv
    <3>3. \A i \in 1..Len(sections) : grown[i] \in ObjectSection
      BY <3>2, ElementOfSeq
    <3>4. DOMAIN sections' = 1..Len(sections) /\ Len(sections') = Len(sections)
      BY <1>2, <2>3, <3>1, <3>2
    <3>5. \A i \in 1..Len(sections) :
            /\ sections'[i].sh_type = grown[i].sh_type
            /\ sections'[i].sh_name = grown[i].sh_name
            /\ sections'[i].sh_offset = grown[i].sh_offset
            /\ sections'[i].sh_size = grown[i].sh_size
      <4>1. SUFFICES ASSUME NEW i \in 1..Len(sections)
                     PROVE  sections'[i] = IF i = curr_rel_idx + 1
                              THEN [grown[i] EXCEPT !.rels = Append(@, NewReloc(value))]
                              ELSE grown[i]
        BY <3>3 DEF ObjectSection
      <4> QED BY <2>3, <3>1, <3>2, SMTT(30)
    <3> QED BY <3>2, <3>4, <3>5 DEF HeadersTyped, HeaderTyped
  <2> QED BY <1>7, <2>2, <2>3 DEF AddSymbol
<1>8. ASSUME NEW bytes \in Chunks, AddProgbits(bytes)
      PROVE  HeadersTyped'
  <2>1. /\ DOMAIN sections' = 1..Len(sections) /\ Len(sections') = Len(sections)
        /\ \A i \in 1..Len(sections) :
             /\ sections'[i].sh_type = sections[i].sh_type
             /\ sections'[i].sh_name = sections[i].sh_name
             /\ sections'[i].sh_offset = sections[i].sh_offset
             /\ sections'[i].sh_size = sections[i].sh_size
    BY <1>1, <1>8, ProgbitsAt DEF ObjectSection
  <2> QED BY <1>2, <2>1 DEF HeadersTyped, HeaderTyped
<1> QED
  BY <1>3, <1>4, <1>6, <1>7, <1>8
     DEF Next, vars, SetSection, SetMissingSection, Throw, AddDuplicateSection,
         AddDuplicateSymbol, AddProgbitsElsewhere

(* Every variable keeps its type, and the current section exists, whatever  *)
(* is called and in whatever order (class ELF).                             *)
THEOREM TypeCorrect == Spec => []TypeOK
BY InitTypeOK, InitTypeInv, NextTypeInv, NextTypeOK, PTL DEF Spec

----------------------------------------------------------------------------
(* The symbol table *)

LEMMA InitSymbolTable == Init => SymbolTableConsistent
<1> SUFFICES ASSUME Init PROVE SymbolTableConsistent
  OBVIOUS
<1>1. symbols = << NullSymbol >> /\ defined = << >> /\ symbol_names = {}
  BY DEF Init
<1> HIDE DEF NullSymbol
<1> QED BY <1>1 DEF SymbolTableConsistent

(* Only add_string and add_symbol touch the tables, and both only add at    *)
(* the end: no index held in a symbol moves.                                *)
LEMMA NextSymbolTable ==
  TypeInv /\ SymbolTableConsistent /\ [Next]_vars => SymbolTableConsistent'
<1> SUFFICES ASSUME TypeInv, SymbolTableConsistent, [Next]_vars
             PROVE  SymbolTableConsistent'
  OBVIOUS
<1>1. /\ strings \in Seq(AllStrings) /\ symbols \in Seq(Symbol)
      /\ defined \in Seq(Definition)
  BY DEF TypeInv, ObjectTypeOK
<1>2. /\ Len(strings) \in Nat /\ Len(symbols) \in Nat /\ Len(defined) \in Nat
      /\ DOMAIN strings = 1..Len(strings) /\ DOMAIN symbols = 1..Len(symbols)
      /\ DOMAIN defined = 1..Len(defined)
  BY <1>1, LenProperties
<1>3. CASE UNCHANGED <<strings, symbols, symbol_names, defined>>
  BY <1>3 DEF SymbolTableConsistent
<1>4. ASSUME NEW str \in Strings, AddString(str)
      PROVE  SymbolTableConsistent'
  <2>1. str \in AllStrings
    BY DEF AllStrings
  <2>2. /\ Len(strings') = Len(strings) + 1
        /\ \A i \in 1..Len(strings) : strings'[i] = strings[i]
        /\ DOMAIN strings' = 1..(Len(strings) + 1)
    BY <1>1, <1>2, <1>4, <2>1, AppendProperties DEF AddString
  <2>3. UNCHANGED <<symbols, symbol_names, defined>>
    BY <1>4 DEF AddString
  <2> QED BY <1>2, <2>2, <2>3 DEF SymbolTableConsistent
<1>5. ASSUME NEW name \in SymNames, NEW value \in Values,
             NEW reloc \in SymRelocatable, AddSymbol(name, value, reloc)
      PROVE  SymbolTableConsistent'
  <2> DEFINE filed == reloc /\ RelLookup = "ok"
             d == [name |-> name, section |-> curr_section, value |-> value,
                   reloc |-> reloc, filed |-> filed]
  <2>1. /\ name \in AllStrings /\ value \in Nat /\ curr_section \in Nat
        /\ reloc \in BOOLEAN /\ name \notin symbol_names
    BY <1>5, ValuesAssumption, RelocatableAssumption
       DEF AllStrings, TypeInv, ObjectTypeOK, AddSymbol
  <2>2. d \in Definition /\ NewSymbol(value) \in Symbol
    <3>1. filed \in BOOLEAN
      OBVIOUS
    <3>2. d \in Definition
      BY <2>1, <3>1 DEF Definition
    <3>3. NewSymbol(value) \in Symbol
      BY <1>2, <2>1, BoundsAssumption DEF NewSymbol, Symbol
    <3> QED BY <3>2, <3>3
  <2>3. /\ strings' = Append(strings, name)
        /\ symbols' = Append(symbols, NewSymbol(value))
        /\ defined' = Append(defined, d)
        /\ symbol_names' = symbol_names \cup {name}
    BY <1>5 DEF AddSymbol
  <2>4. d.name = name /\ d.value = value
    OBVIOUS
  <2> HIDE DEF d
  <2>5. /\ Len(strings') = Len(strings) + 1
        /\ DOMAIN strings' = 1..(Len(strings) + 1)
        /\ \A i \in 1..Len(strings) : strings'[i] = strings[i]
        /\ strings'[Len(strings) + 1] = name
    BY <1>1, <1>2, <2>1, <2>3, AppendProperties
  <2>6. /\ Len(symbols') = Len(symbols) + 1
        /\ \A i \in 1..Len(symbols) : symbols'[i] = symbols[i]
        /\ symbols'[Len(symbols) + 1] = NewSymbol(value)
    BY <1>1, <1>2, <2>2, <2>3, AppendProperties
  <2>7. /\ Len(defined') = Len(defined) + 1
        /\ DOMAIN defined' = 1..(Len(defined) + 1)
        /\ \A i \in 1..Len(defined) : defined'[i] = defined[i]
        /\ defined'[Len(defined) + 1] = d
    BY <1>1, <1>2, <2>2, <2>3, AppendProperties
  <2>8. Len(symbols) = Len(defined) + 1 /\ symbols[1] = NullSymbol
    BY DEF SymbolTableConsistent
  <2>9. symbol_names' = {defined'[k].name : k \in DOMAIN defined'}
    BY <1>2, <2>3, <2>4, <2>7 DEF SymbolTableConsistent
  <2>10. \A k \in DOMAIN defined' :
           /\ symbols'[k + 1].st_name + 1 \in DOMAIN strings'
           /\ strings'[symbols'[k + 1].st_name + 1] = defined'[k].name
           /\ symbols'[k + 1].st_value = defined'[k].value
    <3> SUFFICES ASSUME NEW k \in 1..(Len(defined) + 1)
                 PROVE  /\ symbols'[k + 1].st_name + 1 \in DOMAIN strings'
                        /\ strings'[symbols'[k + 1].st_name + 1] = defined'[k].name
                        /\ symbols'[k + 1].st_value = defined'[k].value
      BY <2>7
    <3>1. CASE k \in 1..Len(defined)
      <4>1. symbols'[k + 1] = symbols[k + 1] /\ defined'[k] = defined[k]
        BY <1>2, <2>6, <2>7, <2>8, <3>1
      <4>2. symbols[k + 1].st_name + 1 \in 1..Len(strings)
        BY <1>2, <3>1 DEF SymbolTableConsistent
      <4> QED BY <1>2, <2>5, <3>1, <4>1, <4>2 DEF SymbolTableConsistent
    <3>2. CASE k = Len(defined) + 1
      <4>1. symbols'[k + 1] = NewSymbol(value) /\ defined'[k] = d
        BY <1>2, <2>6, <2>7, <2>8, <3>2
      <4> QED BY <1>2, <2>4, <2>5, <4>1 DEF NewSymbol
    <3> QED BY <1>2, <3>1, <3>2
  <2>11. \A j, k \in DOMAIN defined' : defined'[j].name = defined'[k].name => j = k
    <3>1. \A j \in 1..Len(defined) : defined[j].name # name
      BY <1>2, <2>1 DEF SymbolTableConsistent
    <3> QED BY <1>2, <2>4, <2>7, <3>1 DEF SymbolTableConsistent
  <2>12. Len(symbols') = Len(defined') + 1 /\ symbols'[1] = NullSymbol
    BY <1>2, <2>6, <2>7, <2>8
  <2> QED BY <2>9, <2>10, <2>11, <2>12 DEF SymbolTableConsistent, NullSymbol
<1> QED
  BY <1>3, <1>4, <1>5
     DEF Next, vars, tables, SetSection, SetMissingSection, Throw, AddSection,
         AddDuplicateSection, AddDuplicateSymbol, AddProgbits, AddProgbitsElsewhere

(* The string table, the symbol table and the guard against duplicate names *)
(* agree after any sequence of calls (ELF::add_symbol, elf.cpp:361-380).    *)
THEOREM SymbolTableCorrect == Spec => []SymbolTableConsistent
BY InitTypeInv, NextTypeInv, InitSymbolTable, NextSymbolTable, PTL DEF Spec

(* A symbol's section index is the one current when it was defined, and     *)
(* sections never disappear from under it.                                  *)
BoundInv == TypeInv /\ SymbolTableConsistent /\ SymbolsBound

LEMMA NextSymbolsBound == BoundInv /\ [Next]_vars => SymbolsBound'
<1> SUFFICES ASSUME BoundInv, [Next]_vars PROVE SymbolsBound'
  OBVIOUS
<1> USE DEF BoundInv
<1>1. /\ symbols \in Seq(Symbol) /\ defined \in Seq(Definition)
      /\ sections \in Seq(ObjectSection) /\ Len(sections) \in Nat
      /\ Len(symbols) \in Nat /\ Len(defined) \in Nat
      /\ DOMAIN defined = 1..Len(defined)
      /\ \A k \in DOMAIN defined : defined[k].section \in Nat
  <2>1. symbols \in Seq(Symbol) /\ defined \in Seq(Definition)
        /\ sections \in Seq(ObjectSection)
    BY DEF TypeInv, ObjectTypeOK
  <2>2. \A k \in 1..Len(defined) : defined[k].section \in Nat
    <3>1. \A k \in 1..Len(defined) : defined[k] \in Definition
      BY <2>1, ElementOfSeq
    <3> QED BY <3>1 DEF Definition
  <2>3. DOMAIN defined = 1..Len(defined)
    BY <2>1, LenProperties
  <2> QED BY <2>1, <2>2, <2>3, LenProperties
<1>2. ASSUME UNCHANGED <<symbols, defined>>, Len(sections') \in Nat,
             Len(sections') >= Len(sections)
      PROVE  SymbolsBound'
  BY <1>1, <1>2 DEF SymbolsBound
<1>3. ASSUME NEW name \in SymNames, NEW value \in Values,
             NEW reloc \in SymRelocatable, AddSymbol(name, value, reloc)
      PROVE  SymbolsBound'
  <2> DEFINE d == [name |-> name, section |-> curr_section, value |-> value,
                   reloc |-> reloc, filed |-> reloc /\ RelLookup = "ok"]
  <2>1. /\ symbols' = Append(symbols, NewSymbol(value))
        /\ defined' = Append(defined, d)
    BY <1>3 DEF AddSymbol
  <2>2. d.section = curr_section
    OBVIOUS
  <2> HIDE DEF d
  <2>3. /\ DOMAIN defined' = 1..(Len(defined) + 1)
        /\ \A i \in 1..Len(defined) : defined'[i] = defined[i]
        /\ defined'[Len(defined) + 1] = d
    BY <1>1, <2>1
  <2>4. /\ \A i \in 1..Len(symbols) : symbols'[i] = symbols[i]
        /\ symbols'[Len(symbols) + 1] = NewSymbol(value)
    BY <1>1, <2>1
  <2>5. Len(sections') = Len(sections)
    BY <1>1, <1>3 DEF AddSymbol, StrtabGrown
  <2>6. Len(symbols) = Len(defined) + 1
    BY DEF SymbolTableConsistent
  <2>7. curr_section \in 0..(Len(sections) - 1)
    BY DEF TypeInv, ObjectTypeOK
  <2>8. curr_section < ShndxMod => NewSymbol(value).st_shndx = curr_section
    BY <2>7, BoundsAssumption DEF NewSymbol
  <2>9. \A k \in 1..(Len(defined) + 1) :
          /\ defined'[k].section < Len(sections)
          /\ defined'[k].section < ShndxMod
               => symbols'[k + 1].st_shndx = defined'[k].section
    <3> SUFFICES ASSUME NEW k \in 1..(Len(defined) + 1)
                 PROVE  /\ defined'[k].section < Len(sections)
                        /\ defined'[k].section < ShndxMod
                             => symbols'[k + 1].st_shndx = defined'[k].section
      OBVIOUS
    <3>1. CASE k \in 1..Len(defined)
      <4>1. defined'[k] = defined[k] /\ symbols'[k + 1] = symbols[k + 1]
        BY <1>1, <2>3, <2>4, <2>6, <3>1
      <4> QED BY <1>1, <3>1, <4>1 DEF SymbolsBound
    <3>2. CASE k = Len(defined) + 1
      <4>1. defined'[k] = d /\ symbols'[k + 1] = NewSymbol(value)
        BY <1>1, <2>3, <2>4, <2>6, <3>2
      <4> QED BY <1>1, <2>2, <2>7, <2>8, <4>1
    <3> QED BY <1>1, <3>1, <3>2
  <2> QED BY <2>3, <2>5, <2>9 DEF SymbolsBound
<1>4. ASSUME NEW s \in NewSections, NEW reloc \in Relocatable, AddSection(s, reloc)
      PROVE  SymbolsBound'
  <2>1. Len(sections') > Len(sections) /\ Len(sections') \in Nat
    BY <1>1, <1>4, WithSectionType, RelocatableAssumption DEF AddSection, TypeInv
  <2> QED BY <1>1, <1>2, <1>4, <2>1 DEF AddSection
<1>5. ASSUME NEW str \in Strings, AddString(str)
      PROVE  SymbolsBound'
  <2>1. Len(sections') = Len(sections)
    BY <1>1, <1>5 DEF AddString, StrtabGrown
  <2> QED BY <1>1, <1>2, <1>5, <2>1 DEF AddString
<1>6. ASSUME NEW bytes \in Chunks, AddProgbits(bytes)
      PROVE  SymbolsBound'
  <2>1. Len(sections') = Len(sections)
    BY <1>1, <1>6 DEF AddProgbits
  <2> QED BY <1>1, <1>2, <1>6, <2>1 DEF AddProgbits, tables
<1>7. CASE UNCHANGED <<sections, symbols, defined>>
  BY <1>1, <1>2, <1>7
<1> QED
  BY <1>3, <1>4, <1>5, <1>6, <1>7
     DEF Next, vars, tables, SetSection, SetMissingSection, Throw,
         AddDuplicateSection, AddDuplicateSymbol, AddProgbitsElsewhere

(* A symbol names the section that was current when it was defined, as long *)
(* as st_shndx has a value for it (elf.hpp:290).                            *)
THEOREM SymbolsStayBound == Spec => []SymbolsBound
<1>1. Init => SymbolsBound
  BY DEF Init, SymbolsBound
<1>2. BoundInv /\ [Next]_vars => BoundInv'
  BY NextTypeInv, NextSymbolTable, NextSymbolsBound DEF BoundInv
<1> QED BY <1>1, <1>2, InitTypeInv, InitSymbolTable, PTL DEF Spec, BoundInv

-----------------------------------------------------------------------------
(* Section names *)

(* Why relocation sections do not share names with each other: each stands  *)
(* next to the section it was made with, and is named after it.             *)
RelocationNext ==
    \A i \in DOMAIN sections : IsRel(i) =>
      /\ i > 1 /\ ~IsRel(i - 1)
      /\ sections[i].name = RelName(sections[i - 1].name)

NamesFacts == UniqueSectionNames /\ SectionNameTable /\ RelocationNext
NamesInv == TypeInv /\ NamesFacts

(* The place of a section in the name table depends only on the kinds of    *)
(* the sections up to it, and grows with them.                              *)
PlaceIn(secs, i) == Cardinality({j \in 1..i : secs[j].type # "REL"})

LEMMA PlaceType ==
  ASSUME NEW secs, NEW i \in Nat
  PROVE  /\ PlaceIn(secs, i) \in Nat
         /\ IsFiniteSet({j \in 1..i : secs[j].type # "REL"})
<1> DEFINE S == {j \in 1..i : secs[j].type # "REL"}
<1>1. IsFiniteSet(1..i) /\ S \in SUBSET (1..i)
  BY FS_Interval
<1> HIDE DEF S
<1>2. IsFiniteSet(S)
  BY <1>1, FS_Subset
<1>3. Cardinality(S) \in Nat
  BY <1>2, FS_CardinalityType
<1> QED BY <1>2, <1>3 DEF PlaceIn, S

LEMMA PlaceNext ==
  ASSUME NEW secs, NEW i \in Nat
  PROVE  PlaceIn(secs, i + 1) = IF secs[i + 1].type = "REL" THEN PlaceIn(secs, i)
                                                           ELSE PlaceIn(secs, i) + 1
<1> DEFINE S == {j \in 1..i : secs[j].type # "REL"}
           T == {j \in 1..(i + 1) : secs[j].type # "REL"}
<1>1. IsFiniteSet(S) /\ Cardinality(S) = PlaceIn(secs, i)
      /\ Cardinality(T) = PlaceIn(secs, i + 1)
  BY PlaceType DEF PlaceIn
<1>2. 1..(i + 1) = (1..i) \cup {i + 1} /\ i + 1 \notin 1..i
  OBVIOUS
<1>3. CASE secs[i + 1].type = "REL"
  <2>1. T = S
    BY <1>2, <1>3
  <2> QED BY <1>1, <1>3, <2>1
<1>4. CASE secs[i + 1].type # "REL"
  <2>1. T = S \cup {i + 1} /\ i + 1 \notin S
    BY <1>2, <1>4
  <2> HIDE DEF S, T
  <2>2. Cardinality(S \cup {i + 1}) = Cardinality(S) + 1
    BY <1>1, <2>1, FS_AddElement
  <2> QED BY <1>1, <1>4, <2>1, <2>2
<1> QED BY <1>3, <1>4

LEMMA PlaceWithin ==
  ASSUME NEW secs, NEW n \in Nat, NEW i \in 1..n
  PROVE  PlaceIn(secs, i) <= PlaceIn(secs, n)
<1> DEFINE S == {j \in 1..i : secs[j].type # "REL"}
           T == {j \in 1..n : secs[j].type # "REL"}
<1>1. IsFiniteSet(T)
  BY PlaceType
<1>2. S \in SUBSET T
  OBVIOUS
<1> HIDE DEF S, T
<1>3. Cardinality(S) <= Cardinality(T)
  BY <1>1, <1>2, FS_Subset
<1> QED BY <1>3 DEF PlaceIn, S, T

LEMMA PlaceSame ==
  ASSUME NEW secs, NEW more, NEW i \in Nat, \A j \in 1..i : more[j].type = secs[j].type
  PROVE  PlaceIn(more, i) = PlaceIn(secs, i)
<1>1. {j \in 1..i : more[j].type # "REL"} = {j \in 1..i : secs[j].type # "REL"}
  OBVIOUS
<1> QED BY <1>1 DEF PlaceIn

LEMMA PlaceIsPlaceIn ==
  \A i : Place(i) = PlaceIn(sections, i) /\ Place(i)' = PlaceIn(sections', i)
BY DEF Place, PlaceIn, IsRel

LEMMA InitNames == Init => NamesFacts
<1> SUFFICES ASSUME Init PROVE NamesFacts
  OBVIOUS
<1>1. /\ Len(sections) = 8 /\ Len(shstrings) = 9 /\ DOMAIN sections = 1..8
      /\ shstrings[1] = EmptyString
  BY DEF Init, InitialSections
<1>2. /\ sections[1].name = "shstrtab" /\ sections[2].name = "strtab"
      /\ sections[3].name = "data" /\ sections[4].name = "rodata"
      /\ sections[5].name = "bss" /\ sections[6].name = "text"
      /\ sections[7].name = "init" /\ sections[8].name = "symtab"
  BY DEF Init, InitialSections, Section
<1>3. \A i \in 1..8 : shstrings[i + 1] = sections[i].name
  BY <1>2 DEF Init
<1>4. \A i, j \in 1..8 : sections[i].name = sections[j].name => i = j
  BY <1>2
<1>5. \A i \in 1..8 : ~IsRel(i)
  BY DEF Init, InitialSections, Section, IsRel
<1>6. \A i \in 1..8 : Place(i) = i
  <2> SUFFICES ASSUME NEW i \in 1..8 PROVE Place(i) = i
    OBVIOUS
  <2>1. {j \in 1..i : ~IsRel(j)} = 1..i
    BY <1>5
  <2>2. Cardinality(1..i) = i
    <3>1. 1 \in Int /\ i \in Int /\ ~(1 > i)
      OBVIOUS
    <3>2. Cardinality(1..i) = IF 1 > i THEN 0 ELSE i - 1 + 1
      BY <3>1, FS_Interval
    <3> QED BY <3>1, <3>2
  <2> QED BY <2>1, <2>2 DEF Place
<1>7. UniqueSectionNames /\ RelocationNext
  BY <1>1, <1>4, <1>5 DEF UniqueSectionNames, RelocationNext
<1>8. SectionNameTable
  <2>1. \A i \in 1..8 : shstrings[1 + Place(i)] = sections[i].name
    BY <1>3, <1>6
  <2> QED BY <1>1, <1>6, <2>1 DEF SectionNameTable
<1> QED BY <1>7, <1>8 DEF NamesFacts

(* A call that adds no section leaves names, kinds and the table alone.     *)
LEMMA NamesKept ==
  ASSUME NamesInv, UNCHANGED shstrings, Len(sections') = Len(sections),
         DOMAIN sections' = DOMAIN sections,
         \A i \in 1..Len(sections) : /\ sections'[i].name = sections[i].name
                                     /\ sections'[i].type = sections[i].type
  PROVE  NamesFacts'
<1>1. Len(sections) \in Nat /\ DOMAIN sections = 1..Len(sections)
  BY LenProperties DEF NamesInv, TypeInv, ObjectTypeOK
<1>2. \A i \in 1..Len(sections) : IsRel(i)' = IsRel(i)
  BY DEF IsRel
<1>3. \A i \in 0..Len(sections) : Place(i)' = Place(i)
  <2> SUFFICES ASSUME NEW i \in 0..Len(sections) PROVE Place(i)' = Place(i)
    OBVIOUS
  <2>1. i \in Nat /\ \A j \in 1..i : sections'[j].type = sections[j].type
    BY <1>1
  <2> QED BY <2>1, PlaceSame, PlaceIsPlaceIn
<1>4. UniqueSectionNames'
  BY <1>1 DEF NamesInv, NamesFacts, UniqueSectionNames, IsRel
<1>5. SectionNameTable'
  <2>1. SectionNameTable
    BY DEF NamesInv, NamesFacts
  <2>2. Len(sections) \in 0..Len(sections)
    BY <1>1
  <2>3. Place(Len(sections))' = Place(Len(sections))
    BY <1>3, <2>2
  <2>4. Len(shstrings') = 1 + Place(Len(sections))'
    BY <2>1, <2>3 DEF SectionNameTable
  <2>5. \A i \in DOMAIN sections' : ~IsRel(i)' =>
          shstrings'[1 + Place(i)'] = sections'[i].name
    BY <1>1, <1>2, <1>3, <2>1 DEF SectionNameTable
  <2>6. shstrings'[1] = EmptyString
    BY <2>1 DEF SectionNameTable
  <2> QED BY <2>4, <2>5, <2>6, Zenon DEF SectionNameTable, EmptyString
<1>6. RelocationNext'
  <2>1. RelocationNext
    BY DEF NamesInv, NamesFacts
  <2> QED BY <1>1, <2>1 DEF RelocationNext, IsRel
<1> QED BY <1>4, <1>5, <1>6 DEF NamesFacts

(* What add_section does to names and kinds: the new section comes last, or *)
(* last but for its relocation section, and only its name is put into the   *)
(* table (elf.cpp:266-286).                                                 *)
LEMMA NamesAdded ==
  ASSUME \A s \in NewSections : s.type # "REL",
         \A m, n \in SectionNames : RelName(m) = RelName(n) => m = n,
         NEW s \in NewSections, NEW reloc \in BOOLEAN,
         NamesInv, TypeInv', AddSection(s, reloc)
  PROVE  NamesFacts'
<1>0. PICK n \in Nat : n = Len(sections)
  BY LenProperties DEF NamesInv, TypeInv, ObjectTypeOK
<1>1. /\ sections \in Seq(ObjectSection) /\ n = Len(sections) /\ DOMAIN sections = 1..n
      /\ shstrings \in Seq(AllStrings)
      /\ \A i \in 1..n : sections[i] \in ObjectSection
  BY <1>0, LenProperties, ElementOfSeq DEF NamesInv, TypeInv, ObjectTypeOK
<1>2. /\ sections' \in Seq(ObjectSection)
      /\ Len(sections') = n + (IF reloc THEN 2 ELSE 1)
      /\ \A i \in 1..n : sections'[i] = sections[i]
      /\ sections'[n + 1] = Section(s.name, s.type, s.sh_type)
      /\ reloc => sections'[n + 2] = RelSection(s.name)
  BY <1>0, WithSectionType DEF NamesInv, TypeInv, AddSection
<1>3. DOMAIN sections' = 1..Len(sections')
  BY <1>2, LenProperties
<1>4. /\ sections'[n + 1].name = s.name /\ sections'[n + 1].type # "REL"
      /\ reloc => /\ sections'[n + 2].name = RelName(s.name)
                  /\ sections'[n + 2].type = "REL"
  BY <1>2 DEF Section, RelSection
<1>5. \A i \in 1..n : sections[i].name # s.name /\ sections[i].name \in SectionNames
  BY <1>1 DEF AddSection, HasSection, ObjectSection
<1>6. /\ Len(shstrings') = Len(shstrings) + 1
      /\ \A i \in 1..Len(shstrings) : shstrings'[i] = shstrings[i]
      /\ shstrings'[Len(shstrings) + 1] = s.name
  <2>1. s.name \in AllStrings
    BY DEF AllStrings, SectionNames
  <2> QED BY <1>1, <2>1, AppendProperties DEF AddSection
<1>7. UniqueSectionNames /\ SectionNameTable /\ RelocationNext
  BY DEF NamesInv, NamesFacts
<1>8. RelocationNext'
  <2>1. \A i \in 1..n : sections'[i].type = "REL" =>
          /\ i > 1 /\ sections'[i - 1].type # "REL"
          /\ sections'[i].name = RelName(sections'[i - 1].name)
    <3> SUFFICES ASSUME NEW i \in 1..n, sections'[i].type = "REL"
                 PROVE  /\ i > 1 /\ sections'[i - 1].type # "REL"
                        /\ sections'[i].name = RelName(sections'[i - 1].name)
      OBVIOUS
    <3>1. sections'[i] = sections[i] /\ i \in DOMAIN sections
      BY <1>1, <1>2
    <3>2. /\ i > 1 /\ sections[i - 1].type # "REL"
          /\ sections[i].name = RelName(sections[i - 1].name)
      BY <1>7, <3>1 DEF RelocationNext, IsRel
    <3>3. i - 1 \in 1..n
      BY <3>2
    <3>4. sections'[i - 1] = sections[i - 1]
      BY <1>2, <3>3
    <3> QED BY <3>1, <3>2, <3>4
  <2>2. \A i \in DOMAIN sections' : i \in 1..n \/ i = n + 1 \/ (reloc /\ i = n + 2)
    BY <1>1, <1>2, <1>3
  <2>3. \A i \in DOMAIN sections' : sections'[i].type = "REL" =>
          /\ i > 1 /\ sections'[i - 1].type # "REL"
          /\ sections'[i].name = RelName(sections'[i - 1].name)
    BY <1>1, <1>4, <2>1, <2>2
  <2> QED BY <2>3 DEF RelocationNext, IsRel
<1>9. UniqueSectionNames'
  <2>1. \A i \in 1..n : sections[i].type = "REL" => sections[i].name # RelName(s.name)
    <3> SUFFICES ASSUME NEW i \in 1..n, sections[i].type = "REL"
                 PROVE  sections[i].name # RelName(s.name)
      OBVIOUS
    <3>1. i - 1 \in 1..n /\ sections[i].name = RelName(sections[i - 1].name)
      BY <1>1, <1>7 DEF RelocationNext, IsRel
    <3>2. s.name \in SectionNames
      BY DEF SectionNames
    <3> QED BY <1>5, <3>1, <3>2
  <2>2. \A i \in DOMAIN sections' : i \in 1..n \/ i = n + 1 \/ (reloc /\ i = n + 2)
    BY <1>1, <1>2, <1>3
  <2>3. \A i, j \in 1..n :
          (/\ sections'[i].name = sections'[j].name
           /\ (sections'[i].type = "REL") = (sections'[j].type = "REL")) => i = j
    BY <1>1, <1>2, <1>7 DEF UniqueSectionNames, IsRel
  <2>4. \A i \in 1..n :
          /\ sections'[i].name # sections'[n + 1].name
          /\ reloc /\ sections'[i].type = "REL"
               => sections'[i].name # sections'[n + 2].name
    BY <1>2, <1>4, <1>5, <2>1
  <2>5. \A i, j \in DOMAIN sections' :
          (/\ sections'[i].name = sections'[j].name
           /\ (sections'[i].type = "REL") = (sections'[j].type = "REL")) => i = j
    BY <1>1, <1>4, <2>2, <2>3, <2>4
  <2> QED BY <2>5 DEF UniqueSectionNames, IsRel
<1>10. SectionNameTable'
  <2>1. \A i \in 0..n : PlaceIn(sections', i) = PlaceIn(sections, i)
    <3> SUFFICES ASSUME NEW i \in 0..n PROVE PlaceIn(sections', i) = PlaceIn(sections, i)
      OBVIOUS
    <3>1. i \in Nat /\ \A j \in 1..i : sections'[j].type = sections[j].type
      BY <1>1, <1>2
    <3> QED BY <3>1, PlaceSame
  <2>2. PlaceIn(sections, n) \in Nat
    BY PlaceType
  <2>3. /\ PlaceIn(sections', n + 1) = PlaceIn(sections, n) + 1
        /\ reloc => PlaceIn(sections', n + 2) = PlaceIn(sections, n) + 1
    <3>1. PlaceIn(sections', n) = PlaceIn(sections, n)
      BY <2>1
    <3>2. PlaceIn(sections', n + 1) = PlaceIn(sections, n) + 1
      BY <1>4, <3>1, PlaceNext
    <3>3. n + 1 \in Nat /\ (n + 1) + 1 = n + 2
      OBVIOUS
    <3>4. PlaceIn(sections', (n + 1) + 1)
            = IF sections'[(n + 1) + 1].type = "REL"
                THEN PlaceIn(sections', n + 1) ELSE PlaceIn(sections', n + 1) + 1
      BY <3>3, PlaceNext
    <3> QED BY <1>4, <3>2, <3>3, <3>4
  <2>4. Len(shstrings) = 1 + PlaceIn(sections, n) /\ shstrings[1] = EmptyString
    BY <1>1, <1>7, PlaceIsPlaceIn DEF SectionNameTable
  <2>5. Len(shstrings') = 1 + PlaceIn(sections', Len(sections'))
    BY <1>2, <1>6, <2>2, <2>3, <2>4
  <2>6. shstrings'[1] = EmptyString
    BY <1>6, <2>2, <2>4
  <2>7. ASSUME NEW i \in 1..n, sections'[i].type # "REL"
        PROVE  shstrings'[1 + PlaceIn(sections', i)] = sections'[i].name
    <3>1. sections[i].type # "REL" /\ sections'[i] = sections[i] /\ i \in DOMAIN sections
      BY <1>1, <1>2, <2>7
    <3>2. shstrings[1 + PlaceIn(sections, i)] = sections[i].name
      BY <1>7, <3>1, PlaceIsPlaceIn DEF SectionNameTable, IsRel
    <3>3. /\ PlaceIn(sections, i) \in Nat
          /\ PlaceIn(sections, i) <= PlaceIn(sections, n)
          /\ PlaceIn(sections', i) = PlaceIn(sections, i)
      <4>1. i \in Nat /\ i \in 0..n
        OBVIOUS
      <4>2. PlaceIn(sections, i) \in Nat
        BY <4>1, PlaceType
      <4>3. PlaceIn(sections, i) <= PlaceIn(sections, n)
        BY PlaceWithin
      <4> QED BY <2>1, <4>1, <4>2, <4>3
    <3>4. 1 + PlaceIn(sections, i) \in 1..Len(shstrings)
      BY <2>2, <2>4, <3>3
    <3> QED BY <1>6, <3>1, <3>2, <3>3, <3>4
  <2>8. shstrings'[1 + PlaceIn(sections', n + 1)] = sections'[n + 1].name
    <3>1. 1 + PlaceIn(sections', n + 1) = Len(shstrings) + 1
      BY <2>2, <2>3, <2>4
    <3> QED BY <1>4, <1>6, <3>1
  <2>9. ASSUME NEW i \in DOMAIN sections', sections'[i].type # "REL"
        PROVE  shstrings'[1 + PlaceIn(sections', i)] = sections'[i].name
    <3>1. i \in 1..n \/ i = n + 1
      BY <1>2, <1>3, <1>4, <2>9
    <3> QED BY <2>7, <2>8, <2>9, <3>1
  <2> QED BY <2>5, <2>6, <2>9, PlaceIsPlaceIn, Zenon DEF SectionNameTable, EmptyString, IsRel
<1> QED BY <1>8, <1>9, <1>10 DEF NamesFacts

LEMMA NextNames ==
  ASSUME \A s \in NewSections : s.type # "REL",
         \A m, n \in SectionNames : RelName(m) = RelName(n) => m = n
  PROVE  NamesInv /\ [Next]_vars => NamesFacts'
<1> SUFFICES ASSUME NamesInv, [Next]_vars
             PROVE  NamesFacts'
  OBVIOUS
<1> USE DEF NamesInv
<1>1. /\ sections \in Seq(ObjectSection) /\ Len(sections) \in Nat
      /\ DOMAIN sections = 1..Len(sections) /\ shstrings \in Seq(AllStrings)
  BY LenProperties DEF TypeInv, ObjectTypeOK
<1>2. ASSUME UNCHANGED shstrings, DOMAIN sections' = DOMAIN sections,
             Len(sections') = Len(sections),
             \A i \in 1..Len(sections) : /\ sections'[i].name = sections[i].name
                                         /\ sections'[i].type = sections[i].type
      PROVE  NamesFacts'
  BY <1>2, NamesKept
<1>3. ASSUME NEW s \in NewSections, NEW reloc \in Relocatable, AddSection(s, reloc)
      PROVE  NamesFacts'
  <2>1. reloc \in BOOLEAN
    BY RelocatableAssumption
  <2>2. TypeInv'
    BY NextTypeInv DEF NamesInv
  <2> QED BY <1>3, <2>1, <2>2, NamesAdded
<1>4. ASSUME NEW str, StrSize(str) \in Nat, sections' = StrtabGrown(str),
             UNCHANGED shstrings
      PROVE  NamesFacts'
  <2>1. /\ sections' \in Seq(ObjectSection) /\ Len(sections') = Len(sections)
        /\ \A i \in 1..Len(sections) : /\ sections'[i].name = sections[i].name
                                        /\ sections'[i].type = sections[i].type
    BY <1>4, StrtabGrownType DEF TypeInv
  <2>2. DOMAIN sections' = DOMAIN sections
    BY <1>1, <2>1, LenProperties
  <2> QED BY <1>2, <1>4, <2>1, <2>2
<1>5. ASSUME NEW str \in Strings, AddString(str)
      PROVE  NamesFacts'
  BY <1>4, <1>5, StrSizeAssumption DEF AddString, AllStrings
<1>6. ASSUME NEW name \in SymNames, NEW value \in Values,
             NEW reloc \in SymRelocatable, AddSymbol(name, value, reloc)
      PROVE  NamesFacts'
  <2>1. StrSize(name) \in Nat
    BY StrSizeAssumption DEF AllStrings
  <2>2. CASE reloc /\ RelLookup = "ok"
    <3> DEFINE grown == StrtabGrown(name)
    <3>1. /\ grown \in Seq(ObjectSection) /\ Len(grown) = Len(sections)
          /\ \A i \in 1..Len(sections) : /\ grown[i].name = sections[i].name
                                         /\ grown[i].type = sections[i].type
          /\ \A i \in 1..Len(grown) : grown[i] \in ObjectSection
          /\ DOMAIN grown = 1..Len(grown)
      BY <2>1, StrtabGrownType, ElementOfSeq, LenProperties DEF TypeInv
    <3>2. sections' = [grown EXCEPT ![curr_rel_idx + 1].rels =
                                      Append(@, NewReloc(value))]
      BY <1>6, <2>2 DEF AddSymbol
    <3> HIDE DEF grown
    <3>3. DOMAIN sections' = DOMAIN sections /\ Len(sections') = Len(sections)
      BY <1>1, <3>1, <3>2
    <3>4. ASSUME NEW i \in 1..Len(sections)
          PROVE  /\ sections'[i].name = grown[i].name
                 /\ sections'[i].type = grown[i].type
      <4>1. grown[i] \in ObjectSection
        BY <3>1
      <4>2. \/ sections'[i] = grown[i]
            \/ sections'[i] = [grown[i] EXCEPT !.rels = Append(@, NewReloc(value))]
        BY <1>1, <3>1, <3>2
      <4> QED BY <4>1, <4>2 DEF ObjectSection
    <3>5. \A i \in 1..Len(sections) : /\ sections'[i].name = sections[i].name
                                      /\ sections'[i].type = sections[i].type
      BY <3>1, <3>4
    <3> QED BY <1>2, <1>6, <3>3, <3>5 DEF AddSymbol
  <2>3. CASE ~(reloc /\ RelLookup = "ok")
    BY <1>4, <1>6, <2>1, <2>3 DEF AddSymbol
  <2> QED BY <2>2, <2>3
<1>7. ASSUME NEW bytes \in Chunks, AddProgbits(bytes)
      PROVE  NamesFacts'
  <2>1. \A i \in 1..Len(sections) : sections[i] \in ObjectSection
    BY <1>1, ElementOfSeq
  <2>2. /\ DOMAIN sections' = DOMAIN sections /\ Len(sections') = Len(sections)
        /\ \A i \in 1..Len(sections) : /\ sections'[i].name = sections[i].name
                                       /\ sections'[i].type = sections[i].type
    BY <1>1, <1>7, <2>1, ProgbitsAt DEF ObjectSection
  <2> QED BY <1>2, <1>7, <2>2 DEF AddProgbits, tables
<1>8. CASE UNCHANGED <<sections, shstrings>>
  BY <1>1, <1>2, <1>8
<1> QED
  BY <1>3, <1>5, <1>6, <1>7, <1>8
     DEF Next, vars, tables, SetSection, SetMissingSection, Throw,
         AddDuplicateSection, AddDuplicateSymbol, AddProgbitsElsewhere

(* A section name belongs to one section, or to one section and one         *)
(* relocation section, and the section name table is the empty string and   *)
(* the names handed to add_section in their order, where relocation         *)
(* sections are only made by add_section's relocatable argument and "rel"   *)
(* tells names apart (elf.cpp:250, 266-286).                                *)
THEOREM SectionNamesCorrect ==
  ASSUME \A s \in NewSections : s.type # "REL",
         \A m, n \in SectionNames : RelName(m) = RelName(n) => m = n
  PROVE  Spec => [](UniqueSectionNames /\ SectionNameTable)
<1>1. NamesInv /\ [Next]_vars => NamesInv'
  BY NextTypeInv, NextNames DEF NamesInv
<1>2. NamesInv => UniqueSectionNames /\ SectionNameTable
  BY DEF NamesInv, NamesFacts
<1>3. Init => NamesInv
  BY InitTypeInv, InitNames DEF NamesInv
<1> QED BY <1>1, <1>2, <1>3, PTL DEF Spec

-----------------------------------------------------------------------------
(* Relocations *)

(* Relocations stay where they belong because the index they go through     *)
(* does (CurrentRelocation), and because what they refer to - the k-th      *)
(* recorded symbol, its section - is never moved.                           *)
RelocInv == BoundInv /\ CurrentRelocation /\ RelocationsFiled

LEMMA InitReloc == Init => CurrentRelocation /\ RelocationsFiled
<1> SUFFICES ASSUME Init PROVE CurrentRelocation /\ RelocationsFiled
  OBVIOUS
<1>1. Len(sections) = 8 /\ DOMAIN sections = 1..8 /\ curr_rel_idx = 0
  BY DEF Init, InitialSections
<1>2. \A i \in 1..8 : sections[i].rels = << >> /\ sections[i].type # "REL"
  <2>1. /\ sections[1].type = "STRTAB" /\ sections[2].type = "STRTAB"
        /\ sections[3].type = "PROGBITS" /\ sections[4].type = "PROGBITS"
        /\ sections[5].type = "PROGBITS" /\ sections[6].type = "PROGBITS"
        /\ sections[7].type = "PROGBITS" /\ sections[8].type = "SYMTAB"
    BY DEF Init, InitialSections, Section
  <2>2. /\ sections[1].rels = << >> /\ sections[2].rels = << >>
        /\ sections[3].rels = << >> /\ sections[4].rels = << >>
        /\ sections[5].rels = << >> /\ sections[6].rels = << >>
        /\ sections[7].rels = << >> /\ sections[8].rels = << >>
    BY DEF Init, InitialSections, Section
  <2> QED BY <2>1, <2>2
<1>3. CurrentRelocation
  BY <1>1, <1>2 DEF CurrentRelocation, Nth
<1>4. RelocationsFiled
  BY <1>1, <1>2 DEF RelocationsFiled
<1> QED BY <1>3, <1>4

(* What a step that keeps all indices does for relocations.                 *)
LEMMA RelocationsKept ==
  ASSUME RelocInv, TypeInv',
         Len(sections') = Len(sections),
         \A i \in 1..Len(sections) :
           /\ sections'[i].name = sections[i].name
           /\ sections'[i].type = sections[i].type
           /\ sections'[i].rels = sections[i].rels,
         Len(defined') >= Len(defined),
         \A k \in 1..Len(defined) : defined'[k] = defined[k]
  PROVE  /\ RelocationsFiled'
         /\ UNCHANGED <<curr_section, curr_rel_idx>> => CurrentRelocation'
<1>1. /\ Len(sections) \in Nat /\ DOMAIN sections = 1..Len(sections)
      /\ DOMAIN sections' = 1..Len(sections')
      /\ Len(defined) \in Nat /\ DOMAIN defined = 1..Len(defined)
      /\ Len(defined') \in Nat /\ DOMAIN defined' = 1..Len(defined')
      /\ curr_section \in 0..(Len(sections) - 1) /\ curr_rel_idx \in Nat
  BY LenProperties DEF RelocInv, BoundInv, TypeInv, ObjectTypeOK
<1>2. RelocationsFiled'
  <2> SUFFICES ASSUME NEW i \in 1..Len(sections), NEW r \in DOMAIN sections[i].rels
               PROVE  LET k == sections[i].rels[r].r_sym IN
                        /\ sections'[i].type = "REL"
                        /\ k \in DOMAIN defined'
                        /\ defined'[k].filed
                        /\ sections[i].rels[r].r_offset = defined'[k].value
                        /\ sections'[i].name
                             = RelName(Nth(sections', defined'[k].section).name)
    BY <1>1 DEF RelocationsFiled
  <2> DEFINE k == sections[i].rels[r].r_sym
  <2>1. /\ sections[i].type = "REL" /\ k \in 1..Len(defined) /\ defined[k].filed
        /\ sections[i].rels[r].r_offset = defined[k].value
        /\ sections[i].name = RelName(Nth(sections, defined[k].section).name)
    BY <1>1 DEF RelocInv, RelocationsFiled
  <2>2. defined[k].section \in 0..(Len(sections) - 1)
    <3>1. defined \in Seq(Definition)
      BY DEF RelocInv, BoundInv, TypeInv, ObjectTypeOK
    <3>2. defined[k] \in Definition
      BY <2>1, <3>1, ElementOfSeq
    <3> QED BY <1>1, <2>1, <3>2 DEF RelocInv, BoundInv, SymbolsBound, Definition
  <2>3. defined'[k] = defined[k] /\ k \in 1..Len(defined')
    BY <1>1, <2>1
  <2>4. Nth(sections', defined[k].section).name = Nth(sections, defined[k].section).name
    <3>1. \A j \in 0..(Len(sections) - 1) : Nth(sections', j).name = Nth(sections, j).name
      BY <1>1 DEF Nth
    <3> HIDE DEF k
    <3> QED BY <2>2, <3>1
  <2> HIDE DEF k
  <2>5. k \in DOMAIN defined'
    BY <1>1, <2>3
  <2> QED BY <2>1, <2>3, <2>4, <2>5 DEF k
<1>3. ASSUME UNCHANGED <<curr_section, curr_rel_idx>>
      PROVE  CurrentRelocation'
  <2>1. Nth(sections', curr_section).name = Nth(sections, curr_section).name
    BY <1>1 DEF Nth
  <2>2. curr_rel_idx < Len(sections) =>
          /\ Nth(sections', curr_rel_idx).name = Nth(sections, curr_rel_idx).name
          /\ Nth(sections', curr_rel_idx).type = Nth(sections, curr_rel_idx).type
    BY <1>1 DEF Nth
  <2>3. /\ Nth(sections', curr_section').name = Nth(sections', curr_section).name
        /\ Nth(sections', curr_rel_idx') = Nth(sections', curr_rel_idx)
    BY <1>3
  <2> QED BY <1>1, <1>3, <2>1, <2>2, <2>3 DEF RelocInv, CurrentRelocation
<1> QED BY <1>2, <1>3

LEMMA NextReloc ==
  ASSUME \A s \in NewSections : s.type # "REL"
  PROVE  RelocInv /\ [Next]_vars => CurrentRelocation' /\ RelocationsFiled'
<1> SUFFICES ASSUME RelocInv, [Next]_vars
             PROVE  CurrentRelocation' /\ RelocationsFiled'
  OBVIOUS
<1>1. TypeInv'
  BY NextTypeInv DEF RelocInv, BoundInv
<1>2. /\ sections \in Seq(ObjectSection) /\ Len(sections) \in Nat
      /\ DOMAIN sections = 1..Len(sections)
      /\ \A i \in 1..Len(sections) : sections[i] \in ObjectSection
      /\ defined \in Seq(Definition) /\ Len(defined) \in Nat
      /\ DOMAIN defined = 1..Len(defined)
      /\ curr_section \in 0..(Len(sections) - 1) /\ curr_rel_idx \in Nat
  BY LenProperties, ElementOfSeq DEF RelocInv, BoundInv, TypeInv, ObjectTypeOK
<1>3. CASE UNCHANGED <<sections, defined, curr_section, curr_rel_idx>>
  BY <1>1, <1>2, <1>3, RelocationsKept
<1>4. ASSUME NEW name \in Selected, SetSection(name)
      PROVE  CurrentRelocation' /\ RelocationsFiled'
  <2>1. UNCHANGED <<sections, defined>>
    BY <1>4 DEF SetSection
  <2>2. RelocationsFiled'
    BY <1>1, <1>2, <2>1, RelocationsKept
  <2>3. /\ FindSection(name) \in 0..(Len(sections) - 1)
        /\ Nth(sections, FindSection(name)).name = name
    BY <1>4, FindSectionFinds DEF SetSection, RelocInv, BoundInv, TypeInv
  <2>4. /\ FindSection(RelName(name)) \in 0..Len(sections)
        /\ FindSection(RelName(name)) < Len(sections) =>
             Nth(sections, FindSection(RelName(name))).name = RelName(name)
    BY <1>2, FindSectionFinds DEF RelocInv, BoundInv, TypeInv
  <2>5. /\ curr_section' = FindSection(name)
        /\ curr_rel_idx' = FindSection(RelName(name))
    BY <1>4 DEF SetSection
  <2>6. CurrentRelocation'
    <3> DEFINE c == FindSection(name)
               q == FindSection(RelName(name))
    <3> HIDE DEF c, q
    <3>1. /\ q \in Nat /\ c \in Nat /\ Len(sections) \in Nat
          /\ q <= Len(sections) /\ Nth(sections, c).name = name
          /\ q < Len(sections) => Nth(sections, q).name = RelName(name)
      BY <1>2, <2>3, <2>4 DEF c, q
    <3>2. curr_section' = c /\ curr_rel_idx' = q /\ sections' = sections
      BY <2>1, <2>5 DEF c, q
    <3>3. /\ sections'[curr_section' + 1] = sections[c + 1]
          /\ sections'[curr_rel_idx' + 1] = sections[q + 1]
      BY <3>2
    <3>4. curr_rel_idx' <= Len(sections')
      BY <3>1, <3>2
    <3>5. curr_rel_idx' < Len(sections')
            => sections'[curr_rel_idx' + 1].name
                 = RelName(sections'[curr_section' + 1].name)
      BY <3>1, <3>2, <3>3 DEF Nth
    <3> QED BY <3>4, <3>5 DEF CurrentRelocation, Nth
  <2> QED BY <2>2, <2>6
<1>5. ASSUME NEW s \in NewSections, NEW reloc \in Relocatable, AddSection(s, reloc)
      PROVE  CurrentRelocation' /\ RelocationsFiled'
  <2>1. reloc \in BOOLEAN /\ UNCHANGED <<defined, curr_section, curr_rel_idx>>
    BY <1>5, RelocatableAssumption DEF AddSection
  <2>2. /\ Len(sections') = Len(sections) + (IF reloc THEN 2 ELSE 1)
        /\ sections' \in Seq(ObjectSection)
        /\ \A i \in 1..Len(sections) : sections'[i] = sections[i]
        /\ sections'[Len(sections) + 1] = Section(s.name, s.type, s.sh_type)
        /\ reloc => sections'[Len(sections) + 2] = RelSection(s.name)
    BY <1>5, <2>1, WithSectionType DEF AddSection, RelocInv, BoundInv, TypeInv
  <2>3. DOMAIN sections' = 1..Len(sections')
    BY <2>2, LenProperties
  <2>4. /\ sections'[Len(sections) + 1].type # "REL"
        /\ sections'[Len(sections) + 1].rels = << >>
        /\ reloc => sections'[Len(sections) + 2].rels = << >>
    BY <2>2 DEF Section, RelSection
  <2>5. CurrentRelocation'
    <3>1. curr_rel_idx <= Len(sections)
      BY DEF RelocInv, CurrentRelocation
    <3>2. Nth(sections', curr_section) = Nth(sections, curr_section)
      BY <1>2, <2>2 DEF Nth
    <3>3. CASE curr_rel_idx = Len(sections)
      <4>1. Nth(sections', curr_rel_idx).type # "REL"
        BY <2>4, <3>3 DEF Nth
      <4>2. Nth(sections', curr_rel_idx') = Nth(sections', curr_rel_idx)
        BY <2>1
      <4> QED BY <1>2, <2>1, <2>2, <3>3, <4>1, <4>2 DEF CurrentRelocation
    <3>4. CASE curr_rel_idx < Len(sections)
      <4>1. Nth(sections', curr_rel_idx) = Nth(sections, curr_rel_idx)
        BY <1>2, <2>2, <3>4 DEF Nth
      <4>2. /\ Nth(sections', curr_section') = Nth(sections', curr_section)
            /\ Nth(sections', curr_rel_idx') = Nth(sections', curr_rel_idx)
        BY <2>1
      <4> QED BY <1>2, <2>1, <2>2, <3>2, <3>4, <4>1, <4>2
              DEF RelocInv, CurrentRelocation
    <3>5. curr_rel_idx = Len(sections) \/ curr_rel_idx < Len(sections)
      <4>1. curr_rel_idx \in Nat /\ Len(sections) \in Nat
        BY <1>2
      <4> QED BY <3>1, <4>1
    <3> QED BY <3>3, <3>4, <3>5
  <2>6. RelocationsFiled'
    <3> SUFFICES ASSUME NEW i \in 1..Len(sections'), NEW r \in DOMAIN sections'[i].rels
                 PROVE  LET k == sections'[i].rels[r].r_sym IN
                          /\ sections'[i].type = "REL"
                          /\ k \in DOMAIN defined
                          /\ defined[k].filed
                          /\ sections'[i].rels[r].r_offset = defined[k].value
                          /\ sections'[i].name
                               = RelName(Nth(sections', defined[k].section).name)
      BY <2>1, <2>3 DEF RelocationsFiled
    <3>1. i \in 1..Len(sections)
      <4>1. DOMAIN << >> = {}
        OBVIOUS
      <4> QED BY <1>2, <2>2, <2>4, <4>1
    <3>2. sections'[i] = sections[i]
      BY <2>2, <3>1
    <3> DEFINE k == sections[i].rels[r].r_sym
    <3>3. /\ sections[i].type = "REL" /\ k \in DOMAIN defined /\ defined[k].filed
          /\ sections[i].rels[r].r_offset = defined[k].value
          /\ sections[i].name = RelName(Nth(sections, defined[k].section).name)
      BY <1>2, <3>1, <3>2 DEF RelocInv, RelocationsFiled
    <3>4. defined[k].section \in 0..(Len(sections) - 1)
      <4>1. defined[k] \in Definition
        BY <1>2, <3>3, ElementOfSeq
      <4> QED BY <1>2, <3>3, <4>1, SMTT(30) DEF RelocInv, BoundInv, SymbolsBound, Definition
    <3>5. Nth(sections', defined[k].section) = Nth(sections, defined[k].section)
      <4>1. \A j \in 0..(Len(sections) - 1) : Nth(sections', j) = Nth(sections, j)
        BY <1>2, <2>2 DEF Nth
      <4> HIDE DEF k
      <4> QED BY <3>4, <4>1
    <3> QED BY <3>2, <3>3, <3>5
  <2> QED BY <2>5, <2>6
<1>6. ASSUME NEW str \in Strings, AddString(str)
      PROVE  CurrentRelocation' /\ RelocationsFiled'
  <2>1. StrSize(str) \in Nat
    BY StrSizeAssumption DEF AllStrings
  <2>2. /\ Len(sections') = Len(sections)
        /\ \A i \in 1..Len(sections) :
             /\ sections'[i].name = sections[i].name
             /\ sections'[i].type = sections[i].type
             /\ sections'[i].rels = sections[i].rels
    BY <1>6, <2>1, StrtabGrownType DEF AddString, RelocInv, BoundInv, TypeInv
  <2>3. UNCHANGED <<defined, curr_section, curr_rel_idx>>
    BY <1>6 DEF AddString
  <2> QED BY <1>1, <1>2, <2>2, <2>3, RelocationsKept
<1>7. ASSUME NEW bytes \in Chunks, AddProgbits(bytes)
      PROVE  CurrentRelocation' /\ RelocationsFiled'
  <2>1. /\ Len(sections') = Len(sections)
        /\ \A i \in 1..Len(sections) :
             /\ sections'[i].name = sections[i].name
             /\ sections'[i].type = sections[i].type
             /\ sections'[i].rels = sections[i].rels
    <3> DEFINE q == curr_section + 1
    <3>1. /\ Len(sections') = Len(sections)
          /\ \A i \in 1..Len(sections) : i # q => sections'[i] = sections[i]
          /\ sections'[q] = [sections[q] EXCEPT !.data = @ \o bytes]
      <4>1. sections' = [sections EXCEPT ![q].data = @ \o bytes]
        BY <1>7 DEF AddProgbits
      <4>2. q \in 1..Len(sections)
        BY <1>2
      <4> HIDE DEF q
      <4> QED BY <1>2, <4>1, <4>2
    <3>2. /\ sections'[q].name = sections[q].name
          /\ sections'[q].type = sections[q].type
          /\ sections'[q].rels = sections[q].rels
      BY <1>2, <3>1 DEF ObjectSection
    <3> HIDE DEF q
    <3> QED BY <3>1, <3>2
  <2>2. UNCHANGED <<defined, curr_section, curr_rel_idx>>
    BY <1>7 DEF AddProgbits
  <2> QED BY <1>1, <1>2, <2>1, <2>2, RelocationsKept
<1>8. ASSUME NEW name \in SymNames, NEW value \in Values,
             NEW reloc \in SymRelocatable, AddSymbol(name, value, reloc)
      PROVE  CurrentRelocation' /\ RelocationsFiled'
  <2> DEFINE grown == StrtabGrown(name)
             filed == reloc /\ RelLookup = "ok"
             d == [name |-> name, section |-> curr_section, value |-> value,
                   reloc |-> reloc, filed |-> filed]
  <2>1. StrSize(name) \in Nat /\ reloc \in BOOLEAN /\ value \in Nat
    BY StrSizeAssumption, RelocatableAssumption, ValuesAssumption DEF AllStrings
  <2>2. /\ grown \in Seq(ObjectSection) /\ Len(grown) = Len(sections)
        /\ \A i \in 1..Len(sections) :
             /\ grown[i].name = sections[i].name
             /\ grown[i].type = sections[i].type
             /\ grown[i].rels = sections[i].rels
    BY <2>1, StrtabGrownType DEF RelocInv, BoundInv, TypeInv
  <2>3. /\ defined' = Append(defined, d)
        /\ UNCHANGED <<curr_section, curr_rel_idx>>
    BY <1>8 DEF AddSymbol
  <2>4. d.section = curr_section /\ d.value = value /\ d.filed = filed
    OBVIOUS
  <2>5. d \in Definition
    <3>1. filed \in BOOLEAN
      OBVIOUS
    <3> QED BY <1>2, <2>1, <3>1 DEF Definition
  <2> HIDE DEF d
  <2>6. /\ Len(defined') = Len(defined) + 1
        /\ \A k \in 1..Len(defined) : defined'[k] = defined[k]
        /\ defined'[Len(defined) + 1] = d
        /\ DOMAIN defined' = 1..(Len(defined) + 1)
    BY <1>2, <2>3, <2>5, AppendProperties
  <2>7. CASE ~filed
    <3>1. sections' = grown
      BY <1>8, <2>7 DEF AddSymbol
    <3> HIDE DEF grown
    <3> QED BY <1>1, <1>2, <2>2, <2>3, <2>6, <3>1, RelocationsKept, SMTT(30)
  <2>8. CASE filed
    <3> DEFINE q == curr_rel_idx + 1
               new == NewReloc(value)
    <3>1. /\ q \in 1..Len(sections) /\ sections[q].type = "REL"
          /\ curr_rel_idx < Len(sections)
      BY <1>2, <2>8 DEF RelLookup, Nth
    <3>2. sections' = [grown EXCEPT ![q].rels = Append(@, new)]
      BY <1>8, <2>8 DEF AddSymbol
    <3>3. new.r_sym = Len(defined) + 1 /\ new.r_offset = value /\ new \in Reloc
      <4>1. Len(symbols) = Len(defined) + 1
        BY DEF RelocInv, BoundInv, SymbolTableConsistent
      <4> QED BY <1>2, <2>1, <4>1 DEF NewReloc, Reloc
    <3>4. sections[q].name = RelName(Nth(sections, curr_section).name)
      BY <3>1 DEF RelocInv, CurrentRelocation, Nth
    <3> HIDE DEF grown, new
    <3>5. \A i \in 1..Len(grown) : grown[i] \in ObjectSection
      BY <2>2, ElementOfSeq
    <3>6. /\ Len(sections') = Len(sections) /\ DOMAIN sections' = 1..Len(sections)
          /\ \A i \in 1..Len(sections) :
               /\ sections'[i].name = sections[i].name
               /\ sections'[i].type = sections[i].type
          /\ \A i \in 1..Len(sections) : i # q => sections'[i].rels = sections[i].rels
          /\ sections'[q].rels = Append(sections[q].rels, new)
      <4>1. /\ Len(sections') = Len(sections) /\ DOMAIN sections' = 1..Len(sections)
            /\ \A i \in 1..Len(sections) : i # q => sections'[i] = grown[i]
            /\ sections'[q] = [grown[q] EXCEPT !.rels = Append(@, new)]
        <5> DEFINE e == [grown[q] EXCEPT !.rels = Append(@, new)]
        <5>1. grown[q] \in ObjectSection
          BY <2>2, <3>1, <3>5
        <5>2. Append(grown[q].rels, new) \in Seq(Reloc)
          BY <3>3, <5>1, AppendProperties DEF ObjectSection
        <5>3. e \in ObjectSection
          BY <5>1, <5>2 DEF ObjectSection
        <5>4. sections' = [grown EXCEPT ![q] = e]
          BY <3>2
        <5> HIDE DEF e, q
        <5>5. /\ sections' \in Seq(ObjectSection) /\ Len(sections') = Len(grown)
              /\ \A i \in 1..Len(grown) :
                   sections'[i] = IF i = q THEN e ELSE grown[i]
          BY <2>2, <3>1, <5>3, <5>4, ExceptSeq
        <5>6. DOMAIN sections' = 1..Len(sections')
          BY <5>5, LenProperties
        <5> QED BY <2>2, <3>1, <5>5, <5>6 DEF e
      <4>2. /\ sections'[q].name = grown[q].name /\ sections'[q].type = grown[q].type
            /\ sections'[q].rels = Append(grown[q].rels, new)
        BY <2>2, <3>1, <3>5, <4>1, ZenonT(30) DEF ObjectSection
      <4> QED BY <2>2, <3>1, <4>1, <4>2
    <3>7. CurrentRelocation'
      <4>1. Nth(sections', curr_section).name = Nth(sections, curr_section).name
        BY <1>2, <3>6 DEF Nth
      <4>2. /\ Nth(sections', curr_rel_idx).name = Nth(sections, curr_rel_idx).name
            /\ Nth(sections', curr_rel_idx).type = Nth(sections, curr_rel_idx).type
        BY <1>2, <3>1, <3>6 DEF Nth
      <4>3. /\ Nth(sections', curr_section') = Nth(sections', curr_section)
            /\ Nth(sections', curr_rel_idx') = Nth(sections', curr_rel_idx)
        BY <2>3
      <4> QED BY <1>2, <2>3, <3>1, <3>6, <4>1, <4>2, <4>3
              DEF RelocInv, CurrentRelocation
    <3>8. RelocationsFiled'
      <4> SUFFICES ASSUME NEW i \in 1..Len(sections), NEW r \in DOMAIN sections'[i].rels
                   PROVE  LET k == sections'[i].rels[r].r_sym IN
                            /\ sections'[i].type = "REL"
                            /\ k \in DOMAIN defined'
                            /\ defined'[k].filed
                            /\ sections'[i].rels[r].r_offset = defined'[k].value
                            /\ sections'[i].name
                                 = RelName(Nth(sections', defined'[k].section).name)
        BY <3>6 DEF RelocationsFiled
      <4>1. sections[q].rels \in Seq(Reloc)
        BY <1>2, <3>1 DEF ObjectSection
      <4>2. /\ Len(sections[q].rels) \in Nat
            /\ DOMAIN sections[q].rels = 1..Len(sections[q].rels)
            /\ DOMAIN Append(sections[q].rels, new) = 1..(Len(sections[q].rels) + 1)
            /\ \A j \in 1..Len(sections[q].rels) :
                 Append(sections[q].rels, new)[j] = sections[q].rels[j]
            /\ Append(sections[q].rels, new)[Len(sections[q].rels) + 1] = new
        BY <3>3, <4>1, LenProperties, AppendProperties
      <4>3. CASE i = q /\ r = Len(sections[q].rels) + 1
        <5>1. sections'[i].rels[r] = new
          BY <3>6, <4>2, <4>3
        <5>2. defined'[new.r_sym] = d /\ new.r_sym \in DOMAIN defined'
          BY <1>2, <2>6, <3>3
        <5>3. Nth(sections', curr_section).name = Nth(sections, curr_section).name
          BY <1>2, <3>6 DEF Nth
        <5> QED BY <2>4, <2>8, <3>1, <3>3, <3>4, <3>6, <4>3, <5>1, <5>2, <5>3
      <4>4. CASE ~(i = q /\ r = Len(sections[q].rels) + 1)
        <5>1. r \in DOMAIN sections[i].rels /\ sections'[i].rels[r] = sections[i].rels[r]
          <6>1. CASE i # q
            BY <3>6, <6>1
          <6>2. CASE i = q
            <7>1. r \in 1..(Len(sections[q].rels) + 1)
              BY <3>6, <4>2, <6>2
            <7>2. r \in 1..Len(sections[q].rels)
              BY <4>2, <4>4, <6>2, <7>1
            <7> QED BY <3>6, <4>2, <6>2, <7>2
          <6> QED BY <6>1, <6>2
        <5> DEFINE k == sections[i].rels[r].r_sym
        <5>2. /\ sections[i].type = "REL" /\ k \in DOMAIN defined /\ defined[k].filed
              /\ sections[i].rels[r].r_offset = defined[k].value
              /\ sections[i].name = RelName(Nth(sections, defined[k].section).name)
          BY <1>2, <5>1 DEF RelocInv, RelocationsFiled
        <5>3. defined[k].section \in 0..(Len(sections) - 1)
          <6>1. defined[k] \in Definition
            BY <1>2, <5>2, ElementOfSeq
          <6> QED BY <1>2, <5>2, <6>1 DEF RelocInv, BoundInv, SymbolsBound, Definition
        <5>4. Nth(sections', defined[k].section).name
                = Nth(sections, defined[k].section).name
          <6>1. \A j \in 0..(Len(sections) - 1) :
                  Nth(sections', j).name = Nth(sections, j).name
            BY <1>2, <3>6 DEF Nth
          <6> HIDE DEF k
          <6> QED BY <5>3, <6>1
        <5>5. k \in DOMAIN defined' /\ defined'[k] = defined[k]
          BY <1>2, <2>6, <5>2
        <5> HIDE DEF k
        <5> QED BY <3>6, <5>1, <5>2, <5>4, <5>5 DEF k
      <4> QED BY <4>3, <4>4
    <3> QED BY <3>7, <3>8
  <2> QED BY <2>7, <2>8
<1> QED
  BY <1>3, <1>4, <1>5, <1>6, <1>7, <1>8
     DEF Next, vars, tables, SetMissingSection, Throw, AddDuplicateSection,
         AddDuplicateSymbol, AddProgbitsElsewhere

(* Relocations are filed under the section of their symbol, and nowhere     *)
(* else, although set_section and add_section may leave the index they go   *)
(* through stale - provided that relocation sections are only made by       *)
(* add_section's relocatable argument (elf.cpp:270-286, 344-351, 384-393).  *)
THEOREM RelocationsCorrect ==
  ASSUME \A s \in NewSections : s.type # "REL"
  PROVE  Spec => [](CurrentRelocation /\ RelocationsFiled)
<1>1. RelocInv /\ [Next]_vars => RelocInv'
  BY NextTypeInv, NextSymbolTable, NextSymbolsBound, NextReloc DEF BoundInv, RelocInv
<1>2. Init => RelocInv
  <2>1. Init => SymbolsBound
    BY DEF Init, SymbolsBound
  <2> QED BY <2>1, InitTypeInv, InitSymbolTable, InitReloc DEF BoundInv, RelocInv
<1>3. RelocInv => CurrentRelocation /\ RelocationsFiled
  BY DEF RelocInv
<1> QED BY <1>1, <1>2, <1>3, PTL DEF Spec

(* The section name table by itself: the empty string and the names handed  *)
(* to add_section, in their order, and no other (elf.cpp:266-286).          *)
THEOREM SectionNameTableCorrect ==
  ASSUME \A s \in NewSections : s.type # "REL",
         \A m, n \in SectionNames : RelName(m) = RelName(n) => m = n
  PROVE  Spec => []SectionNameTable
<1>1. Spec => [](UniqueSectionNames /\ SectionNameTable)
  BY SectionNamesCorrect
<1> QED BY <1>1, PTL

(* set_section and add_section never leave curr_rel_idx_ at a relocation    *)
(* section of another section (elf.cpp:344-351, 268-286).                   *)
THEOREM CurrentRelocationCorrect ==
  ASSUME \A s \in NewSections : s.type # "REL"
  PROVE  Spec => []CurrentRelocation
<1>1. Spec => [](CurrentRelocation /\ RelocationsFiled)
  BY RelocationsCorrect
<1> QED BY <1>1, PTL

-----------------------------------------------------------------------------
(* What the operations do to the vector of sections *)

(* add_section moves nothing: what was there keeps its index and contents.  *)
LEMMA SectionAdded ==
  ASSUME TypeInv, NEW s \in NewSections, NEW reloc \in Relocatable,
         AddSection(s, reloc)
  PROVE  /\ Len(sections') = Len(sections) + (IF reloc THEN 2 ELSE 1)
         /\ \A i \in 1..Len(sections) : sections'[i] = sections[i]
         /\ sections'[Len(sections) + 1] = Section(s.name, s.type, s.sh_type)
         /\ reloc => sections'[Len(sections) + 2] = RelSection(s.name)
BY WithSectionType, RelocatableAssumption DEF AddSection, TypeInv

LEMMA StringAdded ==
  ASSUME TypeInv, NEW str \in Strings, AddString(str)
  PROVE  /\ Len(sections') = Len(sections)
         /\ \A i \in 1..Len(sections) :
              /\ sections'[i].name = sections[i].name
              /\ sections'[i].type = sections[i].type
              /\ sections'[i].sh_type = sections[i].sh_type
              /\ sections'[i].data = sections[i].data
              /\ sections'[i].rels = sections[i].rels
BY StrtabGrownType, StrSizeAssumption DEF AddString, AllStrings, TypeInv

LEMMA ProgbitsAdded ==
  ASSUME TypeInv, NEW bytes \in Chunks, AddProgbits(bytes)
  PROVE  /\ Len(sections') = Len(sections)
         /\ curr_section + 1 \in 1..Len(sections)
         /\ \A i \in 1..Len(sections) :
              /\ sections'[i].name = sections[i].name
              /\ sections'[i].type = sections[i].type
              /\ sections'[i].sh_type = sections[i].sh_type
              /\ sections'[i].rels = sections[i].rels
              /\ sections'[i].data = IF i = curr_section + 1
                                       THEN sections[i].data \o bytes
                                       ELSE sections[i].data
<1> DEFINE q == curr_section + 1
           e == [sections[q] EXCEPT !.data = @ \o bytes]
<1>1. /\ sections \in Seq(ObjectSection) /\ q \in 1..Len(sections)
      /\ DOMAIN sections = 1..Len(sections)
      /\ \A i \in 1..Len(sections) : sections[i] \in ObjectSection
  BY LenProperties, ElementOfSeq DEF TypeInv, ObjectTypeOK
<1>2. sections' = [sections EXCEPT ![q] = e]
  BY DEF AddProgbits
<1>3. /\ e.name = sections[q].name /\ e.type = sections[q].type
      /\ e.sh_type = sections[q].sh_type
      /\ e.rels = sections[q].rels /\ e.data = sections[q].data \o bytes
  <2>1. sections[q] \in ObjectSection
    BY <1>1
  <2> QED BY <2>1, DataExcept
<1> HIDE DEF e, q
<1>4. Len(sections') = Len(sections)
      /\ \A i \in 1..Len(sections) : sections'[i] = IF i = q THEN e ELSE sections[i]
  BY <1>1, <1>2
<1> QED BY <1>1, <1>3, <1>4 DEF q

(* add_symbol appends one relocation, to the current relocation section,    *)
(* when it is asked to and finds one (elf.cpp:384-393).                     *)
LEMMA SymbolAdded ==
  ASSUME TypeInv, NEW name \in SymNames, NEW value \in Values,
         NEW reloc \in SymRelocatable, AddSymbol(name, value, reloc)
  PROVE  /\ Len(sections') = Len(sections)
         /\ NewReloc(value) \in Reloc
         /\ reloc /\ RelLookup = "ok" => curr_rel_idx + 1 \in 1..Len(sections)
         /\ \A i \in 1..Len(sections) :
              /\ sections'[i].name = sections[i].name
              /\ sections'[i].type = sections[i].type
              /\ sections'[i].sh_type = sections[i].sh_type
              /\ sections'[i].data = sections[i].data
              /\ sections'[i].rels =
                   IF reloc /\ RelLookup = "ok" /\ i = curr_rel_idx + 1
                     THEN Append(sections[i].rels, NewReloc(value))
                     ELSE sections[i].rels
<1> DEFINE grown == StrtabGrown(name)
           filed == reloc /\ RelLookup = "ok"
           q == curr_rel_idx + 1
           new == NewReloc(value)
<1>1. /\ Len(sections) \in Nat /\ curr_rel_idx \in Nat /\ StrSize(name) \in Nat
      /\ value \in Nat
  BY StrSizeAssumption, ValuesAssumption DEF AllStrings, TypeInv, ObjectTypeOK
<1>2. /\ grown \in Seq(ObjectSection) /\ Len(grown) = Len(sections)
      /\ \A i \in 1..Len(sections) :
           /\ grown[i] \in ObjectSection
           /\ grown[i].name = sections[i].name
           /\ grown[i].type = sections[i].type
           /\ grown[i].sh_type = sections[i].sh_type
           /\ grown[i].data = sections[i].data
           /\ grown[i].rels = sections[i].rels
  BY <1>1, StrtabGrownType, ElementOfSeq DEF TypeInv
<1>3. new \in Reloc
  BY <1>1, LenProperties DEF NewReloc, Reloc, TypeInv, ObjectTypeOK
<1>4. CASE ~filed
  <2>1. sections' = grown
    BY <1>4 DEF AddSymbol
  <2> HIDE DEF grown
  <2> QED BY <1>2, <1>3, <1>4, <2>1
<1>5. CASE filed
  <2> DEFINE e == [grown[q] EXCEPT !.rels = Append(@, new)]
  <2>1. q \in 1..Len(sections)
    BY <1>1, <1>5 DEF RelLookup
  <2>2. sections' = [grown EXCEPT ![q] = e]
    BY <1>5 DEF AddSymbol
  <2> HIDE DEF grown, q, new
  <2>3. /\ e.name = grown[q].name /\ e.type = grown[q].type
        /\ e.sh_type = grown[q].sh_type
        /\ e.data = grown[q].data /\ e.rels = Append(grown[q].rels, new)
    <3>1. grown[q] \in ObjectSection
      BY <1>2, <2>1
    <3> QED BY <3>1, RelsExcept
  <2> HIDE DEF e
  <2>4. Len(sections') = Len(grown)
        /\ \A i \in 1..Len(grown) : sections'[i] = IF i = q THEN e ELSE grown[i]
    BY <1>2, <2>1, <2>2
  <2>5. \A i \in 1..Len(sections) :
          /\ sections'[i].name = sections[i].name
          /\ sections'[i].type = sections[i].type
          /\ sections'[i].sh_type = sections[i].sh_type
          /\ sections'[i].data = sections[i].data
          /\ sections'[i].rels = IF i = q THEN Append(sections[i].rels, new)
                                          ELSE sections[i].rels
    <3>1. ASSUME NEW i \in 1..Len(sections), i = q
          PROVE  sections'[i] = e
      BY <1>2, <2>4, <3>1
    <3>2. ASSUME NEW i \in 1..Len(sections), i # q
          PROVE  sections'[i] = grown[i]
      BY <1>2, <2>4, <3>2
    <3> QED BY <1>2, <2>3, <3>1, <3>2, Zenon
  <2>6. Len(sections') = Len(sections)
    BY <1>2, <2>4
  <2>7. \A i \in 1..Len(sections) :
          sections'[i].rels =
            IF reloc /\ RelLookup = "ok" /\ i = q THEN Append(sections[i].rels, new)
                                                ELSE sections[i].rels
    BY <1>5, <2>5, Zenon
  <2> QED BY <1>3, <2>1, <2>5, <2>6, <2>7, ZenonT(30) DEF new, q
<1> QED BY <1>4, <1>5

-----------------------------------------------------------------------------
(* Relocations are not lost *)

(* Relocations are only ever added, at the end of their section.            *)
LEMMA RelocationsStay ==
  ASSUME TypeInv, [Next]_vars
  PROVE  \A i \in DOMAIN sections : \A r \in DOMAIN sections[i].rels :
           /\ i \in DOMAIN sections' /\ r \in DOMAIN sections'[i].rels
           /\ sections'[i].rels[r] = sections[i].rels[r]
<1>1. TypeInv'
  BY NextTypeInv
<1>2. /\ Len(sections) \in Nat /\ DOMAIN sections = 1..Len(sections)
      /\ Len(sections') \in Nat /\ DOMAIN sections' = 1..Len(sections')
      /\ \A i \in 1..Len(sections) : sections[i].rels \in Seq(Reloc)
  <2>1. \A i \in 1..Len(sections) : sections[i] \in ObjectSection
    BY ElementOfSeq DEF TypeInv, ObjectTypeOK
  <2>2. sections \in Seq(ObjectSection) /\ sections' \in Seq(ObjectSection)
    BY <1>1 DEF TypeInv, ObjectTypeOK
  <2>3. \A i \in 1..Len(sections) : sections[i].rels \in Seq(Reloc)
    BY <2>1 DEF ObjectSection
  <2> QED BY <2>2, <2>3, LenProperties
<1>3. ASSUME Len(sections') >= Len(sections),
             \A i \in 1..Len(sections) : sections'[i].rels = sections[i].rels
      PROVE  \A i \in DOMAIN sections : \A r \in DOMAIN sections[i].rels :
               /\ i \in DOMAIN sections' /\ r \in DOMAIN sections'[i].rels
               /\ sections'[i].rels[r] = sections[i].rels[r]
  BY <1>2, <1>3
<1>4. ASSUME NEW s \in NewSections, NEW reloc \in Relocatable, AddSection(s, reloc)
      PROVE  /\ Len(sections') >= Len(sections)
             /\ \A i \in 1..Len(sections) : sections'[i].rels = sections[i].rels
  <2>1. /\ Len(sections') = Len(sections) + (IF reloc THEN 2 ELSE 1)
        /\ \A i \in 1..Len(sections) : sections'[i] = sections[i]
    BY <1>4, SectionAdded
  <2> QED BY <1>2, <2>1
<1>5. ASSUME NEW str \in Strings, AddString(str)
      PROVE  /\ Len(sections') >= Len(sections)
             /\ \A i \in 1..Len(sections) : sections'[i].rels = sections[i].rels
  <2>1. /\ Len(sections') = Len(sections)
        /\ \A i \in 1..Len(sections) : sections'[i].rels = sections[i].rels
    BY <1>5, StringAdded
  <2> QED BY <1>2, <2>1
<1>6. ASSUME NEW bytes \in Chunks, AddProgbits(bytes)
      PROVE  /\ Len(sections') >= Len(sections)
             /\ \A i \in 1..Len(sections) : sections'[i].rels = sections[i].rels
  <2>1. /\ Len(sections') = Len(sections)
        /\ \A i \in 1..Len(sections) : sections'[i].rels = sections[i].rels
    BY <1>6, ProgbitsAdded
  <2> QED BY <1>2, <2>1
<1>7. ASSUME NEW name \in SymNames, NEW value \in Values,
             NEW reloc \in SymRelocatable, AddSymbol(name, value, reloc),
             NEW i \in 1..Len(sections), NEW r \in DOMAIN sections[i].rels
      PROVE  /\ i \in DOMAIN sections' /\ r \in DOMAIN sections'[i].rels
             /\ sections'[i].rels[r] = sections[i].rels[r]
  <2>1. /\ Len(sections') = Len(sections) /\ NewReloc(value) \in Reloc
        /\ \/ sections'[i].rels = sections[i].rels
           \/ sections'[i].rels = Append(sections[i].rels, NewReloc(value))
    BY <1>7, SymbolAdded
  <2>2. sections[i].rels \in Seq(Reloc)
    BY <1>2
  <2>3. CASE sections'[i].rels = sections[i].rels
    BY <1>2, <2>1, <2>3
  <2>4. CASE sections'[i].rels = Append(sections[i].rels, NewReloc(value))
    <3> DEFINE old == sections[i].rels
               new == NewReloc(value)
    <3>1. old \in Seq(Reloc) /\ new \in Reloc /\ r \in DOMAIN old
      BY <2>1, <2>2
    <3> HIDE DEF old, new
    <3>2. r \in DOMAIN Append(old, new) /\ Append(old, new)[r] = old[r]
      BY <3>1, LenProperties, AppendProperties
    <3> QED BY <1>2, <2>1, <2>4, <3>2 DEF old, new
  <2> QED BY <2>1, <2>3, <2>4
<1>8. CASE UNCHANGED sections
  BY <1>2, <1>3, <1>8
<1> QED
  BY <1>2, <1>3, <1>4, <1>5, <1>6, <1>7, <1>8
     DEF Next, vars, tables, SetSection, SetMissingSection, Throw,
         AddDuplicateSection, AddDuplicateSymbol, AddProgbitsElsewhere

(* Every recorded symbol was recorded before, or is the one just added: its *)
(* relocation then names it by the index it has in the symbol table.        *)
LEMMA NextFiledSymbols ==
  TypeInv /\ SymbolTableConsistent /\ FiledSymbolsKept /\ [Next]_vars
    => FiledSymbolsKept'
<1> SUFFICES ASSUME TypeInv, SymbolTableConsistent, FiledSymbolsKept, [Next]_vars
             PROVE  FiledSymbolsKept'
  OBVIOUS
<1>1. /\ defined \in Seq(Definition) /\ DOMAIN defined = 1..Len(defined)
      /\ Len(defined) \in Nat /\ Len(sections) \in Nat
      /\ DOMAIN sections = 1..Len(sections)
      /\ curr_section \in Nat
  BY LenProperties DEF TypeInv, ObjectTypeOK
<1>2. ASSUME NEW k \in DOMAIN defined, defined[k].filed
      PROVE  \E i \in DOMAIN sections' : \E r \in DOMAIN sections'[i].rels :
               sections'[i].rels[r].r_sym = k
  <2>1. PICK i \in DOMAIN sections : \E r \in DOMAIN sections[i].rels :
               sections[i].rels[r].r_sym = k
    BY <1>2 DEF FiledSymbolsKept
  <2> QED BY <2>1, RelocationsStay
<1>3. CASE UNCHANGED defined
  BY <1>2, <1>3 DEF FiledSymbolsKept
<1>4. ASSUME NEW name \in SymNames, NEW value \in Values,
             NEW reloc \in SymRelocatable, AddSymbol(name, value, reloc)
      PROVE  FiledSymbolsKept'
  <2> DEFINE filed == reloc /\ RelLookup = "ok"
             d == [name |-> name, section |-> curr_section, value |-> value,
                   reloc |-> reloc, filed |-> filed]
             new == NewReloc(value)
  <2>1. d \in Definition /\ defined' = Append(defined, d) /\ d.filed = filed
    <3>1. filed \in BOOLEAN /\ reloc \in BOOLEAN /\ value \in Nat
      BY RelocatableAssumption, ValuesAssumption
    <3> QED BY <1>1, <1>4, <3>1 DEF AddSymbol, Definition
  <2> HIDE DEF d
  <2>2. /\ DOMAIN defined' = 1..(Len(defined) + 1)
        /\ \A k \in 1..Len(defined) : defined'[k] = defined[k]
        /\ defined'[Len(defined) + 1] = d
    BY <1>1, <2>1, AppendProperties
  <2>3. ASSUME filed
        PROVE  \E i \in DOMAIN sections' : \E r \in DOMAIN sections'[i].rels :
                 sections'[i].rels[r].r_sym = Len(defined) + 1
    <3> DEFINE q == curr_rel_idx + 1
    <3>1. /\ q \in 1..Len(sections) /\ Len(sections') = Len(sections)
          /\ sections'[q].rels = Append(sections[q].rels, new) /\ new \in Reloc
      BY <1>4, <2>3, SymbolAdded
    <3>2. new.r_sym = Len(defined) + 1
      BY DEF NewReloc, SymbolTableConsistent
    <3>3. sections[q].rels \in Seq(Reloc)
      <4>1. sections[q] \in ObjectSection
        BY <3>1, ElementOfSeq DEF TypeInv, ObjectTypeOK
      <4> QED BY <4>1 DEF ObjectSection
    <3>4. DOMAIN sections' = 1..Len(sections')
      BY NextTypeInv, LenProperties DEF TypeInv, ObjectTypeOK
    <3> HIDE DEF q, new
    <3>5. /\ Len(sections[q].rels) + 1 \in DOMAIN sections'[q].rels
          /\ sections'[q].rels[Len(sections[q].rels) + 1] = new
      BY <3>1, <3>3, LenProperties, AppendProperties
    <3> QED BY <3>1, <3>2, <3>4, <3>5
  <2> HIDE DEF filed
  <2>4. \A k \in DOMAIN defined' : defined'[k].filed =>
          \E i \in DOMAIN sections' : \E r \in DOMAIN sections'[i].rels :
            sections'[i].rels[r].r_sym = k
    <3> SUFFICES ASSUME NEW k \in 1..(Len(defined) + 1), defined'[k].filed
                 PROVE  \E i \in DOMAIN sections' : \E r \in DOMAIN sections'[i].rels :
                          sections'[i].rels[r].r_sym = k
      BY <2>2
    <3>1. CASE k \in 1..Len(defined)
      BY <1>1, <1>2, <2>2, <3>1
    <3>2. CASE k = Len(defined) + 1
      BY <2>1, <2>2, <2>3, <3>2
    <3> QED BY <1>1, <3>1, <3>2
  <2> QED BY <2>4 DEF FiledSymbolsKept
<1> QED
  BY <1>3, <1>4
     DEF Next, vars, tables, SetSection, SetMissingSection, Throw, AddSection,
         AddDuplicateSection, AddString, AddDuplicateSymbol, AddProgbits,
         AddProgbitsElsewhere

(* A relocatable symbol that was filed keeps its relocation, whatever is    *)
(* called afterwards (add_symbol, elf.cpp:391).                             *)
THEOREM FiledSymbolsCorrect == Spec => []FiledSymbolsKept
<1>1. Init => FiledSymbolsKept
  BY DEF Init, FiledSymbolsKept
<1> QED BY <1>1, InitTypeInv, NextTypeInv, InitSymbolTable, NextSymbolTable,
           NextFiledSymbols, PTL DEF Spec


-----------------------------------------------------------------------------
(***************************************************************************)
(* The vectors, indices and string tables of class ELF implement the       *)
(* object file of module ObjectFile, for every value of the constants      *)
(* under which st_shndx has a value for every section.                     *)
(*                                                                         *)
(* What the refinement mapping makes of a state is stated with operators   *)
(* of the vectors, so that a lemma about them speaks of the state before   *)
(* a step and of the state after it.                                       *)
(***************************************************************************)

(* Sections by name *)

NamesIn(secs) == {secs[i].name : i \in DOMAIN secs}

IsFirst(secs, i) ==
    /\ i \in 0..(Len(secs) - 1)
    /\ \A j \in 0..(i - 1) : Nth(secs, j).name # Nth(secs, i).name

FindIn(secs, n) ==
    CHOOSE i \in 0..(Len(secs) - 1) : /\ Nth(secs, i).name = n
                                      /\ \A j \in 0..(i - 1) : Nth(secs, j).name # n

ContentIn(secs) == [n \in NamesIn(secs) |-> Nth(secs, FindIn(secs, n)).data]

LEMMA FoundIn ==
  ASSUME NEW secs, Len(secs) \in Nat, DOMAIN secs = 1..Len(secs),
         NEW n \in NamesIn(secs)
  PROVE  IsFirst(secs, FindIn(secs, n)) /\ Nth(secs, FindIn(secs, n)).name = n
<1> DEFINE Hits == {i \in 0..(Len(secs) - 1) : Nth(secs, i).name = n}
           First(i) == /\ Nth(secs, i).name = n
                       /\ \A j \in 0..(i - 1) : Nth(secs, j).name # n
<1>1. PICK k \in 1..Len(secs) : secs[k].name = n
  BY DEF NamesIn
<1>2. k - 1 \in Hits
  BY <1>1 DEF Nth
<1>3. PICK i \in Hits : \A y \in Hits : i <= y
  <2>1. Hits \subseteq Nat /\ Hits # {}
    BY <1>2
  <2> QED BY <2>1, LeastNat
<1>4. i \in 0..(Len(secs) - 1) /\ First(i)
  BY <1>3
<1>5. FindIn(secs, n) = CHOOSE j \in 0..(Len(secs) - 1) : First(j)
  BY DEF FindIn
<1>6. FindIn(secs, n) \in 0..(Len(secs) - 1) /\ First(FindIn(secs, n))
  <2> HIDE DEF First
  <2> QED BY <1>4, <1>5
<1> QED BY <1>6 DEF IsFirst

(* There is only one first section of a name.                               *)
LEMMA FirstFound ==
  ASSUME NEW secs, Len(secs) \in Nat, DOMAIN secs = 1..Len(secs),
         NEW i, IsFirst(secs, i)
  PROVE  /\ Nth(secs, i).name \in NamesIn(secs)
         /\ FindIn(secs, Nth(secs, i).name) = i
<1> DEFINE n == Nth(secs, i).name
           k == FindIn(secs, n)
<1>1. i \in 0..(Len(secs) - 1)
  BY DEF IsFirst
<1>2. n \in NamesIn(secs)
  <2>1. i + 1 \in DOMAIN secs
    BY <1>1
  <2> QED BY <2>1 DEF NamesIn, Nth
<1>3. IsFirst(secs, k) /\ Nth(secs, k).name = n
  <2> HIDE DEF n
  <2> QED BY <1>2, FoundIn
<1> HIDE DEF k
<1>4. ~(k < i) /\ ~(i < k) /\ k \in 0..(Len(secs) - 1)
  BY <1>1, <1>3 DEF IsFirst
<1> QED BY <1>1, <1>2, <1>4 DEF k

(* Sections that are added at the end, and changes that leave names alone,  *)
(* do not move a name from its section.                                     *)
LEMMA FoundStays ==
  ASSUME NEW secs, Len(secs) \in Nat, DOMAIN secs = 1..Len(secs),
         NEW more, Len(more) \in Nat, DOMAIN more = 1..Len(more),
         Len(more) >= Len(secs),
         \A i \in 1..Len(secs) : more[i].name = secs[i].name
  PROVE  /\ \A i : IsFirst(secs, i) => IsFirst(more, i)
         /\ NamesIn(secs) \subseteq NamesIn(more)
         /\ \A n \in NamesIn(secs) : FindIn(more, n) = FindIn(secs, n)
<1>1. \A j \in 0..(Len(secs) - 1) : Nth(more, j).name = Nth(secs, j).name
  BY DEF Nth
<1>2. ASSUME NEW i, IsFirst(secs, i)
      PROVE  IsFirst(more, i)
  <2>1. i \in 0..(Len(secs) - 1)
    BY <1>2 DEF IsFirst
  <2>2. \A j \in 0..(i - 1) : Nth(secs, j).name # Nth(secs, i).name
    BY <1>2 DEF IsFirst
  <2>3. \A j \in 0..(i - 1) : Nth(more, j).name # Nth(more, i).name
    BY <1>1, <2>1, <2>2
  <2> QED BY <2>1, <2>3 DEF IsFirst
<1>3. NamesIn(secs) \subseteq NamesIn(more)
  <2> SUFFICES ASSUME NEW i \in 1..Len(secs) PROVE secs[i].name \in NamesIn(more)
    BY DEF NamesIn
  <2>1. i \in DOMAIN more /\ more[i].name = secs[i].name
    OBVIOUS
  <2> QED BY <2>1 DEF NamesIn
<1>4. ASSUME NEW n \in NamesIn(secs)
      PROVE  FindIn(more, n) = FindIn(secs, n)
  <2> DEFINE k == FindIn(secs, n)
  <2>1. IsFirst(secs, k) /\ Nth(secs, k).name = n
    BY FoundIn
  <2> HIDE DEF k
  <2>2. IsFirst(more, k) /\ Nth(more, k).name = n
    BY <1>1, <1>2, <2>1 DEF IsFirst
  <2> QED BY <2>2, FirstFound DEF k
<1> QED BY <1>2, <1>3, <1>4

-----------------------------------------------------------------------------
(* The contents of sections *)

WithBytes(content, n, bytes) == [content EXCEPT ![n] = @ \o bytes]
WithEmpty(content, new) ==
    [n \in DOMAIN content \cup new |-> IF n \in new THEN << >> ELSE content[n]]

LEMMA ContentKept ==
  ASSUME NEW secs, Len(secs) \in Nat, DOMAIN secs = 1..Len(secs),
         NEW more, Len(more) = Len(secs), DOMAIN more = 1..Len(more),
         \A i \in 1..Len(secs) : /\ more[i].name = secs[i].name
                                 /\ more[i].data = secs[i].data
  PROVE  ContentIn(more) = ContentIn(secs)
<1>1. NamesIn(more) = NamesIn(secs)
  BY DEF NamesIn
<1>2. \A n \in NamesIn(secs) : FindIn(more, n) = FindIn(secs, n)
  BY FoundStays
<1>3. ASSUME NEW n \in NamesIn(secs)
      PROVE  Nth(more, FindIn(more, n)).data = Nth(secs, FindIn(secs, n)).data
  <2>1. FindIn(secs, n) \in 0..(Len(secs) - 1)
    BY FoundIn DEF IsFirst
  <2> QED BY <1>2, <2>1 DEF Nth
<1> QED BY <1>1, <1>3 DEF ContentIn

(* Bytes put at the end of the first section of a name are at the end of    *)
(* what the name stands for, and nowhere else.                              *)
Extends(more, secs, c, bytes) ==
    /\ Len(secs) \in Nat /\ DOMAIN secs = 1..Len(secs)
    /\ Len(more) = Len(secs) /\ DOMAIN more = 1..Len(more)
    /\ \A i \in 1..Len(secs) :
         /\ more[i].name = secs[i].name
         /\ more[i].data = IF i = c + 1 THEN secs[i].data \o bytes ELSE secs[i].data

LEMMA ContentExtended ==
  ASSUME NEW secs, NEW more, NEW c, NEW bytes,
         IsFirst(secs, c), Extends(more, secs, c, bytes)
  PROVE  ContentIn(more) = WithBytes(ContentIn(secs), Nth(secs, c).name, bytes)
<1> DEFINE m == Nth(secs, c).name
           old == ContentIn(secs)
<1>0. /\ Len(secs) \in Nat /\ DOMAIN secs = 1..Len(secs)
      /\ Len(more) = Len(secs) /\ DOMAIN more = 1..Len(more)
      /\ \A i \in 1..Len(secs) :
           /\ more[i].name = secs[i].name
           /\ more[i].data = IF i = c + 1 THEN secs[i].data \o bytes
                                          ELSE secs[i].data
  BY DEF Extends
<1>1. NamesIn(more) = NamesIn(secs) /\ DOMAIN old = NamesIn(secs)
  BY <1>0 DEF NamesIn, ContentIn
<1>2. \A n \in NamesIn(secs) : FindIn(more, n) = FindIn(secs, n)
  BY <1>0, FoundStays
<1>3. m \in NamesIn(secs) /\ FindIn(secs, m) = c /\ c \in 0..(Len(secs) - 1)
  BY <1>0, FirstFound DEF IsFirst
<1> HIDE DEF m
<1>4. ASSUME NEW n \in NamesIn(secs)
      PROVE  Nth(more, FindIn(more, n)).data
               = IF n = m THEN old[m] \o bytes ELSE old[n]
  <2>1. FindIn(secs, n) \in 0..(Len(secs) - 1) /\ Nth(secs, FindIn(secs, n)).name = n
    BY <1>0, FoundIn DEF IsFirst
  <2>2. old[n] = Nth(secs, FindIn(secs, n)).data /\ old[m] = Nth(secs, c).data
    BY <1>3 DEF ContentIn
  <2>3. CASE n = m
    <3>1. FindIn(more, n) = c /\ c + 1 \in 1..Len(secs)
      BY <1>2, <1>3, <2>3
    <3>2. more[c + 1].data = secs[c + 1].data \o bytes
      BY <1>0, <3>1
    <3> QED BY <2>2, <2>3, <3>1, <3>2 DEF Nth
  <2>4. CASE n # m
    <3>1. FindIn(secs, n) # c
      BY <2>1, <2>4 DEF m
    <3>2. FindIn(secs, n) + 1 \in 1..Len(secs) /\ FindIn(secs, n) + 1 # c + 1
      BY <1>3, <2>1, <3>1
    <3>3. more[FindIn(secs, n) + 1].data = secs[FindIn(secs, n) + 1].data
      BY <1>0, <3>2
    <3> QED BY <1>2, <2>2, <2>4, <3>3 DEF Nth
  <2> QED BY <2>3, <2>4
<1>5. ContentIn(more) = [n \in NamesIn(secs) |-> IF n = m THEN old[m] \o bytes ELSE old[n]]
  BY <1>1, <1>4 DEF ContentIn
<1>6. [old EXCEPT ![m] = @ \o bytes]
        = [n \in NamesIn(secs) |-> IF n = m THEN old[m] \o bytes ELSE old[n]]
  BY <1>1, <1>3
<1> QED BY <1>5, <1>6 DEF m, WithBytes

(* Empty sections that are added are empty under the names that are new.    *)
LEMMA ContentCreated ==
  ASSUME NEW secs, Len(secs) \in Nat, DOMAIN secs = 1..Len(secs),
         NEW more, Len(more) \in Nat, DOMAIN more = 1..Len(more),
         Len(more) >= Len(secs),
         \A i \in 1..Len(secs) : more[i] = secs[i],
         \A i \in (Len(secs) + 1)..Len(more) : more[i].data = << >>,
         NEW new, new = NamesIn(more) \ NamesIn(secs)
  PROVE  ContentIn(more) = WithEmpty(ContentIn(secs), new)
<1>1. /\ NamesIn(secs) \subseteq NamesIn(more)
      /\ \A n \in NamesIn(secs) : FindIn(more, n) = FindIn(secs, n)
  BY FoundStays
<1>2. DOMAIN ContentIn(secs) = NamesIn(secs) /\ DOMAIN ContentIn(more) = NamesIn(more)
  BY DEF ContentIn
<1>3. NamesIn(more) = DOMAIN ContentIn(secs) \cup new
  BY <1>1, <1>2
<1>4. ASSUME NEW n \in NamesIn(secs)
      PROVE  ContentIn(more)[n] = ContentIn(secs)[n]
  <2>1. FindIn(secs, n) \in 0..(Len(secs) - 1)
    BY FoundIn DEF IsFirst
  <2>2. Nth(more, FindIn(more, n)) = Nth(secs, FindIn(secs, n))
    BY <1>1, <2>1 DEF Nth
  <2> QED BY <1>1, <2>2 DEF ContentIn
<1>5. ASSUME NEW n \in new
      PROVE  ContentIn(more)[n] = << >>
  <2> DEFINE k == FindIn(more, n)
  <2>1. k \in 0..(Len(more) - 1) /\ Nth(more, k).name = n
    BY FoundIn DEF IsFirst
  <2> HIDE DEF k
  <2>2. ~(k + 1 \in 1..Len(secs))
    <3> SUFFICES ASSUME k + 1 \in 1..Len(secs) PROVE FALSE
      OBVIOUS
    <3>1. more[k + 1] = secs[k + 1] /\ k + 1 \in DOMAIN secs
      OBVIOUS
    <3> QED BY <2>1, <3>1 DEF NamesIn, Nth
  <2>3. k + 1 \in (Len(secs) + 1)..Len(more)
    BY <2>1, <2>2
  <2> QED BY <2>3 DEF ContentIn, Nth, k
<1>6. \A n \in NamesIn(more) :
        ContentIn(more)[n] = IF n \in new THEN << >> ELSE ContentIn(secs)[n]
  BY <1>2, <1>3, <1>4, <1>5
<1>7. ContentIn(more) = [n \in NamesIn(more) |-> ContentIn(more)[n]]
  BY DEF ContentIn
<1> QED BY <1>3, <1>6, <1>7 DEF WithEmpty

-----------------------------------------------------------------------------
(* The symbols *)

(* What the mapping makes of the symbol tables is what was defined.         *)
Bound(k) == [section |-> Nth(sections, defined[k].section).name,
             value |-> defined[k].value]
SymbolInv == BoundInv /\ Len(sections) <= ShndxMod

SymbolsAsDefined ==
    /\ DOMAIN SymbolContent = symbol_names
    /\ SymbolContent = [n \in symbol_names |-> SymbolContent[n]]
    /\ \A k \in DOMAIN defined : /\ defined[k].name \in symbol_names
                                 /\ SymbolContent[defined[k].name] = Bound(k)
    /\ \A n \in symbol_names : \E k \in DOMAIN defined : defined[k].name = n

LEMMA SymbolContentDefined == SymbolInv => SymbolsAsDefined
<1> SUFFICES ASSUME SymbolInv PROVE SymbolsAsDefined
  OBVIOUS
<1>1. /\ DOMAIN defined = 1..Len(defined) /\ Len(defined) \in Nat
      /\ Len(sections) \in Nat
      /\ Len(symbols) = Len(defined) + 1
      /\ symbol_names = {defined[k].name : k \in DOMAIN defined}
  BY LenProperties DEF SymbolInv, BoundInv, TypeInv, ObjectTypeOK, SymbolTableConsistent
<1>2. ASSUME NEW k \in 1..Len(defined)
      PROVE  SymbolContent[defined[k].name] = Bound(k)
  <2> DEFINE n == defined[k].name
             Named(j) == strings[symbols[j + 1].st_name + 1] = n
             j == CHOOSE i \in 1..(Len(symbols) - 1) : Named(i)
  <2>1. \A i \in 1..Len(defined) : Named(i) <=> i = k
    BY <1>1 DEF SymbolInv, BoundInv, SymbolTableConsistent
  <2>2. j = k
    <3> HIDE DEF Named
    <3>1. Named(k) /\ 1..(Len(symbols) - 1) = 1..Len(defined)
      BY <1>1, <2>1
    <3>2. j \in 1..Len(defined) /\ Named(j)
      BY <3>1
    <3> QED BY <2>1, <3>2
  <2>3. n \in symbol_names
    BY <1>1
  <2>4. SymbolContent[n] = SymbolEntry(j)
    BY <2>3 DEF SymbolContent
  <2>5. symbols[k + 1].st_value = defined[k].value
    BY <1>1 DEF SymbolInv, BoundInv, SymbolTableConsistent
  <2>6. symbols[k + 1].st_shndx = defined[k].section
    <3>1. defined[k] \in Definition
      BY ElementOfSeq DEF SymbolInv, BoundInv, TypeInv, ObjectTypeOK
    <3>2. defined[k].section < ShndxMod
      BY <1>1, <3>1, BoundsAssumption DEF SymbolInv, BoundInv, SymbolsBound, Definition
    <3> QED BY <1>1, <3>2 DEF SymbolInv, BoundInv, SymbolsBound
  <2> HIDE DEF j, n
  <2>7. SymbolContent[n] = Bound(k)
    BY <2>2, <2>4, <2>5, <2>6 DEF SymbolEntry, Bound
  <2> QED BY <2>7 DEF n
<1>3. DOMAIN SymbolContent = symbol_names
      /\ SymbolContent = [n \in symbol_names |-> SymbolContent[n]]
  BY DEF SymbolContent
<1> QED BY <1>1, <1>2, <1>3 DEF SymbolsAsDefined

LEMMA SymbolContentDefinedNext == SymbolInv' => SymbolsAsDefined'
BY SymbolContentDefined, PTL

(* A step that defines nothing and renames no section leaves what the       *)
(* symbols stand for alone.                                                 *)
LEMMA SymbolsUnchanged ==
  ASSUME SymbolInv, SymbolInv', UNCHANGED <<symbol_names, defined>>,
         Len(sections') >= Len(sections),
         \A i \in 1..Len(sections) : sections'[i].name = sections[i].name
  PROVE  SymbolContent' = SymbolContent
<1>1. /\ SymbolsAsDefined /\ SymbolsAsDefined'
      /\ Len(sections) \in Nat /\ DOMAIN defined = 1..Len(defined)
  BY SymbolContentDefined, SymbolContentDefinedNext, LenProperties
     DEF SymbolInv, BoundInv, TypeInv, ObjectTypeOK
<1>2. ASSUME NEW k \in DOMAIN defined
      PROVE  Bound(k)' = Bound(k)
  <2>1. defined[k] \in Definition
    BY <1>1, ElementOfSeq DEF SymbolInv, BoundInv, TypeInv, ObjectTypeOK
  <2>2. defined[k].section \in 0..(Len(sections) - 1)
    BY <1>1, <2>1 DEF Definition, SymbolInv, BoundInv, SymbolsBound
  <2>3. sections'[defined[k].section + 1].name = sections[defined[k].section + 1].name
    BY <1>1, <2>2
  <2> QED BY <2>3 DEF Bound, Nth
<1>3. ASSUME NEW n \in symbol_names
      PROVE  SymbolContent'[n] = SymbolContent[n]
  <2>1. PICK k \in DOMAIN defined : defined[k].name = n
    BY <1>1 DEF SymbolsAsDefined
  <2>2. SymbolContent[n] = Bound(k)
    BY <1>1, <2>1 DEF SymbolsAsDefined
  <2>3. SymbolContent'[n] = Bound(k)'
    BY <1>1, <2>1 DEF SymbolsAsDefined
  <2> QED BY <1>2, <2>2, <2>3
<1>4. /\ SymbolContent = [n \in symbol_names |-> SymbolContent[n]]
      /\ SymbolContent' = [n \in symbol_names' |-> SymbolContent'[n]]
  BY <1>1 DEF SymbolsAsDefined
<1> QED BY <1>3, <1>4

(* The symbol that is added is bound to the current section, the others     *)
(* stay as they were.                                                       *)
LEMMA SymbolDefined ==
  ASSUME SymbolInv, SymbolInv', NEW d \in Definition,
         defined' = Append(defined, d), d.section = curr_section,
         d.name \notin symbol_names, symbol_names' = symbol_names \cup {d.name},
         Len(sections') = Len(sections),
         \A i \in 1..Len(sections) : sections'[i].name = sections[i].name
  PROVE  SymbolContent' =
           [s \in DOMAIN SymbolContent \cup {d.name} |->
              IF s = d.name
                THEN [section |-> Nth(sections, curr_section).name, value |-> d.value]
                ELSE SymbolContent[s]]
<1>1. /\ SymbolsAsDefined /\ SymbolsAsDefined'
      /\ Len(sections) \in Nat /\ DOMAIN defined = 1..Len(defined)
      /\ curr_section \in 0..(Len(sections) - 1)
      /\ defined \in Seq(Definition) /\ Len(defined) \in Nat
  BY SymbolContentDefined, SymbolContentDefinedNext, LenProperties
     DEF SymbolInv, BoundInv, TypeInv, ObjectTypeOK
<1>2. /\ DOMAIN defined' = 1..(Len(defined) + 1)
      /\ \A k \in 1..Len(defined) : defined'[k] = defined[k]
      /\ defined'[Len(defined) + 1] = d
  BY <1>1, AppendProperties
<1>3. \A i \in 0..(Len(sections) - 1) : Nth(sections', i).name = Nth(sections, i).name
  BY <1>1 DEF Nth
<1>4. ASSUME NEW k \in DOMAIN defined
      PROVE  Bound(k)' = Bound(k)
  <2>1. defined[k] \in Definition
    BY <1>1, ElementOfSeq
  <2>2. defined[k].section \in 0..(Len(sections) - 1)
    BY <1>1, <2>1 DEF Definition, SymbolInv, BoundInv, SymbolsBound
  <2>3. defined'[k] = defined[k]
    BY <1>1, <1>2
  <2> QED BY <1>3, <2>2, <2>3 DEF Bound
<1>5. ASSUME NEW n \in symbol_names
      PROVE  SymbolContent'[n] = SymbolContent[n]
  <2>1. PICK k \in DOMAIN defined : defined[k].name = n
    BY <1>1 DEF SymbolsAsDefined
  <2>2. SymbolContent[n] = Bound(k)
    BY <1>1, <2>1 DEF SymbolsAsDefined
  <2>3. k \in DOMAIN defined' /\ defined'[k].name = n
    BY <1>1, <1>2, <2>1
  <2>4. SymbolContent'[n] = Bound(k)'
    BY <1>1, <2>3 DEF SymbolsAsDefined
  <2> QED BY <1>4, <2>2, <2>4
<1>6. SymbolContent'[d.name]
        = [section |-> Nth(sections, curr_section).name, value |-> d.value]
  <2>0. PICK k \in Nat : k = Len(defined) + 1
    BY <1>1
  <2>1. k \in DOMAIN defined' /\ defined'[k] = d
    BY <1>1, <1>2, <2>0
  <2>2. SymbolContent'[d.name] = Bound(k)'
    BY <1>1, <2>1 DEF SymbolsAsDefined
  <2>3. Bound(k)' = [section |-> Nth(sections', d.section).name, value |-> d.value]
    BY <2>1 DEF Bound
  <2> QED BY <1>1, <1>3, <2>2, <2>3
<1>7. /\ DOMAIN SymbolContent = symbol_names
      /\ SymbolContent' = [n \in symbol_names' |-> SymbolContent'[n]]
  BY <1>1 DEF SymbolsAsDefined
<1> QED BY <1>5, <1>6, <1>7

-----------------------------------------------------------------------------
(* The refinement *)

(* The current section is the first of its name, as set_section looks for   *)
(* it, so bytes added to it are bytes of its name; and st_shndx can name    *)
(* every section there is.                                                  *)
ObjectInv == SymbolInv /\ IsFirst(sections, curr_section)

LEMMA SectionContentIs == TypeInv => SectionContent = ContentIn(sections)
<1> SUFFICES ASSUME TypeInv PROVE SectionContent = ContentIn(sections)
  OBVIOUS
<1>1. ASSUME NEW n \in NamesIn(sections)
      PROVE  FindSection(n) = FindIn(sections, n)
  <2>1. HasSection(n)
    BY DEF HasSection, NamesIn
  <2> QED BY <2>1 DEF FindSection, FindIn
<1> QED BY <1>1 DEF SectionContent, ContentIn, NamesIn

LEMMA SectionContentIsNext == TypeInv' => SectionContent' = ContentIn(sections')
<1> DEFINE P == SectionContent = ContentIn(sections)
<1>1. TypeInv => P
  BY SectionContentIs
<1>2. P' <=> SectionContent' = ContentIn(sections')
  BY DEF ContentIn, NamesIn, FindIn, Nth
<1> HIDE DEF P
<1>3. TypeInv' => P'
  BY <1>1, PTL
<1> QED BY <1>2, <1>3

(* No section is ever renamed or changes its kind, and none disappears.     *)
LEMMA NamesStay ==
  ASSUME TypeInv, [Next]_vars
  PROVE  /\ Len(sections) \in Nat /\ DOMAIN sections = 1..Len(sections)
         /\ Len(sections') \in Nat /\ DOMAIN sections' = 1..Len(sections')
         /\ Len(sections') >= Len(sections)
         /\ \A i \in 1..Len(sections) : /\ sections'[i].name = sections[i].name
                                        /\ sections'[i].sh_type = sections[i].sh_type
<1> DEFINE Kept == /\ Len(sections') >= Len(sections)
                   /\ \A i \in 1..Len(sections) :
                        /\ sections'[i].name = sections[i].name
                        /\ sections'[i].sh_type = sections[i].sh_type
<1>1. /\ Len(sections) \in Nat /\ DOMAIN sections = 1..Len(sections)
      /\ Len(sections') \in Nat /\ DOMAIN sections' = 1..Len(sections')
  BY NextTypeInv, LenProperties DEF TypeInv, ObjectTypeOK
<1>2. ASSUME NEW s \in NewSections, NEW reloc \in Relocatable, AddSection(s, reloc)
      PROVE  Kept
  <2>1. /\ Len(sections') = Len(sections) + (IF reloc THEN 2 ELSE 1)
        /\ \A i \in 1..Len(sections) : sections'[i] = sections[i]
    BY <1>2, SectionAdded
  <2> QED BY <1>1, <2>1
<1>3. ASSUME NEW str \in Strings, AddString(str)
      PROVE  Kept
  <2>1. /\ Len(sections') = Len(sections)
        /\ \A i \in 1..Len(sections) : /\ sections'[i].name = sections[i].name
                                       /\ sections'[i].sh_type = sections[i].sh_type
    BY <1>3, StringAdded
  <2> QED BY <1>1, <2>1
<1>4. ASSUME NEW bytes \in Chunks, AddProgbits(bytes)
      PROVE  Kept
  <2>1. /\ Len(sections') = Len(sections)
        /\ \A i \in 1..Len(sections) : /\ sections'[i].name = sections[i].name
                                       /\ sections'[i].sh_type = sections[i].sh_type
    BY <1>4, ProgbitsAdded
  <2> QED BY <1>1, <2>1
<1>5. ASSUME NEW name \in SymNames, NEW value \in Values,
             NEW reloc \in SymRelocatable, AddSymbol(name, value, reloc)
      PROVE  Kept
  <2>1. /\ Len(sections') = Len(sections)
        /\ \A i \in 1..Len(sections) : /\ sections'[i].name = sections[i].name
                                       /\ sections'[i].sh_type = sections[i].sh_type
    BY <1>5, SymbolAdded
  <2> QED BY <1>1, <2>1
<1>6. ASSUME UNCHANGED sections
      PROVE  Kept
  BY <1>1, <1>6
<1> HIDE DEF Kept
<1>7. Kept
  BY <1>2, <1>3, <1>4, <1>5, <1>6
     DEF Next, vars, tables, SetSection, SetMissingSection, Throw,
         AddDuplicateSection, AddDuplicateSymbol, AddProgbitsElsewhere
<1> QED BY <1>1, <1>7 DEF Kept

LEMMA InitObjectInv ==
  ASSUME 8 <= ShndxMod
  PROVE  Init => ObjectInv
<1> SUFFICES ASSUME Init PROVE ObjectInv
  OBVIOUS
<1>1. Len(sections) = 8
  BY DEF Init, InitialSections
<1>2. TypeInv /\ SymbolTableConsistent
  BY InitTypeInv, InitSymbolTable
<1>3. SymbolsBound
  BY DEF Init, SymbolsBound
<1>4. IsFirst(sections, curr_section)
  <2>1. curr_section = 0
    BY DEF Init
  <2> QED BY <1>1, <2>1 DEF IsFirst
<1> QED BY <1>1, <1>2, <1>3, <1>4 DEF ObjectInv, SymbolInv, BoundInv

LEMMA NextObjectInv ==
  ASSUME MaxSections <= ShndxMod
  PROVE  ObjectInv /\ [Next]_vars => ObjectInv'
<1> SUFFICES ASSUME ObjectInv, [Next]_vars PROVE ObjectInv'
  OBVIOUS
<1>1. BoundInv'
  BY NextTypeInv, NextSymbolTable, NextSymbolsBound DEF ObjectInv, SymbolInv, BoundInv
<1>2. /\ Len(sections) \in Nat /\ DOMAIN sections = 1..Len(sections)
      /\ Len(sections') \in Nat /\ DOMAIN sections' = 1..Len(sections')
      /\ Len(sections') >= Len(sections)
      /\ \A i \in 1..Len(sections) : sections'[i].name = sections[i].name
  BY NamesStay DEF ObjectInv, SymbolInv, BoundInv
<1>3. \A i : IsFirst(sections, i) => IsFirst(sections', i)
  BY <1>2, FoundStays
<1>4. ASSUME NEW name \in Selected, SetSection(name)
      PROVE  IsFirst(sections', curr_section') /\ Len(sections') = Len(sections)
  <2>1. /\ FindSection(name) \in 0..(Len(sections) - 1)
        /\ Nth(sections, FindSection(name)).name = name
        /\ \A j \in 0..(FindSection(name) - 1) : Nth(sections, j).name # name
    BY <1>4, FindSectionFinds DEF SetSection, ObjectInv, SymbolInv, BoundInv, TypeInv
  <2>2. IsFirst(sections, FindSection(name))
    BY <2>1 DEF IsFirst
  <2> QED BY <1>4, <2>2 DEF SetSection
<1>5. ASSUME NEW s \in NewSections, NEW reloc \in Relocatable, AddSection(s, reloc)
      PROVE  Len(sections') <= ShndxMod /\ UNCHANGED curr_section
  <2>1. Len(sections') <= MaxSections /\ UNCHANGED curr_section
    BY <1>5 DEF AddSection
  <2> QED BY <1>2, <2>1, BoundsAssumption
<1>6. ASSUME NEW str \in Strings, AddString(str)
      PROVE  Len(sections') = Len(sections) /\ UNCHANGED curr_section
  <2>1. UNCHANGED curr_section
    BY <1>6 DEF AddString
  <2> QED BY <1>6, <2>1, StringAdded DEF ObjectInv, SymbolInv, BoundInv
<1>7. ASSUME NEW bytes \in Chunks, AddProgbits(bytes)
      PROVE  Len(sections') = Len(sections) /\ UNCHANGED curr_section
  <2>1. UNCHANGED curr_section
    BY <1>7 DEF AddProgbits
  <2> QED BY <1>7, <2>1, ProgbitsAdded DEF ObjectInv, SymbolInv, BoundInv
<1>8. ASSUME NEW name \in SymNames, NEW value \in Values,
             NEW reloc \in SymRelocatable, AddSymbol(name, value, reloc)
      PROVE  Len(sections') = Len(sections) /\ UNCHANGED curr_section
  <2>1. UNCHANGED curr_section
    BY <1>8 DEF AddSymbol
  <2> QED BY <1>8, <2>1, SymbolAdded DEF ObjectInv, SymbolInv, BoundInv
<1>9. \/ Len(sections') = Len(sections) /\ UNCHANGED curr_section
      \/ Len(sections') <= ShndxMod /\ UNCHANGED curr_section
      \/ Len(sections') = Len(sections) /\ IsFirst(sections', curr_section')
  BY <1>4, <1>5, <1>6, <1>7, <1>8
     DEF Next, vars, tables, SetMissingSection, Throw,
         AddDuplicateSection, AddDuplicateSymbol, AddProgbitsElsewhere
<1>10. IsFirst(sections, curr_section) /\ Len(sections) <= ShndxMod
  BY DEF ObjectInv, SymbolInv
<1>11. Len(sections') <= ShndxMod
  BY <1>9, <1>10
<1>12. IsFirst(sections', curr_section')
  <2>1. CASE UNCHANGED curr_section
    <3>1. IsFirst(sections', curr_section)
      BY <1>3, <1>10
    <3> QED BY <2>1, <3>1
  <2> QED BY <1>9, <2>1
<1> QED BY <1>1, <1>11, <1>12 DEF ObjectInv, SymbolInv

LEMMA InitRefines == Init => Object!Init
<1> SUFFICES ASSUME Init PROVE Object!Init
  OBVIOUS
<1>1. TypeInv /\ DOMAIN sections = 1..8
  BY InitTypeInv DEF Init, InitialSections
<1>2. /\ sections[1].name = "shstrtab" /\ sections[2].name = "strtab"
      /\ sections[3].name = "data" /\ sections[4].name = "rodata"
      /\ sections[5].name = "bss" /\ sections[6].name = "text"
      /\ sections[7].name = "init" /\ sections[8].name = "symtab"
  BY DEF Init, InitialSections, Section
<1>3. \A i \in 1..8 : sections[i].data = << >>
  <2>1. /\ sections[1].data = << >> /\ sections[2].data = << >>
        /\ sections[3].data = << >> /\ sections[4].data = << >>
        /\ sections[5].data = << >> /\ sections[6].data = << >>
        /\ sections[7].data = << >> /\ sections[8].data = << >>
    BY DEF Init, InitialSections, Section
  <2> QED BY <2>1
<1>4. NamesIn(sections) = InitialNames
  BY <1>1, <1>2 DEF NamesIn, InitialNames
<1>5. SectionContent = [n \in InitialNames |-> << >>]
  <2>1. \A n \in NamesIn(sections) : Nth(sections, FindIn(sections, n)).data = << >>
    <3> SUFFICES ASSUME NEW n \in NamesIn(sections)
                 PROVE  Nth(sections, FindIn(sections, n)).data = << >>
      OBVIOUS
    <3>1. Len(sections) = 8 /\ Len(sections) \in Nat /\ DOMAIN sections = 1..Len(sections)
      BY <1>1 DEF Init, InitialSections
    <3>2. IsFirst(sections, FindIn(sections, n))
      BY <3>1, FoundIn
    <3>3. FindIn(sections, n) \in 0..7
      BY <3>1, <3>2 DEF IsFirst
    <3> QED BY <1>3, <3>3 DEF Nth
  <2>2. SectionContent = ContentIn(sections)
    BY <1>1, SectionContentIs
  <2> QED BY <1>4, <2>1, <2>2 DEF ContentIn
<1>6. SymbolContent = << >>
  BY DEF Init, SymbolContent
<1>7. Nth(sections, curr_section).name = "shstrtab"
  BY <1>2 DEF Init, Nth
<1> QED BY <1>5, <1>6, <1>7 DEF Object!Init

(* Each operation, seen through the mapping, is the step of ObjectFile it   *)
(* promises, or no step at all.                                             *)
LEMMA NextRefines ==
  ASSUME ObjectInv, ObjectInv', [Next]_vars
  PROVE  [Object!Next]_Object!vars
<1>1. /\ Len(sections) \in Nat /\ DOMAIN sections = 1..Len(sections)
      /\ Len(sections') \in Nat /\ DOMAIN sections' = 1..Len(sections')
      /\ Len(sections') >= Len(sections)
      /\ \A i \in 1..Len(sections) : sections'[i].name = sections[i].name
      /\ curr_section \in 0..(Len(sections) - 1)
      /\ \A i \in 1..Len(sections) : sections[i] \in ObjectSection
  BY NamesStay, ElementOfSeq DEF ObjectInv, SymbolInv, BoundInv, TypeInv, ObjectTypeOK
<1>2. /\ SectionContent = ContentIn(sections)
      /\ SectionContent' = ContentIn(sections')
  BY SectionContentIs, SectionContentIsNext DEF ObjectInv, SymbolInv, BoundInv
<1>3. UNCHANGED <<symbol_names, defined>> => SymbolContent' = SymbolContent
  BY <1>1, SymbolsUnchanged DEF ObjectInv
<1>4. \A i \in 0..(Len(sections) - 1) : Nth(sections', i).name = Nth(sections, i).name
  BY <1>1 DEF Nth
<1>5. UNCHANGED curr_section =>
        Nth(sections', curr_section').name = Nth(sections, curr_section).name
  BY <1>1, <1>4
<1>6. ASSUME UNCHANGED <<sections, symbol_names, defined, curr_section>>
      PROVE  UNCHANGED Object!vars
  BY <1>2, <1>3, <1>5, <1>6 DEF Object!vars
<1>7. ASSUME NEW name \in Selected, SetSection(name)
      PROVE  Object!Next
  <2>1. /\ FindSection(name) \in 0..(Len(sections) - 1)
        /\ Nth(sections, FindSection(name)).name = name
    BY <1>7, FindSectionFinds
       DEF SetSection, ObjectInv, SymbolInv, BoundInv, TypeInv
  <2>2. sections' = sections /\ curr_section' = FindSection(name)
        /\ UNCHANGED <<symbol_names, defined>>
    BY <1>7 DEF SetSection, tables
  <2>3. Nth(sections', curr_section').name = name
    BY <2>1, <2>2
  <2>4. name \in DOMAIN SectionContent /\ name \in SectionNames
    <3>1. FindSection(name) + 1 \in 1..Len(sections)
      BY <1>1, <2>1
    <3>2. name \in NamesIn(sections)
      BY <1>1, <2>1, <3>1 DEF Nth, NamesIn
    <3>3. name \in SectionNames
      BY <1>1, <2>1, <3>1 DEF Nth, ObjectSection
    <3> QED BY <1>2, <3>2, <3>3 DEF ContentIn
  <2>5. SectionContent' = SectionContent /\ SymbolContent' = SymbolContent
    BY <1>2, <1>3, <2>2
  <2>6. Object!Select(name)
    BY <2>3, <2>4, <2>5 DEF Object!Select
  <2> QED BY <2>4, <2>6 DEF Object!Next
<1>8. ASSUME NEW s \in NewSections, NEW reloc \in Relocatable, AddSection(s, reloc)
      PROVE  Object!Next
  <2> DEFINE new == NamesIn(sections') \ NamesIn(sections)
  <2>1. /\ Len(sections') = Len(sections) + (IF reloc THEN 2 ELSE 1)
        /\ \A i \in 1..Len(sections) : sections'[i] = sections[i]
        /\ sections'[Len(sections) + 1] = Section(s.name, s.type, s.sh_type)
        /\ reloc => sections'[Len(sections) + 2] = RelSection(s.name)
    BY <1>8, SectionAdded DEF ObjectInv, SymbolInv, BoundInv
  <2>2. /\ sections'[Len(sections) + 1].data = << >>
        /\ reloc => sections'[Len(sections) + 2].data = << >>
    BY <2>1 DEF Section, RelSection
  <2>3. \A i \in (Len(sections) + 1)..Len(sections') : sections'[i].data = << >>
    BY <1>1, <2>1, <2>2
  <2>4. ContentIn(sections') = WithEmpty(ContentIn(sections), new)
    <3>1. \A i \in 1..Len(sections) : sections'[i] = sections[i]
      BY <2>1
    <3>2. new = NamesIn(sections') \ NamesIn(sections)
      OBVIOUS
    <3> HIDE DEF new
    <3> QED BY <1>1, <2>3, <3>1, <3>2, ContentCreated
  <2>5. new \cap DOMAIN SectionContent = {}
    BY <1>2 DEF ContentIn
  <2>6. new \in SUBSET SectionNames
    <3>1. \A i \in 1..Len(sections') : sections'[i] \in ObjectSection
      BY ElementOfSeq DEF ObjectInv, SymbolInv, BoundInv, TypeInv, ObjectTypeOK
    <3>2. NamesIn(sections') \subseteq SectionNames
      BY <1>1, <3>1 DEF NamesIn, ObjectSection
    <3> QED BY <3>2
  <2>7. /\ SymbolContent' = SymbolContent
        /\ Nth(sections', curr_section').name = Nth(sections, curr_section).name
    BY <1>3, <1>5, <1>8 DEF AddSection
  <2> HIDE DEF new
  <2>8. Object!Create(new)
    BY <1>2, <2>4, <2>5, <2>7 DEF Object!Create, WithEmpty
  <2> QED BY <2>6, <2>8 DEF Object!Next
<1>9. ASSUME NEW str \in Strings, AddString(str)
      PROVE  UNCHANGED Object!vars
  <2>1. /\ Len(sections') = Len(sections)
        /\ \A i \in 1..Len(sections) : /\ sections'[i].name = sections[i].name
                                       /\ sections'[i].data = sections[i].data
    BY <1>9, StringAdded DEF ObjectInv, SymbolInv, BoundInv
  <2>2. ContentIn(sections') = ContentIn(sections)
    BY <1>1, <2>1, ContentKept
  <2> QED BY <1>2, <1>3, <1>5, <1>9, <2>2 DEF AddString, Object!vars
<1>10. ASSUME NEW name \in SymNames, NEW value \in Values,
              NEW reloc \in SymRelocatable, AddSymbol(name, value, reloc)
       PROVE  Object!Next
  <2> DEFINE filed == reloc /\ RelLookup = "ok"
             d == [name |-> name, section |-> curr_section, value |-> value,
                   reloc |-> reloc, filed |-> filed]
  <2>1. /\ Len(sections') = Len(sections)
        /\ \A i \in 1..Len(sections) : /\ sections'[i].name = sections[i].name
                                       /\ sections'[i].data = sections[i].data
    BY <1>10, SymbolAdded DEF ObjectInv, SymbolInv, BoundInv
  <2>2. ContentIn(sections') = ContentIn(sections)
    BY <1>1, <2>1, ContentKept
  <2>3. /\ d \in Definition /\ d.name = name /\ d.value = value
        /\ d.section = curr_section /\ defined' = Append(defined, d)
        /\ name \notin symbol_names /\ symbol_names' = symbol_names \cup {name}
        /\ UNCHANGED curr_section
    <3>1. filed \in BOOLEAN /\ reloc \in BOOLEAN /\ value \in Nat
      BY RelocatableAssumption, ValuesAssumption
    <3> QED BY <1>1, <1>10, <3>1 DEF AddSymbol, Definition
  <2> HIDE DEF d
  <2>4. SymbolContent' =
          [s \in DOMAIN SymbolContent \cup {name} |->
             IF s = name
               THEN [section |-> Nth(sections, curr_section).name, value |-> value]
               ELSE SymbolContent[s]]
    BY <2>1, <2>3, SymbolDefined, ZenonT(30) DEF ObjectInv
  <2>5. name \notin DOMAIN SymbolContent
    BY <2>3 DEF SymbolContent
  <2>6. Object!Define(name, value)
    BY <1>2, <1>5, <2>2, <2>3, <2>4, <2>5 DEF Object!Define
  <2> QED BY <2>6 DEF Object!Next
<1>11. ASSUME NEW bytes \in Chunks, AddProgbits(bytes)
       PROVE  Object!Next
  <2>1. /\ Len(sections') = Len(sections)
        /\ \A i \in 1..Len(sections) :
             /\ sections'[i].name = sections[i].name
             /\ sections'[i].data = IF i = curr_section + 1
                                      THEN sections[i].data \o bytes
                                      ELSE sections[i].data
    BY <1>11, ProgbitsAdded DEF ObjectInv, SymbolInv, BoundInv
  <2>2. ContentIn(sections')
          = WithBytes(ContentIn(sections), Nth(sections, curr_section).name, bytes)
    <3>1. IsFirst(sections, curr_section)
      BY DEF ObjectInv
    <3>2. Extends(sections', sections, curr_section, bytes)
      BY <1>1, <2>1 DEF Extends
    <3> QED BY <3>1, <3>2, ContentExtended
  <2>3. /\ SymbolContent' = SymbolContent
        /\ Nth(sections', curr_section').name = Nth(sections, curr_section).name
    BY <1>3, <1>5, <1>11 DEF AddProgbits, tables
  <2>4. Object!Emit(bytes)
    BY <1>2, <2>2, <2>3 DEF Object!Emit, WithBytes
  <2> QED BY <2>4 DEF Object!Next
<1> QED
  BY <1>6, <1>7, <1>8, <1>9, <1>10, <1>11
     DEF Next, vars, tables, SetMissingSection, Throw, AddDuplicateSection,
         AddDuplicateSymbol, AddProgbitsElsewhere

(* Class ELF keeps what ObjectFile promises: bytes are only ever added at   *)
(* the end of the section selected last by that name, and a symbol once     *)
(* defined keeps its section and value - for as long as an object has no    *)
(* more sections than st_shndx has values (elf.cpp:249-421).                *)
THEOREM ElfImplementsObjectFile ==
  ASSUME 8 <= ShndxMod, MaxSections <= ShndxMod
  PROVE  Spec => ObjectSpec
<1>1. ObjectInv /\ [Next]_vars => ObjectInv'
  BY NextObjectInv
<1>2. ObjectInv /\ ObjectInv' /\ [Next]_vars => [Object!Next]_Object!vars
  BY NextRefines
<1> QED BY <1>1, <1>2, InitObjectInv, InitRefines, PTL DEF Spec, ObjectSpec, Object!Spec

=============================================================================
