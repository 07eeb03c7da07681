-------------------------- MODULE Assembler_proofs --------------------------
(***************************************************************************)
(* The assembler drives the object only through the operations of class    *)
(* ELF, so what is proved of every sequence of those operations holds      *)
(* while it runs, after it has thrown, and when it is called again.        *)
(***************************************************************************)
EXTENDS Assembler, Elf_proofs

(* A step of assemble is a call of ELF, or leaves the object alone          *)
(* (assembler.cpp:14-84).                                                   *)
LEMMA AssemblerStep ==
    ASSUME [AssemblerNext]_assemblerVars
    PROVE  [Next]_vars
<1>1. CASE Assemble
  BY <1>1 DEF Assemble
<1>2. CASE Return
  BY <1>2 DEF Return
<1>3. CASE \E n \in Nodes : AssembleNode(n)
  <2>1. PICK n \in Nodes : AssembleNode(n)
    BY <1>3
  <2>2. CASE AssembleDirective(n)
    <3>1. n.operands[1] \in Selected
      BY <2>2, NodesAssumption DEF AssembleDirective
    <3>2. SetSection(n.operands[1]) \/ SetMissingSection(n.operands[1])
      BY <2>2 DEF AssembleDirective
    <3> QED  BY <3>1, <3>2 DEF Next
  <2>3. CASE AssembleLabel(n)
    <3>1. n.name \in SymNames
      BY <2>3, NodesAssumption DEF AssembleLabel
    <3>2. AddSymbol(n.name, 0, FALSE) \/ AddDuplicateSymbol(n.name)
      BY <2>3 DEF AssembleLabel
    <3> QED  BY <3>1, <3>2, NodesAssumption DEF Next
  <2>4. CASE AssembleInstruction(n)
    <3>1. CASE Emits(n) /\ AddProgbits(<< Encode(n) >>)
      <4>1. << Encode(n) >> \in Chunks
        BY <2>4, <3>1, NodesAssumption DEF AssembleInstruction
      <4> QED  BY <3>1, <4>1 DEF Next
    <3>2. CASE AddProgbitsElsewhere
      BY <3>2 DEF Next
    <3>3. CASE UNCHANGED vars
      BY <3>3
    <3> QED  BY <2>4, <3>1, <3>2, <3>3 DEF AssembleInstruction
  <2>5. CASE AssembleOther(n)
    BY <2>5 DEF AssembleOther
  <2> QED  BY <2>1, <2>2, <2>3, <2>4, <2>5 DEF AssembleNode
<1>4. CASE UNCHANGED assemblerVars
  BY <1>4 DEF assemblerVars
<1> QED  BY <1>1, <1>2, <1>3, <1>4 DEF AssemblerNext

(* The assembler implements the object file's specification.                *)
THEOREM AssemblerImplementsElf == AssemblerSpec => Spec
<1>1. AssemblerInit => Init
  BY DEF AssemblerInit
<1>2. [AssemblerNext]_assemblerVars => [Next]_vars
  BY AssemblerStep
<1> QED  BY <1>1, <1>2, PTL DEF AssemblerSpec, Spec

(* Whatever program is assembled, and whichever node of it throws, the      *)
(* string table, the symbol table and the set of defined names agree, and   *)
(* every label's symbol is bound to the section it was defined in           *)
(* (assembler.cpp:14-84, elf.cpp:356-396).                                  *)
THEOREM AssembledSymbolsCorrect ==
    AssemblerSpec => [](TypeOK /\ SymbolTableConsistent /\ SymbolsBound)
<1> QED  BY AssemblerImplementsElf, TypeCorrect, SymbolTableCorrect,
            SymbolsStayBound, PTL

(* The same for what ObjectFile promises: a program that is assembled only  *)
(* adds code at the end of the section it has selected, and never rebinds a *)
(* label (assembler.cpp:14-84).                                             *)
THEOREM AssemblerImplementsObjectFile ==
  ASSUME 8 <= ShndxMod, MaxSections <= ShndxMod
  PROVE  AssemblerSpec => ObjectSpec
<1>1. Spec => ObjectSpec
  BY ElfImplementsObjectFile
<1> QED BY <1>1, AssemblerImplementsElf, PTL

-----------------------------------------------------------------------------
(* The section a node is assembled into, and the code of a section *)

SectionIn(prog, k) ==
    LET named == {j \in 1..k : IsSection(prog[j])}
    IN IF named = {} THEN "shstrtab" ELSE prog[Max(named)].operands[1]

CodePieces(prog, name) ==
    [k \in DOMAIN prog |-> IF IsCode(prog[k]) /\ SectionIn(prog, k) = name
                             THEN << Encode(prog[k]) >> ELSE << >>]

LEMMA ProgramIsAssembled ==
  /\ \A k : /\ SectionAt(k) = SectionIn(assembled, k)
            /\ SectionAt(k)' = SectionIn(assembled', k)
  /\ \A name : /\ CodeOf(name) = FlattenSeq(CodePieces(assembled, name))
               /\ CodeOf(name)' = FlattenSeq(CodePieces(assembled', name))
BY DEF SectionAt, SectionIn, CodeOf, CodePieces

(* Every node starts where the one before left off, unless it is itself the *)
(* directive that names a section.                                          *)
LEMMA SectionInAppend ==
  ASSUME NEW prog \in Seq(Nodes), NEW n \in Nodes
  PROVE  /\ \A k \in 0..Len(prog) : SectionIn(Append(prog, n), k) = SectionIn(prog, k)
         /\ SectionIn(Append(prog, n), Len(prog) + 1)
              = IF IsSection(n) THEN n.operands[1] ELSE SectionIn(prog, Len(prog))
<1> DEFINE more == Append(prog, n)
           Named(p, k) == {j \in 1..k : IsSection(p[j])}
<1>0. PICK l \in Nat : l = Len(prog)
  BY LenProperties
<1>1. /\ Len(more) = l + 1 /\ more[l + 1] = n
      /\ \A i \in 1..l : more[i] = prog[i]
  BY <1>0, AppendProperties
<1> HIDE DEF more
<1>2. ASSUME NEW k \in 0..l
      PROVE  Named(more, k) = Named(prog, k)
  BY <1>1
<1>3. ASSUME NEW k \in 0..l, Named(prog, k) # {}
      PROVE  more[Max(Named(prog, k))] = prog[Max(Named(prog, k))]
  <2>1. Named(prog, k) \subseteq 1..k /\ k \in Nat
    OBVIOUS
  <2>2. Max(Named(prog, k)) \in 1..k
    <3> HIDE DEF Named
    <3> QED BY <1>3, <2>1, MaxIs
  <2> QED BY <1>1, <2>2
<1>4. ASSUME NEW k \in 0..l
      PROVE  SectionIn(more, k) = SectionIn(prog, k)
  BY <1>2, <1>3 DEF SectionIn
<1>5. SectionIn(more, l + 1) = IF IsSection(n) THEN n.operands[1] ELSE SectionIn(prog, l)
  <2>1. CASE IsSection(n)
    <3>1. l + 1 \in Named(more, l + 1) /\ Named(more, l + 1) \subseteq 1..(l + 1)
      BY <1>1, <2>1
    <3>2. PICK m \in Nat : m = l + 1
      OBVIOUS
    <3>3. m \in Named(more, m) /\ Named(more, m) \subseteq 1..m /\ more[m] = n
      BY <1>1, <3>1, <3>2
    <3>4. SectionIn(more, m) = IF Named(more, m) = {} THEN "shstrtab"
                               ELSE more[Max(Named(more, m))].operands[1]
      BY DEF SectionIn
    <3> HIDE DEF Named
    <3>5. Max(Named(more, m)) \in 1..m /\ Max(Named(more, m)) >= m
      BY <3>3, MaxIs
    <3>6. Max(Named(more, m)) = m
      BY <3>5
    <3> QED BY <2>1, <3>2, <3>3, <3>4, <3>6
  <2>2. CASE ~IsSection(n)
    <3>1. 1..(l + 1) = (1..l) \cup {l + 1} /\ l \in 0..l
      OBVIOUS
    <3>2. Named(more, l + 1) = Named(prog, l)
      BY <1>1, <2>2, <3>1
    <3>3. SectionIn(more, l + 1)
            = IF Named(more, l + 1) = {} THEN "shstrtab"
              ELSE more[Max(Named(more, l + 1))].operands[1]
      BY DEF SectionIn
    <3>4. SectionIn(prog, l) = IF Named(prog, l) = {} THEN "shstrtab"
                               ELSE prog[Max(Named(prog, l))].operands[1]
      BY DEF SectionIn
    <3> HIDE DEF Named
    <3> QED BY <1>3, <2>2, <3>1, <3>2, <3>3, <3>4
  <2> QED BY <2>1, <2>2
<1> QED BY <1>0, <1>4, <1>5 DEF more

(* A node that emits a byte adds it to the section in force, and no other.  *)
LEMMA CodeAppend ==
  ASSUME NEW prog \in Seq(Nodes), NEW n \in Nodes, NEW name
  PROVE  FlattenSeq(CodePieces(Append(prog, n), name))
           = FlattenSeq(CodePieces(prog, name))
               \o (IF IsCode(n) /\ SectionIn(prog, Len(prog)) = name
                     THEN << Encode(n) >> ELSE << >>)
<1> DEFINE more == Append(prog, n)
           old == CodePieces(prog, name)
           new == IF IsCode(n) /\ SectionIn(prog, Len(prog)) = name
                    THEN << Encode(n) >> ELSE << >>
<1>0. PICK l \in Nat : l = Len(prog)
  BY LenProperties
<1>1. \A m \in Nodes : IsCode(m) => << Encode(m) >> \in Seq(0..255)
  <2> SUFFICES ASSUME NEW m \in Nodes, IsCode(m) PROVE << Encode(m) >> \in Seq(0..255)
    OBVIOUS
  <2>1. << Encode(m) >> \in Chunks
    BY NodesAssumption DEF IsCode
  <2> QED BY <2>1, ChunksAssumption
<1>2. << >> \in Seq(0..255)
  BY EmptySeq
<1>3. new \in Seq(0..255)
  BY <1>1, <1>2
<1>4. /\ old \in Seq(Seq(0..255)) /\ Len(old) = l
      /\ \A k \in 1..l : old[k] = IF IsCode(prog[k]) /\ SectionIn(prog, k) = name
                                    THEN << Encode(prog[k]) >> ELSE << >>
  <2>1. DOMAIN prog = 1..l /\ \A k \in 1..l : prog[k] \in Nodes
    BY <1>0, LenProperties, ElementOfSeq
  <2>2. \A k \in 1..l : (IF IsCode(prog[k]) /\ SectionIn(prog, k) = name
                           THEN << Encode(prog[k]) >> ELSE << >>) \in Seq(0..255)
    BY <1>1, <1>2, <2>1
  <2>3. old \in [1..l -> Seq(0..255)]
    BY <2>1, <2>2 DEF CodePieces
  <2> QED BY <2>1, <2>3 DEF CodePieces
<1>5. CodePieces(more, name) = Append(old, new)
  <2> DEFINE pieces == CodePieces(more, name)
  <2>1. /\ DOMAIN more = 1..(l + 1) /\ more[l + 1] = n
        /\ \A k \in 1..l : more[k] = prog[k]
    <3>1. more \in Seq(Nodes) /\ Len(more) = l + 1
      BY <1>0, AppendProperties
    <3> QED BY <1>0, <3>1, AppendProperties, LenProperties
  <2>2. /\ \A k \in 1..l : SectionIn(more, k) = SectionIn(prog, k)
        /\ ~IsSection(n) => SectionIn(more, l + 1) = SectionIn(prog, l)
    BY <1>0, SectionInAppend
  <2>3. IsCode(n) => ~IsSection(n)
    BY DEF IsCode, IsSection
  <2> HIDE DEF more
  <2>4. /\ pieces = [k \in 1..(l + 1) |->
                       IF IsCode(more[k]) /\ SectionIn(more, k) = name
                         THEN << Encode(more[k]) >> ELSE << >>]
    BY <2>1 DEF CodePieces
  <2>5. \A k \in 1..l : pieces[k] = old[k]
    BY <1>4, <2>1, <2>2, <2>4
  <2>6. pieces[l + 1] = new
    <3>1. l + 1 \in 1..(l + 1)
      OBVIOUS
    <3>2. pieces[l + 1] = IF IsCode(n) /\ SectionIn(more, l + 1) = name
                            THEN << Encode(n) >> ELSE << >>
      BY <2>1, <2>4, <3>1
    <3> QED BY <1>0, <2>2, <2>3, <3>2
  <2>7. pieces = [k \in 1..(l + 1) |-> pieces[k]]
    BY <2>4
  <2>8. Append(old, new) = [k \in 1..(l + 1) |-> IF k = l + 1 THEN new ELSE old[k]]
    BY <1>3, <1>4 
  <2> HIDE DEF pieces, old, new
  <2>9. \A k \in 1..(l + 1) : pieces[k] = IF k = l + 1 THEN new ELSE old[k]
    BY <2>5, <2>6
  <2> QED BY <2>7, <2>8, <2>9 DEF pieces
<1> HIDE DEF old, new
<1>6. FlattenSeq(Append(old, new)) = FlattenSeq(old) \o new
  BY <1>3, <1>4, FlattenSeqAppend
<1> QED BY <1>5, <1>6 DEF old, new

-----------------------------------------------------------------------------
(* The invariants of the assembler *)

(* The assembler makes no sections, it selects them.                        *)
FixedSections ==
    /\ Len(sections) = 8
    /\ \A i \in 1..8 : /\ sections[i].name = InitialSections[i].name
                       /\ sections[i].type = InitialSections[i].type

CurrentNamed == Nth(sections, curr_section).name = SectionAt(Len(assembled))

(* What a node does, when it does not throw.                                *)
Assembled(n) ==
    /\ n \in Nodes
    /\ assembled' = Append(assembled, n)
    /\ \/ /\ IsSection(n) /\ ~IsCode(n) /\ ~IsLabel(n)
          /\ n.operands[1] \in Selected /\ SetSection(n.operands[1])
       \/ /\ IsLabel(n) /\ ~IsCode(n) /\ ~IsSection(n)
          /\ n.name \in SymNames /\ AddSymbol(n.name, 0, FALSE)
       \/ /\ IsCode(n) /\ ~IsLabel(n) /\ ~IsSection(n)
          /\ << Encode(n) >> \in Chunks /\ AddProgbits(<< Encode(n) >>)
       \/ /\ ~IsCode(n) /\ ~IsLabel(n) /\ ~IsSection(n)
          /\ Ignored(n) /\ UNCHANGED vars

LEMMA AssemblerCases ==
  ASSUME [AssemblerNext]_assemblerVars
  PROVE  \/ UNCHANGED <<sections, tables, curr_section, defined, assembled>>
         \/ \E n \in Nodes : Assembled(n)
<1> DEFINE Idle == UNCHANGED <<sections, tables, curr_section, defined, assembled>>
<1>1. CASE Assemble \/ Return \/ UNCHANGED assemblerVars
  BY <1>1 DEF Assemble, Return, assemblerVars, vars
<1>2. CASE \E n \in Nodes : AssembleNode(n)
  <2>1. PICK n \in Nodes : AssembleNode(n)
    BY <1>2
  <2>2. CASE AssembleDirective(n)
    <3>1. n.id = "DIRECTIVE" /\ n.type = "SECTION"
      BY <2>2 DEF AssembleDirective
    <3>2. IsSection(n) /\ ~IsCode(n) /\ ~IsLabel(n)
      BY <3>1 DEF IsSection, IsCode, IsLabel
    <3>3. n.operands[1] \in Selected
      BY <3>1, NodesAssumption
    <3>4. CASE SetSection(n.operands[1]) /\ Done(n)
      BY <3>2, <3>3, <3>4 DEF Done, Assembled
    <3>5. CASE SetMissingSection(n.operands[1]) /\ Abort
      BY <3>5 DEF SetMissingSection, Throw, Abort
    <3> QED BY <2>2, <3>4, <3>5 DEF AssembleDirective
  <2>3. CASE AssembleLabel(n)
    <3>1. n.id = "LABEL"
      BY <2>3 DEF AssembleLabel
    <3>2. IsLabel(n) /\ ~IsCode(n) /\ ~IsSection(n)
      BY <3>1 DEF IsSection, IsCode, IsLabel
    <3>3. n.name \in SymNames
      BY <3>1, NodesAssumption
    <3>4. CASE AddSymbol(n.name, 0, FALSE) /\ Done(n)
      BY <3>2, <3>3, <3>4 DEF Done, Assembled
    <3>5. CASE AddDuplicateSymbol(n.name) /\ Abort
      BY <3>5 DEF AddDuplicateSymbol, Throw, Abort
    <3> QED BY <2>3, <3>4, <3>5 DEF AssembleLabel
  <2>4. CASE AssembleInstruction(n)
    <3>1. n.id = "INSTRUCTION"
      BY <2>4 DEF AssembleInstruction
    <3>2. ~IsLabel(n) /\ ~IsSection(n) /\ (IsCode(n) <=> Emits(n))
      BY <3>1 DEF IsSection, IsCode, IsLabel
    <3>3. CASE Emits(n) /\ AddProgbits(<< Encode(n) >>) /\ Done(n)
      <4>1. << Encode(n) >> \in Chunks
        BY <3>1, <3>3, NodesAssumption
      <4> QED BY <3>2, <3>3, <4>1 DEF Done, Assembled
    <3>4. CASE Emits(n) /\ AddProgbitsElsewhere /\ Abort
      BY <3>4 DEF AddProgbitsElsewhere, Throw, Abort
    <3>5. CASE Ignored(n) /\ UNCHANGED vars /\ Done(n)
      <4>1. ~Emits(n)
        <5>1. DOMAIN InstructionNone \subseteq Formats
          BY DEF Formats
        <5> QED BY <3>5, <5>1, SMTT(30) DEF Ignored, Emits, HasRegister, HasDRegister
      <4> QED BY <3>2, <3>5, <4>1 DEF Done, Assembled
    <3>6. CASE UNCHANGED vars /\ Abort
      BY <3>6 DEF vars, Abort
    <3> QED BY <2>4, <3>3, <3>4, <3>5, <3>6 DEF AssembleInstruction
  <2>5. CASE AssembleOther(n)
    BY <2>5 DEF AssembleOther, Abort, vars
  <2> QED BY <2>1, <2>2, <2>3, <2>4, <2>5 DEF AssembleNode
<1> QED BY <1>1, <1>2 DEF AssemblerNext

LEMMA NextAssemblerTypeOK ==
  TypeInv /\ AssemblerTypeOK /\ [AssemblerNext]_assemblerVars => AssemblerTypeOK'
<1> SUFFICES ASSUME TypeInv, AssemblerTypeOK, [AssemblerNext]_assemblerVars
             PROVE  AssemblerTypeOK'
  OBVIOUS
<1>1. TypeOK'
  BY AssemblerStep, NextTypeOK DEF AssemblerTypeOK
<1>2. running' \in BOOLEAN
  BY DEF AssemblerTypeOK, AssemblerNext, assemblerVars, Assemble, Return, AssembleNode,
         AssembleDirective, AssembleLabel, AssembleInstruction, AssembleOther,
         Done, Abort
<1>3. assembled' \in Seq(Nodes)
  <2>1. assembled' = assembled \/ \E n \in Nodes : assembled' = Append(assembled, n)
    BY AssemblerCases DEF Assembled
  <2> QED BY <2>1, AppendProperties DEF AssemblerTypeOK
<1> QED BY <1>1, <1>2, <1>3 DEF AssemblerTypeOK

(* Every variable of the assembler keeps its type (assembler.cpp:14-84).    *)
THEOREM AssemblerTypeCorrect == AssemblerSpec => []AssemblerTypeOK
<1>1. TypeInv /\ AssemblerTypeOK /\ [AssemblerNext]_assemblerVars
        => (TypeInv /\ AssemblerTypeOK)'
  BY AssemblerStep, NextTypeInv, NextAssemblerTypeOK
<1>2. AssemblerInit => TypeInv /\ AssemblerTypeOK
  <2>1. AssemblerInit => TypeInv
    BY InitTypeInv DEF AssemblerInit
  <2>2. << >> \in Seq(Nodes)
    BY EmptySeq
  <2> QED BY <2>1, <2>2, InitTypeOK DEF AssemblerInit, AssemblerTypeOK
<1> QED BY <1>1, <1>2, PTL DEF AssemblerSpec

(* What each node does to the sections and to the place the program is at.  *)
SectionInv == TypeInv /\ AssemblerTypeOK /\ FixedSections /\ CurrentNamed

LEMMA FixedNames ==
  ASSUME TypeInv, FixedSections
  PROVE  /\ \A i, j \in 1..8 : sections[i].name = sections[j].name => i = j
         /\ \A i \in 1..8 : sections[i].type = "PROGBITS" =>
              sections[i].name \notin {"shstrtab", "strtab", "symtab"}
         /\ DOMAIN sections = 1..8
         /\ curr_section \in 0..7
<1>1. /\ sections[1].name = "shstrtab" /\ sections[2].name = "strtab"
      /\ sections[3].name = "data" /\ sections[4].name = "rodata"
      /\ sections[5].name = "bss" /\ sections[6].name = "text"
      /\ sections[7].name = "init" /\ sections[8].name = "symtab"
  BY DEF FixedSections, InitialSections, Section
<1>2. /\ sections[1].type = "STRTAB" /\ sections[2].type = "STRTAB"
      /\ sections[8].type = "SYMTAB"
  BY DEF FixedSections, InitialSections, Section
<1>3. DOMAIN sections = 1..8 /\ curr_section \in 0..7
  BY LenProperties DEF TypeInv, ObjectTypeOK, FixedSections
<1> QED BY <1>1, <1>2, <1>3

LEMMA NextFixed ==
  ASSUME SectionInv, [AssemblerNext]_assemblerVars
  PROVE  /\ FixedSections'
         /\ \A i \in 1..8 : /\ sections'[i].name = sections[i].name
                            /\ sections'[i].type = sections[i].type
<1>1. TypeInv /\ Len(sections) = 8
  BY DEF SectionInv, FixedSections
<1> DEFINE Same == /\ Len(sections') = Len(sections)
                   /\ \A i \in 1..8 : /\ sections'[i].name = sections[i].name
                                      /\ sections'[i].type = sections[i].type
<1>2. ASSUME NEW n \in Nodes, Assembled(n)
      PROVE  Same
  <2>1. CASE SetSection(n.operands[1])
    BY <2>1 DEF SetSection
  <2>2. CASE n.name \in SymNames /\ AddSymbol(n.name, 0, FALSE)
    <3>1. /\ Len(sections') = Len(sections)
          /\ \A i \in 1..Len(sections) : /\ sections'[i].name = sections[i].name
                                         /\ sections'[i].type = sections[i].type
      BY <1>1, <2>2, SymbolAdded, NodesAssumption
    <3> QED BY <1>1, <3>1
  <2>3. CASE << Encode(n) >> \in Chunks /\ AddProgbits(<< Encode(n) >>)
    <3>1. /\ Len(sections') = Len(sections)
          /\ \A i \in 1..Len(sections) : /\ sections'[i].name = sections[i].name
                                         /\ sections'[i].type = sections[i].type
      BY <1>1, <2>3, ProgbitsAdded
    <3> QED BY <1>1, <3>1
  <2>4. CASE UNCHANGED vars
    BY <2>4 DEF vars
  <2> QED BY <1>2, <2>1, <2>2, <2>3, <2>4 DEF Assembled
<1>3. ASSUME UNCHANGED sections
      PROVE  Same
  BY <1>3
<1>4. Same
  <2> HIDE DEF Same
  <2> QED BY <1>2, <1>3, AssemblerCases
<1> QED BY <1>1, <1>4 DEF SectionInv, FixedSections

LEMMA NextCurrentNamed ==
  ASSUME SectionInv, [AssemblerNext]_assemblerVars
  PROVE  CurrentNamed'
<1>1. /\ TypeInv /\ Len(sections) = 8 /\ assembled \in Seq(Nodes)
      /\ curr_section \in 0..7
      /\ \A i \in 1..8 : sections'[i].name = sections[i].name
  BY NextFixed, FixedNames DEF SectionInv, FixedSections, AssemblerTypeOK
<1>2. Nth(sections, curr_section).name = SectionIn(assembled, Len(assembled))
  BY ProgramIsAssembled DEF SectionInv, CurrentNamed
<1>3. Nth(sections', curr_section).name = Nth(sections, curr_section).name
  BY <1>1 DEF Nth
<1>4. CASE UNCHANGED <<sections, tables, curr_section, defined, assembled>>
  <2>1. Nth(sections', curr_section').name = SectionIn(assembled', Len(assembled'))
    BY <1>2, <1>4
  <2> QED BY <2>1, ProgramIsAssembled DEF CurrentNamed
<1>5. CASE \E n \in Nodes : Assembled(n)
  <2>1. PICK n \in Nodes : Assembled(n)
    BY <1>5
  <2>2. /\ Len(assembled') = Len(assembled) + 1
        /\ SectionIn(assembled', Len(assembled'))
             = IF IsSection(n) THEN n.operands[1]
               ELSE SectionIn(assembled, Len(assembled))
    <3>1. assembled' = Append(assembled, n)
      BY <2>1 DEF Assembled
    <3>2. Len(assembled') = Len(assembled) + 1
      BY <1>1, <3>1, AppendProperties
    <3> QED BY <1>1, <3>1, <3>2, SectionInAppend
  <2>3. Nth(sections', curr_section').name
          = IF IsSection(n) THEN n.operands[1] ELSE Nth(sections, curr_section).name
    <3>1. CASE IsSection(n)
      <4>1. SetSection(n.operands[1])
        BY <2>1, <3>1 DEF Assembled
      <4>2. /\ curr_section' = FindSection(n.operands[1])
            /\ HasSection(n.operands[1]) /\ sections' = sections
        BY <4>1 DEF SetSection
      <4>3. Nth(sections, FindSection(n.operands[1])).name = n.operands[1]
        BY <1>1, <4>2, FindSectionFinds DEF TypeInv
      <4> QED BY <3>1, <4>2, <4>3
    <3>2. CASE ~IsSection(n)
      <4>1. UNCHANGED curr_section
        BY <2>1, <3>2 DEF Assembled, AddSymbol, AddProgbits, vars
      <4> QED BY <1>3, <3>2, <4>1
    <3> QED BY <3>1, <3>2
  <2>4. Nth(sections', curr_section').name = SectionIn(assembled', Len(assembled'))
    BY <1>2, <2>2, <2>3
  <2> QED BY <2>4, ProgramIsAssembled DEF CurrentNamed
<1> QED BY <1>4, <1>5, AssemblerCases

LEMMA NextSectionInv ==
  SectionInv /\ [AssemblerNext]_assemblerVars => SectionInv'
<1>1. ASSUME SectionInv, [AssemblerNext]_assemblerVars
      PROVE  SectionInv'
  <2>1. FixedSections'
    BY <1>1, NextFixed
  <2>2. CurrentNamed'
    BY <1>1, NextCurrentNamed
  <2>3. TypeInv' /\ AssemblerTypeOK'
    BY <1>1, AssemblerStep, NextTypeInv, NextAssemblerTypeOK DEF SectionInv
  <2> QED BY <2>1, <2>2, <2>3 DEF SectionInv
<1> QED BY <1>1

LEMMA InitSectionInv == AssemblerInit => SectionInv
<1> SUFFICES ASSUME AssemblerInit PROVE SectionInv
  OBVIOUS
<1>1. TypeInv /\ assembled = << >> /\ running \in BOOLEAN
  BY InitTypeInv DEF AssemblerInit
<1>2. AssemblerTypeOK
  BY <1>1, EmptySeq, InitTypeOK DEF AssemblerTypeOK, AssemblerInit
<1>3. FixedSections
  <2>1. sections = InitialSections
    BY DEF AssemblerInit, Init
  <2>2. Len(InitialSections) = 8
    BY DEF InitialSections
  <2> QED BY <2>1, <2>2 DEF FixedSections
<1>4. CurrentNamed
  <2>1. Nth(sections, curr_section).name = "shstrtab"
    BY DEF AssemblerInit, Init, InitialSections, Section, Nth
  <2>2. SectionIn(assembled, Len(assembled)) = "shstrtab"
    <3>1. Len(assembled) = 0 /\ 1..0 = {}
      BY <1>1, EmptySeq
    <3> QED BY <3>1 DEF SectionIn
  <2> QED BY <2>1, <2>2, ProgramIsAssembled DEF CurrentNamed
<1> QED BY <1>1, <1>2, <1>3, <1>4 DEF SectionInv

(* The nodes that were there stay where they were.                          *)
LEMMA AssembledAppend ==
  ASSUME SectionInv, NEW n \in Nodes, Assembled(n)
  PROVE  /\ Len(assembled) \in Nat /\ DOMAIN assembled = 1..Len(assembled)
         /\ DOMAIN assembled' = 1..(Len(assembled) + 1)
         /\ \A k \in 1..Len(assembled) : assembled'[k] = assembled[k]
         /\ assembled'[Len(assembled) + 1] = n
         /\ \A k \in 1..Len(assembled) :
              SectionIn(assembled', k) = SectionIn(assembled, k)
         /\ SectionIn(assembled', Len(assembled) + 1)
              = IF IsSection(n) THEN n.operands[1]
                ELSE Nth(sections, curr_section).name
<1>1. /\ assembled \in Seq(Nodes) /\ assembled' = Append(assembled, n)
      /\ Nth(sections, curr_section).name = SectionIn(assembled, Len(assembled))
  BY ProgramIsAssembled DEF SectionInv, AssemblerTypeOK, CurrentNamed, Assembled
<1>2. /\ Len(assembled) \in Nat /\ DOMAIN assembled = 1..Len(assembled)
      /\ assembled' \in Seq(Nodes) /\ Len(assembled') = Len(assembled) + 1
      /\ \A k \in 1..Len(assembled) : assembled'[k] = assembled[k]
      /\ assembled'[Len(assembled) + 1] = n
  BY <1>1, LenProperties, AppendProperties
<1>3. DOMAIN assembled' = 1..(Len(assembled) + 1)
  BY <1>2, LenProperties
<1>4. /\ \A k \in 0..Len(assembled) : SectionIn(assembled', k) = SectionIn(assembled, k)
      /\ SectionIn(assembled', Len(assembled) + 1)
           = IF IsSection(n) THEN n.operands[1]
             ELSE SectionIn(assembled, Len(assembled))
  BY <1>1, SectionInAppend
<1>5. \A k \in 1..Len(assembled) : SectionIn(assembled', k) = SectionIn(assembled, k)
  BY <1>2, <1>4
<1> QED BY <1>1, <1>2, <1>3, <1>4, <1>5

LEMMA NextCodeNeedsSection ==
  SectionInv /\ CodeNeedsSection /\ [AssemblerNext]_assemblerVars => CodeNeedsSection'
<1> SUFFICES ASSUME SectionInv, CodeNeedsSection, [AssemblerNext]_assemblerVars
             PROVE  CodeNeedsSection'
  OBVIOUS
<1> DEFINE Bad == {"shstrtab", "strtab", "symtab"}
           Good(prog, k) == /\ \E j \in 1..(k - 1) : IsSection(prog[j])
                            /\ SectionIn(prog, k) \notin Bad
<1>1. \A k \in DOMAIN assembled : IsCode(assembled[k]) => Good(assembled, k)
  BY ProgramIsAssembled DEF CodeNeedsSection
<1>2. CASE UNCHANGED <<sections, tables, curr_section, defined, assembled>>
  <2>1. \A k \in DOMAIN assembled' : IsCode(assembled'[k]) => Good(assembled', k)
    BY <1>1, <1>2
  <2> QED BY <2>1, ProgramIsAssembled DEF CodeNeedsSection
<1>3. CASE \E n \in Nodes : Assembled(n)
  <2>0. PICK n \in Nodes : Assembled(n)
    BY <1>3
  <2>1. /\ Len(assembled) \in Nat /\ DOMAIN assembled = 1..Len(assembled)
        /\ DOMAIN assembled' = 1..(Len(assembled) + 1)
        /\ \A k \in 1..Len(assembled) : assembled'[k] = assembled[k]
        /\ assembled'[Len(assembled) + 1] = n
        /\ \A k \in 1..Len(assembled) : SectionIn(assembled', k) = SectionIn(assembled, k)
        /\ SectionIn(assembled', Len(assembled) + 1)
             = IF IsSection(n) THEN n.operands[1] ELSE Nth(sections, curr_section).name
    BY <2>0, AssembledAppend
  <2>2. ASSUME NEW k \in 1..Len(assembled), IsCode(assembled'[k])
        PROVE  Good(assembled', k)
    <3>1. Good(assembled, k)
      BY <1>1, <2>1, <2>2
    <3>2. PICK j \in 1..(k - 1) : IsSection(assembled[j])
      BY <3>1
    <3>3. assembled'[j] = assembled[j]
      BY <2>1, <3>2
    <3> QED BY <2>1, <3>1, <3>2, <3>3
  <2>3. ASSUME IsCode(n)
        PROVE  Good(assembled', Len(assembled) + 1)
    <3>1. AddProgbits(<< Encode(n) >>) /\ ~IsSection(n)
      BY <2>0, <2>3 DEF Assembled
    <3>2. Nth(sections, curr_section).name \notin Bad
      <4>1. Nth(sections, curr_section).type = "PROGBITS"
        BY <3>1 DEF AddProgbits
      <4>2. curr_section + 1 \in 1..8
        BY FixedNames DEF SectionInv
      <4> QED BY <4>1, <4>2, FixedNames DEF SectionInv, Nth
    <3>3. SectionIn(assembled', Len(assembled) + 1) \notin Bad
      BY <2>1, <3>1, <3>2
    <3>4. \E j \in 1..Len(assembled) : IsSection(assembled'[j])
      <4>1. SectionIn(assembled, Len(assembled)) # "shstrtab"
        BY <3>2, ProgramIsAssembled DEF SectionInv, CurrentNamed
      <4>2. {j \in 1..Len(assembled) : IsSection(assembled[j])} # {}
        BY <4>1 DEF SectionIn
      <4> QED BY <2>1, <4>2
    <3> QED BY <2>1, <3>3, <3>4
  <2>4. \A k \in DOMAIN assembled' : IsCode(assembled'[k]) => Good(assembled', k)
    <3> HIDE DEF Good
    <3>1. \A k \in 1..(Len(assembled) + 1) : k \in 1..Len(assembled) \/ k = Len(assembled) + 1
      BY <2>1
    <3> QED BY <2>1, <2>2, <2>3, <3>1
  <2> QED BY <2>4, ProgramIsAssembled DEF CodeNeedsSection
<1> QED BY <1>2, <1>3, AssemblerCases

(* No instruction is ever encoded into the section or symbol tables, however *)
(* the program moves between sections: without a directive first it is an    *)
(* exception (assembler_test.cpp:688, elf.cpp:405-421).                      *)
THEOREM CodeNeedsSectionCorrect == AssemblerSpec => []CodeNeedsSection
<1>1. AssemblerInit => CodeNeedsSection
  BY DEF AssemblerInit, CodeNeedsSection
<1> QED BY <1>1, InitSectionInv, NextSectionInv, NextCodeNeedsSection, PTL
        DEF AssemblerSpec

(* What an assembled node can be: a section of the constructor's, a label,  *)
(* an instruction with a byte or one that is passed over.                   *)
NodesTaken ==
    \A k \in DOMAIN assembled :
      /\ IsSection(assembled[k]) => assembled[k].operands[1] \in InitialNames
      /\ \/ IsCode(assembled[k]) \/ IsLabel(assembled[k]) \/ IsSection(assembled[k])
         \/ Ignored(assembled[k])

LEMMA NextNodesTaken ==
  SectionInv /\ NodesTaken /\ [AssemblerNext]_assemblerVars => NodesTaken'
<1> SUFFICES ASSUME SectionInv, NodesTaken, [AssemblerNext]_assemblerVars
             PROVE  NodesTaken'
  OBVIOUS
<1> DEFINE Taken(n) == /\ IsSection(n) => n.operands[1] \in InitialNames
                       /\ IsCode(n) \/ IsLabel(n) \/ IsSection(n) \/ Ignored(n)
<1>1. \A k \in DOMAIN assembled : Taken(assembled[k])
  BY DEF NodesTaken
<1>2. ASSUME NEW n \in Nodes, Assembled(n)
      PROVE  Taken(n)
  <2>1. ASSUME IsSection(n)
        PROVE  n.operands[1] \in InitialNames
    <3>1. HasSection(n.operands[1])
      BY <1>2, <2>1 DEF Assembled, SetSection
    <3>2. \A i \in DOMAIN sections : sections[i].name \in InitialNames
      <4>1. DOMAIN sections = 1..8 /\ FixedSections
        BY FixedNames DEF SectionInv
      <4>2. \A i \in 1..8 : InitialSections[i].name \in InitialNames
        BY DEF InitialSections, Section, InitialNames
      <4> QED
        BY <4>1, <4>2, Zenon DEF FixedSections
    <3> QED
      BY <3>1, <3>2, Zenon DEF HasSection
  <2>2. IsCode(n) \/ IsLabel(n) \/ IsSection(n) \/ Ignored(n)
    BY <1>2, Zenon DEF Assembled
  <2> QED
    BY <2>1, <2>2, Zenon
<1> HIDE DEF Taken
<1>3. ASSUME NEW n \in Nodes, Assembled(n)
      PROVE  \A k \in DOMAIN assembled' : Taken(assembled'[k])
  <2>1. /\ Len(assembled) \in Nat /\ DOMAIN assembled = 1..Len(assembled)
        /\ DOMAIN assembled' = 1..(Len(assembled) + 1)
        /\ \A k \in 1..Len(assembled) : assembled'[k] = assembled[k]
        /\ assembled'[Len(assembled) + 1] = n
    BY <1>3, AssembledAppend
  <2>2. Taken(n)
    BY <1>2, <1>3
  <2>3. \A k \in DOMAIN assembled' : k \in 1..Len(assembled) \/ k = Len(assembled) + 1
    BY <2>1
  <2> QED
    BY <1>1, <2>1, <2>2, <2>3, Zenon
<1>4. assembled' = assembled => \A k \in DOMAIN assembled' : Taken(assembled'[k])
  BY <1>1, Zenon
<1>5. \A k \in DOMAIN assembled' : Taken(assembled'[k])
  BY <1>3, <1>4, AssemblerCases, Zenon
<1> QED
  BY <1>5, Zenon DEF NodesTaken, Taken

(* A byte goes to the end of the current section, whose name is the one the *)
(* program is at: names are unique, so it is added to the code of that one. *)
LEMMA NextBytes ==
  SectionInv /\ BytesInProgramOrder /\ [AssemblerNext]_assemblerVars
    => BytesInProgramOrder'
<1> SUFFICES ASSUME SectionInv, BytesInProgramOrder, [AssemblerNext]_assemblerVars
             PROVE  BytesInProgramOrder'
  OBVIOUS
<1> DEFINE Code(prog, name) == FlattenSeq(CodePieces(prog, name))
<1>1. /\ DOMAIN sections = 1..8 /\ curr_section \in 0..7
      /\ \A i, j \in 1..8 : sections[i].name = sections[j].name => i = j
      /\ DOMAIN sections' = 1..8
      /\ \A i \in 1..8 : sections'[i].name = sections[i].name
  <2>1. SectionInv'
    BY NextSectionInv
  <2>2. DOMAIN sections' = 1..8
    BY <2>1, LenProperties DEF SectionInv, TypeInv, ObjectTypeOK, FixedSections
  <2> QED BY <2>2, FixedNames, NextFixed DEF SectionInv
<1>2. \A i \in 1..8 : /\ sections[i].data = Code(assembled, sections[i].name)
                      /\ sections[i].data \in Seq(0..255)
  <2>1. \A i \in 1..8 : sections[i] \in ObjectSection
    BY ElementOfSeq DEF SectionInv, TypeInv, ObjectTypeOK, FixedSections
  <2> QED BY <1>1, <2>1, ProgramIsAssembled DEF BytesInProgramOrder, ObjectSection
<1>3. CASE UNCHANGED <<sections, tables, curr_section, defined, assembled>>
  <2>1. \A i \in DOMAIN sections' : sections'[i].data = Code(assembled', sections'[i].name)
    BY <1>1, <1>2, <1>3
  <2> QED BY <2>1, ProgramIsAssembled DEF BytesInProgramOrder
<1>4. CASE \E n \in Nodes : Assembled(n)
  <2>0. PICK n \in Nodes : Assembled(n)
    BY <1>4
  <2> DEFINE here == Nth(sections, curr_section).name
             new(name) == IF IsCode(n) /\ here = name THEN << Encode(n) >> ELSE << >>
  <2>1. \A name : Code(assembled', name) = Code(assembled, name) \o new(name)
    <3>1. assembled \in Seq(Nodes) /\ assembled' = Append(assembled, n)
      BY <2>0 DEF Assembled, SectionInv, AssemblerTypeOK
    <3>2. SectionIn(assembled, Len(assembled)) = here
      BY ProgramIsAssembled DEF SectionInv, CurrentNamed
    <3> HIDE DEF here
    <3> QED BY <3>1, <3>2, CodeAppend
  <2>2. ASSUME NEW i \in 1..8
        PROVE  sections'[i].data = sections[i].data \o new(sections[i].name)
    <3>1. sections[i].data \o << >> = sections[i].data
      BY <1>2, ConcatEmptySeq
    <3>2. CASE IsCode(n)
      <4>1. << Encode(n) >> \in Chunks /\ AddProgbits(<< Encode(n) >>)
        BY <2>0, <3>2 DEF Assembled
      <4>2. sections'[i].data = IF i = curr_section + 1
                                  THEN sections[i].data \o << Encode(n) >>
                                  ELSE sections[i].data
        BY <4>1, ProgbitsAdded DEF SectionInv, FixedSections
      <4>3. i = curr_section + 1 <=> here = sections[i].name
        <5>1. curr_section + 1 \in 1..8
          BY <1>1
        <5> QED BY <1>1, <5>1 DEF Nth
      <4> HIDE DEF here
      <4> QED BY <3>1, <3>2, <4>2, <4>3
    <3>3. CASE ~IsCode(n)
      <4>1. sections'[i].data = sections[i].data
        <5>1. CASE SetSection(n.operands[1])
          BY <5>1 DEF SetSection
        <5>2. CASE n.name \in SymNames /\ AddSymbol(n.name, 0, FALSE)
          <6>1. /\ Len(sections) = 8 /\ TypeInv
                /\ 0 \in Values /\ FALSE \in SymRelocatable
            BY NodesAssumption DEF SectionInv, FixedSections
          <6> QED BY <5>2, <6>1, SymbolAdded
        <5>3. CASE UNCHANGED vars
          BY <5>3 DEF vars
        <5> QED BY <2>0, <3>3, <5>1, <5>2, <5>3 DEF Assembled
      <4> HIDE DEF here
      <4> QED BY <3>1, <3>3, <4>1
    <3> QED BY <3>2, <3>3
  <2>3. ASSUME NEW i \in 1..8
        PROVE  sections'[i].data = Code(assembled', sections'[i].name)
    <3> HIDE DEF new
    <3>1. sections'[i].data = Code(assembled, sections[i].name) \o new(sections[i].name)
      BY <1>2, <2>2
    <3>2. sections'[i].data = Code(assembled', sections[i].name)
      BY <2>1, <3>1
    <3> QED BY <1>1, <3>2
  <2> QED BY <1>1, <2>3, ProgramIsAssembled DEF BytesInProgramOrder
<1> QED BY <1>3, <1>4, AssemblerCases

LEMMA InitBytes == AssemblerInit => BytesInProgramOrder
<1> SUFFICES ASSUME AssemblerInit PROVE BytesInProgramOrder
  OBVIOUS
<1>1. assembled = << >>
  BY DEF AssemblerInit
<1>2. \A name : FlattenSeq(CodePieces(assembled, name)) = << >>
  <2> TAKE name
  <2>1. CodePieces(assembled, name) = << >>
    BY <1>1 DEF CodePieces
  <2> QED BY <2>1, EmptySeq DEF FlattenSeq
<1>3. \A i \in 1..8 : sections[i].data = << >>
  <2>1. /\ sections[1].data = << >> /\ sections[2].data = << >>
        /\ sections[3].data = << >> /\ sections[4].data = << >>
        /\ sections[5].data = << >> /\ sections[6].data = << >>
        /\ sections[7].data = << >> /\ sections[8].data = << >>
    BY DEF AssemblerInit, Init, InitialSections, Section
  <2> QED BY <2>1
<1>4. DOMAIN sections = 1..8
  BY DEF AssemblerInit, Init, InitialSections
<1> QED BY <1>2, <1>3, <1>4, ProgramIsAssembled DEF BytesInProgramOrder

(* Every section holds the code written under it, in the order of the        *)
(* program, however often the program moves between sections and however     *)
(* many calls it took (assembler.cpp:14-83, elf.cpp:405-421).                *)
THEOREM BytesInProgramOrderCorrect == AssemblerSpec => []BytesInProgramOrder
BY InitBytes, InitSectionInv, NextSectionInv, NextBytes, PTL DEF AssemblerSpec

(* The labels of the program and the symbols of the table go together.      *)
LabelInv == SectionInv /\ BoundInv /\ LabelsBound

LabelsIn(prog) == {k \in DOMAIN prog : IsLabel(prog[k])}

(* What a symbol of the table says does not change.                         *)
LEMMA SymbolsStay ==
  ASSUME 8 <= ShndxMod, SectionInv, BoundInv, [AssemblerNext]_assemblerVars
  PROVE  /\ Len(symbols) \in Nat /\ Len(symbols') \in Nat
         /\ Len(symbols') >= Len(symbols)
         /\ \A s \in 2..Len(symbols) :
              /\ Nth(strings', symbols'[s].st_name) = Nth(strings, symbols[s].st_name)
              /\ Nth(sections', symbols'[s].st_shndx).name
                   = Nth(sections, symbols[s].st_shndx).name
<1>1. /\ symbols \in Seq(Symbol) /\ Len(symbols) \in Nat
      /\ strings \in Seq(AllStrings) /\ Len(strings) \in Nat
      /\ DOMAIN strings = 1..Len(strings)
      /\ Len(sections) = 8 /\ TypeInv
      /\ curr_section \in Nat
  BY LenProperties DEF SectionInv, TypeInv, ObjectTypeOK, FixedSections
<1>2. /\ DOMAIN defined = 1..Len(defined) /\ Len(defined) \in Nat
      /\ Len(symbols) = Len(defined) + 1
  BY LenProperties DEF BoundInv, TypeInv, ObjectTypeOK, SymbolTableConsistent
<1>3. ASSUME NEW s \in 2..Len(symbols)
      PROVE  /\ symbols[s].st_name + 1 \in 1..Len(strings)
             /\ Nth(sections', symbols[s].st_shndx).name
                  = Nth(sections, symbols[s].st_shndx).name
  <2>1. PICK k \in 1..Len(defined) : s = k + 1
    <3>1. s - 1 \in 1..Len(defined) /\ s = (s - 1) + 1
      BY <1>2
    <3> QED BY <3>1
  <2>2. symbols[k + 1].st_name + 1 \in 1..Len(strings)
    BY <1>1, <1>2 DEF BoundInv, SymbolTableConsistent
  <2>3. symbols[k + 1].st_shndx \in 0..7
    <3>1. defined[k] \in Definition
      BY <2>1, ElementOfSeq DEF BoundInv, TypeInv, ObjectTypeOK
    <3>2. defined[k].section \in 0..7
      BY <1>1, <1>2, <3>1, SMTT(30) DEF BoundInv, SymbolsBound, Definition
    <3>3. symbols[k + 1].st_shndx = defined[k].section
      BY <1>2, <3>2, BoundsAssumption DEF BoundInv, SymbolsBound
    <3> QED BY <3>2, <3>3
  <2>4. Nth(sections', symbols[k + 1].st_shndx).name
          = Nth(sections, symbols[k + 1].st_shndx).name
    <3>1. symbols[k + 1].st_shndx + 1 \in 1..8
      BY <2>3
    <3> QED BY <3>1, NextFixed DEF Nth
  <2> QED BY <2>1, <2>2, <2>4
<1>4. CASE UNCHANGED <<strings, symbols>>
  BY <1>1, <1>3, <1>4
<1>5. ASSUME NEW n \in Nodes, n.name \in SymNames, AddSymbol(n.name, 0, FALSE)
      PROVE  /\ Len(symbols') = Len(symbols) + 1
             /\ \A s \in 1..Len(symbols) : symbols'[s] = symbols[s]
             /\ \A i \in 1..Len(strings) : strings'[i] = strings[i]
  <2>1. /\ strings' = Append(strings, n.name)
        /\ symbols' = Append(symbols, NewSymbol(0))
    BY <1>5 DEF AddSymbol
  <2>2. n.name \in AllStrings /\ NewSymbol(0) \in Symbol
    BY <1>1, <1>5, BoundsAssumption DEF AllStrings, NewSymbol, Symbol
  <2> QED BY <1>1, <2>1, <2>2, AppendProperties
<1>6. ASSUME NEW n \in Nodes, Assembled(n), IsLabel(n)
      PROVE  /\ Len(symbols') = Len(symbols) + 1
             /\ \A s \in 2..Len(symbols) :
                  /\ Nth(strings', symbols'[s].st_name) = Nth(strings, symbols[s].st_name)
                  /\ Nth(sections', symbols'[s].st_shndx).name
                       = Nth(sections, symbols[s].st_shndx).name
  <2>1. n.name \in SymNames /\ AddSymbol(n.name, 0, FALSE)
    BY <1>6 DEF Assembled
  <2>2. /\ Len(symbols') = Len(symbols) + 1
        /\ \A s \in 1..Len(symbols) : symbols'[s] = symbols[s]
        /\ \A i \in 1..Len(strings) : strings'[i] = strings[i]
    BY <1>5, <2>1
  <2> QED BY <1>1, <1>3, <2>2 DEF Nth
<1>7. ASSUME NEW n \in Nodes, Assembled(n), ~IsLabel(n)
      PROVE  UNCHANGED <<strings, symbols>>
  BY <1>7 DEF Assembled, SetSection, AddProgbits, vars, tables
<1>8. CASE \E n \in Nodes : Assembled(n) /\ IsLabel(n)
  BY <1>1, <1>6, <1>8
<1>9. UNCHANGED <<strings, symbols>> \/ \E n \in Nodes : Assembled(n) /\ IsLabel(n)
  BY <1>7, AssemblerCases DEF tables
<1> QED BY <1>4, <1>8, <1>9

LEMMA NextLabelsBound ==
  ASSUME 8 <= ShndxMod, SectionInv, BoundInv, LabelsBound,
         [AssemblerNext]_assemblerVars
  PROVE  LabelsBound'
<1> DEFINE Labelled(prog, syms, strs, secs, k) ==
             \E s \in 2..Len(syms) :
               /\ Nth(strs, syms[s].st_name) = prog[k].name
               /\ Nth(secs, syms[s].st_shndx).name = SectionIn(prog, k)
<1>1. /\ Len(symbols) \in Nat /\ Len(symbols') \in Nat
      /\ Len(symbols') >= Len(symbols)
      /\ \A s \in 2..Len(symbols) :
           /\ Nth(strings', symbols'[s].st_name) = Nth(strings, symbols[s].st_name)
           /\ Nth(sections', symbols'[s].st_shndx).name
                = Nth(sections, symbols[s].st_shndx).name
  BY SymbolsStay
<1>2. /\ Len(symbols) = Cardinality(LabelsIn(assembled)) + 1
      /\ \A k \in LabelsIn(assembled) : Labelled(assembled, symbols, strings, sections, k)
  BY ProgramIsAssembled DEF LabelsBound, LabelsIn
<1>3. SUFFICES
        /\ Len(symbols') = Cardinality(LabelsIn(assembled')) + 1
        /\ \A k \in LabelsIn(assembled') :
             Labelled(assembled', symbols', strings', sections', k)
  BY ProgramIsAssembled DEF LabelsBound, LabelsIn
<1>4. CASE UNCHANGED <<sections, tables, curr_section, defined, assembled>>
  <2>1. UNCHANGED <<sections, symbols, strings, assembled>>
    BY <1>4 DEF tables
  <2> HIDE DEF Labelled
  <2> QED BY <1>2, <2>1
<1>5. CASE \E n \in Nodes : Assembled(n)
  <2>0. PICK n \in Nodes : Assembled(n)
    BY <1>5
  <2>1. PICK l \in Nat : l = Len(assembled)
    BY LenProperties DEF SectionInv, AssemblerTypeOK
  <2>2. /\ DOMAIN assembled = 1..l /\ DOMAIN assembled' = 1..(l + 1)
        /\ \A k \in 1..l : assembled'[k] = assembled[k]
        /\ assembled'[l + 1] = n
        /\ \A k \in 1..l : SectionIn(assembled', k) = SectionIn(assembled, k)
        /\ ~IsSection(n) =>
             SectionIn(assembled', l + 1) = Nth(sections, curr_section).name
    BY <2>0, <2>1, AssembledAppend
  <2>3. LabelsIn(assembled') = IF IsLabel(n) THEN LabelsIn(assembled) \cup {l + 1}
                                             ELSE LabelsIn(assembled)
    <3>1. \A k \in 1..(l + 1) : k \in 1..l \/ k = l + 1
      OBVIOUS
    <3>2. \A k \in 1..l : k \in 1..(l + 1)
      OBVIOUS
    <3> QED BY <2>2, <3>1, <3>2 DEF LabelsIn
  <2>4. ASSUME NEW k \in LabelsIn(assembled)
        PROVE  Labelled(assembled', symbols', strings', sections', k)
    <3>1. k \in 1..l
      BY <2>2 DEF LabelsIn
    <3>2. PICK s \in 2..Len(symbols) :
             /\ Nth(strings, symbols[s].st_name) = assembled[k].name
             /\ Nth(sections, symbols[s].st_shndx).name = SectionIn(assembled, k)
      BY <1>2
    <3>3. s \in 2..Len(symbols')
      BY <1>1
    <3> QED BY <1>1, <2>2, <3>1, <3>2, <3>3
  <2>5. CASE ~IsLabel(n)
    <3>1. UNCHANGED symbols
      BY <2>0, <2>5 DEF Assembled, SetSection, AddProgbits, vars, tables
    <3> HIDE DEF Labelled
    <3> QED BY <1>2, <2>3, <2>4, <2>5, <3>1
  <2>6. CASE IsLabel(n)
    <3>1. n.name \in SymNames /\ AddSymbol(n.name, 0, FALSE) /\ ~IsSection(n)
      BY <2>0, <2>6 DEF Assembled
    <3>2. /\ Len(symbols') = Len(symbols) + 1
          /\ symbols'[Len(symbols) + 1] = NewSymbol(0)
          /\ Len(strings) \in Nat /\ strings'[Len(strings) + 1] = n.name
      <4>1. /\ symbols \in Seq(Symbol) /\ strings \in Seq(AllStrings)
            /\ Len(strings) \in Nat /\ curr_section \in Nat
        BY LenProperties DEF SectionInv, TypeInv, ObjectTypeOK
      <4>2. n.name \in AllStrings /\ NewSymbol(0) \in Symbol
        BY <3>1, <4>1, BoundsAssumption DEF AllStrings, NewSymbol, Symbol
      <4>3. /\ strings' = Append(strings, n.name)
            /\ symbols' = Append(symbols, NewSymbol(0))
        BY <3>1 DEF AddSymbol
      <4> QED BY <4>1, <4>2, <4>3, AppendProperties
    <3>3. /\ Nth(sections', curr_section).name = Nth(sections, curr_section).name
          /\ NewSymbol(0).st_shndx = curr_section
          /\ NewSymbol(0).st_name = Len(strings)
      <4>1. curr_section \in 0..7
        BY FixedNames DEF SectionInv
      <4>2. curr_section + 1 \in 1..8
        BY <4>1
      <4>3. Nth(sections', curr_section).name = Nth(sections, curr_section).name
        BY <4>2, NextFixed DEF Nth
      <4>4. curr_section % ShndxMod = curr_section
        BY <4>1, BoundsAssumption
      <4> QED BY <4>3, <4>4 DEF NewSymbol
    <3>4. Labelled(assembled', symbols', strings', sections', l + 1)
      <4>1. Len(symbols) + 1 \in 2..Len(symbols')
        <5>1. Len(symbols) >= 1
          BY LenProperties DEF BoundInv, SymbolTableConsistent, TypeInv, ObjectTypeOK
        <5> QED BY <1>1, <3>2, <5>1
      <4>2. Nth(strings', symbols'[Len(symbols) + 1].st_name) = assembled'[l + 1].name
        BY <2>2, <3>2, <3>3 DEF Nth
      <4>3. Nth(sections', symbols'[Len(symbols) + 1].st_shndx).name
              = SectionIn(assembled', l + 1)
        BY <2>2, <3>1, <3>2, <3>3
      <4> QED BY <4>1, <4>2, <4>3
    <3>5. Cardinality(LabelsIn(assembled) \cup {l + 1}) = Cardinality(LabelsIn(assembled)) + 1
      <4>1. LabelsIn(assembled) \in SUBSET (1..l) /\ l + 1 \notin LabelsIn(assembled)
        BY <2>2 DEF LabelsIn
      <4>2. IsFiniteSet(LabelsIn(assembled))
        <5>1. IsFiniteSet(1..l)
          BY <2>2, FS_Interval
        <5> QED BY <4>1, <5>1, FS_Subset
      <4> QED BY <4>1, <4>2, FS_AddElement
    <3>6. Cardinality(LabelsIn(assembled)) \in Nat
      <4>1. LabelsIn(assembled) \in SUBSET (1..l)
        BY <2>2 DEF LabelsIn
      <4>2. IsFiniteSet(LabelsIn(assembled))
        <5>1. IsFiniteSet(1..l)
          BY <2>2, FS_Interval
        <5> QED BY <4>1, <5>1, FS_Subset
      <4> QED BY <4>2, FS_CardinalityType
    <3> HIDE DEF Labelled
    <3> QED BY <1>2, <2>3, <2>4, <2>6, <3>2, <3>4, <3>5, <3>6
  <2> QED BY <2>5, <2>6
<1> QED BY <1>4, <1>5, AssemblerCases

LEMMA InitLabelInv == AssemblerInit => LabelInv
<1> SUFFICES ASSUME AssemblerInit PROVE LabelInv
  OBVIOUS
<1>1. BoundInv
  <2>1. SymbolsBound
    BY DEF AssemblerInit, Init, SymbolsBound
  <2> QED BY <2>1, InitTypeInv, InitSymbolTable DEF BoundInv, AssemblerInit
<1>2. LabelsBound
  <2>1. assembled = << >> /\ Len(symbols) = 1
    BY DEF AssemblerInit, Init
  <2>2. {k \in DOMAIN assembled : IsLabel(assembled[k])} = {}
    BY <2>1
  <2> QED BY <2>1, <2>2, FS_EmptySet DEF LabelsBound
<1> QED BY <1>1, <1>2, InitSectionInv DEF LabelInv

LEMMA NextLabelInv ==
  ASSUME 8 <= ShndxMod
  PROVE  LabelInv /\ [AssemblerNext]_assemblerVars => LabelInv'
<1>1. BoundInv /\ [AssemblerNext]_assemblerVars => BoundInv'
  BY AssemblerStep, NextTypeInv, NextSymbolTable, NextSymbolsBound DEF BoundInv
<1> QED BY <1>1, NextSectionInv, NextLabelsBound DEF LabelInv

(* The symbol table holds exactly the labels of the program, each bound to   *)
(* the section it was written under, whatever calls failed over a label      *)
(* defined twice - where st_shndx has room for the sections the constructor  *)
(* makes (assembler.cpp:34-78).                                              *)
THEOREM LabelsBoundCorrect ==
  ASSUME 8 <= ShndxMod
  PROVE  AssemblerSpec => []LabelsBound
<1>1. LabelInv /\ [AssemblerNext]_assemblerVars => LabelInv'
  BY NextLabelInv
<1>2. LabelInv => LabelsBound
  BY DEF LabelInv
<1> QED BY <1>1, <1>2, InitLabelInv, PTL DEF AssemblerSpec

----------------------------------------------------------------------------
(* The encodings. *)

Instruction(type, args) == [id |-> "INSTRUCTION", type |-> type, args |-> args]
RegisterArg(reg) == [id |-> "REGISTER", reg |-> reg]
DRegisterArg(reg) == [id |-> "DREGISTER", reg |-> reg]

(* What the parser builds of an instruction whose code is emitted: a type    *)
(* and arguments, a register one its letters, and nothing else that two      *)
(* nodes could differ in (parser.hpp, InstructionNode and RegisterNode).     *)
InstructionsAsParsed ==
    \A n \in Nodes : IsCode(n) =>
      \E type \in {n.type} :
        \/ n = Instruction(type, << >>)
        \/ \E reg \in DOMAIN RegisterCode :
             n = Instruction(type, << RegisterArg(reg) >>)
        \/ \E reg \in DOMAIN DRegisterCode :
             n = Instruction(type, << DRegisterArg(reg) >>)

WithRegister == {"sub", "and", "xor", "or", "cp"}

CodeOfNone(n, type) ==
    n = Instruction(type, << >>) /\ Encode(n) = InstructionNone[type]
CodeOfRegister(n, type, reg) ==
    /\ n = Instruction(type, << RegisterArg(reg) >>)
    /\ Encode(n) = 8 * OpcodeRA[type] + RegisterCode[reg]
CodeOfDRegister(n, type, reg) ==
    /\ n = Instruction(type, << DRegisterArg(reg) >>)
    /\ Encode(n) = OpcodeD[type] + 16 * DRegisterCode[reg]

LEMMA CodeForms ==
  ASSUME InstructionsAsParsed, NEW n \in Nodes, IsCode(n), ~IsIncDec(n)
  PROVE  \/ \E type \in DOMAIN InstructionNone : CodeOfNone(n, type)
         \/ \E type \in WithRegister, reg \in DOMAIN RegisterCode :
              CodeOfRegister(n, type, reg)
         \/ \E type \in DOMAIN OpcodeD, reg \in DOMAIN DRegisterCode :
              CodeOfDRegister(n, type, reg)
<1>1. CASE n = Instruction(n.type, << >>)
  <2>1. n.args = << >> /\ Len(n.args) = 0
    BY <1>1 DEF Instruction
  <2>2. Encode(n) = InstructionNone[n.type]
    <3>1. ~HasRegister(n) /\ ~HasDRegister(n)
      BY <2>1 DEF HasRegister, HasDRegister
    <3> QED BY <2>1, <3>1 DEF Encode
  <2>3. n.type \in DOMAIN InstructionNone
    BY <2>1 DEF IsCode, Emits, HasRegister, HasDRegister
  <2> QED BY <1>1, <2>2, <2>3 DEF CodeOfNone
<1>2. CASE \E reg \in DOMAIN RegisterCode :
             n = Instruction(n.type, << RegisterArg(reg) >>)
  <2>1. PICK reg \in DOMAIN RegisterCode :
          n = Instruction(n.type, << RegisterArg(reg) >>)
    BY <1>2
  <2>2. /\ Len(n.args) = 1 /\ n.args[1].id = "REGISTER" /\ n.args[1].reg = reg
    BY <2>1 DEF Instruction, RegisterArg
  <2>3. HasRegister(n)
    BY <2>2 DEF IsCode, Emits, HasDRegister
  <2>4. n.type \notin {"inc", "dec"}
    BY <2>3 DEF IsIncDec
  <2>5. n.type \in WithRegister
    <3>1. n.type \in DOMAIN OneOperand /\ "REGISTER" \in OneOperand[n.type]
      BY <2>3 DEF HasRegister
    <3> QED BY <2>4, <3>1 DEF OneOperand, WithRegister
  <2>6. Encode(n) = InstructionRA(n.type, reg)
    <3>1. ~HasDRegister(n) /\ Len(n.args) # 0
      BY <2>2 DEF HasDRegister
    <3> QED BY <2>2, <2>3, <2>4, <3>1 DEF Encode
  <2> QED BY <2>1, <2>5, <2>6 DEF CodeOfRegister, InstructionRA
<1>3. CASE \E reg \in DOMAIN DRegisterCode :
             n = Instruction(n.type, << DRegisterArg(reg) >>)
  <2>1. PICK reg \in DOMAIN DRegisterCode :
          n = Instruction(n.type, << DRegisterArg(reg) >>)
    BY <1>3
  <2>2. Len(n.args) = 1 /\ n.args[1].id = "DREGISTER" /\ n.args[1].reg = reg
    BY <2>1 DEF Instruction, DRegisterArg
  <2>3. HasDRegister(n) /\ ~HasRegister(n)
    BY <2>2 DEF IsCode, Emits, HasRegister
  <2>4. n.type \in DOMAIN OpcodeD
    <3>1. n.type \in DOMAIN OneOperand /\ "DREGISTER" \in OneOperand[n.type]
      BY <2>3 DEF HasDRegister
    <3> QED BY <3>1 DEF OneOperand, OpcodeD
  <2>5. Encode(n) = InstructionD(n.type, reg)
    BY <2>2, <2>3 DEF Encode
  <2> QED BY <2>1, <2>4, <2>5 DEF CodeOfDRegister, InstructionD
<1> QED BY <1>1, <1>2, <1>3 DEF InstructionsAsParsed

(* Each table of codes is one to one, and no two of the tables overlap.      *)
LEMMA NoneCodes ==
  /\ \A s, t \in DOMAIN InstructionNone :
       InstructionNone[s] = InstructionNone[t] => s = t
  /\ \A t \in DOMAIN InstructionNone :
       InstructionNone[t] \in {0, 7, 15, 16, 23, 31, 39, 47, 55, 63, 118,
                               201, 217, 243, 251}
BY DEF InstructionNone

LEMMA RegisterCodes ==
  /\ \A s, t \in WithRegister : OpcodeRA[s] = OpcodeRA[t] => s = t
  /\ \A t \in WithRegister : OpcodeRA[t] \in 18..23
  /\ \A q, r \in DOMAIN RegisterCode : RegisterCode[q] = RegisterCode[r] => q = r
  /\ \A r \in DOMAIN RegisterCode : RegisterCode[r] \in 0..7
BY DEF OpcodeRA, WithRegister, RegisterCode

LEMMA DRegisterCodes ==
  /\ \A s, t \in DOMAIN OpcodeD : OpcodeD[s] = OpcodeD[t] => s = t
  /\ \A t \in DOMAIN OpcodeD : OpcodeD[t] \in {3, 11, 193, 197}
  /\ \A q, r \in DOMAIN DRegisterCode : DRegisterCode[q] = DRegisterCode[r] => q = r
  /\ \A r \in DOMAIN DRegisterCode : DRegisterCode[r] \in 0..3
BY DEF OpcodeD, DRegisterCode

LEMMA EncodedOnce ==
  ASSUME InstructionsAsParsed,
         NEW m \in Nodes, IsCode(m), ~IsIncDec(m),
         NEW n \in Nodes, IsCode(n), ~IsIncDec(n),
         Encode(m) = Encode(n)
  PROVE  m = n
<1> DEFINE
  None(x) == \E type \in DOMAIN InstructionNone : CodeOfNone(x, type)
  Single(x) == \E type \in WithRegister, reg \in DOMAIN RegisterCode :
                 CodeOfRegister(x, type, reg)
  Double(x) == \E type \in DOMAIN OpcodeD, reg \in DOMAIN DRegisterCode :
                 CodeOfDRegister(x, type, reg)
<1>1. (None(m) \/ Single(m) \/ Double(m)) /\ (None(n) \/ Single(n) \/ Double(n))
  BY CodeForms
<1>2. \A x : None(x) => Encode(x) \in {0, 7, 15, 16, 23, 31, 39, 47, 55, 63, 118,
                                       201, 217, 243, 251}
  BY NoneCodes DEF CodeOfNone
<1>3. \A x : Single(x) => Encode(x) \in 144..191
  BY RegisterCodes DEF CodeOfRegister
<1>4. \A x : Double(x) => Encode(x) \in {3, 11, 19, 27, 35, 43, 51, 59, 193, 197,
                                         209, 213, 225, 229, 241, 245}
  <2>1. \A c \in {3, 11, 193, 197}, r \in 0..3 :
          c + 16 * r \in {3, 11, 19, 27, 35, 43, 51, 59, 193, 197,
                          209, 213, 225, 229, 241, 245}
    OBVIOUS
  <2> QED BY <2>1, DRegisterCodes DEF CodeOfDRegister
<1>5. CASE None(m) /\ None(n)
  BY <1>5, NoneCodes DEF CodeOfNone
<1>6. CASE Single(m) /\ Single(n)
  <2>1. PICK s \in WithRegister, q \in DOMAIN RegisterCode : CodeOfRegister(m, s, q)
    BY <1>6
  <2>2. PICK t \in WithRegister, r \in DOMAIN RegisterCode : CodeOfRegister(n, t, r)
    BY <1>6
  <2>3. 8 * OpcodeRA[s] + RegisterCode[q] = 8 * OpcodeRA[t] + RegisterCode[r]
    BY <2>1, <2>2 DEF CodeOfRegister
  <2>4. OpcodeRA[s] = OpcodeRA[t] /\ RegisterCode[q] = RegisterCode[r]
    BY <2>3, RegisterCodes
  <2>5. s = t /\ q = r
    BY <2>4, RegisterCodes
  <2> QED BY <2>1, <2>2, <2>5 DEF CodeOfRegister
<1>7. CASE Double(m) /\ Double(n)
  <2>1. PICK s \in DOMAIN OpcodeD, q \in DOMAIN DRegisterCode : CodeOfDRegister(m, s, q)
    BY <1>7
  <2>2. PICK t \in DOMAIN OpcodeD, r \in DOMAIN DRegisterCode : CodeOfDRegister(n, t, r)
    BY <1>7
  <2>3. OpcodeD[s] + 16 * DRegisterCode[q] = OpcodeD[t] + 16 * DRegisterCode[r]
    BY <2>1, <2>2 DEF CodeOfDRegister
  <2>4. OpcodeD[s] = OpcodeD[t] /\ DRegisterCode[q] = DRegisterCode[r]
    BY <2>3, DRegisterCodes
  <2>5. s = t /\ q = r
    BY <2>4, DRegisterCodes
  <2> QED BY <2>1, <2>2, <2>5 DEF CodeOfDRegister
<1> HIDE DEF None, Single, Double
<1> QED BY <1>1, <1>2, <1>3, <1>4, <1>5, <1>6, <1>7

LEMMA EncodingUnambiguousInv ==
  ASSUME InstructionsAsParsed, \A k \in DOMAIN assembled : assembled[k] \in Nodes
  PROVE  EncodingUnambiguous
<1> SUFFICES ASSUME NEW j \in DOMAIN assembled, NEW k \in DOMAIN assembled,
                    IsCode(assembled[j]), ~IsIncDec(assembled[j]),
                    IsCode(assembled[k]), ~IsIncDec(assembled[k]),
                    Encode(assembled[j]) = Encode(assembled[k])
             PROVE  assembled[j] = assembled[k]
  BY DEF EncodingUnambiguous
<1> QED BY EncodedOnce

(* The encoder mixes up no two instructions of a program, INC and DEC of a   *)
(* register apart (assembler.cpp:133-235, assembler.hpp:20-80).              *)
THEOREM EncodingUnambiguousCorrect ==
  ASSUME InstructionsAsParsed
  PROVE  AssemblerSpec => []EncodingUnambiguous
<1>1. AssemblerTypeOK => EncodingUnambiguous
  <2> SUFFICES ASSUME AssemblerTypeOK PROVE EncodingUnambiguous
    OBVIOUS
  <2>1. assembled \in Seq(Nodes)
    BY DEF AssemblerTypeOK
  <2>2. \A k \in DOMAIN assembled : assembled[k] \in Nodes
    BY <2>1, ElementOfSeq, LenProperties
  <2> QED BY <2>2, EncodingUnambiguousInv
<1> QED BY <1>1, AssemblerTypeCorrect, PTL

=============================================================================
