----------------------------- MODULE Assembler -----------------------------
(***************************************************************************)
(* Assembler::assemble of src/src/assembler.cpp on the object of module    *)
(* Elf: the nodes under the root are taken one by one, and the first that  *)
(* throws ends the call with everything before it already in the object.   *)
(* A caller that catches the exception, or has another tree, may assemble  *)
(* into the same object again.                                             *)
(*                                                                         *)
(* A node is a record with the id of its NodeType.  A directive has a type *)
(* and operands, a label a name, an instruction a type and args; an arg is *)
(* a node too, a register one with the letters of its register.  As in     *)
(* module Parser the lexeme of an instruction stands for its type.  The    *)
(* tree is chosen node by node, as assemble never looks ahead.             *)
(***************************************************************************)
EXTENDS Elf, SequencesExt

CONSTANTS
    Nodes,    \* the nodes a tree may have under its root
    MaxNodes  \* bound on the nodes assembled

VARIABLES
    running,   \* assemble has been called and has not returned
    assembled  \* history: the nodes assembled to their end, in all calls

assemblerVars == <<vars, running, assembled>>

----------------------------------------------------------------------------
(* Encodings *)

(* Faulty variant of RegisterCode: l has the code of h.                     *)
RegisterCodeTwice == [b |-> 0, c |-> 1, d |-> 2, e |-> 3, h |-> 4, l |-> 4, a |-> 7]

RegisterCode == [b |-> 0, c |-> 1, d |-> 2, e |-> 3, h |-> 4, l |-> 5, a |-> 7]
DRegisterCode == [bc |-> 0, de |-> 1, hl |-> 2, af |-> 3]

InstructionNone ==
    [nop |-> 0, stop |-> 16, rlca |-> 7, rla |-> 23, daa |-> 39, scf |-> 55,
     rrca |-> 15, rra |-> 31, cpl |-> 47, ccf |-> 63, halt |-> 118, di |-> 243,
     ret |-> 201, reti |-> 217, ei |-> 251]

OpcodeRA == [sub |-> 18, sbc |-> 19, and |-> 20, xor |-> 21, or |-> 22, cp |-> 23]
OpcodeD == [inc |-> 3, dec |-> 11, pop |-> 193, push |-> 197]

InstructionRA(type, reg) == 8 * OpcodeRA[type] + RegisterCode[reg]
InstructionD(type, dreg) == OpcodeD[type] + 16 * DRegisterCode[dreg]

(* encodeRegister(reg) | 4 and encodeRegister(reg) | 5 *)
InstructionR(type, reg) ==
    CASE type = "inc" -> 4 + (RegisterCode[reg] % 4)
      [] type = "dec" -> 5 + 2 * ((RegisterCode[reg] \div 2) % 2)

(* The formats of one operand, by type; those of none are the types of      *)
(* InstructionNone.  LD, JR, RET, JP, CALL and the accumulator operations   *)
(* also have formats of two operands, which assembleInstruction never       *)
(* consults.                                                                *)
OneOperand ==
    [inc |-> {"REGISTER", "DREGISTER"}, dec |-> {"REGISTER", "DREGISTER"},
     sub |-> {"REGISTER"}, and |-> {"REGISTER"}, xor |-> {"REGISTER"},
     or |-> {"REGISTER"}, cp |-> {"REGISTER"}, pop |-> {"DREGISTER"},
     push |-> {"DREGISTER"}, jr |-> {"IMM8"}, jp |-> {"IMM16"},
     call |-> {"IMM16"}]
Formats == DOMAIN InstructionNone \cup DOMAIN OneOperand \cup {"ld"}

HasRegister(n) ==
    /\ Len(n.args) = 1 /\ n.args[1].id = "REGISTER"
    /\ n.type \in DOMAIN OneOperand /\ "REGISTER" \in OneOperand[n.type]
    /\ n.args[1].reg \in DOMAIN RegisterCode
HasDRegister(n) ==
    /\ Len(n.args) = 1 /\ n.args[1].id = "DREGISTER"
    /\ n.type \in DOMAIN OneOperand /\ "DREGISTER" \in OneOperand[n.type]
    /\ n.args[1].reg \in DOMAIN DRegisterCode

(* A number, label or expression finds no format that emits it: what is     *)
(* encoded for a number is dropped, and the search ends in an exception.    *)
Emits(n) ==
    \/ Len(n.args) = 0 /\ n.type \in DOMAIN InstructionNone
    \/ HasRegister(n)
    \/ HasDRegister(n)

Encode(n) ==
    CASE Len(n.args) = 0 -> InstructionNone[n.type]
      [] HasRegister(n) /\ n.type \in {"inc", "dec"} ->
           InstructionR(n.type, n.args[1].reg)
      [] HasRegister(n) /\ n.type \notin {"inc", "dec"} ->
           InstructionRA(n.type, n.args[1].reg)
      [] HasDRegister(n) -> InstructionD(n.type, n.args[1].reg)

(* Neither bytes nor an exception. *)
Ignored(n) ==
    \/ Len(n.args) = 0 /\ n.type \notin Formats
    \/ Len(n.args) = 2

(* Module Elf describes the calls that nodes lead to.                       *)
ASSUME NodesAssumption ==
    /\ 0 \in Values /\ FALSE \in SymRelocatable
    /\ \A n \in Nodes :
         /\ n.id = "DIRECTIVE" /\ n.type = "SECTION" => n.operands[1] \in Selected
         /\ n.id = "LABEL" => n.name \in SymNames
         /\ n.id = "INSTRUCTION" /\ Emits(n) => << Encode(n) >> \in Chunks

----------------------------------------------------------------------------
(* assemble *)

AssemblerInit == Init /\ running = FALSE /\ assembled = << >>

Assemble ==
    /\ ~running /\ running' = TRUE
    /\ UNCHANGED <<vars, assembled>>

Return ==
    /\ running /\ running' = FALSE
    /\ UNCHANGED <<vars, assembled>>

(* A node ends with its effect on the object, or ends the call.             *)
Done(n) ==
    /\ Len(assembled) < MaxNodes
    /\ assembled' = Append(assembled, n)
    /\ UNCHANGED running
Abort == running' = FALSE /\ UNCHANGED assembled

AssembleDirective(n) ==
    /\ n.id = "DIRECTIVE" /\ n.type = "SECTION"
    /\ \/ SetSection(n.operands[1]) /\ Done(n)
       \/ SetMissingSection(n.operands[1]) /\ Abort

AssembleLabel(n) ==
    /\ n.id = "LABEL"
    /\ \/ AddSymbol(n.name, 0, FALSE) /\ Done(n)
       \/ AddDuplicateSymbol(n.name) /\ Abort

AssembleInstruction(n) ==
    /\ n.id = "INSTRUCTION"
    /\ \/ Emits(n) /\ AddProgbits(<< Encode(n) >>) /\ Done(n)
       \/ Emits(n) /\ AddProgbitsElsewhere /\ Abort
       \/ Ignored(n) /\ UNCHANGED vars /\ Done(n)
       \/ ~Emits(n) /\ ~Ignored(n) /\ UNCHANGED vars /\ Abort

(* Directives of other types and nodes of other kinds: "Invalid node".      *)
AssembleOther(n) ==
    /\ \/ n.id = "DIRECTIVE" /\ n.type # "SECTION"
       \/ n.id \notin {"DIRECTIVE", "LABEL", "INSTRUCTION"}
    /\ UNCHANGED vars /\ Abort

AssembleNode(n) ==
    /\ running
    /\ \/ AssembleDirective(n) \/ AssembleLabel(n)
       \/ AssembleInstruction(n) \/ AssembleOther(n)

AssemblerNext == Assemble \/ Return \/ \E n \in Nodes : AssembleNode(n)

AssemblerSpec == AssemblerInit /\ [][AssemblerNext]_assemblerVars

----------------------------------------------------------------------------

AssemblerTypeOK ==
    /\ TypeOK
    /\ running \in BOOLEAN
    /\ assembled \in Seq(Nodes)

(* Properties *)

IsSection(n) == n.id = "DIRECTIVE"
IsLabel(n) == n.id = "LABEL"
IsCode(n) == n.id = "INSTRUCTION" /\ Emits(n)

(* The section the k-th node was assembled into: the one named last before  *)
(* it, in this call of assemble or in one before, or the ELF's first.       *)
SectionAt(k) ==
    LET named == {j \in 1..k : IsSection(assembled[j])}
    IN IF named = {} THEN "shstrtab" ELSE assembled[Max(named)].operands[1]

CodeOf(name) ==
    FlattenSeq([k \in DOMAIN assembled |->
                  IF IsCode(assembled[k]) /\ SectionAt(k) = name
                    THEN << Encode(assembled[k]) >> ELSE << >>])

(* Every section holds the code written under it, in the order of the       *)
(* program, however the program moves between sections and however many     *)
(* calls of assemble, some cut short by an exception, it took               *)
(* (assembler.cpp:14-83, elf.cpp:405-421).                                  *)
BytesInProgramOrder ==
    \A i \in DOMAIN sections : sections[i].data = CodeOf(sections[i].name)

(* No instruction is ever encoded into a section that is not for program    *)
(* data: without a directive first it is an exception                       *)
(* (assembler_test.cpp:688 "Without setting the section first, we expect    *)
(* and exception due to invalid section type").                             *)
CodeNeedsSection ==
    \A k \in DOMAIN assembled : IsCode(assembled[k]) =>
      /\ \E j \in 1..(k - 1) : IsSection(assembled[j])
      /\ SectionAt(k) \notin {"shstrtab", "strtab", "symtab"}

(* The symbol table holds exactly the labels of the program, each once and  *)
(* bound to the section it was written under, whatever calls failed over a  *)
(* label defined twice (assembler.cpp:34-78).                               *)
LabelsBound ==
    LET labels == {k \in DOMAIN assembled : IsLabel(assembled[k])} IN
    /\ Len(symbols) = Cardinality(labels) + 1
    /\ \A k \in labels : \E s \in 2..Len(symbols) :
         /\ Nth(strings, symbols[s].st_name) = assembled[k].name
         /\ Nth(sections, symbols[s].st_shndx).name = SectionAt(k)

IsIncDec(n) == HasRegister(n) /\ n.type \in {"inc", "dec"}

(* The encoder mixes up no two instructions, so the bytes of a section      *)
(* determine the program: except for INC and DEC of a register, of which    *)
(* more below (assembler.cpp:133-235, assembler.hpp:20-80).                 *)
EncodingUnambiguous ==
    \A j, k \in DOMAIN assembled :
      LET m == assembled[j]  n == assembled[k] IN
        (/\ IsCode(m) /\ ~IsIncDec(m)
         /\ IsCode(n) /\ ~IsIncDec(n)
         /\ Encode(m) = Encode(n)) => m = n

(* The same with INC and DEC of a register, which assembler.cpp:169-172     *)
(* describes as reg <- op reg: the byte has to say which register.          *)
RegisterEncoded ==
    \A j, k \in DOMAIN assembled :
      LET m == assembled[j]  n == assembled[k] IN
        (IsCode(m) /\ IsCode(n) /\ Encode(m) = Encode(n)) => m = n
=============================================================================
