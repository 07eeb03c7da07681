----------------------------- MODULE ObjectFile -----------------------------
(***************************************************************************)
(* What class ELF promises its callers, without tables, indices or         *)
(* headers: sections by name that only grow at their end, one of them      *)
(* current, and symbols that are defined once, in the section current at   *)
(* that moment.  Read off ELF::set_section, add_section, add_symbol and    *)
(* add_progbits; a call that throws without effect is a step of no change. *)
(***************************************************************************)
EXTENDS Integers, Sequences

CONSTANTS
    InitialContent, \* the sections of a new object file, all empty
    InitialCurrent, \* the section current in a new object file
    SectionNames, SymbolNames, SymbolValues, Data

VARIABLES
    content, \* the bytes of each section there is, by name
    symtab,  \* the section and value of each defined symbol, by name
    current  \* the name of the current section

vars == <<content, symtab, current>>

Init ==
    /\ content = InitialContent
    /\ symtab = << >>
    /\ current = InitialCurrent

Select(name) ==
    /\ name \in DOMAIN content
    /\ current' = name
    /\ UNCHANGED <<content, symtab>>

(* add_section makes one section, or one and its relocation section. *)
Create(names) ==
    /\ names \cap DOMAIN content = {}
    /\ content' = [n \in DOMAIN content \cup names |->
                     IF n \in names THEN << >> ELSE content[n]]
    /\ UNCHANGED <<symtab, current>>

Define(name, value) ==
    /\ name \notin DOMAIN symtab
    /\ symtab' = [s \in DOMAIN symtab \cup {name} |->
                    IF s = name THEN [section |-> current, value |-> value]
                    ELSE symtab[s]]
    /\ UNCHANGED <<content, current>>

Emit(bytes) ==
    /\ content' = [content EXCEPT ![current] = @ \o bytes]
    /\ UNCHANGED <<symtab, current>>

Next ==
    \/ \E name \in SectionNames : Select(name)
    \/ \E names \in SUBSET SectionNames : Create(names)
    \/ \E name \in SymbolNames, value \in SymbolValues : Define(name, value)
    \/ \E bytes \in Data : Emit(bytes)

Spec == Init /\ [][Next]_vars
=============================================================================
