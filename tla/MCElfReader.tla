---------------------------- MODULE MCElfReader ----------------------------
(* Small instances of ElfReader for TLC: files of two sections, whose name  *)
(* table follows the section headers and is followed by another section, is *)
(* the end of the file, or lies before the headers; whole and cut short.    *)
EXTENDS ElfReader

N == NUL
Tables == {<< N >>, << N, N >>, << N, "a", N >>, << N, "a", N, "b", "c", N >>,
           << N, "a", N, N, "b", N >>, << N, "a", "b" >>, << "a", N >>, << >>}
Rests == {<< >>, << N >>, << "x", N >>}

File(length, order, shoff, shstrndx, table, base, bytes) ==
    LET names == [offset |-> base, size |-> Len(table)]
        null == [offset |-> 0, size |-> 0]
    IN [length |-> length, ident |-> "elf", class |-> 32, order |-> order,
        shoff |-> shoff, shnum |-> 2, shstrndx |-> shstrndx,
        shtab |-> IF shstrndx = 0 THEN << names, null >> ELSE << null, names >>,
        base |-> base, bytes |-> bytes]

NamesLast ==
    {File(132 + Len(table \o rest), order, 52, n, table, 132, table \o rest) :
       table \in Tables, rest \in Rests, order \in {"host", "other"}, n \in {0, 1}}
NamesFirst ==
    {File(132 + Len(table), "host", 52 + Len(table), 1, table, 52, table) : table \in Tables}
Cut ==
    {[f EXCEPT !.length = n] :
       f \in {g \in NamesLast \cup NamesFirst : g.order = "host"},
       n \in {0, 51, 52, 53, 92, 131, 132, 133, 134}}
Others ==
    {[f EXCEPT !.ident = "other"] : f \in NamesFirst}
    \cup {[f EXCEPT !.class = 64] : f \in NamesFirst}

MCFiles == NamesLast \cup NamesFirst \cup Others
           \cup {f \in Cut : f.length < f.base + Len(f.bytes)}
=============================================================================
