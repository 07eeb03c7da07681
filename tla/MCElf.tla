------------------------------- MODULE MCElf -------------------------------
(* Small instances of Elf for TLC. *)
EXTENDS Elf

MCStrSize(s) == Len(s)
MCRelName(s) == "rel" \o s

(* A section a program could add, and one that takes the name the first     *)
(* one's relocation section would have.                                     *)
NewX == [name |-> "x", type |-> "PROGBITS", sh_type |-> SHT_PROGBITS]
NewRelX == [name |-> "relx", type |-> "PROGBITS", sh_type |-> SHT_PROGBITS]
MCNewSections == {NewX, NewRelX}

MCChunks == {<<7>>, <<1, 2>>}
MCOneChunk == {<<7>>}
MCNoSections == {}
=============================================================================
