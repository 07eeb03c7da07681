---------------------------- MODULE MCElfWriter ----------------------------
(* Small instances of ElfWriter for TLC. *)
EXTENDS ElfWriter

MCStrSize(s) == Len(s)
MCRelName(s) == "rel" \o s
MCNewSections == {[name |-> "x", type |-> "PROGBITS", sh_type |-> SHT_PROGBITS],
                  [name |-> "tab", type |-> "STRTAB", sh_type |-> SHT_STRTAB]}
MCChunks == {<<1, 2>>}
=============================================================================
