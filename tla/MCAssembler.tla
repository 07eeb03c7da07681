---------------------------- MODULE MCAssembler ----------------------------
(* Small instances of Assembler for TLC. *)
EXTENDS Assembler

MCStrSize(s) == Len(s)
MCRelName(s) == "rel" \o s
MCNoSections == {}
MCChunks == {<<b>> : b \in 0..255}

Section_(name) == [id |-> "DIRECTIVE", type |-> "SECTION", operands |-> <<name>>]
Label_(name) == [id |-> "LABEL", name |-> name]
Instr(type, args) == [id |-> "INSTRUCTION", type |-> type, args |-> args]
Reg(r) == [id |-> "REGISTER", reg |-> r]
DReg(r) == [id |-> "DREGISTER", reg |-> r]
Number == [id |-> "NUMBER", value |-> 5]

(* Programs that move between sections: code, labels, an instruction that   *)
(* is dropped, and nodes that throw.                                        *)
MCNodes ==
    {Section_("text"), Section_("data"), Section_("symtab"), Section_(".text"),
     Label_("a"), Label_("b"), Instr("nop", << >>), Instr("sub", <<Reg("c")>>),
     Instr("ld", <<Reg("a"), Reg("b")>>), Instr("jp", << >>),
     Number, [id |-> "DIRECTIVE", type |-> "INVALID"]}

(* Every instruction the parser builds with registers, and a sample of      *)
(* those that are dropped or throw.                                         *)
Registers == {"a", "f", "b", "c", "d", "e", "h", "l"}
DRegisters == {"af", "bc", "de", "hl", "sp", "pc"}
MCProgram ==
    {Section_("text")}
    \cup {Instr(t, << >>) : t \in DOMAIN InstructionNone \cup {"rst", "call"}}
    \cup {Instr(t, <<Reg(r)>>) : t \in {"inc", "dec", "sub", "sbc", "and", "xor",
                                        "or", "cp", "rlc"}, r \in Registers}
    \cup {Instr(t, <<DReg(r)>>) : t \in {"inc", "dec", "push", "pop"},
                                  r \in DRegisters}
    \cup {Instr(t, <<Number>>) : t \in {"and", "jr", "jp"}}
=============================================================================
