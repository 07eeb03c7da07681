------------------------------ MODULE MCDriver ------------------------------
(* A small instance of Driver for TLC: two lines of any of the kinds the    *)
(* parts treat differently after a directive, three of them in any order,   *)
(* and one program of every instruction that is encoded.                    *)
EXTENDS Driver

MCStrSize(s) == Len(s)
MCRelName(s) == "rel" \o s
MCNoSections == {}
MCAtoi(tok) == 5
MCChunks == {<<b>> : b \in 0..255}

Blank == << >>
InText == << ".section", " ", "te", "xt" >>
InData == << " ", ".section", " ", "data", ";", ":" >>
InSymtab == << ".section", " ", "symtab" >>
InNowhere == << ".section", " ", "a" >>
InTextNop == << ".section", " ", "te", "xt", " ", "nop" >>
InTextEOF == << ".section", " ", "te", "xt", " ", "EOF" >>
Nop == << "nop" >>
SubA == << "sub", " ", "a", " ", ";" >>
PushBC == << "push", " ", ",", "bc" >>
LdAB == << "ld", " ", "a", ",", "b" >>
SubEOF == << "sub", " ", "a", " ", "EOF" >>
SubMinus == << "sub", "-" >>
A == << "a" >>
EOFLine == << "EOF" >>
EOFDirective == << "EOF", " ", ".section", " ", "te", "xt" >>
EOFInText == << ".section", " ", "te", "xt", " ", "EOF", " ", ".section", " ", "te", "xt" >>
NopComma == << "nop", "," >>
NopEOLNop == << "nop", " ", "EOL", " ", "nop" >>
Jp == << "jp" >>
SubFive == << "sub", " ", "5" >>
Label == << "a", ":" >>

Lines == {Blank, InText, InData, InNowhere, InTextNop, InTextEOF, Nop, SubA, PushBC, LdAB,
          SubEOF, SubMinus, A, EOFLine, NopEOLNop, Jp, SubFive, Label, EOFDirective,
          EOFInText, NopComma}
Moves == {InText, InData, InSymtab, Nop, SubA}

Plain == << "rlca", "rla", "rrca", "rra", "daa", "scf", "cpl", "ccf", "ret", "nop", "stop",
            "halt", "di", "ei" >>
Applied(insts, operands) ==
    FlattenSeq([i \in DOMAIN insts |->
                  [k \in DOMAIN operands |-> << insts[i], " ", operands[k] >>]])
Encoded ==
    [i \in DOMAIN Plain |-> << Plain[i] >>]
    \o Applied(<< "sub", "and", "xor", "or", "cp" >>,
               << "a", "b", "c", "d", "e", "h", "l" >>)
    \o Applied(<< "inc", "dec", "push", "pop" >>, << "bc", "de", "hl", "af" >>)

MCTexts ==
    {<< >>, << Nop >>} \cup {<< InText, l, m >> : l, m \in Lines}
    \cup {<< l, m, n, o >> : l, m, n, o \in Moves}
    \cup {<< InText >> \o Encoded}

(* The nodes those texts are parsed into, and more. *)
Eol == [id |-> "LABEL", name |-> "EOL"]
Operands ==
    {RegisterNode(reg) : reg \in P!Registers \cup P!DRegisters}
    \cup {Eol, [id |-> "LABEL", name |-> "EOF"], [id |-> "NUMBER", value |-> 5],
          [id |-> "UNARY_OP", operand |-> Eol]}
MCNodes ==
    {[id |-> "DIRECTIVE", type |-> "SECTION", operands |-> << name >>] :
       name \in {"text", "data", "symtab", "a"}}
    \cup {[id |-> "LABEL", name |-> "a"]}
    \cup {[id |-> "INSTRUCTION", type |-> inst, args |-> << >>] : inst \in P!NoOperands}
    \cup {[id |-> "INSTRUCTION", type |-> inst, args |-> << m >>] :
            inst \in P!OneOperand \cup P!OneOrTwoOperands, m \in Operands}
    \cup {[id |-> "INSTRUCTION", type |-> inst, args |-> << m, n >>] :
            inst \in {"ld", "sub"}, m, n \in Operands}

Invocation(only, input) == [only |-> only, input |-> input]
MCInvocations ==
    {Invocation(only, input) : only \in {"neither", "tokenize", "parse", "both"},
                               input \in {"none", "missing", "there"}}
=============================================================================
