------------------------------- MODULE Parser -------------------------------
(***************************************************************************)
(* Parser::parse of src/src/parser.cpp: recursive descent over a list of   *)
(* tokens.  A step is one turn of the loop of program(), so one statement; *)
(* the functions below it are operators on positions, which give the node  *)
(* and the position after it as the only element of a set, and the empty   *)
(* set where the code throws a ParserException.                            *)
(*                                                                         *)
(* Tokens are strings.  Words are the tokens isLabel takes for a name when *)
(* they are no instruction; the registers are among them, and so are the   *)
(* sentinels EOL and EOF.  A node is a record, as in module Assembler; the *)
(* lexeme of an instruction stands for its InstructionType.                *)
(***************************************************************************)
EXTENDS Integers, SequencesExt

CONSTANTS
    Inputs,      \* the token lists to parse
    Words,       \* tokens of letters, digits and '_' that start with a letter
    Directives,  \* tokens of the shape isDirective accepts
    Numbers,     \* tokens of digits
    Atoi(_)      \* atoi of such a token

Comma == ","
MadeUp == " "  \* what peek gives after the last token

VARIABLES
    tokens,  \* mTokens
    mPos,    \* mPos, from 0
    lines,   \* lines: the nodes parsed so far
    spans,   \* history: the positions each of them was parsed between
    status   \* running, done, or the exception parse ended with

vars == <<tokens, mPos, lines, spans, status>>

Registers == {"a", "f", "b", "c", "d", "e", "h", "l"}
DRegisters == {"af", "bc", "de", "hl", "sp", "pc"}

(* The instructions, by the numbers of operands each may have.              *)
NoOperands ==
    {"rlca", "rla", "rrca", "rra", "daa", "scf", "cpl", "ccf", "ret", "jp",
     "call", "nop", "stop", "halt", "di", "ei"}
OneOperand ==
    {"inc", "and", "xor", "or", "cp", "dec", "rlc", "rl", "rrc", "rr", "push",
     "pop", "rst", "sla", "sra", "swap", "srl"}
TwoOperands == {"add", "adc", "sbc", "ld", "ldi", "ldd", "bit", "res", "set"}
OneOrTwoOperands == {"sub", "jr"}
Instructions == NoOperands \cup OneOperand \cup TwoOperands \cup OneOrTwoOperands

(* The tokens of digits are no others, and neither they nor the names have  *)
(* punctuation or begin with it.                                            *)
ASSUME TokensAssumption ==
    /\ (Words \cup Numbers) \cap {Comma, MadeUp} = {}
    /\ Numbers \cap (Words \cup Registers \cup DRegisters \cup Instructions) = {}
    /\ (Words \cup Numbers) \cap {"-", "+", "*", "/", ":", ".section"} = {}
    /\ \A tok \in Numbers : Atoi(tok) \in Int
    /\ \A list \in Inputs : list \in Seq(Range(list))

Arity(inst) ==
    CASE inst \in NoOperands -> {0}
      [] inst \in OneOperand -> {1}
      [] inst \in TwoOperands -> {2}
      [] inst \in OneOrTwoOperands -> {1, 2}

IsLabel(tok) == tok \in Words \ Instructions

----------------------------------------------------------------------------
(* Expressions and operands *)

Peek(p) == IF p < Len(tokens) THEN tokens[p + 1] ELSE MadeUp

Parsed(node, p) == [node |-> node, pos |-> p]

LabelNode(tok) == [id |-> "LABEL", name |-> tok]
(* Faulty variant of NumberNode: a number wider than its byte.              *)
NumberNodeWide(tok) == [id |-> "NUMBER", value |-> Atoi(tok)]
NumberNode(tok) == [id |-> "NUMBER", value |-> Atoi(tok) % 256]
NegNode(operand) == [id |-> "UNARY_OP", operand |-> operand]
(* Faulty variant of OpNode: takes the operands off a stack.                *)
OpNodeSwapped(op, left, right) ==
    [id |-> "BINARY_OP", op |-> op, left |-> right, right |-> left]
OpNode(op, left, right) ==
    [id |-> "BINARY_OP", op |-> op, left |-> left, right |-> right]

Primary(p) ==
    {Parsed(LabelNode(tok), p + 1) : tok \in {Peek(p)} \cap (Words \ Instructions)}
    \cup {Parsed(NumberNode(tok), p + 1) : tok \in {Peek(p)} \cap Numbers}

Unary[p \in Nat] ==
    IF Peek(p) = "-"
      THEN {Parsed(NegNode(operand.node), operand.pos) : operand \in Unary[p + 1]}
      ELSE Primary(p)

(* Faulty variant of MultiplicationOps: any operator isNumericOp knows.     *)
MultiplicationOpsAll == {"*", "/", "+", "-"}

MultiplicationOps == {"*", "/"}
AdditionOps == {"+", "-"}
NumericOps == MultiplicationOps \cup AdditionOps

(* The loops of multiplication() and addition() from p, by the turns taken; *)
(* one that is over stays as it is, and none takes as many turns as there   *)
(* are tokens.                                                              *)
Turns(ops, Arg, p) ==
    LET turns[n \in 0..Len(tokens)] ==
          IF n = 0 THEN Arg[p]
          ELSE UNION {IF Peek(left.pos) \in ops
                        THEN {Parsed(OpNode(Peek(left.pos), left.node, right.node), right.pos) :
                                right \in Arg[left.pos + 1]}
                        ELSE {left} : left \in turns[n - 1]}
    IN turns
Multiplication == [p \in Nat |-> Turns(MultiplicationOps, Unary, p)[Len(tokens)]]
Addition == [p \in Nat |-> Turns(AdditionOps, Multiplication, p)[Len(tokens)]]

Operand(p) ==
    CASE Peek(p) \in Registers ->
           {Parsed([id |-> "REGISTER", reg |-> Peek(p)], p + 1)}
      [] Peek(p) \in DRegisters ->
           {Parsed([id |-> "DREGISTER", reg |-> Peek(p)], p + 1)}
      [] OTHER -> Addition[p]

(* The loop of instruction(): commas are skipped wherever they are, and it  *)
(* ends at a newline or after three operands.                               *)
SkipCommas(p) == Min({q \in p..Len(tokens) : Peek(q) # Comma})
NextOperand(rests) ==
    UNION {LET p == SkipCommas(rest.pos)
           IN IF Peek(p) = "EOL" THEN {[args |-> rest.args, pos |-> p]}
              ELSE {[args |-> Append(rest.args, operand.node), pos |-> operand.pos] :
                      operand \in Operand(p)} : rest \in rests}
Operands(p) == NextOperand(NextOperand(NextOperand({[args |-> << >>, pos |-> p]})))

Instruction(p) ==
    {Parsed([id |-> "INSTRUCTION", type |-> Peek(p), args |-> rest.args], rest.pos) :
       rest \in {r \in Operands(p + 1) : Len(r.args) \in Arity(Peek(p))}}

----------------------------------------------------------------------------
(* program *)

Init ==
    /\ tokens \in Inputs
    /\ mPos = 0 /\ lines = << >> /\ spans = << >> /\ status = "running"

Statement(parsed) ==
    /\ lines' = Append(lines, parsed.node)
    /\ spans' = Append(spans, << mPos, parsed.pos >>)
    /\ mPos' = parsed.pos
    /\ UNCHANGED <<tokens, status>>
Throw(exception) ==
    /\ status' = exception /\ UNCHANGED <<tokens, mPos, lines, spans>>

AtStatement == status = "running" /\ Peek(mPos) \notin {"EOF", "EOL"}

(* Faulty variants of SkipNewline: peeks where it should take the token;    *)
(* takes two.                                                               *)
SkipNewlineStuck ==
    /\ status = "running" /\ Peek(mPos) = "EOL" /\ UNCHANGED vars
SkipNewlineTwice ==
    /\ status = "running" /\ Peek(mPos) = "EOL"
    /\ mPos' = mPos + 2 /\ UNCHANGED <<tokens, lines, spans, status>>

SkipNewline ==
    /\ status = "running" /\ Peek(mPos) = "EOL"
    /\ mPos' = mPos + 1 /\ UNCHANGED <<tokens, lines, spans, status>>

ParseDirective ==
    /\ AtStatement /\ Peek(mPos) \in Directives
    /\ \/ Peek(mPos) # ".section" /\ Throw("ParserException")
       \/ /\ Peek(mPos) = ".section" /\ Peek(mPos + 1) = "EOL"
          /\ Throw("ParserException")
       \/ /\ Peek(mPos) = ".section" /\ mPos + 1 >= Len(tokens)
          /\ Throw("out_of_range")
       \/ /\ Peek(mPos) = ".section" /\ Peek(mPos + 1) # "EOL"
          /\ mPos + 1 < Len(tokens)
          /\ Statement(Parsed([id |-> "DIRECTIVE", type |-> "SECTION",
                               operands |-> << Peek(mPos + 1) >>], mPos + 2))

(* The colon that makes the name a label is looked at and left there.       *)
ParseLabel ==
    /\ AtStatement /\ IsLabel(Peek(mPos))
    /\ \/ mPos + 1 >= Len(tokens) /\ Throw("out_of_range")
       \/ /\ mPos + 1 < Len(tokens) /\ Peek(mPos + 1) = ":"
          /\ Statement(Parsed(LabelNode(Peek(mPos)), mPos + 1))
       \/ /\ mPos + 1 < Len(tokens) /\ Peek(mPos + 1) # ":"
          /\ Throw("ParserException")

ParseInstruction ==
    /\ AtStatement /\ Peek(mPos) \in Instructions
    /\ \/ \E parsed \in Instruction(mPos) : Statement(parsed)
       \/ Instruction(mPos) = {} /\ Throw("ParserException")

InvalidToken ==
    /\ AtStatement
    /\ Peek(mPos) \notin Directives \cup Words \cup Instructions
    /\ Throw("ParserException")

Return ==
    /\ status = "running" /\ Peek(mPos) = "EOF"
    /\ status' = "done" /\ UNCHANGED <<tokens, mPos, lines, spans>>

Next == SkipNewline \/ ParseDirective \/ ParseLabel \/ ParseInstruction
        \/ InvalidToken \/ Return

(* parse is one loop in one thread, and nothing in it waits.                *)
Spec == Init /\ [][Next]_vars /\ WF_vars(Next)

----------------------------------------------------------------------------

(* Expression trees, by their depth at most, which is less than the tokens. *)
Leaves == [id : {"LABEL"}, name : Words \ Instructions]
          \cup [id : {"NUMBER"}, value : 0..255]
Trees[d \in 0..Len(tokens)] ==
    Leaves \cup IF d = 0 THEN {} ELSE
      LET sub == Trees[d - 1]
      IN [id : {"UNARY_OP"}, operand : sub]
         \cup [id : {"BINARY_OP"}, op : {"*", "/", "+", "-"}, left : sub, right : sub]

IsRegister(node) ==
    \/ node.id = "REGISTER" /\ node.reg \in Registers
    \/ node.id = "DREGISTER" /\ node.reg \in DRegisters
IsStatement(node) ==
    \/ node.id = "LABEL" /\ IsLabel(node.name)
    \/ node.id = "DIRECTIVE" /\ node.type = "SECTION" /\ Len(node.operands) = 1
    \/ /\ node.id = "INSTRUCTION" /\ Len(node.args) \in Arity(node.type)
       /\ \A i \in DOMAIN node.args :
            IsRegister(node.args[i]) \/ node.args[i] \in Trees[Len(tokens)]

ParserTypeOK ==
    /\ mPos \in Nat /\ Len(spans) = Len(lines)
    /\ \A k \in DOMAIN lines : IsStatement(lines[k])
    /\ status \in {"running", "done", "ParserException", "out_of_range"}

(* On a list that ends the way the tokenizer ends it, the parser never runs *)
(* past its end, where peek() makes up a token and next() throws            *)
(* (parser.cpp:77-89).                                                      *)
StaysInside ==
    IsSuffix(<< "EOL", "EOF" >>, tokens)
      => mPos < Len(tokens) /\ status # "out_of_range"

(* The tokens a node was made of, commas apart; a number is known by its    *)
(* eight bits.                                                              *)
YieldFrom(node, sub) ==
    CASE node.id = "LABEL" -> << node.name >>
      [] node.id = "NUMBER" -> << ToString(node.value) >>
      [] node.id = "UNARY_OP" -> << "-" >> \o sub[node.operand]
      [] node.id = "BINARY_OP" -> sub[node.left] \o << node.op >> \o sub[node.right]
Yields[d \in 0..Len(tokens)] ==
    [node \in Trees[d] |-> YieldFrom(node, Yields[d - 1])]
Yield(node) == IF IsRegister(node) THEN << node.reg >> ELSE Yields[Len(tokens)][node]
YieldOf(node) ==
    CASE node.id = "LABEL" -> << node.name >>
      [] node.id = "DIRECTIVE" -> << ".section" >> \o node.operands
      [] node.id = "INSTRUCTION" ->
           << node.type >> \o FlattenSeq([i \in DOMAIN node.args |-> Yield(node.args[i])])

Written(k) == SubSeq(tokens, spans[k][1] + 1, spans[k][2])
Shown(tok) ==
    CASE tok = Comma -> << >>
      [] tok \in Numbers -> << ToString(Atoi(tok) % 256) >>
      [] OTHER -> << tok >>
WithoutCommas(toks) == FlattenSeq([i \in DOMAIN toks |-> Shown(toks[i])])

(* The tree keeps every token of the program but the commas and newlines,   *)
(* in their order and under the statement they were written in: no operator *)
(* or operand is dropped, duplicated or moved, and nothing but newlines is  *)
(* between the statements (parser.cpp:93-305).                              *)
TreeKeepsTokens ==
    /\ \A k \in DOMAIN lines :
         YieldOf(lines[k]) = IF lines[k].id = "INSTRUCTION"
                               THEN WithoutCommas(Written(k)) ELSE Written(k)
    /\ \A p \in 0..(mPos - 1) :
         Peek(p) = "EOL" \/ \E k \in DOMAIN spans : p \in spans[k][1]..(spans[k][2] - 1)

(* The trees of the grammar at parser.hpp:451-453: "-" before a factor,     *)
(* then "*" and "/", then "+" and "-", those of a level from the left.      *)
Grammar[d \in 0..Len(tokens)] ==
    LET sub == Grammar[d - 1]
        Operation(ops, left, right) ==
          IF d = 0 THEN {}
          ELSE [id : {"BINARY_OP"}, op : ops, left : left, right : right]
        unary == Leaves \cup IF d = 0 THEN {}
                             ELSE [id : {"UNARY_OP"}, operand : sub.unary]
        multiplication == unary \cup Operation({"*", "/"}, sub.multiplication, sub.unary)
        addition == multiplication
                    \cup Operation({"+", "-"}, sub.addition, sub.multiplication)
    IN [unary |-> unary, multiplication |-> multiplication, addition |-> addition]

(* Operators bind as that grammar has it.  With TreeKeepsTokens that leaves *)
(* one tree for an expression.                                              *)
Precedence ==
    \A k \in DOMAIN lines : lines[k].id = "INSTRUCTION" =>
      \A i \in DOMAIN lines[k].args :
        IsRegister(lines[k].args[i])
        \/ lines[k].args[i] \in Grammar[Len(tokens)].addition

(* Whatever the tokens, parse comes to an end (parser.cpp:93-103, 148-157). *)
ParseEnds == <>(status # "running")

(* What parser.hpp:457 says of labels: label -> LABEL ":".  A program of    *)
(* nothing but labels is in the grammar and has to be parsed.               *)
LabelsOnly ==
    /\ Len(tokens) % 3 = 1 /\ tokens[Len(tokens)] = "EOF"
    /\ \A i \in 1..(Len(tokens) - 1) :
         CASE i % 3 = 1 -> IsLabel(tokens[i]) /\ tokens[i] \notin {"EOF", "EOL"}
           [] i % 3 = 2 -> tokens[i] = ":"
           [] i % 3 = 0 -> tokens[i] = "EOL"
LabelsParse == LabelsOnly => status \in {"running", "done"}
=============================================================================
