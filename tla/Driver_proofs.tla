---------------------------- MODULE Driver_proofs ----------------------------
(***************************************************************************)
(* Theorems of Driver, for all sources, command lines and character        *)
(* classes: what is proved of the tokenizer, the parser, the assembler and *)
(* the writer one by one holds of the program that main makes of them.     *)
(***************************************************************************)
EXTENDS Driver, Assembler_proofs, ElfWriter_proofs

TP == INSTANCE Tokenizer_proofs WITH
        lines <- read, pos <- column, tokens <- token_list
PP == INSTANCE Parser_proofs WITH
        Inputs <- {}, tokens <- words, Addresses <- {}

-----------------------------------------------------------------------------
(* The parts of Driver are the modules the theorems are about *)

LEMMA SameAssumptions ==
  /\ TP!CharactersAssumption /\ TP!TextsAssumption
  /\ PP!TokensAssumption /\ PP!AddressesAssumption
<1>1. TP!CharactersAssumption /\ TP!TextsAssumption
  BY DriverAssumption, Zenon
     DEF T!CharactersAssumption, TP!CharactersAssumption, T!TextsAssumption,
         TP!TextsAssumption, T!Range, TP!Range, T!Space, TP!Space, T!Semicolon, TP!Semicolon, T!Quote,
         TP!Quote, T!Open, TP!Open, T!Close, TP!Close, T!Comma, TP!Comma
<1>2. PP!TokensAssumption
  BY DriverAssumption, Zenon
     DEF P!TokensAssumption, PP!TokensAssumption, P!Comma, PP!Comma, P!MadeUp, PP!MadeUp,
         P!Registers, PP!Registers, P!DRegisters, PP!DRegisters,
         P!Instructions, PP!Instructions, P!NoOperands, PP!NoOperands,
         P!OneOperand, PP!OneOperand, P!TwoOperands, PP!TwoOperands,
         P!OneOrTwoOperands, PP!OneOrTwoOperands
<1>3. PP!AddressesAssumption
  BY DEF PP!AddressesAssumption
<1> QED
  BY <1>1, <1>2, <1>3

LEMMA SameTokenizer ==
  /\ T!Init <=> TP!Init
  /\ T!Next <=> TP!Next
<1>1. T!Init <=> TP!Init
  BY Zenon DEF T!Init, TP!Init
<1>2. T!GetLine <=> TP!GetLine
  BY Zenon DEF T!GetLine, TP!GetLine
<1>3. T!EndOfInput <=> TP!EndOfInput
  BY Zenon DEF T!EndOfInput, TP!EndOfInput, T!EOF, TP!EOF
<1>4. T!EndToken <=> TP!EndToken
  BY Zenon DEF T!EndToken, TP!EndToken
<1>5. T!EndLine <=> TP!EndLine
  BY Zenon DEF T!EndLine, TP!EndLine, T!EOL, TP!EOL
<1> USE DEF T!line, TP!line, T!AtEnd, TP!AtEnd, T!At, TP!At, T!Skip, TP!Skip,
            T!Keep, TP!Keep, T!Store, TP!Store, T!GoTo, TP!GoTo, T!LineIsOver,
            TP!LineIsOver, T!Throw, TP!Throw, T!Space, TP!Space, T!Semicolon,
            TP!Semicolon, T!Quote, TP!Quote, T!Open, TP!Open, T!Close, TP!Close,
            T!Comma, TP!Comma, T!Symbols, TP!Symbols, T!EndsWord, TP!EndsWord,
            T!Cleared, TP!Cleared
<1>6. T!StartLine <=> TP!StartLine
  BY Zenon DEF T!StartLine, TP!StartLine
<1>7. T!StartToken <=> TP!StartToken
  BY Zenon DEF T!StartToken, TP!StartToken
<1>8. T!StringToken <=> TP!StringToken
  BY Zenon DEF T!StringToken, TP!StringToken
<1>9. T!InToken <=> TP!InToken
  BY Zenon DEF T!InToken, TP!InToken
<1>10. T!Next <=> TP!Next
  BY <1>2, <1>3, <1>4, <1>5, <1>6, <1>7, <1>8, <1>9, Zenon DEF T!Next, TP!Next
<1> QED
  BY <1>1, <1>10

LEMMA SameTokens ==
  /\ TP!TokensTrue => T!TokensTrue
  /\ TP!ErrorsTrue => T!ErrorsTrue
<1> USE DEF T!line, TP!line, T!Space, TP!Space, T!Semicolon,
            TP!Semicolon, T!Quote, TP!Quote, T!Open, TP!Open, T!Close, TP!Close,
            T!Comma, TP!Comma, T!Symbols, TP!Symbols, T!Quotes, TP!Quotes,
            T!InString, TP!InString, T!Min, TP!Min, T!Cardinality, TP!Cardinality,
            T!IsFiniteSet, TP!IsFiniteSet
<1>1. \A l : T!CommentAt(l) = TP!CommentAt(l)
  BY Zenon DEF T!CommentAt, TP!CommentAt
<1>2. \A l, i : T!IsWordChar(l, i) <=> TP!IsWordChar(l, i)
  BY Zenon DEF T!IsWordChar, TP!IsWordChar
<1>3. \A l, i : T!StartsToken(l, i) <=> TP!StartsToken(l, i)
  BY <1>2, Zenon DEF T!StartsToken, TP!StartsToken
<1>4. \A l, i : T!TokenEnd(l, i) = TP!TokenEnd(l, i)
  BY Zenon DEF T!TokenEnd, TP!TokenEnd, T!IsWordChar, TP!IsWordChar
<1>5. \A l, i : T!Offends(l, i) <=> TP!Offends(l, i)
  BY <1>1, <1>2, Zenon DEF T!Offends, TP!Offends
<1>6. TP!ErrorsTrue => T!ErrorsTrue
  BY <1>5, Zenon DEF T!ErrorsTrue, TP!ErrorsTrue, T!Offenders, TP!Offenders,
                     T!Offends, TP!Offends, T!CommentAt, TP!CommentAt,
                     T!IsWordChar, TP!IsWordChar
<1> HIDE DEF T!line, TP!line, T!Space, TP!Space, T!Semicolon,
            TP!Semicolon, T!Quote, TP!Quote, T!Open, TP!Open, T!Close, TP!Close,
            T!Comma, TP!Comma, T!Symbols, TP!Symbols, T!Quotes, TP!Quotes,
            T!InString, TP!InString, T!Min, TP!Min, T!Cardinality, TP!Cardinality,
            T!IsFiniteSet, TP!IsFiniteSet
<1>7. ASSUME NEW S
      PROVE  T!InOrder(S) = TP!InOrder(S)
  BY Zenon DEF T!InOrder, TP!InOrder, T!Ranked, TP!Ranked, T!Cardinality, TP!Cardinality
<1>8. ASSUME NEW ss
      PROVE  T!FlattenSeq(ss) = TP!FlattenSeq(ss)
  BY Zenon DEF T!FlattenSeq, TP!FlattenSeq
<1>9. ASSUME NEW l
      PROVE  T!Code(l) = TP!Code(l)
  BY <1>1, Zenon DEF T!Code, TP!Code
<1>10. ASSUME NEW l
       PROVE  T!TokensOf(l) = TP!TokensOf(l)
  <2> DEFINE S == {i \in DOMAIN l : T!StartsToken(l, i)}
             starts == T!InOrder(S)
  <2>1. S = {i \in DOMAIN l : TP!StartsToken(l, i)}
    BY <1>3
  <2>2. starts = TP!InOrder({i \in DOMAIN l : TP!StartsToken(l, i)})
    BY <1>7, <2>1, Zenon
  <2> HIDE DEF S, starts
  <2>3. [k \in DOMAIN starts |-> SubSeq(l, starts[k], T!TokenEnd(l, starts[k]))]
          = [k \in DOMAIN starts |-> SubSeq(l, starts[k], TP!TokenEnd(l, starts[k]))]
    BY <1>4
  <2> QED
    BY <2>2, <2>3, Zenon DEF T!TokensOf, TP!TokensOf, S, starts
<1>11. TP!TokensTrue => T!TokensTrue
  <2>1. T!EOL = TP!EOL /\ T!EOF = TP!EOF
    BY Zenon DEF T!EOL, TP!EOL, T!EOF, TP!EOF
  <2>2. \A k : T!TokensOf(T!Code(text[k])) = TP!TokensOf(TP!Code(text[k]))
    BY <1>9, <1>10, Zenon
  <2>3. [k \in 1..read |-> Append(T!TokensOf(T!Code(text[k])), T!EOL)]
          = [k \in 1..read |-> Append(TP!TokensOf(TP!Code(text[k])), TP!EOL)]
    BY <2>1, <2>2
  <2> QED
    BY <1>8, <2>1, <2>3, Zenon DEF T!TokensTrue, TP!TokensTrue
<1> QED
  BY <1>6, <1>11
LEMMA SameOperands ==
  /\ \A p : P!Peek(p) = PP!Peek(p)
  /\ \A node, p : P!Parsed(node, p) = PP!Parsed(node, p)
  /\ P!Instructions = PP!Instructions
  /\ \A tok : P!IsLabel(tok) <=> PP!IsLabel(tok)
  /\ \A p : P!Instruction(p) = PP!Instruction(p)
<1>1. \A p : P!Peek(p) = PP!Peek(p)
  BY Zenon DEF P!Peek, PP!Peek, P!MadeUp, PP!MadeUp
<1>2. \A node, p : P!Parsed(node, p) = PP!Parsed(node, p)
  BY Zenon DEF P!Parsed, PP!Parsed
<1>3. P!Instructions = PP!Instructions
  BY Zenon DEF P!Instructions, PP!Instructions, P!NoOperands, PP!NoOperands,
               P!OneOperand, PP!OneOperand, P!TwoOperands, PP!TwoOperands,
               P!OneOrTwoOperands, PP!OneOrTwoOperands
<1>4. \A tok : P!IsLabel(tok) <=> PP!IsLabel(tok)
  BY <1>3, Zenon DEF P!IsLabel, PP!IsLabel
<1>5. \A tok : P!Arity(tok) = PP!Arity(tok)
  BY Zenon DEF P!Arity, PP!Arity, P!NoOperands, PP!NoOperands,
               P!OneOperand, PP!OneOperand, P!TwoOperands, PP!TwoOperands,
               P!OneOrTwoOperands, PP!OneOrTwoOperands
<1>6. P!Unary = PP!Unary
  BY Zenon DEF P!Unary, PP!Unary, P!Primary, PP!Primary, P!Peek, PP!Peek, P!MadeUp,
               PP!MadeUp, P!Parsed, PP!Parsed, P!NegNode, PP!NegNode, P!LabelNode,
               PP!LabelNode, P!NumberNode, PP!NumberNode, P!Instructions,
               PP!Instructions, P!NoOperands, PP!NoOperands, P!OneOperand,
               PP!OneOperand, P!TwoOperands, PP!TwoOperands, P!OneOrTwoOperands,
               PP!OneOrTwoOperands
<1>7. \A ops, Arg, p : P!Turns(ops, Arg, p) = PP!Turns(ops, Arg, p)
  BY Zenon DEF P!Turns, PP!Turns, P!Peek, PP!Peek, P!MadeUp, PP!MadeUp, P!Parsed,
               PP!Parsed, P!OpNode, PP!OpNode
<1>8. P!MultiplicationOps = PP!MultiplicationOps /\ P!AdditionOps = PP!AdditionOps
  BY Zenon DEF P!MultiplicationOps, PP!MultiplicationOps, P!AdditionOps, PP!AdditionOps
<1>9. P!Multiplication = PP!Multiplication
  BY <1>6, <1>7, <1>8 DEF P!Multiplication, PP!Multiplication
<1>10. P!Addition = PP!Addition
  BY <1>7, <1>8, <1>9 DEF P!Addition, PP!Addition
<1>11. P!Registers = PP!Registers /\ P!DRegisters = PP!DRegisters
  BY Zenon DEF P!Registers, PP!Registers, P!DRegisters, PP!DRegisters
<1>12. \A p : P!Operand(p) = PP!Operand(p)
  BY <1>1, <1>2, <1>10, <1>11, Zenon DEF P!Operand, PP!Operand
<1>13. \A p : P!SkipCommas(p) = PP!SkipCommas(p)
  BY Zenon DEF P!SkipCommas, PP!SkipCommas, P!Min, PP!Min, P!Peek, PP!Peek, P!MadeUp,
               PP!MadeUp, P!Comma, PP!Comma
<1>14. ASSUME NEW rests
       PROVE  P!NextOperand(rests) = PP!NextOperand(rests)
  BY <1>1, <1>12, <1>13 DEF P!NextOperand, PP!NextOperand
<1>15. \A p : P!Operands(p) = PP!Operands(p)
  BY <1>14, Zenon DEF P!Operands, PP!Operands
<1>16. ASSUME NEW p
       PROVE  P!Instruction(p) = PP!Instruction(p)
  BY <1>1, <1>2, <1>5, <1>15 DEF P!Instruction, PP!Instruction
<1> QED
  BY <1>1, <1>2, <1>3, <1>4, <1>16, Zenon

LEMMA SameParser == P!Next => PP!Next
<1>1. \A node : P!Statement(node) => PP!Statement(node)
  BY Zenon DEF P!Statement, PP!Statement
<1>2. \A exception : P!Throw(exception) => PP!Throw(exception)
  BY Zenon DEF P!Throw, PP!Throw
<1>3. P!AtStatement => PP!AtStatement
  BY SameOperands, Zenon DEF P!AtStatement, PP!AtStatement
<1>4. P!SkipNewline => PP!SkipNewline
  BY SameOperands, Zenon DEF P!SkipNewline, PP!SkipNewline
<1>5. P!ParseDirective => PP!ParseDirective
  BY <1>1, <1>2, <1>3, SameOperands, Zenon DEF P!ParseDirective, PP!ParseDirective
<1>6. P!ParseLabel => PP!ParseLabel
  BY <1>1, <1>2, <1>3, SameOperands, Zenon
     DEF P!ParseLabel, PP!ParseLabel, P!LabelNode, PP!LabelNode
<1>7. P!ParseInstruction => PP!ParseInstruction
  BY <1>1, <1>2, <1>3, SameOperands, Zenon DEF P!ParseInstruction, PP!ParseInstruction
<1>8. P!InvalidToken => PP!InvalidToken
  BY <1>2, <1>3, SameOperands, Zenon DEF P!InvalidToken, PP!InvalidToken
<1>9. P!Return => PP!Return
  BY SameOperands, Zenon DEF P!Return, PP!Return
<1> QED
  BY <1>4, <1>5, <1>6, <1>7, <1>8, <1>9, Zenon DEF P!Next, PP!Next
LEMMA SameTrees ==
  /\ PP!TreeKeepsTokens => P!TreeKeepsTokens
  /\ PP!Precedence => P!Precedence
<1>1. P!Leaves = PP!Leaves
  BY SameOperands, Zenon DEF P!Leaves, PP!Leaves
<1>2. P!Trees = PP!Trees
  BY <1>1 DEF P!Trees, PP!Trees
<1>3. \A node : P!IsRegister(node) <=> PP!IsRegister(node)
  BY Zenon DEF P!IsRegister, PP!IsRegister, P!Registers, PP!Registers, P!DRegisters,
               PP!DRegisters
<1>4. ASSUME NEW ss
      PROVE  P!FlattenSeq(ss) = PP!FlattenSeq(ss)
  BY Zenon DEF P!FlattenSeq, PP!FlattenSeq
<1>5. ASSUME NEW node, NEW sub
      PROVE  P!YieldFrom(node, sub) = PP!YieldFrom(node, sub)
  BY Zenon DEF P!YieldFrom, PP!YieldFrom
<1>6. P!Yields = PP!Yields
  BY <1>2, <1>5 DEF P!Yields, PP!Yields
<1>7. \A node : P!Yield(node) = PP!Yield(node)
  BY <1>3, <1>6, Zenon DEF P!Yield, PP!Yield
<1>8. ASSUME NEW node
      PROVE  P!YieldOf(node) = PP!YieldOf(node)
  <2>1. [i \in DOMAIN node.args |-> P!Yield(node.args[i])]
          = [i \in DOMAIN node.args |-> PP!Yield(node.args[i])]
    BY <1>7
  <2> QED
    BY <1>4, <2>1, Zenon DEF P!YieldOf, PP!YieldOf
<1>9. \A tok : P!Shown(tok) = PP!Shown(tok)
  BY Zenon DEF P!Shown, PP!Shown, P!Comma, PP!Comma
<1>10. ASSUME NEW toks
       PROVE  P!WithoutCommas(toks) = PP!WithoutCommas(toks)
  <2>1. [i \in DOMAIN toks |-> P!Shown(toks[i])] = [i \in DOMAIN toks |-> PP!Shown(toks[i])]
    BY <1>9
  <2> QED
    BY <1>4, <2>1, Zenon DEF P!WithoutCommas, PP!WithoutCommas
<1>11. \A k : P!Written(k) = PP!Written(k)
  BY Zenon DEF P!Written, PP!Written
<1>12. PP!TreeKeepsTokens => P!TreeKeepsTokens
  BY <1>8, <1>10, <1>11, SameOperands, Zenon DEF P!TreeKeepsTokens, PP!TreeKeepsTokens
<1>13. P!Grammar = PP!Grammar
  BY <1>1 DEF P!Grammar, PP!Grammar
<1>14. PP!Precedence => P!Precedence
  BY <1>3, <1>13, Zenon DEF P!Precedence, PP!Precedence
<1> QED
  BY <1>12, <1>14
-----------------------------------------------------------------------------
(* How far the parts are at each stage of main *)

Assembling == {"assemble", "open", "write"}

(* A part that is not called yet is as it was made, and one that is over    *)
(* has ended without an exception.                                          *)
SourceStages ==
    /\ stage \in {"arguments", "tokenize"} =>
         /\ words = << >> /\ mPos = 0 /\ lines = << >> /\ spans = << >>
         /\ status = "running"
    /\ stage \in {"parse"} \cup Assembling => state = "DONE"
    /\ state = "DONE" => read = Len(text)
    /\ stage \in Assembling => status = "done"
ObjectStages ==
    /\ stage \in {"arguments", "tokenize", "parse"} => ~running /\ assembled = << >>
    /\ stage \in {"open", "write"} => ~running /\ assembled = lines
    /\ \E n \in 0..Len(lines) : assembled = [k \in 1..n |-> lines[k]]

(* The only way to the output is that of a command line without options.    *)
MainStages ==
    /\ stage \in Stages /\ code \in 0..255
    /\ invocation.only \in {"neither", "tokenize", "parse", "both"}
    /\ stage = "tokenize" => invocation.only # "both"
    /\ stage = "parse" => invocation.only \in {"neither", "parse"}
    /\ stage \in Assembling => invocation.only = "neither"
    /\ stage = "write" => aout = "open"
    /\ stage \notin {"write", "ended"} =>
         aout = "before" /\ wpc = "idle" /\ writes = 0

AllDone == /\ state = "DONE" /\ status = "done" /\ ~running /\ assembled = lines
           /\ invocation.only = "neither" /\ code = SUCCESS
           /\ Len(file.bodies) = Len(sections)
EndStage ==
    stage = "ended" => \/ aout = "before" /\ ~(invocation.only = "neither" /\ code = SUCCESS)
                       \/ aout \in {"written", "short"} /\ AllDone

(* The bodies written are those of the sections the writer has been at.     *)
BodiesWritten ==
    /\ sections = [i \in 1..8 |-> sections[i]]
    /\ DOMAIN file = {"ehdr", "shdrs", "bodies"}
    /\ wpc \in {"null", "headers"} => file.bodies = << >>
    /\ wpc = "bodies" => /\ it \in 1..9
                         /\ file.bodies = [k \in 1..(it - 1) |-> file.bodies[k]]
    /\ writes = 1 => Len(file.bodies) = 8

StagesInv ==
    SourceStages /\ ObjectStages /\ MainStages /\ EndStage /\ BodiesWritten
LEMMA StagesInit == DriverInit => StagesInv
<1> SUFFICES ASSUME DriverInit
             PROVE  StagesInv
  OBVIOUS
<1>1. SourceStages
  BY DEF DriverInit, SourceStages, Assembling, T!Init
<1>2. ObjectStages
  <2>1. lines = << >> /\ assembled = << >> /\ ~running /\ stage = "arguments"
    BY DEF DriverInit, AssemblerInit
  <2>2. Len(lines) = 0 /\ assembled = [k \in 1..0 |-> lines[k]]
    BY <2>1
  <2> QED
    BY <2>1, <2>2 DEF ObjectStages
<1>3. MainStages
  BY DriverAssumption
     DEF DriverInit, MainStages, Stages, Assembling, SUCCESS, WriterInit
<1>4. EndStage
  BY DEF DriverInit, EndStage
<1>5. BodiesWritten
  <2>1. sections = InitialSections /\ file = NoFile /\ wpc = "idle" /\ writes = 0
    BY DEF DriverInit, WriterInit, Init
  <2>2. DOMAIN sections = 1..8
    BY <2>1 DEF InitialSections
  <2>3. sections = [i \in 1..8 |-> sections[i]]
    BY <2>1, <2>2 DEF InitialSections
  <2>4. DOMAIN file = {"ehdr", "shdrs", "bodies"}
    BY <2>1 DEF NoFile
  <2> QED
    BY <2>1, <2>3, <2>4 DEF BodiesWritten
<1> QED
  BY <1>1, <1>2, <1>3, <1>4, <1>5 DEF StagesInv

(* What a step leaves alone stays as it is. *)
LEMMA StagesKept ==
  ASSUME StagesInv
  PROVE  /\ UNCHANGED <<objectVars, writerVars>> => BodiesWritten'
         /\ UNCHANGED <<objectVars, lines>>
              => \E n \in 0..Len(lines') : assembled' = [k \in 1..n |-> lines'[k]]
         /\ UNCHANGED tokenizerVars => (state' = "DONE" => read' = Len(text'))
<1>1. ASSUME UNCHANGED <<objectVars, writerVars>>
      PROVE  BodiesWritten'
  BY <1>1 DEF StagesInv, BodiesWritten, objectVars, writerVars, vars
<1>2. ASSUME UNCHANGED <<objectVars, lines>>
      PROVE  \E n \in 0..Len(lines') : assembled' = [k \in 1..n |-> lines'[k]]
  BY <1>2 DEF StagesInv, ObjectStages, objectVars
<1>3. ASSUME UNCHANGED tokenizerVars
      PROVE  state' = "DONE" => read' = Len(text')
  BY <1>3 DEF StagesInv, SourceStages, tokenizerVars
<1> QED
  BY <1>1, <1>2, <1>3
LEMMA LowBits ==
  ASSUME NEW x \in Int
  PROVE  \E q \in Int, r \in 0..255 : x % 256 = r /\ x = 256 * q + r
<1>1. x % 256 \in 0..255 /\ x \div 256 \in Int /\ x = 256 * (x \div 256) + (x % 256)
  OBVIOUS
<1> QED
  BY <1>1, Zenon

LEMMA NoInputIs == NO_INPUT = 255
<1>1. -1 \in Int
  OBVIOUS
<1>2. PICK q \in Int, r \in 0..255 : NO_INPUT = r /\ -1 = 256 * q + r
  BY <1>1, LowBits, Zenon DEF NO_INPUT
<1> QED
  BY <1>2

LEMMA StagesReadArguments ==
  ASSUME StagesInv, ReadArguments
  PROVE  StagesInv'
<1>1. stage = "arguments" /\ stage' \in {"tokenize", "ended"} /\ invocation' = invocation
      /\ UNCHANGED <<tokenizerVars, parserVars, objectVars, outputVars>>
  BY DEF ReadArguments, GoTo, Exit
<1>0. NO_INPUT = 255 /\ BOTH_OPTIONS = 1 /\ ABORTED = 134 /\ SUCCESS = 0
  BY NoInputIs DEF BOTH_OPTIONS, ABORTED, SUCCESS
<1>2. \/ stage' = "tokenize" /\ code' = code
      \/ stage' = "ended" /\ code' \in {1, 255, 134}
  BY <1>0 DEF ReadArguments, GoTo, Exit
<1>8. stage' = "tokenize" => invocation.only # "both"
  BY DEF ReadArguments, GoTo, Exit
<1>3. SourceStages'
  BY <1>1, StagesKept DEF StagesInv, SourceStages, Assembling, parserVars
<1>4. ObjectStages'
  BY <1>1, StagesKept DEF StagesInv, ObjectStages, objectVars, parserVars
<1>5. MainStages'
  BY <1>1, <1>2, <1>8
     DEF StagesInv, MainStages, Stages, Assembling, outputVars, writerVars
<1>6. EndStage'
  BY <1>0, <1>1, <1>2 DEF StagesInv, MainStages, EndStage, outputVars
<1>7. BodiesWritten'
  BY <1>1, StagesKept DEF outputVars
<1> QED
  BY <1>3, <1>4, <1>5, <1>6, <1>7 DEF StagesInv

LEMMA StagesTokenize ==
  ASSUME StagesInv, Tokenize
  PROVE  StagesInv'
<1>1. stage = "tokenize" /\ T!Next
      /\ UNCHANGED <<invocation, stage, code, parserVars, objectVars, outputVars>>
  BY DEF Tokenize
<1>2. state' = "DONE" => read' = Len(text')
  <2> USE DEF T!Keep, T!Skip, T!Store, T!GoTo, T!LineIsOver, T!Throw
  <2>1. T!EndOfInput => read' = Len(text')
    BY DEF T!EndOfInput
  <2>2. T!GetLine \/ T!StartLine \/ T!EndToken \/ T!EndLine => state' # "DONE"
    BY DEF T!GetLine, T!StartLine, T!EndToken, T!EndLine
  <2>3. T!StartToken \/ T!StringToken \/ T!InToken => state' # "DONE"
    BY DEF T!StartToken, T!StringToken, T!InToken
  <2> QED
    BY <1>1, <2>1, <2>2, <2>3 DEF T!Next
<1>3. SourceStages'
  BY <1>1, <1>2 DEF StagesInv, SourceStages, Assembling, parserVars
<1>4. ObjectStages'
  BY <1>1, StagesKept DEF StagesInv, ObjectStages, objectVars, parserVars
<1>5. MainStages'
  BY <1>1 DEF StagesInv, MainStages, Stages, Assembling, outputVars, writerVars
<1>6. EndStage'
  BY <1>1 DEF EndStage
<1>7. BodiesWritten'
  BY <1>1, StagesKept DEF outputVars
<1> QED
  BY <1>3, <1>4, <1>5, <1>6, <1>7 DEF StagesInv

(* An exception before the output, or an end that was asked for: a.out is   *)
(* as it was, and the exit status says so.                                  *)
LEMMA StagesEndEarly ==
  ASSUME StagesInv, stage \notin {"write", "ended"}, stage' = "ended",
         code' \in 0..255, ~(invocation.only = "neither" /\ code' = SUCCESS),
         UNCHANGED <<invocation, tokenizerVars, mPos, lines, spans, status, objectVars,
                     outputVars>>
  PROVE  StagesInv'
<1>1. SourceStages'
  BY StagesKept DEF SourceStages, Assembling
<1>2. ObjectStages'
  BY StagesKept DEF ObjectStages
<1>3. MainStages'
  BY DEF StagesInv, MainStages, Stages, Assembling
<1>4. EndStage'
  BY DEF StagesInv, MainStages, EndStage, outputVars
<1>5. BodiesWritten'
  BY StagesKept DEF outputVars
<1> QED
  BY <1>1, <1>2, <1>3, <1>4, <1>5 DEF StagesInv

LEMMA StagesThrow ==
  ASSUME StagesInv, TokenizerThrows \/ ParserThrows \/ AssemblerThrows
  PROVE  StagesInv'
<1>1. /\ stage \notin {"write", "ended"} /\ stage' = "ended" /\ code' = 134
      /\ UNCHANGED <<invocation, tokenizerVars, mPos, lines, spans, status, objectVars,
                     outputVars>>
  BY DEF TokenizerThrows, ParserThrows, AssemblerThrows, Exit, ABORTED, parserVars
<1> QED
  BY <1>1, StagesEndEarly DEF SUCCESS

LEMMA StagesTokenized ==
  ASSUME StagesInv, Tokenized
  PROVE  StagesInv'
<1>1. /\ stage = "tokenize" /\ state = "DONE"
      /\ UNCHANGED <<invocation, tokenizerVars, mPos, lines, spans, status, objectVars,
                     outputVars>>
  BY DEF Tokenized
<1>2. CASE invocation.only = "tokenize"
  BY <1>1, <1>2, StagesEndEarly DEF Tokenized, Exit, SUCCESS
<1>3. CASE invocation.only # "tokenize"
  <2>1. stage' = "parse" /\ code' = code
    BY <1>3 DEF Tokenized, GoTo
  <2>2. SourceStages'
    BY <1>1, <2>1, StagesKept DEF SourceStages, Assembling, tokenizerVars
  <2>3. ObjectStages'
    BY <1>1, <2>1, StagesKept DEF StagesInv, ObjectStages, objectVars
  <2>4. MainStages'
    BY <1>1, <1>3, <2>1 DEF StagesInv, MainStages, Stages, Assembling, outputVars, writerVars
  <2>5. EndStage'
    BY <2>1 DEF EndStage
  <2>6. BodiesWritten'
    BY <1>1, StagesKept DEF outputVars
  <2> QED
    BY <2>2, <2>3, <2>4, <2>5, <2>6 DEF StagesInv
<1> QED
  BY <1>2, <1>3
LEMMA StagesParse ==
  ASSUME StagesInv, PP!ParserInv', Parse
  PROVE  StagesInv'
<1>1. stage = "parse"
      /\ UNCHANGED <<invocation, stage, code, tokenizerVars, objectVars, outputVars>>
  BY DEF Parse
<1>2. SourceStages'
  BY <1>1, StagesKept DEF StagesInv, SourceStages, Assembling, tokenizerVars
<1>3. ObjectStages'
  <2>1. ~running' /\ assembled' = << >> /\ stage' = "parse"
    BY <1>1 DEF StagesInv, ObjectStages, objectVars
  <2>2. Len(lines') \in Nat
    BY DEF PP!ParserInv
  <2>3. 0 \in 0..Len(lines') /\ assembled' = [k \in 1..0 |-> lines'[k]]
    BY <2>1, <2>2
  <2> QED
    BY <2>1, <2>3 DEF ObjectStages
<1>4. MainStages'
  BY <1>1 DEF StagesInv, MainStages, Stages, Assembling, outputVars, writerVars
<1>5. EndStage'
  BY <1>1 DEF EndStage
<1>6. BodiesWritten'
  BY <1>1, StagesKept DEF outputVars
<1> QED
  BY <1>2, <1>3, <1>4, <1>5, <1>6 DEF StagesInv

LEMMA StagesParsed ==
  ASSUME StagesInv, Parsed
  PROVE  StagesInv'
<1>1. stage = "parse" /\ status = "done"
      /\ UNCHANGED <<invocation, tokenizerVars, parserVars, outputVars>>
  BY DEF Parsed
<1>2. CASE invocation.only = "parse"
  BY <1>1, <1>2, StagesEndEarly DEF Parsed, Exit, SUCCESS, parserVars
<1>3. CASE invocation.only # "parse"
  <2>1. stage' = "assemble" /\ code' = code /\ assembled' = assembled /\ UNCHANGED vars
    BY <1>3 DEF Parsed, GoTo, Assemble
  <2>2. SourceStages'
    BY <1>1, <2>1, StagesKept
       DEF StagesInv, SourceStages, Assembling, tokenizerVars, parserVars
  <2>3. ObjectStages'
    BY <1>1, <2>1 DEF StagesInv, ObjectStages, parserVars
  <2>4. MainStages'
    BY <1>1, <1>3, <2>1 DEF StagesInv, MainStages, Stages, Assembling, outputVars, writerVars
  <2>5. EndStage'
    BY <2>1 DEF EndStage
  <2>6. BodiesWritten'
    BY <1>1, <2>1 DEF StagesInv, BodiesWritten, outputVars, writerVars, vars
  <2> QED
    BY <2>2, <2>3, <2>4, <2>5, <2>6 DEF StagesInv
<1> QED
  BY <1>2, <1>3

(* A node ends in the object or ends the call; the object keeps its sections. *)
LEMMA NodeStep ==
  ASSUME NEW n, AssembleNode(n), sections = [i \in 1..8 |-> sections[i]]
  PROVE  /\ sections' = [i \in 1..8 |-> sections'[i]]
         /\ assembled' = assembled \/ assembled' = Append(assembled, n)
<1>1. sections' = sections \/ \E i, s : sections' = [sections EXCEPT ![i] = s]
  <2>1. CASE AssembleDirective(n)
    BY <2>1 DEF AssembleDirective, SetSection, SetMissingSection, Throw
  <2>2. CASE AssembleLabel(n)
    BY <2>2 DEF AssembleLabel, AddSymbol, AddDuplicateSymbol, Throw, StrtabGrown
  <2>3. CASE AssembleInstruction(n)
    BY <2>3 DEF AssembleInstruction, AddProgbits, AddProgbitsElsewhere, Throw, vars
  <2>4. CASE AssembleOther(n)
    BY <2>4 DEF AssembleOther, vars
  <2> QED
    BY <2>1, <2>2, <2>3, <2>4 DEF AssembleNode
<1>2. sections' = [i \in 1..8 |-> sections'[i]]
  BY <1>1
<1>3. assembled' = assembled \/ assembled' = Append(assembled, n)
  BY Zenon DEF AssembleNode, AssembleDirective, AssembleLabel, AssembleInstruction,
               AssembleOther, Done, Abort
<1> QED
  BY <1>2, <1>3

(* Taking the next node of the tree makes a prefix one longer.              *)
LEMMA PrefixGrows ==
  ASSUME NEW tree, Len(tree) \in Nat, NEW n \in 0..Len(tree), NEW prog,
         prog = [k \in 1..n |-> tree[k]]
  PROVE  /\ Len(prog) = n
         /\ Len(tree) = n /\ tree = [k \in 1..Len(tree) |-> tree[k]] => prog = tree
         /\ n < Len(tree) =>
              \E m \in 0..Len(tree) : Append(prog, tree[n + 1]) = [k \in 1..m |-> tree[k]]
<1>1. n \in Nat /\ Len(prog) = n /\ prog = [k \in 1..n |-> prog[k]]
  OBVIOUS
<1>2. ASSUME n < Len(tree)
      PROVE  \E m \in 0..Len(tree) : Append(prog, tree[n + 1]) = [k \in 1..m |-> tree[k]]
  <2>1. Append(prog, tree[n + 1])
          = [k \in 1..(n + 1) |-> IF k \in 1..n THEN prog[k] ELSE tree[n + 1]]
    BY <1>1, AppendIs
  <2>2. Append(prog, tree[n + 1]) = [k \in 1..(n + 1) |-> tree[k]]
    BY <1>1, <2>1
  <2>3. n + 1 \in 0..Len(tree)
    BY <1>1, <1>2
  <2> QED
    BY <2>2, <2>3, Zenon
<1> QED
  BY <1>1, <1>2

LEMMA StagesAssembleNext ==
  ASSUME StagesInv, PP!ParserInv, AssembleNext
  PROVE  StagesInv'
<1>1. /\ stage = "assemble" /\ running /\ Len(assembled) < Len(lines)
      /\ AssembleNode(NextNode)
      /\ UNCHANGED <<invocation, stage, code, tokenizerVars, parserVars, outputVars>>
  BY DEF AssembleNext
<1>2. /\ sections' = [i \in 1..8 |-> sections'[i]]
      /\ assembled' = assembled \/ assembled' = Append(assembled, NextNode)
  BY <1>1, NodeStep DEF StagesInv, BodiesWritten
<1>3. SourceStages'
  BY <1>1, StagesKept DEF StagesInv, SourceStages, Assembling, tokenizerVars, parserVars
<1>4. ObjectStages'
  <2>1. Len(lines) \in Nat
    BY DEF PP!ParserInv
  <2>2. PICK n \in 0..Len(lines) : assembled = [k \in 1..n |-> lines[k]]
    BY DEF StagesInv, ObjectStages
  <2>3. \E m \in 0..Len(lines) : assembled' = [k \in 1..m |-> lines[k]]
    BY <1>1, <1>2, <2>1, <2>2, PrefixGrows DEF NextNode
  <2> QED
    BY <1>1, <2>3 DEF ObjectStages, parserVars
<1>5. MainStages'
  BY <1>1 DEF StagesInv, MainStages, Stages, Assembling, outputVars, writerVars
<1>6. EndStage'
  BY <1>1 DEF EndStage
<1>7. BodiesWritten'
  BY <1>1, <1>2 DEF StagesInv, BodiesWritten, outputVars, writerVars
<1> QED
  BY <1>3, <1>4, <1>5, <1>6, <1>7 DEF StagesInv

LEMMA StagesTreeAssembled ==
  ASSUME StagesInv, PP!ParserInv, TreeAssembled
  PROVE  StagesInv'
<1>1. /\ stage = "assemble" /\ stage' = "open" /\ code' = code /\ ~running'
      /\ Len(assembled) = Len(lines)
      /\ UNCHANGED <<vars, assembled, invocation, tokenizerVars, parserVars, outputVars>>
  BY DEF TreeAssembled, Return, GoTo
<1>2. SourceStages'
  BY <1>1, StagesKept DEF StagesInv, SourceStages, Assembling, tokenizerVars, parserVars
<1>3. assembled = lines
  <2>1. Len(lines) \in Nat /\ lines = [k \in 1..Len(lines) |-> lines[k]]
    BY DEF PP!ParserInv
  <2>2. PICK n \in 0..Len(lines) : assembled = [k \in 1..n |-> lines[k]]
    BY DEF StagesInv, ObjectStages
  <2> QED
    BY <1>1, <2>1, <2>2, PrefixGrows
<1>4. ObjectStages'
  BY <1>1, <1>3 DEF StagesInv, ObjectStages, parserVars
<1>5. MainStages'
  BY <1>1 DEF StagesInv, MainStages, Stages, Assembling, outputVars, writerVars
<1>6. EndStage'
  BY <1>1 DEF EndStage
<1>7. BodiesWritten'
  BY <1>1 DEF StagesInv, BodiesWritten, outputVars, writerVars, vars
<1> QED
  BY <1>2, <1>4, <1>5, <1>6, <1>7 DEF StagesInv
LEMMA StagesOpenOutput ==
  ASSUME StagesInv, OpenOutput
  PROVE  StagesInv'
<1>1. /\ stage = "open"
      /\ UNCHANGED <<invocation, tokenizerVars, parserVars, objectVars, writerVars>>
  BY DEF OpenOutput
<1>2. CASE UNCHANGED aout /\ Exit(ABORTED)
  BY <1>1, <1>2, StagesEndEarly DEF Exit, ABORTED, SUCCESS, parserVars, outputVars
<1>3. CASE aout' = "open" /\ GoTo("write")
  <2>1. stage' = "write" /\ code' = code /\ aout' = "open"
    BY <1>3 DEF GoTo
  <2>2. SourceStages'
    BY <1>1, <2>1, StagesKept
       DEF StagesInv, SourceStages, Assembling, tokenizerVars, parserVars
  <2>3. ObjectStages'
    BY <1>1, <2>1, StagesKept DEF StagesInv, ObjectStages, objectVars, parserVars
  <2>4. MainStages'
    BY <1>1, <2>1 DEF StagesInv, MainStages, Stages, Assembling
  <2>5. EndStage'
    BY <2>1 DEF EndStage
  <2>6. BodiesWritten'
    BY <1>1, StagesKept
  <2> QED
    BY <2>2, <2>3, <2>4, <2>5, <2>6 DEF StagesInv
<1> QED
  BY <1>2, <1>3 DEF OpenOutput

(* A step of the writer at its first call.                                  *)
LEMMA WriterStep ==
  ASSUME BodiesWritten, writes = 0,
         \/ WriteFileHeader \/ WriteNullHeader \/ WriteSectionHeader
         \/ HeadersDone \/ WriteBody \/ WriteDone
  PROVE  BodiesWritten'
<1>1. sections = [i \in 1..8 |-> sections[i]] /\ Len(sections) = 8
      /\ DOMAIN file = {"ehdr", "shdrs", "bodies"}
  BY DEF BodiesWritten
<1>2. CASE WriteFileHeader
  <2>1. DOMAIN file' = {"ehdr", "shdrs", "bodies"} /\ file'.bodies = << >>
    BY <1>2 DEF WriteFileHeader, NoFile
  <2> QED
    BY <1>1, <1>2, <2>1 DEF WriteFileHeader, BodiesWritten, vars
<1>3. CASE WriteNullHeader
  <2>1. DOMAIN file' = {"ehdr", "shdrs", "bodies"} /\ file'.bodies = << >>
    BY <1>1, <1>3 DEF WriteNullHeader, NullHeaderWritten, BodiesWritten
  <2> QED
    BY <1>1, <1>3, <2>1 DEF WriteNullHeader, NullHeaderWritten, BodiesWritten, vars
<1>4. CASE WriteSectionHeader
  <2>1. DOMAIN file' = {"ehdr", "shdrs", "bodies"} /\ file'.bodies = << >>
    BY <1>1, <1>4 DEF WriteSectionHeader, BodiesWritten
  <2>2. sections' = [i \in 1..8 |-> sections'[i]]
    BY <1>1, <1>4 DEF WriteSectionHeader
  <2> QED
    BY <1>4, <2>1, <2>2 DEF WriteSectionHeader, BodiesWritten
<1>5. CASE HeadersDone
  <2>1. file' = file /\ file'.bodies = << >> /\ it' = 1 /\ writes' = 0
        /\ sections' = sections /\ wpc' = "bodies"
    BY <1>5 DEF HeadersDone, BodiesWritten, vars
  <2>2. << >> = [k \in 1..0 |-> << >>[k]]
    OBVIOUS
  <2> QED
    BY <1>1, <2>1, <2>2 DEF BodiesWritten
<1>6. CASE WriteBody
  <2>0. it \in 1..8 /\ file.bodies = [k \in 1..(it - 1) |-> file.bodies[k]]
    BY <1>1, <1>6 DEF WriteBody, BodiesWritten
  <2>7. PICK c \in 0..7 : it = c + 1 /\ it - 1 = c
    BY <2>0
  <2>1. it = c + 1 /\ file.bodies = [k \in 1..c |-> file.bodies[k]]
    BY <2>0, <2>7, Zenon
  <2>8. PICK body : file' = [file EXCEPT !.bodies = Append(@, body)]
    BY <1>6, Zenon DEF WriteBody
  <2>9. it' = c + 2 /\ wpc' = "bodies" /\ writes' = 0 /\ sections' = sections
    BY <1>6, <2>1 DEF WriteBody, vars
  <2>2. /\ file' = [file EXCEPT !.bodies = Append(@, body)]
        /\ it' = c + 2 /\ wpc' = "bodies" /\ writes' = 0 /\ sections' = sections
    BY <2>8, <2>9
  <2>3. DOMAIN file' = {"ehdr", "shdrs", "bodies"}
        /\ file'.bodies = Append(file.bodies, body)
    BY <1>1, <2>2
  <2>4. Append(file.bodies, body)
          = [k \in 1..(c + 1) |-> IF k \in 1..c THEN file.bodies[k] ELSE body]
    BY <2>1, AppendIs
  <2>5. file'.bodies = [k \in 1..(c + 1) |-> file'.bodies[k]]
    BY <2>3, <2>4
  <2> QED
    BY <1>1, <2>1, <2>2, <2>3, <2>5 DEF BodiesWritten
<1>7. CASE WriteDone
  <2>1. it = 9 /\ file' = file /\ wpc' = "idle" /\ sections' = sections
    BY <1>1, <1>7 DEF WriteDone, BodiesWritten, vars
  <2>2. file.bodies = [k \in 1..8 |-> file.bodies[k]]
    BY <1>7, <2>1 DEF WriteDone, BodiesWritten
  <2>3. Len(file.bodies) = 8
    BY <2>2
  <2> QED
    BY <1>1, <2>1, <2>3 DEF BodiesWritten
<1> QED
  BY <1>2, <1>3, <1>4, <1>5, <1>6, <1>7

LEMMA StagesWrite ==
  ASSUME StagesInv, Write
  PROVE  StagesInv'
<1>1. /\ stage = "write" /\ writes = 0
      /\ UNCHANGED <<invocation, stage, code, tokenizerVars, parserVars, running,
                     assembled, aout>>
  BY DEF Write
<1>2. SourceStages'
  BY <1>1, StagesKept DEF StagesInv, SourceStages, Assembling, tokenizerVars, parserVars
<1>3. ObjectStages'
  BY <1>1 DEF StagesInv, ObjectStages, parserVars
<1>4. MainStages'
  BY <1>1 DEF StagesInv, MainStages, Stages, Assembling
<1>5. EndStage'
  BY <1>1 DEF EndStage
<1>6. BodiesWritten'
  BY WriterStep DEF Write, StagesInv
<1> QED
  BY <1>2, <1>3, <1>4, <1>5, <1>6 DEF StagesInv

LEMMA StagesOutputWritten ==
  ASSUME StagesInv, OutputWritten
  PROVE  StagesInv'
<1>1. /\ stage = "write" /\ stage' = "ended" /\ code' = 0 /\ writes = 1
      /\ aout' \in {"written", "short"}
      /\ UNCHANGED <<invocation, tokenizerVars, parserVars, objectVars, writerVars>>
  BY DEF OutputWritten, Exit, SUCCESS
<1>2. SourceStages'
  BY <1>1, StagesKept DEF StagesInv, SourceStages, Assembling, tokenizerVars, parserVars
<1>3. ObjectStages'
  BY <1>1, StagesKept DEF StagesInv, ObjectStages, objectVars, parserVars
<1>4. MainStages'
  BY <1>1 DEF StagesInv, MainStages, Stages, Assembling
<1>5. EndStage'
  <2>1. /\ state' = "DONE" /\ status' = "done" /\ ~running' /\ assembled' = lines'
        /\ invocation'.only = "neither"
    BY <1>1 DEF StagesInv, SourceStages, ObjectStages, MainStages, Assembling,
                tokenizerVars, parserVars, objectVars
  <2>2. Len(file'.bodies) = Len(sections')
    BY <1>1 DEF StagesInv, BodiesWritten, objectVars, writerVars, vars
  <2> QED
    BY <1>1, <2>1, <2>2 DEF EndStage, AllDone, SUCCESS
<1>6. BodiesWritten'
  BY <1>1, StagesKept
<1> QED
  BY <1>2, <1>3, <1>4, <1>5, <1>6 DEF StagesInv

LEMMA StagesNext ==
  ASSUME StagesInv, PP!ParserInv, PP!ParserInv', [DriverNext]_driverVars
  PROVE  StagesInv'
<1>1. CASE UNCHANGED driverVars
  <2>1. /\ UNCHANGED <<invocation, stage, code, text, read, state, words, mPos, lines, spans,
                       status, sections, running, assembled, aout>>
        /\ UNCHANGED writerVars
    BY <1>1 DEF driverVars, tokenizerVars, parserVars, objectVars, outputVars, vars
  <2>2. SourceStages'
    BY <2>1 DEF StagesInv, SourceStages, Assembling
  <2>3. ObjectStages'
    BY <2>1 DEF StagesInv, ObjectStages
  <2>4. MainStages'
    BY <2>1 DEF StagesInv, MainStages, Stages, Assembling, writerVars
  <2>5. EndStage'
    BY <2>1 DEF StagesInv, EndStage, AllDone, writerVars
  <2>6. BodiesWritten'
    BY <2>1 DEF StagesInv, BodiesWritten, writerVars
  <2> QED
    BY <2>2, <2>3, <2>4, <2>5, <2>6 DEF StagesInv
<1> QED
  BY <1>1, StagesReadArguments, StagesTokenize, StagesThrow, StagesTokenized, StagesParse,
     StagesParsed, StagesAssembleNext, StagesTreeAssembled, StagesOpenOutput, StagesWrite,
     StagesOutputWritten, Zenon
     DEF DriverNext
-----------------------------------------------------------------------------
(* Tokenizer and parser, while main is at the other parts *)

LEMMA TokenizerAtWork ==
  ASSUME [DriverNext]_driverVars
  PROVE  (stage = "tokenize" /\ T!Next) \/ UNCHANGED tokenizerVars
<1>1. UNCHANGED driverVars => UNCHANGED tokenizerVars
  BY DEF driverVars
<1> QED
  BY <1>1, Zenon DEF DriverNext, Tokenize, ReadArguments, TokenizerThrows, Tokenized, Parse, ParserThrows,
                     Parsed, AssembleNext, AssemblerThrows, TreeAssembled, OpenOutput,
                     Write, OutputWritten

LEMMA TokensInvKept == TP!TokensInv /\ [DriverNext]_driverVars => TP!TokensInv'
<1> SUFFICES ASSUME TP!TokensInv, [DriverNext]_driverVars
             PROVE  TP!TokensInv'
  OBVIOUS
<1>1. CASE T!Next
  <2>1. TP!Next
    BY <1>1, SameTokenizer, Zenon
  <2> QED
    BY <2>1, SameAssumptions, TP!TokensInvNext, Zenon
<1>2. CASE UNCHANGED tokenizerVars
  <2>1. UNCHANGED TP!vars
    BY <1>2 DEF TP!vars, tokenizerVars
  <2> QED
    BY <2>1, SameAssumptions, TP!TokensInvNext, Zenon
<1> QED
  BY <1>1, <1>2, TokenizerAtWork, Zenon

TokensListed == \E n \in Nat : token_list = [k \in 1..n |-> token_list[k]]

LEMMA TokensListedKept == TokensListed /\ [DriverNext]_driverVars => TokensListed'
<1> SUFFICES ASSUME TokensListed, [DriverNext]_driverVars
             PROVE  TokensListed'
  OBVIOUS
<1>1. token_list' = token_list \/ \E token : token_list' = Append(token_list, token)
  <2> USE DEF T!Keep, T!Skip, T!Store, T!GoTo, T!LineIsOver, T!Throw
  <2>1. T!EndOfInput \/ T!EndToken \/ T!EndLine
          => \E token : token_list' = Append(token_list, token)
    BY DEF T!EndOfInput, T!EndToken, T!EndLine
  <2>2. T!GetLine \/ T!StartLine => token_list' = token_list
    BY DEF T!GetLine, T!StartLine
  <2>3. T!StartToken \/ T!StringToken \/ T!InToken => token_list' = token_list
    BY DEF T!StartToken, T!StringToken, T!InToken
  <2>4. T!Next => token_list' = token_list \/ \E token : token_list' = Append(token_list, token)
    BY <2>1, <2>2, <2>3 DEF T!Next
  <2> QED
    BY <2>4, TokenizerAtWork DEF tokenizerVars
<1>2. PICK n \in Nat : token_list = [k \in 1..n |-> token_list[k]]
  BY DEF TokensListed
<1>3. ASSUME NEW token, token_list' = Append(token_list, token)
      PROVE  TokensListed'
  <2>1. Append(token_list, token)
          = [k \in 1..(n + 1) |-> IF k \in 1..n THEN token_list[k] ELSE token]
    BY <1>2, AppendIs
  <2>2. token_list' = [k \in 1..(n + 1) |-> token_list'[k]]
    BY <1>3, <2>1
  <2>3. n + 1 \in Nat
    OBVIOUS
  <2> QED
    BY <2>2, <2>3, Zenon DEF TokensListed
<1> QED
  BY <1>1, <1>2, <1>3 DEF TokensListed

ParserStarts == /\ PP!Listed /\ mPos = 0 /\ lines = << >> /\ spans = << >>
                /\ status = "running"

LEMMA ParserStartsInv ==
  /\ ParserStarts => PP!ParserInv
  /\ ParserStarts' => PP!ParserInv'
<1>1. ParserStarts => PP!ParserInv
  BY SameAssumptions, PP!ParserStart, Zenon DEF ParserStarts
<1> QED
  BY <1>1, PTL

LEMMA ParserInvKept ==
  TokensListed /\ StagesInv /\ PP!ParserInv /\ [DriverNext]_driverVars => PP!ParserInv'
<1> SUFFICES ASSUME TokensListed, StagesInv, PP!ParserInv, [DriverNext]_driverVars
             PROVE  PP!ParserInv'
  OBVIOUS
<1>1. CASE Parse
  <2>1. PP!Next
    BY <1>1, SameParser, Zenon DEF Parse
  <2> QED
    BY <2>1, SameAssumptions, PP!ParserNextInv, Zenon
<1>2. CASE UNCHANGED parserVars
  <2>1. UNCHANGED PP!vars
    BY <1>2 DEF PP!vars, parserVars
  <2> QED
    BY <2>1, SameAssumptions, PP!ParserNextInv, Zenon
<1>3. CASE Tokenized
  <2>1. mPos' = 0 /\ lines' = << >> /\ spans' = << >> /\ status' = "running"
    BY <1>3 DEF Tokenized, StagesInv, SourceStages
  <2>2. PICK n \in Nat : token_list = [k \in 1..n |-> token_list[k]]
    BY DEF TokensListed
  <2>3. words' = [k \in 1..n |-> Word(token_list[k])]
    BY <1>3, <2>2 DEF Tokenized
  <2>4. words' \in Seq({words'[k] : k \in DOMAIN words'})
    BY <2>3
  <2>5. PP!Listed'
    BY <2>4 DEF PP!Listed, PP!Range
  <2> QED
    BY <2>1, <2>5, ParserStartsInv DEF ParserStarts
<1>4. Parse \/ Tokenized \/ UNCHANGED parserVars
  <2>1. UNCHANGED driverVars => UNCHANGED parserVars
    BY DEF driverVars
  <2> QED
    BY <2>1, Zenon DEF DriverNext, ReadArguments, Tokenize, TokenizerThrows, ParserThrows,
                   Parsed, AssembleNext, AssemblerThrows, TreeAssembled, OpenOutput,
                   Write, OutputWritten
<1> QED
  BY <1>1, <1>2, <1>3, <1>4

(* The inductive invariant: that of tokenizer and parser, and how far each   *)
(* part is when main is where it is.                                        *)
DriverInv == TP!TokensInv /\ TokensListed /\ PP!ParserInv /\ StagesInv

LEMMA DriverInitInv == DriverInit => DriverInv
<1> SUFFICES ASSUME DriverInit
             PROVE  DriverInv
  OBVIOUS
<1>1. TP!TokensInv
  BY SameTokenizer, SameAssumptions, TP!TokensInvInit, Zenon DEF DriverInit
<1>2. TokensListed
  <2>1. token_list = << >>
    BY DEF DriverInit, T!Init
  <2>2. token_list = [k \in 1..0 |-> token_list[k]]
    BY <2>1
  <2> QED
    BY <2>2 DEF TokensListed
<1>3. PP!ParserInv
  <2>1. words = << >>
    BY DEF DriverInit
  <2>2. PP!Listed
    BY <2>1 DEF PP!Listed
  <2> QED
    BY <2>2, ParserStartsInv DEF ParserStarts, DriverInit
<1> QED
  BY <1>1, <1>2, <1>3, StagesInit DEF DriverInv

LEMMA DriverNextInv == DriverInv /\ [DriverNext]_driverVars => DriverInv'
<1> SUFFICES ASSUME DriverInv, [DriverNext]_driverVars
             PROVE  DriverInv'
  OBVIOUS
<1>1. TP!TokensInv' /\ TokensListed' /\ PP!ParserInv'
  BY TokensInvKept, TokensListedKept, ParserInvKept, Zenon DEF DriverInv
<1>2. StagesInv'
  BY <1>1, StagesNext, Zenon DEF DriverInv
<1> QED
  BY <1>1, <1>2, Zenon DEF DriverInv

THEOREM DriverInvariant == DriverSpec => []DriverInv
BY DriverInitInv, DriverNextInv, PTL DEF DriverSpec
LEMMA DriverTypeInv == DriverInv => DriverTypeOK
<1> SUFFICES ASSUME DriverInv
             PROVE  DriverTypeOK
  OBVIOUS
<1>1. stage \in Stages /\ code \in 0..255
  BY DEF DriverInv, StagesInv, MainStages
<1>2. aout \in {"before", "open", "written", "short"}
  BY DEF DriverInv, StagesInv, MainStages, EndStage
<1>3. Len(lines) \in Nat
  BY DEF DriverInv, PP!ParserInv
<1>4. PICK n \in 0..Len(lines) : assembled = [k \in 1..n |-> lines[k]]
  BY DEF DriverInv, StagesInv, ObjectStages
<1>5. Len(assembled) = n
  BY <1>3, <1>4, PrefixGrows
<1> QED
  BY <1>1, <1>2, <1>3, <1>5 DEF DriverTypeOK

(* Main is at one of its stages, its exit status is one a process can have,  *)
(* and no more is assembled than was parsed (main.cpp:30-116).              *)
THEOREM DriverTypeCorrect == DriverSpec => []DriverTypeOK
BY DriverTypeInv, DriverInvariant, PTL

LEMMA OutputAllOrNothingInv == DriverInv => OutputAllOrNothing
<1> SUFFICES ASSUME DriverInv
             PROVE  OutputAllOrNothing
  OBVIOUS
<1>1. stage = "write" => /\ read = Len(text) /\ status = "done" /\ assembled = lines
                         /\ ~running /\ aout = "open"
  BY DEF DriverInv, StagesInv, SourceStages, ObjectStages, MainStages, Assembling
<1>2. stage \notin {"write", "ended"} => aout = "before"
  BY DEF DriverInv, StagesInv, MainStages
<1>3. stage = "ended" =>
        \/ aout = "before" /\ ~AssembledAll
        \/ /\ aout \in {"written", "short"} /\ AssembledAll
           /\ read = Len(text) /\ status = "done" /\ assembled = lines /\ ~running
           /\ Len(file.bodies) = Len(sections)
  BY DEF DriverInv, StagesInv, SourceStages, EndStage, AllDone, AssembledAll, Ended
<1> QED
  BY <1>1, <1>2, <1>3 DEF OutputAllOrNothing

(* The output file is touched only when every part of the work is done, and *)
(* the exit status says whether it was: nothing that is thrown, and no      *)
(* option, leaves a half-written a.out behind (main.cpp:89-108).            *)
THEOREM OutputAllOrNothingCorrect == DriverSpec => []OutputAllOrNothing
BY OutputAllOrNothingInv, DriverInvariant, PTL

-----------------------------------------------------------------------------
(* From the source to the tree *)

WordsAre == words # << >> => words = [k \in DOMAIN token_list |-> Word(token_list[k])]

LEMMA WordsKept == StagesInv /\ WordsAre /\ [DriverNext]_driverVars => WordsAre'
<1> SUFFICES ASSUME StagesInv, WordsAre, [DriverNext]_driverVars
             PROVE  WordsAre'
  OBVIOUS
<1>1. CASE Tokenized
  BY <1>1 DEF Tokenized, WordsAre, tokenizerVars
<1>2. CASE Tokenize
  BY <1>2 DEF Tokenize, WordsAre, StagesInv, SourceStages, parserVars
<1>3. CASE Parse
  <2>1. words' = words
    BY <1>3, Zenon DEF Parse, P!Next, P!SkipNewline, P!ParseDirective, P!ParseLabel, P!ParseInstruction,
                P!InvalidToken, P!Return, P!Statement, P!Throw
  <2> QED
    BY <1>3, <2>1 DEF Parse, WordsAre, tokenizerVars
<1>4. CASE UNCHANGED <<tokenizerVars, parserVars>>
  BY <1>4 DEF WordsAre, tokenizerVars, parserVars
<1>5. Tokenized \/ Tokenize \/ Parse \/ UNCHANGED <<tokenizerVars, parserVars>>
  <2>1. UNCHANGED driverVars => UNCHANGED <<tokenizerVars, parserVars>>
    BY DEF driverVars
  <2> QED
    BY <2>1 DEF DriverNext, ReadArguments, TokenizerThrows, ParserThrows,
                   Parsed, AssembleNext, AssemblerThrows, TreeAssembled, OpenOutput,
                   Write, OutputWritten
<1> QED
  BY <1>1, <1>2, <1>3, <1>4, <1>5

TreeOfSource ==
    /\ T!TokensTrue /\ T!ErrorsTrue
    /\ WordsAre
    /\ P!TreeKeepsTokens /\ P!Precedence

(* At every moment of the program, the tree is one of the source: its nodes  *)
(* have all the tokens of the lines so far, in order and bound as the       *)
(* grammar has it, and the tokens are those of the lines (main.cpp:71-98).  *)
THEOREM SourceToTree == DriverSpec => []TreeOfSource
<1>1. DriverInit => DriverInv /\ WordsAre
  BY DriverInitInv DEF DriverInit, WordsAre
<1>2. DriverInv /\ WordsAre /\ [DriverNext]_driverVars => (DriverInv /\ WordsAre)'
  BY DriverNextInv, WordsKept, Zenon DEF DriverInv
<1>3. ASSUME DriverInv, WordsAre
      PROVE  TreeOfSource
  <2>1. T!TokensTrue /\ T!ErrorsTrue
    BY <1>3, SameTokens, SameAssumptions, TP!TokensTrueInv, TP!ErrorsTrueInv, Zenon
       DEF DriverInv
  <2>2. P!TreeKeepsTokens /\ P!Precedence
    BY <1>3, SameTrees, SameAssumptions, PP!ParserKeepsTokensInv, PP!ParserPrecedenceInv,
       Zenon DEF DriverInv
  <2> QED
    BY <1>3, <2>1, <2>2 DEF TreeOfSource
<1> QED
  BY <1>1, <1>2, <1>3, PTL DEF DriverSpec
-----------------------------------------------------------------------------
(* The object, from the first node to the last byte of the output *)

LEMMA NextNodeIs ==
  ASSUME DriverInv, NodesCover, Len(assembled) < Len(lines)
  PROVE  NextNode \in Nodes
<1>1. Len(lines) \in Nat /\ lines = [k \in 1..Len(lines) |-> lines[k]]
  BY DEF DriverInv, PP!ParserInv
<1>2. PICK n \in 0..Len(lines) : assembled = [k \in 1..n |-> lines[k]]
  BY DEF DriverInv, StagesInv, ObjectStages
<1>3. Len(assembled) = n
  BY <1>1, <1>2, PrefixGrows
<1>4. DOMAIN lines = 1..Len(lines)
  BY <1>1, Zenon
<1>5. n + 1 \in DOMAIN lines
  BY <1>1, <1>3, <1>4
<1> QED
  BY <1>3, <1>5 DEF NodesCover, NextNode

(* To the object a step of main is one of assemble, before the output is    *)
(* open, or of the writer, or nothing.                                      *)
LEMMA ObjectStep ==
  ASSUME DriverInv, NodesCover, [DriverNext]_driverVars
  PROVE  \/ /\ stage \notin {"write", "ended"} /\ [AssemblerNext]_assemblerVars
            /\ UNCHANGED writerVars /\ wpc = "idle"
         \/ /\ stage = "write" /\ stage' = "write" /\ UNCHANGED <<running, assembled>>
            /\ \/ WriteFileHeader \/ WriteNullHeader \/ WriteSectionHeader
               \/ HeadersDone \/ WriteBody \/ WriteDone
         \/ /\ stage \in {"write", "ended"} /\ stage' \in {"write", "ended"}
            /\ UNCHANGED <<objectVars, writerVars>>
<1>1. stage \in Stages
  BY DEF DriverInv, StagesInv, MainStages
<1>2. stage \notin {"write", "ended"} => wpc = "idle"
  BY DEF DriverInv, StagesInv, MainStages
<1>3. UNCHANGED objectVars => UNCHANGED assemblerVars
  BY DEF objectVars, assemblerVars
<1>4. CASE AssembleNext
  <2>1. AssembleNode(NextNode) /\ NextNode \in Nodes
    BY <1>4, NextNodeIs, Zenon DEF AssembleNext
  <2>2. AssemblerNext
    BY <2>1, Zenon DEF AssemblerNext
  <2>3. stage = "assemble" /\ UNCHANGED writerVars
    BY <1>4 DEF AssembleNext, outputVars
  <2> QED
    BY <1>2, <2>2, <2>3
<1>5. CASE Parsed \/ TreeAssembled
  <2>1. stage \notin {"write", "ended"} /\ UNCHANGED writerVars
    BY <1>5 DEF Parsed, TreeAssembled, outputVars
  <2>2. Assemble \/ Return \/ UNCHANGED objectVars
    BY <1>5, Zenon DEF Parsed, TreeAssembled
  <2>3. [AssemblerNext]_assemblerVars
    BY <1>3, <2>2, Zenon DEF AssemblerNext
  <2> QED
    BY <1>2, <2>1, <2>3
<1>6. CASE Write
  BY <1>6, Zenon DEF Write
<1>7. CASE OutputWritten
  BY <1>7 DEF OutputWritten, Exit
<1>8. CASE UNCHANGED driverVars
  <2>1. UNCHANGED <<stage, objectVars, writerVars>>
    BY <1>8 DEF driverVars, outputVars
  <2> QED
    BY <1>1, <1>2, <1>3, <2>1
<1>9. CASE \/ ReadArguments \/ Tokenize \/ TokenizerThrows \/ Tokenized
           \/ Parse \/ ParserThrows \/ AssemblerThrows \/ OpenOutput
  <2>1. stage \notin {"write", "ended"}
    BY <1>9 DEF ReadArguments, Tokenize, TokenizerThrows, Tokenized, Parse, ParserThrows,
                AssemblerThrows, OpenOutput
  <2>2. UNCHANGED <<objectVars, writerVars>>
    <3>1. UNCHANGED outputVars => UNCHANGED writerVars
      BY DEF outputVars
    <3> QED
      BY <1>9, <3>1 DEF ReadArguments, Tokenize, TokenizerThrows, Tokenized, Parse,
                        ParserThrows, AssemblerThrows, OpenOutput
  <2> QED
    BY <1>2, <1>3, <2>1, <2>2
<1> QED
  BY <1>4, <1>5, <1>6, <1>7, <1>8, <1>9, Zenon DEF DriverNext

LEMMA WriterSteps ==
  ASSUME DriverInv, NodesCover, [DriverNext]_driverVars
  PROVE  [WriterNext]_allVars
<1>1. ASSUME [AssemblerNext]_assemblerVars, UNCHANGED writerVars, wpc = "idle"
      PROVE  [WriterNext]_allVars
  <2>1. [Next]_vars
    BY <1>1, AssemblerStep, Zenon
  <2> QED
    BY <1>1, <2>1 DEF WriterNext, ChangeObject, allVars
<1>2. ASSUME UNCHANGED <<objectVars, writerVars>>
      PROVE  UNCHANGED allVars
  BY <1>2 DEF objectVars, allVars
<1> QED
  BY <1>1, <1>2, ObjectStep, Zenon DEF WriterNext

(* What main does to the object and the file is a behaviour of the writer   *)
(* and of the class ELF below it, if Nodes has the nodes of the tree: all   *)
(* that is proved of them holds in the program (main.cpp:97-108).           *)
THEOREM DriverImplementsWriter ==
    DriverSpec /\ []NodesCover => WriterInit /\ [][WriterNext]_allVars
<1>1. DriverInit => WriterInit
  BY DEF DriverInit
<1>2. DriverInv /\ NodesCover /\ [DriverNext]_driverVars => [WriterNext]_allVars
  BY WriterSteps
<1> QED
  BY <1>1, <1>2, DriverInvariant, PTL DEF DriverSpec

(* Every symbol names a section there is.                                   *)
SymbolsInside == \A s \in DOMAIN symbols : symbols[s].st_shndx + 1 \in DOMAIN sections

LEMMA SymbolsAreInside ==
  ASSUME 8 <= ShndxMod
  PROVE  /\ LabelInv => SymbolsInside
         /\ LabelInv' => SymbolsInside'
<1>1. ASSUME LabelInv, NEW s \in DOMAIN symbols
      PROVE  symbols[s].st_shndx + 1 \in DOMAIN sections
  <2>1. /\ SymbolTableConsistent /\ SymbolsBound /\ TypeInv /\ Len(sections) = 8
        /\ symbols \in Seq(Symbol) /\ defined \in Seq(Definition)
    BY <1>1 DEF LabelInv, BoundInv, SectionInv, FixedSections, AssemblerTypeOK, TypeOK
  <2>2. /\ DOMAIN sections = 1..8 /\ DOMAIN symbols = 1..Len(symbols)
        /\ DOMAIN defined = 1..Len(defined) /\ Len(defined) \in Nat
        /\ Len(symbols) = Len(defined) + 1
    BY <2>1, LenProperties DEF SymbolTableConsistent, TypeInv, ObjectTypeOK
  <2>3. CASE s = 1
    BY <2>1, <2>2, <2>3 DEF SymbolTableConsistent, NullSymbol
  <2>4. CASE s # 1
    <3>4. PICK n \in Nat : Len(defined) = n
      BY <2>2
    <3>5. s \in 2..(n + 1)
      BY <1>1, <2>2, <2>4, <3>4
    <3>6. s - 1 \in 1..n /\ s = (s - 1) + 1
      BY <3>4, <3>5
    <3>1. PICK k \in 1..Len(defined) : s = k + 1
      BY <3>4, <3>6, Zenon
    <3>7. defined[k] \in Definition
      BY <2>1, <2>2, <3>1, ElementOfSeq
    <3>2. defined[k].section \in Nat
      BY <3>7 DEF Definition
    <3>3. symbols[k + 1].st_shndx = defined[k].section /\ defined[k].section < 8
      BY <2>1, <2>2, <3>2, BoundsAssumption DEF SymbolsBound
    <3> QED
      BY <2>2, <3>1, <3>2, <3>3
  <2> QED
    BY <2>3, <2>4
<1>2. LabelInv => SymbolsInside
  BY <1>1 DEF SymbolsInside
<1> QED
  BY <1>2, PTL

(* The object is that of the nodes assembled: while assemble fills it, by   *)
(* LabelInv, and still when the writer has its headers.                     *)
ProgramInv ==
    /\ WriterInv
    /\ BytesInProgramOrder /\ CodeNeedsSection /\ LabelsBound /\ SymbolsInside
    /\ stage \notin {"write", "ended"} => LabelInv

LEMMA ProgramInitInv ==
  ASSUME 8 <= ShndxMod
  PROVE  DriverInit => ProgramInv
<1> SUFFICES ASSUME DriverInit
             PROVE  ProgramInv
  OBVIOUS
<1>1. WriterInit /\ AssemblerInit
  BY DEF DriverInit
<1>2. CodeNeedsSection
  BY <1>1 DEF AssemblerInit, CodeNeedsSection
<1>3. LabelInv /\ SymbolsInside
  BY <1>1, InitLabelInv, SymbolsAreInside
<1> QED
  BY <1>1, <1>2, <1>3, WriterInitInv, InitBytes DEF ProgramInv, LabelInv

(* The writer changes nothing of the sections that the program has put      *)
(* there.                                                                   *)
ProgramUnchanged ==
    /\ assembled' = assembled /\ symbols' = symbols /\ strings' = strings
    /\ DOMAIN sections' = DOMAIN sections
    /\ \A i \in DOMAIN sections : /\ sections'[i].name = sections[i].name
                                  /\ sections'[i].data = sections[i].data

LEMMA ProgramKept ==
  ASSUME ProgramUnchanged, BytesInProgramOrder, CodeNeedsSection, LabelsBound, SymbolsInside
  PROVE  BytesInProgramOrder' /\ CodeNeedsSection' /\ LabelsBound' /\ SymbolsInside'
<1> USE DEF ProgramUnchanged
<1>1. \A name : CodeOf(name)' = CodeOf(name)
  BY ProgramIsAssembled, Zenon
<1>2. \A k : SectionAt(k)' = SectionAt(k)
  BY ProgramIsAssembled, Zenon
<1>3. BytesInProgramOrder'
  BY <1>1 DEF BytesInProgramOrder
<1>4. CodeNeedsSection'
  BY <1>2 DEF CodeNeedsSection
<1>5. SymbolsInside'
  BY DEF SymbolsInside
<1>6. LabelsBound'
  <2>1. Len(symbols') = Cardinality({k \in DOMAIN assembled' : IsLabel(assembled'[k])}) + 1
    BY DEF LabelsBound
  <2>2. ASSUME NEW k \in DOMAIN assembled', IsLabel(assembled'[k])
        PROVE  \E s \in 2..Len(symbols') :
                 /\ Nth(strings', symbols'[s].st_name) = assembled'[k].name
                 /\ Nth(sections', symbols'[s].st_shndx).name = SectionAt(k)'
    <3>1. PICK s \in 2..Len(symbols) :
            /\ Nth(strings, symbols[s].st_name) = assembled[k].name
            /\ Nth(sections, symbols[s].st_shndx).name = SectionAt(k)
      BY <2>2 DEF LabelsBound
    <3>2. symbols[s].st_shndx + 1 \in DOMAIN sections
      BY <3>1 DEF SymbolsInside
    <3> QED
      BY <1>2, <3>1, <3>2 DEF Nth
  <2> QED
    BY <2>1, <2>2 DEF LabelsBound
<1> QED
  BY <1>3, <1>4, <1>5, <1>6

LEMMA WriterKeepsContent ==
  ASSUME ProgramInv, UNCHANGED assembled,
         \/ WriteFileHeader \/ WriteNullHeader \/ WriteSectionHeader
         \/ HeadersDone \/ WriteBody \/ WriteDone
  PROVE  BytesInProgramOrder' /\ CodeNeedsSection' /\ LabelsBound' /\ SymbolsInside'
<1>0. BytesInProgramOrder /\ CodeNeedsSection /\ LabelsBound /\ SymbolsInside
  BY DEF ProgramInv
<1>1. CASE WriteSectionHeader
  <2>1. /\ TypeInv /\ it \in 1..Len(sections) /\ sh_name \in Int /\ section_offs \in Int
        /\ sections' = [sections EXCEPT ![it] = SwappedSection(it)]
        /\ UNCHANGED <<tables, curr_section, curr_rel_idx, outcome, defined>>
    BY <1>1 DEF WriteSectionHeader, ProgramInv, WriterInv, WriterTypeOK
  <2>2. /\ Len(sections') = Len(sections)
        /\ \A i \in 1..Len(sections) : /\ sections'[i].name = sections[i].name
                                       /\ sections'[i].data = sections[i].data
    BY <2>1, HeaderSwapped
  <2>3. DOMAIN sections = 1..Len(sections)
    BY <2>1, LenProperties DEF TypeInv, ObjectTypeOK
  <2>4. DOMAIN sections' = DOMAIN sections
    BY <2>1
  <2>5. UNCHANGED <<symbols, strings>>
    BY <2>1 DEF tables
  <2> QED
    <3>1. ProgramUnchanged
      BY <2>2, <2>3, <2>4, <2>5 DEF ProgramUnchanged
    <3> QED
      BY <1>0, <3>1, ProgramKept
<1>2. CASE WriteFileHeader \/ WriteNullHeader \/ HeadersDone \/ WriteBody \/ WriteDone
  <2>1. UNCHANGED <<sections, symbols, strings>>
    BY <1>2 DEF WriteFileHeader, WriteNullHeader, NullHeaderWritten, HeadersDone,
                WriteBody, WriteDone, vars, tables
  <2> QED
    <3>1. ProgramUnchanged
      BY <2>1 DEF ProgramUnchanged
    <3> QED
      BY <1>0, <3>1, ProgramKept
<1> QED
  BY <1>1, <1>2

LEMMA ProgramNextInv ==
  ASSUME 8 <= ShndxMod, DriverInv, NodesCover, ProgramInv, [DriverNext]_driverVars
  PROVE  ProgramInv'
<1>1. WriterInv'
  BY WriterSteps, WriterNextInv, Zenon DEF ProgramInv
<1>2. CASE stage \notin {"write", "ended"} /\ [AssemblerNext]_assemblerVars
  <2>1. LabelInv /\ BytesInProgramOrder /\ CodeNeedsSection
    BY <1>2 DEF ProgramInv
  <2>2. LabelInv'
    BY <1>2, <2>1, NextLabelInv
  <2>3. BytesInProgramOrder' /\ CodeNeedsSection'
    BY <1>2, <2>1, NextBytes, NextCodeNeedsSection, Zenon DEF LabelInv
  <2>4. LabelsBound' /\ SymbolsInside'
    BY <2>2, SymbolsAreInside DEF LabelInv
  <2> QED
    BY <1>1, <2>2, <2>3, <2>4 DEF ProgramInv
<1>3. ASSUME stage' \in {"write", "ended"},
             BytesInProgramOrder' /\ CodeNeedsSection' /\ LabelsBound' /\ SymbolsInside'
      PROVE  ProgramInv'
  BY <1>1, <1>3 DEF ProgramInv
<1>4. CASE stage \in {"write", "ended"} /\ stage' \in {"write", "ended"}
           /\ UNCHANGED <<objectVars, writerVars>>
  <2>1. UNCHANGED <<assembled, symbols, strings, sections>>
    BY <1>4 DEF objectVars, vars, tables
  <2>2. BytesInProgramOrder' /\ CodeNeedsSection' /\ LabelsBound' /\ SymbolsInside'
    <3>1. BytesInProgramOrder /\ CodeNeedsSection /\ LabelsBound /\ SymbolsInside
      BY DEF ProgramInv
    <3>2. ProgramUnchanged
      BY <2>1 DEF ProgramUnchanged
    <3> QED
      BY <3>1, <3>2, ProgramKept
  <2> QED
    BY <1>3, <1>4, <2>2
<1>5. CASE /\ stage = "write" /\ stage' = "write" /\ UNCHANGED <<running, assembled>>
           /\ \/ WriteFileHeader \/ WriteNullHeader \/ WriteSectionHeader
              \/ HeadersDone \/ WriteBody \/ WriteDone
  <2>1. BytesInProgramOrder' /\ CodeNeedsSection' /\ LabelsBound' /\ SymbolsInside'
    BY <1>5, WriterKeepsContent
  <2> QED
    BY <1>3, <1>5, <2>1
<1> QED
  BY <1>2, <1>4, <1>5, ObjectStep

(* What the object has of the nodes of the tree. *)
ObjectOfTree ==
    /\ BytesInProgramOrder /\ CodeNeedsSection /\ LabelsBound
    /\ AssembledAll => assembled = lines

(* The sections have the code of the nodes assembled so far, in order and   *)
(* each under its directive, the symbol table has their labels, and a       *)
(* program that ends well has assembled every node of the tree; writing the *)
(* object takes nothing away from it (main.cpp:97-108).                     *)
THEOREM TreeToObject ==
  ASSUME 8 <= ShndxMod
  PROVE  DriverSpec /\ []NodesCover => []ObjectOfTree
<1>0. DriverInit => ProgramInv
  BY ProgramInitInv
<1>1. DriverInv /\ NodesCover /\ ProgramInv /\ [DriverNext]_driverVars => ProgramInv'
  BY ProgramNextInv
<1>2. DriverInv /\ ProgramInv => ObjectOfTree
  <2>1. DriverInv /\ AssembledAll => assembled = lines
    BY OutputAllOrNothingInv DEF OutputAllOrNothing, AssembledAll, Ended
  <2> QED
    BY <2>1 DEF ObjectOfTree, ProgramInv
<1> QED
  BY <1>0, <1>1, <1>2, DriverInvariant, PTL DEF DriverSpec

FileOfObject == BodiesWhereDeclared /\ FileLayout /\ ShstrndxTrue /\ NamesResolve

(* a.out, as far as it is written, is a file in which a reader finds every  *)
(* section by its header, and every name (elf_writer.cpp:20-84).            *)
THEOREM ObjectToFile ==
  ASSUME \A s \in NewSections : s.type # "REL",
         \A m, n \in SectionNames : RelName(m) = RelName(n) => m = n
  PROVE  DriverSpec /\ []NodesCover => []FileOfObject
<1>1. FileNamesInv /\ [WriterNext]_allVars => FileNamesInv'
  BY FileNamesNext
<1>2. WriterInv /\ ShstrndxInv /\ FileNamesInv => FileOfObject
  BY BodiesWhereDeclaredInv, FileLayoutInv, ShstrndxTrueInv, NamesResolveInv
     DEF FileOfObject
<1> QED
  BY <1>1, <1>2, WriterInitInv, WriterNextInv, ShstrndxInitInv, ShstrndxNextInv,
     FileNamesInit, DriverImplementsWriter, PTL

(* The byte of an instruction says which it is, in every program that is    *)
(* assembled (assembler.cpp:133-235, main.cpp:97-100).                      *)
THEOREM DriverEncodesOnce ==
  ASSUME InstructionsAsParsed
  PROVE  DriverSpec /\ []NodesCover => []EncodingUnambiguous
<1>1. ASSUME DriverInv, NodesCover
      PROVE  EncodingUnambiguous
  <2>1. Len(lines) \in Nat /\ lines = [k \in 1..Len(lines) |-> lines[k]]
    BY <1>1 DEF DriverInv, PP!ParserInv
  <2>2. PICK n \in 0..Len(lines) : assembled = [k \in 1..n |-> lines[k]]
    BY <1>1 DEF DriverInv, StagesInv, ObjectStages
  <2>3. DOMAIN lines = 1..Len(lines)
    BY <2>1, Zenon
  <2>4. \A k \in 1..n : assembled[k] \in Nodes
    BY <1>1, <2>1, <2>2, <2>3 DEF NodesCover
  <2> QED
    BY <2>2, <2>4, EncodingUnambiguousInv
<1> QED
  BY <1>1, DriverInvariant, PTL

(* From its beginning to its end, main does to the object only what the     *)
(* abstract object file allows: select a section, add bytes at its end,     *)
(* define a symbol once (main.cpp:97-108, elf.cpp:344-421).                 *)
THEOREM DriverImplementsObjectFile ==
  ASSUME 8 <= ShndxMod, MaxSections <= ShndxMod
  PROVE  DriverSpec /\ []NodesCover => ObjectSpec
<1>1. WriterInit /\ [][WriterNext]_allVars => ObjectSpec
  BY WriterImplementsObjectFile
<1> QED
  BY <1>1, DriverImplementsWriter, PTL

-----------------------------------------------------------------------------
(* What a source means, of its words alone *)

(* Of the n lines of a program, line k is the words from s[k] to e[k]; D    *)
(* are the directives among them, and the word at m is the EOF that ends it. *)
Layout(w, n, m, s, e, D) ==
    /\ Len(w) \in Nat /\ DOMAIN w = 1..Len(w)
    /\ n \in Nat /\ m \in 1..Len(w) /\ w[m] = "EOF"
    /\ \A k \in 1..n : s[k] \in 1..m /\ e[k] \in 1..m /\ s[k] <= e[k] /\ e[k] < m
    /\ \A j, k \in 1..n : j < k => e[j] < s[k]
    /\ \A p \in 1..(m - 1) : w[p] = "EOL" \/ \E k \in 1..n : s[k] <= p /\ p <= e[k]
    /\ \A k \in 1..n : k \in D =>
         /\ e[k] = s[k] + 1 /\ w[s[k]] = ".section"
         /\ w[e[k]] \notin {"EOL", "EOF", ".section"} \cup P!NumericOps
    /\ \A k \in 1..n : k \notin D =>
         /\ w[s[k]] \notin {"EOL", "EOF"}
         /\ e[k] + 1 < m /\ w[e[k] + 1] = "EOL" /\ w[e[k]] \notin P!NumericOps
         /\ \A q \in s[k]..e[k] :
              /\ w[q] # ".section"
              /\ q < e[k] /\ w[q + 1] = "EOL" => w[q] \in P!NumericOps

LEMMA OrderedLines ==
  ASSUME NEW w, NEW n, NEW m, NEW s, NEW e, NEW D, Layout(w, n, m, s, e, D),
         NEW j \in 1..n, NEW k \in 1..n
  PROVE  /\ j \in Nat /\ k \in Nat /\ s[j] \in Nat /\ e[j] \in Nat /\ s[k] \in Nat /\ e[k] \in Nat
         /\ s[j] <= e[k] => j <= k
         /\ e[j] = e[k] => j = k
BY SMTT(30) DEF Layout

LEMMA NoOperator == {"EOL", "EOF", ".section"} \cap P!NumericOps = {}
BY DEF P!NumericOps, P!MultiplicationOps, P!AdditionOps

(* A line of the source ends where no statement is.                         *)
LEMMA LineEndsOutside ==
  ASSUME NEW w, NEW n, NEW m, NEW s, NEW e, NEW D, Layout(w, n, m, s, e, D),
         NEW q \in 1..m
  PROVE  q \in LineEnds(w) <=>
           w[q] = "EOL" /\ \A k \in 1..n : q < s[k] \/ e[k] < q
<1>0. q \in Nat /\ q \in DOMAIN w /\ m \in Nat
  BY DEF Layout
<1>1. ASSUME q \in LineEnds(w), NEW k \in 1..n, s[k] <= q, q <= e[k]
      PROVE  FALSE
  <2>1. w[q] = "EOL" /\ (q = 1 \/ w[q - 1] \notin P!NumericOps)
    BY <1>1 DEF LineEnds
  <2>2. s[k] \in Nat /\ e[k] \in Nat /\ 1 <= s[k] /\ w[s[k]] # "EOL"
    BY <1>1 DEF Layout
  <2>3. s[k] < q
    BY <1>0, <1>1, <2>1, <2>2
  <2>4. PICK p \in Nat : p = q - 1 /\ q = p + 1
    BY <1>0, <2>2, <2>3
  <2>5. p \in s[k]..e[k] /\ p < e[k] /\ w[p + 1] = "EOL" /\ w[p] \notin P!NumericOps
    BY <1>0, <1>1, <2>1, <2>2, <2>3, <2>4
  <2>6. k \notin D
    BY <1>0, <1>1, <2>1, <2>2, <2>3 DEF Layout
  <2> QED
    BY <1>1, <2>5, <2>6 DEF Layout
<1>2. ASSUME w[q] = "EOL", \A k \in 1..n : q < s[k] \/ e[k] < q
      PROVE  q \in LineEnds(w)
  <2>1. CASE q = 1
    BY <1>0, <1>2, <2>1 DEF LineEnds
  <2>2. CASE q # 1
    <3>1. PICK p \in Nat : p = q - 1 /\ q = p + 1
      BY <1>0, <2>2
    <3>2. p \in 1..(m - 1)
      BY <1>0, <2>2, <3>1
    <3>3. CASE w[p] = "EOL"
      BY <1>0, <1>2, <3>1, <3>3, NoOperator DEF LineEnds
    <3>4. CASE w[p] # "EOL"
      <4>1. PICK k \in 1..n : s[k] <= p /\ p <= e[k]
        BY <3>2, <3>4 DEF Layout
      <4>2. e[k] = p
        <5>1. s[k] \in Nat /\ e[k] \in Nat
          BY DEF Layout
        <5> QED
          BY <1>0, <1>2, <3>1, <4>1, <5>1
      <4>3. w[e[k]] \notin P!NumericOps
        BY DEF Layout
      <4> QED
        BY <1>0, <1>2, <3>1, <4>2, <4>3 DEF LineEnds
    <3> QED
      BY <3>3, <3>4
  <2> QED
    BY <2>1, <2>2
<1>3. q \in LineEnds(w) => w[q] = "EOL"
  BY DEF LineEnds
<1>4. ASSUME q \in LineEnds(w), NEW k \in 1..n
      PROVE  q < s[k] \/ e[k] < q
  <2>1. s[k] \in Nat /\ e[k] \in Nat
    BY DEF Layout
  <2> QED
    BY <1>0, <1>1, <1>4, <2>1
<1> QED
  BY <1>2, <1>3, <1>4

(* A word .section is a directive, and its line the directive's.            *)
LEMMA DirectivesAre ==
  ASSUME NEW w, NEW n, NEW m, NEW s, NEW e, NEW D, Layout(w, n, m, s, e, D),
         NEW d \in 1..(m - 1)
  PROVE  d \in DirectivesIn(w) <=> \E k \in 1..n : k \in D /\ d = s[k]
<1>0. d \in DOMAIN w /\ d \in Nat
  BY DEF Layout
<1>1. ASSUME NEW k \in 1..n, k \in D, d = s[k]
      PROVE  d \in DirectivesIn(w)
  BY <1>0, <1>1 DEF Layout, DirectivesIn
<1>2. ASSUME d \in DirectivesIn(w)
      PROVE  \E k \in 1..n : k \in D /\ d = s[k]
  <2>1. w[d] = ".section"
    BY <1>2 DEF DirectivesIn
  <2>2. PICK k \in 1..n : s[k] <= d /\ d <= e[k]
    BY <2>1 DEF Layout
  <2>3. s[k] \in Nat /\ e[k] \in Nat
    BY DEF Layout
  <2>4. k \in D
    BY <1>0, <2>1, <2>2, <2>3 DEF Layout
  <2>5. e[k] = s[k] + 1 /\ w[e[k]] # ".section"
    BY <2>4 DEF Layout
  <2>6. d = s[k]
    BY <1>0, <2>1, <2>2, <2>3, <2>5
  <2> QED
    BY <2>4, <2>6
<1> QED
  BY <1>1, <1>2

(* The program ends at the EOF that the parser stops at, and at no other.   *)
LEMMA ProgramEndsAt ==
  ASSUME NEW w, NEW n, NEW m, NEW s, NEW e, NEW D, Layout(w, n, m, s, e, D)
  PROVE  /\ m \in Ends(w)
         /\ \A x \in Ends(w) : m <= x
<1>0. m \in Nat /\ m \in DOMAIN w /\ w[m] = "EOF" /\ 1 <= m
  BY DEF Layout
<1>1. CASE m = 1
  <2>1. m \in Ends(w)
    BY <1>0, <1>1 DEF Ends
  <2>2. \A x \in Ends(w) : m <= x
    BY <1>1 DEF Ends, Layout
  <2> QED
    BY <2>1, <2>2
<1>2. CASE m # 1
  <2>1. PICK p \in Nat : p = m - 1 /\ m = p + 1 /\ p \in 1..(m - 1) /\ p \in 1..m
    BY <1>0, <1>2
  <2>2. ASSUME w[p] = "EOL" /\ \A k \in 1..n : p < s[k] \/ e[k] < p
        PROVE  m \in Ends(w)
    <3>1. p \in LineEnds(w)
      BY <2>1, <2>2, LineEndsOutside
    <3> QED
      BY <1>0, <2>1, <3>1 DEF Ends
  <2>3. ASSUME NEW k \in 1..n, s[k] <= p, p <= e[k]
        PROVE  m \in Ends(w)
    <3>1. s[k] \in Nat /\ e[k] \in Nat /\ e[k] < m
      BY DEF Layout
    <3>2. e[k] = p
      BY <2>1, <2>3, <3>1
    <3>3. k \in D /\ e[k] = s[k] + 1 /\ w[s[k]] = ".section"
      BY <2>1, <3>1, <3>2 DEF Layout
    <3>4. s[k] = m - 2 /\ s[k] \in DOMAIN w
      <4>1. s[k] \in 1..m /\ m \in 1..Len(w) /\ Len(w) \in Nat /\ DOMAIN w = 1..Len(w)
        BY DEF Layout
      <4> QED
        BY <1>0, <2>1, <3>1, <3>2, <3>3, <4>1
    <3>5. m - 2 \in DirectivesIn(w)
      BY <3>3, <3>4 DEF DirectivesIn
    <3> QED
      BY <1>0, <3>5 DEF Ends
  <2>4. m \in Ends(w)
    <3>1. w[p] = "EOL" \/ \E k \in 1..n : s[k] <= p /\ p <= e[k]
      BY <2>1 DEF Layout
    <3>2. (\A k \in 1..n : p < s[k] \/ e[k] < p) \/ \E k \in 1..n : s[k] <= p /\ p <= e[k]
      <4>1. \A k \in 1..n : s[k] \in Nat /\ e[k] \in Nat
        BY DEF Layout
      <4> QED
        BY <2>1, <4>1
    <3> QED
      BY <2>2, <2>3, <3>1, <3>2
  <2>5. ASSUME NEW x \in Ends(w), x < m
        PROVE  FALSE
    <3>1. x \in Nat /\ 1 <= x /\ w[x] = "EOF" /\ x \in 1..(m - 1)
      BY <1>0, <2>5 DEF Ends, Layout
    <3>2. PICK k \in 1..n : s[k] <= x /\ x <= e[k]
      BY <3>1 DEF Layout
    <3>3. s[k] \in Nat /\ e[k] \in Nat /\ 1 <= s[k] /\ w[s[k]] # "EOF"
      BY DEF Layout
    <3>4. s[k] < x
      BY <3>1, <3>2, <3>3
    <3>5. PICK y \in Nat : y = x - 1 /\ x = y + 1
      BY <3>1
    <3>6. CASE y \in LineEnds(w)
      <4>1. y \in 1..m
        BY <1>0, <2>5, <3>1, <3>3, <3>4, <3>5
      <4>2. y < s[k] \/ e[k] < y
        BY <3>6, <4>1, LineEndsOutside
      <4> QED
        BY <3>1, <3>2, <3>3, <3>4, <3>5, <4>2
    <3>7. CASE x - 2 \in DirectivesIn(w)
      <4>1. x - 2 \in 1..(m - 1)
        BY <3>1, <3>7 DEF DirectivesIn, Layout
      <4>2. PICK j \in 1..n : j \in D /\ x - 2 = s[j]
        BY <3>7, <4>1, DirectivesAre
      <4>3. e[j] = x - 1 /\ s[j] \in Nat /\ e[j] \in Nat
        BY <3>1, <4>2 DEF Layout
      <4>4. s[k] <= e[j] /\ s[j] <= e[k]
        BY <3>1, <3>2, <3>3, <3>4, <4>2, <4>3
      <4>5. j = k
        BY <4>4, OrderedLines
      <4> QED
        BY <3>1, <3>2, <3>3, <4>3, <4>5
    <3> QED
      BY <2>5, <3>1, <3>3, <3>4, <3>5, <3>6, <3>7 DEF Ends
  <2>6. \A x \in Ends(w) : x \in Nat
    BY DEF Ends, Layout
  <2> QED
    BY <1>0, <2>4, <2>5, <2>6
<1> QED
  BY <1>1, <1>2

LEMMA ProgramLinesAre ==
  ASSUME NEW w, NEW n, NEW m, NEW s, NEW e, NEW D, Layout(w, n, m, s, e, D)
  PROVE  ProgramLines(w) = {q \in LineEnds(w) : q < m}
<1>1. m \in Ends(w) /\ \A x \in Ends(w) : m <= x
  BY ProgramEndsAt
<1>2. m \in Nat /\ LineEnds(w) \subseteq Nat /\ Ends(w) \subseteq Nat
  BY DEF Layout, LineEnds, Ends
<1> QED
  BY <1>1, <1>2 DEF ProgramLines

Unpunctuated(w, p, q) == {x \in p..q : w[x] # PP!Comma}
Starts(w, q) == {1} \cup {p + 1 : p \in {x \in LineEnds(w) : x < q}}
                    \cup {p + 2 : p \in {d \in DirectivesIn(w) : d < q}}

LEMMA StartIs ==
  ASSUME NEW w, NEW n, NEW m, NEW s, NEW e, NEW D, Layout(w, n, m, s, e, D),
         NEW q \in 1..m, NEW x \in Starts(w, q), \A y \in Starts(w, q) : y <= x
  PROVE  InstructionIn(w, q) = Unpunctuated(w, x, q - 1)
<1>1. Max(Starts(w, q)) = x
  <2>0. q \in Nat /\ LineEnds(w) \subseteq Nat /\ DirectivesIn(w) \subseteq Nat
    BY DEF Layout, LineEnds, DirectivesIn
  <2>1. PICK z \in Nat : z = q + 1
    BY <2>0
  <2>2. Starts(w, q) \subseteq 1..z
    BY <2>0, <2>1 DEF Starts, LineEnds, DirectivesIn, Layout
  <2>3. Max(Starts(w, q)) \in Starts(w, q) /\ \A y \in Starts(w, q) : Max(Starts(w, q)) >= y
    BY <2>1, <2>2, MaxIs, Zenon
  <2> QED
    BY <2>2, <2>3
<1> QED
  BY <1>1, Zenon DEF InstructionIn, Unpunctuated, Starts, PP!Comma

(* In the line of an instruction the parser finds its words.                *)
LEMMA InstructionAt ==
  ASSUME NEW w, NEW n, NEW m, NEW s, NEW e, NEW D, Layout(w, n, m, s, e, D),
         NEW k \in 1..n, k \notin D, NEW q \in Nat, q = e[k] + 1
  PROVE  /\ q \in ProgramLines(w)
         /\ InstructionIn(w, q) = Unpunctuated(w, s[k], e[k])
<1>0. /\ m \in Nat /\ s[k] \in Nat /\ e[k] \in Nat /\ 1 <= s[k] /\ s[k] <= e[k]
      /\ q < m /\ q \in 1..m /\ q - 1 = e[k]
  BY DEF Layout
<1>1. \A j \in 1..n : j \in Nat /\ k \in Nat /\ s[j] \in Nat /\ e[j] \in Nat /\ s[j] <= e[j]
                      /\ (j < k => e[j] < s[k]) /\ (k < j => e[k] < s[j])
  BY DEF Layout
<1>2. \A j \in 1..n : q < s[j] \/ e[j] < q
  <2> SUFFICES ASSUME NEW j \in 1..n, s[j] <= q, q <= e[j]
               PROVE  FALSE
    BY <1>0, <1>1
  <2>1. k < j /\ s[j] = q
    BY <1>0, <1>1
  <2>2. w[q] = "EOL"
    BY DEF Layout
  <2>3. w[s[j]] # "EOL"
    BY DEF Layout
  <2> QED
    BY <2>1, <2>2, <2>3
<1>3. q \in ProgramLines(w)
  <2>1. w[q] = "EOL"
    BY DEF Layout
  <2>2. q \in LineEnds(w)
    BY <1>0, <1>2, <2>1, LineEndsOutside
  <2> QED
    BY <1>0, <2>2, ProgramLinesAre
<1>4. s[k] \in Starts(w, q)
  <2>1. CASE s[k] = 1
    BY <2>1 DEF Starts
  <2>2. CASE s[k] # 1
    <3>1. PICK p \in Nat : p = s[k] - 1 /\ s[k] = p + 1 /\ p \in 1..(m - 1) /\ p \in 1..m /\ p < q
      BY <1>0, <2>2
    <3>2. ASSUME \A j \in 1..n : p < s[j] \/ e[j] < p
          PROVE  s[k] \in Starts(w, q)
      <4>1. ~ \E j \in 1..n : s[j] <= p /\ p <= e[j]
        BY <1>1, <3>1, <3>2
      <4>2. w[p] = "EOL"
        BY <3>1, <4>1 DEF Layout
      <4>3. p \in LineEnds(w)
        BY <3>1, <3>2, <4>2, LineEndsOutside
      <4> QED
        BY <3>1, <4>3 DEF Starts
    <3>3. ASSUME NEW j \in 1..n, s[j] <= p, p <= e[j]
          PROVE  s[k] \in Starts(w, q)
      <4>1. j < k /\ e[j] = p
        BY <1>1, <3>1, <3>3
      <4>2. j \in D
        <5>1. w[s[k]] # "EOL"
          BY DEF Layout
        <5> QED
          BY <3>1, <4>1, <5>1 DEF Layout
      <4>3. e[j] = s[j] + 1
        BY <4>2 DEF Layout
      <4>4. s[j] \in 1..(m - 1) /\ s[j] < q /\ s[k] = s[j] + 2
        BY <1>0, <1>1, <3>1, <3>3, <4>1, <4>3, SMTT(30) DEF Layout
      <4>5. s[j] \in DirectivesIn(w)
        BY <4>2, <4>4, DirectivesAre, SMTT(30)
      <4> QED
        BY <4>4, <4>5 DEF Starts
    <3> QED
      BY <1>1, <3>1, <3>2, <3>3
  <2> QED
    BY <2>1, <2>2
<1>5. ASSUME NEW y \in Starts(w, q)
      PROVE  y <= s[k]
  <2>1. ASSUME NEW p \in LineEnds(w), p < q, y = p + 1
        PROVE  y <= s[k]
    <3>1. p \in 1..m /\ p \in Nat
      BY <1>0, <2>1 DEF LineEnds, Layout
    <3>2. p < s[k] \/ e[k] < p
      BY <3>1, LineEndsOutside
    <3> QED
      BY <1>0, <2>1, <3>1, <3>2
  <2>2. ASSUME NEW d \in DirectivesIn(w), d < q, y = d + 2
        PROVE  y <= s[k]
    <3>1. d \in 1..(m - 1) /\ d \in Nat
      BY <1>0, <2>2 DEF DirectivesIn, Layout
    <3>2. PICK j \in 1..n : j \in D /\ d = s[j]
      BY <3>1, DirectivesAre
    <3>3. e[j] = s[j] + 1 /\ j # k
      BY <3>2 DEF Layout
    <3>4. j < k
      BY <1>0, <1>1, <2>2, <3>2, <3>3
    <3> QED
      BY <1>0, <1>1, <2>2, <3>2, <3>3, <3>4
  <2>3. \/ y = 1 \/ \E p \in LineEnds(w) : p < q /\ y = p + 1
        \/ \E d \in DirectivesIn(w) : d < q /\ y = d + 2
    BY Zenon DEF Starts
  <2> QED
    BY <1>0, <2>1, <2>2, <2>3
<1> QED
  BY <1>0, <1>3, <1>4, <1>5, StartIs

(* Where no instruction ends, a line has none.                              *)
LEMMA NoInstructionAt ==
  ASSUME NEW w, NEW n, NEW m, NEW s, NEW e, NEW D, Layout(w, n, m, s, e, D),
         NEW q \in ProgramLines(w), \A k \in 1..n : k \notin D => q # e[k] + 1
  PROVE  InstructionIn(w, q) = {}
<1>0. /\ m \in Nat /\ q \in Nat /\ 1 <= q /\ q < m /\ q \in 1..m /\ q \in LineEnds(w)
  <2>1. q \in LineEnds(w) /\ q < m
    BY ProgramLinesAre
  <2>2. m \in Nat /\ DOMAIN w = 1..Len(w) /\ Len(w) \in Nat
    BY DEF Layout
  <2>3. q \in DOMAIN w
    BY <2>1 DEF LineEnds
  <2> QED
    BY <2>1, <2>2, <2>3
<1>1. \A j \in 1..n : s[j] \in Nat /\ e[j] \in Nat /\ s[j] <= e[j]
  BY DEF Layout
<1>2. \A j \in 1..n : q < s[j] \/ e[j] < q
  BY <1>0, LineEndsOutside
<1>3. \A y \in Starts(w, q) : y \in Nat /\ y <= q
  <2> SUFFICES ASSUME NEW y \in Starts(w, q)
               PROVE  y \in Nat /\ y <= q
    OBVIOUS
  <2>1. ASSUME NEW p \in LineEnds(w), p < q, y = p + 1
        PROVE  y \in Nat /\ y <= q
    BY <1>0, <2>1 DEF LineEnds, Layout
  <2>2. ASSUME NEW d \in DirectivesIn(w), d < q, y = d + 2
        PROVE  y \in Nat /\ y <= q
    <3>1. d \in 1..(m - 1) /\ d \in Nat
      BY <1>0, <2>2 DEF DirectivesIn, Layout
    <3>2. PICK j \in 1..n : j \in D /\ d = s[j]
      BY <3>1, DirectivesAre
    <3>3. e[j] = s[j] + 1
      BY <3>2 DEF Layout
    <3>4. e[j] < q
      BY <1>0, <1>1, <1>2, <2>2, <3>2
    <3> QED
      BY <1>0, <1>1, <2>2, <3>1, <3>2, <3>3, <3>4
  <2>3. \/ y = 1 \/ \E p \in LineEnds(w) : p < q /\ y = p + 1
        \/ \E d \in DirectivesIn(w) : d < q /\ y = d + 2
    BY Zenon DEF Starts
  <2> QED
    BY <1>0, <2>1, <2>2, <2>3
<1>4. q \in Starts(w, q)
  <2>1. CASE q = 1
    BY <2>1 DEF Starts
  <2>2. CASE q # 1
    <3>1. PICK p \in Nat : p = q - 1 /\ q = p + 1 /\ p \in 1..(m - 1) /\ p \in 1..m /\ p < q
      BY <1>0, <2>2
    <3>2. ASSUME \A j \in 1..n : p < s[j] \/ e[j] < p
          PROVE  q \in Starts(w, q)
      <4>1. ~ \E j \in 1..n : s[j] <= p /\ p <= e[j]
        BY <1>1, <3>1, <3>2
      <4>2. w[p] = "EOL"
        BY <3>1, <4>1 DEF Layout
      <4>3. p \in LineEnds(w)
        BY <3>1, <3>2, <4>2, LineEndsOutside
      <4> QED
        BY <3>1, <4>3 DEF Starts
    <3>3. ASSUME NEW j \in 1..n, s[j] <= p, p <= e[j]
          PROVE  q \in Starts(w, q)
      <4>1. e[j] = p /\ e[j] + 1 = q
        BY <1>0, <1>1, <1>2, <3>1, <3>3
      <4>2. j \in D
        BY <4>1
      <4>3. e[j] = s[j] + 1
        BY <4>2 DEF Layout
      <4>4. s[j] \in 1..(m - 1) /\ s[j] < q /\ q = s[j] + 2
        BY <1>0, <1>1, <3>1, <3>3, <4>1, <4>3 DEF Layout
      <4>5. s[j] \in DirectivesIn(w)
        BY <4>2, <4>4, DirectivesAre
      <4> QED
        BY <4>4, <4>5 DEF Starts
    <3> QED
      BY <1>1, <3>1, <3>2, <3>3
  <2> QED
    BY <2>1, <2>2
<1>5. InstructionIn(w, q) = Unpunctuated(w, q, q - 1)
  BY <1>0, <1>3, <1>4, StartIs
<1>6. q..(q - 1) = {}
  BY <1>0
<1> QED
  BY <1>5, <1>6, Zenon DEF Unpunctuated

(* The section of an instruction is that of the last directive before it.   *)
LEMMA SectionAbove ==
  ASSUME NEW w, NEW n, NEW m, NEW s, NEW e, NEW D, Layout(w, n, m, s, e, D),
         NEW k \in 1..n, k \notin D, NEW q \in Nat, q = e[k] + 1,
         NEW i \in 1..n, i \in D, i < k, \A j \in 1..n : j \in D /\ j < k => j <= i
  PROVE  /\ s[i] \in DirectivesIn(w) /\ s[i] < q
         /\ SectionOf(w, q) = w[s[i] + 1]
<1> DEFINE S == {d \in DirectivesIn(w) : d < q}
<1>0. /\ m \in Nat /\ s[k] \in Nat /\ e[k] \in Nat /\ s[k] <= e[k] /\ q < m
  BY DEF Layout
<1>1. \A j \in 1..n : j \in Nat /\ s[j] \in Nat /\ e[j] \in Nat /\ s[j] <= e[j] /\ 1 <= s[j]
                      /\ (j < k => e[j] < s[k]) /\ (k < j => e[k] < s[j])
                      /\ (j < i => e[j] < s[i])
  BY DEF Layout
<1>2. s[i] < q /\ s[i] \in 1..(m - 1)
  BY <1>0, <1>1
<1>3. s[i] \in DirectivesIn(w)
  BY <1>2, DirectivesAre
<1>4. ASSUME NEW d \in S
      PROVE  d \in 1..m /\ d <= s[i]
  <2>1. d \in 1..(m - 1) /\ d \in Nat /\ d \in 1..m
    BY <1>0 DEF DirectivesIn, Layout
  <2>2. PICK j \in 1..n : j \in D /\ d = s[j]
    BY <2>1, DirectivesAre
  <2>3. ~ (k < j)
    BY <1>0, <1>1, <2>2
  <2>4. j < k /\ j <= i
    BY <1>1, <2>2, <2>3
  <2> QED
    BY <1>1, <2>1, <2>2, <2>4
<1>5. s[i] \in S
  BY <1>2, <1>3
<1>6. SectionOf(w, q) = w[Max(S) + 1]
  BY DEF SectionOf
<1> HIDE DEF S
<1>7. Max(S) \in S /\ \A y \in S : Max(S) >= y
  BY <1>0, <1>4, <1>5, MaxIs
<1>8. Max(S) = s[i]
  BY <1>4, <1>5, <1>7
<1> QED
  BY <1>2, <1>3, <1>6, <1>8

-----------------------------------------------------------------------------
(* The tree of a source that is parsed to its end *)

LineCount == Len(lines)
Starting == [k \in 1..LineCount |-> spans[k][1] + 1]
Ending == [k \in 1..LineCount |-> spans[k][2]]
DirectiveLines == {k \in 1..LineCount : IsSection(lines[k])}

TreeRead ==
    /\ PP!ParserInv /\ status = "done"
    /\ \A k \in 1..LineCount :
         /\ IsSection(lines[k]) => lines[k].operands[1] \in InitialNames
         /\ IsCode(lines[k]) \/ IsLabel(lines[k]) \/ IsSection(lines[k]) \/ Ignored(lines[k])

LEMMA ReservedWords ==
  /\ PP!Instructions \cap {"EOL", "EOF", ".section", ":"} = {}
  /\ InitialNames \cap ({"EOF", ".section"} \cup P!NumericOps) = {}
<1>1. PP!Instructions \cap {"EOL", "EOF", ".section", ":"} = {}
  BY DEF PP!Instructions, PP!NoOperands, PP!OneOperand, PP!TwoOperands, PP!OneOrTwoOperands
<1>2. InitialNames \cap ({"EOF", ".section"} \cup P!NumericOps) = {}
  BY DEF InitialNames, P!NumericOps, P!MultiplicationOps, P!AdditionOps
<1> QED
  BY <1>1, <1>2

LEMMA PeekWords ==
  ASSUME PP!Listed
  PROVE  /\ Len(words) \in Nat /\ DOMAIN words = 1..Len(words) /\ PP!N = Len(words)
         /\ \A p \in Nat : p < PP!N => PP!Peek(p) = words[p + 1]
         /\ \A p \in Nat : PP!Peek(p) # PP!MadeUp => p < PP!N
         /\ PP!MadeUp \notin {"EOF", "EOL", ":", ".section"}
<1>1. Len(words) \in Nat /\ DOMAIN words = 1..Len(words) /\ PP!N = Len(words)
  BY DEF PP!Listed, PP!N
<1>2. \A p \in Nat : p < PP!N => PP!Peek(p) = words[p + 1]
  BY <1>1 DEF PP!Peek
<1>3. \A p \in Nat : PP!Peek(p) # PP!MadeUp => p < PP!N
  BY <1>1 DEF PP!Peek
<1>4. PP!MadeUp \notin {"EOF", "EOL", ":", ".section"}
  BY Zenon DEF PP!MadeUp
<1> QED
  BY <1>1, <1>2, <1>3, <1>4

(* Behind a label is a colon, with which no statement begins.               *)
LEMMA NoLabels ==
  ASSUME TreeRead, NEW k \in 1..LineCount
  PROVE  lines[k].id \in {"DIRECTIVE", "INSTRUCTION"}
<1>0. PP!ParserInv /\ PP!Listed /\ LineCount \in Nat /\ mPos \in Nat
  BY DEF TreeRead, PP!ParserInv, LineCount
<1>1. PP!StatementParses(lines[k], spans[k][1], spans[k][2])
  BY <1>0 DEF PP!ParserInv, PP!StatementsParse, LineCount
<1>2. PICK s \in Nat, e \in Nat : s = spans[k][1] /\ e = spans[k][2]
  BY <1>1 DEF PP!StatementParses
<1>3. lines[k].id \in {"LABEL", "DIRECTIVE", "INSTRUCTION"}
  BY <1>1 DEF PP!StatementParses, PP!IsStatement
<1>4. ASSUME lines[k].id = "LABEL"
      PROVE  FALSE
  <2>1. PP!Peek(e) = ":" /\ s < e
    BY <1>1, <1>2, <1>4 DEF PP!StatementParses, PP!Spells
  <2>2. PP!Peek(mPos) = "EOF" /\ e <= mPos
    BY <1>0, <1>2 DEF TreeRead, PP!ParserInv, PP!SpansInOrder, LineCount
  <2>3. e < mPos
    <3>1. e # mPos
      BY <2>1, <2>2
    <3> QED
      BY <1>0, <2>2, <3>1
  <2>4. PICK j \in 1..LineCount : spans[j][1] <= e /\ e < spans[j][2]
    BY <1>0, <2>1, <2>3 DEF PP!ParserInv, PP!OnlyNewlinesBetween, LineCount
  <2>5. PP!StatementParses(lines[j], spans[j][1], spans[j][2])
    BY <1>0 DEF PP!ParserInv, PP!StatementsParse, LineCount
  <2>6. PICK a \in Nat, b \in Nat : a = spans[j][1] /\ b = spans[j][2]
    BY <2>5 DEF PP!StatementParses
  <2>7. (j < k => b <= s) /\ (k < j => e <= a)
    BY <1>0, <1>2, <2>6 DEF PP!ParserInv, PP!SpansInOrder, LineCount
  <2>8. a = e
    BY <1>0, <1>2, <2>1, <2>4, <2>6, <2>7
  <2>9. PP!Peek(a) = ".section" \/ PP!IsLabel(PP!Peek(a)) \/ PP!Peek(a) \in PP!Instructions
    <3>1. lines[j].id \in {"LABEL", "DIRECTIVE", "INSTRUCTION"}
      BY <2>5 DEF PP!StatementParses, PP!IsStatement
    <3> QED
      BY <2>5, <2>6, <3>1 DEF PP!StatementParses, PP!Spells
  <2>10. ":" \notin Words
    BY SameAssumptions, Zenon DEF PP!TokensAssumption
  <2>11. ~PP!IsLabel(":")
    BY <2>10, Zenon DEF PP!IsLabel
  <2> QED
    BY <2>1, <2>8, <2>9, <2>11, ReservedWords
<1> QED
  BY <1>3, <1>4

LEMMA TreeLayout ==
  ASSUME TreeRead, NEW m \in Nat, m = mPos + 1
  PROVE  Layout(words, LineCount, m, Starting, Ending, DirectiveLines)
<1>0. PP!ParserInv /\ PP!Listed /\ LineCount \in Nat /\ mPos \in Nat
  BY DEF TreeRead, PP!ParserInv, LineCount
<1>1. /\ Len(words) \in Nat /\ DOMAIN words = 1..Len(words)
      /\ \A p \in Nat : p < Len(words) => PP!Peek(p) = words[p + 1]
      /\ \A p \in Nat : PP!Peek(p) # PP!MadeUp => p < Len(words)
      /\ PP!MadeUp \notin {"EOF", "EOL", ":", ".section"}
  BY <1>0, PeekWords
<1>2. PP!Peek(mPos) = "EOF" /\ mPos < Len(words)
  <2>1. PP!Peek(mPos) = "EOF"
    BY <1>0 DEF TreeRead, PP!ParserInv
  <2> QED
    BY <1>0, <1>1, <2>1
<1>3. m \in 1..Len(words) /\ words[m] = "EOF"
  BY <1>0, <1>1, <1>2
<1>4. ASSUME NEW k \in 1..LineCount
      PROVE  /\ spans[k][1] \in Nat /\ spans[k][2] \in Nat /\ spans[k][1] < spans[k][2]
             /\ spans[k][2] <= mPos
             /\ Starting[k] = spans[k][1] + 1 /\ Ending[k] = spans[k][2]
             /\ PP!Spells(lines[k], spans[k][1], spans[k][2])
  <2>1. PP!StatementParses(lines[k], spans[k][1], spans[k][2])
    BY <1>0 DEF PP!ParserInv, PP!StatementsParse, LineCount
  <2>2. spans[k][2] <= mPos
    BY <1>0 DEF PP!ParserInv, PP!SpansInOrder, LineCount
  <2> QED
    BY <2>1, <2>2 DEF PP!StatementParses, Starting, Ending
<1>5. \A k \in 1..LineCount : /\ Starting[k] \in 1..m /\ Ending[k] \in 1..m
                              /\ Starting[k] <= Ending[k] /\ Ending[k] < m
  BY <1>0, <1>4
<1>6. \A j, k \in 1..LineCount : j < k => Ending[j] < Starting[k]
  <2> SUFFICES ASSUME NEW j \in 1..LineCount, NEW k \in 1..LineCount, j < k
               PROVE  Ending[j] < Starting[k]
    OBVIOUS
  <2>1. spans[j][2] <= spans[k][1]
    BY <1>0 DEF PP!ParserInv, PP!SpansInOrder, LineCount
  <2> QED
    BY <1>4, <2>1
<1>7. ASSUME NEW q \in 1..(m - 1)
      PROVE  words[q] = "EOL" \/ \E k \in 1..LineCount : Starting[k] <= q /\ q <= Ending[k]
  <2>1. PICK p \in Nat : p = q - 1 /\ q = p + 1 /\ p < mPos
    BY <1>0
  <2>2. PP!Peek(p) = words[q]
    BY <1>0, <1>1, <1>2, <2>1
  <2>3. \/ PP!Peek(p) = "EOL"
        \/ \E k \in 1..LineCount : spans[k][1] <= p /\ p < spans[k][2]
    BY <1>0, <2>1 DEF PP!ParserInv, PP!OnlyNewlinesBetween, LineCount
  <2>4. ASSUME NEW k \in 1..LineCount, spans[k][1] <= p, p < spans[k][2]
        PROVE  Starting[k] <= q /\ q <= Ending[k]
    BY <1>4, <2>1, <2>4
  <2> QED
    BY <2>2, <2>3, <2>4
<1>8. ASSUME NEW k \in 1..LineCount, k \in DirectiveLines
      PROVE  /\ Ending[k] = Starting[k] + 1 /\ words[Starting[k]] = ".section"
             /\ words[Ending[k]] \notin {"EOL", "EOF", ".section"} \cup P!NumericOps
  <2>1. lines[k].id = "DIRECTIVE" /\ lines[k].operands[1] \in InitialNames
    BY <1>8 DEF DirectiveLines, IsSection, TreeRead
  <2>2. PICK s \in Nat, e \in Nat : s = spans[k][1] /\ e = spans[k][2]
    BY <1>4
  <2>3. /\ e = s + 2 /\ PP!Peek(s) = ".section"
        /\ lines[k].operands[1] = PP!Peek(s + 1) /\ PP!Peek(s + 1) # "EOL"
    BY <1>4, <2>1, <2>2 DEF PP!Spells
  <2>4. PICK p \in Nat : p = s + 1 /\ p + 1 = e
    BY <2>2, <2>3
  <2>5. s < Len(words) /\ p < Len(words) /\ Starting[k] = p /\ Ending[k] = p + 1
    BY <1>0, <1>2, <1>4, <2>2, <2>4, SMTT(30)
  <2>6. words[p] = PP!Peek(s) /\ words[p + 1] = PP!Peek(p)
    BY <1>1, <2>4, <2>5, SMTT(30)
  <2> QED
    BY <2>1, <2>3, <2>4, <2>5, <2>6, ReservedWords
<1>9. ASSUME NEW k \in 1..LineCount, k \notin DirectiveLines
      PROVE  /\ words[Starting[k]] \notin {"EOL", "EOF"}
             /\ Ending[k] + 1 < m /\ words[Ending[k] + 1] = "EOL"
             /\ words[Ending[k]] \notin P!NumericOps
             /\ \A q \in Starting[k]..Ending[k] :
                  /\ words[q] # ".section"
                  /\ q < Ending[k] /\ words[q + 1] = "EOL" => words[q] \in P!NumericOps
  <2>0. P!NumericOps = PP!NumericOps
    BY Zenon DEF P!NumericOps, PP!NumericOps, P!MultiplicationOps, PP!MultiplicationOps,
                 P!AdditionOps, PP!AdditionOps
  <2>1. lines[k].id = "INSTRUCTION"
    BY <1>9, NoLabels DEF DirectiveLines, IsSection
  <2>2. PICK s \in Nat, e \in Nat : s = spans[k][1] /\ e = spans[k][2]
    BY <1>4
  <2>3. PP!Peek(s) \in PP!Instructions /\ PP!Peek(e) = "EOL" /\ PP!Reads(s, e)
    BY <1>4, <2>1, <2>2 DEF PP!Spells
  <2>4. s < e /\ e <= mPos /\ Starting[k] = s + 1 /\ Ending[k] = e
    BY <1>4, <2>2
  <2>5. e < mPos
    <3>1. e # mPos
      BY <1>2, <2>3
    <3> QED
      BY <1>0, <2>4, <3>1
  <2>6. \A p \in Nat : p <= e => words[p + 1] = PP!Peek(p)
    BY <1>0, <1>1, <1>2, <2>5
  <2>7. words[Starting[k]] \notin {"EOL", "EOF"}
    BY <2>3, <2>4, <2>6, ReservedWords
  <2>8. Ending[k] + 1 < m /\ words[Ending[k] + 1] = "EOL"
    BY <1>0, <2>3, <2>4, <2>5, <2>6
  <2>9. ASSUME NEW q \in Starting[k]..Ending[k]
        PROVE  /\ words[q] # ".section"
               /\ q < e /\ words[q + 1] = "EOL" => words[q] \in P!NumericOps
               /\ q = e => words[q] \notin P!NumericOps
    <3>1. PICK p \in Nat : p + 1 = q /\ s <= p /\ p < e
      <4>1. q - 1 \in Nat /\ (q - 1) + 1 = q /\ s <= q - 1 /\ q - 1 < e
        BY <2>4
      <4> QED
        BY <4>1
    <3>2. words[q] = PP!Peek(p) /\ words[q + 1] = PP!Peek(p + 1)
      BY <2>4, <2>6, <3>1
    <3>3. /\ PP!Peek(p) # ".section"
          /\ p + 1 < e /\ PP!Peek(p + 1) = "EOL" => PP!Peek(p) \in PP!NumericOps
          /\ p + 1 = e => PP!Peek(p) \notin PP!NumericOps
      BY <2>3, <3>1 DEF PP!Reads
    <3> QED
      BY <2>0, <3>1, <3>2, <3>3
  <2>10. Ending[k] \in Starting[k]..Ending[k]
    BY <2>4
  <2> QED
    BY <2>4, <2>7, <2>8, <2>9, <2>10
<1> QED
  BY <1>0, <1>1, <1>3, <1>5, <1>6, <1>7, <1>8, <1>9 DEF Layout

LEMMA CodeInIs ==
  ASSUME NEW w, NEW q, NEW S, S = InstructionIn(w, q)
  PROVE  /\ Cardinality(S) = 1 => CodeIn(w, q) = << InstructionNone[w[Min(S)]] >>
         /\ Cardinality(S) = 2 =>
              CodeIn(w, q) = << Encode([type |-> w[Min(S)],
                                        args |-> << RegisterNode(w[Max(S)]) >>]) >>
         /\ Cardinality(S) # 1 /\ Cardinality(S) # 2 => CodeIn(w, q) = << >>
BY DEF CodeIn

(* An instruction of one operand has the byte of its type and register.     *)
LEMMA SameEncoding ==
  ASSUME NEW x, NEW y, x.type = y.type, Len(x.args) = 1, Len(y.args) = 1,
         x.args[1].id = y.args[1].id, x.args[1].reg = y.args[1].reg,
         HasRegister(x) \/ HasDRegister(x)
  PROVE  Encode(x) = Encode(y)
<1>1. (HasRegister(x) <=> HasRegister(y)) /\ (HasDRegister(x) <=> HasDRegister(y))
  BY Zenon DEF HasRegister, HasDRegister
<1>2. Len(x.args) # 0 /\ Len(y.args) # 0
  OBVIOUS
<1>3. HasRegister(x) => ~HasDRegister(x)
  BY DEF HasRegister, HasDRegister
<1>4. CASE HasRegister(x) /\ x.type \in {"inc", "dec"}
  BY <1>1, <1>2, <1>3, <1>4 DEF Encode
<1>5. CASE HasRegister(x) /\ x.type \notin {"inc", "dec"}
  BY <1>1, <1>2, <1>3, <1>5 DEF Encode
<1>6. CASE HasDRegister(x)
  BY <1>1, <1>2, <1>3, <1>6 DEF Encode
<1> QED
  BY <1>4, <1>5, <1>6

LEMMA NoneFormats == PP!NoOperands \subseteq Formats
BY DEF PP!NoOperands, Formats, InstructionNone, OneOperand

(* What the parser makes of the words of an instruction, as far as the      *)
(* assembler looks at it.                                                   *)
LEMMA WordsOfInstruction ==
  ASSUME TreeRead, NEW k \in 1..LineCount, k \notin DirectiveLines,
         NEW a \in Nat, NEW b \in Nat, a = Starting[k], b = Ending[k]
  PROVE  /\ a <= b /\ words[a] = lines[k].type /\ words[a] # PP!Comma
         /\ \/ /\ Len(lines[k].args) = 0 /\ lines[k].type \in Formats
               /\ \A x \in (a + 1)..b : words[x] = PP!Comma
            \/ /\ Len(lines[k].args) = 1
               /\ \E y \in (a + 1)..b :
                    /\ words[y] # PP!Comma
                    /\ lines[k].args[1].id \in {"REGISTER", "DREGISTER"} =>
                         /\ lines[k].args[1].id = RegisterNode(words[y]).id
                         /\ lines[k].args[1].reg = words[y]
                         /\ \A x \in (a + 1)..b : x # y => words[x] = PP!Comma
            \/ /\ Len(lines[k].args) = 2
               /\ \E x, y \in (a + 1)..b : x < y /\ words[x] # PP!Comma /\ words[y] # PP!Comma
<1> DEFINE node == lines[k]
<1>0. PP!ParserInv /\ PP!Listed /\ LineCount \in Nat /\ mPos \in Nat /\ mPos <= PP!N
  BY DEF TreeRead, PP!ParserInv, LineCount
<1>1. PP!StatementParses(node, spans[k][1], spans[k][2])
  BY <1>0 DEF PP!ParserInv, PP!StatementsParse, LineCount
<1>2. PICK s \in Nat, e \in Nat : s = spans[k][1] /\ e = spans[k][2] /\ s < e /\ e <= PP!N
  BY <1>1 DEF PP!StatementParses
<1>3. a = s + 1 /\ b = e
  BY <1>2 DEF Starting, Ending
<1>4. node.id = "INSTRUCTION"
  BY NoLabels DEF DirectiveLines, IsSection
<1>5. /\ PP!Peek(s) = node.type /\ node.type \in PP!Instructions
      /\ PP!Counted(node.args, a, e) /\ node.args \in Seq(PP!Args)
  BY <1>1, <1>2, <1>3, <1>4 DEF PP!StatementParses, PP!Spells
<1>6. Len(node.args) \in PP!Arity(node.type)
  BY <1>1, <1>4 DEF PP!StatementParses, PP!IsStatement
<1>7. \A p \in Nat : p < e => words[p + 1] = PP!Peek(p)
  BY <1>0, <1>2, PeekWords
<1>8. PP!Comma \notin PP!Instructions
  BY Zenon DEF PP!Comma, PP!Instructions, PP!NoOperands, PP!OneOperand, PP!TwoOperands,
               PP!OneOrTwoOperands
<1>9. a <= b /\ words[a] = node.type /\ words[a] # PP!Comma
  BY <1>2, <1>3, <1>5, <1>7, <1>8
<1>10. ASSUME NEW i \in Nat, NEW j \in Nat, i >= a, j <= e, PP!OnlyCommas(i, j), NEW x \in (i + 1)..j
       PROVE  words[x] = PP!Comma
  <2>1. PICK p \in Nat : x = p + 1 /\ i <= p /\ p < j
    <3>1. x - 1 \in Nat /\ x = (x - 1) + 1 /\ i <= x - 1 /\ x - 1 < j
      BY <1>10
    <3> QED
      BY <3>1
  <2>2. PP!Peek(p) = PP!Comma
    BY <1>10, <2>1, Zenon DEF PP!OnlyCommas
  <2> QED
    BY <1>7, <1>10, <2>1, <2>2
<1>11. \/ Len(node.args) = 0 /\ node.type \in PP!NoOperands
       \/ Len(node.args) = 1 \/ Len(node.args) = 2
  BY <1>5, <1>6 DEF PP!Arity, PP!Instructions
<1>12. CASE Len(node.args) = 0
  <2>1. PP!OnlyCommas(a, e)
    BY <1>5, <1>12, Zenon DEF PP!Counted
  <2>2. \A x \in (a + 1)..b : words[x] = PP!Comma
    BY <1>3, <1>10, <2>1
  <2>3. node.type \in Formats
    BY <1>11, <1>12, NoneFormats
  <2> QED
    BY <1>9, <1>12, <2>2, <2>3
<1>13. CASE Len(node.args) = 1
  <2>1. PICK j \in Nat : /\ a <= j /\ j < e /\ PP!Peek(j) # PP!Comma
                         /\ PP!IsRegister(node.args[1]) =>
                              /\ node.args[1].reg = PP!Peek(j)
                              /\ PP!OnlyCommas(a, j) /\ PP!OnlyCommas(j + 1, e)
    BY <1>5, <1>13, Zenon DEF PP!Counted
  <2>2. PICK y \in Nat : y = j + 1
    OBVIOUS
  <2>3. y \in (a + 1)..b /\ words[y] = PP!Peek(j)
    BY <1>3, <1>7, <2>1, <2>2
  <2>4. ASSUME node.args[1].id \in {"REGISTER", "DREGISTER"}
        PROVE  /\ node.args[1].id = RegisterNode(words[y]).id
               /\ node.args[1].reg = words[y]
               /\ \A x \in (a + 1)..b : x # y => words[x] = PP!Comma
    <3>1. node.args[1] \in PP!Args
      BY <1>5, <1>13
    <3>2. PP!IsRegister(node.args[1])
      BY <1>0, <2>4, <3>1, SameAssumptions, PP!ArgsAre, Zenon
    <3>3. node.args[1].reg = words[y]
      BY <2>1, <2>3, <3>2
    <3>4. node.args[1].id = RegisterNode(words[y]).id
      <4>1. P!Registers = PP!Registers /\ PP!Registers \cap PP!DRegisters = {}
        BY DEF P!Registers, PP!Registers, PP!DRegisters
      <4>2. \/ node.args[1].id = "REGISTER" /\ words[y] \in PP!Registers
            \/ node.args[1].id = "DREGISTER" /\ words[y] \in PP!DRegisters
        BY <3>2, <3>3 DEF PP!IsRegister
      <4> QED
        BY <4>1, <4>2 DEF RegisterNode
    <3>5. \A x \in (a + 1)..j : words[x] = PP!Comma
      BY <1>10, <2>1, <3>2
    <3>6. \A x \in (y + 1)..e : words[x] = PP!Comma
      BY <1>10, <2>1, <2>2, <3>2
    <3>7. \A x \in (a + 1)..b : x # y => x \in (a + 1)..j \/ x \in (y + 1)..e
      BY <1>3, <2>1, <2>2
    <3> QED
      BY <3>3, <3>4, <3>5, <3>6, <3>7
  <2> QED
    BY <1>9, <1>13, <2>1, <2>3, <2>4
<1>14. CASE Len(node.args) = 2
  <2>1. PICK i \in Nat, j \in Nat : /\ a <= i /\ i < j /\ j < e
                                    /\ PP!Peek(i) # PP!Comma /\ PP!Peek(j) # PP!Comma
    BY <1>5, <1>14, Zenon DEF PP!Counted
  <2>2. PICK x \in Nat, y \in Nat : x = i + 1 /\ y = j + 1
    OBVIOUS
  <2>3. /\ x \in (a + 1)..b /\ y \in (a + 1)..b /\ x < y
        /\ words[x] = PP!Peek(i) /\ words[y] = PP!Peek(j)
    BY <1>3, <1>7, <2>1, <2>2
  <2> QED
    BY <1>9, <1>14, <2>1, <2>3
<1> QED
  BY <1>11, <1>12, <1>13, <1>14

LEMMA SmallSets ==
  ASSUME NEW a \in Nat
  PROVE  /\ Cardinality({a}) = 1 /\ Min({a}) = a
         /\ \A b \in Nat : a < b => /\ Cardinality({a, b}) = 2
                                    /\ Min({a, b}) = a /\ Max({a, b}) = b
<1>1. Cardinality({a}) = 1 /\ IsFiniteSet({a})
  BY FS_Singleton
<1>2. Min({a}) = a
  BY MinIs
<1>3. ASSUME NEW b \in Nat, a < b
      PROVE  Cardinality({a, b}) = 2 /\ Min({a, b}) = a /\ Max({a, b}) = b
  <2>1. {a, b} = {a} \cup {b} /\ b \notin {a}
    BY <1>3
  <2>2. Cardinality({a, b}) = 2
    BY <1>1, <2>1, FS_AddElement
  <2>3. Min({a, b}) = a
    BY <1>3, MinIs
  <2>4. PICK S : S = {a, b}
    OBVIOUS
  <2>5. CASE a = 0
    <3>1. \A x \in S : b >= x
      BY <1>3, <2>4
    <3>2. \A x \in S : (\A y \in S : x >= y) => x = b
      BY <1>3, <2>4
    <3>3. Max(S) = b
      BY <2>4, <3>1, <3>2 DEF Max
    <3> QED
      BY <2>2, <2>3, <2>4, <3>3
  <2>6. CASE a # 0
    <3>1. S \subseteq 1..b /\ S # {}
      BY <1>3, <2>4, <2>6
    <3>2. Max(S) \in S /\ \A y \in S : Max(S) >= y
      BY <3>1, MaxIs
    <3>3. Max(S) = b
      BY <1>3, <2>4, <3>2
    <3> QED
      BY <2>2, <2>3, <2>4, <3>3
  <2> QED
    BY <2>5, <2>6
<1> QED
  BY <1>1, <1>2, <1>3

LEMMA ThreeMembers ==
  ASSUME NEW a \in Nat, NEW b \in Nat, NEW c \in Nat, a < b, b < c,
         NEW S, IsFiniteSet(S), a \in S, b \in S, c \in S
  PROVE  Cardinality(S) # 1 /\ Cardinality(S) # 2
<1>1. Cardinality({a, b}) = 2 /\ IsFiniteSet({a, b})
  <2>1. IsFiniteSet({a} \cup {b}) /\ {a, b} = {a} \cup {b}
    BY FS_Singleton, FS_AddElement
  <2> QED
    BY <2>1, SmallSets
<1>2. PICK three : three = {a, b} \cup {c}
  OBVIOUS
<1>3. Cardinality(three) = 3
  <2>1. c \notin {a, b}
    OBVIOUS
  <2> QED
    BY <1>1, <1>2, <2>1, FS_AddElement
<1>4. Cardinality(three) <= Cardinality(S) /\ Cardinality(S) \in Nat
  <2>1. three \subseteq S
    BY <1>2
  <2> QED
    BY <2>1, FS_Subset, FS_CardinalityType
<1> QED
  BY <1>3, <1>4

(* The line of an instruction means the byte it is assembled to.            *)
LEMMA CodeAtInstruction ==
  ASSUME TreeRead, NEW m \in Nat, m = mPos + 1,
         NEW k \in 1..LineCount, k \notin DirectiveLines, NEW q \in Nat, q = Ending[k] + 1
  PROVE  /\ q \in ProgramLines(words)
         /\ CodeIn(words, q) = IF IsCode(lines[k]) THEN << Encode(lines[k]) >> ELSE << >>
<1> DEFINE node == lines[k]
           S == InstructionIn(words, q)
<1>1. Layout(words, LineCount, m, Starting, Ending, DirectiveLines)
  BY TreeLayout
<1>2. PICK a \in Nat, b \in Nat : a = Starting[k] /\ b = Ending[k]
  BY <1>1 DEF Layout
<1>3. q \in ProgramLines(words) /\ S = Unpunctuated(words, a, b)
  BY <1>1, <1>2, InstructionAt
<1>4. /\ a <= b /\ words[a] = node.type /\ words[a] # PP!Comma
      /\ \/ /\ Len(node.args) = 0 /\ node.type \in Formats
            /\ \A x \in (a + 1)..b : words[x] = PP!Comma
         \/ /\ Len(node.args) = 1
            /\ \E y \in (a + 1)..b :
                 /\ words[y] # PP!Comma
                 /\ node.args[1].id \in {"REGISTER", "DREGISTER"} =>
                      /\ node.args[1].id = RegisterNode(words[y]).id
                      /\ node.args[1].reg = words[y]
                      /\ \A x \in (a + 1)..b : x # y => words[x] = PP!Comma
         \/ /\ Len(node.args) = 2
            /\ \E x, y \in (a + 1)..b : x < y /\ words[x] # PP!Comma /\ words[y] # PP!Comma
  BY <1>2, WordsOfInstruction, SMTT(30)
<1>5. \A x : x \in S <=> x \in a..b /\ words[x] # PP!Comma
  BY <1>3, SMTT(30) DEF Unpunctuated
<1>6. node.id = "INSTRUCTION" /\ (IsCode(node) \/ Ignored(node))
  <2>1. node.id = "INSTRUCTION"
    BY NoLabels DEF DirectiveLines, IsSection
  <2>2. ~IsLabel(node) /\ ~IsSection(node)
    BY <2>1 DEF IsLabel, IsSection
  <2> QED
    BY <2>1, <2>2 DEF TreeRead
<1>7. /\ Cardinality(S) = 1 => CodeIn(words, q) = << InstructionNone[words[Min(S)]] >>
      /\ Cardinality(S) = 2 =>
           CodeIn(words, q) = << Encode([type |-> words[Min(S)],
                                         args |-> << RegisterNode(words[Max(S)]) >>]) >>
      /\ Cardinality(S) # 1 /\ Cardinality(S) # 2 => CodeIn(words, q) = << >>
  BY CodeInIs
<1> HIDE DEF S
<1>8. CASE /\ Len(node.args) = 0 /\ node.type \in Formats
           /\ \A x \in (a + 1)..b : words[x] = PP!Comma
  <2>1. IsCode(node)
    BY <1>6, <1>8 DEF Ignored
  <2>2. S = {a}
    <3>1. \A x \in a..b : x = a \/ x \in (a + 1)..b
      BY <1>4
    <3>2. a \in a..b
      BY <1>4
    <3> QED
      BY <1>4, <1>5, <1>8, <3>1, <3>2
  <2>3. CodeIn(words, q) = << InstructionNone[node.type] >>
    BY <1>4, <1>7, <2>2, SmallSets
  <2>4. Encode(node) = InstructionNone[node.type]
    BY <1>8 DEF Encode, HasRegister, HasDRegister
  <2> QED
    BY <1>3, <2>1, <2>3, <2>4
<1>9. CASE Len(node.args) = 1
  <2>1. PICK y \in (a + 1)..b :
          /\ words[y] # PP!Comma
          /\ node.args[1].id \in {"REGISTER", "DREGISTER"} =>
               /\ node.args[1].id = RegisterNode(words[y]).id
               /\ node.args[1].reg = words[y]
               /\ \A x \in (a + 1)..b : x # y => words[x] = PP!Comma
    BY <1>4, <1>9
  <2>2. IsCode(node)
    BY <1>6, <1>9 DEF Ignored
  <2>3. HasRegister(node) \/ HasDRegister(node)
    BY <1>9, <2>2 DEF IsCode, Emits
  <2>4. node.args[1].id \in {"REGISTER", "DREGISTER"}
    BY <2>3 DEF HasRegister, HasDRegister
  <2>5. S = {a, y}
    <3>1. \A x \in a..b : x = a \/ x \in (a + 1)..b
      BY <1>4
    <3>2. a \in a..b /\ y \in a..b
      BY <1>4
    <3> QED
      BY <1>4, <1>5, <2>1, <2>4, <3>1, <3>2
  <2>6. Cardinality(S) = 2 /\ Min(S) = a /\ Max(S) = y
    <3>1. y \in Nat /\ a < y
      OBVIOUS
    <3> QED
      BY <2>5, <3>1, SmallSets
  <2> DEFINE plain == [type |-> words[a], args |-> << RegisterNode(words[y]) >>]
  <2>7. CodeIn(words, q) = << Encode(plain) >>
    BY <1>7, <2>6
  <2>8. /\ plain.type = node.type /\ Len(plain.args) = 1
        /\ plain.args[1].id = node.args[1].id /\ plain.args[1].reg = node.args[1].reg
    BY <1>4, <2>1, <2>4 DEF RegisterNode
  <2> HIDE DEF plain
  <2>9. Encode(plain) = Encode(node)
    BY <1>9, <2>3, <2>8, SameEncoding, Zenon
  <2> QED
    BY <1>3, <2>2, <2>7, <2>9
<1>10. CASE Len(node.args) = 2
  <2>1. PICK x \in (a + 1)..b, y \in (a + 1)..b :
          x < y /\ words[x] # PP!Comma /\ words[y] # PP!Comma
    BY <1>4, <1>10
  <2>2. IsFiniteSet(S)
    <3>1. a \in Int /\ b \in Int
      OBVIOUS
    <3>2. IsFiniteSet(a..b) /\ S \subseteq a..b
      BY <1>5, <3>1, FS_Interval
    <3> QED
      BY <3>2, FS_Subset
  <2>3. x \in Nat /\ y \in Nat /\ a < x /\ a \in S /\ x \in S /\ y \in S
    BY <1>4, <1>5, <2>1, SMTT(30)
  <2>4. Cardinality(S) # 1 /\ Cardinality(S) # 2
    BY <2>1, <2>2, <2>3, ThreeMembers, SMTT(30)
  <2>5. ~IsCode(node)
    BY <1>10 DEF IsCode, Emits, HasRegister, HasDRegister
  <2> QED
    BY <1>3, <1>7, <2>4, <2>5
<1> QED
  BY <1>4, <1>8, <1>9, <1>10

LEMMA NothingIn ==
  ASSUME NEW w, NEW q, InstructionIn(w, q) = {}
  PROVE  CodeIn(w, q) = << >>
<1>1. Cardinality({}) # 1 /\ Cardinality({}) # 2
  BY FS_EmptySet
<1>2. PICK S : S = InstructionIn(w, q)
  OBVIOUS
<1> QED
  BY <1>1, <1>2, CodeInIs

(* Its section is that of the directive before it in the tree.              *)
LEMMA SectionAtInstruction ==
  ASSUME TreeRead, assembled = lines, CodeNeedsSection, NEW m \in Nat, m = mPos + 1,
         NEW k \in 1..LineCount, IsCode(lines[k]), NEW q \in Nat, q = Ending[k] + 1
  PROVE  /\ \E d \in DirectivesIn(words) : d < q
         /\ SectionOf(words, q) = SectionAt(k)
<1> DEFINE named == {j \in 1..k : IsSection(lines[j])}
<1>0. /\ PP!ParserInv /\ PP!Listed /\ LineCount \in Nat /\ DOMAIN lines = 1..LineCount
      /\ mPos \in Nat /\ mPos <= PP!N
  <2>1. lines = [j \in 1..LineCount |-> lines[j]] /\ LineCount \in Nat
    BY DEF TreeRead, PP!ParserInv, LineCount
  <2>2. DOMAIN lines = 1..LineCount
    BY <2>1, Zenon
  <2> QED
    BY <2>1, <2>2 DEF TreeRead, PP!ParserInv
<1>1. Layout(words, LineCount, m, Starting, Ending, DirectiveLines)
  BY TreeLayout
<1>2. k \notin DirectiveLines /\ ~IsSection(lines[k])
  BY DEF DirectiveLines, IsSection, IsCode
<1>3. \E j \in 1..(k - 1) : IsSection(lines[j])
  BY <1>0 DEF CodeNeedsSection
<1>4. k \in Nat /\ named \subseteq 1..k /\ named # {}
  BY <1>0, <1>3
<1>5. SectionAt(k) = lines[Max(named)].operands[1]
  BY <1>4 DEF SectionAt
<1> HIDE DEF named
<1>6. PICK i \in named : i = Max(named) /\ \A j \in named : j <= i
  <2>1. Max(named) \in named /\ \A j \in named : Max(named) >= j
    BY <1>4, MaxIs, Zenon
  <2>2. \A j \in named : j \in Nat
    BY <1>4
  <2> QED
    BY <2>1, <2>2
<1>7. i \in 1..LineCount /\ i < k /\ i \in DirectiveLines /\ IsSection(lines[i])
  BY <1>0, <1>2, <1>6 DEF named, DirectiveLines
<1>8. \A j \in 1..LineCount : j \in DirectiveLines /\ j < k => j <= i
  <2>1. \A j \in 1..LineCount : j \in DirectiveLines /\ j < k => j \in named
    BY <1>0 DEF named, DirectiveLines
  <2> QED
    BY <1>6, <2>1
<1>9. /\ Starting[i] \in DirectivesIn(words) /\ Starting[i] < q
      /\ SectionOf(words, q) = words[Starting[i] + 1]
  BY <1>1, <1>2, <1>7, <1>8, SectionAbove
<1>10. words[Starting[i] + 1] = lines[i].operands[1]
  <2>1. PP!StatementParses(lines[i], spans[i][1], spans[i][2])
    BY <1>0, <1>7 DEF PP!ParserInv, PP!StatementsParse, LineCount
  <2>2. PICK s \in Nat, e \in Nat : s = spans[i][1] /\ e = spans[i][2] /\ e <= PP!N
    BY <2>1 DEF PP!StatementParses
  <2>3. e = s + 2 /\ lines[i].operands[1] = PP!Peek(s + 1)
    BY <1>7, <2>1, <2>2 DEF PP!StatementParses, PP!Spells, IsSection
  <2>4. PICK p \in Nat : p = s + 1 /\ p < PP!N /\ Starting[i] = p
    BY <1>0, <1>7, <2>2, <2>3, PeekWords, SMTT(30) DEF Starting
  <2>5. PP!Peek(p) = words[p + 1]
    BY <1>0, <2>4, PeekWords, SMTT(30)
  <2> QED
    BY <2>3, <2>4, <2>5
<1> QED
  BY <1>5, <1>6, <1>9, <1>10

(* LinesAssembled, of the words of the source.                              *)
WordsAssembled(w) ==
    /\ \A q \in Coded(w) : \E d \in DirectivesIn(w) : d < q
    /\ \A i \in DOMAIN sections :
         sections[i].data =
           FlattenSeq([q \in DOMAIN w |->
                         IF q \in Coded(w) /\ SectionOf(w, q) = sections[i].name
                           THEN CodeIn(w, q) ELSE << >>])

LEMMA WordsAreAssembled ==
  ASSUME TreeRead, assembled = lines, CodeNeedsSection, BytesInProgramOrder
  PROVE  WordsAssembled(words)
<1>1. /\ PP!ParserInv /\ PP!Listed /\ LineCount \in Nat /\ DOMAIN lines = 1..LineCount
      /\ mPos \in Nat
  <2>1. lines = [j \in 1..LineCount |-> lines[j]] /\ LineCount \in Nat
    BY DEF TreeRead, PP!ParserInv, LineCount
  <2>2. DOMAIN lines = 1..LineCount
    BY <2>1, Zenon
  <2> QED
    BY <2>1, <2>2 DEF TreeRead, PP!ParserInv
<1>2. PICK m \in Nat : m = mPos + 1
  BY <1>1
<1>3. Layout(words, LineCount, m, Starting, Ending, DirectiveLines)
  BY <1>2, TreeLayout
<1>4. PICK n \in Nat : n = Len(words) /\ DOMAIN words = 1..n /\ m <= n
  <2>1. Len(words) \in Nat /\ DOMAIN words = 1..Len(words) /\ m \in 1..Len(words)
    BY <1>3 DEF Layout
  <2>2. m <= Len(words)
    BY <2>1
  <2> QED
    BY <2>1, <2>2, Zenon
<1> DEFINE at == [k \in 1..LineCount |-> Ending[k] + 1]
<1>5. \A k \in 1..LineCount : Ending[k] \in Nat /\ at[k] = Ending[k] + 1 /\ at[k] \in 1..n
                              /\ at[k] \in Nat
  <2> SUFFICES ASSUME NEW k \in 1..LineCount
               PROVE  Ending[k] \in Nat /\ Ending[k] + 1 \in 1..n
    OBVIOUS
  <2>1. Ending[k] \in 1..m /\ Ending[k] < m
    BY <1>3 DEF Layout
  <2> QED
    BY <1>4, <2>1
<1>6. \A j, k \in 1..LineCount : j < k => at[j] < at[k]
  <2> SUFFICES ASSUME NEW j \in 1..LineCount, NEW k \in 1..LineCount, j < k
               PROVE  Ending[j] < Ending[k]
    BY <1>5
  <2>1. Ending[j] < Starting[k] /\ Starting[k] <= Ending[k] /\ Starting[k] \in 1..m
    BY <1>3 DEF Layout
  <2> QED
    BY <1>5, <2>1
<1>7. \A k \in 1..LineCount : ~IsCode(lines[k]) => at[k] \notin Coded(words)
  <2> SUFFICES ASSUME NEW k \in 1..LineCount, ~IsCode(lines[k]), at[k] \in Coded(words)
               PROVE  FALSE
    OBVIOUS
  <2>1. at[k] \in ProgramLines(words) /\ CodeIn(words, at[k]) # << >>
    BY DEF Coded
  <2>2. CASE k \in DirectiveLines
    <3>1. \A j \in 1..LineCount : j \notin DirectiveLines => at[k] # Ending[j] + 1
      <4> SUFFICES ASSUME NEW j \in 1..LineCount, j \notin DirectiveLines, at[k] = Ending[j] + 1
                   PROVE  FALSE
        OBVIOUS
      <4>1. Ending[j] = Ending[k]
        BY <1>5
      <4>2. j = k
        BY <1>3, <4>1, OrderedLines
      <4> QED
        BY <2>2, <4>2
    <3>2. InstructionIn(words, at[k]) = {}
      BY <1>3, <2>1, <3>1, NoInstructionAt
    <3> QED
      BY <2>1, <3>2, NothingIn
  <2>3. CASE k \notin DirectiveLines
    <3>1. CodeIn(words, at[k]) = << >>
      BY <1>2, <1>5, <2>3, CodeAtInstruction
    <3> QED
      BY <2>1, <3>1
  <2> QED
    BY <2>2, <2>3
<1>8. ASSUME NEW k \in 1..LineCount, IsCode(lines[k])
      PROVE  /\ at[k] \in Coded(words) /\ CodeIn(words, at[k]) = << Encode(lines[k]) >>
             /\ SectionOf(words, at[k]) = SectionAt(k)
             /\ \E d \in DirectivesIn(words) : d < at[k]
  <2>1. k \notin DirectiveLines
    BY <1>8 DEF DirectiveLines, IsSection, IsCode
  <2>2. at[k] \in ProgramLines(words) /\ CodeIn(words, at[k]) = << Encode(lines[k]) >>
    BY <1>2, <1>5, <1>8, <2>1, CodeAtInstruction
  <2>3. at[k] \in Coded(words)
    BY <2>2 DEF Coded
  <2> QED
    BY <1>2, <1>5, <1>8, <2>2, <2>3, SectionAtInstruction
<1>9. ASSUME NEW q \in Coded(words)
      PROVE  \E k \in 1..LineCount : q = at[k] /\ IsCode(lines[k])
  <2>1. q \in ProgramLines(words) /\ CodeIn(words, q) # << >>
    BY DEF Coded
  <2>2. PICK k \in 1..LineCount : q = at[k]
    <3> SUFFICES ASSUME \A k \in 1..LineCount : q # at[k]
                 PROVE  FALSE
      OBVIOUS
    <3>1. \A k \in 1..LineCount : k \notin DirectiveLines => q # Ending[k] + 1
      BY <1>5
    <3>2. InstructionIn(words, q) = {}
      BY <1>3, <2>1, <3>1, NoInstructionAt
    <3> QED
      BY <2>1, <3>2, NothingIn
  <2> QED
    BY <1>7, <2>2
<1> HIDE DEF at
<1>10. \A q \in Coded(words) : \E d \in DirectivesIn(words) : d < q
  BY <1>8, <1>9
<1>11. ASSUME NEW i \in DOMAIN sections
       PROVE  sections[i].data =
                FlattenSeq([q \in DOMAIN words |->
                              IF q \in Coded(words) /\ SectionOf(words, q) = sections[i].name
                                THEN CodeIn(words, q) ELSE << >>])
  <2> DEFINE name == sections[i].name
             S == {Encode(lines[k]) : k \in 1..LineCount}
             f == [q \in DOMAIN words |->
                     IF q \in Coded(words) /\ SectionOf(words, q) = name
                       THEN CodeIn(words, q) ELSE << >>]
             g == [k \in DOMAIN assembled |->
                     IF IsCode(assembled[k]) /\ SectionAt(k) = name
                       THEN << Encode(assembled[k]) >> ELSE << >>]
  <2>1. sections[i].data = FlattenSeq(g)
    BY DEF BytesInProgramOrder, CodeOf
  <2>2. \A q \in 1..n : f[q] = IF q \in Coded(words) /\ SectionOf(words, q) = name
                                THEN CodeIn(words, q) ELSE << >>
    BY <1>4
  <2>3. \A k \in 1..LineCount : g[k] = IF IsCode(lines[k]) /\ SectionAt(k) = name
                                        THEN << Encode(lines[k]) >> ELSE << >>
    BY <1>1
  <2>4. f = Leading(f, n)
    BY <1>4, Zenon DEF Leading
  <2>5. g = Leading(g, LineCount)
    BY <1>1, Zenon DEF Leading
  <2>11. \A k \in 1..LineCount : << Encode(lines[k]) >> \in Seq(S)
    OBVIOUS
  <2> HIDE DEF f, g, S, name
  <2>6. \A k \in 1..LineCount : g[k] = f[at[k]]
    BY <1>5, <1>7, <1>8, <2>2, <2>3
  <2>7. \A q \in 1..n : (\A k \in 1..LineCount : at[k] # q) => f[q] = << >>
    BY <1>9, <2>2
  <2>8. \A k \in 1..LineCount : g[k] \in Seq(S)
    <3>1. << >> \in Seq(S)
      OBVIOUS
    <3> QED
      BY <2>3, <2>11, <3>1
  <2>9. ASSUME NEW q \in 1..n
        PROVE  f[q] \in Seq(S)
    <3>1. CASE \E k \in 1..LineCount : at[k] = q
      BY <2>6, <2>8, <3>1
    <3>2. CASE \A k \in 1..LineCount : at[k] # q
      <4>1. << >> \in Seq(S)
        OBVIOUS
      <4> QED
        BY <2>7, <3>2, <4>1
    <3> QED
      BY <3>1, <3>2
  <2>10. FlattenSeq(Leading(f, n)) = FlattenSeq(Leading(g, LineCount))
    <3>1. LineCount \in Nat /\ \A k \in 1..LineCount : at[k] \in 1..n /\ g[k] = f[at[k]]
      BY <1>1, <1>5, <2>6
    <3>2. Spread(S, LineCount, n, f, g, at)
      BY <1>6, <2>7, <2>9, <3>1, Zenon DEF Spread
    <3> QED
      BY <3>1, <3>2, FlattenSparse
  <2> QED
    BY <2>1, <2>4, <2>5, <2>10 DEF f, name
<1> QED
  BY <1>10, <1>11 DEF WordsAssembled

-----------------------------------------------------------------------------
(* From the source to the object *)

LEMMA NodesTakenKept ==
  ASSUME DriverInv, NodesCover, ProgramInv, NodesTaken, [DriverNext]_driverVars
  PROVE  NodesTaken'
<1>1. CASE stage \notin {"write", "ended"} /\ [AssemblerNext]_assemblerVars
  <2>1. SectionInv
    BY <1>1 DEF ProgramInv, LabelInv
  <2> QED
    BY <1>1, <2>1, NextNodesTaken, Zenon
<1>2. ASSUME assembled' = assembled
      PROVE  NodesTaken'
  BY <1>2, Zenon DEF NodesTaken, IsSection, IsCode, IsLabel, Ignored, Emits, HasRegister,
                     HasDRegister
<1>3. UNCHANGED objectVars => assembled' = assembled
  BY DEF objectVars
<1> QED
  BY <1>1, <1>2, <1>3, ObjectStep

LEMMA WordsAreSource ==
  ASSUME DriverInv, WordsAre, state = "DONE", status = "done"
  PROVE  words = SourceWords
<1>1. read = Len(text) /\ T!TokensTrue
  <2>1. T!TokensTrue
    BY SameTokens, SameAssumptions, TP!TokensTrueInv, Zenon DEF DriverInv
  <2> QED
    BY <2>1 DEF DriverInv, StagesInv, SourceStages
<1>2. words # << >>
  <2>1. PP!Listed /\ mPos \in Nat /\ PP!Peek(mPos) = "EOF"
    BY DEF DriverInv, PP!ParserInv
  <2>2. mPos < Len(words)
    BY <2>1, PeekWords
  <2>3. words = << >> => Len(words) = 0
    OBVIOUS
  <2> QED
    BY <2>1, <2>2, <2>3
<1>3. token_list = SourceTokens
  <2>1. 1..Len(text) = DOMAIN text
    <3>1. text \in Texts
      BY DEF DriverInv, TP!TokensInv, TP!PlaceInv
    <3>2. text \in Seq(TP!Range(text))
      BY <3>1, SameAssumptions DEF TP!TextsAssumption
    <3> QED
      BY <3>2
  <2>2. token_list = FlattenSeq([k \in 1..read |-> Append(T!TokensOf(T!Code(text[k])), T!EOL)])
                       \o << T!EOF >>
    <3>1. \A ss : T!FlattenSeq(ss) = FlattenSeq(ss)
      BY Zenon DEF T!FlattenSeq, FlattenSeq
    <3> QED
      BY <1>1, <3>1 DEF T!TokensTrue
  <2> QED
    BY <1>1, <2>1, <2>2, Zenon DEF SourceTokens
<1> QED
  BY <1>2, <1>3, Zenon DEF WordsAre, SourceWords

LEMMA LinesAssembledInv ==
  DriverInv /\ WordsAre /\ ProgramInv /\ NodesTaken => LinesAssembled
<1> SUFFICES ASSUME DriverInv, WordsAre, ProgramInv, NodesTaken, AssembledAll
             PROVE  WordsAssembled(SourceWords)
  BY Zenon DEF LinesAssembled, WordsAssembled
<1>1. state = "DONE" /\ status = "done" /\ assembled = lines
  BY DEF DriverInv, StagesInv, EndStage, AllDone, AssembledAll, Ended
<1>2. words = SourceWords
  BY <1>1, WordsAreSource
<1>3. TreeRead
  <2>1. lines = [j \in 1..LineCount |-> lines[j]]
    BY DEF DriverInv, PP!ParserInv, LineCount
  <2>2. DOMAIN lines = 1..LineCount
    BY <2>1, Zenon
  <2> QED
    BY <1>1, <2>2 DEF TreeRead, NodesTaken, DriverInv
<1>4. CodeNeedsSection /\ BytesInProgramOrder
  BY DEF ProgramInv
<1> QED
  BY <1>1, <1>2, <1>3, <1>4, WordsAreAssembled, Zenon

(* A program that ends well has made of every line of its source the byte   *)
(* the line means, in the section and at the place the source says, and     *)
(* has no other byte: neither tokenizer, parser nor assembler loses, adds   *)
(* or moves one (main.cpp:89-105).                                          *)
THEOREM LinesAssembledCorrect ==
  ASSUME 8 <= ShndxMod
  PROVE  DriverSpec /\ []NodesCover => []LinesAssembled
<1>1. DriverInit => ProgramInv /\ WordsAre /\ NodesTaken
  <2>1. DriverInit => ProgramInv
    BY ProgramInitInv
  <2>2. DriverInit => WordsAre /\ NodesTaken
    BY DEF DriverInit, AssemblerInit, WordsAre, NodesTaken
  <2> QED
    BY <2>1, <2>2
<1>2. DriverInv /\ NodesCover /\ ProgramInv /\ [DriverNext]_driverVars => ProgramInv'
  BY ProgramNextInv
<1>3. DriverInv /\ WordsAre /\ [DriverNext]_driverVars => WordsAre'
  BY WordsKept, Zenon DEF DriverInv
<1>4. DriverInv /\ NodesCover /\ ProgramInv /\ NodesTaken /\ [DriverNext]_driverVars
        => NodesTaken'
  BY NodesTakenKept
<1> QED
  BY <1>1, <1>2, <1>3, <1>4, LinesAssembledInv, DriverInvariant, PTL DEF DriverSpec

=============================================================================
