------------------------------- MODULE Driver -------------------------------
(***************************************************************************)
(* main of src/src/main.cpp: the composition of modules Tokenizer, Parser, *)
(* Assembler and ElfWriter.  The source goes through the four one after    *)
(* the other; the first exception is caught by nobody and ends the program *)
(* (std::terminate), and what is done of the object is lost with it.  The  *)
(* output file is opened when everything else is over.                     *)
(*                                                                         *)
(* The characters of the tokenizer are pieces of words here, so that its   *)
(* tokens, joined, are the words the parser knows.                         *)
(***************************************************************************)
EXTENDS Assembler, ElfWriter

CONSTANTS
    Texts, WordChars, Operators,       \* as in module Tokenizer
    Words, Directives, Numbers, Atoi(_), \* as in module Parser
    Invocations  \* command lines: records [only, input]

VARIABLES
    invocation,  \* the command line
    stage,       \* where main is
    code,        \* exit status, once the program has ended
    text, read, state, column, tokbuf, token_list, lineno,  \* the tokenizer
    words, mPos, lines, spans, status,                      \* the parser
    aout         \* a.out: as it was before, opened, written to its end or less

tokenizerVars == <<text, read, state, column, tokbuf, token_list, lineno>>
parserVars == <<words, mPos, lines, spans, status>>
objectVars == <<vars, running, assembled>>
outputVars == <<writerVars, aout>>
driverVars == <<invocation, stage, code, tokenizerVars, parserVars, objectVars,
                outputVars>>

T == INSTANCE Tokenizer WITH
       lines <- read, pos <- column, tokens <- token_list
P == INSTANCE Parser WITH
       Inputs <- {}, tokens <- words

(* What the parts ask of their constants, and the command lines there are.  *)
ASSUME DriverAssumption ==
    /\ T!CharactersAssumption /\ T!TextsAssumption /\ P!TokensAssumption
    /\ \A i \in Invocations : i.only \in {"neither", "tokenize", "parse", "both"}

Stages == {"arguments", "tokenize", "parse", "assemble", "open", "write", "ended"}
SUCCESS == 0
BOTH_OPTIONS == 1

(* Faulty variant of NO_INPUT: not cut to the eight bits of a status.       *)
NoInputUncut == -1
NO_INPUT == (-1) % 256
ABORTED == 134   \* an exception nobody catches

(* A token as the string it is. *)
Word(token) == FoldLeft(LAMBDA word, piece : word \o piece, "", token)

----------------------------------------------------------------------------

DriverInit ==
    /\ invocation \in Invocations /\ stage = "arguments" /\ code = SUCCESS
    /\ T!Init
    /\ words = << >> /\ mPos = 0 /\ lines = << >> /\ spans = << >>
    /\ status = "running"
    /\ AssemblerInit /\ WriterInit /\ aout = "before"

GoTo(s) == stage' = s /\ UNCHANGED code
Exit(c) == stage' = "ended" /\ code' = c

(* Only the option --tokenize, --parse, both or neither; the input file is  *)
(* not named, does not open, or is there.  An option without a file name    *)
(* makes a string of a null pointer, which throws.                          *)
ReadArguments ==
    /\ stage = "arguments"
    /\ \/ invocation.only = "both" /\ Exit(BOTH_OPTIONS)
       \/ /\ invocation.only = "neither" /\ invocation.input = "none"
          /\ Exit(NO_INPUT)
       \/ /\ invocation.only \in {"tokenize", "parse"}
          /\ invocation.input = "none" /\ Exit(ABORTED)
       \/ /\ invocation.only # "both" /\ invocation.input = "missing"
          /\ Exit(NO_INPUT)
       \/ /\ invocation.only # "both" /\ invocation.input = "there"
          /\ GoTo("tokenize")
    /\ UNCHANGED <<invocation, tokenizerVars, parserVars, objectVars, outputVars>>

Tokenize ==
    /\ stage = "tokenize" /\ T!Next
    /\ UNCHANGED <<invocation, stage, code, parserVars, objectVars, outputVars>>
TokenizerThrows ==
    /\ stage = "tokenize" /\ state = "THROWN" /\ Exit(ABORTED)
    /\ UNCHANGED <<invocation, tokenizerVars, parserVars, objectVars, outputVars>>
Tokenized ==
    /\ stage = "tokenize" /\ state = "DONE"
    /\ words' = [k \in DOMAIN token_list |-> Word(token_list[k])]
    /\ IF invocation.only = "tokenize" THEN Exit(SUCCESS) ELSE GoTo("parse")
    /\ UNCHANGED <<invocation, tokenizerVars, mPos, lines, spans, status,
                   objectVars, outputVars>>

Parse ==
    /\ stage = "parse" /\ P!Next
    /\ UNCHANGED <<invocation, stage, code, tokenizerVars, objectVars, outputVars>>
ParserThrows ==
    /\ stage = "parse" /\ status \notin {"running", "done"} /\ Exit(ABORTED)
    /\ UNCHANGED <<invocation, tokenizerVars, parserVars, objectVars, outputVars>>
Parsed ==
    /\ stage = "parse" /\ status = "done"
    /\ \/ /\ invocation.only = "parse" /\ Exit(SUCCESS)
          /\ UNCHANGED objectVars
       \/ invocation.only # "parse" /\ GoTo("assemble") /\ Assemble
    /\ UNCHANGED <<invocation, tokenizerVars, parserVars, outputVars>>

(* Faulty variant of NextNode: from the end of the tree.                    *)
NextNodeBackwards == lines[Len(lines) - Len(assembled)]

NextNode == lines[Len(assembled) + 1]

AssembleNext ==
    /\ stage = "assemble" /\ running /\ Len(assembled) < Len(lines)
    /\ AssembleNode(NextNode)
    /\ UNCHANGED <<invocation, stage, code, tokenizerVars, parserVars, outputVars>>

(* Faulty variants of AssemblerThrows: the exception is swallowed and the   *)
(* output written; nobody waits for it.                                     *)
AssemblerCaught ==
    /\ stage = "assemble" /\ ~running /\ GoTo("open")
    /\ UNCHANGED <<invocation, tokenizerVars, parserVars, objectVars, outputVars>>
AssemblerHangs ==
    /\ stage = "assemble" /\ ~running /\ GoTo("assemble")
    /\ UNCHANGED <<invocation, tokenizerVars, parserVars, objectVars, outputVars>>

AssemblerThrows ==
    /\ stage = "assemble" /\ ~running /\ Exit(ABORTED)
    /\ UNCHANGED <<invocation, tokenizerVars, parserVars, objectVars, outputVars>>
TreeAssembled ==
    /\ stage = "assemble" /\ Len(assembled) = Len(lines)
    /\ Return /\ GoTo("open")
    /\ UNCHANGED <<invocation, tokenizerVars, parserVars, outputVars>>

(* ELFWriter::write of a path: the file is emptied when it is opened.       *)
OpenOutput ==
    /\ stage = "open"
    /\ \/ aout' = "open" /\ GoTo("write")
       \/ UNCHANGED aout /\ Exit(ABORTED)
    /\ UNCHANGED <<invocation, tokenizerVars, parserVars, objectVars, writerVars>>
Write ==
    /\ stage = "write" /\ writes = 0
    /\ \/ WriteFileHeader \/ WriteNullHeader \/ WriteSectionHeader
       \/ HeadersDone \/ WriteBody \/ WriteDone
    /\ UNCHANGED <<invocation, stage, code, tokenizerVars, parserVars, running,
                   assembled, aout>>
(* Nobody asks the stream whether the disk took what was written.           *)
OutputWritten ==
    /\ stage = "write" /\ writes = 1 /\ aout' \in {"written", "short"} /\ Exit(SUCCESS)
    /\ UNCHANGED <<invocation, tokenizerVars, parserVars, objectVars, writerVars>>

DriverNext ==
    \/ ReadArguments \/ Tokenize \/ TokenizerThrows \/ Tokenized
    \/ Parse \/ ParserThrows \/ Parsed
    \/ AssembleNext \/ AssemblerThrows \/ TreeAssembled
    \/ OpenOutput \/ Write \/ OutputWritten

(* One thread that waits for nothing. *)
DriverSpec == DriverInit /\ [][DriverNext]_driverVars /\ WF_driverVars(DriverNext)

----------------------------------------------------------------------------
(* What a source means, said without trees and nodes, of the places in its  *)
(* list of words                                                            *)

SourceTokens ==
    FlattenSeq([k \in DOMAIN text |-> Append(T!TokensOf(T!Code(text[k])), T!EOL)])
      \o << T!EOF >>
SourceWords == [i \in DOMAIN SourceTokens |-> Word(SourceTokens[i])]

(* A line of the program ends with its line of the source, unless an        *)
(* operator is last in it: the newline is that operator's operand then.     *)
(* The word EOL is as good as a newline.                                    *)
LineEnds(w) ==
    {q \in DOMAIN w : w[q] = "EOL" /\ (q = 1 \/ w[q - 1] \notin P!NumericOps)}

(* A line may begin with directives, and an instruction may follow.  The    *)
(* word EOF in place of either is the program's end, and the lines before   *)
(* it are those that count.                                                 *)
DirectivesIn(w) == {q \in DOMAIN w : w[q] = ".section"}
Ends(w) ==
    {q \in DOMAIN w :
       w[q] = "EOF" /\ (q = 1 \/ q - 1 \in LineEnds(w) \/ q - 2 \in DirectivesIn(w))}
ProgramLines(w) == {q \in LineEnds(w) : \A e \in Ends(w) : q < e}

(* The words of the instruction in the line that ends at q, and the section *)
(* it is for: the one named last.                                           *)
InstructionIn(w, q) ==
    LET first == Max({1} \cup {p + 1 : p \in {e \in LineEnds(w) : e < q}}
                         \cup {p + 2 : p \in {d \in DirectivesIn(w) : d < q}})
    IN {p \in first..(q - 1) : w[p] # ","}
SectionOf(w, q) == w[Max({d \in DirectivesIn(w) : d < q}) + 1]

RegisterNode(reg) ==
    [id |-> IF reg \in P!Registers THEN "REGISTER" ELSE "DREGISTER", reg |-> reg]
CodeIn(w, q) ==
    LET inst == InstructionIn(w, q) IN
    CASE Cardinality(inst) = 1 -> << InstructionNone[w[Min(inst)]] >>
      [] Cardinality(inst) = 2 ->
           << Encode([type |-> w[Min(inst)], args |-> << RegisterNode(w[Max(inst)]) >>]) >>
      [] OTHER -> << >>
Coded(w) == {q \in ProgramLines(w) : CodeIn(w, q) # << >>}

----------------------------------------------------------------------------

(* The nodes of the tree are among the Nodes that module Assembler is given. *)
NodesCover == \A k \in DOMAIN lines : lines[k] \in Nodes

DriverTypeOK ==
    /\ stage \in Stages /\ code \in 0..255
    /\ aout \in {"before", "open", "written", "short"}
    /\ Len(assembled) <= Len(lines)

(* Properties *)

Ended(c) == stage = "ended" /\ code = c
AssembledAll == invocation.only = "neither" /\ Ended(SUCCESS)

(* A program that is assembled without an exception has no code outside of  *)
(* the sections that its directives name, and has in every section          *)
(* the code of its lines under that section, in their order: a byte for a   *)
(* line of one operand or none, nothing for a line of two, and nothing of   *)
(* what follows a word EOF.  No line is lost, merged with the next or moved *)
(* between tokenizer, parser, assembler and object (main.cpp:89-105).       *)
LinesAssembled ==
    AssembledAll =>
      LET w == SourceWords IN
      /\ \A q \in Coded(w) : \E d \in DirectivesIn(w) : d < q
      /\ \A i \in DOMAIN sections :
           sections[i].data =
             FlattenSeq([q \in DOMAIN w |->
                           IF q \in Coded(w) /\ SectionOf(w, q) = sections[i].name
                             THEN CodeIn(w, q) ELSE << >>])

(* a.out is written, to its end unless the disk is full, if the program     *)
(* says so by its exit status, and is as it was before if any part of the   *)
(* work failed or was not asked for: it is not opened before the whole      *)
(* source is tokenized, parsed and assembled (main.cpp:89-108,              *)
(* elf_writer.cpp:9-18).                                                    *)
OutputAllOrNothing ==
    /\ aout # "before" => /\ read = Len(text) /\ status = "done"
                          /\ assembled = lines /\ ~running
    /\ stage = "ended" => /\ aout \in {"written", "short"} <=> AssembledAll
                          /\ aout = "before" <=> ~AssembledAll
    /\ aout = "written" => Len(file.bodies) = Len(sections)

(* Whatever the command line and the source, the program ends               *)
(* (main.cpp:30-116).                                                       *)
ProgramEnds == <>(stage = "ended")
=============================================================================
