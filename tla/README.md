# gbas in TLA+

gbas is an assembler for the Game Boy's processor.  It turns a source file into
an ELF object: a tokenizer makes a list of words from the lines, a parser makes
a tree from the list, the assembler walks the tree and puts code and symbols
into an object (class `ELF`), and a writer turns the object into a file.  This
directory has a TLA+ module for each of these parts and one for the program they
make together, configurations that check them with TLC, and proofs.  Every safety
property the passing runs check is also a theorem, proved for all values of the
constants; what is only model-checked is that the loops end.

## The system

| part | source | state | operations |
| --- | --- | --- | --- |
| Tokenizer | `src/tokenizer.cpp`, `tokenizer.hpp`, `char_utils.hpp` | in one call: line, position, state of its machine, token buffer, line number, token list | `tokenize` |
| Parser | `src/parser.cpp`, `parser.hpp` | the token list, `mPos` | `parse` and its recursive descent |
| Assembler | `src/assembler.cpp`, `assembler.hpp` | none of its own; it drives the object | `assemble`, `evaluate` |
| Object (`ELF`) | `src/elf.cpp`, `elf.hpp` | sections, four tables of strings and symbols, current section, current relocation section | `set_section`, `add_section`, `add_symbol`, `add_string`, `add_progbits` |
| Writer | `src/elf_writer.cpp` | the object, shared; running offset and name position | `write` |
| Reader | `src/elf_reader.cpp` | in one call: position, header of the name table, names | `read`; nothing calls it |
| Driver | `src/main.cpp` | the options, the file `a.out` | the pipeline |

The program is one thread.  What makes it hard is not concurrency but state that
outlives a call: indices into tables that grow, a buffer and a position carried
through a state machine, headers that are rewritten in place, exceptions that
leave an object half changed and a caller that goes on with it.  The properties
are about those:

- the object: its tables of names, strings, symbols and sections agree after
  any sequence of calls, failed ones included; symbols and relocations belong
  to the section that was current; nothing is lost;
- the writer: what the headers say is what is in the file;
- the assembler: every section holds the code written under it, in order; the
  encoder mixes up no two instructions;
- the tokenizer: the list is what the lines say, and an error is where the
  first wrong character is;
- the parser: the tree has every token, in the shape of the grammar; parsing
  stays inside the list and ends;
- the folding of constants: it changes no value, and fails exactly where a
  value is missing;
- the whole: what is in the object is what the source says, line by line; the
  output is written only if everything else is done; the program ends;
- the reader: which files it takes and which names it finds in them.

The full list of what is hard to test, each at its line, is under `hazards` in
`PROJECT.json`, and the source lines of every definition under `map`.

## Modules

    ObjectFile                        the object as its callers see it
       ^ implemented by
    Elf <-------- Elf_proofs
     ^ ^             ^
     | |             +--- ElfWriter_proofs <---+
     | |             +--- Assembler_proofs <---+
     | +------ ElfWriter <---+                 |   the writer and the assembler,
     +-------- Assembler <---+                 |   sharing the object's variables
                             |                 |
                           Driver <----- Driver_proofs
                             :                 :     main: extends the two above,
                         Tokenizer     Tokenizer_proofs   instantiates these
                           Parser        Parser_proofs

    Tokenizer <--- Tokenizer_proofs
    Parser <--- Evaluate <--- Parser_proofs      the theorems of both
    ElfReader <--- ElfReader_proofs
    Lemmas, Ranks: what several need

An `MC...` module beside each gives its constants values; some give several.

**Elf** has one action for each operation and each way it ends: `AddSymbol` and
`AddDuplicateSymbol`, `SetSection` and `SetMissingSection`, and so on.  An
exception is an outcome of the step, and the next call may follow.  The order
inside an operation shows where it throws half way: in `AddSymbol` the symbol,
its string and its name are recorded before the relocation section is looked
up, and stay when the lookup throws.  Indices are the code's, from 0, and
`Nth(s, i)` is `s.at(i)`.  The strings of the two initial string tables and the
symbols have variables of their own (`shstrings`, `strings`, `symbols`), as the
code reaches them through fixed indices.  `st_shndx` is cut to `ShndxMod`
values.  `defined` is a history variable: the calls of `add_symbol` that
recorded a symbol, to compare the tables with.  A symbol's size, type, binding
and visibility are stored and never used, and left out.

**ObjectFile** is the promise: named sections that only grow at their end, one
of them current, symbols defined once and bound to the section current then.
`Elf!ObjectSpec` is its specification under a refinement mapping that computes
the content and the symbols from the tables, through the string table and the
section indices as a linker would.

**ElfWriter** extends Elf by `write`: a step for the file header, the null
header, each section header and each body.  The object does not change while
`write` runs, and may between two calls of it (`ChangeObject`).  `Swap` is the
change of byte order; all the properties need of it is that it is its own
inverse and no fixed point but 0, which is what minus does.  It is done in place
in the object, as the code does it, so the second call starts from swapped
headers.  The file is the file header, the list of headers, and the place and
length of each body.

**Assembler** extends Elf by `assemble`, a step for each node of the tree.  The
tree is chosen node by node, since `assemble` never looks ahead.  An exception
ends the call with the object as it is, and `assemble` may be called again.
`Emits`, `Ignored` and `Encode` are the dispatch and the encoders of
`assembleInstruction`: which instructions give a byte, which give neither byte
nor exception, and which byte.  `assembled` is a history variable.

**Tokenizer** has one step for each turn of the loop, in the code's states.
Characters are of the classes the code tells apart; those that mean something of
their own have names (`Space`, `Quote`, `Semicolon` and so on).  Beside the state machine
stands a definition of the tokens of a line that has no states (`TokensOf`,
`Offends`), which the properties compare with it.

**Parser** has one step for each statement.  Each function of the descent through
an expression is a function of the position, giving the set of its results, which
has one element, or none where the code throws.  `Unary` recurs to the position
after the sign; the loops of `addition` and `multiplication` are `Turns`, a function of
the number of turns; both end because there are no more turns or signs than
tokens.  Tokens are words; `Words`, `Numbers` and `Directives` say which form each
has (`TokensAssumption`), and the instruction tables are the code's.  The trees there are
(`Trees`), those of the grammar (`Grammar`) and the tokens of a tree (`Yields`) are
functions of the depth of a tree, which is less than the number of tokens.

**Evaluate** extends Parser by `Assembler::evaluate`.  It changes no state: it is
a function from tree to tree (`EvaluatedTrees`, by the depth as above), applied to
every tree the parser builds.  Numbers are cut to eight bits at every step.  The
exception and the trap of a division by zero are nodes of their own, and the
first of them ends it all.  Beside it stands the value of an expression in
integers (`Value`), which says nothing of folding: labels are at any of
`Addresses`, which are integers (`AddressesAssumption`).

**Driver** is `main`.  Its variables are those of the four parts; a stage at a
time, each takes its steps until it is over or has thrown, and an exception, as
nobody catches it, is the program's end.  The tree goes to the assembler node by
node from `lines`, and `read`, `lines` and `assembled` tell how far each part
is.  The tokenizer's characters are pieces of words here, so that its tokens
are the words the parser knows once they are joined (`Word`).  `a.out` is what it
was before, open, written to its end, or short of it: the writer never asks the
stream.  `DriverAssumption` is what the parts assume of their constants.
Beside it stands a definition of what a source means that has no tree
and no object, by places in its list of words: where lines end (`LineEnds`),
where directives are and where a word `EOF` ends the program (`DirectivesIn`,
`Ends`), which lines count (`ProgramLines`), and of the line that ends at a place
the words of its instruction, its section and its code (`InstructionIn`,
`SectionOf`, `CodeIn`, `Coded`).

**ElfReader** has one step for each part of the file that `read` takes, and one
for each character of the names.  Its files are records of what the reader looks
at, with their length; those of the other byte order have their fields swapped
when the reader takes them.  `e_shstrndx` is less than `e_shnum` in them, as the
code relies on that, and `e_shentsize` is the size of the header.  A file of the
other byte order announces, read in the wrong order, a table of at least ten
thousand bytes, and is taken to be shorter than that (`FilesAssumption`).

**Lemmas** has what the proofs of several modules use about sequences, such as
what `FlattenSeq` of a longer list is.  **Ranks** puts a set of numbers in
order (`InOrder`), in place of the community modules' `SetToSortSeq`, which is
given to TLC as a program and has no definition to prove anything from.

Definitions marked "Faulty variant" are plausible mistakes in the definition
after them.  No specification uses them; putting one in the place of the right
one has to break a property, which `PROJECT.json` lists under `mutants`.

## Runs

| run | shows |
| --- | --- |
| `elf` | tables, names and symbols agree (`SymbolTableConsistent`, `UniqueSectionNames`, `SectionNameTable`, `SymbolsBound`); the stale `curr_rel_idx_` never reaches another section's relocations (`CurrentRelocation`), relocations are filed where they belong and are kept (`RelocationsFiled`, `FiledSymbolsKept`); the object implements ObjectFile (`ObjectSpec`) |
| `writer` | each body lies where its header says and is as long (`BodiesWhereDeclared`), header, table and bodies follow each other without a gap (`FileLayout`), `sh_name` finds the name (`NamesResolve`), `e_shstrndx` the name table (`ShstrndxTrue`), and `write` returns (`WriteEnds`) |
| `assembler` | `BytesInProgramOrder`, `CodeNeedsSection`, `LabelsBound` over calls that throw and are repeated |
| `tokenizer` | `TokensTrue`, `ErrorsTrue`, and every line is left (`LinesEnd`) |
| `parser` | `TreeKeepsTokens`, `Precedence`, `StaysInside`, `ParseEnds`; of the trees it builds, that folding keeps their values (`EvaluateKeepsValue`), leaves nothing to fold and no label out (`EvaluateFolds`), and fails where a value is missing and nowhere else (`EvaluateFails`) |
| `driver` | every section of the object has the code of its lines (`LinesAssembled`), `a.out` is written or untouched (`OutputAllOrNothing`), no two instructions, INC and DEC of a register apart, have one byte (`EncodingUnambiguous`), and the program ends (`ProgramEnds`) |
| `reader` | which files are read (`ReadsExactly`), which names are found (`NamesOfTable`), and that `read` returns (`ReadReturns`) |

What `LinesAssembled` had to say to be true tells what the pipeline does with
odd programs: the word `EOL` in a line ends the line; the word `EOF` in place of a
statement or of a directive ends the program, also with a directive behind it on
the line, and the rest is lost without a message; an operator at a line's end takes the newline for its operand, so that the next line goes on
with this one; an instruction of two operands gives no code; `jp` and `call`,
which the parser takes without operands, and every number, end in an exception.
That even a directive cannot follow `EOF` was found by the proof: `.section text`
before `EOF .section text` and `nop` is a program without code, and the property
had said otherwise.
A `:` is no character the tokenizer accepts, so no label ever reaches the parser
from a source.  `ReadsExactly` likewise: a file is refused if its name table is the
last thing in it, and so is every file that `write` makes, on a little-endian
host, as `write` swaps its fields and `read` does not.

Five runs end in a violation, each of something the repository says of itself:

- `rel_entry`: `add_symbol` throws for a relocatable symbol in a section without
  relocations, with the symbol recorded (`elf.cpp:382`, `:391`).  All sections
  of the constructor are such sections.
- `shnum`: `e_shnum` does not count the null header (`elf_writer.cpp:24`, `:40`).
- `symbols`: `st_shndx` does not count it either, so a written symbol names the
  section before its own (`elf.hpp:290`, `elf.cpp:380`).
- `encoding_all`: INC and DEC of a register join register and opcode without the
  shift; different instructions get one byte (`assembler.cpp:169-186`).
- `parser_labels`: the colon of a label is left in the list, and no statement
  begins with a colon (`parser.hpp:457`, `parser.cpp:118`).

Two properties have a condition because the code has.  `ShstrndxTrue` is stated
of the first `write`: the second searches swapped headers for the type of a
string table and finds none.  `NamesResolve` is stated of the sections up to
the first relocation section, whose name `add_section` never stores.

### Bounds

`MaxSections`, `MaxStrings` and `MaxData` cap the object's tables, `MaxWrites`
and `MaxNodes` the calls and nodes.  They stop growth and nothing else: a call
that would go over is not made.

- `elf`: four sections beyond the initial eight, so that a section is added after
  a symbol, refused as a duplicate, and made with and without relocations, twice; `relx` is both a name a program adds and the name a relocation
  section gets.  Two symbols beside a string of the same text, so that the place
  of a name in the string table and in the symbol table differ.  `ShndxMod` is
  256 here; its edge is in the proof.
- `writer`: two writes with changes in between; strings of different lengths, a
  second string table, a relocation section.
- `assembler`: six nodes, enough for a section, code, another section, a node
  that throws, a second call and code again.  `encoding_all` has three: a section
  and any two instructions.
- `tokenizer`: lines of up to four characters from seven classes, alone and
  beside another line; each pair of states the machine can pass between is
  there, as a word, a string or a symbol needs at most three characters and the
  state carried over a line's end needs two lines.
- `parser`: every list of up to four of sixteen tokens, closed as the tokenizer
  closes it and not, and every expression of five tokens after `sub`, which is
  the longest that tells the associativity of two operators from their
  precedence.  A number is small, zero, or too wide for eight bits; labels get
  the values of `Addresses`.
- `driver`: a directive and any two lines of twenty-one kinds, which are the kinds
  the parts treat differently; four lines of five kinds, so that sections are
  left and come back to; and one program of every instruction that has a byte
  and that the parser makes.  All command lines of no, one and both options.
- `reader`: tables of no to three names, terminated and not, with nothing, a
  NUL or a letter behind, before the section headers and after, in files cut
  where each of the reads would fail.

### Fairness

Writer, tokenizer, parser, reader and the program as a whole are loops of one
thread that never wait, so a step that can be taken is taken: weak fairness of
their next steps.  Of the writer
only its own steps are fair, never the calls that change the object.  Object and
assembler have none: nothing makes a caller call.  Deadlock is not checked, as
all of them stop: with a result, with an exception, or at a bound.

## Proofs

Eight modules hold theorems (Lemmas holds what the others share), checked by
TLAPS for all values of the constants that satisfy the assumptions the modules
state: names, sections, values, byte strings, programs, texts, files and bounds of
any number and length, expressions of any depth.

| theorem | says |
| --- | --- |
| `Elf_proofs` | |
| `TypeCorrect` | `TypeOK` always holds |
| `SymbolTableCorrect` | `SymbolTableConsistent` always holds |
| `SymbolsStayBound` | `SymbolsBound` always holds, up to the edge of `st_shndx` |
| `SectionNamesCorrect`, `SectionNameTableCorrect` | `UniqueSectionNames` and `SectionNameTable` (1, 2) |
| `RelocationsCorrect`, `CurrentRelocationCorrect` | `CurrentRelocation` and `RelocationsFiled` (1) |
| `FiledSymbolsCorrect` | `FiledSymbolsKept`: no step takes a filed relocation back |
| `ElfImplementsObjectFile` | `ObjectSpec`: every step of Elf is one of ObjectFile, or a stutter (3) |
| `ElfWriter_proofs` | |
| `WriterTypeCorrect` | `WriterTypeOK` |
| `BodiesWhereDeclaredCorrect`, `FileLayoutCorrect` | `BodiesWhereDeclared`, `FileLayout`, of every file, the first and the later ones |
| `ShstrndxCorrect` | `ShstrndxTrue` |
| `NamesResolveCorrect` | `NamesResolve` (1, 2) |
| `WriterImplementsObjectFile` | `ObjectSpec` of an object that is written, changed and written again (3) |
| `Assembler_proofs` | |
| `AssemblerImplementsElf`, `AssembledSymbolsCorrect`, `AssemblerImplementsObjectFile` | the assembler changes the object only by its operations, so what is proved of the object and what ObjectFile promises (3) holds of every object it makes |
| `AssemblerTypeCorrect` | `AssemblerTypeOK` |
| `CodeNeedsSectionCorrect` | `CodeNeedsSection` |
| `BytesInProgramOrderCorrect` | `BytesInProgramOrder`, through calls that throw and are repeated |
| `LabelsBoundCorrect` | `LabelsBound` (4) |
| `EncodingUnambiguousCorrect` | `EncodingUnambiguous` (5) |
| `Tokenizer_proofs` | |
| `TokenizerTypeCorrect` | `TokenizerTypeOK`: the position stays inside of the line |
| `TokensTrueCorrect` | `TokensTrue`: the state machine makes the tokens the definition without states gives |
| `ErrorsTrueCorrect` | `ErrorsTrue` |
| `ElfReader_proofs` | |
| `ReaderTypeCorrect` | `ReaderTypeOK` |
| `ReadsExactlyCorrect` | `ReadsExactly` |
| `NamesOfTableCorrect` | `NamesOfTable` |
| `Parser_proofs` | |
| `ParserInvariant` | the inductive invariant, `ParserInv` |
| `ParserTypeCorrect`, `ParserStaysInside` | `ParserTypeOK`, `StaysInside` |
| `ParserKeepsTokens`, `ParserPrecedence` | `TreeKeepsTokens`, `Precedence` |
| `ParserAdvances` | every step takes a token or is the last |
| `EvaluateKeepsValueCorrect` | `EvaluateKeepsValue` |
| `EvaluateFoldsCorrect`, `EvaluateFailsCorrect` | `EvaluateFolds`, `EvaluateFails` |
| `Driver_proofs` | |
| `DriverInvariant` | the inductive invariant, `DriverInv` |
| `DriverTypeCorrect`, `OutputAllOrNothingCorrect` | `DriverTypeOK`, `OutputAllOrNothing` |
| `SourceToTree` | `TokensTrue`, `ErrorsTrue`, `TreeKeepsTokens`, `Precedence` of the tokenizer and the parser in the program |
| `DriverImplementsWriter` | every behaviour of the program is one of ElfWriter (6) |
| `DriverImplementsObjectFile` | `ObjectSpec` of the program's object (3, 6) |
| `TreeToObject` | `BytesInProgramOrder`, `LabelsBound` and so on of the program's object, and that all of the tree is assembled if it ends well (4, 6) |
| `ObjectToFile` | `BodiesWhereDeclared`, `FileLayout`, `ShstrndxTrue`, `NamesResolve` of `a.out` (1, 2, 6) |
| `DriverEncodesOnce` | `EncodingUnambiguous` in the program (5, 6) |
| `LinesAssembledCorrect` | `LinesAssembled` (4, 6) |

Some have a hypothesis beside the assumptions of their module, and each is
needed:

1. Callers add no relocation section of their own (`s.type # "REL"`).  With one
   that does, the stale index reaches a section it should not.
2. `"rel" + name` tells names apart, as it does: `RelName` is a constant of the
   model.
3. `8 <= ShndxMod` and `MaxSections <= ShndxMod`: `st_shndx` has room for the
   sections there are.  Past its edge a symbol names another section, in the
   code as in the model.
4. `8 <= ShndxMod`: room for the sections of the constructor, which are all that
   an assembler of `section` directives ever selects.
5. `InstructionsAsParsed`: a node that gives a byte is what the parser builds, a
   type and arguments, with nothing else two nodes could differ in.
6. `[]NodesCover`: the nodes the parser makes are among `Nodes`, the constant that
   stands for all trees where the assembler is a module of its own.  It holds in the run
   `driver`: TLC finds it true as one more invariant of that run.

The assumptions of the modules say what kind of thing the constants are.  Two
say more: the empty string has no bytes beside its NUL counted
(`EmptyStringAssumption`), and a file of the other byte order is shorter than
the table it announces (`FilesAssumption`).

### The object

The argument is one of layers, as none of the properties is inductive alone.
`TypeInv` is `TypeOK` without the types of header fields, and that there are at
least eight sections, so that the fixed indices of the constructor's exist.  It
is inductive alone.  `SymbolTableConsistent` is inductive given `TypeInv`: a new
name is outside of `symbol_names`, hence unlike all that are in `defined`, and
strings are only ever appended, so old positions keep their strings.
`SymbolsBound` (`BoundInv`) needs both, and that sections are never removed.
The names (`NamesInv`) follow from the duplicate check, which finds the name of
a section of any kind, and from what a relocation section is called: two of
them would come from two sections of one name.  That the name table skips
relocation sections makes a count of the place of a name (`Place`); `PlaceNext`
and `PlaceWithin` say how it grows.  Relocations (`RelocInv`) need most: that
the current relocation index, even stale, lies where `set_section` found a
section of that name or past the end of the vector, that `add_section` puts a
section, never a relocation section, at the first free place, and that names of
relocation sections say whose they are.  `FiledSymbolsKept` needs that
`sections[i].rels` only grows (`RelocationsStay`).

That Elf implements ObjectFile is one step for each action (`NextRefines`), with
`ObjectInv`: `BoundInv`, that the sections fit `ShndxMod`, and that the current
section is the first of its name, since the mapping finds a section by name and
the code by index.

### The writer

`WriterInv` says that the file is well formed as far as it goes (`WellFormed`:
each header's offset is the end of the body before it, each body is where and
as long as its header says), and where the two passes are (`Progress`): in the
first, the running offset is the end of the last body declared, in the second
the position is the end of the last body written, and in both the sizes in the
headers are those the object has now.  The last is dropped between two calls,
when the object may grow.  That two passes compute one size for a table of
strings or symbols is a matter of sums (`SumFunction` of the community modules);
the lemmas on it are in the module.
`ShstrndxInv` adds what the first file has of the name table, `FileNamesInv` that
the running `sh_name` is the offset of the next name of the table.

The one step of `write` that changes the object, the header put into a section,
changes nothing a caller sees (`HeaderRefines`): the abstract object's variables
are computed from the names and bytes of the sections and from the tables.  So
every step of the writer is a step of ObjectFile or a stutter, also when the object
goes on to grow and is written again.

### The assembler

That the assembler implements the object is a step simulation: each node either
takes one step of Elf or leaves it alone (`AssemblerStep`), with
`NodesAssumption` saying that Elf's constants allow the calls the nodes make.
`SectionInv` ties the program to the object: the current section's name is that
of the last `section` directive in `assembled`, and the sections are the eight of
the constructor, whose names differ.
A byte then goes to the end of the code of that name and of no other
(`NextBytes`), and a label is bound to that section (`LabelInv`).
`EncodingUnambiguous` is no induction: it compares the bits of the formats.

### The tokenizer

`TokensInv` compares, in each state, what the machine has made with what the
definition gives of the line up to the position: `TokensUpTo` the position, the
buffer being what was read since the last token began.  Its cases are
`Ready` (no token begun), `InWord` and `InQuotes`; a lemma for each kind of
character says how `StartsToken`, `TokenEnd` and `TokensUpTo` go on past it.  The
definition is of the whole line and the machine sees a prefix, so most of the
work is that what stands behind the position changes nothing before it.

### The reader

`ReaderInv` says in each state where the position is and which tests the file
has passed; a refusal is then traced to the one test it failed (`Lacking`).
`NamesInv` says that names and the name being read are those of the table up to
the position (`NamesIn`, `Begun`), which one more character changes by one name
or one letter (`NamesAppend`).

### The parser

The functions of the descent are defined by recursion on positions, turns and
depths, and the provers take such a definition for what it says only if a
function of the kind exists.  `UnaryExists`, `TurnsAre` and `ByDepthExists` show that
it does; `UnaryIs`, `TurnsAre`, `TreesAre`, `GrammarIs` and `YieldsAre` then unfold
one level.  Induction is on numbers, as that a non-empty set of them has a least one
(`LeastNat`): what is proved of positions goes from the end of the list down, of turns
and of depths from 0 up.

`Parses` says what a function of the descent may return: a tree of the grammar's
level and of a depth within the tokens taken, whose tokens are those taken
(`Kept`, commas left out), none of which is the beginning of a directive or a
newline that is not an operator's operand (`Reads`).  One lemma for each function
(`PrimaryParses`, `UnaryParses`, `TurnsParse`, `AdditionParses`, `OperandIs`,
`NextOperandParses`, `InstructionParses`) shows it, from `KeptJoin`, that what is kept of two
stretches is what is kept of both, and from `GrammarWithin`, that a tree of one depth is
one of every greater depth.

`ParserInv` is the invariant: the position is in the list, each statement is the
one that its stretch of tokens parses to (`StatementsParse`), the stretches are in
order and between them there are only newlines (`SpansInOrder`,
`OnlyNewlinesBetween`), and if the list ends in `EOL` and `EOF` the position is before
its end: a statement begins before those two (`EndIs`, `BeforeEnd`), and ends at the
first or before it.  The four properties are read off it.  `ParserAdvances` is the variant that `ParseEnds` needs; the rest of `ParseEnds` is
fairness.

### The folding of constants

Nothing here is an induction over steps: the properties hold of every tree in a
state of the parser, of which `ParserInv` says that it is in `Trees`.  `EveryTree` is
structural induction: a set that has a tree whenever it has its parts has all trees,
from induction on the depth.  `FoldUnfolds` says of the four functions on trees (what
it is evaluated to, its value, its subexpressions, its labels) that they give the
same at every depth a tree has, so that each gives for a tree what its definition
says for its parts.

`OperatorCases` and `SignCases` are the cases of one step of evaluation: a part has
failed, all parts are numbers, or something is left.  Three inductions follow.
`LabelsKept`: the labels stay, in their order, and a tree without labels becomes a
number.  `FoldedFully`: nothing is left that could be folded.  `FailureIs`: a tree
fails exactly if one of its quotients has no labels and a divisor that becomes 0.
`ValueKept` is a fourth, on integers: `Alike` numbers, which differ by a multiple of
256, have alike sums, differences and products and not quotients, which is why the
property says nothing of a tree that divides unless all its values fit eight bits.
`StatementEvaluated` and `EvaluateFailsInv` take failure from operands to
instructions and to the program.

### The driver

Driver extends the assembler and the writer, so their lemmas are at hand; those of
the tokenizer and the parser are taken from instances of their proof modules (`TP`,
`PP`), as `SameTokenizer`, `SameParser` and the like show that the
specifications they are about are the instances Driver has.

`DriverInv` has the invariants of tokenizer and parser and `StagesInv`: at which
stage each part has not begun, is over, or is at work, that `assembled` is the first
of `lines` (`ObjectStages`), and how much of the file there is.  `DriverTypeOK` and
`OutputAllOrNothing` follow.

What was proved of the assembler and the writer as modules of their own is true of
the program because every step of it is one of theirs or leaves their variables
alone (`WriterSteps`, `ObjectStep`).  That is a refinement, of ElfWriter, of Elf, and with
`WriterImplementsObjectFile` of ObjectFile.  It needs `NodesCover`.  `ProgramInv` carries
the properties of the object over the stages, as the assembler's invariant says
nothing of an object with headers in it.

`LinesAssembled` relates the two ends of it: the words of the source and the bytes of the
sections.  `Layout` is what the parser's invariant says of words: where
statements begin and end, and what stands between them.  From it the places in
`ProgramLines` are exactly the ends of the statements that are instructions and the
ends of lines that have none, all before the `EOF` the parser stops at; the
directive that counts for a line, and the words of its instruction, are those the
parser took (`SectionAbove`, `WordsOfInstruction`).  So the code of a line is the code of its
node, and the bytes of a section, which `BytesInProgramOrder` has as a sequence over nodes,
are the sequence over places with nothing in between (`FlattenSparse`).

### Only model-checked

The liveness properties: `LinesEnd`, `WriteEnds`, `ParseEnds`, `ReadReturns` and
`ProgramEnds`.  The prover has no fairness.

## Not modelled

- Encoders and helpers nothing calls, `Tokenizer::isReserved`,
  `Parser::expectNewline`, `readLine`.
- Messages: usage, errors, what `--tokenize` and the reader print.
- Files for the reader whose `e_shstrndx` or `e_shentsize` is wrong: the code reads
  outside of its buffers then, and has no behaviour to model.
- The assembler does not fold: `assembler.hpp:83` says it "should evaluate any
  constant expressions in the AST", and `assemble` never calls `evaluate`.  The two
  are modelled apart, as the code has them.
- Tests, build files, notes.

Two sections may share a name if one of them is a relocation section, although
`elf.cpp:250` says "Only one section may have a given name";
`UniqueSectionNames` says what is left of that.
