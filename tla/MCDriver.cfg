CONSTANTS
  Selected = {"text", "data", "symtab", "a"}
  NewSections <- MCNoSections
  Relocatable = {}
  SymRelocatable = {FALSE}
  SymNames = {"a"}
  Values = {0}
  Strings = {}
  Chunks <- MCChunks
  StrSize <- MCStrSize
  RelName <- MCRelName
  ShndxMod = 256
  MaxSections = 8
  MaxStrings = 1
  MaxData = 100
  MaxWrites = 1
  Nodes <- MCNodes
  MaxNodes = 100
  Texts <- MCTexts
  WordChars = {".section", ".align", "te", "xt", "data", "symtab", "a", "b", "bc", "nop",
    "push", "pop", "inc", "dec", "ld", "sub", "and", "xor", "or", "cp", "jp", "5", "EOL", "EOF",
    "rlca", "rla", "rrca", "rra", "daa", "scf", "cpl", "ccf", "ret", "stop", "halt", "di", "ei",
    "c", "d", "e", "h", "l", "de", "hl", "af"}
  Operators = {"+", "-", "*", "/"}
  Words = {"text", "data", "symtab", "a", "b", "bc", "nop",
    "push", "pop", "inc", "dec", "ld", "sub", "and", "xor", "or", "cp", "jp", "EOL", "EOF",
    "rlca", "rla", "rrca", "rra", "daa", "scf", "cpl", "ccf", "ret", "stop", "halt", "di", "ei",
    "c", "d", "e", "h", "l", "de", "hl", "af"}
  Directives = {".section", ".align"}
  Numbers = {"5"}
  Atoi <- MCAtoi
  Invocations <- MCInvocations
SPECIFICATION DriverSpec
INVARIANTS DriverTypeOK LinesAssembled OutputAllOrNothing EncodingUnambiguous
PROPERTY ProgramEnds
CHECK_DEADLOCK FALSE
