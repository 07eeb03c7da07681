CONSTANTS
  Selected = {"text"}
  NewSections <- MCNoSections
  Relocatable = {}
  SymRelocatable = {FALSE}
  SymNames = {}
  Values = {0}
  Strings = {}
  Chunks <- MCChunks
  StrSize <- MCStrSize
  RelName <- MCRelName
  ShndxMod = 256
  MaxSections = 8
  MaxStrings = 3
  MaxData = 5
  Nodes <- MCProgram
  MaxNodes = 3
SPECIFICATION AssemblerSpec
INVARIANT RegisterEncoded
CHECK_DEADLOCK FALSE
