CONSTANTS
  Selected = {"text", "data", "symtab", ".text"}
  NewSections <- MCNoSections
  Relocatable = {}
  SymRelocatable = {FALSE}
  SymNames = {"a", "b"}
  Values = {0}
  Strings = {}
  Chunks <- MCChunks
  StrSize <- MCStrSize
  RelName <- MCRelName
  ShndxMod = 256
  MaxSections = 8
  MaxStrings = 3
  MaxData = 6
  Nodes <- MCNodes
  MaxNodes = 6
SPECIFICATION AssemblerSpec
INVARIANTS AssemblerTypeOK BytesInProgramOrder CodeNeedsSection LabelsBound
CHECK_DEADLOCK FALSE
