CONSTANTS
  Selected = {"text", "x"}
  NewSections <- MCNewSections
  Relocatable = {FALSE, TRUE}
  SymRelocatable = {FALSE}
  SymNames = {"a", "long"}
  Values = {0}
  Strings = {}
  Chunks <- MCChunks
  StrSize <- MCStrSize
  RelName <- MCRelName
  ShndxMod = 256
  MaxSections = 11
  MaxStrings = 2
  MaxData = 2
  MaxWrites = 2
SPECIFICATION WriterSpec
INVARIANT SymbolsNameTheirHeader
CHECK_DEADLOCK FALSE
