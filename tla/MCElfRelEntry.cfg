CONSTANTS
  Selected = {"text", "x", "relx"}
  NewSections <- MCNewSections
  Relocatable = {FALSE, TRUE}
  SymRelocatable = {FALSE, TRUE}
  SymNames = {"a", "b"}
  Values = {5}
  Strings = {}
  Chunks <- MCChunks
  StrSize <- MCStrSize
  RelName <- MCRelName
  ShndxMod = 256
  MaxSections = 12
  MaxStrings = 3
  MaxData = 3
SPECIFICATION Spec
INVARIANT RelocatableHasEntry
CHECK_DEADLOCK FALSE
