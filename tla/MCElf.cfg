CONSTANTS
  Selected = {"text", "x", "relx", "symtab"}
  NewSections <- MCNewSections
  Relocatable = {FALSE, TRUE}
  SymRelocatable = {FALSE, TRUE}
  SymNames = {"a", "b"}
  Values = {5}
  Strings = {"a"}
  Chunks <- MCOneChunk
  StrSize <- MCStrSize
  RelName <- MCRelName
  ShndxMod = 256
  MaxSections = 12
  MaxStrings = 3
  MaxData = 1
SPECIFICATION Spec
INVARIANTS TypeOK SymbolTableConsistent UniqueSectionNames SectionNameTable SymbolsBound
   CurrentRelocation RelocationsFiled FiledSymbolsKept
PROPERTY ObjectSpec
CHECK_DEADLOCK FALSE
