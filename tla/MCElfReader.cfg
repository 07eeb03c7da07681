CONSTANTS
  Files <- MCFiles
SPECIFICATION ReaderSpec
INVARIANTS ReaderTypeOK ReadsExactly NamesOfTable
PROPERTY ReadReturns
CHECK_DEADLOCK FALSE
