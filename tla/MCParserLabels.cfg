CONSTANTS
  Inputs <- MCInputs
  Words = {"text", "a", "bc", "nop", "inc", "ld", "sub", "EOL", "EOF"}
  Directives = {".section", ".align"}
  Numbers = {"five", "big", "wide"}
  Addresses = {0}
  Atoi <- MCAtoi
SPECIFICATION Spec
INVARIANT LabelsParse
CHECK_DEADLOCK FALSE
