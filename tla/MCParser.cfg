CONSTANTS
  Inputs <- MCInputs
  Words = {"text", "a", "bc", "nop", "inc", "ld", "sub", "EOL", "EOF"}
  Directives = {".section", ".align"}
  Numbers = {"five", "big", "wide"}
  Addresses = {0, 5, 200, 1000}
  Atoi <- MCAtoi
SPECIFICATION Spec
INVARIANTS ParserTypeOK StaysInside TreeKeepsTokens Precedence
  EvaluateFolds EvaluateKeepsValue EvaluateFails
PROPERTY ParseEnds
CHECK_DEADLOCK FALSE
