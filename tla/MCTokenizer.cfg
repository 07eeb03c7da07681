CONSTANTS
  Texts <- MCTexts
  WordChars = {"x"}
  Operators = {"+"}
SPECIFICATION Spec
INVARIANTS TokenizerTypeOK TokensTrue ErrorsTrue
PROPERTY LinesEnd
CHECK_DEADLOCK FALSE
