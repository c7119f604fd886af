SPECIFICATION Spec
CONSTANTS
  Texts <- MCTexts
  Letters <- MCLetters
  Digits <- MCDigits
  Blanks <- MCBlanks
  MaxNumber = 99
INVARIANTS
  TypeOK
  TokensExact
  ErrorsExact
  CaretsExact
PROPERTY
  Finishes
CHECK_DEADLOCK FALSE
