CONSTANTS
  Letters <- MCLetters
  Specials <- MCSpecials
  Quotes <- MCQuotes
  MaxLine = 6
  MaxLen = 7
SPECIFICATION Spec
CHECK_DEADLOCK FALSE
INVARIANTS LexExact SyntaxExact Decommented
