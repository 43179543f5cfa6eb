CONSTANTS
  Letters <- MCLetters
  MaxPattern = 6
  MaxWord = 3
  NoPattern = NoPattern
  MAX_DEPTH = 3
  Inputs <- MCInputs
SPECIFICATION Spec
CHECK_DEADLOCK FALSE
INVARIANTS ListingExact PendingSound PatternsExact
