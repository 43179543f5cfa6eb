CONSTANTS
  w1 = w1
  w2 = w2
  NoValue = NoValue
  NoReply = NoReply
  Callers <- TwoWorkers
  KeyTokens <- MCKeys
  ValueTokens <- AllTokens
  UpperOf <- MCUpper
  Buffers <- AllBuffers
  BUF_SIZE = 4
  MAX_KEY_LEN = 2
SPECIFICATION MCSpec
INVARIANTS ResponsesTrue GrammarExact
CHECK_DEADLOCK FALSE
