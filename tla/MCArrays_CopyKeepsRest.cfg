CONSTANTS
  Treshold = 3
  E = 1
  MaxSize = 2
SPECIFICATION ASpec
INVARIANT CopyKeepsRest
CHECK_DEADLOCK FALSE
