CONSTANTS
  Input = {1}
  SizeOf <- MCSizeOf
  Declared <- MCDeclared
  Unsized = {}
  Result <- MCResult
  F <- MCF
  Refused = {}
  MaxAttempt = 1
  Faulty = {"garbler", "evaluator"}
  MayExpire = TRUE
  SameSid = FALSE
  None = None
SPECIFICATION FairSpec
INVARIANT TypeOK
INVARIANT NeverBothWaiting
PROPERTY WaitHasCause
PROPERTY BothReturn
CHECK_DEADLOCK FALSE
