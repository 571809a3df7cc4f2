CONSTANTS
  Input = {1, 2}
  SizeOf <- MCSizeOf
  Declared <- MCDeclared
  Unsized = {"garbler"}
  Result <- MCResult
  F <- MCF
  Refused = {"22"}
  MaxAttempt = 1
  Faulty = {}
  MayExpire = FALSE
  SameSid = FALSE
  None = None
SPECIFICATION Spec
CHECK_DEADLOCK FALSE
INVARIANT SameProgram
