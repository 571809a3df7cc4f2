CONSTANTS
  Input = {1, 2}
  SizeOf <- MCSizeOf
  Declared <- MCDeclared
  Unsized = {}
  Result <- MCResult
  F <- MCF
  Refused = {"22"}
  MaxAttempt = 2
  Faulty = {"garbler", "evaluator"}
  MayExpire = FALSE
  SameSid = FALSE
  None = None
SPECIFICATION Spec
CHECK_DEADLOCK FALSE
INVARIANT Correct
PROPERTY ImplementsIdeal
PROPERTY NoOverwrite
