CONSTANTS
  Args <- MCArgs
  Targets = {"x"}
  Conditions = {"b", "x"}
  Operands = {"a", "x"}
  Param = "a"
  MaxStatements = 6
  MaxCalls = 2
  MaxIfs = 2
SPECIFICATION Spec
INVARIANT BindingsAgree
INVARIANT ProgramComputes
CHECK_DEADLOCK FALSE
