CONSTANTS
  NumInputs = 1
  Ops = {"XOR", "XNOR", "AND", "OR"}
  MaxGates = 3
SPECIFICATION Spec
INVARIANT TypeOK
INVARIANT NeverPanics
INVARIANT CountsAgree
INVARIANT MeaningKept
INVARIANT NothingUseless
INVARIANT WellOrdered
INVARIANT CompiledComputes
CHECK_DEADLOCK FALSE
