CONSTANTS
  W = 3
  Z = 5
  C = 3
  Literals = {3, 5, 9, 65}
  Widths = {2, 3, 4}
  MaxFolds = 1
  Treshold = 3
  E = 2
  MaxSize = 3
  D = 2
  Structs <- MCStructs
  Inputs <- MCInputs
SPECIFICATION Spec
INVARIANT PartialSum
INVARIANT Compares
INVARIANT Divides
INVARIANT CircuitIsRight
INVARIANT FoldIsRight
INVARIANT ArrayIsList
INVARIANT ArgumentSurvives
CHECK_DEADLOCK FALSE
