CONSTANTS
  Order = 5
  Scalar <- MCScalar
  Point <- MCScalar
  Infinity = 0
  G = 2
  Plus <- MCPlus
  Neg <- MCNeg
  Mul <- MCMul
  MaxCount = 2
  NoLabel = NoLabel
SPECIFICATION Spec
INVARIANT TypeOK
INVARIANT ChosenLabels
INVARIANT OpensOnlyChosen
INVARIANT ChoiceHidden
CHECK_DEADLOCK FALSE
