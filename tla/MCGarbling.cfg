CONSTANTS
  Gates <- MCGates
  N0 = 1
  N1 = 1
  NumWires = 8
  NumOutputs = 2
  Width = 3
  Key = {1, 2}
  AES <- MCAES
  IdMod = 5
SPECIFICATION Spec
INVARIANT TypeOK
INVARIANT GarbledIsComputed
INVARIANT NeverFails
INVARIANT ActiveLabels
CHECK_DEADLOCK FALSE
