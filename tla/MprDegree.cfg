SPECIFICATION Spec
CONSTANTS
  n1 = n1
  n2 = n2
  n3 = n3
  x = x
  y = y
  z = z
  Self = self
  Neighbors = {n1, n2, n3}
  Addresses = {n1, n2, n3, x, y, z, self}
  TwoHopTuples <- MCTwoHopTuples
  Levels = {0, 3, 7}
  Suspects = {n1}
PROPERTIES GreaterDegreeWins
CHECK_DEADLOCK FALSE
