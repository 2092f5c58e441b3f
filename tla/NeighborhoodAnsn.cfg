SPECIFICATION Spec
CONSTANTS
  a = a
  b = b
  x = x
  Self = self
  Neighbors = {a, b}
  Remote = {x}
  Will <- MCWill
  Contents <- MCContents
  VTime = 2
  HoldTime = 2
  AnsnModulus = 5
  MaxTime = 6
SYMMETRY MCSymmetry
CHECK_DEADLOCK FALSE
PROPERTIES AnsnNumbersTheSet
