SPECIFICATION Spec
CONSTANTS
  n1 = n1
  n2 = n2
  n3 = n3
  n4 = n4
  n5 = n5
  Nodes = {n1, n2, n3, n4, n5}
  Origin = n1
  Networks <- MCNetworks
  Levels = {0, 3}
  Ttl = 4
  MaxJitter = 2
  DupHold = 9
CHECK_DEADLOCK FALSE
INVARIANTS TypeOK RelayedOnce Coverage
