SPECIFICATION Spec
CONSTANTS
  n1 = n1
  n2 = n2
  n3 = n3
  n4 = n4
  n5 = n5
  Nodes = {n1, n2, n3, n4, n5}
  Source = n1
  Networks <- MCNetworks
  Levels = {0, 3}
  Suspects = {n5}
INVARIANTS TypeOK NeverStranded OnShortestPath
CHECK_DEADLOCK FALSE
