SPECIFICATION FairSpec
CONSTANTS
  n1 = n1
  n2 = n2
  u1 = u1
  Neighbors = {n1}
  Setups <- BlackHole
  Uids = {u1}
  ForwardTimeout = 3
  SweepInterval = 1
  MinForwardFailures = 2
  MistrustDuration = 2
  DefensePeriod = 2
  HelloInterval = 2
  TcInterval = 5
  SelectorHold = 4
  MaxJitter = 1
CHECK_DEADLOCK FALSE
PROPERTIES DataBlackHoleCaught
