SPECIFICATION Spec
CONSTANTS
  n1 = n1
  n2 = n2
  u1 = u1
  Neighbors = {n1, n2}
  Setups <- GoodAndBad
  Uids = {u1}
  ForwardTimeout = 3
  SweepInterval = 1
  MinForwardFailures = 2
  MistrustDuration = 1
  DefensePeriod = 2
  HelloInterval = 2
  TcInterval = 5
  SelectorHold = 4
  MaxJitter = 1
CHECK_DEADLOCK FALSE
INVARIANTS TypeOK NoFalseBlame
PROPERTY OnlyForwardingIsCredited
