SPECIFICATION RulesFairSpec
CONSTANTS
  n1 = n1
  u1 = u1
  Neighbors = {n1}
  Setups <- GoodOrBad
  Uids = {u1}
  ForwardTimeout = 3
  SweepInterval = 1
  MinForwardFailures = 2
  MistrustDuration = 1
  DefensePeriod = 2
  HelloInterval = 2
  TcInterval = 5
  SelectorHold = 4
  MaxJitter = 1
  MaxTcDelay = 1
  MaxCalm = 7
CHECK_DEADLOCK FALSE
INVARIANTS RulesTypeOK  AlertsVerify
PROPERTIES TotalBlackHoleCaught  PeersForget
