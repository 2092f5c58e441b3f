SPECIFICATION Spec
CONSTANTS
  a = a
  b = b
  x = x
  Self = self
  Neighbors = {a, b}
  Remote = {x}
  Will <- MCWill
  Contents <- MCContents
  VTime = 1
  HoldTime = 2
  AnsnModulus = 5
  MaxTime = 5
VIEW MCView
SYMMETRY MCSymmetry
CHECK_DEADLOCK FALSE
INVARIANTS TypeOK OneRelayLeftBehind LossNoticedInTime NothingOutlivesItsLink
PROPERTIES ExpiryOrMissedLossUncovers
