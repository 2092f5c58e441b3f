SPECIFICATION HnaSpec
CONSTANTS
  i1 = i1
  i2 = i2
  Kinds = {"tc", "hna"}
  Items = {i1, i2}
  Watched = i1
  Locals <- MCLocals
  Distances = {1, 2}
  Interval = 1
  MaxDelay = 1
  AnsnModulus = 2
INVARIANTS TypeOK OneAnnouncement NothingStale OldNumbersFade StaleRoutesFade
PROPERTIES Converges
