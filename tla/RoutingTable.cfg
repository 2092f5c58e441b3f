SPECIFICATION Spec
CONSTANTS
  a = a
  b = b
  c = c
  d = d
  Self = self
  Nodes = {a, b, c, d, self}
  Repositories <- MCRepositories
  OldTables <- MCOldTables
INVARIANTS TypeOK SendEntryIsFound EntriesContinue NothingNearerMissed BreadthFirst LostNeighborsOnlyShorten RoundsEnd
CHECK_DEADLOCK FALSE
