SPECIFICATION Spec
CONSTANTS
  Threads = {1, 2}
  Stems <- MCStems
  Book = demo
  Destinations <- MCDestinations
  None = None
  MaxCommits = 1
  demo = demo
  copy = copy
INVARIANT
  SnapshotIsThere
CHECK_DEADLOCK FALSE
