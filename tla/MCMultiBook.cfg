SPECIFICATION FairSpec
CONSTANTS
  Threads = {1, 2}
  Books = {b1, b2}
  Runtimes = {1, 2, 3}
  Calls <- MCMixed
  None = None
INVARIANTS
  RegisteredRuns
  NoneForgotten
  SnapshotsAnswer
PROPERTIES
  UsesLifecycle
  CallsReturn
