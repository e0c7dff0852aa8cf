SPECIFICATION FairSpec
CONSTANTS
  Clients = {1, 2}
  Commands = {c1, c2}
  Snapshots = {}
  Calls <- MCMixed
  MaxBacklog = 0
  None = None
INVARIANTS
  TypeOK
  CommittedInOrder
  AnswersAreTrue
  CloseWaitsForCalls
  NothingStranded
PROPERTIES
  ClosedIsFinal
  ImplementsLifecycle
  AcceptedIsAnswered
  CallsReturn
