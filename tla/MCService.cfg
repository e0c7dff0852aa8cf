SPECIFICATION ServiceSpec
CONSTANTS
  Clients = {c1, c2}
  PoolMax = 1
  Packs <- MCPacks
  Registry <- MCPacks
  MaxQueue = 1
  Refs <- MCRefs
  Accounts <- MCAccounts
  Periods <- MCPeriods
  Currencies <- MCCurrencies
  Actors <- MCActors
  NegativeZero = NegativeZero
  None = None
  Requests <- MCServiceRequests
  MaxLegislative = 3
INVARIANTS
  ReturnedIsRecorded
  ResultsFollowPostings
  GapsAreReported
CHECK_DEADLOCK FALSE
