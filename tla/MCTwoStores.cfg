SPECIFICATION FairSpec
CONSTANTS
  Refs <- MCRefs
  Accounts <- MCAccounts
  Periods <- MCPeriods
  Currencies <- MCCurrencies
  Actors <- MCActors
  NegativeZero = NegativeZero
  None = None
  Requests <- MCAppendRequests
  MaxLegislative = 0
  Threads = {1, 2}
  Stores = {1, 2}
  StoreOf <- MCOwnStore
PROPERTIES
  ImplementsLedger
  LockIsReleased
