SPECIFICATION Spec
CONSTANTS
  Refs <- MCRefs
  Accounts <- MCAccounts
  Periods <- MCPeriods
  Currencies <- MCCurrencies
  Actors <- MCActors
  NegativeZero = NegativeZero
  None = None
  Requests <- MCReversalRequests
  MaxLegislative = 0
  Threads = {1, 2}
  Stores = {1, 2}
  StoreOf <- MCOwnStore
INVARIANT
  ReversedOnce
