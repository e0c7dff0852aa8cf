SPECIFICATION FairSpec
CONSTANTS
  Refs <- MCRefs
  Accounts <- MCAccounts
  Periods <- MCPeriods
  Currencies <- MCCurrencies
  Actors <- MCActors
  NegativeZero = NegativeZero
  None = None
  Requests <- MCStoreRequests
  MaxLegislative = 1
  Threads = {1, 2}
  Stores = {1}
  StoreOf <- MCOneStore
INVARIANTS
  TypeOK
  OneWriter
  AcknowledgedIsStored
  ReversedOnce
PROPERTIES
  AttributedToCaller
  FileOnlyGrows
  ImplementsLedger
