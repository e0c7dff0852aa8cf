SPECIFICATION MCSpec
CONSTANTS
  Refs <- MCRefs
  Accounts <- MCAccounts
  Periods <- MCPeriods
  Currencies <- MCCurrencies
  Actors <- MCActors
  NegativeZero = NegativeZero
  None = None
  Requests <- MCUnknownPeriod
  MaxLegislative = 2
  Codes = {a, b, c, d}
  MaxAccounts = 4
  Names = {p1, p2, p3}
  MaxDay = 4
  MaxPeriods = 3
  MaxUnits = 120
  Rates <- MCRates
  MinorUnits = {1, 100, 1000, 10000}
  Tens = {1, 10, 100, 1000, 10000, 100000, 1000000}
  ContextLimit = 1000
INVARIANT
  StoredBookLoads
CHECK_DEADLOCK FALSE
