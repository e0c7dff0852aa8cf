SPECIFICATION ReadsFairSpec
CONSTANTS
  Refs <- MCRefs
  Accounts <- MCAccounts
  Periods <- MCPeriods
  Currencies <- MCCurrencies
  Actors <- MCActors
  NegativeZero = NegativeZero
  None = None
  Requests <- MCWrites
  MaxLegislative = 0
  Readers = {r1, r2}
  Handles = {h1, h2}
  PageSize = 4
  Starts = {0, 5}
  Ops = {"load_book", "iter_audit_log", "iter_audit_log_pages", "debug_snapshot"}
INVARIANTS
  PoolConserved
  LoadIsAtomic
  PagesAreGapFree
PROPERTY
  HandlesReturn
