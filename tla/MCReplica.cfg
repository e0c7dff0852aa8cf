SPECIFICATION Spec
CONSTANTS
  Tasks = {t1, t2, t3}
  Connections = {r1, r2, r3}
  None = None
SYMMETRY Symmetry
INVARIANTS
  CurrentIsOpen
  OnlyKnownLeaks
CHECK_DEADLOCK FALSE
