SPECIFICATION Spec
CONSTANTS
  Tasks = {t1, t2}
  Connections = {r1, r2, r3}
  None = None
INVARIANT
  PagesAreServed
CHECK_DEADLOCK FALSE
