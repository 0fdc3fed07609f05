SPECIFICATION Spec
CONSTANTS
  None = None
  t1 = t1  t2 = t2  e1 = e1  e2 = e2
  Grants = {t1}
  Events = {e1}
  GrantKinds = {"opener", "lasting"}
  Hourly = 1
  Total = 1
  Outstanding = 1
  Links = TRUE
  MaxOwners = 2
  MaxBinds = 1
  MaxRestarts = 0
PROPERTY
  OwnRunsStart
CHECK_DEADLOCK FALSE
