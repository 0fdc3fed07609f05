SPECIFICATION Spec
CONSTANTS
  None = None
  c1 = c1  c2 = c2
  Calls = {c1, c2}
  Foreign = {c1}
  MaxOps = 1
  MaxCrashes = 0
  MaxCancels = 0
PROPERTY
  EveryCallFinishesFirst
CHECK_DEADLOCK FALSE
