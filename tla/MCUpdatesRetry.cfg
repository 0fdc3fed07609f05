SPECIFICATION Spec
CONSTANTS
  None = None
  m1 = m1  m2 = m2  p1 = p1
  Jobs = {m1, m2}
  Version <- MCVersion
  PluginJobs = {}
  Preserving = {m2}
  MaxCrashes = 0
  MaxFails = 2
  MaxBusy = 1
  MaxTroubles = 3
INVARIANT
  NoRecoveryLost
CHECK_DEADLOCK FALSE
