SPECIFICATION HostsSpec
CONSTANTS
  None = None
  m1 = m1  m2 = m2  p1 = p1
  c1 = c1  c2 = c2
  r1 = r1  w1 = w1  w2 = w2  w3 = w3
  Calls = {c1, c2}
  Foreign = {c1}
  MaxOps = 2
  MaxCrashes = 1
  MaxCancels = 1
  Jobs = {m1, m2, p1}
  Version <- MCVersion
  PluginJobs = {p1}
  Preserving = {m2}
  MaxFails = 2
  MaxBusy = 1
  MaxTroubles = 3
INVARIANTS
  AllOrNothing
PROPERTIES
  WorkIsNotCut
  PauseIsLifted
  CallsFinishFirst
  OperationsEnd
  HostIsSound
CHECK_DEADLOCK FALSE
