SPECIFICATION ResourcesSpec
SYMMETRY Symmetric
CONSTANTS
  None = None
  t1 = t1  t2 = t2  c = c
  a1 = a1  a2 = a2
  lib = lib  mail = mail  lib1 = lib1  lib2 = lib2  mail1 = mail1  mail2 = mail2
  read = read  write = write  status = status  key = key  token = token  notes = notes
  Timed = {t1, t2}
  Present = {c}
  Chain <- MCChain
  Group <- MCGroup
  ScopeOf <- MCScopeOf
  Rejections <- MCRejections
  Slots = 2
  MaxFailures = 1
  MaxAttempts = 2
  Runs = {r1, r2, r3}
  Scheduled = {r2, r3}
  Workers = {w1}
  MaxCommands = 2
  Ids = {lib, mail}
  Procs = {a1, a2}
  Package <- MCPackage
  Pinned <- MCPinned
  Reserved = {status}
  Folders = {notes}
  MaxRequests = 3
  MaxEdits = 1
  MaxCrashes = 1
INVARIANTS
  LoginsAreSpared
  OneWriter
PROPERTIES
  ResetSurvives
  RegistryIsSound
CHECK_DEADLOCK FALSE
