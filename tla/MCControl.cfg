SPECIFICATION ControlSpec
SYMMETRY Symmetric
CONSTANTS
  a1 = a1  a2 = a2  app1 = app1  app2 = app2
  t1 = t1  t2 = t2  e1 = e1
  None = None
  Users = {"u1"}
  OwnerIds = {"id"}
  Apps = {app1, app2}
  Kinds = {"share", "rotate", "remove", "launch"}
  Admins = {a1, a2}
  MaxPending = 1
  MaxSerial = 3
  MaxChanges = 3
  MaxRuns = 1
  MaxCalls = 2
  Initial <- FirstPreset
  Savable <- OwnPresets
  Detected <- FoundPresets
  Requested <- BroughtPresets
  Reports = {"codex"}
  Scopes = {"scope"}
  Channels = {"telegram", "application"}
  MaxSaved = 1
  MaxConv = 2
  MaxToken = 3
  MaxQueue = 1
  MaxOps = 4
  Grants = {t1, t2}
  Events = {e1}
  GrantKinds = {"opener", "waiting", "lasting", "public", "scoped"}
  Hourly = 1
  Total = 2
  Outstanding = 2
  Links = FALSE
  MaxOwners = 2
  MaxBinds = 1
  MaxRestarts = 1
INVARIANTS
  AuthorityNeverReturns
  WorkResolves
  ConversationsKeepApart
  GrantsHold
PROPERTIES
  OwnerStaysItself
  BindingsSurvive
  SentWithAuthority
CHECK_DEADLOCK FALSE
