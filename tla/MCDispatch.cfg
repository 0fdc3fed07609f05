SPECIFICATION DispatchSpec
SYMMETRY Symmetric
CONSTANTS
  chat = chat  daily = daily  again = again  weekly = weekly
  cli = cli  other = other  key = key
  None = None
  Foreground = {chat}
  Scheduled = {daily, again, weekly}
  Public = {}
  Task <- OneTask
  Setups <- OneSetup
  Cap = 1
  HostTransport = TRUE
  Revocable = {}
  Pausable = {}
  MaxLaunches = 1
  MaxRestarts = 1
  MayLoseRecord = FALSE
  WithUpdater = FALSE
  BootTriggers = FALSE
  Editors = {cli, other}
  Keys = {key}
  Gated = FALSE
  MaxTime = 1
  MaxRev = 2
  MaxBoots = 1
  Crashes = TRUE
INVARIANTS
  OccurrencesApart
  Accounted
  OccurrencesAreSound
PROPERTIES
  EndedStaysEnded
  DefinitionRules
CHECK_DEADLOCK FALSE
