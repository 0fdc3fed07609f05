SPECIFICATION Spec
CONSTANTS
  chat = chat  public = public  daily = daily  again = again  weekly = weekly
  None = None
  Foreground = {}
  Scheduled = {daily, again}
  Public = {}
  Task <- OneTask
  Setups <- OneSetup
  Cap = 1
  HostTransport = TRUE
  Revocable = {}
  Pausable = {}
  MaxLaunches = 1
  MaxRestarts = 1
  MayLoseRecord = FALSE
  WithUpdater = FALSE
  BootTriggers = TRUE
INVARIANTS
  OneOccurrence
CHECK_DEADLOCK FALSE
