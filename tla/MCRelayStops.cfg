SPECIFICATION StopsSpec
CONSTANTS
  chat = chat  public = public  daily = daily  again = again  weekly = weekly
  None = None
  Foreground = {}
  Scheduled = {daily}
  Public = {}
  Task <- OneTask
  Setups <- TwoSetups
  Cap = 1
  HostTransport = TRUE
  Revocable <- AllOfDaily
  Pausable = {}
  MaxLaunches = 2
  MaxRestarts = 1
  MayLoseRecord = TRUE
  WithUpdater = FALSE
  BootTriggers = FALSE
PROPERTIES
  WithdrawnWorkEnds
  StopCompletes
CHECK_DEADLOCK FALSE
