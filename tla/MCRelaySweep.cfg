SPECIFICATION Spec
CONSTANTS
  chat = chat  public = public  daily = daily  again = again  weekly = weekly
  None = None
  Foreground = {chat, again, public}
  Scheduled = {}
  Public = {public}
  Task <- OneTask
  Setups <- OneSetup
  Cap = 1
  HostTransport = FALSE
  Revocable = {}
  Pausable = {}
  MaxLaunches = 1
  MaxRestarts = 0
  MayLoseRecord = FALSE
  WithUpdater = FALSE
  BootTriggers = FALSE
PROPERTIES
  SweepStopsItsRun
CHECK_DEADLOCK FALSE
