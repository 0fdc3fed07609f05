SPECIFICATION TurnsSpec
CONSTANTS
  chat = chat  public = public  daily = daily  again = again  weekly = weekly
  None = None
  Foreground = {chat, public}
  Scheduled = {}
  Public = {public}
  Task <- OneTask
  Setups <- TwoSetups
  Cap = 1
  HostTransport = FALSE
  Revocable = {}
  Pausable = {}
  MaxLaunches = 2
  MaxRestarts = 0
  MayLoseRecord = FALSE
  WithUpdater = TRUE
  BootTriggers = FALSE
  N = 4
  Context <- ContextOf
  Album <- AlbumOf
  Kind <- KindOf
  Burst = 2
  MaxRetries = 1
INVARIANTS
  ForegroundSerial
  IdleStaysIdle
  OnePlace
PROPERTIES
  ImplementsLane
  ChatIsServed
  IntakeIsFaithful
  IntakeDrains
CHECK_DEADLOCK FALSE
