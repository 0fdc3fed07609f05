SPECIFICATION ServicesSpec
CONSTANTS
  tick = tick  trigger = trigger  edit = edit
  cli = cli  key = key
  m1 = m1  m2 = m2  work = work
  a = a  b = b
  None = None
  Callers = {tick, trigger, edit}
  Crashes = TRUE
  Slow = FALSE
  Messages = {m1, m2}
  Run <- RunOf
  MaxKept = 1
  Feeds = {a, b}
  MaxCaptures <- Captures
  Talks <- TwoTalks
  Batch = 2
  Public = {"q"}
  Keep = 1
  MaxRestarts = 1
INVARIANTS
  ExclusionUntilDeath
  SentAsTold
  OneRunEach
PROPERTIES
  OrphansAreBroken
  DueIsDispatched
  HandOverIsComplete
  SocketSettles
  DoneStaysDone
  EndedIsReleased
CHECK_DEADLOCK FALSE
