SPECIFICATION LiveSpec
CONSTANTS
  q1 = q1
  q2 = q2
  None = None
  Queries = {q1, q2}
  Within <- Contained
  NumTasks = 2
  NumTurns = 2
  MaxInflight = 1
  Events = {"slow", "fail", "drop"}
  CallLanguage = "multi"
  Turns <- Utterances
  PoolSize <- Pools
  Lines = {"l1"}
  RecentLimit = 2
  EchoWindow = 1
  HalfTtl = 2
  AckAfter = 1
  AckCooldown = 1
  MaxSaid = 2
  Tokens = {"a", "b"}
  MaxWords = 2
  MinPartials = 2
  Debounce = 1
  Sayings = {"t1", "t2"}
  Phrases = {"p1"}
  Dashboards <- Boards
  MaxEntries = 2
  Racers = {r1, r2, r3}
INVARIANT TurnsRouted
INVARIANT SoundInv
INVARIANT ReplyInv
PROPERTY BargeInSeen
PROPERTY InterruptDrains
PROPERTY LinesRotate
PROPERTY FreshFromFinished
PROPERTY TurnSettles
PROPERTY CancelledCloses
