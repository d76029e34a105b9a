SPECIFICATION BookingSpec
CONSTANTS
  c1 = c1
  c2 = c2
  d1 = d1
  w1 = w1
  w2 = w2
  p1 = p1
  p2 = p2
  s1 = s1
  s2 = s2
  s3 = s3
  Calls = {c1}
  Desk = {}
  Workers = {w1}
  WorkerOf <- OneCallWorker
  Phones = {p1, p2}
  NoPhone = NoPhone
  Miss = Miss
  Free = Free
  PhoneOf <- OneCall
  Slots = {s1, s2}
  DayOf <- EachDay
  RowIds = {r1, r2}
  MaxAttempts = 3
  IndexPresent = TRUE
  MayCreateIndex = FALSE
  Faults = {"read", "write", "lostack"}
  Services = {"book", "reschedule", "cancel", "cancelall", "slots", "snapshot"}
  Drafts = {d1, d2}
  MaxBookings = 1
  MaxReadFaults = 1
  Budget = 11
  KeepRecent = 4
  MaxToolSteps = 2
  MaxChat = 5
  MaxRows = 1
  Environment <- OfficeHours
  Saved <- SavedGrids
  Minutes <- ClockFaces
INVARIANT PromptSound
PROPERTY Answered
