SPECIFICATION Spec
CONSTANTS
  c1 = c1
  c2 = c2
  d1 = d1
  w1 = w1
  w2 = w2
  p1 = p1
  p2 = p2
  s1 = s1
  s2 = s2
  s3 = s3
  Calls = {c1}
  Desk = {d1}
  Workers = {w1}
  WorkerOf <- OneCallWorker
  Phones = {p1, p2}
  NoPhone = NoPhone
  Miss = Miss
  Free = Free
  PhoneOf <- OneCall
  Slots = {s1, s2}
  DayOf <- EachDay
  RowIds = {r1, r2, r3}
  MaxAttempts = 3
  IndexPresent = TRUE
  MayCreateIndex = FALSE
  Faults = {"write"}
  Services = {"book", "reschedule", "cancel", "cancelall", "deskbook"}
INVARIANT TypeOK
INVARIANT NoDoubleBooking
INVARIANT HonestFailure
INVARIANT HonestSuccess
PROPERTY HonestNothing
PROPERTY BookingsKept
