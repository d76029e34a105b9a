SPECIFICATION Spec
CONSTANTS
  q1 = q1
  q2 = q2
  None = None
  Queries = {q1, q2}
  Within <- Apart
  NumTasks = 2
  NumTurns = 2
  MaxInflight = 1
  Events = {"slow", "fail"}
INVARIANT NoStaleAnswer
