\* A resolution is lost with the connection.
SPECIFICATION Spec
CONSTANTS
  Questions = {t1, t2, b1, p1, p2}
  t1 = t1
  t2 = t2
  b1 = b1
  p1 = p1
  p2 = p2
  NoQuestion = NoQuestion
  Timed = {p1}
  Mode <- MCMode
  Scenarios <- LostResolution
INVARIANTS
  NoPromptStale
CHECK_DEADLOCK FALSE
