\* Questions of a turn, of background work and with a deadline, under seven scenarios.
SPECIFICATION FairSpec
CONSTANTS
  Questions = {t1, b1, p1}
  t1 = t1
  t2 = t2
  b1 = b1
  p1 = p1
  p2 = p2
  NoQuestion = NoQuestion
  Timed = {p1}
  Mode <- MCMode
  Scenarios <- MCScenarios
INVARIANTS
  PromptsMatch
  AcceptedAnswerCounts
  NoneAfterStop
PROPERTIES
  Released
CHECK_DEADLOCK FALSE
