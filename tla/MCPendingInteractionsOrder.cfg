\* Two tools ask at the same time.
SPECIFICATION Spec
CONSTANTS
  Questions = {t1, t2, b1, p1, p2}
  t1 = t1
  t2 = t2
  b1 = b1
  p1 = p1
  p2 = p2
  NoQuestion = NoQuestion
  Timed = {}
  Mode <- MCMode
  Scenarios <- TwoTools
INVARIANTS
  EachAdmitted
CHECK_DEADLOCK FALSE
