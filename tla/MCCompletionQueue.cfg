\* Processes, delegations and terminal events of a conversation that is closed and
\* resumed, beside another, under several scenarios.
SPECIFICATION FairSpec
CONSTANTS
  Sessions = {"a1", "a2", "b1"}
  Procs = {p1, p2}
  Delegs = {d1, d2}
  p1 = p1
  p2 = p2
  p3 = p3
  d1 = d1
  d2 = d2
  NoItem = NoItem
  MaxChildren = 1
  MaxTombstones = 2
  MaxPosts = 2
  Key <- MCKey
  OwnerKey <- MCOwnerKey
  Subscriber = "a"
  Scenarios <- MCScenarios
INVARIANTS
  QueueTypeOK
  NothingDropped
  ToldOnce
  NothingAckedUntold
PROPERTIES
  RetiredStaysSilent
  EndsArrive
CHECK_DEADLOCK FALSE
