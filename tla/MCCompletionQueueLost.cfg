\* Three completions wait when a turn ends.
SPECIFICATION Spec
CONSTANTS
  Sessions = {"a1", "a2", "b1"}
  Procs = {p1, p2, p3}
  Delegs = {d1, d2}
  p1 = p1
  p2 = p2
  p3 = p3
  d1 = d1
  d2 = d2
  NoItem = NoItem
  MaxChildren = 1
  MaxTombstones = 2
  MaxPosts = 2
  Key <- MCKey
  OwnerKey <- MCOwnerKey
  Subscriber = "a"
  Scenarios <- ThreeWaiting
INVARIANTS
  CompletionNeverLost
CHECK_DEADLOCK FALSE
