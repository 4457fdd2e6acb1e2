\* Two sessions, one slot, leases of up to two steps, fair scheduling.
SPECIFICATION FairSpec
CONSTANTS
  s1 = s1
  s2 = s2
  f1 = f1
  Sessions = {s1, s2}
  NoSession = NoSession
  Fences = {f1}
  MaxConcurrent = 1
  MaxQueued = 2
  MaxCalls = 3
  MaxSteps = 2
INVARIANTS
  StepsInsideSlot
PROPERTIES
  EverySessionIsALane
  QueuedCallsSettle
