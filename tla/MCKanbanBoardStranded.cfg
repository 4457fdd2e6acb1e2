\* The breaker stops a task that was claimed from the command line in the middle of the tick.
SPECIFICATION BoardSpec
CONSTANTS
  t1 = t1
  t2 = t2
  Tasks = {t1, t2}
  MaxRuns = 6
  FailureLimit = 2
  DefaultLimit = 2
  Scenarios <- ClaimInTick
INVARIANTS
  ReadyIsClaimable
