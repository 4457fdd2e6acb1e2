\* A worker exits without a report: the breaker trips at once, and the same tick starts the task again.
SPECIFICATION BoardSpec
CONSTANTS
  t1 = t1
  t2 = t2
  Tasks = {t1, t2}
  MaxRuns = 6
  FailureLimit = 2
  DefaultLimit = 2
  Scenarios <- SilentExit
INVARIANTS
  GaveUpStays
