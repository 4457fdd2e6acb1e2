\* A worker whose task was blocked and unblocked blocks the run of the next worker at the end of
\* its goal loop.
SPECIFICATION BoardSpec
CONSTANTS
  t1 = t1
  t2 = t2
  Tasks = {t1, t2}
  MaxRuns = 6
  FailureLimit = 2
  DefaultLimit = 2
  Scenarios <- LateGoal
INVARIANTS
  OwnReport
