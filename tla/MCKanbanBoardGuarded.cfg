\* A spawn fails with an error that reads like an authorization: the task is held back for ever.
SPECIFICATION BoardFairSpec
CONSTANTS
  t1 = t1
  t2 = t2
  Tasks = {t1, t2}
  MaxRuns = 6
  FailureLimit = 2
  DefaultLimit = 2
  Scenarios <- Denied
PROPERTIES
  HeldBackEnds
