\* One-shot and recurring jobs, two processes that tick, under several scenarios.
SPECIFICATION CronFairSpec
CONSTANTS
  j1 = j1
  j2 = j2
  j3 = j3
  p1 = p1
  p2 = p2
  Jobs = {j1, j2}
  Procs = {p1, p2}
  NoJob = NoJob
  NoProc = NoProc
  MaxFires = 4
  Scenarios <- MCScenarios
INVARIANTS
  NoOverlap
  StolenStaysSilent
  FiredOnce
  WorkdirIsOwn
PROPERTIES
  DueJobsAreServed
CHECK_DEADLOCK FALSE
