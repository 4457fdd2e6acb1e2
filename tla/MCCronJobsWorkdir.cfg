\* A job with a workdir is run by hand while the ticker runs another; later a job without one.
SPECIFICATION CronSpec
CONSTANTS
  j1 = j1
  j2 = j2
  j3 = j3
  p1 = p1
  p2 = p2
  Jobs = {j1, j2, j3}
  Procs = {p1, p2}
  NoJob = NoJob
  NoProc = NoProc
  MaxFires = 4
  Scenarios <- ByHand
INVARIANTS
  WorkdirStaysPrivate
CHECK_DEADLOCK FALSE
