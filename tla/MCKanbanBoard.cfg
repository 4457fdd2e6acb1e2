\* Two tasks, their workers, the dispatcher and an operator, under several scenarios.
SPECIFICATION BoardFairSpec
CONSTANTS
  t1 = t1
  t2 = t2
  Tasks = {t1, t2}
  MaxRuns = 6
  FailureLimit = 2
  DefaultLimit = 2
  Scenarios <- MCScenarios
INVARIANTS
  BoardTypeOK
  RunsAgree
  OwnReport
  TakenBackIsGone
PROPERTIES
  TasksSettle
