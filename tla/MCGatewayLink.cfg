\* A boot, failures, wake signals and requests, under several scenarios.
SPECIFICATION LinkFairSpec
CONSTANTS
  r1 = r1
  r2 = r2
  Requests = {r1, r2}
  NoRequest = NoRequest
  MaxSockets = 4
  MaxIds = 4
  Scenarios <- MCScenarios
INVARIANTS
  AttemptAttended
  AnswersAreOwn
PROPERTIES
  LinkRecovers
CHECK_DEADLOCK FALSE
