\* Guidance to a notification turn after an old Stop.
SPECIFICATION Spec
CONSTANTS
  Prompts = {1, 2, 3}
  MaxTurns = 4
  Scenarios <- SteeredLate
INVARIANTS
  SteerKept
CHECK_DEADLOCK FALSE
