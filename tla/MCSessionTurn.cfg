\* Two or three prompts in every mode, with a Stop, a goal continuation or a failure.
SPECIFICATION FairSpec
CONSTANTS
  Prompts = {1, 2, 3}
  MaxTurns = 4
  Scenarios <- MCScenarios
INVARIANTS
  OneOwner
  HeardOnce
  PromptsServed
PROPERTIES
  TurnsEnd
CHECK_DEADLOCK FALSE
