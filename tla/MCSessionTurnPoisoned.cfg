\* A prompt that replaces a turn in its post-processing.
SPECIFICATION Spec
CONSTANTS
  Prompts = {1, 2, 3}
  MaxTurns = 4
  Scenarios <- Replaced
INVARIANTS
  NotBornPoisoned
CHECK_DEADLOCK FALSE
