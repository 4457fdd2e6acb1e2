\* A prompt queued behind a turn that is given up before its conversation.
SPECIFICATION Spec
CONSTANTS
  Prompts = {1, 2, 3}
  MaxTurns = 4
  Scenarios <- QueuedEarly
INVARIANTS
  NothingForgotten
CHECK_DEADLOCK FALSE
