\* A prompt queued behind a submission that failed after the reservation.
SPECIFICATION Spec
CONSTANTS
  Prompts = {1, 2, 3}
  MaxTurns = 4
  Scenarios <- Orphaned
INVARIANTS
  NothingForgotten
CHECK_DEADLOCK FALSE
