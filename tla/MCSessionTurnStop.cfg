\* A Stop that finds the thread assigned and not started.
SPECIFICATION Spec
CONSTANTS
  Prompts = {1, 2, 3}
  MaxTurns = 4
  Scenarios <- StoppedEarly
PROPERTIES
  StopStops
CHECK_DEADLOCK FALSE
