\* What the comment of waitForAcceptedSessionWork promises.
SPECIFICATION ControlSpec
CONSTANTS
  s1 = s1
  h1 = h1
  h2 = h2
  Sessions = {s1}
  NoSession = NoSession
  Fences <- MCFences
  MaxConcurrent = 1
  MaxQueued = 1
  MaxCalls = 2
  MaxSteps = 1
  Boundaries = {h1, h2}
  ProgramCalls = {1, 2}
PROPERTIES
  AcceptedWorkFirst
