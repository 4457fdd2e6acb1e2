\* One session, two calls, the second a program with a step, two control requests; timers, drains and microtasks are
\* fair, accepted work may hang for ever.
SPECIFICATION TimerFairSpec
CONSTANTS
  s1 = s1
  h1 = h1
  h2 = h2
  Sessions = {s1}
  NoSession = NoSession
  Fences <- MCFences
  MaxConcurrent = 1
  MaxQueued = 1
  MaxCalls = 2
  MaxSteps = 1
  Boundaries = {h1, h2}
  ProgramCalls = {2}
INVARIANTS
  ControlTypeOK
  PageQuietAtHandover
PROPERTIES
  BoundariesAnswered
  NamedHandoffHonoured
