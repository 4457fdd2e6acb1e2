\* The effects: one session, a program with a step, a further call that may wait;
\* microtasks and timers are fair, effects are not.
SPECIFICATION LedgerFairSpec
CONSTANTS
  s1 = s1
  s2 = s2
  p1 = p1
  a1 = a1
  a2 = a2
  b1 = b1
  Sessions = {s1}
  NoSession = NoSession
  Fences <- MCFences
  MaxConcurrent = 1
  MaxQueued = 1
  MaxCalls = 2
  MaxSteps = 1
  Actions = {p1, a1, a2}
  NoAction = NoAction
  ActionSession <- OneSession
  Programs = {p1}
  MaxRecords = 9
  MaxLedgers = 1
  ProgramsPerSession = 1
  ProgramsGlobal = 1
  MaxAged = 0
INVARIANTS
  LedgerTypeOK
  EffectsStayGuarded
PROPERTIES
  ResponseSettles
