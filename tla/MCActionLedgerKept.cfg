\* What the ledgers keep: three calls of two sessions on two slots, records that
\* expire, room for one ordinary record and one ledger.
SPECIFICATION LedgerSpec
CONSTANTS
  s1 = s1
  s2 = s2
  p1 = p1
  a1 = a1
  a2 = a2
  b1 = b1
  Sessions = {s1, s2}
  NoSession = NoSession
  Fences <- MCFences
  MaxConcurrent = 2
  MaxQueued = 1
  MaxCalls = 3
  MaxSteps = 0
  Actions = {p1, b1}
  NoAction = NoAction
  ActionSession <- TwoSessions
  Programs = {p1}
  MaxRecords = 0
  MaxLedgers = 1
  ProgramsPerSession = 1
  ProgramsGlobal = 1
  MaxAged = 1
INVARIANTS
  LiveRecordsRetained
  ProgramRunsOnce
PROPERTIES
  FenceKeepsQuiet
