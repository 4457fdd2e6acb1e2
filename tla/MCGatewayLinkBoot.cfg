\* The connection is lost while the boot refreshes the sessions.
SPECIFICATION LinkSpec
CONSTANTS
  r1 = r1
  r2 = r2
  Requests = {r1, r2}
  NoRequest = NoRequest
  MaxSockets = 4
  MaxIds = 4
  Scenarios <- LostInBoot
INVARIANTS
  ReconnectOwned
CHECK_DEADLOCK FALSE
