\* A request is repeated while the boot hook is reconnecting.
SPECIFICATION LinkSpec
CONSTANTS
  r1 = r1
  r2 = r2
  Requests = {r1, r2}
  NoRequest = NoRequest
  MaxSockets = 4
  MaxIds = 4
  Scenarios <- BothReconnect
PROPERTIES
  ResentWhenOpen
CHECK_DEADLOCK FALSE
