CONSTANTS
  Platforms <- MCDesktop
  Clients <- MCClients
  MaxRuns = 2
  MaxRequests = 2
  MaxHeaders = 2
SPECIFICATION Spec
INVARIANTS
  RepliesAsAsked
CHECK_DEADLOCK FALSE
