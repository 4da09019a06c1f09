CONSTANTS
  Platforms <- MCPlatforms
  Clients <- MCClients
  MaxRuns = 2
  MaxRequests = 2
  MaxHeaders = 2
SPECIFICATION Spec
INVARIANTS
  TypeOK
  EngineOutlivesRequests
  DesktopBodiesArrive
  Esp32EmptyRepliesComplete
  NoHeaderInContent
CHECK_DEADLOCK FALSE
