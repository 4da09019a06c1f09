CONSTANTS
  HeaderSize = 2
  ChunkSize = 2
  Conns <- MCConns
  Capacity = 7
  SubscribeSize = 1
  FieldsSize = 3
  SenderRate = 2
  ReceiverRate = 1
  ReconnectTicks = 1
  MaxFaults = 2
  PowerLosses = TRUE
SPECIFICATION Spec
INVARIANTS
  TypeOK
  FramesStayWhole
  OnlyExpectedMessages
  TokenNeverLost
  AtMostTwoFieldsPerRequest
  DisconnectLeavesNothing
