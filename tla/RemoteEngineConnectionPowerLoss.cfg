CONSTANTS
  HeaderSize = 1
  ChunkSize = 1
  Conns <- MCConns
  Capacity = 4
  SubscribeSize = 1
  FieldsSize = 2
  SenderRate = 1
  ReceiverRate = 2
  ReconnectTicks = 1
  MaxFaults = 1
  PowerLosses = TRUE
SPECIFICATION LiveSpec
PROPERTIES
  NetworkFailureIsNoticed
