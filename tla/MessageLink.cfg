CONSTANTS
  HeaderSize = 2
  ChunkSize = 2
  PayloadSize <- MCPayloadSize
  Capacity = 6
  MaxMessages = 5
SPECIFICATION Spec
INVARIANTS
  IInv
  CompletedInOrder
PROPERTY ImplementsFifo
CHECK_DEADLOCK FALSE
