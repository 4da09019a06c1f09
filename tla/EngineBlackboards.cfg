CONSTANTS
  SizeMax = 120
  MaxAlign = 4
  LongBits = 8
  Types <- MCTypes
  ByteBits = 2
  Unbound <- MCUnbound
  Workloads <- MCWorkloads
  StatsType <- MCStats
  Models <- MCModels
  MaxBlackboards = 12
  Window = 2
  Samples <- MCSamples
  Outputs <- MCOutputs
  Wild <- MCWild
  MaxTicks = 3
  MaxRuns = 2
SPECIFICATION Spec
INVARIANTS
  BoardFieldsInUsedSpace
CHECK_DEADLOCK FALSE
