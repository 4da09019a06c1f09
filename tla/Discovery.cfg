CONSTANTS
  Senders <- MCSenders
  Ports <- MCTwoPorts
  BroadcastTicks = 1
  MaxReceivers = 2
  MaxFaults = 3
SPECIFICATION LiveSpec
INVARIANTS
  TypeOK
  NoSocketLeaks
PROPERTIES
  OnlyFaultsSeparate
  PairsAgain
CHECK_DEADLOCK FALSE
