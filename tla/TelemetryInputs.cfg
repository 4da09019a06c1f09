CONSTANTS
  SlotCount = 2
  Fields <- MCFields
  Layouts <- MCLayouts
  Clients <- MCClients
  ClientSeqs = {0, 7}
  MaxWrites = 3
  MaxSessions = 2
SPECIFICATION LiveSpec
INVARIANTS
  IInv
  WritesReachTheFieldMeant
  ServerSeqsIncrease
PROPERTIES
  ImplementsLog
  AcceptedIsShown
CHECK_DEADLOCK FALSE
