CONSTANTS
  CellCount = 2
  Clients <- MCClients
  SeqSpan = 4
  MaxFrames = 5
SPECIFICATION Spec
INVARIANTS
  TypeOK
  ParityTellsWriting
  RepeatedSeqIsStable
CHECK_DEADLOCK FALSE
