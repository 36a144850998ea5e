SPECIFICATION Spec
CONSTANTS
  NumSectors = 4
  SectorSize = 2
  Reserved = 3
  Requests <- Calls
  MaxFaults = 1
  MaxCalls = 2
INVARIANTS
  FlashTypeOK
  SuccessMeansWritten
  NeighboursKept
  DoneSectorsKept
CHECK_DEADLOCK FALSE
