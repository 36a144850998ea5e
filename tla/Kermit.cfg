SPECIFICATION FairSpec
CONSTANTS
  NumBlocks = 6
  SEQ = 6
  Damage <- Damages
  EarlyTimers = FALSE
  MaxFaults = 5
  MaxInFlight = 2
INVARIANTS
  KTypeOK
  WholeImage
  AcknowledgedKept
  ErrorCostsOneBlock
PROPERTIES
  Returns
  KImplementsDownload
