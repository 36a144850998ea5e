SPECIFICATION Spec
CONSTANTS
  NumBlocks = 2
  SEQ = 4
  Damage <- BehindHead
  EarlyTimers = TRUE
  MaxFaults = 1
  MaxInFlight = 2
INVARIANTS
  WholeImage
