SPECIFICATION Spec
CONSTANTS
  NumBlocks = 3
  LastLen = 100
  TFTP_SEQUENCE_SIZE = 4
  TIMEOUT_COUNT = 1
  ARP_TIMEOUT_COUNT = 3
  netretry = {"yes"}
  OurPort <- SamePort
  MaxRestarts = 2
  Sessions = {1}
  Duplicating = TRUE
  MaxLoss = 0
  EarlyTimers = TRUE
  ServerErrors = FALSE
INVARIANTS
  SuccessMeansWholeFile
