SPECIFICATION Spec
CONSTANTS
  NumBlocks = 4
  LastLen = 100
  TFTP_SEQUENCE_SIZE = 3
  TIMEOUT_COUNT = 1
  ARP_TIMEOUT_COUNT = 3
  netretry = {"yes"}
  OurPort <- DistinctPorts
  MaxRestarts = 1
  Sessions = {1}
  Duplicating = FALSE
  MaxLoss = 1
  EarlyTimers = FALSE
  ServerErrors = FALSE
PROPERTIES
  SameBlockIgnored
