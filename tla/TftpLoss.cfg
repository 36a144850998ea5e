SPECIFICATION FairSpec
CONSTANTS
  NumBlocks = 7
  LastLen = 100
  TFTP_SEQUENCE_SIZE = 3
  TIMEOUT_COUNT = 2
  ARP_TIMEOUT_COUNT = 3
  netretry = {"yes"}
  OurPort <- DistinctPorts
  MaxRestarts = 2
  Sessions = {1, 2, 3, 4, 5, 6}
  Duplicating = FALSE
  MaxLoss = 4
  EarlyTimers = FALSE
  ServerErrors = FALSE
INVARIANTS
  LossesAreRetried
  WholeUnlessLost
PROPERTIES
  Terminates
