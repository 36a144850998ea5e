SPECIFICATION USpec
CONSTANTS
  LoaderUnits = 2
  AreaUnits = 3
  UsbLimit = 3
  Loaders <- MCLoaders
  Firmwares <- MCFirmwares
  Shipped <- MCShipped
  HoldTimes = {2, 3, 17, 18, 20}
  MfgMac = FALSE
  MaxRuns = 2
  MaxFaults = 1
INVARIANT
  NotReached
CHECK_DEADLOCK FALSE
