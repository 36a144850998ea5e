SPECIFICATION ApFairSpec
CONSTANTS
  APs = {a1, a2}
  Any = none
  Bssid = none
  HasKey = TRUE
  Channels = {1, 6}
  Secs <- MCSecs
  MaxTable = 1
  MaxChanges = 2
  MaxErrors = 1
INVARIANTS
  ApTypeOK
  NeverOpen
  BeaconFollows
PROPERTIES
  Reconnects
