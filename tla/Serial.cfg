SPECIFICATION SerialSpec
CONSTANTS
  Objects = {o1, o2}
  Ports = {p1, p2}
  NoPort = none
  Configs <- MCSome
INVARIANTS KeepsOwn SavedIsLast
