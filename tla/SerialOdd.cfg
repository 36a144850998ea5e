SPECIFICATION SerialSpec
CONSTANTS
  Objects = {o1}
  Ports = {p1}
  NoPort = none
  Configs <- MCOdd
INVARIANTS SetAsAsked
