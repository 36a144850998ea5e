SPECIFICATION IoSpec
CONSTANTS
  Objects = {"uart0", "uart1"}
  Ports = {"ttyS0", "ttyS1", "stdin"}
  NoPort = "none"
  Configs = {}
  Pins = {1}
  NPins = 1
  Loops = 1
  Size = 1
  Chunk = 2
  TickRange = 7
  Timeout = 2
  Wait = 2
  MaxLag = 4
  MaxFaults = 0
INVARIANTS PortsRestored
CHECK_DEADLOCK FALSE
