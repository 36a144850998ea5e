SPECIFICATION IoFairSpec
CONSTANTS
  Objects = {"uart0", "uart1"}
  Ports = {"ttyS0", "ttyS1", "stdin"}
  NoPort = "none"
  Configs = {}
  Pins = {1}
  NPins = 1
  Loops = 1
  Size = 2
  Chunk = 2
  TickRange = 5
  Timeout = 1
  Wait = 1
  MaxLag = 3
  MaxFaults = 2
INVARIANTS
  ConsoleKept
  CarriedAll
  KeepsOwn
  SavedIsLast
PROPERTIES
  WaitsWhole
  LedsFollow
  Ends
CHECK_DEADLOCK FALSE
